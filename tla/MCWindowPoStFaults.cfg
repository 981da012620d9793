\* One property: the partial-failure promise of spec 4.5, under the same bounds.
CONSTANTS
  s1 = s1
  s2 = s2
  s3 = s3
  r1 = r1
  r2 = r2
  None = None
  Replicas <- MCReplicas
  PartitionSectors = 2
  Rands = {r1, r2}
  MaxFaults = 1
SPECIFICATION Spec
INVARIANTS
  FaultTolerantRoundTrip
