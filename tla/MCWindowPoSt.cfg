\* Three replicas, two per partition (a full and a partly filled partition),
\* two randomness values (a challenge rotation), one lost replica.
CONSTANTS
  s1 = s1
  s2 = s2
  s3 = s3
  r1 = r1
  r2 = r2
  None = None
  Replicas <- MCReplicas
  PartitionSectors = 2
  Rands = {r1, r2}
  MaxFaults = 1
SPECIFICATION Spec
INVARIANTS
  PartitionsTile
  ProvedWasAnswered
  WindowPoStRoundTrip
