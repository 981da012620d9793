\* One property: the audit promise of spec 4.4/4.6, under the same bounds.
CONSTANTS
  s1 = s1
  s2 = s2
  s3 = s3
  r1 = r1
  r2 = r2
  Replicas <- MCReplicas
  Rands = {r1, r2}
  WinningCount = 2
  Draw <- MCDraw
  MaxFaults = 1
  None = None
SPECIFICATION Spec
INVARIANT WinningAuditsSelected
