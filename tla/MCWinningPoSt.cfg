\* Three sectors, two audited per winning PoSt, two randomness values and
\* one lost replica.
CONSTANTS
  s1 = s1
  s2 = s2
  s3 = s3
  r1 = r1
  r2 = r2
  Replicas <- MCReplicas
  Rands = {r1, r2}
  WinningCount = 2
  Draw <- MCDraw
  MaxFaults = 1
  None = None
SPECIFICATION Spec
INVARIANTS WinningProvesAllGiven
