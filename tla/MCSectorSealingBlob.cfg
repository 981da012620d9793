CONSTANTS
  Sectors = {s1, s2}
  CacheDirs = {d1}
  Tickets = {t1, t2}
  Seeds = {e1}
  Data = {a, b}
  Variants <- MCVariants
  None = None
SPECIFICATION Spec
CONSTRAINT HeldBound
SYMMETRY Symmetry
INVARIANT PreCommit2BindsBlob
