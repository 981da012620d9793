CONSTANTS
  s1 = s1  s2 = s2  d1 = d1  d2 = d2  a = a  b = b
  Sectors = {s1, s2}
  CacheDirs = {d1, d2}
  Tickets = {t1, t2}
  Seeds = {e1, e2}
  Data = {a, b}
  Variants <- MCVariants
  CacheOf <- MCCacheOf
  VariantOf <- MCVariantOf
  DataOf <- MCDataOf
  SectorBytesOf <- MCSectorBytesOf
  PieceSizes = {127, 254}
  MaxWriteFailures = 1
  None = None
  LogFds = {fd1}
  Stderr = Stderr
SPECIFICATION WSpec
\* Both threads stop once their sectors are sealed and their caches cleared.
CHECK_DEADLOCK FALSE
INVARIANTS StagedPiecesAligned StagedCountMatchesFile PieceOffsetsConsistent
PROPERTIES EventuallySealed
