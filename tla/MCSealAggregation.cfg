CONSTANTS
  s1 = s1
  s2 = s2
  r1 = r1
  r2 = r2
  e1 = e1
  e2 = e2
  d1 = d1
  t1 = t1
  Variants <- MCVariants
  Sectors = {s1, s2}
  CommRVals = {r1, r2}
  CommDVals = {d1}
  Tickets = {t1}
  Seeds = {e1, e2}
  Sealed <- MCSealed
  MaxAgg = 2
SPECIFICATION Spec
\* Each aggregate call is independent of the previous one: the state after
\* one is a complete answer, and the caller may always call again.
INVARIANTS AggregateSound ReorderRejected HonestAggregateVerifies
