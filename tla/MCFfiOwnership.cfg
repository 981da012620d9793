\* One sealer whose blobs and Commit2 response are read by its own later
\* calls and by the aggregator, one BLS thread releasing the zero signature
\* with either release function, and four addresses for seven responses.
CONSTANTS
  s1 = s1
  b1 = b1
  a1 = a1
  a2 = a2
  a3 = a3
  a4 = a4
  Sealers = {s1}
  Aggregator = g
  Signers = {b1}
  Addrs = {a1, a2, a3, a4}
  None = None
SPECIFICATION Spec
 
PROPERTIES AllReleased
