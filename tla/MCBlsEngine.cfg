CONSTANTS
  Keys = {k1, k2}
  Seeds = {z1}
  SeedKey <- MCSeedKey
  Messages <- MCMessages
  MaxList = 2
  Garbage = Garbage
SPECIFICATION Spec
CONSTRAINT HeldBound
INVARIANTS AggregateVerifiesExactly HashVerifyMatchesVerify 
