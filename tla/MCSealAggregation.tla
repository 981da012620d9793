--------------------------- MODULE MCSealAggregation ---------------------------
(* Two sectors sealed under each of two registered seal proofs, with one  *)
(* seed per proof and different CommRs, and a caller                      *)
(* free to forge inputs from two CommRs and two seeds; arrays of at most   *)
(* two entries, so that order can differ.                                  *)
EXTENDS SealAggregation

CONSTANTS s1, s2, r1, r2, e1, e2, d1, t1

V2K == [size |-> "2KiB", version |-> "V1"]
V8M == [size |-> "8MiB", version |-> "V1"]
MCVariants == {V2K, V8M}

MCSealed ==
  { [variant |-> V2K, commR |-> r1, commD |-> d1, sector |-> s1, ticket |-> t1, seed |-> e1],
    [variant |-> V2K, commR |-> r2, commD |-> d1, sector |-> s2, ticket |-> t1, seed |-> e1],
    [variant |-> V8M, commR |-> r1, commD |-> d1, sector |-> s2, ticket |-> t1, seed |-> e2],
    [variant |-> V8M, commR |-> r2, commD |-> d1, sector |-> s1, ticket |-> t1, seed |-> e2] }
=============================================================================
