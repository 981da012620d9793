----------------------------- MODULE MCBlsEngine -----------------------------
(* Model-checking instance of BlsEngine: two signers, and messages of two  *)
(* lengths with different bytes, so that where a split falls matters.    *)
EXTENDS BlsEngine

MCMessages == {<<0>>, <<1, 0>>}

(* The one seed a test passes derives the first key.                      *)
MCSeedKey == [z \in Seeds |-> CHOOSE k \in Keys : TRUE]

(* Bound: signatures held, and pairs aggregated into one signature.        *)
MaxHeld == 3
HeldBound ==
  /\ Cardinality(held) <= MaxHeld
  /\ \A h \in held : BagCardinality(h.signed) <= MaxList
=============================================================================
