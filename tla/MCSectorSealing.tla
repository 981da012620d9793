--------------------------- MODULE MCSectorSealing ---------------------------
(* Model-checking instance of SectorSealing: two sectors of one prover,    *)
(* two size classes so that a piece list can fill the wrong sector size.   *)
EXTENDS SectorSealing, Naturals, TLC

MCVariants == {[size |-> "2KiB", version |-> "V1"], [size |-> "8MiB", version |-> "V1"]}

(* Bound: how many blobs and responses the caller accumulates per kind.    *)
MaxHeld == 2

HeldBound ==
  /\ Cardinality(pc1Out) <= MaxHeld
  /\ Cardinality(pc2Out) <= MaxHeld
  /\ Cardinality(c1Out) <= MaxHeld
  /\ Cardinality(c2Out) <= MaxHeld
(* Sectors, cache directories, tickets and data are only compared.        *)
Symmetry == Permutations(Sectors) \cup Permutations(CacheDirs)
              \cup Permutations(Tickets) \cup Permutations(Data)
=============================================================================
