--------------------------- MODULE MCSealingWorker ---------------------------
(* Model-checking instance of SealingWorker: two sectors sealed by two     *)
(* threads, each with its own cache directory and its own data, in         *)
(* different size classes and circuit versions, each staging pieces of    *)
(* two sizes.                                                              *)
EXTENDS SealingWorker, TLC

CONSTANTS s1, s2, d1, d2, a, b

MCVariants == {[size |-> "2KiB", version |-> "V1"], [size |-> "8MiB", version |-> "V1_1"]}
MCCacheOf == (s1 :> d1) @@ (s2 :> d2)
MCVariantOf == (s1 :> [size |-> "2KiB", version |-> "V1"])
               @@ (s2 :> [size |-> "8MiB", version |-> "V1_1"])
MCDataOf == (s1 :> a) @@ (s2 :> b)

(* Sector sizes scaled down to 2 and 4 minimum pieces, so that pieces of   *)
(* one and two minimum pieces need alignment and can fill a sector.       *)
MCSectorBytesOf == ("2KiB" :> 256) @@ ("8MiB" :> 512)
=============================================================================
