----------------------------- MODULE MCWindowPoSt -----------------------------
EXTENDS WindowPoSt

CONSTANTS s1, s2, s3

(* Three sectors in two partitions of two: one full, one partly filled.    *)
MCReplicas == <<s1, s2, s3>>

=============================================================================
