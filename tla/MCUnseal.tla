------------------------------- MODULE MCUnseal -------------------------------
EXTENDS Unseal

(* Two sector contents that differ in one byte of each padded group.       *)
MCData == {<<0, 1, 1, 0>>, <<0, 0, 1, 1>>}

=============================================================================
