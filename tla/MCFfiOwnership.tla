---------------------------- MODULE MCFfiOwnership ----------------------------
(* Sealing threads, the seal aggregator and BLS threads over a few heap    *)
(* addresses: fewer than the responses of one run, so addresses are        *)
(* reused, and enough that some thread can always allocate (deadlock is    *)
(* checked).                                                                *)
EXTENDS FfiOwnership, TLC

CONSTANTS s1, b1, a1, a2, a3, a4
=============================================================================
