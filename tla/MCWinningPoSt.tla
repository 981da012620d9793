----------------------------- MODULE MCWinningPoSt -----------------------------
EXTENDS WinningPoSt

CONSTANTS s1, s2, s3, r1, r2

MCReplicas == <<s1, s2, s3>>

(* Draws of two randomness values: they select different sectors of the   *)
(* set of three, and different positions for smaller set lengths.          *)
MCDraw(r, i) == IF r = r1 THEN 4 + i ELSE 7 * i
=============================================================================
