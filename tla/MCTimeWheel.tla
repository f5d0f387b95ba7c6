----------------------------- MODULE MCTimeWheel -----------------------------
(***************************************************************************)
(* The wheel on a ring of 5 slots in 3 words of 2 bits: as with 300 slots  *)
(* in 320 bits, the last word has a bit no slot uses.                      *)
(***************************************************************************)
EXTENDS TimeWheel
CONSTANTS k1, k2

MCKeys == {k1, k2}
=============================================================================
