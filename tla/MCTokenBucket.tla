--------------------------- MODULE MCTokenBucket ---------------------------
(***************************************************************************)
(* Two callers on a bucket of two tokens, a token each second of two units.*)
(***************************************************************************)
EXTENDS TokenBucket
CONSTANTS p, q

MCCallers == {p, q}
=============================================================================
