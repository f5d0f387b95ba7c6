--------------------------- MODULE MCLectureLocks ---------------------------
(***************************************************************************)
(* One moderator and two guests: a may share the screen, b comes muted and *)
(* may leave and come back.                                                *)
(***************************************************************************)
EXTENDS LectureLocks
CONSTANTS a, b, m

MCGuests == {a, b}
MCModerators == {m}
MCSharers == {a}
MCReloaders == {b}
MCStartMuted == {b}
=============================================================================
