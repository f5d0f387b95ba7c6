---------------------------- MODULE MCRoomClock ----------------------------
(***************************************************************************)
(* Two units to a minute, a default life of two minutes, meetings of up to *)
(* three and an insurance of four, on a ring of four minutes (so that the  *)
(* insurance is a full turn, as in the code).                              *)
(***************************************************************************)
EXTENDS RoomClock

MCTypedMinutes == 0 .. 4
=============================================================================
