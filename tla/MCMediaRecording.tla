--------------------------- MODULE MCMediaRecording ---------------------------
(* The instance TLC checks: two takes of up to three chunks, one more than   *)
(* the proxy lets through, and one restart of spr-storage.                   *)
EXTENDS MediaRecording
=============================================================================
