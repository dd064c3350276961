---------------------------- MODULE MCStreamSession ----------------------------
(* Small instances of StreamSession: two or three requests of one conversation. *)
EXTENDS StreamSession

CONSTANTS p1, p2, d1, d2
=============================================================================
