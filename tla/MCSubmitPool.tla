---------------------------- MODULE MCSubmitPool ----------------------------
(* Three workers, for four devices.                                           *)
EXTENDS SubmitPool
=============================================================================
