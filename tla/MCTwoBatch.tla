----------------------------- MODULE MCTwoBatch -----------------------------
(* A model of two layers.                                                     *)
EXTENDS TwoBatch
=============================================================================
