----------------------------- MODULE MCStreamRing -----------------------------
(* Small instances of StreamRing: two readers, a cap smaller than a chunk.   *)
EXTENDS StreamRing

CONSTANTS ra, rb
=============================================================================
