---------------------------- MODULE MCAffinityWave ----------------------------
(* Small instances of AffinityWave.                                          *)
EXTENDS AffinityWave

LastLayer == {NLayers - 1}
=============================================================================
