---------------------------- MODULE MCEventDrain ----------------------------
(* Small instances of the drain for TLC.                                   *)
EXTENDS EventDrainProperties, TLC

Symmetric == Permutations(OrdId) \cup Permutations(Batch)
=============================================================================
