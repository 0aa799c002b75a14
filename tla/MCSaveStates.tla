---------------------------- MODULE MCSaveStates ----------------------------
(* Instances of SaveStates for TLC, with the programs of MCScheduler.        *)
EXTENDS SaveStates, MCScheduler
=============================================================================
