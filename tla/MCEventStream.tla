---------------------------- MODULE MCEventStream ----------------------------
(* Two pipeline runs and a client that listens to both.                     *)
EXTENDS EventStream, TLC
CONSTANTS upload, rerun
==============================================================================
