-------------------------------- MODULE MCRecovery --------------------------------
(* Recovery with the task graphs of Instances.                                *)
EXTENDS Recovery, Instances

CONSTANTS w1, w2
=============================================================================
