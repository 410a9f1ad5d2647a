--------------------------------- MODULE MCEngine ---------------------------------
(* Engine, and what it implements, with the task graphs of Instances.         *)
EXTENDS EngineLifecycle, Instances

CONSTANTS w1, w2
=============================================================================
