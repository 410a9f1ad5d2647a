--------------------------------- MODULE MCPanels ---------------------------------
(* Panels with one task that is retried once, where the cap of the delay      *)
(* bites, and one that must not be retried.                                   *)
EXTENDS Panels, TLC

CONSTANTS w1, w2

SmallBudgets == [t \in Tasks |-> IF t = "a" THEN 5 ELSE -1]
FirstRetries == [t \in Tasks |-> IF t = "a" THEN 4 ELSE 0]
PanelsSymmetry == Permutations(Workers)
=============================================================================
