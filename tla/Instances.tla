-------------------------------- MODULE Instances --------------------------------
(* Small task graphs for TLC; a cfg picks one of them by its prefix.          *)
EXTENDS Integers, TLC

(* A diamond 1 -> {2, 3} -> 4 where 3 fails, has one retry, and takes 4 down  *)
(* while 2 may be running. The second batch names 1 again, beside a chain     *)
(* 5 -> 6 -> 7 whose head may not be retried: it is refused, or it goes first *)
(* and the diamond is refused.                                                *)
GraphTasks == 1 .. 7
GraphDeps == (1 :> {}) @@ (2 :> {1}) @@ (3 :> {1}) @@ (4 :> {2, 3})
             @@ (5 :> {}) @@ (6 :> {1, 5}) @@ (7 :> {6})
GraphPriority == [t \in GraphTasks |-> IF t = 3 THEN 0 ELSE 1]
GraphRetries == [t \in GraphTasks |-> CASE t = 3 -> 1 [] t = 5 -> -1 [] OTHER -> 0]
GraphFirstRetry == [t \in GraphTasks |-> 0]
GraphBatches == {{1, 2, 3, 4}, {1, 5, 6, 7}}

(* A diamond: 1 releases 2 and 4, 3 waits for both. 2 fails once more than it *)
(* may be retried and takes 3 down, while 4 may be running.                   *)
DiamondTasks == 1 .. 4
DiamondDeps == (1 :> {}) @@ (2 :> {1}) @@ (3 :> {2, 4}) @@ (4 :> {1})
DiamondPriority == [t \in DiamondTasks |-> 0]
DiamondRetries == [t \in DiamondTasks |-> IF t = 2 THEN 1 ELSE 0]
DiamondFirstRetry == [t \in DiamondTasks |-> 0]
DiamondBatches == {DiamondTasks}

(* 1 -> 2, and nothing else.                                                  *)
ChainTasks == 1 .. 2
ChainDeps == (1 :> {}) @@ (2 :> {1})
ChainPriority == [t \in ChainTasks |-> 0]
ChainRetries == [t \in ChainTasks |-> -1]
ChainFirstRetry == [t \in ChainTasks |-> 0]
ChainBatches == {ChainTasks}

(* Two requests that name task 2.                                             *)
OverlapTasks == 1 .. 3
OverlapDeps == [t \in OverlapTasks |-> {}]
OverlapPriority == [t \in OverlapTasks |-> 0]
OverlapRetries == [t \in OverlapTasks |-> 0]
OverlapFirstRetry == [t \in OverlapTasks |-> 0]
OverlapBatches == {{1, 2}, {2, 3}}
=============================================================================
