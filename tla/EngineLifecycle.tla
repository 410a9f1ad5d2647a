----------------------------- MODULE EngineLifecycle -----------------------------
(* Engine implements Lifecycle: a ready task still waits, and the retries     *)
(* left are what retryCount has not used of the budget.                       *)
EXTENDS Engine

LifeOf(s) ==
    CASE s = "absent" -> "unknown"
      [] s \in {"pending", "ready"} -> "waiting"
      [] OTHER -> s

Life == [t \in Tasks |-> LifeOf(status[t])]
Left == [t \in Tasks |-> RetriesLeft(t, retryCount[t])]

L == INSTANCE Lifecycle WITH life <- Life, left <- Left

(* Whatever the goroutines do, a client sees a Lifecycle: the steps of the    *)
(* run loop change one task at a time in one of its six ways, batches enter   *)
(* whole, and everything else, releases and timers included, changes nothing. *)
ImplementsLifecycle == L!Spec
=============================================================================
