-------------------------------- MODULE Lifecycle --------------------------------
(* What the engine promises a client about the tasks of its batches, and      *)
(* nothing about queues, timers, workers, counters or the log: a task waits,  *)
(* runs once what it depends on has completed, is retried while its budget    *)
(* lasts, and fails for want of budget or because a dependency has failed.    *)
EXTENDS OrionTasks

VARIABLES
    life, \* "unknown", "waiting", "running", "completed" or "failed"
    left  \* the retries left to each task

Init ==
    /\ life = [t \in Tasks |-> "unknown"]
    /\ left = [t \in Tasks |-> RetriesLeft(t, FirstRetry[t])]

(* A batch is admitted as a whole, and no task is admitted twice.             *)
Admit(b) ==
    /\ \A t \in b : life[t] = "unknown"
    /\ life' = [t \in Tasks |-> IF t \in b THEN "waiting" ELSE life[t]]
    /\ UNCHANGED left

Begin(t) ==
    /\ life[t] = "waiting"
    /\ \A d \in Dependencies[t] : life[d] = "completed"
    /\ life' = [life EXCEPT ![t] = "running"]
    /\ UNCHANGED left

Succeed(t) ==
    /\ life[t] = "running" /\ t \notin FailPayload
    /\ life' = [life EXCEPT ![t] = "completed"]
    /\ UNCHANGED left

TryAgain(t) ==
    /\ life[t] = "running" /\ t \in FailPayload
    /\ left[t] > 0
    /\ life' = [life EXCEPT ![t] = "waiting"]
    /\ left' = [left EXCEPT ![t] = @ - 1]

GiveUp(t) ==
    /\ life[t] = "running" /\ t \in FailPayload
    /\ left[t] = 0
    /\ life' = [life EXCEPT ![t] = "failed"]
    /\ UNCHANGED left

(* A failed dependency takes down only what still waits.                      *)
GoDown(t) ==
    /\ life[t] = "waiting"
    /\ \E d \in Dependencies[t] : life[d] = "failed"
    /\ life' = [life EXCEPT ![t] = "failed"]
    /\ UNCHANGED left

Next ==
    \/ \E b \in Batches : Admit(b)
    \/ \E t \in Tasks : Begin(t) \/ Succeed(t) \/ TryAgain(t) \/ GiveUp(t) \/ GoDown(t)

Spec == Init /\ [][Next]_<<life, left>>
=============================================================================
