-------------------------------- MODULE Scheduler --------------------------------
(* The state that the run loop of internal/engine/scheduler.go owns, and one  *)
(* operator for each case of its select. The run loop is one goroutine, so a  *)
(* handler is one step, with one exception: propagateFailure appends to the   *)
(* log and stores the Cancelled flags one task at a time while workers read   *)
(* and append, so it is a worklist (cascade) that a step shortens by a task,  *)
(* and the run loop takes no other case until the worklist is empty.          *)
(* Left out: events, telemetry and timestamps, which no decision here reads,  *)
(* and queueSize, which every Enqueue and Dequeue keeps equal to the length   *)
(* of readyQueue.                                                             *)
EXTENDS Wal

VARIABLES
    status,      \* tasks[t].Status, "absent" when the map has no entry
    retryCount,  \* tasks[t].RetryCount
    cancelled,   \* the tasks whose Cancelled flag is 1
    inDegree,    \* Scheduler.inDegree
    dependents,  \* Scheduler.dependents, as sets: nothing depends on the order
    readyQueue,  \* entries per task in the heap; a status may outdate an entry
    retryTimers, \* AfterFunc timers per task, until retryChan takes the task
    metrics,     \* atomicMetrics
    cascade      \* tasks propagateFailure has queued and not looked at

schedVars == <<status, retryCount, cancelled, inDegree, dependents,
               readyQueue, retryTimers, metrics, cascade>>

Counters == {"pending", "running", "completed", "failed", "retried"}

(* inDegree may go below zero in no execution; Int keeps the type honest.     *)
SchedulerTypeOK ==
    /\ status \in [Tasks -> Status]
    /\ retryCount \in [Tasks -> Int]
    /\ cancelled \subseteq Tasks
    /\ inDegree \in [Tasks -> Int]
    /\ dependents \in [Tasks -> SUBSET Tasks]
    /\ readyQueue \in [Tasks -> Nat]
    /\ retryTimers \in [Tasks -> Nat]
    /\ metrics \in [Counters -> Int]
    /\ cascade \subseteq Tasks

(* NewScheduler                                                               *)
SchedulerInit ==
    /\ status = [t \in Tasks |-> "absent"]
    /\ retryCount = FirstRetry
    /\ cancelled = {}
    /\ inDegree = [t \in Tasks |-> 0]
    /\ dependents = [t \in Tasks |-> {}]
    /\ readyQueue = [t \in Tasks |-> 0]
    /\ retryTimers = [t \in Tasks |-> 0]
    /\ metrics = [c \in Counters |-> 0]
    /\ cascade = {}

(* The same after the scheduler before it is gone.                            *)
SchedulerReset ==
    /\ status' = [t \in Tasks |-> "absent"]
    /\ retryCount' = FirstRetry
    /\ cancelled' = {}
    /\ inDegree' = [t \in Tasks |-> 0]
    /\ dependents' = [t \in Tasks |-> {}]
    /\ readyQueue' = [t \in Tasks |-> 0]
    /\ retryTimers' = [t \in Tasks |-> 0]
    /\ metrics' = [c \in Counters |-> 0]
    /\ cascade' = {}

Present == {t \in Tasks : status[t] # "absent"}
Unmet(t) == {d \in Dependencies[t] : status[d] # "completed"}

(* The counter a status is reported under; "ready" counts as pending.         *)
CounterOf(s) == IF s \in {"pending", "ready"} THEN "pending" ELSE s
Moved(from, to) == [metrics EXCEPT ![from] = @ - 1, ![to] = @ + 1]

(* readyQueue.Enqueue for every task of a set.                                *)
Enqueued(set) == [t \in Tasks |-> readyQueue[t] + IF t \in set THEN 1 ELSE 0]

-----------------------------------------------------------------------------
(* Admission                                                                  *)

(* The checks of handleIngest: no task is known already, and every dependency *)
(* is in the batch or known.                                                  *)
Admissible(b) ==
    /\ b \cap Present = {}
    /\ \A t \in b : Dependencies[t] \subseteq b \cup Present

(* handleIngest for a batch that passes the checks.                           *)
HandleIngest(b) ==
    LET roots == {t \in b : Unmet(t) = {}}
    IN  /\ cascade = {}
        /\ Admissible(b)
        /\ status' = [t \in Tasks |-> IF t \in roots THEN "ready"
                                      ELSE IF t \in b THEN "pending"
                                      ELSE status[t]]
        /\ inDegree' = [t \in Tasks |-> IF t \in b THEN Cardinality(Unmet(t))
                                        ELSE inDegree[t]]
        /\ dependents' = [d \in Tasks |->
                            dependents[d] \cup {t \in b : d \in Unmet(t)}]
        /\ readyQueue' = Enqueued(roots)
        /\ metrics' = [metrics EXCEPT !["pending"] = @ + Cardinality(b)]
        /\ UNCHANGED <<retryCount, cancelled, retryTimers, cascade>>

(* handleIngest for a batch that fails them: the error is the only effect.    *)
RefuseIngest(b) == cascade = {} /\ ~Admissible(b) /\ UNCHANGED schedVars

-----------------------------------------------------------------------------
(* Dispatch                                                                   *)

(* Mutant: the pop takes entries that replay has outdated.                    *)
ReadyEntries_Outdated == {t \in Tasks : readyQueue[t] > 0}

(* The entries of the heap that the pop does not skip.                        *)
ReadyEntries == {t \in Tasks : readyQueue[t] > 0 /\ status[t] = "ready"}

(* The pop case: Dequeue until an entry is still ready; the entries that come *)
(* before it in the heap are outdated and dropped.                            *)
PopReady(t) ==
    /\ cascade = {}
    /\ t \in ReadyEntries
    /\ \A u \in ReadyEntries \ {t} : Less(t, u)
    /\ readyQueue' = [u \in Tasks |-> IF u = t THEN readyQueue[u] - 1
                                      ELSE IF Less(u, t) THEN 0
                                      ELSE readyQueue[u]]
    /\ status' = [status EXCEPT ![t] = "running"]
    /\ metrics' = Moved("pending", "running")
    /\ UNCHANGED <<retryCount, cancelled, inDegree, dependents, retryTimers, cascade>>

(* The pop case when every entry is outdated: the heap is emptied and the     *)
(* reply is nil.                                                              *)
PopNothing ==
    /\ cascade = {}
    /\ ReadyEntries = {}
    /\ \E t \in Tasks : readyQueue[t] > 0
    /\ readyQueue' = [t \in Tasks |-> 0]
    /\ UNCHANGED <<status, retryCount, cancelled, inDegree, dependents,
                   retryTimers, metrics, cascade>>

-----------------------------------------------------------------------------
(* Completion                                                                 *)

(* Mutant: the first completed dependency releases a dependent.               *)
CompleteAndRelease_AnyDependency(t) ==
    LET done == [status EXCEPT ![t] = "completed"]
        freed == {d \in dependents[t] : done[d] = "pending"}
    IN  /\ status' = [d \in Tasks |-> IF d \in freed THEN "ready" ELSE done[d]]
        /\ inDegree' = [d \in Tasks |-> inDegree[d] - IF d \in dependents[t] THEN 1 ELSE 0]
        /\ readyQueue' = Enqueued(freed)
        /\ metrics' = Moved(CounterOf(status[t]), "completed")
        /\ UNCHANGED <<retryCount, cancelled, dependents, retryTimers, cascade>>

(* transitionToCompleted and the loop over the dependents, which markReady    *)
(* puts in the queue whatever their status, terminal ones excepted.           *)
CompleteAndRelease(t) ==
    LET done == [status EXCEPT ![t] = "completed"]
        freed == {d \in dependents[t] : inDegree[d] = 1 /\ done[d] \notin Terminal}
    IN  /\ status' = [d \in Tasks |-> IF d \in freed THEN "ready" ELSE done[d]]
        /\ inDegree' = [d \in Tasks |-> inDegree[d] - IF d \in dependents[t] THEN 1 ELSE 0]
        /\ readyQueue' = Enqueued(freed)
        /\ metrics' = Moved(CounterOf(status[t]), "completed")
        /\ UNCHANGED <<retryCount, cancelled, dependents, retryTimers, cascade>>

(* handleComplete: a notification for a task that is not running is dropped.  *)
HandleComplete(t) ==
    /\ cascade = {}
    /\ IF status[t] = "running" THEN CompleteAndRelease(t) ELSE UNCHANGED schedVars

-----------------------------------------------------------------------------
(* Failure                                                                    *)

(* Mutant: every task that fails is taken to have been running.               *)
TransitionToFailed_FromRunning(t) ==
    /\ status' = [status EXCEPT ![t] = "failed"]
    /\ cancelled' = cancelled \cup {t}
    /\ metrics' = Moved("running", "failed")

(* transitionToFailed on a task that is not terminal.                         *)
TransitionToFailed(t) ==
    /\ status' = [status EXCEPT ![t] = "failed"]
    /\ cancelled' = cancelled \cup {t}
    /\ metrics' = Moved(CounterOf(status[t]), "failed")

(* Mutant: the timer of the retry is never started.                           *)
Retry_NoTimer(t) ==
    /\ retryCount[t] < Budget(t)
    /\ retryCount' = [retryCount EXCEPT ![t] = @ + 1]
    /\ status' = [status EXCEPT ![t] = "pending"]
    /\ metrics' = [Moved("running", "pending") EXCEPT !["retried"] = @ + 1]
    /\ UNCHANGED <<cancelled, inDegree, dependents, readyQueue, retryTimers, cascade>>

(* Mutant: the retry boundary is off by one.                                  *)
Retry_OneTooMany(t) ==
    /\ retryCount[t] <= Budget(t)
    /\ retryCount' = [retryCount EXCEPT ![t] = @ + 1]
    /\ status' = [status EXCEPT ![t] = "pending"]
    /\ metrics' = [Moved("running", "pending") EXCEPT !["retried"] = @ + 1]
    /\ retryTimers' = [retryTimers EXCEPT ![t] = @ + 1]
    /\ UNCHANGED <<cancelled, inDegree, dependents, readyQueue, cascade>>

(* handleFailure while the budget lasts: back to pending, with a timer.       *)
Retry(t) ==
    /\ retryCount[t] < Budget(t)
    /\ retryCount' = [retryCount EXCEPT ![t] = @ + 1]
    /\ status' = [status EXCEPT ![t] = "pending"]
    /\ metrics' = [Moved("running", "pending") EXCEPT !["retried"] = @ + 1]
    /\ retryTimers' = [retryTimers EXCEPT ![t] = @ + 1]
    /\ UNCHANGED <<cancelled, inDegree, dependents, readyQueue, cascade>>

(* Mutant: the last retry is not granted.                                     *)
FailForGood_Early(t) ==
    /\ retryCount[t] + 1 >= Budget(t)
    /\ TransitionToFailed(t)
    /\ cascade' = dependents[t]
    /\ UNCHANGED <<retryCount, inDegree, dependents, readyQueue, retryTimers>>

(* handleFailure at the end of the budget: propagateFailure begins. Its first *)
(* round is the root, whose FAIL record the worker has written already.       *)
FailForGood(t) ==
    /\ retryCount[t] >= Budget(t)
    /\ TransitionToFailed(t)
    /\ cascade' = dependents[t]
    /\ UNCHANGED <<retryCount, inDegree, dependents, readyQueue, retryTimers>>

(* handleFailure: a notification for a task that is not running is dropped.   *)
HandleFailure(t) ==
    /\ cascade = {}
    /\ IF status[t] = "running" THEN Retry(t) \/ FailForGood(t)
       ELSE UNCHANGED schedVars

(* Mutant: the cascade stops at the direct dependents.                        *)
PropagateFailure_Shallow(t) ==
    /\ t \in cascade
    /\ cascade' = cascade \ {t}
    /\ IF status[t] \in Terminal
       THEN UNCHANGED <<status, cancelled, metrics, walVars>>
       ELSE TransitionToFailed(t) /\ AppendIgnoringErrors(CascadeRecord(t))
    /\ UNCHANGED <<retryCount, inDegree, dependents, readyQueue, retryTimers>>

(* Mutant: the cascade is not logged.                                         *)
PropagateFailure_NotLogged(t) ==
    /\ t \in cascade
    /\ IF status[t] \in Terminal
       THEN cascade' = cascade \ {t} /\ UNCHANGED <<status, cancelled, metrics>>
       ELSE TransitionToFailed(t) /\ cascade' = (cascade \ {t}) \cup dependents[t]
    /\ UNCHANGED <<walVars, retryCount, inDegree, dependents, readyQueue, retryTimers>>

(* One more round of propagateFailure. A task visited before is failed by     *)
(* now, so the status test does the work of the visited set as well. The      *)
(* error of AppendCascadeFail is only printed.                                *)
PropagateFailure(t) ==
    /\ t \in cascade
    /\ IF status[t] \in Terminal
       THEN /\ cascade' = cascade \ {t}
            /\ UNCHANGED <<status, cancelled, metrics, walVars>>
       ELSE /\ TransitionToFailed(t)
            /\ AppendIgnoringErrors(CascadeRecord(t))
            /\ cascade' = (cascade \ {t}) \cup dependents[t]
    /\ UNCHANGED <<retryCount, inDegree, dependents, readyQueue, retryTimers>>

(* Mutant: a pending task is queued although no timer offered it.             *)
HandleRetryEnqueue_NoTimer(t) ==
    /\ cascade = {}
    /\ status[t] = "pending"
    /\ retryTimers' = [retryTimers EXCEPT ![t] = @ - 1]
    /\ status' = [status EXCEPT ![t] = "ready"]
    /\ readyQueue' = Enqueued({t})
    /\ UNCHANGED <<retryCount, cancelled, inDegree, dependents, metrics, cascade>>

(* handleRetryEnqueue, when the run loop takes what a retry timer offers.     *)
HandleRetryEnqueue(t) ==
    /\ cascade = {}
    /\ retryTimers[t] > 0
    /\ retryTimers' = [retryTimers EXCEPT ![t] = @ - 1]
    /\ IF status[t] = "pending"
       THEN /\ status' = [status EXCEPT ![t] = "ready"]
            /\ readyQueue' = Enqueued({t})
       ELSE UNCHANGED <<status, readyQueue>>
    /\ UNCHANGED <<retryCount, cancelled, inDegree, dependents, metrics, cascade>>

-----------------------------------------------------------------------------
(* Replay. The records of the log are fed back one by one while nothing is    *)
(* dispatched. A record for a task the map does not hold does nothing.        *)

(* handleReplayStart: running, although the heap keeps its entry.             *)
HandleReplayStart(t) ==
    /\ IF status[t] \in {"pending", "ready"}
       THEN /\ status' = [status EXCEPT ![t] = "running"]
            /\ metrics' = Moved("pending", "running")
       ELSE UNCHANGED <<status, metrics>>
    /\ UNCHANGED <<retryCount, cancelled, inDegree, dependents, readyQueue,
                   retryTimers, cascade>>

(* handleReplayComplete                                                       *)
HandleReplayComplete(t) ==
    IF status[t] \in {"absent"} \cup Terminal THEN UNCHANGED schedVars
    ELSE CompleteAndRelease(t)

(* Mutant: replay does not count the retries of the lives before.             *)
HandleReplayFail_NotCounted(t) ==
    /\ IF status[t] # "running"
       THEN UNCHANGED <<status, readyQueue, metrics, cancelled>>
       ELSE /\ status' = [status EXCEPT ![t] = "ready"]
            /\ readyQueue' = Enqueued({t})
            /\ metrics' = [Moved("running", "pending") EXCEPT !["retried"] = @ + 1]
            /\ UNCHANGED cancelled
    /\ UNCHANGED <<retryCount, inDegree, dependents, retryTimers, cascade>>

(* handleReplayFail for an organic failure: a retry is queued at once, with   *)
(* no timer; a permanent failure ends with the task itself, its dependents    *)
(* being left to the cascade records that follow in the log.                  *)
HandleReplayFail(t) ==
    /\ IF status[t] # "running"
       THEN UNCHANGED <<retryCount, status, readyQueue, metrics, cancelled>>
       ELSE IF retryCount[t] < Budget(t)
       THEN /\ retryCount' = [retryCount EXCEPT ![t] = @ + 1]
            /\ status' = [status EXCEPT ![t] = "ready"]
            /\ readyQueue' = Enqueued({t})
            /\ metrics' = [Moved("running", "pending") EXCEPT !["retried"] = @ + 1]
            /\ UNCHANGED cancelled
       ELSE TransitionToFailed(t) /\ UNCHANGED <<retryCount, readyQueue>>
    /\ UNCHANGED <<inDegree, dependents, retryTimers, cascade>>

(* handleReplayFail for a cascade record.                                     *)
HandleReplayCascade(t) ==
    /\ IF status[t] \in {"absent"} \cup Terminal
       THEN UNCHANGED <<status, cancelled, metrics>>
       ELSE TransitionToFailed(t)
    /\ UNCHANGED <<retryCount, inDegree, dependents, readyQueue, retryTimers, cascade>>

(* Mutant: the tasks that ran at the crash stay running, with nobody.         *)
HandleRequeueOrphans_Forgotten(orphans) == UNCHANGED schedVars

(* handleRequeueOrphans                                                       *)
HandleRequeueOrphans(orphans) ==
    LET requeued == {t \in orphans : status[t] = "running"}
        count == Cardinality(requeued)
    IN  /\ status' = [t \in Tasks |-> IF t \in requeued THEN "ready" ELSE status[t]]
        /\ readyQueue' = Enqueued(requeued)
        /\ metrics' = [metrics EXCEPT !["running"] = @ - count, !["pending"] = @ + count]
        /\ UNCHANGED <<retryCount, cancelled, inDegree, dependents, retryTimers, cascade>>
=============================================================================
