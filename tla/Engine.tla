---------------------------------- MODULE Engine ----------------------------------
(* One life of the engine: the run loop of the scheduler, the dispatch loop   *)
(* that pulls tasks out of it, the worker pool of internal/engine/worker.go   *)
(* and the requests of api/handlers.go that feed it, as goroutines that meet  *)
(* on unbuffered channels and share the log. No crash; see Recovery.          *)
EXTENDS Scheduler

CONSTANT Workers  \* the goroutines Dispatcher.Start launches
ASSUME WorkersAssumption == Workers # {} /\ IsFiniteSet(Workers)

VARIABLES
    submission, \* how far the request that submits a batch has come
    pushed,     \* the task pushLoop holds for readyChan, or NoTask
    pc,         \* where each worker is in its loop
    holding     \* the task variable of each worker, NoTask outside the loop body

engineVars == <<submission, pushed, pc, holding>>
vars == <<walVars, schedVars, engineVars>>

(* "persisted": AppendIngest returned, Ingest not yet received by the loop.   *)
(* "lost" is the 500 answer to a failed append.                               *)
SubmissionState == {"unsent", "persisted", "accepted", "refused", "lost"}

(* "picked": received from readyChan; "executing": START appended; "failing"  *)
(* and "completing": FAIL or COMPLETE appended and the worker blocked on      *)
(* failChan or completeChan.                                                  *)
WorkerState == {"idle", "picked", "executing", "failing", "completing"}

Init ==
    /\ WalInit
    /\ SchedulerInit
    /\ submission = [b \in Batches |-> "unsent"]
    /\ pushed = NoTask
    /\ pc = [w \in Workers |-> "idle"]
    /\ holding = [w \in Workers |-> NoTask]

-----------------------------------------------------------------------------
(* The request handler                                                        *)

(* Step 1 of handleSubmitDAG: AppendIngest, and the 500 when it fails.        *)
Persist(b) ==
    /\ submission[b] = "unsent"
    /\ \/ /\ AppendOk(IngestRecord(b))
          /\ submission' = [submission EXCEPT ![b] = "persisted"]
       \/ /\ AppendError(IngestRecord(b))
          /\ submission' = [submission EXCEPT ![b] = "lost"]
    /\ UNCHANGED <<schedVars, pushed, pc, holding>>

(* Step 2 of handleSubmitDAG meets the run loop on ingestChan.                *)
Ingest(b) ==
    /\ submission[b] = "persisted"
    /\ \/ /\ HandleIngest(b)
          /\ submission' = [submission EXCEPT ![b] = "accepted"]
       \/ /\ RefuseIngest(b)
          /\ submission' = [submission EXCEPT ![b] = "refused"]
    /\ UNCHANGED <<walVars, pushed, pc, holding>>

-----------------------------------------------------------------------------
(* The dispatch loop                                                          *)

(* pushLoop asks on popReqChan and the run loop answers; a nil answer sends   *)
(* pushLoop round its loop again.                                             *)
Pop ==
    /\ pushed = NoTask
    /\ \/ \E t \in Tasks : PopReady(t) /\ pushed' = t
       \/ PopNothing /\ UNCHANGED pushed
    /\ UNCHANGED <<walVars, submission, pc, holding>>

(* pushLoop and a worker meet on readyChan.                                   *)
HandOff(w) ==
    /\ pushed # NoTask
    /\ pc[w] = "idle"
    /\ pc' = [pc EXCEPT ![w] = "picked"]
    /\ holding' = [holding EXCEPT ![w] = pushed]
    /\ pushed' = NoTask
    /\ UNCHANGED <<walVars, schedVars, submission>>

-----------------------------------------------------------------------------
(* The workers                                                                *)

Return(w) ==
    /\ pc' = [pc EXCEPT ![w] = "idle"]
    /\ holding' = [holding EXCEPT ![w] = NoTask]

GoTo(w, label) == pc' = [pc EXCEPT ![w] = label] /\ UNCHANGED holding

(* GUARD 1, then AppendStart, whose error is only printed.                    *)
StartTask(w) ==
    /\ pc[w] = "picked"
    /\ IF holding[w] \in cancelled
       THEN Return(w) /\ UNCHANGED walVars
       ELSE GoTo(w, "executing") /\ AppendIgnoringErrors(StartRecord(holding[w]))
    /\ UNCHANGED <<schedVars, submission, pushed>>

(* The "fail" payload: AppendFail, and after its error "continue" without a   *)
(* word to the scheduler.                                                     *)
FailTask(w) ==
    /\ pc[w] = "executing"
    /\ holding[w] \in FailPayload
    /\ \/ AppendOk(FailRecord(holding[w])) /\ GoTo(w, "failing")
       \/ AppendError(FailRecord(holding[w])) /\ Return(w)
    /\ UNCHANGED <<schedVars, submission, pushed>>

(* Any other payload: GUARD 2, then AppendComplete, whose error is only       *)
(* printed.                                                                   *)
CompleteTask(w) ==
    /\ pc[w] = "executing"
    /\ holding[w] \notin FailPayload
    /\ IF holding[w] \in cancelled
       THEN Return(w) /\ UNCHANGED walVars
       ELSE GoTo(w, "completing") /\ AppendIgnoringErrors(CompleteRecord(holding[w]))
    /\ UNCHANGED <<schedVars, submission, pushed>>

(* Scheduler.Fail: the worker and the run loop meet on failChan.              *)
NotifyFail(w) ==
    /\ pc[w] = "failing"
    /\ HandleFailure(holding[w])
    /\ Return(w)
    /\ UNCHANGED <<walVars, submission, pushed>>

(* Scheduler.Complete: the worker and the run loop meet on completeChan.      *)
NotifyComplete(w) ==
    /\ pc[w] = "completing"
    /\ HandleComplete(holding[w])
    /\ Return(w)
    /\ UNCHANGED <<walVars, submission, pushed>>

-----------------------------------------------------------------------------
(* The run loop on its own                                                    *)

CascadeStep == (\E t \in Tasks : PropagateFailure(t)) /\ UNCHANGED engineVars

RetryFires(t) == HandleRetryEnqueue(t) /\ UNCHANGED <<walVars, engineVars>>

-----------------------------------------------------------------------------

WorkerNext(w) ==
    \/ HandOff(w)
    \/ StartTask(w)
    \/ FailTask(w)
    \/ CompleteTask(w)
    \/ NotifyFail(w)
    \/ NotifyComplete(w)

Next ==
    \/ \E b \in Batches : Persist(b) \/ Ingest(b)
    \/ Pop
    \/ \E w \in Workers : WorkerNext(w)
    \/ CascadeStep
    \/ \E t \in Tasks : RetryFires(t)

Spec == Init /\ [][Next]_vars

(* Every goroutine that can step does; a client need not send anything. Weak  *)
(* fairness is enough for the meetings on channels: the select of the run     *)
(* loop picks at random among the ready cases, only a cascade keeps it away   *)
(* from them, and a cascade ends.                                             *)
Fairness ==
    /\ \A b \in Batches : WF_vars(Ingest(b))
    /\ WF_vars(Pop)
    /\ \A w \in Workers : WF_vars(WorkerNext(w))
    /\ WF_vars(CascadeStep)
    /\ \A t \in Tasks : WF_vars(RetryFires(t))

FairSpec == Spec /\ Fairness

-----------------------------------------------------------------------------
(* Properties                                                                 *)

EngineTypeOK ==
    /\ submission \in [Batches -> SubmissionState]
    /\ pushed \in Tasks \cup {NoTask}
    /\ pc \in [Workers -> WorkerState]
    /\ holding \in [Workers -> Tasks \cup {NoTask}]

(* The type of every variable.                                                *)
TypeOK == WalTypeOK /\ SchedulerTypeOK /\ EngineTypeOK

Held == {t \in Tasks : pushed = t \/ \E w \in Workers : holding[w] = t}

(* No task is queued, dispatched or finished before everything it depends on  *)
(* has completed: the inDegree countdown of handleComplete against Ingest,    *)
(* retries and cascades.                                                      *)
DepsRespected ==
    \A t \in Tasks : status[t] \in {"ready", "running", "completed"} => Unmet(t) = {}

(* A task is never in two hands: it is with the dispatch loop or with one     *)
(* worker, and only while the scheduler calls it running.                     *)
SingleHolder ==
    /\ \A t \in Held : status[t] = "running"
    /\ \A w \in Workers : pushed # NoTask => holding[w] # pushed
    /\ \A v, w \in Workers : v # w /\ holding[v] # NoTask => holding[v] # holding[w]

(* The race that GUARD 1 and GUARD 2 of the worker are written for cannot     *)
(* happen: a cascade only reaches tasks that still wait for a dependency, so  *)
(* no worker holds a cancelled task.                                          *)
HeldNotCancelled == Held \cap cancelled = {}

(* Something always stands for a task that is not settled, so that it cannot  *)
(* be forgotten: a ready task has its one entry in the heap, a pending one    *)
(* its unmet dependencies or a retry timer, a running one a holder (unless a  *)
(* failed append made the worker drop it).                                    *)
NoLostTask ==
    \A t \in Tasks :
        /\ status[t] = "ready" <=> readyQueue[t] = 1
        /\ status[t] = "pending" => (retryTimers[t] = 1 <=> Unmet(t) = {})
        /\ status[t] = "running" /\ walErrors = 0 => t \in Held

(* A task fails only because it exhausted its own retries or because one of   *)
(* its dependencies failed, and what completed was able to.                   *)
FailureIsCaused ==
    \A t \in Tasks :
        /\ status[t] = "failed" =>
              \/ t \in FailPayload /\ retryCount[t] >= Budget(t)
              \/ \E d \in Dependencies[t] : status[d] = "failed"
        /\ status[t] = "completed" => t \notin FailPayload

(* "Cascade failure for downstream dependents": whenever the run loop is      *)
(* between two cases, everything downstream of a failed task has failed.      *)
CascadeClosed ==
    cascade = {} =>
        \A t \in Present : (\E d \in Dependencies[t] : status[d] = "failed")
                              => status[t] = "failed"

(* The counters served by /api/v1/status agree with the statuses.             *)
MetricsMatch ==
    \A c \in {"pending", "running", "completed", "failed"} :
        metrics[c] = Cardinality({t \in Present : CounterOf(status[t]) = c})

(* "The WAL is the source of recovery truth": a task known to the scheduler   *)
(* is in the log and, unless an append failed, so is everything that settled  *)
(* it; the log starts no task before it completes its dependencies; a task    *)
(* runs at most once more than it may be retried, and each attempt but the    *)
(* last one has its FAIL record.                                              *)
LogCoversState ==
    /\ \A t \in Present : \E i \in DOMAIN wal : wal[i].type = "INGEST" /\ t \in wal[i].tasks
    /\ walErrors = 0 => \A t \in Tasks :
          LET starts == Cardinality(Places(StartRecord(t)))
              fails == Cardinality(Places(FailRecord(t)))
          IN  /\ status[t] = "completed" => Logged(CompleteRecord(t))
              /\ status[t] = "failed" => Logged(FailRecord(t)) \/ Logged(CascadeRecord(t))
              /\ \A i \in Places(StartRecord(t)), d \in Dependencies[t] :
                    \E j \in Places(CompleteRecord(d)) : j < i
              /\ starts \in {fails, fails + 1}
              /\ starts <= RetriesLeft(t, FirstRetry[t]) + 1
              /\ fails - (retryCount[t] - FirstRetry[t]) \in {0, 1}

(* The inductive invariant behind the properties above, in named parts. A     *)
(* present task has its dependencies present, and the edges the scheduler     *)
(* stores are exactly those between present tasks.                            *)
GraphExact ==
    /\ \A t \in Present : Dependencies[t] \subseteq Present
    /\ \A d \in Tasks : dependents[d] = {t \in Present : d \in Dependencies[t]}

(* inDegree is the number of dependencies that have not completed.            *)
DegreeExact == \A t \in Present : inDegree[t] = Cardinality(Unmet(t))

(* The heap has one entry for each ready task and for no other; a timer is    *)
(* set for each pending task that waits for no dependency and for no other.   *)
QueueExact == \A t \in Tasks : readyQueue[t] = IF status[t] = "ready" THEN 1 ELSE 0
TimersExact ==
    \A t \in Tasks :
        retryTimers[t] = IF status[t] = "pending" /\ Unmet(t) = {} THEN 1 ELSE 0

(* The Cancelled flag marks the failed tasks.                                 *)
CancelledExact == cancelled = {t \in Tasks : status[t] = "failed"}

(* A worker holds a task exactly when it is inside its loop body.             *)
HoldingExact == \A w \in Workers : pc[w] = "idle" <=> holding[w] = NoTask

(* What QueueExact leaves after a replay, which outdates entries of the heap:  *)
(* a ready task still has one.                                                *)
QueueCovers == \A t \in Tasks : status[t] = "ready" => readyQueue[t] > 0

(* The worklist holds only tasks with a failed dependency ...                 *)
CascadeCaused ==
    \A t \in cascade : t \in Present /\ \E d \in Dependencies[t] : status[d] = "failed"

(* ... and every task with a failed dependency has failed or is in it.        *)
CascadeReaches ==
    \A t \in Present : (\E d \in Dependencies[t] : status[d] = "failed")
                          => status[t] = "failed" \/ t \in cascade

(* The part of the invariant that speaks of the run loop's state alone and    *)
(* holds however the life began.                                              *)
CoreInv ==
    /\ GraphExact
    /\ DegreeExact
    /\ DepsRespected
    /\ QueueCovers
    /\ TimersExact
    /\ CancelledExact
    /\ CascadeCaused

(* With the goroutines and what they hold.                                    *)
LiveInv == TypeOK /\ CoreInv /\ HoldingExact /\ SingleHolder

(* The first life has had no replay to outdate the heap, and no crash to cut  *)
(* a cascade short.                                                           *)
IInv == LiveInv /\ QueueExact /\ CascadeReaches

(* transitionToCompleted and transitionToFailed: a settled task stays as it   *)
(* is, whatever late notification, timer or cascade still arrives.            *)
TerminalIsFinal ==
    [][\A t \in Tasks : status[t] \in Terminal => status'[t] = status[t]]_vars

(* As long as no append fails, every task of an accepted batch comes to the   *)
(* end its payloads determine, whatever the order of execution: failed if it  *)
(* or anything it needs is bound to fail, completed otherwise.                *)
EveryTaskSettles ==
    \A b \in Batches : (submission[b] = "accepted") ~>
        (walErrors > 0 \/ \A t \in b : status[t] = IF Doomed(t) THEN "failed" ELSE "completed")

(* What the documentation adds, and the code does not keep when AppendFail    *)
(* returns an error (TLC refutes it, and no run checks it): a failed attempt  *)
(* consumes a retry or fails the task, so no attempt lasts forever.           *)
AttemptsEnd == \A t \in Tasks : (status[t] = "running") ~> (status[t] # "running")
=============================================================================
