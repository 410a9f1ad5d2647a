--------------------------------- MODULE Recovery ---------------------------------
(* The engine across its lives: the simulated crash of the manager, which     *)
(* cancels the context and waits for the goroutines, the crash of the process *)
(* at any point, and the recovery that builds a new scheduler and feeds it    *)
(* the log before anything is dispatched (internal/engine/manager.go).        *)
EXTENDS Engine

CONSTANT MaxCrashes  \* bound: crashes of either kind in one behaviour
ASSUME RecoveryAssumption == MaxCrashes \in Nat

VARIABLES
    phase,   \* "up", "draining" (context cancelled), "down", "replaying"
    stopped, \* the goroutines of this life that have returned
    cursor,  \* the log record that replay feeds next
    crashes  \* how many crashes there have been

lifeVars == <<phase, stopped, cursor, crashes>>
allVars == <<vars, lifeVars>>

RunLoop == "runLoop"
PushLoop == "pushLoop"
Goroutines == {RunLoop, PushLoop} \cup Workers

RecoveryInit ==
    /\ Init
    /\ phase = "up"
    /\ stopped = {}
    /\ cursor = 1
    /\ crashes = 0

Live(g) == phase \in {"up", "draining"} /\ g \notin stopped

-----------------------------------------------------------------------------
(* While the goroutines live they go on as in Engine. A cancelled context     *)
(* does not stop them at once: a select may still prefer another ready case.  *)

ClientStep ==
    /\ phase \in {"up", "draining"}
    /\ \E b \in Batches : Persist(b)
    /\ UNCHANGED lifeVars

RunLoopStep ==
    /\ Live(RunLoop)
    /\ \/ \E b \in Batches : Ingest(b)
       \/ Live(PushLoop) /\ Pop
       \/ CascadeStep
       \/ \E t \in Tasks : RetryFires(t)
       \/ \E w \in Workers : NotifyFail(w) \/ NotifyComplete(w)
    /\ UNCHANGED lifeVars

WorkerStep(w) ==
    /\ Live(w)
    /\ \/ Live(PushLoop) /\ HandOff(w)
       \/ StartTask(w)
       \/ FailTask(w)
       \/ CompleteTask(w)
    /\ UNCHANGED lifeVars

-----------------------------------------------------------------------------
(* Crashes                                                                    *)

(* SimulateCrash: cancel the context, then wait.                              *)
CancelContext ==
    /\ phase = "up"
    /\ crashes < MaxCrashes
    /\ phase' = "draining"
    /\ crashes' = crashes + 1
    /\ UNCHANGED <<vars, stopped, cursor>>

(* runLoop sees ctx.Done between two cases and closes done.                   *)
StopRunLoop ==
    /\ phase = "draining" /\ Live(RunLoop)
    /\ cascade = {}
    /\ stopped' = stopped \cup {RunLoop}
    /\ UNCHANGED <<vars, phase, cursor, crashes>>

(* pushLoop sees ctx.Done and drops the task it was offering.                 *)
StopPushLoop ==
    /\ phase = "draining" /\ Live(PushLoop)
    /\ stopped' = stopped \cup {PushLoop}
    /\ pushed' = NoTask
    /\ UNCHANGED <<walVars, schedVars, submission, pc, holding, phase, cursor, crashes>>

(* A worker sees ctx.Done in front of readyChan or during the execution.      *)
StopWorker(w) ==
    /\ phase = "draining" /\ Live(w)
    /\ pc[w] \in {"idle", "executing"}
    /\ stopped' = stopped \cup {w}
    /\ Return(w)
    /\ UNCHANGED <<walVars, schedVars, submission, pushed, phase, cursor, crashes>>

(* Mutant: the notification is sent without looking at done.                  *)
NotifyStopped_NoDone(w) ==
    /\ phase = "draining" /\ Live(RunLoop)
    /\ pc[w] \in {"failing", "completing"}
    /\ Return(w)
    /\ UNCHANGED <<walVars, schedVars, submission, pushed, lifeVars>>

(* Fail and Complete return false once done is closed.                        *)
NotifyStopped(w) ==
    /\ phase = "draining" /\ RunLoop \in stopped
    /\ pc[w] \in {"failing", "completing"}
    /\ Return(w)
    /\ UNCHANGED <<walVars, schedVars, submission, pushed, lifeVars>>

(* Nothing is left of the scheduler; the requests that wait for Ingest answer *)
(* ErrSchedulerStopped, or die with the process.                              *)
Vanish ==
    /\ phase' = "down"
    /\ stopped' = Goroutines
    /\ SchedulerReset
    /\ pushed' = NoTask
    /\ pc' = [w \in Workers |-> "idle"]
    /\ holding' = [w \in Workers |-> NoTask]
    /\ submission' = [b \in Batches |->
                        IF submission[b] = "persisted" THEN "lost" ELSE submission[b]]
    /\ UNCHANGED <<walVars, cursor>>

(* The end of SimulateCrash: both Wait calls have returned.                   *)
CrashDone ==
    /\ phase = "draining"
    /\ stopped = Goroutines
    /\ Vanish
    /\ UNCHANGED crashes

(* The process dies, wherever it is. What append has synced stays.            *)
ProcessCrash ==
    /\ phase # "down"
    /\ crashes < MaxCrashes
    /\ crashes' = crashes + 1
    /\ Vanish

-----------------------------------------------------------------------------
(* Recovery                                                                   *)

(* Manager.Start up to wal.Recover: a new scheduler and the list of entries.  *)
Recover ==
    /\ phase = "down"
    /\ phase' = "replaying"
    /\ cursor' = 1
    /\ UNCHANGED <<vars, stopped, crashes>>

(* Mutant: the last record is taken for a torn one.                           *)
ReplayEnd_OffByOne == Len(wal) - 1

(* The number of entries that wal.Recover returns.                            *)
ReplayEnd == Len(wal)

(* One round of the loop over state.Entries. The error of Ingest is dropped.  *)
ReplayEntry ==
    /\ phase = "replaying"
    /\ cursor <= ReplayEnd
    /\ LET entry == wal[cursor] IN
          CASE entry.type = "INGEST" -> HandleIngest(entry.tasks) \/ RefuseIngest(entry.tasks)
            [] entry.type = "START" -> HandleReplayStart(entry.task)
            [] entry.type = "COMPLETE" -> HandleReplayComplete(entry.task)
            [] entry.type = "FAIL" -> HandleReplayFail(entry.task)
            [] entry.type = "CASCADE" -> HandleReplayCascade(entry.task)
    /\ cursor' = cursor + 1
    /\ UNCHANGED <<walVars, engineVars, phase, stopped, crashes>>

(* RequeueOrphans, StartDispatch and Dispatcher.Start: a new life begins.     *)
Resume ==
    /\ phase = "replaying"
    /\ cursor > ReplayEnd
    /\ HandleRequeueOrphans(InProgress)
    /\ phase' = "up"
    /\ stopped' = {}
    /\ UNCHANGED <<walVars, engineVars, cursor, crashes>>

-----------------------------------------------------------------------------

RecoveryNext ==
    \/ ClientStep
    \/ RunLoopStep
    \/ \E w \in Workers : WorkerStep(w)
    \/ CancelContext
    \/ StopRunLoop
    \/ StopPushLoop
    \/ \E w \in Workers : StopWorker(w) \/ NotifyStopped(w)
    \/ CrashDone
    \/ ProcessCrash
    \/ Recover
    \/ ReplayEntry
    \/ Resume

RecoverySpec == RecoveryInit /\ [][RecoveryNext]_allVars

(* An operator or a supervisor brings the scheduler back, replay goes on by   *)
(* itself, and so does the draining of a crash: every goroutine looks at its  *)
(* context or at done in each of its waits. A client need not send anything.  *)
RecoveryFairness ==
    /\ WF_allVars(RunLoopStep)
    /\ WF_allVars(StopRunLoop)
    /\ WF_allVars(StopPushLoop)
    /\ \A w \in Workers : WF_allVars(WorkerStep(w))
                          /\ WF_allVars(StopWorker(w))
                          /\ WF_allVars(NotifyStopped(w))
    /\ WF_allVars(CrashDone)
    /\ WF_allVars(Recover)
    /\ WF_allVars(ReplayEntry)
    /\ WF_allVars(Resume)

RecoveryFairSpec == RecoverySpec /\ RecoveryFairness

-----------------------------------------------------------------------------
(* Properties. Those that rest on the log are about behaviours in which no    *)
(* append fails.                                                              *)

(* "Completed tasks remain complete": a task whose COMPLETE record is in the  *)
(* log is completed in every life, from the end of the replay on, as soon as  *)
(* the worker that wrote the record has delivered its notification. With      *)
(* LogCoversState, the two directions of crash consistency.                   *)
CompletedSurvives ==
    walErrors = 0 /\ phase = "up" => \A t \in Tasks :
        Logged(CompleteRecord(t)) =>
            status[t] = "completed" \/ \E w \in Workers : holding[w] = t /\ pc[w] = "completing"

(* "Failed tasks remain failed": likewise for the tasks a cascade has failed, *)
(* and for those whose failures have used up the budget.                      *)
FailedSurvives ==
    walErrors = 0 /\ phase = "up" => \A t \in Tasks :
        /\ Logged(CascadeRecord(t)) => status[t] = "failed"
        /\ Cardinality(Places(FailRecord(t))) > RetriesLeft(t, FirstRetry[t]) =>
              status[t] = "failed" \/ \E w \in Workers : holding[w] = t /\ pc[w] = "failing"

(* The retry budget is not refilled by a crash: over all lives a task is      *)
(* executed to its end at most once more than it may be retried, and each     *)
(* life counts the attempts of the lives before it.                           *)
BudgetSurvives ==
    walErrors = 0 => \A t \in Tasks :
        LET fails == Cardinality(Places(FailRecord(t)))
        IN  /\ fails <= RetriesLeft(t, FirstRetry[t]) + 1
            /\ phase = "up" /\ t \in Present => fails - (retryCount[t] - FirstRetry[t]) \in {0, 1}

(* At-least-once, but only for work in flight: nothing is started again after *)
(* its COMPLETE record, and only a crash makes a task start more often than   *)
(* it fails and completes.                                                    *)
NoRerunOfCompleted ==
    walErrors = 0 => \A t \in Tasks :
        /\ Cardinality(Places(CompleteRecord(t))) <= 1
        /\ \A i \in Places(CompleteRecord(t)), j \in Places(StartRecord(t)) : j < i
        /\ Cardinality(Places(StartRecord(t)))
              <= Cardinality(Places(FailRecord(t))) + 1 + crashes

(* Nothing is forgotten, however the life began: the heap may hold outdated   *)
(* entries now, so it holds at least one for each ready task.                 *)
NothingForgotten ==
    walErrors = 0 /\ phase = "up" => \A t \in Tasks :
        /\ status[t] = "ready" => readyQueue[t] > 0
        /\ status[t] = "pending" => (retryTimers[t] > 0 <=> Unmet(t) = {})
        /\ status[t] = "running" => t \in Held

(* An accepted batch is part of every later life: AppendIngest comes first.   *)
AcceptedSurvives ==
    phase = "up" => \A b \in Batches : submission[b] = "accepted" => b \subseteq Present

(* The recovered counters agree with the recovered statuses.                  *)
MetricsMatchInEveryLife == walErrors = 0 => MetricsMatch

(* Whatever the crashes, what is not bound to fail is completed in the end.   *)
RecoverableTasksComplete ==
    \A b \in Batches : Logged(IngestRecord(b)) ~>
        (walErrors > 0 \/ \A t \in b : ~Doomed(t) => status[t] = "completed")

(* SimulateCrash holds the mutex of the manager while it waits, so it must    *)
(* return: all goroutines it waits for come to an end.                        *)
CrashReturns == (phase = "draining") ~> (phase = "down")

(* What the documentation adds, and the code does not keep: after a permanent *)
(* failure the downstream dependents are failed too, in every life.           *)
CascadeSurvives == phase = "up" => CascadeClosed

-----------------------------------------------------------------------------
(* What the documentation says and the code does not keep: TLC refutes these  *)
(* two, and no run checks them.                                               *)

(* The recovery event counts the tasks that the log has made fail as failed,  *)
(* and the event stream repeats it: they are the failed tasks of the new life *)
(* (a task that failed once and was retried is counted too).                  *)
SummaryIsTrue ==
    [][(phase = "replaying" /\ phase' = "up" /\ walErrors = 0)
        => FailedTasks = {t \in Tasks : status'[t] = "failed"}]_allVars

(* What the comment on Task.Dependencies says, and a lost COMPLETE record     *)
(* breaks: a task is executed after everything it depends on has completed.   *)
ExecutesAfterDependencies ==
    \A w \in Workers : pc[w] = "executing" => Unmet(holding[w]) = {}
=============================================================================
