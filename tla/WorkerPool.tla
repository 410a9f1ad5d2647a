--------------------------------- MODULE WorkerPool --------------------------------
(* The worker pool panel (WorkerPoolPanel.tsx): it builds its picture of the  *)
(* workers from the events alone, and lets a timer of 400 ms take a worker    *)
(* that is done back to idle, whatever the worker does meanwhile.  An event   *)
(* of a worker it has no slot for matches none and changes nothing.           *)
EXTENDS Naturals

CONSTANT Slots \* the workers it has room for: 1 to WORKER_COUNT

VARIABLES
    workers,    \* status and completed count shown of each
    fadeTimers  \* of each worker: completions whose 400 ms have not passed

pool == <<workers, fadeTimers>>

InitWorkers == [w \in Slots |-> [status |-> "IDLE", completedCount |-> 0]]

PoolInit == workers = InitWorkers /\ fadeTimers = [w \in Slots |-> 0]

Show(w, status) == workers' = [workers EXCEPT ![w].status = status]

OnStarted(e) == Show(e.worker, "EXECUTING") /\ UNCHANGED fadeTimers
OnCompleted_CountAtOnce(e) ==
    /\ workers' = [workers EXCEPT ![e.worker] =
          [status |-> "COMPLETED", completedCount |-> @.completedCount + 1]]
    /\ fadeTimers' = [fadeTimers EXCEPT ![e.worker] = @ + 1]
OnCompleted(e) ==
    Show(e.worker, "COMPLETED") /\ fadeTimers' = [fadeTimers EXCEPT ![e.worker] = @ + 1]
OnFailed_NotRetry(e) ==
    IF e.type = "retry" THEN UNCHANGED pool
    ELSE Show(e.worker, "IDLE") /\ UNCHANGED fadeTimers
OnFailed(e) == Show(e.worker, "IDLE") /\ UNCHANGED fadeTimers
OnCrash == workers' = InitWorkers /\ UNCHANGED fadeTimers

OnPoolEvent(e) ==
    CASE e.type = "started" -> OnStarted(e)
      [] e.type = "completed" -> OnCompleted(e)
      [] e.type \in {"failed", "retry"} -> OnFailed(e)
      [] e.type = "crash" -> OnCrash
      [] OTHER -> UNCHANGED pool

FadeTimerFires(w) ==
    /\ fadeTimers[w] > 0 /\ fadeTimers' = [fadeTimers EXCEPT ![w] = @ - 1]
    /\ workers' = [workers EXCEPT ![w] =
          [status |-> "IDLE", completedCount |-> @.completedCount + 1]]
=============================================================================
