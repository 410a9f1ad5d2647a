---------------------------------- MODULE Panels ----------------------------------
(* The panels composed: the worker pool, the event stream and the internals   *)
(* hear the same events of one back end, in the order of the wire.            *)
EXTENDS Announcements, WorkerPool, EventPanels

panels == <<pool, eventPanels>>
vars == <<backend, panels>>

Init == BackendInit /\ PoolInit /\ EventPanelsInit

(* Every panel has a listener of its own on the page's one socket.            *)
Message ==
    /\ wire # <<>> /\ wire' = Tail(wire)
    /\ OnPoolEvent(Head(wire)) /\ OnStreamEvent(Head(wire)) /\ OnInternalsEvent(Head(wire))
    /\ UNCHANGED <<connected, engine, ghosts, bounds>>

FadeTimer(w) ==
    FadeTimerFires(w) /\ UNCHANGED <<backend, eventPanels>>

ClickClear == Clear /\ UNCHANGED <<backend, pool, retryTimers>>

Next ==
    \/ BackendNext /\ UNCHANGED panels
    \/ Message \/ ClickClear
    \/ \E w \in Slots : FadeTimer(w)

Spec == Init /\ [][Next]_vars

-----------------------------------------------------------------------------
(* Properties.                                                                *)

(* The panel never shows a worker executing that has finished, unless what    *)
(* ended the execution is still to be announced or was never said: no timer   *)
(* and no late event of an earlier task brings the status back.               *)
ExecutingIsReal ==
    \A w \in Slots :
        workers[w].status = "EXECUTING" =>
            w \in {v \in Workers : doing[v] # None} \cup unheard \cup LostWorkers(handling)
                    \cup LostWorkers(wire)

(* The panel never counts a completion twice, or one that did not happen,     *)
(* although the count is raised later than the event is shown.                *)
CountsAreReal ==
    \A w \in Slots : workers[w].completedCount + fadeTimers[w] <= IF w \in Workers THEN finished[w] ELSE 0

(* When everything sent has been heard, the timers shown are those of the     *)
(* tasks that wait for a retry, each once, with its latest attempt and the    *)
(* delay the scheduler waits, whatever was lost before the task's last start  *)
(* or retry.                                                                  *)
TimersAreBackoffs ==
    (connected /\ wire = <<>> /\ phase = "up") => \A t \in Tasks \ missed :
        {<<r.attempt, r.delay>> : r \in {q \in retryTimers : q.task = t}}
            = IF task[t] \in {"backoff", "requeued"} THEN {<<attempt[t], RetryDelay(attempt[t])>>}
              ELSE {}

(* A failure that is announced is final, is shown as an error, and nothing    *)
(* says that it will be retried, whatever budget was asked for; a retry is    *)
(* never shown as an error.                                                   *)
FailuresShownFinal ==
    \A k \in DOMAIN events :
        /\ events[k].type = "failed" => events[k].level = "error" /\ ~events[k].retryable
                                        /\ task[events[k].task] = "failed"
        /\ events[k].type = "retry" => events[k].level = "warn"
=============================================================================
