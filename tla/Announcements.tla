------------------------------- MODULE Announcements ------------------------------
(* What the panels of the console can hear of the back end.  Workers execute  *)
(* tasks without dependencies and hand their results to the run loop, which   *)
(* announces them one at a time, while the worker may already be at its next  *)
(* task; failures are retried after a delay.  A crash is announced first;     *)
(* then the workers drain, and what they still log is announced to nobody.    *)
(* The hub's connection to the page may be lost at any time, with the events  *)
(* on their way.                                                              *)
EXTENDS Integers, Sequences, FiniteSets

CONSTANTS
    Tasks, Workers, None,
    MaxRetries, \* max_retries of each task, as submitted
    FirstRetry, \* retry_count of each task, as submitted
    MaxCrashes, \* bound: crashes
    MaxFaults   \* bound: connections lost, failures that could not be logged

ASSUME AnnouncementsAssumption ==
    /\ MaxRetries \in [Tasks -> Int] /\ FirstRetry \in [Tasks -> Nat]
    /\ None \notin Tasks \cup Workers
    /\ MaxCrashes \in Nat /\ MaxFaults \in Nat

VARIABLES
    wire,      \* events on their way to the page
    connected,
    phase,     \* "up", "draining" after the crash event, "down"
    task,      \* status of each task
    attempt,   \* and its retry count
    doing,     \* the task each worker executes
    handling,  \* the result the run loop is about to announce
    finished,  \* completions announced of each worker
    missed,    \* tasks whose last change the page could not hear
    unheard,   \* workers the page has missed something about since a start
    crashes, faults

net == <<wire, connected>>
engine == <<phase, task, attempt, doing, handling>>
ghosts == <<finished, missed, unheard>>
bounds == <<crashes, faults>>
backend == <<net, engine, ghosts, bounds>>

BackendInit ==
    /\ wire = <<>> /\ connected = TRUE
    /\ phase = "up" /\ task = [t \in Tasks |-> "ready"] /\ attempt = FirstRetry
    /\ doing = [w \in Workers |-> None] /\ handling = <<>>
    /\ finished = [w \in Workers |-> 0] /\ missed = {} /\ unheard = {}
    /\ crashes = 0 /\ faults = 0

-----------------------------------------------------------------------------
(* Events.                                                                    *)

(* handleIngest: 0 stands for the default.                                    *)
Budget(t) == IF MaxRetries[t] = 0 THEN 3 ELSE MaxRetries[t]

(* defaultRetryDelay, in seconds: 2^n seconds are 1953125 * 2^(n+9)           *)
(* nanoseconds in 64 bits.  From n = 34 on the product overflows: what is     *)
(* left is negative when the bit that becomes the sign is set, and 0 when     *)
(* all bits are gone, so the timer fires at once; otherwise it is long.       *)
RetryDelay(n) ==
    IF n < 5 THEN 2^n
    ELSE IF n < 34 THEN 30
    ELSE IF n <= 54 /\ (1953125 \div 2^(54 - n)) % 2 = 0 THEN 30
    ELSE 0

Event(type, t, w) == [type |-> type, task |-> t, worker |-> w, retry |-> 0, max |-> 0]
FailureEvent(type, t, w, n) ==
    [Event(type, t, w) EXCEPT !.retry = n, !.max = Budget(t)]

LostWorkers(es) == {es[k].worker : k \in DOMAIN es} \cap Workers

(* The tasks whose retry timers some events bear on: a crash and a recovery   *)
(* clear them all.                                                            *)
LostTasks(es) ==
    IF \E k \in DOMAIN es : es[k].type \in {"crash", "recover"} THEN Tasks
    ELSE {es[k].task : k \in DOMAIN es} \cap Tasks

(* Who is not connected misses the events.  A start that is heard, or a       *)
(* retry, says again how things are.                                          *)
Emit(es) ==
    IF connected
    THEN /\ wire' = wire \o es
         /\ missed' = IF es[1].type \in {"started", "retry"} THEN missed \ LostTasks(es) ELSE missed
         /\ unheard' = IF es[1].type = "started" THEN unheard \ LostWorkers(es) ELSE unheard
    ELSE /\ UNCHANGED wire
         /\ missed' = missed \cup LostTasks(es)
         /\ unheard' = unheard \cup LostWorkers(es)

(* The connection ends, and some of what is on its way with it.               *)
Cut ==
    /\ connected' = FALSE
    /\ \E k \in 0..Len(wire) :
          LET lost == SubSeq(wire, k + 1, Len(wire))
          IN  /\ wire' = SubSeq(wire, 1, k)
              /\ missed' = missed \cup LostTasks(lost)
              /\ unheard' = unheard \cup LostWorkers(lost)

-----------------------------------------------------------------------------
(* Workers and run loop.                                                      *)

Start(t, w) ==
    /\ phase # "down" /\ doing[w] = None /\ task[t] \in {"ready", "requeued"}
    /\ doing' = [doing EXCEPT ![w] = t] /\ task' = [task EXCEPT ![t] = "running"]
    /\ Emit(<<Event("started", t, w)>>)
    /\ UNCHANGED <<connected, phase, attempt, handling, finished, bounds>>

(* The run loop takes the result, and the worker is free.                     *)
Report(w, result) ==
    /\ phase # "down" /\ doing[w] # None /\ handling = <<>>
    /\ handling' = <<[task |-> doing[w], worker |-> w, result |-> result]>>
    /\ doing' = [doing EXCEPT ![w] = None]
    /\ UNCHANGED <<net, phase, task, attempt, ghosts, bounds>>

(* The end of an execution for the task, as the log has it.                   *)
Outcome(t, result) ==
    CASE result = "nothing" -> task' = [task EXCEPT ![t] = "dropped"] /\ UNCHANGED attempt
      [] result = "completed" -> task' = [task EXCEPT ![t] = "completed"] /\ UNCHANGED attempt
      [] result = "failed" /\ attempt[t] < Budget(t) ->
            /\ task' = [task EXCEPT ![t] = "backoff"]
            /\ attempt' = [attempt EXCEPT ![t] = @ + 1]
      [] OTHER -> task' = [task EXCEPT ![t] = "failed"] /\ UNCHANGED attempt

Announced(r) ==
    LET t == r.task
        w == r.worker
    IN  CASE r.result = "completed" -> <<Event("completed", t, w)>>
          [] r.result = "failed" /\ attempt[t] < Budget(t) ->
                <<FailureEvent("retry", t, w, attempt[t] + 1)>>
          [] OTHER -> <<FailureEvent("failed", t, w, attempt[t]), Event("cascade", t, None)>>

Announce ==
    /\ handling # <<>> /\ handling' = <<>>
    /\ Outcome(handling[1].task, handling[1].result)
    /\ Emit(Announced(handling[1]))
    /\ finished' = IF handling[1].result = "completed"
                   THEN [finished EXCEPT ![handling[1].worker] = @ + 1] ELSE finished
    /\ UNCHANGED <<connected, phase, doing, bounds>>

BackoffEnds(t) ==
    /\ phase = "up" /\ task[t] = "backoff"
    /\ task' = [task EXCEPT ![t] = "requeued"]
    /\ UNCHANGED <<net, phase, attempt, doing, handling, ghosts, bounds>>

(* Nobody is told of the end of an execution: its failure could not be        *)
(* logged, or the context is cancelled and the run loop takes no result, in   *)
(* which case the log may have it nevertheless.                               *)
EndsUnseen(w) ==
    /\ doing[w] # None
    /\ \/ /\ phase = "draining" /\ UNCHANGED faults
          /\ \E result \in {"nothing", "completed", "failed"} : Outcome(doing[w], result)
       \/ /\ faults < MaxFaults /\ faults' = faults + 1
          /\ Outcome(doing[w], "nothing")
    /\ doing' = [doing EXCEPT ![w] = None]
    /\ unheard' = unheard \cup {w}
    /\ UNCHANGED <<net, phase, handling, finished, missed, crashes>>

-----------------------------------------------------------------------------
(* Crash, recovery and connection.                                            *)

BeginCrash ==
    /\ phase = "up" /\ crashes < MaxCrashes /\ crashes' = crashes + 1
    /\ phase' = "draining" /\ Emit(<<Event("crash", None, None)>>)
    /\ UNCHANGED <<connected, task, attempt, doing, handling, finished, faults>>

(* The workers and the run loop have returned, and CloseAll cuts the page off.*)
(* The hub is taken to have nothing left to send when the page is back.       *)
EndCrash ==
    /\ phase = "draining" /\ phase' = "down"
    /\ (\A w \in Workers : doing[w] = None) /\ handling = <<>>
    /\ Cut
    /\ UNCHANGED <<task, attempt, doing, handling, finished, bounds>>

(* The replay makes every task ready that is not settled.                     *)
Recover ==
    /\ phase = "down" /\ phase' = "up"
    /\ task' = [t \in Tasks |-> IF task[t] \in {"completed", "failed"} THEN task[t] ELSE "ready"]
    /\ IF connected
       THEN /\ wire' = wire \o <<Event("submitted", None, None), Event("recover", None, None)>>
            /\ missed' = {}
       ELSE missed' = Tasks /\ UNCHANGED wire
    /\ UNCHANGED <<connected, attempt, doing, handling, finished, unheard, bounds>>

Disconnect ==
    /\ connected /\ faults < MaxFaults /\ faults' = faults + 1
    /\ Cut
    /\ UNCHANGED <<engine, finished, crashes>>
Reconnect ==
    /\ ~connected /\ wire = <<>> /\ connected' = TRUE
    /\ UNCHANGED <<wire, engine, ghosts, bounds>>

BackendNext ==
    \/ \E w \in Workers : \/ \E t \in Tasks : Start(t, w)
                          \/ \E result \in {"completed", "failed"} : Report(w, result)
                          \/ EndsUnseen(w)
    \/ \E t \in Tasks : BackoffEnds(t)
    \/ Announce \/ BeginCrash \/ EndCrash \/ Recover \/ Disconnect \/ Reconnect
=============================================================================
