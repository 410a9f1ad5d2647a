-------------------------------- MODULE EventPanels -------------------------------
(* Two panels that tell of events: the event stream, a bounded list of        *)
(* annotated events that the user may clear (EnhancedEventStream.tsx), and    *)
(* the retry timers of the internals (SystemInternalsPanel.tsx).              *)
EXTENDS Integers, Sequences

CONSTANT MaxStream \* 500: events the stream keeps

ASSUME StreamLimit == MaxStream \in Nat \ {0}

VARIABLES
    events,      \* the stream: type, task, level and retryability of each event
    retryTimers  \* of the internals: task, attempt, announced seconds

eventPanels == <<events, retryTimers>>

EventPanelsInit == events = <<>> /\ retryTimers = {}

-----------------------------------------------------------------------------
(* The event stream.  A field that is 0 is left out of the JSON, and the page *)
(* puts 0 and 3 in its place.                                                 *)

Or(n, default) == IF n = 0 THEN default ELSE n
Level_Exceeded(e) ==
    CASE e.type = "started" -> "info"
      [] e.type \in {"completed", "recover"} -> "success"
      [] e.type = "failed" -> IF e.retry > Or(e.max, 3) THEN "error" ELSE "warn"
      [] e.type = "retry" -> "warn"
      [] e.type \in {"cascade", "crash"} -> "critical"
      [] e.type = "submitted" -> "system"
Level(e) ==
    CASE e.type = "started" -> "info"
      [] e.type \in {"completed", "recover"} -> "success"
      [] e.type = "failed" -> IF e.retry >= Or(e.max, 3) THEN "error" ELSE "warn"
      [] e.type = "retry" -> "warn"
      [] e.type \in {"cascade", "crash"} -> "critical"
      [] e.type = "submitted" -> "system"
AnnouncedRetryable(e) == e.type = "retry" \/ (e.type = "failed" /\ e.retry < Or(e.max, 3))

Kept(s, n) == IF Len(s) > n THEN SubSeq(s, Len(s) - n + 1, Len(s)) ELSE s

OnStreamEvent(e) ==
    events' = Kept(Append(events, [type |-> e.type, task |-> e.task, level |-> Level(e),
                                   retryable |-> AnnouncedRetryable(e)]),
                   MaxStream)

Clear == events # <<>> /\ events' = <<>>

-----------------------------------------------------------------------------
(* The internals.                                                             *)

RetryDelaySeconds(n) == IF n < 5 THEN 2^n ELSE 30
Timer(e) == [task |-> e.task, attempt |-> e.retry, delay |-> RetryDelaySeconds(Or(e.retry, 1))]
OthersThan(t) == {r \in retryTimers : r.task # t}

Timers_KeepStarted(e) ==
    CASE e.type = "retry" -> OthersThan(e.task) \cup {Timer(e)}
      [] e.type \in {"crash", "recover"} -> {}
      [] OTHER -> retryTimers
Timers(e) ==
    CASE e.type = "retry" -> OthersThan(e.task) \cup {Timer(e)}
      [] e.type = "started" -> OthersThan(e.task)
      [] e.type \in {"crash", "recover"} -> {}
      [] OTHER -> retryTimers

OnInternalsEvent(e) == retryTimers' = Timers(e)
=============================================================================
