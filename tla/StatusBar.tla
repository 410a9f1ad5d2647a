-------------------------------- MODULE StatusBar ---------------------------------
(* The status bar (SystemStatusBar.tsx): the numbers it shows come from one   *)
(* request each time the page turns ONLINE, and from the metrics ticks of the *)
(* scheduler; the uptime is taken from that request and counted on locally.   *)
(* The scheduler counts finished tasks, crashes, and counts them again from   *)
(* the log, while its ticks already run.                                      *)
EXTENDS Integers, Sequences

CONSTANTS
    MaxDone,    \* bound: tasks finished
    MaxClock,   \* bound: half seconds
    MaxTicks,   \* bound: metrics ticks on their way
    MaxFetches, \* bound: requests sent
    MaxCrashes, \* bound: crashes
    MaxFaults   \* bound: lost connections, lost requests, failed polls

ASSUME StatusBarBounds ==
    {MaxDone, MaxClock, MaxTicks, MaxFetches, MaxCrashes, MaxFaults} \subseteq Nat

VARIABLES
    online,    \* metricsOnline
    metrics,   \* completed and uptime_seconds, of the state
    uptime,    \* the uptime shown, in seconds
    intervals, \* when each running interval fires next
    fetches,   \* requests without answer, and answers under way
    sent,      \* requests sent so far
    clock,     \* half seconds since the server started
    phase,     \* "up", "down" or "replaying"
    done,      \* tasks the log says are finished
    counted,   \* the scheduler's counter of them
    channel,   \* ticks of this scheduler, not yet broadcast
    leftover,  \* ticks of the schedulers before it
    wire, connected,
    crashes, faults

bar == <<metrics, uptime, intervals>>
requests == <<fetches, sent>>
backend == <<phase, done, counted>>
queues == <<channel, leftover>>
net == <<wire, connected>>
bounds == <<crashes, faults>>
vars == <<online, bar, requests, clock, backend, queues, net, bounds>>

Init ==
    /\ online = FALSE /\ metrics = [completed |-> 0, uptime |-> 0] /\ uptime = 0
    /\ intervals = {} /\ fetches = {} /\ sent = 0 /\ clock = 0
    /\ phase = "up" /\ done = 0 /\ counted = 0
    /\ channel = <<>> /\ leftover = <<>> /\ wire = <<>> /\ connected = TRUE
    /\ crashes = 0 /\ faults = 0

-----------------------------------------------------------------------------
(* The bar.                                                                   *)

(* The uptime effect runs again when metricsOnline or the fetched uptime      *)
(* changes: it clears its interval and starts over from the fetched value.    *)
Cleared_Never(s) == s
Cleared(s) == {}
UptimeEffect(isOnline, fetched) ==
    IF isOnline = online /\ fetched = metrics.uptime THEN UNCHANGED <<uptime, intervals>>
    ELSE IF ~isOnline THEN uptime' = 0 /\ intervals' = Cleared(intervals)
    ELSE uptime' = fetched /\ intervals' = Cleared(intervals) \cup {clock + 2}

(* The page's state follows the polls; turning ONLINE sends a request.  A     *)
(* failed poll and one answered too late are wrong about the backend.         *)
PageLearns(running) ==
    \/ (phase = "up") = running /\ UNCHANGED faults
    \/ (phase = "up") # running /\ faults < MaxFaults /\ faults' = faults + 1
PageTurnsOnline ==
    /\ ~online /\ PageLearns(TRUE) /\ sent < MaxFetches
    /\ online' = TRUE /\ UptimeEffect(TRUE, metrics.uptime)
    /\ sent' = sent + 1
    /\ fetches' = fetches \cup {[id |-> sent + 1, answered |-> FALSE, completed |-> 0, uptime |-> 0]}
    /\ UNCHANGED <<metrics, clock, backend, queues, net, crashes>>
PageTurnsOffline ==
    /\ online /\ PageLearns(FALSE)
    /\ online' = FALSE /\ UptimeEffect(FALSE, metrics.uptime)
    /\ UNCHANGED <<metrics, requests, clock, backend, queues, net, crashes>>

IntervalFires ==
    /\ \E due \in intervals :
          /\ due <= clock /\ intervals' = (intervals \ {due}) \cup {due + 2}
    /\ uptime' = uptime + 1
    /\ UNCHANGED <<online, metrics, requests, clock, backend, queues, net, bounds>>

(* handleMetricsLive.  While the log is replayed the request waits for the    *)
(* manager's lock; without a scheduler it is refused, and so ignored.         *)
ServeFetch ==
    /\ phase # "replaying"
    /\ \E f \in fetches :
          /\ ~f.answered
          /\ fetches' = (fetches \ {f}) \cup
                IF phase = "down" THEN {}
                ELSE {[f EXCEPT !.answered = TRUE, !.completed = counted, !.uptime = clock \div 2]}
    /\ UNCHANGED <<online, bar, sent, clock, backend, queues, net, bounds>>
FetchFails ==
    /\ faults < MaxFaults /\ faults' = faults + 1
    /\ \E f \in fetches : fetches' = fetches \ {f}
    /\ UNCHANGED <<online, bar, sent, clock, backend, queues, net, crashes>>

(* No answer is dropped for being late: whatever has been shown since the     *)
(* request was answered is overwritten.                                       *)
FetchReturns ==
    /\ \E f \in fetches :
          /\ f.answered /\ fetches' = fetches \ {f}
          /\ metrics' = [completed |-> f.completed, uptime |-> f.uptime]
          /\ UptimeEffect(online, f.uptime)
    /\ UNCHANGED <<online, sent, clock, backend, queues, net, bounds>>

OnMetrics(n) == metrics' = [metrics EXCEPT !.completed = n]
Message ==
    /\ wire # <<>> /\ wire' = Tail(wire) /\ OnMetrics(Head(wire))
    /\ UNCHANGED <<online, uptime, intervals, requests, clock, backend, queues, connected, bounds>>

-----------------------------------------------------------------------------
(* The scheduler, the hub and the connection.                                 *)

HalfSecond ==
    /\ clock < MaxClock /\ clock' = clock + 1
    /\ UNCHANGED <<online, bar, requests, backend, queues, net, bounds>>

Finish ==
    /\ phase = "up" /\ done < MaxDone /\ done' = done + 1 /\ counted' = counted + 1
    /\ UNCHANGED <<online, bar, requests, clock, phase, queues, net, bounds>>

(* The ticker is one goroutine of Start: it runs beside the replay and until  *)
(* the crash, whether or not anything has changed.                            *)
Ticking_FirstLife == phase # "down" /\ crashes = 0
Ticking == phase # "down"
Tick ==
    /\ Ticking /\ Len(channel) + Len(leftover) + Len(wire) < MaxTicks
    /\ channel' = Append(channel, counted)
    /\ UNCHANGED <<online, bar, requests, clock, backend, leftover, net, bounds>>

Sent(n) == IF connected THEN wire' = Append(wire, n) ELSE UNCHANGED wire
Broadcast ==
    /\ \/ /\ channel # <<>> /\ phase = "up" /\ channel' = Tail(channel)
          /\ Sent(Head(channel)) /\ UNCHANGED leftover
       \/ /\ leftover # <<>> /\ leftover' = Tail(leftover)
          /\ Sent(Head(leftover)) /\ UNCHANGED channel
    /\ UNCHANGED <<online, bar, requests, clock, backend, connected, bounds>>

(* SimulateCrash leaves what is in the channel to the hub, which empties it   *)
(* beside the channel of the next scheduler; the sockets are closed.          *)
Crash ==
    /\ phase = "up" /\ crashes < MaxCrashes /\ crashes' = crashes + 1
    /\ phase' = "down" /\ leftover' = leftover \o channel /\ channel' = <<>>
    /\ connected' = FALSE /\ wire' = <<>>
    /\ UNCHANGED <<online, bar, requests, clock, done, counted, faults>>
BeginRecovery ==
    /\ phase = "down" /\ phase' = "replaying" /\ counted' = 0
    /\ UNCHANGED <<online, bar, requests, clock, done, queues, net, bounds>>
Replay ==
    /\ phase = "replaying"
    /\ IF counted < done THEN counted' = counted + 1 /\ UNCHANGED phase
       ELSE phase' = "up" /\ UNCHANGED counted
    /\ UNCHANGED <<online, bar, requests, clock, done, queues, net, bounds>>

Disconnect ==
    /\ connected /\ faults < MaxFaults /\ faults' = faults + 1
    /\ connected' = FALSE /\ wire' = <<>>
    /\ UNCHANGED <<online, bar, requests, clock, backend, queues, crashes>>
Reconnect ==
    /\ ~connected /\ connected' = TRUE
    /\ UNCHANGED <<online, bar, requests, clock, backend, queues, wire, bounds>>

Next ==
    \/ PageTurnsOnline \/ PageTurnsOffline \/ IntervalFires
    \/ ServeFetch \/ FetchFails \/ FetchReturns \/ Message
    \/ HalfSecond \/ Finish \/ Tick \/ Broadcast
    \/ Crash \/ BeginRecovery \/ Replay \/ Disconnect \/ Reconnect

Spec == Init /\ [][Next]_vars

(* The page polls, the ticker ticks, the hub and the socket deliver, the      *)
(* server answers, and somebody recovers the system.                          *)
FairSpec ==
    /\ Spec
    /\ WF_vars(PageTurnsOnline) /\ WF_vars(ServeFetch) /\ WF_vars(FetchReturns)
    /\ WF_vars(Message) /\ WF_vars(Tick) /\ WF_vars(Broadcast)
    /\ WF_vars(BeginRecovery) /\ WF_vars(Replay) /\ WF_vars(Reconnect)

-----------------------------------------------------------------------------
(* Properties.                                                                *)

(* However often the page turns ONLINE and whenever the answers arrive, the   *)
(* uptime on the screen never runs ahead of the server's, as long as the      *)
(* server's process lives.                                                    *)
UptimeNeverAhead == uptime <= clock \div 2

(* The bar cannot be left with an old number: when nothing finishes, fails or *)
(* is recovered any more, it comes to show what the scheduler counts, though  *)
(* late answers and the ticks of an earlier scheduler overwrite newer ones.   *)
MetricsConverge == <>[](phase = "up" /\ metrics.completed = counted)
=============================================================================
