---------------------------------- MODULE Socket ----------------------------------
(* The event stream in the browser (WebSocketProvider in useWebSocket.ts):    *)
(* one shared socket, its reconnect timer and its status, the panels that     *)
(* listen to it, and the hub at the other end, which broadcasts to whoever    *)
(* has joined.  An effect run is one execution of the provider's useEffect:   *)
(* the handlers of a socket and of a timer belong to the run that made them.  *)
EXTENDS Naturals, Sequences, FiniteSets, Functions

CONSTANTS
    Sockets,    \* socket objects; a closed one may be garbage and made anew
    NoSocket,   \* socketRef.current = null
    Panels,     \* components that call useWebSocket
    Kinds,      \* kinds of event
    MaxSent,    \* bound: events published
    MaxRuns,    \* bound: effect runs (mount, StrictMode, hot reload)
    MaxFaults   \* bound: connections refused or broken

ASSUME NoSocketAssumption == NoSocket \notin Sockets
ASSUME BoundsAssumption == MaxSent \in Nat /\ MaxRuns \in Nat /\ MaxFaults \in Nat

VARIABLES
    ready,     \* readyState of each socket
    peer,      \* the server's side of it: "none", "joined" the hub, "gone"
    wire,      \* positions of the events in transit to it
    sent,      \* kinds of the events published
    socketRef, \* the current socket
    status,    \* what the provider reports
    run,       \* number of the effect run
    owner,     \* the effect run a socket belongs to
    mounted,   \* the current run has not been cleaned up
    timers,    \* reconnect timers of the current run that have not fired
    strays,    \* reconnect timers of earlier runs that were not cleared
    subs,      \* listeners each panel has in listenersRef
    rendered,  \* the status the panels were last rendered with
    seen,      \* positions each panel has been given
    last,      \* the position given last
    faults     \* connections refused or broken so far

netVars == <<peer, wire, sent>>
vars == <<ready, peer, wire, sent, socketRef, status, run, owner, mounted, timers,
          strays, subs, rendered, seen, last, faults>>

Alive == {"connecting", "open"}
Current(s) == socketRef = s
(* `mounted' as the handlers of socket s see it.                              *)
OwnerMounted(s) == mounted /\ owner[s] = run

Init ==
    /\ ready = [s \in Sockets |-> "closed"]
    /\ peer = [s \in Sockets |-> "none"]
    /\ wire = [s \in Sockets |-> <<>>]
    /\ sent = <<>>
    /\ socketRef = NoSocket /\ status = "disconnected" /\ rendered = "disconnected"
    /\ run = 0 /\ owner = [s \in Sockets |-> 0]
    /\ mounted = FALSE
    /\ timers = 0 /\ strays = 0
    /\ subs = [p \in Panels |-> 0]
    /\ seen = [p \in Panels |-> <<>>] /\ last = 0
    /\ faults = 0

-----------------------------------------------------------------------------
(* The provider.  The operators take the values an earlier part of the same   *)
(* task has already written: the sockets' states and the current socket.      *)

HasLive(ref, rdy) == ref # NoSocket /\ rdy[ref] \in Alive

(* connect, past its two guards: a new socket becomes the current one.        *)
NewSocket(rdy) ==
    \E s \in Sockets :
        /\ rdy[s] = "closed" /\ peer[s] # "joined"
        /\ ready' = [rdy EXCEPT ![s] = "connecting"]
        /\ peer' = [peer EXCEPT ![s] = "none"]
        /\ wire' = [wire EXCEPT ![s] = <<>>]
        /\ owner' = [owner EXCEPT ![s] = run']
        /\ socketRef' = s
        /\ status' = "connecting"

Connect(ref, rdy) ==
    \/ /\ ~HasLive(ref, rdy) /\ NewSocket(rdy)
    \/ /\ HasLive(ref, rdy)
       /\ ready' = rdy /\ socketRef' = ref
       /\ UNCHANGED <<peer, wire, owner, status>>

(* socket.onopen                                                              *)
OnOpen(s) ==
    IF OwnerMounted(s) /\ Current(s) THEN status' = "connected" ELSE UNCHANGED status

(* socket.onmessage: every listener is given the event.                       *)
Given(p, n) == [i \in 1..subs[p] |-> n]
OnMessage_OnceRendered(s) ==
    IF Current(s) /\ rendered = "connected"
    THEN /\ seen' = [p \in Panels |-> seen[p] \o Given(p, Head(wire[s]))]
         /\ last' = Head(wire[s])
    ELSE UNCHANGED <<seen, last>>
OnMessage(s) ==
    IF Current(s)
    THEN /\ seen' = [p \in Panels |-> seen[p] \o Given(p, Head(wire[s]))]
         /\ last' = Head(wire[s])
    ELSE UNCHANGED <<seen, last>>

(* socket.onclose.  onerror comes first when the connection fails, and its    *)
(* close() finds the socket closed already.                                   *)
OnClose_NoRetry(s) ==
    IF OwnerMounted(s) /\ Current(s)
    THEN socketRef' = NoSocket /\ status' = "disconnected" /\ UNCHANGED timers
    ELSE UNCHANGED <<socketRef, status, timers>>
OnClose(s) ==
    IF OwnerMounted(s) /\ Current(s)
    THEN /\ socketRef' = NoSocket
         /\ status' = "disconnected"
         /\ timers' = timers + 1
    ELSE UNCHANGED <<socketRef, status, timers>>

(* What the effect's cleanup leaves: the timer it has recorded is cleared,    *)
(* one it has lost track of goes astray; the current socket is closed.        *)
Cleared == IF timers > 0 THEN timers - 1 ELSE 0
Shut == IF socketRef = NoSocket THEN ready ELSE [ready EXCEPT ![socketRef] =
            IF ready[socketRef] = "closed" THEN "closed" ELSE "closing"]

(* useWebSocket: a panel subscribes when it mounts, and again whenever the    *)
(* context value changes, after taking its old listener out.                  *)
Subscribe(before) == subs' = [p \in Panels |-> before[p] + 1]
Unsubscribed_Never == subs
Unsubscribed == [p \in Panels |-> subs[p] - 1]

-----------------------------------------------------------------------------
(* Steps.                                                                     *)

Mount ==
    /\ run = 0 /\ MaxRuns > 0
    /\ run' = 1 /\ mounted' = TRUE
    /\ Subscribe(subs)
    /\ Connect(socketRef, ready)
    /\ UNCHANGED <<sent, timers, strays, rendered, seen, last, faults>>

(* Cleanup and the next run of the effect, in one commit.                     *)
Rerun ==
    /\ mounted /\ run < MaxRuns
    /\ run' = run + 1
    /\ strays' = strays + Cleared /\ timers' = 0
    /\ Subscribe(Unsubscribed)
    /\ Connect(NoSocket, Shut)
    /\ UNCHANGED <<sent, mounted, rendered, seen, last, faults>>

Unmount ==
    /\ mounted
    /\ mounted' = FALSE
    /\ strays' = strays + Cleared /\ timers' = 0
    /\ subs' = Unsubscribed
    /\ ready' = Shut /\ socketRef' = NoSocket
    /\ UNCHANGED <<netVars, status, run, owner, rendered, seen, last, faults>>

(* React commits a changed status: the panels' effects run again.             *)
Commit ==
    /\ mounted /\ rendered # status
    /\ rendered' = status
    /\ Subscribe(Unsubscribed)
    /\ UNCHANGED <<ready, netVars, socketRef, status, run, owner, mounted, timers,
                   strays, seen, last, faults>>

(* connect is called by the timer.  A stray one would find its run cleaned up *)
(* and return.                                                                *)
TimerFires ==
    /\ timers > 0
    /\ timers' = timers - 1
    /\ run' = run
    /\ Connect(socketRef, ready)
    /\ UNCHANGED <<sent, mounted, strays, subs, rendered, seen, last, faults>>
Open(s) ==
    /\ ready[s] = "connecting" /\ peer[s] # "none"
    /\ ready' = [ready EXCEPT ![s] = "open"]
    /\ OnOpen(s)
    /\ UNCHANGED <<netVars, socketRef, run, owner, mounted, timers, strays, subs,
                   rendered, seen, last, faults>>

Message(s) ==
    /\ ready[s] = "open" /\ wire[s] # <<>>
    /\ wire' = [wire EXCEPT ![s] = Tail(@)]
    /\ OnMessage(s)
    /\ UNCHANGED <<ready, peer, sent, socketRef, status, run, owner, mounted, timers,
                   strays, subs, rendered, faults>>

(* The close event: of a socket the page has closed, or of one the server has *)
(* closed, after what was in transit.                                         *)
Closed(s) ==
    /\ \/ ready[s] = "closing"
       \/ ready[s] = "open" /\ peer[s] = "gone" /\ wire[s] = <<>>
    /\ ready' = [ready EXCEPT ![s] = "closed"]
    /\ OnClose(s)
    /\ UNCHANGED <<netVars, run, owner, mounted, strays, subs, rendered, seen, last,
                   faults>>

(* The connection is refused or breaks; the server may learn of it later.     *)
Fault(s) ==
    /\ ready[s] \in Alive /\ faults < MaxFaults
    /\ faults' = faults + 1
    /\ ready' = [ready EXCEPT ![s] = "closed"]
    /\ OnClose(s)
    /\ UNCHANGED <<netVars, run, owner, mounted, strays, subs, rendered, seen, last>>

-----------------------------------------------------------------------------
(* The hub (websocket.go).                                                    *)

(* HandleWS: the connection is upgraded and joins.                            *)
Accept(s) ==
    /\ ready[s] = "connecting" /\ peer[s] = "none"
    /\ peer' = [peer EXCEPT ![s] = "joined"]
    /\ UNCHANGED <<ready, wire, sent, socketRef, status, run, owner, mounted, timers,
                   strays, subs, rendered, seen, last, faults>>

(* removeClient: the read loop sees the browser's end closed.                 *)
RemoveClient(s) ==
    /\ peer[s] = "joined" /\ ready[s] \notin Alive
    /\ peer' = [peer EXCEPT ![s] = "gone"]
    /\ UNCHANGED <<ready, wire, sent, socketRef, status, run, owner, mounted, timers,
                   strays, subs, rendered, seen, last, faults>>

(* broadcast                                                                  *)
Broadcast(k) ==
    /\ Len(sent) < MaxSent
    /\ sent' = Append(sent, k)
    /\ wire' = [s \in Sockets |-> IF peer[s] = "joined"
                                  THEN Append(wire[s], Len(sent) + 1) ELSE wire[s]]
    /\ UNCHANGED <<ready, peer, socketRef, status, run, owner, mounted, timers,
                   strays, subs, rendered, seen, last, faults>>

(* CloseAll: a crash is simulated.                                            *)
CloseAll ==
    /\ \E s \in Sockets : peer[s] = "joined"
    /\ faults < MaxFaults /\ faults' = faults + 1
    /\ peer' = [s \in Sockets |-> IF peer[s] = "joined" THEN "gone" ELSE peer[s]]
    /\ UNCHANGED <<ready, wire, sent, socketRef, status, run, owner, mounted, timers,
                   strays, subs, rendered, seen, last>>

ClientNext ==
    \/ Mount \/ Rerun \/ Unmount \/ Commit \/ TimerFires
    \/ \E s \in Sockets : Open(s) \/ Message(s) \/ Closed(s) \/ Fault(s)
HubNext ==
    \/ \E s \in Sockets : Accept(s) \/ RemoveClient(s)
    \/ \E k \in Kinds : Broadcast(k)
    \/ CloseAll
Next == ClientNext \/ HubNext

(* The browser runs its timers and delivers its events, React commits what it *)
(* has been told, the server answers: nothing obliges a user to mount.        *)
Fairness ==
    /\ WF_vars(TimerFires) /\ WF_vars(Commit)
    /\ \A s \in Sockets :
          /\ WF_vars(Open(s)) /\ WF_vars(Message(s)) /\ WF_vars(Closed(s))
          /\ WF_vars(Accept(s)) /\ WF_vars(RemoveClient(s))

Spec == Init /\ [][Next]_vars
FairSpec == Spec /\ Fairness

-----------------------------------------------------------------------------
(* Properties.                                                                *)

Statuses == {"disconnected", "connecting", "connected"}

TypeOK ==
    /\ ready \in [Sockets -> {"closed", "connecting", "open", "closing"}]
    /\ peer \in [Sockets -> {"none", "joined", "gone"}]
    /\ wire \in [Sockets -> Seq(Nat)]
    /\ sent \in Seq(Kinds)
    /\ socketRef \in Sockets \cup {NoSocket}
    /\ status \in Statuses /\ rendered \in Statuses
    /\ run \in Nat /\ owner \in [Sockets -> Nat]
    /\ mounted \in BOOLEAN
    /\ timers \in Nat /\ strays \in Nat
    /\ subs \in [Panels -> Nat]
    /\ seen \in [Panels -> Seq(Nat)] /\ last \in Nat
    /\ faults \in Nat

(* However often the effect is cleaned up and run again, and whatever close   *)
(* event is still to come, the page holds at most one live connection, and it *)
(* is the one whose events it listens to.                                     *)
OneConnection ==
    /\ \A s \in Sockets : ready[s] \in Alive => Current(s)
    /\ socketRef # NoSocket => ready[socketRef] \in Alive /\ OwnerMounted(socketRef)

(* A mounted provider reports what its socket is.                             *)
StatusIsTrue ==
    mounted => status = IF socketRef = NoSocket THEN "disconnected"
                        ELSE IF ready[socketRef] = "open" THEN "connected" ELSE "connecting"

(* A mounted provider without a socket has exactly one reconnect timer        *)
(* running, no other provider has one, and none outlives its run.             *)
ReconnectPending ==
    /\ timers = IF mounted /\ socketRef = NoSocket THEN 1 ELSE 0
    /\ strays = 0

(* A panel listens once while the provider is mounted, however many status    *)
(* changes have made it subscribe again, and what is on its way to it is      *)
(* newer than what it has been given, in order.                               *)
ListensOnce == \A p \in Panels : subs[p] = IF mounted THEN 1 ELSE 0
WireInOrder ==
    \A s \in Sockets : ready[s] \in Alive =>
        /\ \A i \in 1..Len(wire[s]) : wire[s][i] > last /\ wire[s][i] <= Len(sent)
        /\ \A i, j \in 1..Len(wire[s]) : i < j => wire[s][i] < wire[s][j]
HeardPublished == last <= Len(sent)

(* The inductive invariant of the proofs.                                     *)
SInv ==
    /\ (mounted => run > 0)
    /\ TypeOK /\ OneConnection /\ StatusIsTrue /\ ReconnectPending
    /\ ListensOnce /\ WireInOrder /\ HeardPublished

(* Across reconnects, re-renders and StrictMode's second mount, the panels    *)
(* are given what Feed promises: no event twice, none out of order, and all   *)
(* of them the same.                                                          *)
F == INSTANCE Feed WITH heard <- seen
ImplementsFeed == F!Spec

(* Once connections stop being refused, a mounted provider is connected.      *)
Reconnects == mounted ~> (status = "connected" \/ ~mounted)

(* What the hub has sent to the connected page reaches the panels, unless     *)
(* the connection is lost or left.                                            *)
EventsArrive ==
    \A s \in Sockets : \A n \in 1..MaxSent :
        (Current(s) /\ n \in Range(wire[s])) ~> (last >= n \/ ~Current(s))
=============================================================================
