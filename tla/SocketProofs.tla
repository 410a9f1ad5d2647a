------------------------------- MODULE SocketProofs -------------------------------
(* The invariants of Socket and its refinement of Feed, for any number of     *)
(* sockets, panels, events, effect runs and faults.                           *)
EXTENDS Socket, TLAPS

USE NoSocketAssumption DEF Alive, Statuses, HeardPublished

LEMMA InitInv == Init => SInv
<1> SUFFICES ASSUME Init PROVE SInv
  OBVIOUS
<1>1. TypeOK
  <2>1. \A S : <<>> \in Seq(S)
    OBVIOUS
  <2> QED
    BY <2>1 DEF Init, TypeOK
<1>2. OneConnection /\ StatusIsTrue /\ ReconnectPending /\ ListensOnce
  BY DEF Init, OneConnection, StatusIsTrue, ReconnectPending, ListensOnce
<1>3. WireInOrder /\ HeardPublished
  BY DEF Init, WireInOrder
<1> QED
  BY <1>1, <1>2, <1>3 DEF Init, SInv

(* Wherever connect gets past its guards there is no live socket, and the one *)
(* it makes is the only one.                                                  *)
LEMMA NewSocketWorks ==
    ASSUME SInv, run' \in Nat, mounted', UNCHANGED last,
           NEW rdy \in [Sockets -> {"closed", "connecting", "open", "closing"}],
           \A s \in Sockets : rdy[s] \notin Alive,
           NewSocket(rdy)
    PROVE  /\ OneConnection' /\ StatusIsTrue' /\ WireInOrder'
           /\ socketRef' # NoSocket
           /\ ready' \in [Sockets -> {"closed", "connecting", "open", "closing"}]
           /\ peer' \in [Sockets -> {"none", "joined", "gone"}]
           /\ wire' \in [Sockets -> Seq(Nat)]
           /\ owner' \in [Sockets -> Nat]
           /\ socketRef' \in Sockets /\ status' \in Statuses
<1> USE DEF SInv, TypeOK
<1>1. PICK s \in Sockets :
        /\ ready' = [rdy EXCEPT ![s] = "connecting"]
        /\ peer' = [peer EXCEPT ![s] = "none"]
        /\ wire' = [wire EXCEPT ![s] = <<>>]
        /\ owner' = [owner EXCEPT ![s] = run']
        /\ socketRef' = s
        /\ status' = "connecting"
  BY DEF NewSocket
<1>2. OneConnection'
  BY <1>1 DEF OneConnection, Current, OwnerMounted
<1>3. StatusIsTrue'
  BY <1>1 DEF StatusIsTrue
<1>4. WireInOrder'
  BY <1>1 DEF WireInOrder
<1> QED
  BY <1>1, <1>2, <1>3, <1>4

(* connect without a current socket makes one.                                *)
LEMMA ConnectWithout ==
    ASSUME NEW rdy, Connect(NoSocket, rdy)
    PROVE  NewSocket(rdy)
BY DEF Connect, HasLive

LEMMA NothingLive ==
    ASSUME SInv
    PROVE  /\ socketRef = NoSocket => \A s \in Sockets : ready[s] \notin Alive
           /\ ~mounted => socketRef = NoSocket
           /\ timers > 0 => mounted /\ socketRef = NoSocket
           /\ Shut \in [Sockets -> {"closed", "connecting", "open", "closing"}]
           /\ \A s \in Sockets : Shut[s] \notin Alive
           /\ Cleared = 0
BY DEF SInv, TypeOK, OneConnection, ReconnectPending, Current, OwnerMounted, Shut, Cleared


LEMMA MountInv == SInv /\ Mount => SInv'
<1> SUFFICES ASSUME SInv, Mount PROVE SInv'
  OBVIOUS
<1> USE DEF SInv, TypeOK
<1>1. ~mounted /\ socketRef = NoSocket /\ \A s \in Sockets : ready[s] \notin Alive
  BY NothingLive DEF Mount
<1>2. /\ run' = 1 /\ mounted' /\ Subscribe(subs) /\ Connect(NoSocket, ready)
      /\ UNCHANGED <<sent, timers, strays, rendered, seen, last, faults>>
  BY <1>1 DEF Mount
<1>3. NewSocket(ready)
  BY <1>2, ConnectWithout
<1>4. /\ OneConnection' /\ StatusIsTrue' /\ WireInOrder' /\ socketRef' # NoSocket
      /\ ready' \in [Sockets -> {"closed", "connecting", "open", "closing"}]
      /\ peer' \in [Sockets -> {"none", "joined", "gone"}]
      /\ wire' \in [Sockets -> Seq(Nat)] /\ owner' \in [Sockets -> Nat]
      /\ socketRef' \in Sockets /\ status' \in Statuses
  BY <1>1, <1>2, <1>3, NewSocketWorks
<1>5. ReconnectPending'
  BY <1>1, <1>2, <1>4 DEF ReconnectPending
<1>6. ListensOnce' /\ subs' \in [Panels -> Nat]
  BY <1>1, <1>2 DEF ListensOnce, Subscribe
<1> QED
  BY <1>2, <1>4, <1>5, <1>6

LEMMA RerunInv == SInv /\ Rerun => SInv'
<1> SUFFICES ASSUME SInv, Rerun PROVE SInv'
  OBVIOUS
<1> USE DEF SInv, TypeOK
<1>1. NewSocket(Shut) /\ run' \in Nat /\ run' > 0 /\ mounted' /\ UNCHANGED last
  BY ConnectWithout DEF Rerun
<1>2. /\ OneConnection' /\ StatusIsTrue' /\ WireInOrder' /\ socketRef' # NoSocket
      /\ ready' \in [Sockets -> {"closed", "connecting", "open", "closing"}]
      /\ peer' \in [Sockets -> {"none", "joined", "gone"}]
      /\ wire' \in [Sockets -> Seq(Nat)] /\ owner' \in [Sockets -> Nat]
      /\ socketRef' \in Sockets /\ status' \in Statuses
  <2>1. /\ Shut \in [Sockets -> {"closed", "connecting", "open", "closing"}]
        /\ \A s \in Sockets : Shut[s] \notin Alive
    BY NothingLive
  <2> HIDE DEF Alive, Shut, SInv, TypeOK
  <2> QED
    BY <1>1, <2>1, NewSocketWorks
<1>3. ReconnectPending'
  BY <1>2, NothingLive DEF Rerun, ReconnectPending
<1>4. ListensOnce' /\ subs' \in [Panels -> Nat]
  BY DEF Rerun, ListensOnce, Subscribe, Unsubscribed
<1> QED
  BY <1>2, <1>3, <1>4 DEF Rerun, ReconnectPending

LEMMA UnmountInv == SInv /\ Unmount => SInv'
<1> SUFFICES ASSUME SInv, Unmount PROVE SInv'
  OBVIOUS
<1> USE DEF SInv, TypeOK
<1>1. /\ ready' \in [Sockets -> {"closed", "connecting", "open", "closing"}]
      /\ \A s \in Sockets : ready'[s] \notin Alive
      /\ socketRef' = NoSocket /\ ~mounted' /\ timers' = 0 /\ strays' = strays
      /\ UNCHANGED <<netVars, status, run, owner, rendered, seen, last, faults>>
  BY NothingLive DEF Unmount, ReconnectPending
<1>2. ListensOnce' /\ subs' \in [Panels -> Nat]
  BY DEF Unmount, ListensOnce, Unsubscribed
<1>3. OneConnection' /\ StatusIsTrue' /\ ReconnectPending' /\ WireInOrder'
  BY <1>1 DEF OneConnection, StatusIsTrue, ReconnectPending, WireInOrder
<1>4. peer' = peer /\ wire' = wire /\ sent' = sent
  BY <1>1 DEF netVars
<1>5. TypeOK'
  <2>1. mounted' \in BOOLEAN
    BY Zenon DEF Unmount
  <2>2. timers' \in Nat /\ socketRef' \in Sockets \cup {NoSocket}
    BY <1>1
  <2> HIDE DEF Alive
  <2> QED
    BY <1>1, <1>2, <1>4, <2>1, <2>2
<1>6. HeardPublished' /\ (mounted' => run' > 0)
  BY <1>1, <1>4
<1> QED
  BY <1>3, <1>2, <1>5, <1>6

LEMMA CommitInv == SInv /\ Commit => SInv'
<1> SUFFICES ASSUME SInv, Commit PROVE SInv'
  OBVIOUS
<1> USE DEF SInv, TypeOK
<1>1. ListensOnce' /\ subs' \in [Panels -> Nat]
  BY DEF Commit, ListensOnce, Subscribe, Unsubscribed
<1>2. OneConnection' /\ StatusIsTrue' /\ ReconnectPending' /\ WireInOrder'
  BY DEF Commit, netVars, OneConnection, StatusIsTrue, ReconnectPending, WireInOrder, Current,
         OwnerMounted
<1> QED
  BY <1>1, <1>2 DEF Commit, netVars

LEMMA TimerInv == SInv /\ TimerFires => SInv'
<1> SUFFICES ASSUME SInv, TimerFires PROVE SInv'
  OBVIOUS
<1> USE DEF SInv, TypeOK
<1>1. mounted /\ socketRef = NoSocket /\ timers = 1 /\ timers' = 0
  BY NothingLive DEF TimerFires, ReconnectPending
<1>2. NewSocket(ready)
  BY <1>1, ConnectWithout DEF TimerFires
<1>3. /\ OneConnection' /\ StatusIsTrue' /\ WireInOrder' /\ socketRef' # NoSocket
      /\ ready' \in [Sockets -> {"closed", "connecting", "open", "closing"}]
      /\ peer' \in [Sockets -> {"none", "joined", "gone"}]
      /\ wire' \in [Sockets -> Seq(Nat)] /\ owner' \in [Sockets -> Nat]
      /\ socketRef' \in Sockets /\ status' \in Statuses
  BY <1>1, <1>2, NothingLive, NewSocketWorks DEF TimerFires
<1>4. ReconnectPending' /\ ListensOnce'
  BY <1>1, <1>3 DEF TimerFires, ReconnectPending, ListensOnce
<1> QED
  BY <1>1, <1>3, <1>4 DEF TimerFires

LEMMA OpenInv == ASSUME NEW s \in Sockets, SInv, Open(s) PROVE SInv'
<1> USE DEF SInv, TypeOK
<1>1. socketRef = s /\ mounted /\ owner[s] = run
  BY DEF Open, OneConnection, Current, OwnerMounted
<1>2. status' = "connected" /\ ready' = [ready EXCEPT ![s] = "open"]
  BY <1>1 DEF Open, OnOpen, Current, OwnerMounted
<1>3. OneConnection' /\ StatusIsTrue'
  BY <1>1, <1>2 DEF Open, OneConnection, StatusIsTrue, Current, OwnerMounted
<1>4. ReconnectPending' /\ ListensOnce'
  BY <1>1 DEF Open, ReconnectPending, ListensOnce
<1>5. WireInOrder'
  BY <1>1, <1>2 DEF Open, netVars, WireInOrder
<1> QED
  BY <1>2, <1>3, <1>4, <1>5 DEF Open, netVars

(* A socket that is no longer live has left socketRef, and left a timer.      *)
LEMMA CloseWorks ==
    ASSUME NEW s \in Sockets, SInv, OnClose(s), ready' = [ready EXCEPT ![s] = "closed"],
           UNCHANGED <<netVars, run, owner, mounted, strays, subs, rendered, seen, last>>,
           faults' \in Nat
    PROVE  SInv'
<1> USE DEF SInv, TypeOK
<1>1. CASE socketRef = s
  <2>1. mounted /\ owner[s] = run
    BY <1>1 DEF OneConnection, OwnerMounted
  <2>2. socketRef' = NoSocket /\ status' = "disconnected" /\ timers' = timers + 1
    BY <1>1, <2>1 DEF OnClose, OwnerMounted, Current
  <2>3. OneConnection' /\ StatusIsTrue' /\ ReconnectPending'
    BY <1>1, <2>1, <2>2 DEF OneConnection, StatusIsTrue, ReconnectPending, Current
  <2>4. WireInOrder' /\ ListensOnce'
    BY DEF WireInOrder, ListensOnce, netVars
  <2> QED
    BY <2>2, <2>3, <2>4 DEF netVars
<1>2. CASE socketRef # s
  <2>1. UNCHANGED <<socketRef, status, timers>>
    BY <1>2 DEF OnClose, Current
  <2>2. OneConnection' /\ StatusIsTrue' /\ ReconnectPending'
    BY <1>2, <2>1 DEF OneConnection, StatusIsTrue, ReconnectPending, Current, OwnerMounted
  <2>3. WireInOrder' /\ ListensOnce'
    BY DEF WireInOrder, ListensOnce, netVars
  <2> QED
    BY <2>1, <2>2, <2>3 DEF netVars
<1> QED
  BY <1>1, <1>2

LEMMA ClosedInv == ASSUME NEW s \in Sockets, SInv, Closed(s) PROVE SInv'
<1>1. OnClose(s) /\ ready' = [ready EXCEPT ![s] = "closed"] /\ faults' \in Nat
  BY DEF Closed, SInv, TypeOK
<1> QED
  BY <1>1, CloseWorks DEF Closed

LEMMA FaultInv == ASSUME NEW s \in Sockets, SInv, Fault(s) PROVE SInv'
<1>1. OnClose(s) /\ ready' = [ready EXCEPT ![s] = "closed"] /\ faults' \in Nat
  BY DEF Fault, SInv, TypeOK
<1> QED
  BY <1>1, CloseWorks DEF Fault

(* Only the current socket delivers, to one listener of each panel.           *)
LEMMA MessageInv ==
    ASSUME NEW s \in Sockets, SInv, Message(s)
    PROVE  /\ SInv'
           /\ last' \in 1..Len(sent) /\ last' > last
           /\ seen' = [p \in Panels |-> Append(seen[p], last')]
<1> USE DEF SInv, TypeOK
<1>1. socketRef = s /\ mounted
  BY DEF Message, OneConnection, Current, OwnerMounted
<1>2. DEFINE n == Head(wire[s])
<1>3. /\ wire[s] \in Seq(Nat) /\ wire[s] # <<>> /\ n = wire[s][1] /\ Len(wire[s]) \in Nat \ {0}
      /\ n \in Nat
  BY DEF Message
<1>4. n > last /\ n <= Len(sent)
  BY <1>3 DEF Message, WireInOrder
<1>5. last' = n
  BY <1>1 DEF Message, OnMessage, Current
<1>6. \A p \in Panels : Given(p, n) = <<n>>
  BY <1>1 DEF Given, ListensOnce
<1>7. \A p \in Panels : seen[p] \o <<n>> = Append(seen[p], n)
  BY <1>3
<1>8. seen' = [p \in Panels |-> Append(seen[p], n)]
  BY <1>1, <1>6, <1>7 DEF Message, OnMessage, Current
<1>9. seen' \in [Panels -> Seq(Nat)]
  BY <1>3, <1>8
<1>10. wire' = [wire EXCEPT ![s] = Tail(wire[s])] /\ Tail(wire[s]) \in Seq(Nat)
  BY <1>3 DEF Message
<1>11. OneConnection' /\ StatusIsTrue' /\ ReconnectPending' /\ ListensOnce'
  BY DEF Message, OneConnection, StatusIsTrue, ReconnectPending, ListensOnce, Current,
         OwnerMounted
<1>12. WireInOrder'
  <2> SUFFICES ASSUME NEW u \in Sockets, ready[u] \in Alive
               PROVE  /\ \A i \in 1..Len(wire'[u]) : wire'[u][i] > n /\ wire'[u][i] <= Len(sent)
                      /\ \A i, j \in 1..Len(wire'[u]) : i < j => wire'[u][i] < wire'[u][j]
    BY <1>5 DEF Message, WireInOrder
  <2>1. u = s
    BY <1>1 DEF OneConnection, Current
  <2>2. /\ wire'[u] = Tail(wire[s]) /\ Len(Tail(wire[s])) = Len(wire[s]) - 1
        /\ \A i \in 1..Len(Tail(wire[s])) : Tail(wire[s])[i] = wire[s][i + 1]
    BY <1>3, <1>10, <2>1
  <2>3. \A i, j \in 1..Len(wire[s]) : i < j => wire[s][i] < wire[s][j]
    BY <2>1 DEF WireInOrder
  <2>4. \A i \in 1..Len(wire[s]) : wire[s][i] <= Len(sent)
    BY <2>1 DEF WireInOrder
  <2>5. \A i \in 1..Len(Tail(wire[s])) : i + 1 \in 1..Len(wire[s]) /\ 1 \in 1..Len(wire[s]) /\ 1 < i + 1
    BY <1>3, <2>2
  <2>6. \A i \in 1..Len(Tail(wire[s])) : Tail(wire[s])[i] > n /\ Tail(wire[s])[i] <= Len(sent)
    BY <1>3, <2>2, <2>3, <2>4, <2>5
  <2>7. \A i, j \in 1..Len(Tail(wire[s])) : i < j => Tail(wire[s])[i] < Tail(wire[s])[j]
    <3> SUFFICES ASSUME NEW i \in 1..Len(Tail(wire[s])), NEW j \in 1..Len(Tail(wire[s])), i < j
                 PROVE  wire[s][i + 1] < wire[s][j + 1]
      BY <2>2
    <3> QED
      BY <2>3, <2>5
  <2> QED
    BY <2>2, <2>6, <2>7
<1>13. SInv'
  <2>1. last' <= Len(sent') /\ last' \in Nat
    BY <1>3, <1>4, <1>5 DEF Message
  <2>2. wire' \in [Sockets -> Seq(Nat)]
    BY <1>10
  <2>3. TypeOK'
    BY <1>9, <2>1, <2>2 DEF Message
  <2> QED
    BY <1>11, <1>12, <2>1, <2>3 DEF Message
<1>14. last' \in 1..Len(sent)
  <2>1. Len(sent) \in Nat /\ last \in Nat
    OBVIOUS
  <2> QED
    BY <1>3, <1>4, <1>5, <2>1
<1> QED
  BY <1>3, <1>4, <1>5, <1>8, <1>13, <1>14

LEMMA HubSideInv ==
    ASSUME SInv, peer' \in [Sockets -> {"none", "joined", "gone"}], faults' \in Nat,
           UNCHANGED <<ready, wire, sent, socketRef, status, run, owner, mounted, timers,
                       strays, subs, rendered, seen, last>>
    PROVE  SInv'
BY DEF SInv, TypeOK, OneConnection, StatusIsTrue, ReconnectPending, ListensOnce, WireInOrder,
       Current, OwnerMounted

LEMMA BroadcastInv == ASSUME NEW k \in Kinds, SInv, Broadcast(k) PROVE SInv'
<1> USE DEF SInv, TypeOK
<1>1. /\ sent' = Append(sent, k) /\ sent' \in Seq(Kinds) /\ Len(sent') = Len(sent) + 1
      /\ Len(sent) \in Nat
  BY DEF Broadcast
<1>2. wire' = [u \in Sockets |-> IF peer[u] = "joined"
                                 THEN Append(wire[u], Len(sent) + 1) ELSE wire[u]]
  BY DEF Broadcast
<1>3. wire' \in [Sockets -> Seq(Nat)]
  BY <1>1, <1>2
<1>4. OneConnection' /\ StatusIsTrue' /\ ReconnectPending' /\ ListensOnce'
  BY DEF Broadcast, OneConnection, StatusIsTrue, ReconnectPending, ListensOnce, Current,
         OwnerMounted
<1>5. WireInOrder'
  <2> SUFFICES ASSUME NEW u \in Sockets, ready[u] \in Alive
               PROVE  /\ \A i \in 1..Len(wire'[u]) : wire'[u][i] > last /\ wire'[u][i] <= Len(sent')
                      /\ \A i, j \in 1..Len(wire'[u]) : i < j => wire'[u][i] < wire'[u][j]
    BY DEF Broadcast, WireInOrder
  <2>1. /\ \A i \in 1..Len(wire[u]) : wire[u][i] > last /\ wire[u][i] <= Len(sent)
        /\ \A i, j \in 1..Len(wire[u]) : i < j => wire[u][i] < wire[u][j]
    BY DEF WireInOrder
  <2>2. wire[u] \in Seq(Nat) /\ last \in Nat
    OBVIOUS
  <2>3. CASE peer[u] # "joined"
    BY <1>1, <1>2, <2>1, <2>2, <2>3
  <2>4. CASE peer[u] = "joined"
    <3>1. wire'[u] = Append(wire[u], Len(sent) + 1)
      BY <1>2, <2>4
    <3>2. /\ Len(wire'[u]) = Len(wire[u]) + 1 /\ Len(wire[u]) \in Nat
          /\ \A i \in 1..Len(wire[u]) : wire'[u][i] = wire[u][i]
          /\ wire'[u][Len(wire[u]) + 1] = Len(sent) + 1
      BY <1>1, <2>2, <3>1
    <3>3. last < Len(sent) + 1
      BY <1>1, <2>2
    <3>4. \A i \in 1..Len(wire'[u]) : i \in 1..Len(wire[u]) \/ i = Len(wire[u]) + 1
      BY <3>2
    <3>5. \A i \in 1..Len(wire'[u]) : wire'[u][i] > last /\ wire'[u][i] <= Len(sent) + 1
      <4> SUFFICES ASSUME NEW i \in 1..Len(wire'[u])
                   PROVE  wire'[u][i] > last /\ wire'[u][i] <= Len(sent) + 1
        OBVIOUS
      <4>1. CASE i \in 1..Len(wire[u])
        <5>1. wire'[u][i] = wire[u][i] /\ wire[u][i] \in Nat
          BY <2>2, <3>2, <4>1
        <5>2. wire[u][i] > last /\ wire[u][i] <= Len(sent)
          BY <2>1, <4>1
        <5> QED
          BY <1>1, <5>1, <5>2
      <4>2. CASE i = Len(wire[u]) + 1
        BY <1>1, <3>2, <3>3, <4>2
      <4> QED
        BY <3>4, <4>1, <4>2
    <3>6. \A i, j \in 1..Len(wire'[u]) : i < j => wire'[u][i] < wire'[u][j]
      <4> SUFFICES ASSUME NEW i \in 1..Len(wire'[u]), NEW j \in 1..Len(wire'[u]), i < j
                   PROVE  wire'[u][i] < wire'[u][j]
        OBVIOUS
      <4>0. i \in 1..Len(wire[u])
        BY <1>1, <3>2, <3>4
      <4>1. i \in 1..Len(wire[u]) /\ wire'[u][i] = wire[u][i] /\ wire[u][i] <= Len(sent)
            /\ wire[u][i] \in Nat
        BY <2>1, <2>2, <3>2, <4>0
      <4>2. CASE j \in 1..Len(wire[u])
        BY <2>1, <3>2, <4>1, <4>2
      <4>3. CASE j = Len(wire[u]) + 1
        BY <1>1, <3>2, <4>1, <4>3
      <4> QED
        BY <3>4, <4>2, <4>3
    <3> QED
      BY <1>1, <3>5, <3>6
  <2> QED
    BY <2>3, <2>4
<1> QED
  BY <1>1, <1>3, <1>4, <1>5 DEF Broadcast

(* What the page reports, hears and waits for, for any number of everything.  *)
THEOREM SpecInv == Spec => []SInv
<1>1. Init => SInv
  BY InitInv
<1>2. SInv /\ [Next]_vars => SInv'
  <2> SUFFICES ASSUME SInv, [Next]_vars PROVE SInv'
    OBVIOUS
  <2>1. CASE Mount
    BY <2>1, MountInv
  <2>2. CASE Rerun
    BY <2>2, RerunInv
  <2>3. CASE Unmount
    BY <2>3, UnmountInv
  <2>4. CASE Commit
    BY <2>4, CommitInv
  <2>5. CASE TimerFires
    BY <2>5, TimerInv
  <2>6. ASSUME NEW s \in Sockets, Open(s) \/ Message(s) \/ Closed(s) \/ Fault(s) PROVE SInv'
    BY <2>6, OpenInv, MessageInv, ClosedInv, FaultInv
  <2>7. ASSUME NEW s \in Sockets, Accept(s) \/ RemoveClient(s) PROVE SInv'
    BY <2>7, HubSideInv DEF Accept, RemoveClient, SInv, TypeOK
  <2>8. ASSUME NEW k \in Kinds, Broadcast(k) PROVE SInv'
    BY <2>8, BroadcastInv
  <2>9. CASE CloseAll
    BY <2>9, HubSideInv DEF CloseAll, SInv, TypeOK
  <2>10. CASE UNCHANGED vars
    BY <2>10 DEF vars, SInv, TypeOK, OneConnection, StatusIsTrue, ReconnectPending,
                 ListensOnce, WireInOrder, Current, OwnerMounted
  <2> QED
    BY <2>1, <2>2, <2>3, <2>4, <2>5, <2>6, <2>7, <2>8, <2>9, <2>10
       DEF Next, ClientNext, HubNext
<1> QED
  BY <1>1, <1>2, PTL DEF Spec

(* Whatever the order of mounts, closes and reconnects, there is one          *)
(* connection, the status tells the truth about it, and without a connection  *)
(* a reconnect is on its way.                                                 *)
THEOREM OneConnectionAlways == Spec => []OneConnection
<1>1. SInv => OneConnection
  BY DEF SInv
<1> QED
  BY <1>1, SpecInv, PTL

(* The status shown is that of the socket.                                    *)
THEOREM StatusAlwaysTrue == Spec => []StatusIsTrue
<1>1. SInv => StatusIsTrue
  BY DEF SInv
<1> QED
  BY <1>1, SpecInv, PTL

(* A page without a socket has exactly one reconnect timer.                   *)
THEOREM ReconnectAlwaysPending == Spec => []ReconnectPending
<1>1. SInv => ReconnectPending
  BY DEF SInv
<1> QED
  BY <1>1, SpecInv, PTL

(* The panels are given what Feed promises.                                   *)
THEOREM Refinement == Spec => ImplementsFeed
<1>1. Init => F!Init
  BY DEF Init, F!Init
<1>2. SInv /\ [Next]_vars => [F!Next]_<<sent, seen, last>>
  <2> SUFFICES ASSUME SInv, [Next]_vars PROVE [F!Next]_<<sent, seen, last>>
    OBVIOUS
  <2>1. ASSUME NEW s \in Sockets, Message(s) PROVE F!Hear
    <3>1. /\ last' \in 1..Len(sent) /\ last' > last
          /\ seen' = [p \in Panels |-> Append(seen[p], last')]
      BY <2>1, MessageInv
    <3> QED
      BY <2>1, <3>1 DEF F!Hear, Message
  <2>2. ASSUME NEW k \in Kinds, Broadcast(k) PROVE F!Publish
    BY <2>2 DEF F!Publish, Broadcast
  <2>3. CASE Mount \/ Rerun \/ Unmount \/ Commit \/ TimerFires \/ CloseAll
    BY <2>3 DEF Mount, Rerun, Unmount, Commit, TimerFires, CloseAll, netVars
  <2>4. ASSUME NEW s \in Sockets,
               Open(s) \/ Closed(s) \/ Fault(s) \/ Accept(s) \/ RemoveClient(s)
        PROVE  UNCHANGED <<sent, seen, last>>
    BY <2>4 DEF Open, Closed, Fault, Accept, RemoveClient, netVars
  <2>5. CASE UNCHANGED vars
    BY <2>5 DEF vars
  <2> QED
    BY <2>1, <2>2, <2>3, <2>4, <2>5 DEF Next, ClientNext, HubNext, F!Next
<1> QED
  BY <1>1, <1>2, SpecInv, PTL DEF Spec, ImplementsFeed, F!Spec
=============================================================================
