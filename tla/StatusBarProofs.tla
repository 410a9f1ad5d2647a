----------------------------- MODULE StatusBarProofs ------------------------------
(* The uptime of the status bar never runs ahead of the server's, for any     *)
(* number of requests, crashes, faults and seconds.  The invariant says of    *)
(* every place an uptime is kept that the clock has passed it, and of the     *)
(* only interval that it fires no sooner than the next second is over.        *)
EXTENDS StatusBar, TLAPS

Passed(seconds) == seconds \in Nat /\ 2 * seconds <= clock
HasPassed(r) == "uptime" \in DOMAIN r /\ Passed(r.uptime)

IntervalInStep ==
    /\ ~online => intervals = {}
    /\ \A due \in intervals : due \in Nat /\ 2 * uptime + 2 <= due
    /\ \A due, other \in intervals : due = other

UptimeInv ==
    /\ clock \in Nat /\ online \in BOOLEAN
    /\ Passed(uptime) /\ HasPassed(metrics)
    /\ \A f \in fetches : HasPassed(f)
    /\ IntervalInStep

LEMMA InitInv == Init => UptimeInv
<1> SUFFICES ASSUME Init PROVE UptimeInv
  OBVIOUS
<1>1. clock = 0 /\ uptime = 0 /\ online = FALSE /\ intervals = {} /\ fetches = {}
  BY DEF Init
<1>2. "uptime" \in DOMAIN metrics /\ metrics.uptime = 0
  BY DEF Init
<1>3. Passed(uptime) /\ HasPassed(metrics)
  BY <1>1, <1>2 DEF Passed, HasPassed
<1> QED
  BY <1>1, <1>3 DEF UptimeInv, IntervalInStep

(* The effect starts its interval a full second after the value it starts     *)
(* from, and clears the one before.                                           *)
LEMMA EffectInv ==
    ASSUME UptimeInv, clock' = clock, online' \in BOOLEAN,
           NEW fetched, Passed(fetched), UptimeEffect(online', fetched)
    PROVE  Passed(uptime)' /\ IntervalInStep'
<1> USE DEF UptimeInv, Passed, IntervalInStep, UptimeEffect, Cleared
<1>1. CASE online' = online /\ fetched = metrics.uptime
  BY <1>1
<1>2. CASE ~(online' = online /\ fetched = metrics.uptime) /\ ~online'
  BY <1>2
<1>3. CASE ~(online' = online /\ fetched = metrics.uptime) /\ online'
  <2>1. uptime' = fetched /\ intervals' = {clock + 2}
    BY <1>3
  <2>2. clock + 2 \in Nat /\ 2 * fetched + 2 <= clock + 2
    OBVIOUS
  <2> QED
    BY <1>3, <2>1, <2>2
<1> QED
  BY <1>1, <1>2, <1>3

(* The page changes its state, and may send a request.                        *)
LEMMA PageInv ==
    ASSUME UptimeInv, PageTurnsOnline \/ PageTurnsOffline
    PROVE  UptimeInv'
<1>1. clock' = clock /\ online' \in BOOLEAN /\ UptimeEffect(online', metrics.uptime)
  BY DEF PageTurnsOnline, PageTurnsOffline
<1>2. metrics' = metrics
  BY DEF PageTurnsOnline, PageTurnsOffline
<1>3. Passed(metrics.uptime)
  BY DEF UptimeInv, HasPassed
<1>4. Passed(uptime)' /\ IntervalInStep'
  BY <1>1, <1>3, EffectInv
<1>5. \A f \in fetches' : f \in fetches \/ ("uptime" \in DOMAIN f /\ f.uptime = 0)
  <2>1. CASE PageTurnsOnline
    <3> DEFINE new == [id |-> sent + 1, answered |-> FALSE, completed |-> 0, uptime |-> 0]
    <3>1. fetches' = fetches \cup {new}
      BY <2>1 DEF PageTurnsOnline
    <3>2. "uptime" \in DOMAIN new /\ new.uptime = 0
      OBVIOUS
    <3> HIDE DEF new
    <3> QED
      BY <3>1, <3>2
  <2>2. CASE PageTurnsOffline
    BY <2>2 DEF PageTurnsOffline, requests
  <2> QED
    BY <2>1, <2>2
<1>6. (\A f \in fetches : HasPassed(f))'
  BY <1>1, <1>5 DEF UptimeInv, HasPassed, Passed
<1> QED
  BY <1>1, <1>2, <1>4, <1>6 DEF UptimeInv, HasPassed, Passed

(* The interval fires when the second has passed, never before.               *)
LEMMA IntervalInv ==
    ASSUME UptimeInv, IntervalFires
    PROVE  UptimeInv'
<1>1. PICK due \in intervals : due <= clock /\ intervals' = (intervals \ {due}) \cup {due + 2}
  BY DEF IntervalFires
<1>2. due \in Nat /\ 2 * uptime + 2 <= due /\ intervals = {due} /\ online
  BY <1>1 DEF UptimeInv, IntervalInStep
<1>3. intervals' = {due + 2} /\ uptime' = uptime + 1
  BY <1>1, <1>2 DEF IntervalFires
<1>4. clock' = clock /\ online' = online /\ metrics' = metrics /\ fetches' = fetches
  BY DEF IntervalFires, requests
<1>5. Passed(uptime)'
  BY <1>1, <1>2, <1>3, <1>4 DEF UptimeInv, Passed
<1>6. IntervalInStep'
  BY <1>2, <1>3, <1>4 DEF UptimeInv, Passed, IntervalInStep
<1> QED
  BY <1>4, <1>5, <1>6 DEF UptimeInv, HasPassed, Passed

(* The server's answer is the clock's, at the latest.                         *)
LEMMA ServeInv ==
    ASSUME UptimeInv, ServeFetch
    PROVE  UptimeInv'
<1>1. PICK f \in fetches :
        fetches' = (fetches \ {f}) \cup
            IF phase = "down" THEN {}
            ELSE {[f EXCEPT !.answered = TRUE, !.completed = counted, !.uptime = clock \div 2]}
  BY DEF ServeFetch
<1>2. clock' = clock /\ online' = online /\ UNCHANGED bar
  BY DEF ServeFetch
<1>3. Passed(clock \div 2)
  BY DEF UptimeInv, Passed
<1> DEFINE answer == [f EXCEPT !.answered = TRUE, !.completed = counted, !.uptime = clock \div 2]
<1>4. HasPassed(answer)
  <2>1. "uptime" \in DOMAIN answer /\ answer.uptime = clock \div 2
    BY DEF UptimeInv, HasPassed
  <2> QED
    BY <1>3, <2>1 DEF HasPassed
<1>5. \A g \in fetches' : g \in fetches \/ g = answer
  BY <1>1
<1>6. (\A g \in fetches : HasPassed(g))'
  <2> HIDE DEF answer
  <2> QED
    BY <1>2, <1>4, <1>5 DEF UptimeInv, HasPassed, Passed
<1> QED
  BY <1>2, <1>6 DEF UptimeInv, HasPassed, Passed, IntervalInStep, bar

(* An answer, however late, is shown as it was given.                         *)
LEMMA ReturnInv ==
    ASSUME UptimeInv, FetchReturns
    PROVE  UptimeInv'
<1>1. PICK f \in fetches :
        /\ fetches' = fetches \ {f}
        /\ metrics' = [completed |-> f.completed, uptime |-> f.uptime]
        /\ UptimeEffect(online, f.uptime)
  BY DEF FetchReturns
<1>2. clock' = clock /\ online' = online
  BY DEF FetchReturns
<1>3. Passed(f.uptime)
  BY DEF UptimeInv, HasPassed
<1>4. Passed(uptime)' /\ IntervalInStep'
  <2>1. online' \in BOOLEAN /\ UptimeEffect(online', f.uptime)
    BY <1>1, <1>2 DEF UptimeInv
  <2> QED
    BY <1>2, <1>3, <2>1, EffectInv
<1>5. HasPassed(metrics)'
  BY <1>1, <1>2, <1>3 DEF HasPassed, Passed
<1>6. (\A g \in fetches : HasPassed(g))'
  BY <1>1, <1>2 DEF UptimeInv, HasPassed, Passed
<1> QED
  BY <1>2, <1>4, <1>5, <1>6 DEF UptimeInv

(* A tick changes the numbers and leaves the uptime.                          *)
LEMMA MessageInv ==
    ASSUME UptimeInv, Message
    PROVE  UptimeInv'
<1>1. /\ clock' = clock /\ online' = online /\ fetches' = fetches
      /\ uptime' = uptime /\ intervals' = intervals
  BY DEF Message, requests
<1>2. HasPassed(metrics)'
  <2>1. metrics' = [metrics EXCEPT !.completed = Head(wire)]
    BY DEF Message, OnMetrics
  <2>2. "uptime" \in DOMAIN metrics' /\ metrics'.uptime = metrics.uptime
    BY <2>1 DEF UptimeInv, HasPassed
  <2> QED
    BY <1>1, <2>2 DEF UptimeInv, HasPassed, Passed
<1> QED
  BY <1>1, <1>2 DEF UptimeInv, HasPassed, Passed, IntervalInStep

(* Every other step leaves the bar alone, and the clock does not go back.     *)
LEMMA OtherInv ==
    ASSUME UptimeInv, UNCHANGED <<online, bar>>, fetches' \subseteq fetches,
           clock' \in Nat, clock <= clock'
    PROVE  UptimeInv'
<1> QED
  BY DEF UptimeInv, HasPassed, Passed, IntervalInStep, bar

(* For any number of requests, crashes, faults and seconds, the uptime on the *)
(* screen is at most the server's.                                            *)
THEOREM UptimeNeverAheadAlways == Spec => []UptimeNeverAhead
<1>1. Init => UptimeInv
  BY InitInv
<1>2. UptimeInv /\ [Next]_vars => UptimeInv'
  <2> SUFFICES ASSUME UptimeInv, [Next]_vars PROVE UptimeInv'
    OBVIOUS
  <2>1. CASE PageTurnsOnline \/ PageTurnsOffline
    BY <2>1, PageInv
  <2>2. CASE IntervalFires
    BY <2>2, IntervalInv
  <2>3. CASE ServeFetch
    BY <2>3, ServeInv
  <2>4. CASE FetchReturns
    BY <2>4, ReturnInv
  <2>5. CASE Message
    BY <2>5, MessageInv
  <2>6. CASE FetchFails
    <3>1. UNCHANGED <<online, bar, clock>> /\ fetches' \subseteq fetches
      BY <2>6 DEF FetchFails
    <3> QED
      BY <3>1, OtherInv DEF UptimeInv
  <2>7. CASE HalfSecond
    <3>1. UNCHANGED <<online, bar, fetches>> /\ clock' = clock + 1
      BY <2>7 DEF HalfSecond, requests
    <3> QED
      BY <3>1, OtherInv DEF UptimeInv
  <2>8. CASE \/ Finish \/ Tick \/ Broadcast \/ Crash \/ BeginRecovery \/ Replay
             \/ Disconnect \/ Reconnect \/ UNCHANGED vars
    <3>1. UNCHANGED <<online, bar, fetches, clock>>
      BY <2>8 DEF Finish, Tick, Broadcast, Crash, BeginRecovery, Replay, Disconnect, Reconnect,
                  vars, requests
    <3> QED
      BY <3>1, OtherInv DEF UptimeInv
  <2> QED
    BY <2>1, <2>2, <2>3, <2>4, <2>5, <2>6, <2>7, <2>8 DEF Next
<1>3. UptimeInv => UptimeNeverAhead
  BY DEF UptimeInv, Passed, UptimeNeverAhead
<1> QED
  BY <1>1, <1>2, <1>3, PTL DEF Spec
=============================================================================
