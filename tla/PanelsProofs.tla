------------------------------ MODULE PanelsProofs ------------------------------
(* The panels say nothing that is not so, for any number of tasks, workers,   *)
(* crashes and lost connections. The invariant says of every event on its way *)
(* what it will have the panels say when it is heard, and that it is true, or *)
(* that a later event on the wire takes it back.                              *)
EXTENDS Panels, TLAPS, SequenceTheorems, FunctionTheorems, FiniteSetTheorems

-----------------------------------------------------------------------------
(* The invariant                                                              *)

EventTypes ==
    {"started", "completed", "failed", "retry", "cascade", "crash", "recover", "submitted"}
TaskEvents == {"started", "completed", "failed", "retry"}
Events ==
    [type : EventTypes, task : Tasks \cup {None}, worker : Workers \cup {None},
     retry : Nat, max : Int]
Results == [task : Tasks, worker : Workers, result : {"completed", "failed"}]
TaskStates ==
    {"ready", "requeued", "running", "backoff", "completed", "failed", "dropped"}

BackendTypeOK ==
    /\ wire \in Seq(Events) /\ connected \in BOOLEAN
    /\ phase \in {"up", "draining", "down"}
    /\ task \in [Tasks -> TaskStates] /\ attempt \in [Tasks -> Nat]
    /\ doing \in [Workers -> Tasks \cup {None}]
    /\ handling \in {<<>>} \cup {<<r>> : r \in Results}
    /\ finished \in [Workers -> Nat]
    /\ missed \in SUBSET Tasks /\ unheard \in SUBSET Workers

(* What a worker executes, or has just handed over, is running, in one pair   *)
(* of hands; who is down has nothing in hand.                                 *)
HandsExact ==
    /\ \A w \in Workers : doing[w] # None => task[doing[w]] = "running"
    /\ \A v, w \in Workers : doing[v] = doing[w] /\ doing[v] # None => v = w
    /\ handling # <<>> =>
          /\ task[handling[1].task] = "running"
          /\ \A w \in Workers : doing[w] # handling[1].task
    /\ phase = "down" => handling = <<>> /\ \A w \in Workers : doing[w] = None

(* A failure on its way is final, and has used up the budget it names.        *)
EventTrue(e, status) ==
    /\ IF e.type \in TaskEvents THEN e.task \in Tasks /\ e.worker \in Workers
                               ELSE e.worker = None
    /\ e.type = "failed" =>
          status[e.task] = "failed" /\ e.max = Budget(e.task) /\ e.retry >= e.max
WireTrue == \A k \in 1 .. Len(wire) : EventTrue(wire[k], task)

(* A worker shown executing, or about to be shown so, executes, or the end of *)
(* the execution is announced later, or will be, or was missed.               *)
Excused(w, k) ==
    \/ w \in Workers /\ doing[w] # None
    \/ w \in unheard
    \/ handling # <<>> /\ handling[1].worker = w
    \/ \E j \in k + 1 .. Len(wire) : wire[j].worker = w
StartsExcused ==
    /\ \A w \in Workers, k \in 1 .. Len(wire) :
          wire[k].type = "started" /\ wire[k].worker = w => Excused(w, k)
    /\ \A w \in Slots : workers[w].status = "EXECUTING" => w \in Workers /\ Excused(w, 0)

(* A completion is on its way, in a timer, or in the count.                   *)
Completions(w, es) == {k \in 1 .. Len(es) : es[k].type = "completed" /\ es[k].worker = w}
Finished(w) == IF w \in Workers THEN finished[w] ELSE 0
PoolTypeOK ==
    /\ workers \in [Slots -> [status : {"IDLE", "EXECUTING", "COMPLETED"}, completedCount : Nat]]
    /\ fadeTimers \in [Slots -> Nat]
CompletionsCounted ==
    \A w \in Slots :
        workers[w].completedCount + fadeTimers[w] + Cardinality(Completions(w, wire))
            <= Finished(w)

(* The last event on the wire that tells of the retries of a task, or what    *)
(* has been heard of them if there is none, tells how it is.                  *)
Tells(e, t) ==
    \/ e.type \in {"retry", "started"} /\ e.task = t
    \/ e.type \in {"crash", "recover"}
Told(e) == IF e.type = "retry" THEN {<<e.retry, RetryDelaySeconds(Or(e.retry, 1))>>} ELSE {}
Heard(t) == {<<r.attempt, r.delay>> : r \in {q \in retryTimers : q.task = t}}
Waits(t) ==
    IF task[t] \in {"backoff", "requeued"} THEN {<<attempt[t], RetryDelay(attempt[t])>>} ELSE {}
LastTold(t) ==
    \/ /\ \A k \in 1 .. Len(wire) : ~Tells(wire[k], t)
       /\ Heard(t) = Waits(t)
    \/ \E k \in 1 .. Len(wire) :
          /\ Tells(wire[k], t) /\ Told(wire[k]) = Waits(t)
          /\ \A j \in k + 1 .. Len(wire) : ~Tells(wire[j], t)
RetriesTold == phase = "up" => \A t \in Tasks \ missed : LastTold(t)

Entries ==
    [type : EventTypes, task : Tasks \cup {None},
     level : {"info", "success", "error", "warn", "critical", "system"}, retryable : BOOLEAN]

StreamTypeOK ==
    /\ events \in Seq(Entries)
    /\ \A k \in 1 .. Len(events) : events[k].type = "failed" => events[k].task \in Tasks

BackendInv == BackendTypeOK /\ HandsExact /\ WireTrue
PanelsInv ==
    /\ BackendInv
    /\ PoolTypeOK /\ StartsExcused /\ CompletionsCounted
    /\ StreamTypeOK /\ FailuresShownFinal
-----------------------------------------------------------------------------
(* The wire                                                                   *)

(* Events are sent: those on their way keep their places.                     *)
LEMMA WireGrows ==
    ASSUME wire \in Seq(Events), NEW es \in Seq(Events), wire' = wire \o es
    PROVE  /\ wire' \in Seq(Events) /\ Len(wire') = Len(wire) + Len(es)
           /\ \A k \in 1 .. Len(wire) : wire'[k] = wire[k]
           /\ \A k \in Len(wire) + 1 .. Len(wire') : wire'[k] = es[k - Len(wire)]
BY ConcatProperties

(* The connection is lost: a first part of the wire still arrives.            *)
LEMMA WireIsCut ==
    ASSUME wire \in Seq(Events), NEW n \in 0 .. Len(wire)
    PROVE  LET kept == SubSeq(wire, 1, n)
               lost == SubSeq(wire, n + 1, Len(wire))
           IN  /\ kept \in Seq(Events) /\ Len(kept) = n
               /\ \A k \in 1 .. n : kept[k] = wire[k]
               /\ DOMAIN lost = 1 .. Len(wire) - n
               /\ \A k \in 1 .. Len(wire) - n : lost[k] = wire[n + k]
BY SubSeqProperties

(* The first event is heard.                                                  *)
LEMMA WireIsHeard ==
    ASSUME wire \in Seq(Events), wire # <<>>, wire' = Tail(wire)
    PROVE  /\ wire' \in Seq(Events) /\ Len(wire) \in Nat \ {0} /\ Len(wire') = Len(wire) - 1
           /\ Head(wire) = wire[1] /\ wire[1] \in Events
           /\ \A k \in 1 .. Len(wire') : wire'[k] = wire[k + 1]
BY HeadTailProperties

(* Sending and losing events keeps what is sent and what is missed in type.   *)
LEMMA EmitType ==
    ASSUME BackendTypeOK, NEW es \in Seq(Events), Emit(es)
    PROVE  /\ wire' \in Seq(Events) /\ missed' \in SUBSET Tasks /\ unheard' \in SUBSET Workers
           /\ connected => wire' = wire \o es
           /\ ~connected => wire' = wire
<1>1. wire \o es \in Seq(Events)
  BY ConcatProperties DEF BackendTypeOK
<1>2. LostTasks(es) \in SUBSET Tasks /\ LostWorkers(es) \in SUBSET Workers
  BY DEF LostTasks, LostWorkers
<1> QED
  BY <1>1, <1>2 DEF Emit, BackendTypeOK
LEMMA CutType ==
    ASSUME BackendTypeOK, Cut
    PROVE  /\ wire' \in Seq(Events) /\ missed' \in SUBSET Tasks /\ unheard' \in SUBSET Workers
           /\ connected' = FALSE
<1>1. PICK n \in 0 .. Len(wire) :
          LET lost == SubSeq(wire, n + 1, Len(wire))
          IN  /\ wire' = SubSeq(wire, 1, n)
              /\ missed' = missed \cup LostTasks(lost)
              /\ unheard' = unheard \cup LostWorkers(lost)
  BY DEF Cut
<1>2. \A es : LostTasks(es) \in SUBSET Tasks /\ LostWorkers(es) \in SUBSET Workers
  BY DEF LostTasks, LostWorkers
<1>3. wire' \in Seq(Events)
  BY <1>1, WireIsCut DEF BackendTypeOK
<1> QED
  BY <1>1, <1>2, <1>3 DEF BackendTypeOK, Cut

(* An event has its fields.                                                   *)
LEMMA EventType ==
    /\ \A type \in EventTypes, t \in Tasks \cup {None}, w \in Workers \cup {None} :
          LET e == Event(type, t, w)
          IN  e \in Events /\ e.type = type /\ e.task = t /\ e.worker = w
    /\ \A type \in EventTypes, t \in Tasks, w \in Workers, n \in Nat :
          LET e == FailureEvent(type, t, w, n)
          IN  /\ e \in Events /\ e.type = type /\ e.task = t /\ e.worker = w
              /\ e.retry = n /\ e.max = Budget(t)
<1>1. \A t \in Tasks : Budget(t) \in Int
  BY AnnouncementsAssumption DEF Budget
<1>2. \A type \in EventTypes, t \in Tasks \cup {None}, w \in Workers \cup {None} :
          LET e == Event(type, t, w)
          IN  e \in Events /\ e.type = type /\ e.task = t /\ e.worker = w
  BY DEF Event, Events
<1>3. ASSUME NEW type \in EventTypes, NEW t \in Tasks, NEW w \in Workers, NEW n \in Nat
      PROVE  LET e == FailureEvent(type, t, w, n)
             IN  /\ e \in Events /\ e.type = type /\ e.task = t /\ e.worker = w
                 /\ e.retry = n /\ e.max = Budget(t)
  <2> DEFINE e == Event(type, t, w)
             m == Budget(t)
  <2>1. FailureEvent(type, t, w, n) = [e EXCEPT !.retry = n, !.max = m]
    BY DEF FailureEvent
  <2>2. e \in Events /\ m \in Int /\ e.type = type /\ e.task = t /\ e.worker = w
    BY <1>1, <1>2
  <2> HIDE DEF e, m
  <2>3. LET f == [e EXCEPT !.retry = n, !.max = m]
        IN  /\ f \in Events /\ f.type = e.type /\ f.task = e.task
            /\ f.worker = e.worker /\ f.retry = n /\ f.max = m
    BY <2>2 DEF Events
  <2> QED
    BY <2>1, <2>2, <2>3 DEF m
<1> QED
  BY <1>2, <1>3

(* What the run loop says of a result.                                        *)
LEMMA AnnouncedFacts ==
    ASSUME BackendTypeOK, NEW r \in Results
    PROVE  LET es == Announced(r)
           IN  /\ es \in Seq(Events) /\ Len(es) \in {1, 2} /\ DOMAIN es = 1 .. Len(es)
               /\ es[1].task = r.task /\ es[1].worker = r.worker
               /\ es[1].type = IF r.result = "completed" THEN "completed"
                               ELSE IF attempt[r.task] < Budget(r.task) THEN "retry"
                               ELSE "failed"
               /\ es[1].type = "retry" => es[1].retry = attempt[r.task] + 1
               /\ es[1].type = "failed" =>
                     es[1].retry = attempt[r.task] /\ es[1].max = Budget(r.task)
               /\ Len(es) = 2 => es[2].type = "cascade" /\ es[2].worker = None
<1>1. /\ r.task \in Tasks /\ r.worker \in Workers /\ attempt[r.task] \in Nat
      /\ r.result \in {"completed", "failed"}
  BY DEF Results, BackendTypeOK
<1>2. CASE r.result = "completed"
  <2>1. Announced(r) = <<Event("completed", r.task, r.worker)>>
    BY <1>2 DEF Announced
  <2>2. Event("completed", r.task, r.worker) \in Events
    BY <1>1, EventType DEF EventTypes
  <2> QED
    BY <1>2, <2>1, <2>2 DEF Event
<1>3. CASE r.result = "failed" /\ attempt[r.task] < Budget(r.task)
  <2> DEFINE n == attempt[r.task] + 1
  <2>1. Announced(r) = <<FailureEvent("retry", r.task, r.worker, n)>>
    BY <1>3 DEF Announced
  <2>2. n \in Nat
    BY <1>1
  <2> HIDE DEF n
  <2>3. LET e == FailureEvent("retry", r.task, r.worker, n)
        IN  /\ e \in Events /\ e.type = "retry" /\ e.task = r.task
            /\ e.worker = r.worker /\ e.retry = n
    BY <1>1, <2>2, EventType DEF EventTypes
  <2>4. n = attempt[r.task] + 1
    BY DEF n
  <2> QED
    BY <1>3, <2>1, <2>3, <2>4
<1>4. CASE r.result = "failed" /\ ~(attempt[r.task] < Budget(r.task))
  <2> DEFINE e == FailureEvent("failed", r.task, r.worker, attempt[r.task])
             c == Event("cascade", r.task, None)
  <2>1. Announced(r) = <<e, c>>
    BY <1>4 DEF Announced
  <2>2. /\ e \in Events /\ e.type = "failed" /\ e.task = r.task /\ e.worker = r.worker
        /\ e.retry = attempt[r.task] /\ e.max = Budget(r.task)
    BY <1>1, EventType DEF EventTypes
  <2>3. c \in Events /\ c.type = "cascade" /\ c.worker = None
    BY <1>1, EventType DEF EventTypes, Event
  <2> HIDE DEF e, c
  <2> QED
    BY <1>4, <2>1, <2>2, <2>3
<1> QED
  BY <1>1, <1>2, <1>3, <1>4

-----------------------------------------------------------------------------
(* The back end                                                               *)

(* The result that is about to be announced.                                  *)
LEMMA ResultInHand ==
    ASSUME BackendTypeOK, handling # <<>>
    PROVE  handling[1] \in Results /\ handling = <<handling[1]>>
BY DEF BackendTypeOK

(* What the end of an execution makes of a running task.                      *)
LEMMA OutcomeFacts ==
    ASSUME BackendTypeOK, NEW t \in Tasks, task[t] = "running",
           NEW result \in {"nothing", "completed", "failed"}, Outcome(t, result)
    PROVE  /\ task' \in [Tasks -> TaskStates] /\ attempt' \in [Tasks -> Nat]
           /\ \A u \in Tasks : u # t => task'[u] = task[u] /\ attempt'[u] = attempt[u]
           /\ task'[t] = IF result = "nothing" THEN "dropped"
                         ELSE IF result = "completed" THEN "completed"
                         ELSE IF attempt[t] < Budget(t) THEN "backoff"
                         ELSE "failed"
           /\ task'[t] = "backoff" => attempt'[t] = attempt[t] + 1
<1> USE DEF BackendTypeOK, TaskStates
<1>1. CASE result = "nothing"
  <2>1. task' = [task EXCEPT ![t] = "dropped"] /\ attempt' = attempt
    BY <1>1 DEF Outcome
  <2> QED
    BY <1>1, <2>1
<1>2. CASE result = "completed"
  <2>1. task' = [task EXCEPT ![t] = "completed"] /\ attempt' = attempt
    BY <1>2 DEF Outcome
  <2> QED
    BY <1>2, <2>1
<1>3. CASE result = "failed" /\ attempt[t] < Budget(t)
  <2>1. /\ task' = [task EXCEPT ![t] = "backoff"]
        /\ attempt' = [attempt EXCEPT ![t] = attempt[t] + 1]
    BY <1>3 DEF Outcome
  <2> QED
    BY <1>3, <2>1
<1>4. CASE result = "failed" /\ ~(attempt[t] < Budget(t))
  <2>1. task' = [task EXCEPT ![t] = "failed"] /\ attempt' = attempt
    BY <1>4 DEF Outcome
  <2> QED
    BY <1>4, <2>1
<1> QED
  BY <1>1, <1>2, <1>3, <1>4

(* No step takes back a failure.                                              *)
FailuresStay == \A t \in Tasks : task[t] = "failed" => task'[t] = "failed"

(* Every step of the back end keeps the types and the hands.                  *)
LEMMA BackendTyped ==
    ASSUME BackendTypeOK, HandsExact, BackendNext
    PROVE  BackendTypeOK' /\ HandsExact' /\ FailuresStay
<1> USE AnnouncementsAssumption
<1>1. ASSUME NEW t \in Tasks, NEW w \in Workers, Start(t, w)
      PROVE  BackendTypeOK' /\ HandsExact' /\ FailuresStay
  <2>1. Emit(<<Event("started", t, w)>>) /\ <<Event("started", t, w)>> \in Seq(Events)
    BY <1>1, EventType DEF EventTypes, Start
  <2>2. wire' \in Seq(Events) /\ missed' \in SUBSET Tasks /\ unheard' \in SUBSET Workers
    BY <2>1, EmitType
  <2>3. /\ doing' = [doing EXCEPT ![w] = t] /\ task' = [task EXCEPT ![t] = "running"]
        /\ doing[w] = None /\ task[t] \in {"ready", "requeued"} /\ phase # "down"
        /\ UNCHANGED <<connected, phase, attempt, handling, finished>>
    BY <1>1 DEF Start
  <2>4. BackendTypeOK'
    BY <2>2, <2>3 DEF BackendTypeOK, TaskStates
  <2>5. HandsExact'
    BY <2>3, ResultInHand DEF BackendTypeOK, HandsExact, Results
  <2> QED
    BY <2>3, <2>4, <2>5 DEF BackendTypeOK, FailuresStay
<1>2. ASSUME NEW w \in Workers, NEW result \in {"completed", "failed"}, Report(w, result)
      PROVE  BackendTypeOK' /\ HandsExact' /\ FailuresStay
  <2> DEFINE r == [task |-> doing[w], worker |-> w, result |-> result]
  <2>1. /\ doing[w] \in Tasks /\ handling' = <<r>> /\ doing' = [doing EXCEPT ![w] = None]
        /\ phase # "down" /\ UNCHANGED <<net, phase, task, attempt, ghosts>>
    BY <1>2 DEF Report, BackendTypeOK
  <2>2. r \in Results
    BY <2>1 DEF Results
  <2>3. BackendTypeOK'
    BY <2>1, <2>2 DEF BackendTypeOK, net, ghosts
  <2>4. HandsExact'
    <3>1. handling'[1].task = doing[w] /\ handling' # <<>>
      BY <2>1
    <3> QED
      BY <2>1, <3>1 DEF BackendTypeOK, HandsExact
  <2> QED
    BY <2>1, <2>3, <2>4 DEF FailuresStay
<1>3. CASE Announce
  <2> DEFINE r == handling[1]
  <2>1. /\ r \in Results /\ handling' = <<>> /\ Outcome(r.task, r.result)
        /\ task[r.task] = "running" /\ \A w \in Workers : doing[w] # r.task
        /\ phase # "down" /\ UNCHANGED <<connected, phase, doing>>
    BY <1>3, ResultInHand DEF Announce, HandsExact
  <2>2. /\ task' \in [Tasks -> TaskStates] /\ attempt' \in [Tasks -> Nat]
        /\ \A u \in Tasks : u # r.task => task'[u] = task[u]
    BY <2>1, OutcomeFacts DEF Results
  <2>3. wire' \in Seq(Events) /\ missed' \in SUBSET Tasks /\ unheard' \in SUBSET Workers
    BY <1>3, <2>1, AnnouncedFacts, EmitType DEF Announce
  <2>4. finished' \in [Workers -> Nat]
    <3>1. r.worker \in Workers
      BY <2>1 DEF Results
    <3> QED
      BY <1>3, <3>1 DEF Announce, BackendTypeOK
  <2>5. BackendTypeOK'
    BY <2>1, <2>2, <2>3, <2>4 DEF BackendTypeOK
  <2>6. HandsExact'
    BY <2>1, <2>2 DEF BackendTypeOK, HandsExact, Results
  <2> QED
    BY <2>1, <2>2, <2>5, <2>6 DEF FailuresStay
<1>4. ASSUME NEW t \in Tasks, BackoffEnds(t)
      PROVE  BackendTypeOK' /\ HandsExact' /\ FailuresStay
  <2>1. /\ task[t] = "backoff" /\ task' = [task EXCEPT ![t] = "requeued"]
        /\ UNCHANGED <<net, phase, attempt, doing, handling, ghosts>>
    BY <1>4 DEF BackoffEnds
  <2>2. BackendTypeOK'
    BY <2>1 DEF BackendTypeOK, TaskStates, net, ghosts
  <2>3. HandsExact'
    BY <2>1, ResultInHand DEF BackendTypeOK, HandsExact, Results
  <2> QED
    BY <2>1, <2>2, <2>3 DEF BackendTypeOK, FailuresStay
<1>5. ASSUME NEW w \in Workers, EndsUnseen(w)
      PROVE  BackendTypeOK' /\ HandsExact' /\ FailuresStay
  <2>1. PICK result \in {"nothing", "completed", "failed"} : Outcome(doing[w], result)
    BY <1>5 DEF EndsUnseen
  <2>2. /\ doing[w] \in Tasks /\ task[doing[w]] = "running"
        /\ doing' = [doing EXCEPT ![w] = None] /\ unheard' = unheard \cup {w}
        /\ UNCHANGED <<net, phase, handling, finished, missed>>
    BY <1>5 DEF EndsUnseen, BackendTypeOK, HandsExact
  <2>3. /\ task' \in [Tasks -> TaskStates] /\ attempt' \in [Tasks -> Nat]
        /\ \A u \in Tasks : u # doing[w] => task'[u] = task[u]
    BY <2>1, <2>2, OutcomeFacts
  <2>4. BackendTypeOK'
    BY <2>2, <2>3 DEF BackendTypeOK, net
  <2>5. HandsExact'
    BY <2>2, <2>3, ResultInHand DEF BackendTypeOK, HandsExact, Results
  <2> QED
    BY <2>2, <2>3, <2>4, <2>5 DEF FailuresStay
<1>6. CASE BeginCrash
  <2>1. Emit(<<Event("crash", None, None)>>) /\ <<Event("crash", None, None)>> \in Seq(Events)
    BY <1>6, EventType DEF EventTypes, BeginCrash
  <2>2. wire' \in Seq(Events) /\ missed' \in SUBSET Tasks /\ unheard' \in SUBSET Workers
    BY <2>1, EmitType
  <2> QED
    BY <1>6, <2>2 DEF BeginCrash, BackendTypeOK, HandsExact, FailuresStay
<1>7. CASE EndCrash
  <2>1. wire' \in Seq(Events) /\ missed' \in SUBSET Tasks /\ unheard' \in SUBSET Workers
        /\ connected' = FALSE
    BY <1>7, CutType DEF EndCrash
  <2> QED
    BY <1>7, <2>1 DEF EndCrash, BackendTypeOK, HandsExact, FailuresStay
<1>8. CASE Recover
  <2>1. /\ phase = "down" /\ phase' = "up" /\ UNCHANGED <<connected, attempt, doing, handling>>
        /\ UNCHANGED <<finished, unheard>>
        /\ task' = [t \in Tasks |->
                      IF task[t] \in {"completed", "failed"} THEN task[t] ELSE "ready"]
    BY <1>8 DEF Recover
  <2>2. wire' \in Seq(Events) /\ missed' \in SUBSET Tasks
    <3>1. Event("submitted", None, None) \in Events /\ Event("recover", None, None) \in Events
      BY EventType DEF EventTypes
    <3>2. wire \o <<Event("submitted", None, None), Event("recover", None, None)>> \in Seq(Events)
      BY <3>1, ConcatProperties DEF BackendTypeOK
    <3> QED
      BY <1>8, <3>2 DEF Recover, BackendTypeOK
  <2>3. BackendTypeOK'
    BY <2>1, <2>2 DEF BackendTypeOK, TaskStates
  <2> QED
    BY <2>1, <2>3 DEF HandsExact, FailuresStay
<1>9. CASE Disconnect
  <2>1. wire' \in Seq(Events) /\ missed' \in SUBSET Tasks /\ unheard' \in SUBSET Workers
        /\ connected' = FALSE
    BY <1>9, CutType DEF Disconnect
  <2> QED
    BY <1>9, <2>1 DEF Disconnect, BackendTypeOK, HandsExact, FailuresStay, engine
<1>10. CASE Reconnect
  BY <1>10 DEF Reconnect, BackendTypeOK, HandsExact, FailuresStay, engine, ghosts
<1> QED
  BY <1>1, <1>2, <1>3, <1>4, <1>5, <1>6, <1>7, <1>8, <1>9, <1>10 DEF BackendNext

(* What a step of the back end does to the wire: the first n events stay, new *)
(* ones come only after all of them, and whom the lost ones were about is     *)
(* known to have been missed.                                                 *)
Sent(e) ==
    /\ EventTrue(e, task')
    /\ e.type = "started" => doing'[e.worker] # None
    /\ e.type = "completed" => finished'[e.worker] = finished[e.worker] + 1
WireStep(n) ==
    /\ n <= Len(wire') /\ (n = Len(wire) \/ n = Len(wire'))
    /\ \A k \in 1 .. n : wire'[k] = wire[k]
    /\ \A k \in n + 1 .. Len(wire') :
          Sent(wire'[k]) /\ (wire'[k].type = "completed" => k = n + 1)
    /\ \A k \in n + 1 .. Len(wire) :
          /\ wire[k].worker \in Workers => wire[k].worker \in unheard'
          /\ \A t \in Tasks : Tells(wire[k], t) => t \in missed'

LEMMA GrowStep ==
    ASSUME BackendTypeOK, NEW es \in Seq(Events), wire' = wire \o es,
           \A k \in 1 .. Len(es) : Sent(es[k]) /\ (es[k].type = "completed" => k = 1)
    PROVE  WireStep(Len(wire))
<1>1. Len(wire) \in Nat /\ Len(es) \in Nat
  BY LenProperties DEF BackendTypeOK
<1> QED
  BY <1>1, WireGrows DEF WireStep, BackendTypeOK

LEMMA EmitStep ==
    ASSUME BackendTypeOK, NEW es \in Seq(Events), Emit(es),
           \A k \in 1 .. Len(es) : Sent(es[k]) /\ (es[k].type = "completed" => k = 1)
    PROVE  WireStep(Len(wire))
<1>1. Len(wire) \in Nat
  BY LenProperties DEF BackendTypeOK
<1>2. CASE connected
  BY <1>2, EmitType, GrowStep
<1>3. CASE ~connected
  BY <1>1, <1>3, EmitType DEF WireStep
<1> QED
  BY <1>2, <1>3

LEMMA EmitOneStep ==
    ASSUME BackendTypeOK, NEW e \in Events, Emit(<<e>>), Sent(e)
    PROVE  WireStep(Len(wire))
<1> DEFINE es == <<e>>
<1>1. es \in Seq(Events) /\ Len(es) = 1 /\ es[1] = e /\ Emit(es)
  OBVIOUS
<1> HIDE DEF es
<1>2. \A k \in 1 .. Len(es) : Sent(es[k]) /\ (es[k].type = "completed" => k = 1)
  BY <1>1
<1> QED
  BY <1>1, <1>2, EmitStep

LEMMA CutStep ==
    ASSUME BackendTypeOK, Cut
    PROVE  \E n \in 0 .. Len(wire) : wire' = SubSeq(wire, 1, n) /\ WireStep(n)
<1>1. PICK n \in 0 .. Len(wire) :
          LET lost == SubSeq(wire, n + 1, Len(wire))
          IN  /\ wire' = SubSeq(wire, 1, n)
              /\ missed' = missed \cup LostTasks(lost)
              /\ unheard' = unheard \cup LostWorkers(lost)
  BY DEF Cut
<1> DEFINE lost == SubSeq(wire, n + 1, Len(wire))
<1>2. /\ Len(wire') = n /\ \A k \in 1 .. n : wire'[k] = wire[k]
      /\ DOMAIN lost = 1 .. Len(wire) - n
      /\ \A k \in 1 .. Len(wire) - n : lost[k] = wire[n + k]
  BY <1>1, WireIsCut DEF BackendTypeOK
<1>3. Len(wire) \in Nat
  BY LenProperties DEF BackendTypeOK
<1> HIDE DEF lost
<1>4. ASSUME NEW k \in n + 1 .. Len(wire)
      PROVE  /\ wire[k].worker \in Workers => wire[k].worker \in unheard'
             /\ \A t \in Tasks : Tells(wire[k], t) => t \in missed'
  <2>1. k - n \in DOMAIN lost /\ lost[k - n] = wire[k]
    BY <1>2, <1>3
  <2>2. wire[k].worker \in Workers => wire[k].worker \in LostWorkers(lost)
    BY <2>1 DEF LostWorkers
  <2>3. \A t \in Tasks : Tells(wire[k], t) => t \in LostTasks(lost)
    BY <2>1 DEF LostTasks, Tells
  <2> QED
    BY <1>1, <2>2, <2>3 DEF lost
<1> QED
  BY <1>1, <1>2, <1>3, <1>4 DEF WireStep

LEMMA StayStep ==
    ASSUME BackendTypeOK, UNCHANGED wire
    PROVE  WireStep(Len(wire)) /\ Len(wire) \in 0 .. Len(wire)
<1>1. Len(wire) \in Nat
  BY LenProperties DEF BackendTypeOK
<1> QED
  BY <1>1 DEF WireStep

(* What each step sends is true.                                              *)
LEMMA StepsSend ==
    ASSUME BackendTypeOK, HandsExact, BackendNext
    PROVE  \E n \in 0 .. Len(wire) : WireStep(n)
<1>1. Len(wire) \in 0 .. Len(wire)
  BY LenProperties DEF BackendTypeOK
<1>2. ASSUME NEW t \in Tasks, NEW w \in Workers, Start(t, w)
      PROVE  WireStep(Len(wire))
  <2> DEFINE e == Event("started", t, w)
  <2>1. e \in Events /\ e.type = "started" /\ e.task = t /\ e.worker = w
    BY EventType DEF EventTypes
  <2>2. doing'[w] = t /\ Emit(<<e>>)
    BY <1>2 DEF Start, BackendTypeOK
  <2>3. t # None
    BY AnnouncementsAssumption
  <2> HIDE DEF e
  <2>4. Sent(e)
    BY <2>1, <2>2, <2>3 DEF Sent, EventTrue, TaskEvents
  <2> QED
    BY <2>1, <2>2, <2>4, EmitOneStep
<1>3. CASE Announce
  <2> DEFINE r == handling[1]
             es == Announced(r)
  <2>1. /\ r \in Results /\ Outcome(r.task, r.result) /\ Emit(es)
        /\ task[r.task] = "running" /\ r.task \in Tasks /\ r.worker \in Workers
        /\ r.result \in {"completed", "failed"}
    BY <1>3, ResultInHand DEF Announce, HandsExact, Results
  <2>2. attempt[r.task] \in Nat /\ Budget(r.task) \in Int
    BY <2>1, AnnouncementsAssumption DEF BackendTypeOK, Budget
  <2>3. es[1].type = "failed" => task'[r.task] = "failed" /\ es[1].retry >= es[1].max
    BY <2>1, <2>2, OutcomeFacts, AnnouncedFacts
  <2>4. es[1].type = "completed" => finished'[r.worker] = finished[r.worker] + 1
    BY <1>3, <2>1, AnnouncedFacts DEF Announce, BackendTypeOK
  <2>5. Sent(es[1])
    <3>1. es[1].type \in {"completed", "retry", "failed"}
      BY <2>1, AnnouncedFacts
    <3> QED
      BY <2>1, <2>3, <2>4, <3>1, AnnouncedFacts DEF Sent, EventTrue, TaskEvents
  <2>6. Len(es) = 2 => Sent(es[2]) /\ es[2].type # "completed"
    BY <2>1, AnnouncedFacts DEF Sent, EventTrue, TaskEvents
  <2>7. es \in Seq(Events) /\ Len(es) \in {1, 2}
    BY <2>1, AnnouncedFacts
  <2> HIDE DEF es
  <2>8. \A k \in 1 .. Len(es) : Sent(es[k]) /\ (es[k].type = "completed" => k = 1)
    <3> TAKE k \in 1 .. Len(es)
    <3>1. CASE Len(es) = 1
      <4>1. k = 1
        BY <3>1
      <4> QED
        BY <2>5, <4>1
    <3>2. CASE Len(es) = 2
      <4>1. k = 1 \/ k = 2
        BY <3>2
      <4> QED
        BY <2>5, <2>6, <3>2, <4>1
    <3> QED
      BY <2>7, <3>1, <3>2
  <2>9. WireStep(Len(wire))
    <3> HIDE DEF r
    <3> QED
      BY <2>1, <2>7, <2>8, EmitStep
  <2> QED
    BY <1>1, <2>9
<1>4. CASE BeginCrash
  <2> DEFINE e == Event("crash", None, None)
  <2>1. e \in Events /\ e.type = "crash" /\ e.worker = None /\ Emit(<<e>>)
    BY <1>4, EventType DEF EventTypes, BeginCrash
  <2> HIDE DEF e
  <2>2. Sent(e)
    BY <2>1 DEF Sent, EventTrue, TaskEvents
  <2> QED
    BY <1>1, <2>1, <2>2, EmitOneStep
<1>5. CASE Recover
  <2> DEFINE e == Event("submitted", None, None)
             f == Event("recover", None, None)
  <2>1. /\ e \in Events /\ e.type = "submitted" /\ e.worker = None
        /\ f \in Events /\ f.type = "recover" /\ f.worker = None
    BY EventType DEF EventTypes
  <2>2. IF connected THEN wire' = wire \o <<e, f>> ELSE wire' = wire
    BY <1>5 DEF Recover
  <2> HIDE DEF e, f
  <2>3. Sent(e) /\ Sent(f)
    BY <2>1 DEF Sent, EventTrue, TaskEvents
  <2>4. CASE connected
    <3> DEFINE es == <<e, f>>
    <3>1. es \in Seq(Events) /\ Len(es) = 2 /\ es[1] = e /\ es[2] = f /\ wire' = wire \o es
      BY <2>1, <2>2, <2>4
    <3> HIDE DEF es
    <3>2. \A k \in 1 .. Len(es) : Sent(es[k]) /\ (es[k].type = "completed" => k = 1)
      BY <2>1, <2>3, <3>1
    <3> QED
      BY <1>1, <3>1, <3>2, GrowStep
  <2> QED
    BY <2>2, <2>4, StayStep
<1>6. CASE EndCrash \/ Disconnect
  BY <1>6, CutStep DEF EndCrash, Disconnect
<1>7. ASSUME UNCHANGED wire
      PROVE  WireStep(Len(wire))
  BY <1>7, StayStep
<1> QED
  BY <1>1, <1>2, <1>3, <1>4, <1>5, <1>6, <1>7
     DEF BackendNext, Report, BackoffEnds, EndsUnseen, Reconnect, net

(* ... and what it has sent before stays true.                                *)
LEMMA WireStaysTrue ==
    ASSUME BackendInv, BackendNext
    PROVE  BackendInv'
<1>1. BackendTypeOK' /\ HandsExact' /\ FailuresStay
  BY BackendTyped DEF BackendInv
<1>2. PICK n \in 0 .. Len(wire) : WireStep(n)
  BY StepsSend DEF BackendInv
<1>3. ASSUME NEW k \in 1 .. Len(wire')
      PROVE  EventTrue(wire'[k], task')
  <2>1. Len(wire) \in Nat /\ Len(wire') \in Nat
    BY <1>1, LenProperties DEF BackendTypeOK, BackendInv
  <2>2. CASE k \in n + 1 .. Len(wire')
    BY <1>2, <2>2 DEF WireStep, Sent
  <2>3. CASE k \in 1 .. n
    <3>1. wire'[k] = wire[k] /\ EventTrue(wire[k], task)
      BY <1>2, <2>1, <2>3 DEF WireStep, BackendInv, WireTrue
    <3> QED
      BY <1>1, <3>1 DEF EventTrue, FailuresStay, Budget, TaskEvents
  <2> QED
    BY <1>2, <2>1, <2>2, <2>3 DEF WireStep
<1> QED
  BY <1>1, <1>3 DEF BackendInv, WireTrue

-----------------------------------------------------------------------------
(* The workers shown executing                                                *)

(* An excuse remains, or is replaced by the next: the end of an execution is  *)
(* in the hands of the run loop, then announced, then on the wire, or missed. *)
LEMMA HandsExcuse ==
    ASSUME BackendTypeOK, BackendNext, NEW w \in Workers,
           \/ doing[w] # None \/ w \in unheard
           \/ handling # <<>> /\ handling[1].worker = w
    PROVE  \/ doing'[w] # None \/ w \in unheard'
           \/ handling' # <<>> /\ handling'[1].worker = w
           \/ Len(wire') = Len(wire) + 1 /\ wire'[Len(wire')].worker = w
           \/ Len(wire') = Len(wire) + 2 /\ wire'[Len(wire) + 1].worker = w
<1> USE DEF BackendTypeOK
<1>1. ASSUME NEW t \in Tasks, NEW v \in Workers, Start(t, v)
      PROVE  /\ doing[w] # None => doing'[w] # None /\ UNCHANGED handling
             /\ w \in unheard => doing'[w] # None \/ w \in unheard'
             /\ UNCHANGED handling
  <2> DEFINE e == Event("started", t, v)
  <2>1. e.type = "started" /\ e.worker = v
    BY EventType DEF EventTypes
  <2>2. /\ doing' = [doing EXCEPT ![v] = t] /\ t # None /\ Emit(<<e>>)
        /\ UNCHANGED handling
    BY <1>1, AnnouncementsAssumption DEF Start
  <2> HIDE DEF e
  <2>3. w \in unheard /\ w # v => w \in unheard'
    BY <2>1, <2>2 DEF Emit, LostWorkers
  <2> QED
    BY <2>2, <2>3
<1>2. ASSUME NEW v \in Workers, NEW result \in {"completed", "failed"}, Report(v, result)
      PROVE  /\ doing'[w] # None \/ handling'[1].worker = w \/ w \in unheard'
             /\ handling' # <<>>
  BY <1>2 DEF Report, ghosts
<1>3. CASE Announce
  <2> DEFINE r == handling[1]
             es == Announced(r)
  <2>1. /\ handling # <<>> /\ r \in Results /\ Emit(es) /\ UNCHANGED doing
        /\ unheard \in SUBSET Workers
    BY <1>3, ResultInHand DEF Announce
  <2>2. /\ es \in Seq(Events) /\ es[1].worker = r.worker /\ Len(es) \in {1, 2}
        /\ es[1].type \in {"completed", "retry", "failed"} /\ DOMAIN es = 1 .. Len(es)
    BY <2>1, AnnouncedFacts
  <2> HIDE DEF es
  <2>3. unheard \subseteq unheard'
    BY <2>1, <2>2 DEF Emit
  <2>4. CASE connected /\ r.worker = w
    <3>1. wire' = wire \o es
      BY <2>1, <2>4 DEF Emit
    <3>2. /\ Len(wire') = Len(wire) + Len(es) /\ Len(wire) \in Nat
          /\ wire'[Len(wire) + 1] = es[1]
      BY <2>2, <3>1, ConcatProperties, LenProperties
    <3> QED
      BY <2>2, <2>4, <3>2
  <2>5. CASE ~connected /\ r.worker = w
    <3>1. 1 \in DOMAIN es
      BY <2>2
    <3> QED
      BY <2>1, <2>2, <2>5, <3>1 DEF Emit, LostWorkers
  <2> QED
    BY <2>1, <2>3, <2>4, <2>5
<1>4. ASSUME NEW v \in Workers, EndsUnseen(v)
      PROVE  (doing[w] # None => doing'[w] # None \/ w \in unheard')
             /\ unheard \subseteq unheard' /\ UNCHANGED handling
  BY <1>4 DEF EndsUnseen
<1>5. CASE BeginCrash
  <2> DEFINE e == Event("crash", None, None)
  <2>1. e.type = "crash" /\ Emit(<<e>>) /\ UNCHANGED <<doing, handling>>
    BY <1>5 DEF Event, BeginCrash
  <2> HIDE DEF e
  <2>2. unheard \subseteq unheard'
    BY <2>1 DEF Emit
  <2> QED
    BY <2>1, <2>2
<1>6. CASE EndCrash \/ Disconnect
  BY <1>6 DEF EndCrash, Disconnect, Cut, engine
<1>7. CASE Recover \/ Reconnect
  BY <1>7 DEF Recover, Reconnect, engine, ghosts
<1>8. ASSUME NEW t \in Tasks, BackoffEnds(t)
      PROVE  UNCHANGED <<doing, handling, unheard>>
  BY <1>8 DEF BackoffEnds, ghosts
<1> QED
  BY <1>1, <1>2, <1>3, <1>4, <1>5, <1>6, <1>7, <1>8 DEF BackendNext

LEMMA ExcusesStay ==
    ASSUME BackendTypeOK, BackendTypeOK', BackendNext, NEW n \in 0 .. Len(wire), WireStep(n),
           NEW w \in Workers, NEW k \in 0 .. n, Excused(w, k)
    PROVE  Excused(w, k)'
<1>1. Len(wire) \in Nat /\ Len(wire') \in Nat
  BY LenProperties DEF BackendTypeOK
<1>2. CASE \E j \in k + 1 .. Len(wire) : wire[j].worker = w
  <2>1. PICK j \in k + 1 .. Len(wire) : wire[j].worker = w
    BY <1>2
  <2>2. CASE j <= n
    <3>1. j \in k + 1 .. Len(wire') /\ wire'[j].worker = w
      BY <1>1, <2>1, <2>2 DEF WireStep
    <3> QED
      BY <3>1 DEF Excused
  <2>3. CASE n < j
    <3>1. w \in unheard'
      BY <1>1, <2>1, <2>3 DEF WireStep
    <3> QED
      BY <3>1 DEF Excused
  <2> QED
    BY <1>1, <2>1, <2>2, <2>3
<1>3. CASE doing[w] # None \/ w \in unheard \/ (handling # <<>> /\ handling[1].worker = w)
  <2>1. ASSUME Len(wire') = Len(wire) + 1, wire'[Len(wire')].worker = w
        PROVE  \E j \in k + 1 .. Len(wire') : wire'[j].worker = w
    BY <1>1, <2>1
  <2>2. ASSUME Len(wire') = Len(wire) + 2, wire'[Len(wire) + 1].worker = w
        PROVE  \E j \in k + 1 .. Len(wire') : wire'[j].worker = w
    BY <1>1, <2>2
  <2> QED
    BY <1>3, <2>1, <2>2, HandsExcuse DEF Excused
<1> QED
  BY <1>2, <1>3 DEF Excused

LEMMA BackendExcuses ==
    ASSUME BackendInv, StartsExcused, BackendNext, UNCHANGED workers
    PROVE  StartsExcused'
<1>1. BackendTypeOK /\ BackendTypeOK' /\ HandsExact
  BY WireStaysTrue DEF BackendInv
<1>2. PICK n \in 0 .. Len(wire) : WireStep(n)
  BY <1>1, StepsSend
<1>3. Len(wire) \in Nat /\ Len(wire') \in Nat
  BY <1>1, LenProperties DEF BackendTypeOK
<1>4. ASSUME NEW w \in Workers, NEW k \in 1 .. Len(wire'),
             wire'[k].type = "started", wire'[k].worker = w
      PROVE  Excused(w, k)'
  <2>1. CASE k <= n
    <3>1. wire'[k] = wire[k] /\ k \in 1 .. Len(wire) /\ k \in 0 .. n
      BY <1>2, <1>3, <2>1 DEF WireStep
    <3>2. Excused(w, k)
      BY <1>4, <3>1 DEF StartsExcused
    <3> QED
      BY <1>1, <1>2, <3>1, <3>2, ExcusesStay
  <2>2. CASE n < k
    <3>1. doing'[w] # None
      BY <1>2, <1>3, <1>4, <2>2 DEF WireStep, Sent
    <3> QED
      BY <3>1 DEF Excused
  <2> QED
    BY <1>3, <2>1, <2>2
<1>5. ASSUME NEW w \in Slots, workers'[w].status = "EXECUTING"
      PROVE  w \in Workers /\ Excused(w, 0)'
  <2>1. w \in Workers /\ Excused(w, 0)
    BY <1>5 DEF StartsExcused
  <2> QED
    BY <1>1, <1>2, <1>3, <2>1, ExcusesStay
<1> QED
  BY <1>4, <1>5 DEF StartsExcused

(* What is heard makes the panel show what was excused, or takes an excuse    *)
(* away together with the status it was for.                                  *)
LEMMA MessageExcuses ==
    ASSUME BackendInv, PoolTypeOK, StartsExcused, wire # <<>>, wire' = Tail(wire),
           OnPoolEvent(Head(wire)), UNCHANGED <<engine, ghosts>>
    PROVE  StartsExcused'
<1> DEFINE e == Head(wire)
<1>1. /\ Len(wire) \in Nat \ {0} /\ Len(wire') = Len(wire) - 1 /\ e = wire[1]
      /\ \A k \in 1 .. Len(wire') : wire'[k] = wire[k + 1]
  BY WireIsHeard DEF BackendInv, BackendTypeOK
<1>2. ASSUME NEW w, NEW k \in 1 .. Len(wire), Excused(w, k)
      PROVE  Excused(w, k - 1)'
  <2>1. ASSUME NEW j \in k + 1 .. Len(wire), wire[j].worker = w
        PROVE  j - 1 \in (k - 1) + 1 .. Len(wire') /\ wire'[j - 1].worker = w
    BY <1>1, <2>1
  <2> QED
    BY <1>2, <2>1 DEF Excused, engine, ghosts
<1>3. ASSUME NEW w \in Workers, NEW k \in 1 .. Len(wire'),
             wire'[k].type = "started", wire'[k].worker = w
      PROVE  Excused(w, k)'
  <2>1. PICK m \in 1 .. Len(wire) : m = k + 1 /\ m - 1 = k
    BY <1>1
  <2>2. Excused(w, m)
    BY <1>1, <1>3, <2>1 DEF StartsExcused
  <2>3. Excused(w, m - 1)'
    BY <1>2, <2>2
  <2> QED
    BY <2>1, <2>3
<1>4. ASSUME NEW w \in Slots, workers'[w].status = "EXECUTING"
      PROVE  w \in Workers /\ Excused(w, 0)'
  <2>1. \/ e.type = "started" /\ e.worker = w
        \/ workers[w].status = "EXECUTING" /\ (e.worker # w \/ e.type \notin TaskEvents)
    <3>1. CASE e.type = "started"
      BY <1>4, <3>1 DEF OnPoolEvent, OnStarted, Show, PoolTypeOK
    <3>2. CASE e.type = "completed"
      BY <1>4, <3>2 DEF OnPoolEvent, OnCompleted, Show, PoolTypeOK
    <3>3. CASE e.type \in {"failed", "retry"}
      BY <1>4, <3>3 DEF OnPoolEvent, OnFailed, Show, PoolTypeOK
    <3>4. CASE e.type = "crash"
      BY <1>4, <3>4 DEF OnPoolEvent, OnCrash, InitWorkers
    <3>5. CASE e.type \notin TaskEvents \cup {"crash"}
      BY <1>4, <3>5 DEF OnPoolEvent, pool, TaskEvents
    <3> QED
      BY <3>1, <3>2, <3>3, <3>4, <3>5 DEF TaskEvents
  <2>2. CASE e.type = "started" /\ e.worker = w
    <3>1. w \in Workers /\ Excused(w, 1)
      BY <1>1, <2>2 DEF BackendInv, WireTrue, EventTrue, TaskEvents, StartsExcused
    <3> QED
      BY <1>1, <1>2, <3>1
  <2>3. CASE workers[w].status = "EXECUTING" /\ (e.worker # w \/ e.type \notin TaskEvents)
    <3>1. w \in Workers /\ Excused(w, 0)
      BY <2>3 DEF StartsExcused
    <3>2. e.worker # w
      BY <1>1, <2>3, <3>1, AnnouncementsAssumption DEF BackendInv, WireTrue, EventTrue
    <3> QED
      BY <1>1, <1>2, <3>1, <3>2 DEF Excused
  <2> QED
    BY <2>1, <2>2, <2>3
<1> QED
  BY <1>3, <1>4 DEF StartsExcused

-----------------------------------------------------------------------------
(* The completions counted                                                    *)

LEMMA CompletionsFinite ==
    ASSUME NEW w, NEW es, Len(es) \in Nat
    PROVE  IsFiniteSet(Completions(w, es)) /\ Cardinality(Completions(w, es)) \in Nat
<1>1. IsFiniteSet(1 .. Len(es)) /\ Completions(w, es) \in SUBSET (1 .. Len(es))
  BY FS_Interval DEF Completions
<1> QED
  BY <1>1, FS_Subset, FS_CardinalityType

(* A completion that is announced was announced of a worker; no other step    *)
(* adds one, and none takes one back from a worker.                           *)
LEMMA BackendCounts ==
    ASSUME BackendInv, PoolTypeOK, CompletionsCounted, BackendNext, UNCHANGED pool
    PROVE  CompletionsCounted'
<1>1. BackendTypeOK /\ BackendTypeOK' /\ HandsExact
  BY WireStaysTrue DEF BackendInv
<1>2. PICK n \in 0 .. Len(wire) : WireStep(n)
  BY <1>1, StepsSend
<1>3. Len(wire) \in Nat /\ Len(wire') \in Nat
  BY <1>1, LenProperties DEF BackendTypeOK
<1>4. \A w \in Workers : finished'[w] \in Nat /\ finished'[w] >= finished[w]
  <2>1. CASE Announce
    BY <1>1, <2>1, ResultInHand DEF Announce, Results, BackendTypeOK
  <2>2. CASE UNCHANGED finished
    BY <1>1, <2>2 DEF BackendTypeOK
  <2> QED
    BY <2>1, <2>2 DEF BackendNext, Start, Report, BackoffEnds, EndsUnseen, BeginCrash, EndCrash,
                      Recover, Disconnect, Reconnect, ghosts
<1>5. ASSUME NEW w \in Slots
      PROVE  Cardinality(Completions(w, wire'))
                <= Cardinality(Completions(w, wire)) + (Finished(w)' - Finished(w))
  <2> DEFINE old == Completions(w, wire)
             new == Completions(w, wire')
  <2>1. IsFiniteSet(old) /\ Cardinality(old) \in Nat /\ IsFiniteSet(new) /\ Cardinality(new) \in Nat
    BY <1>3, CompletionsFinite
  <2>2. Finished(w)' \in Nat /\ Finished(w) \in Nat /\ Finished(w)' >= Finished(w)
    BY <1>1, <1>4 DEF Finished, BackendTypeOK
  <2>3. ASSUME NEW k \in new
        PROVE  k \in old \/ (k = n + 1 /\ Finished(w)' = Finished(w) + 1)
    <3>1. k \in 1 .. Len(wire') /\ wire'[k].type = "completed" /\ wire'[k].worker = w
      BY DEF Completions
    <3>2. CASE k <= n
      BY <1>2, <1>3, <3>1, <3>2 DEF WireStep, Completions
    <3>3. CASE n < k
      <4>1. Sent(wire'[k]) /\ k = n + 1
        BY <1>2, <1>3, <3>1, <3>3 DEF WireStep
      <4>2. w \in Workers /\ finished'[w] = finished[w] + 1
        BY <3>1, <4>1 DEF Sent, EventTrue, TaskEvents
      <4> QED
        BY <4>1, <4>2 DEF Finished
    <3> QED
      BY <1>3, <3>1, <3>2, <3>3
  <2> HIDE DEF old, new
  <2>4. CASE new \subseteq old
    <3>1. Cardinality(new) <= Cardinality(old)
      BY <2>1, <2>4, FS_Subset
    <3> QED
      BY <2>1, <2>2, <3>1 DEF old, new
  <2>5. CASE ~(new \subseteq old)
    <3>1. Finished(w)' = Finished(w) + 1 /\ new \subseteq old \cup {n + 1}
      BY <2>3, <2>5
    <3> DEFINE wide == old \cup {n + 1}
    <3>2. /\ IsFiniteSet(wide)
          /\ Cardinality(wide) = IF n + 1 \in old THEN Cardinality(old) ELSE Cardinality(old) + 1
      BY <2>1, FS_AddElement
    <3> HIDE DEF wide
    <3>3. Cardinality(new) <= Cardinality(wide) /\ Cardinality(wide) \in Nat
      BY <3>1, <3>2, FS_Subset, FS_CardinalityType DEF wide
    <3> QED
      BY <2>1, <2>2, <3>1, <3>2, <3>3 DEF old, new
  <2> QED
    BY <2>4, <2>5
<1>6. ASSUME NEW w \in Slots
      PROVE  workers'[w].completedCount + fadeTimers'[w] + Cardinality(Completions(w, wire'))
                <= Finished(w)'
  <2>1. /\ Cardinality(Completions(w, wire')) \in Nat /\ Cardinality(Completions(w, wire)) \in Nat
        /\ Finished(w)' \in Nat /\ Finished(w) \in Nat
    BY <1>1, <1>3, <1>4, CompletionsFinite DEF Finished, BackendTypeOK
  <2>2. workers[w].completedCount \in Nat /\ fadeTimers[w] \in Nat
    BY DEF PoolTypeOK
  <2>3. UNCHANGED <<workers, fadeTimers>>
    BY DEF pool
  <2>4. workers[w].completedCount + fadeTimers[w] + Cardinality(Completions(w, wire)) <= Finished(w)
    BY DEF CompletionsCounted
  <2> QED
    BY <1>5, <2>1, <2>2, <2>3, <2>4
<1> QED
  BY <1>6 DEF CompletionsCounted

(* Hearing the first event takes a completion off the wire if it is one.      *)
LEMMA CompletionHeard ==
    ASSUME wire \in Seq(Events), wire # <<>>, wire' = Tail(wire), NEW w
    PROVE  /\ Cardinality(Completions(w, wire)) \in Nat
           /\ Cardinality(Completions(w, wire'))
                = IF wire[1].type = "completed" /\ wire[1].worker = w
                  THEN Cardinality(Completions(w, wire)) - 1 ELSE Cardinality(Completions(w, wire))
<1> DEFINE old == Completions(w, wire)
           new == Completions(w, wire')
           f == [k \in new |-> k + 1]
<1>1. /\ Len(wire) \in Nat \ {0} /\ Len(wire') = Len(wire) - 1
      /\ \A k \in 1 .. Len(wire') : wire'[k] = wire[k + 1]
  BY WireIsHeard
<1>2. IsFiniteSet(old) /\ Cardinality(old) \in Nat /\ IsFiniteSet(new)
  BY <1>1, CompletionsFinite
<1>3. /\ f \in [new -> old \ {1}]
      /\ \A a, b \in new : f[a] = f[b] => a = b
  BY <1>1 DEF Completions
<1>4. ASSUME NEW j \in old \ {1}
      PROVE  \E k \in new : f[k] = j
  <2>1. j - 1 \in new /\ (j - 1) + 1 = j
    BY <1>1 DEF Completions
  <2> QED
    BY <2>1
<1>5. f \in Bijection(new, old \ {1})
  BY <1>3, <1>4, Fun_IsBij
<1>6. Cardinality(old \ {1}) = Cardinality(new)
  BY <1>2, <1>5, Fun_ExistsBij, FS_Bijection
<1>7. Cardinality(old \ {1}) = IF 1 \in old THEN Cardinality(old) - 1 ELSE Cardinality(old)
  BY <1>2, FS_RemoveElement
<1>8. 1 \in old <=> wire[1].type = "completed" /\ wire[1].worker = w
  BY <1>1 DEF Completions
<1> QED
  BY <1>2, <1>6, <1>7, <1>8

(* The panel moves a completion from the wire to a timer, and from there to   *)
(* its count, or forgets the count.                                           *)
LEMMA MessageCounts ==
    ASSUME BackendInv, PoolTypeOK, CompletionsCounted, wire # <<>>, wire' = Tail(wire),
           OnPoolEvent(Head(wire)), UNCHANGED finished
    PROVE  PoolTypeOK' /\ CompletionsCounted'
<1> DEFINE e == Head(wire)
<1>1. wire \in Seq(Events) /\ e = wire[1]
  BY WireIsHeard DEF BackendInv, BackendTypeOK
<1> HIDE DEF e
<1>2. PoolTypeOK'
  <2>1. ASSUME NEW status \in {"IDLE", "EXECUTING", "COMPLETED"}, Show(e.worker, status)
        PROVE  workers' \in [Slots -> [status : {"IDLE", "EXECUTING", "COMPLETED"},
                                       completedCount : Nat]]
    BY <2>1 DEF Show, PoolTypeOK
  <2>2. CASE e.type = "started"
    BY <2>1, <2>2 DEF OnPoolEvent, OnStarted, PoolTypeOK, e
  <2>3. CASE e.type = "completed"
    <3>1. /\ fadeTimers' = [fadeTimers EXCEPT ![e.worker] = @ + 1]
          /\ Show(e.worker, "COMPLETED")
      BY <2>3 DEF OnPoolEvent, OnCompleted, e
    <3>2. fadeTimers \in [Slots -> Nat]
      BY DEF PoolTypeOK
    <3>3. fadeTimers' = [v \in Slots |-> IF v = e.worker THEN fadeTimers[v] + 1 ELSE fadeTimers[v]]
      BY <3>1, <3>2
    <3>4. fadeTimers' \in [Slots -> Nat]
      BY <3>2, <3>3
    <3> QED
      BY <2>1, <3>1, <3>4 DEF PoolTypeOK
  <2>4. CASE e.type \in {"failed", "retry"}
    BY <2>1, <2>4 DEF OnPoolEvent, OnFailed, PoolTypeOK, e
  <2>5. CASE e.type = "crash"
    BY <2>5 DEF OnPoolEvent, OnCrash, InitWorkers, PoolTypeOK, e
  <2>6. CASE e.type \notin {"started", "completed", "failed", "retry", "crash"}
    BY <2>6 DEF OnPoolEvent, pool, PoolTypeOK, e
  <2> QED
    BY <2>2, <2>3, <2>4, <2>5, <2>6
<1>3. ASSUME NEW w \in Slots
      PROVE  /\ workers'[w].completedCount <= workers[w].completedCount
             /\ fadeTimers'[w] = IF e.type = "completed" /\ e.worker = w THEN fadeTimers[w] + 1
                                 ELSE fadeTimers[w]
  <2>1. workers[w].completedCount \in Nat /\ fadeTimers[w] \in Nat
    BY DEF PoolTypeOK
  <2>2. ASSUME NEW status, Show(e.worker, status)
        PROVE  workers'[w].completedCount = workers[w].completedCount
    BY <2>2 DEF Show, PoolTypeOK
  <2>3. CASE e.type = "completed"
    <3>1. /\ fadeTimers' = [fadeTimers EXCEPT ![e.worker] = @ + 1]
          /\ Show(e.worker, "COMPLETED")
      BY <2>3 DEF OnPoolEvent, OnCompleted, e
    <3>2. fadeTimers'[w] = IF e.worker = w THEN fadeTimers[w] + 1 ELSE fadeTimers[w]
      BY <3>1 DEF PoolTypeOK
    <3> QED
      BY <2>1, <2>2, <2>3, <3>1, <3>2
  <2>4. CASE e.type \in {"started", "failed", "retry"}
    <3>1. (\E status : Show(e.worker, status)) /\ UNCHANGED fadeTimers
      BY <2>4 DEF OnPoolEvent, OnStarted, OnFailed, e
    <3> QED
      BY <2>1, <2>2, <2>4, <3>1
  <2>5. CASE e.type = "crash"
    BY <2>1, <2>5 DEF OnPoolEvent, OnCrash, InitWorkers, e
  <2>6. CASE e.type \notin {"started", "completed", "failed", "retry", "crash"}
    BY <2>1, <2>6 DEF OnPoolEvent, pool, e
  <2> QED
    BY <2>3, <2>4, <2>5, <2>6
<1>4. ASSUME NEW w \in Slots
      PROVE  workers'[w].completedCount + fadeTimers'[w] + Cardinality(Completions(w, wire'))
                <= Finished(w)'
  <2>1. /\ Cardinality(Completions(w, wire)) \in Nat
        /\ Cardinality(Completions(w, wire'))
              = IF e.type = "completed" /\ e.worker = w
                THEN Cardinality(Completions(w, wire)) - 1 ELSE Cardinality(Completions(w, wire))
    BY <1>1, CompletionHeard
  <2>2. Finished(w)' = Finished(w) /\ Finished(w) \in Nat
    BY DEF Finished, BackendInv, BackendTypeOK
  <2>3. /\ workers[w].completedCount \in Nat /\ fadeTimers[w] \in Nat
        /\ workers'[w].completedCount \in Nat
    BY <1>2 DEF PoolTypeOK
  <2>4. workers[w].completedCount + fadeTimers[w] + Cardinality(Completions(w, wire)) <= Finished(w)
    BY DEF CompletionsCounted
  <2>5. CASE e.type = "completed" /\ e.worker = w
    BY <1>3, <2>1, <2>2, <2>3, <2>4, <2>5
  <2>6. CASE ~(e.type = "completed" /\ e.worker = w)
    BY <1>3, <2>1, <2>2, <2>3, <2>4, <2>6
  <2> QED
    BY <2>5, <2>6
<1> QED
  BY <1>2, <1>4 DEF CompletionsCounted

(* A timer that fires makes its completion count, and lets the worker rest.   *)
LEMMA FadeCounts ==
    ASSUME PoolTypeOK, StartsExcused, CompletionsCounted, BackendInv, NEW w \in Slots, FadeTimer(w)
    PROVE  PoolTypeOK' /\ StartsExcused' /\ CompletionsCounted'
<1>1. /\ fadeTimers' = [fadeTimers EXCEPT ![w] = fadeTimers[w] - 1]
      /\ fadeTimers[w] > 0 /\ fadeTimers[w] \in Nat
      /\ workers' = [workers EXCEPT ![w] =
             [status |-> "IDLE", completedCount |-> workers[w].completedCount + 1]]
      /\ UNCHANGED backend
  BY DEF FadeTimer, FadeTimerFires, PoolTypeOK
<1>2. PoolTypeOK'
  BY <1>1 DEF PoolTypeOK
<1>3. /\ \A v \in Slots : v # w => workers'[v] = workers[v] /\ fadeTimers'[v] = fadeTimers[v]
      /\ workers'[w].status = "IDLE"
      /\ workers'[w].completedCount = workers[w].completedCount + 1
      /\ fadeTimers'[w] = fadeTimers[w] - 1
  BY <1>1 DEF PoolTypeOK
<1>4. UNCHANGED <<wire, doing, unheard, handling, finished>>
  BY <1>1 DEF backend, net, engine, ghosts
<1>5. StartsExcused'
  BY <1>3, <1>4 DEF StartsExcused, Excused
<1>6. ASSUME NEW v \in Slots
      PROVE  workers'[v].completedCount + fadeTimers'[v] + Cardinality(Completions(v, wire'))
                <= Finished(v)'
  <2>1. Finished(v)' = Finished(v) /\ Completions(v, wire') = Completions(v, wire)
    BY <1>4 DEF Finished
  <2>2. workers[v].completedCount \in Nat /\ fadeTimers[v] \in Nat
    BY DEF PoolTypeOK
  <2>3. workers[v].completedCount + fadeTimers[v] + Cardinality(Completions(v, wire)) <= Finished(v)
    BY DEF CompletionsCounted
  <2>4. Cardinality(Completions(v, wire)) \in Nat
    BY CompletionsFinite, LenProperties DEF BackendInv, BackendTypeOK
  <2>5. workers'[v].completedCount + fadeTimers'[v] = workers[v].completedCount + fadeTimers[v]
    BY <1>1, <1>3, <2>2
  <2> QED
    BY <2>1, <2>3, <2>4, <2>5
<1> QED
  BY <1>2, <1>5, <1>6 DEF CompletionsCounted

(* Hearing changes nothing of what is still on its way.                       *)
LEMMA WireStaysHeard ==
    ASSUME BackendInv, wire # <<>>, wire' = Tail(wire), UNCHANGED <<connected, engine, ghosts>>
    PROVE  BackendInv'
<1>1. /\ wire' \in Seq(Events) /\ Len(wire) \in Nat \ {0} /\ Len(wire') = Len(wire) - 1
      /\ \A k \in 1 .. Len(wire') : wire'[k] = wire[k + 1]
  BY WireIsHeard DEF BackendInv, BackendTypeOK
<1>2. BackendTypeOK'
  BY <1>1 DEF BackendInv, BackendTypeOK, engine, ghosts
<1>3. HandsExact'
  BY DEF BackendInv, HandsExact, engine
<1>4. WireTrue'
  BY <1>1 DEF BackendInv, WireTrue, EventTrue, engine, Budget
<1> QED
  BY <1>2, <1>3, <1>4 DEF BackendInv

-----------------------------------------------------------------------------
(* The event stream                                                           *)

(* The bounded list keeps nothing that it was not given.                      *)
LEMMA KeptFacts ==
    ASSUME NEW S, NEW s \in Seq(S), NEW n \in Nat
    PROVE  /\ Kept(s, n) \in Seq(S)
           /\ \A k \in 1 .. Len(Kept(s, n)) : \E j \in 1 .. Len(s) : Kept(s, n)[k] = s[j]
<1>1. Len(s) \in Nat /\ \A j \in 1 .. Len(s) : s[j] \in S
  BY LenProperties, ElementOfSeq
<1>2. CASE Len(s) > n
  <2> DEFINE m == Len(s) - n + 1
  <2>1. m \in Int /\ m >= 1 /\ Kept(s, n) = SubSeq(s, m, Len(s))
    BY <1>1, <1>2 DEF Kept
  <2>2. \A i \in m .. Len(s) : s[i] \in S
    BY <1>1, <2>1
  <2> HIDE DEF m
  <2>3. /\ SubSeq(s, m, Len(s)) \in Seq(S)
        /\ Len(SubSeq(s, m, Len(s))) = IF m <= Len(s) THEN Len(s) - m + 1 ELSE 0
        /\ \A i \in 1 .. Len(s) - m + 1 : SubSeq(s, m, Len(s))[i] = s[m + i - 1]
    BY <1>1, <2>1, <2>2, SubSeqProperties
  <2>4. ASSUME NEW k \in 1 .. Len(Kept(s, n))
        PROVE  \E j \in 1 .. Len(s) : Kept(s, n)[k] = s[j]
    <3>1. k \in 1 .. Len(s) - m + 1
      BY <1>1, <2>1, <2>3
    <3>2. m + k - 1 \in 1 .. Len(s) /\ Kept(s, n)[k] = s[m + k - 1]
      BY <1>1, <2>1, <2>3, <3>1
    <3> QED
      BY <3>2
  <2> QED
    BY <2>1, <2>3, <2>4
<1>3. CASE ~(Len(s) > n)
  BY <1>3 DEF Kept
<1> QED
  BY <1>2, <1>3

(* A failure on the wire is shown as an error that nothing retries: it has    *)
(* used up its budget, and 0 is not a budget.                                 *)
LEMMA EntryFacts ==
    ASSUME NEW e \in Events, EventTrue(e, task)
    PROVE  LET entry == [type |-> e.type, task |-> e.task, level |-> Level(e),
                         retryable |-> AnnouncedRetryable(e)]
           IN  /\ entry \in Entries
               /\ e.type = "failed" => /\ e.task \in Tasks /\ task[e.task] = "failed"
                                       /\ Level(e) = "error" /\ ~AnnouncedRetryable(e)
               /\ e.type = "retry" => Level(e) = "warn"
<1>1. e.type \in EventTypes /\ e.task \in Tasks \cup {None}
  BY DEF Events
<1>2. CASE e.type = "failed"
  <2>1. e.task \in Tasks /\ task[e.task] = "failed" /\ e.max = Budget(e.task) /\ e.retry >= e.max
    BY <1>2 DEF EventTrue, TaskEvents
  <2>2. Budget(e.task) \in Int /\ Budget(e.task) # 0
    BY <2>1, AnnouncementsAssumption DEF Budget
  <2>3. Or(e.max, 3) = e.max /\ e.retry \in Nat /\ e.max \in Int
    BY <2>1, <2>2 DEF Or, Events
  <2>4. Level(e) = "error"
    BY <1>2, <2>1, <2>3 DEF Level
  <2>5. ~AnnouncedRetryable(e)
    BY <1>2, <2>1, <2>3 DEF AnnouncedRetryable
  <2>6. AnnouncedRetryable(e) \in BOOLEAN
    BY DEF AnnouncedRetryable
  <2> QED
    BY <1>1, <1>2, <2>1, <2>4, <2>5, <2>6 DEF Entries
<1>3. CASE e.type # "failed"
  <2>1. /\ Level(e) \in {"info", "success", "error", "warn", "critical", "system"}
        /\ e.type = "retry" => Level(e) = "warn"
    BY <1>1, <1>3 DEF Level, EventTypes
  <2>2. AnnouncedRetryable(e) \in BOOLEAN
    BY DEF AnnouncedRetryable
  <2> QED
    BY <1>1, <1>3, <2>1, <2>2 DEF Entries
<1> QED
  BY <1>2, <1>3

LEMMA MessageShows ==
    ASSUME BackendInv, StreamTypeOK, FailuresShownFinal, wire # <<>>,
           OnStreamEvent(Head(wire)), UNCHANGED task
    PROVE  StreamTypeOK' /\ FailuresShownFinal'
<1> DEFINE e == Head(wire)
           entry == [type |-> e.type, task |-> e.task, level |-> Level(e),
                     retryable |-> AnnouncedRetryable(e)]
           all == Append(events, entry)
<1>1. e \in Events /\ EventTrue(e, task)
  <2>1. Len(wire) \in Nat \ {0} /\ e = wire[1] /\ wire[1] \in Events
    BY HeadTailProperties, LenProperties, EmptySeq DEF BackendInv, BackendTypeOK
  <2> QED
    BY <2>1 DEF BackendInv, WireTrue
<1>2. /\ entry \in Entries
      /\ entry.type = "failed" => /\ entry.task \in Tasks /\ task[entry.task] = "failed"
                                  /\ entry.level = "error" /\ ~entry.retryable
      /\ entry.type = "retry" => entry.level = "warn"
  BY <1>1, EntryFacts
<1>3. events' = Kept(all, MaxStream)
  BY DEF OnStreamEvent
<1> HIDE DEF entry, e
<1>4. /\ all \in Seq(Entries) /\ Len(all) = Len(events) + 1 /\ Len(events) \in Nat
      /\ all[Len(events) + 1] = entry
      /\ \A k \in 1 .. Len(events) : all[k] = events[k]
  BY <1>2, AppendProperties, LenProperties DEF StreamTypeOK
<1> HIDE DEF all
<1>5. /\ events' \in Seq(Entries)
      /\ \A k \in 1 .. Len(events') : \E j \in 1 .. Len(all) : events'[k] = all[j]
  BY <1>3, <1>4, KeptFacts, StreamLimit
<1>6. \A j \in 1 .. Len(all) :
        /\ all[j].type = "failed" => /\ all[j].task \in Tasks /\ task[all[j].task] = "failed"
                                     /\ all[j].level = "error" /\ ~all[j].retryable
        /\ all[j].type = "retry" => all[j].level = "warn"
  BY <1>2, <1>4 DEF StreamTypeOK, FailuresShownFinal
<1>7. DOMAIN events' = 1 .. Len(events')
  BY <1>5, LenProperties
<1>8. ASSUME NEW k \in 1 .. Len(events')
      PROVE  /\ events'[k].type = "failed" =>
                    /\ events'[k].task \in Tasks /\ task[events'[k].task] = "failed"
                    /\ events'[k].level = "error" /\ ~events'[k].retryable
             /\ events'[k].type = "retry" => events'[k].level = "warn"
  BY <1>5, <1>6
<1> QED
  BY <1>5, <1>7, <1>8 DEF StreamTypeOK, FailuresShownFinal

(* What is shown stays true when the back end goes on.                        *)
LEMMA ShownStays ==
    ASSUME StreamTypeOK, FailuresShownFinal, FailuresStay, UNCHANGED events
    PROVE  StreamTypeOK' /\ FailuresShownFinal'
BY DEF StreamTypeOK, FailuresShownFinal, FailuresStay

-----------------------------------------------------------------------------
(* The invariant is one                                                       *)

LEMMA PanelsInit == Init => PanelsInv
<1> SUFFICES ASSUME Init
             PROVE  PanelsInv
  OBVIOUS
<1> USE DEF Init, BackendInit, PoolInit, EventPanelsInit
<1>1. wire = <<>> /\ Len(wire) = 0 /\ events = <<>> /\ Len(events) = 0
  OBVIOUS
<1>2. BackendInv
  <2>1. wire \in Seq(Events)
    BY <1>1
  <2> QED
    BY <1>1, <2>1, AnnouncementsAssumption
       DEF BackendInv, BackendTypeOK, TaskStates, HandsExact, WireTrue
<1>3. PoolTypeOK /\ StartsExcused
  BY <1>1 DEF PoolTypeOK, StartsExcused, InitWorkers
<1>4. CompletionsCounted
  <2>1. ASSUME NEW w \in Slots
        PROVE  workers[w].completedCount + fadeTimers[w] + Cardinality(Completions(w, wire))
                  <= Finished(w)
    <3>1. Cardinality(Completions(w, wire)) = 0
      BY <1>1, FS_EmptySet DEF Completions
    <3>2. Finished(w) = 0
      BY DEF Finished
    <3> QED
      BY <3>1, <3>2 DEF InitWorkers
  <2> QED
    BY <2>1 DEF CompletionsCounted
<1>5. StreamTypeOK /\ FailuresShownFinal
  <2>1. events \in Seq(Entries) /\ DOMAIN events = {}
    BY <1>1
  <2> QED
    BY <1>1, <2>1 DEF StreamTypeOK, FailuresShownFinal
<1> QED
  BY <1>2, <1>3, <1>4, <1>5 DEF PanelsInv

LEMMA PanelsNext == PanelsInv /\ [Next]_vars => PanelsInv'
<1> SUFFICES ASSUME PanelsInv, [Next]_vars
             PROVE  PanelsInv'
  OBVIOUS
<1> USE DEF PanelsInv
<1>1. CASE BackendNext /\ UNCHANGED panels
  <2>1. UNCHANGED pool /\ UNCHANGED <<workers, fadeTimers>> /\ UNCHANGED events
    BY <1>1 DEF panels, pool, eventPanels
  <2>2. BackendInv' /\ FailuresStay
    BY <1>1, WireStaysTrue, BackendTyped DEF BackendInv
  <2>3. StartsExcused' /\ CompletionsCounted'
    BY <1>1, <2>1, BackendExcuses, BackendCounts
  <2>4. PoolTypeOK'
    BY <2>1 DEF PoolTypeOK
  <2>5. StreamTypeOK' /\ FailuresShownFinal'
    BY <2>1, <2>2, ShownStays
  <2> QED
    BY <2>2, <2>3, <2>4, <2>5
<1>2. CASE Message
  <2>1. /\ wire # <<>> /\ wire' = Tail(wire) /\ UNCHANGED <<connected, engine, ghosts>>
        /\ OnPoolEvent(Head(wire)) /\ OnStreamEvent(Head(wire))
    BY <1>2 DEF Message
  <2>2. UNCHANGED <<task, finished>>
    BY <2>1 DEF engine, ghosts
  <2>3. BackendInv'
    BY <2>1, WireStaysHeard
  <2>4. StartsExcused'
    BY <2>1, MessageExcuses
  <2>5. PoolTypeOK' /\ CompletionsCounted'
    BY <2>1, <2>2, MessageCounts
  <2>6. StreamTypeOK' /\ FailuresShownFinal'
    BY <2>1, <2>2, MessageShows
  <2> QED
    BY <2>3, <2>4, <2>5, <2>6
<1>3. CASE ClickClear
  <2>1. events' = <<>> /\ UNCHANGED <<backend, pool>>
    BY <1>3 DEF ClickClear, Clear
  <2>2. events' \in Seq(Entries) /\ Len(events') = 0 /\ DOMAIN events' = {}
    BY <2>1
  <2>3. StreamTypeOK' /\ FailuresShownFinal'
    BY <2>2 DEF StreamTypeOK, FailuresShownFinal
  <2>4. BackendInv'
    BY <2>1 DEF BackendInv, BackendTypeOK, HandsExact, WireTrue, EventTrue, Budget,
                backend, net, engine, ghosts
  <2>5. PoolTypeOK' /\ StartsExcused' /\ CompletionsCounted'
    BY <2>1 DEF PoolTypeOK, StartsExcused, Excused, CompletionsCounted, Completions, Finished,
                backend, net, engine, ghosts, pool
  <2> QED
    BY <2>3, <2>4, <2>5
<1>4. ASSUME NEW w \in Slots, FadeTimer(w)
      PROVE  PanelsInv'
  <2>1. UNCHANGED <<backend, eventPanels>>
    BY <1>4 DEF FadeTimer
  <2>2. BackendInv'
    BY <2>1 DEF BackendInv, BackendTypeOK, HandsExact, WireTrue, EventTrue, Budget,
                backend, net, engine, ghosts
  <2>3. StreamTypeOK' /\ FailuresShownFinal'
    BY <2>1 DEF StreamTypeOK, FailuresShownFinal, eventPanels, backend, engine
  <2> QED
    BY <1>4, <2>2, <2>3, FadeCounts
<1>5. CASE UNCHANGED vars
  <2>1. UNCHANGED <<backend, pool, eventPanels>>
    BY <1>5 DEF vars, panels
  <2>2. BackendInv'
    BY <2>1 DEF BackendInv, BackendTypeOK, HandsExact, WireTrue, EventTrue, Budget,
                backend, net, engine, ghosts
  <2>3. PoolTypeOK' /\ StartsExcused' /\ CompletionsCounted'
    BY <2>1 DEF PoolTypeOK, StartsExcused, Excused, CompletionsCounted, Completions, Finished,
                backend, net, engine, ghosts, pool
  <2>4. StreamTypeOK' /\ FailuresShownFinal'
    BY <2>1 DEF StreamTypeOK, FailuresShownFinal, eventPanels, backend, engine
  <2> QED
    BY <2>2, <2>3, <2>4
<1> QED
  BY <1>1, <1>2, <1>3, <1>4, <1>5 DEF Next

(* Whatever is lost, in every life of the scheduler: what is on its way is    *)
(* true, every worker shown executing is excused, every completion is counted *)
(* once on its way from the wire to the panel, every failure shown is final.  *)
THEOREM PanelsInvariance == Spec => []PanelsInv
BY PanelsInit, PanelsNext, PTL DEF Spec

(* The worker pool panel shows nobody executing who has finished, unless what *)
(* ended the execution is still to be announced, or was never said.           *)
THEOREM ExecutingAlwaysReal == Spec => []ExecutingIsReal
<1>1. PanelsInv => ExecutingIsReal
  <2> SUFFICES ASSUME PanelsInv, NEW w \in Slots, workers[w].status = "EXECUTING"
               PROVE  w \in {v \in Workers : doing[v] # None} \cup unheard
                               \cup LostWorkers(handling) \cup LostWorkers(wire)
    BY DEF ExecutingIsReal
  <2>1. w \in Workers /\ Excused(w, 0)
    BY DEF PanelsInv, StartsExcused
  <2>2. DOMAIN wire = 1 .. Len(wire)
    BY LenProperties DEF PanelsInv, BackendInv, BackendTypeOK
  <2>3. ASSUME handling # <<>>, handling[1].worker = w
        PROVE  w \in LostWorkers(handling)
    <3>1. handling = <<handling[1]>>
      BY <2>3, ResultInHand DEF PanelsInv, BackendInv
    <3>2. 1 \in DOMAIN handling
      BY <3>1
    <3> QED
      BY <2>1, <2>3, <3>2 DEF LostWorkers
  <2>4. ASSUME NEW j \in 1 .. Len(wire), wire[j].worker = w
        PROVE  w \in LostWorkers(wire)
    BY <2>1, <2>2, <2>4 DEF LostWorkers
  <2> QED
    BY <2>1, <2>3, <2>4 DEF Excused
<1> QED
  BY <1>1, PanelsInvariance, PTL

(* The panel never counts more completions of a worker than were announced.   *)
THEOREM CountsAlwaysReal == Spec => []CountsAreReal
<1>1. PanelsInv => CountsAreReal
  <2> SUFFICES ASSUME PanelsInv, NEW w \in Slots
               PROVE  workers[w].completedCount + fadeTimers[w] <= Finished(w)
    BY DEF CountsAreReal, Finished
  <2>1. Cardinality(Completions(w, wire)) \in Nat
    BY CompletionsFinite, LenProperties DEF PanelsInv, BackendInv, BackendTypeOK
  <2>2. workers[w].completedCount \in Nat /\ fadeTimers[w] \in Nat /\ Finished(w) \in Nat
    BY DEF PanelsInv, PoolTypeOK, BackendInv, BackendTypeOK, Finished
  <2>3. workers[w].completedCount + fadeTimers[w] + Cardinality(Completions(w, wire)) <= Finished(w)
    BY DEF PanelsInv, CompletionsCounted
  <2> QED
    BY <2>1, <2>2, <2>3
<1> QED
  BY <1>1, PanelsInvariance, PTL

(* No failure in the event stream is shown as one that is to be retried, and  *)
(* the task of every one has failed for good.                                 *)
THEOREM FailuresAlwaysFinal == Spec => []FailuresShownFinal
<1>1. PanelsInv => FailuresShownFinal
  BY DEF PanelsInv
<1> QED
  BY <1>1, PanelsInvariance, PTL

-----------------------------------------------------------------------------
(* The retry timers                                                           *)

(* The delays the panel computes are those of the scheduler for every budget  *)
(* that a retry can use up before the delay overflows.                        *)
DelaysFit == \A t \in Tasks : Budget(t) < 34

LEMMA DelayAgrees ==
    ASSUME NEW n \in 1 .. 33
    PROVE  RetryDelaySeconds(Or(n, 1)) = RetryDelay(n)
BY DEF RetryDelaySeconds, Or, RetryDelay

(* What was told of a task remains the last word while nothing that tells of  *)
(* it is sent, and nothing that told of it is lost.                           *)
LEMMA ToldStays ==
    ASSUME BackendTypeOK, BackendTypeOK', NEW n \in 0 .. Len(wire), WireStep(n),
           UNCHANGED retryTimers, NEW t \in Tasks, t \notin missed', LastTold(t),
           Waits(t)' = Waits(t), \A k \in n + 1 .. Len(wire') : ~Tells(wire'[k], t)
    PROVE  LastTold(t)'
<1>1. Len(wire) \in Nat /\ Len(wire') \in Nat
  BY LenProperties DEF BackendTypeOK
<1>2. Heard(t)' = Heard(t)
  BY DEF Heard
<1>3. CASE (\A k \in 1 .. Len(wire) : ~Tells(wire[k], t)) /\ Heard(t) = Waits(t)
  <2>1. \A k \in 1 .. Len(wire') : ~Tells(wire'[k], t)
    BY <1>1, <1>3 DEF WireStep
  <2> QED
    BY <1>2, <1>3, <2>1 DEF LastTold
<1>4. ASSUME NEW k \in 1 .. Len(wire), Tells(wire[k], t), Told(wire[k]) = Waits(t),
             \A j \in k + 1 .. Len(wire) : ~Tells(wire[j], t)
      PROVE  LastTold(t)'
  <2>1. k \in 1 .. n
    BY <1>1, <1>4 DEF WireStep
  <2>2. k \in 1 .. Len(wire') /\ wire'[k] = wire[k]
    BY <1>1, <2>1 DEF WireStep
  <2>3. \A j \in k + 1 .. Len(wire') : ~Tells(wire'[j], t)
    BY <1>1, <1>4, <2>1 DEF WireStep
  <2>4. Tells(wire'[k], t) /\ Told(wire'[k]) = Waits(t)'
    BY <1>4, <2>2
  <2> QED
    BY <2>2, <2>3, <2>4 DEF LastTold
<1> QED
  BY <1>3, <1>4 DEF LastTold

(* What is sent tells how the task is now, or tells nothing of it.            *)
LEMMA SendTells ==
    ASSUME BackendTypeOK, BackendTypeOK', NEW es \in Seq(Events), Len(es) \in {1, 2}, Emit(es),
           UNCHANGED retryTimers, NEW t \in Tasks, t \notin missed', t \notin missed => LastTold(t),
           Len(es) = 2 => es[1].type \notin {"started", "retry"},
           \/ Waits(t)' = Waits(t) /\ \A k \in 1 .. Len(es) : ~Tells(es[k], t)
           \/ Len(es) = 1 /\ Tells(es[1], t) /\ es[1].task = t /\ Told(es[1]) = Waits(t)'
    PROVE  LastTold(t)'
<1>1. Len(wire) \in Nat /\ Len(wire') \in Nat /\ DOMAIN es = 1 .. Len(es)
  BY LenProperties DEF BackendTypeOK
<1>2. CASE Waits(t)' = Waits(t) /\ \A k \in 1 .. Len(es) : ~Tells(es[k], t)
  <2>1. t \notin missed
    <3>1. ASSUME Len(es) = 1, es[1].type \in {"started", "retry"}
          PROVE  t \notin LostTasks(es)
      <4>1. es[1].task # t /\ DOMAIN es = {1}
        BY <1>1, <1>2, <3>1 DEF Tells
      <4> QED
        BY <3>1, <4>1 DEF LostTasks
    <3> QED
      BY <3>1 DEF Emit
  <2>2. \A k \in Len(wire) + 1 .. Len(wire') : ~Tells(wire'[k], t)
    <3>1. CASE connected
      <4>1. /\ Len(wire') = Len(wire) + Len(es)
            /\ \A k \in Len(wire) + 1 .. Len(wire') : wire'[k] = es[k - Len(wire)]
        BY <3>1, WireGrows, EmitType DEF BackendTypeOK
      <4>2. \A k \in Len(wire) + 1 .. Len(wire') : k - Len(wire) \in 1 .. Len(es)
        BY <1>1, <4>1
      <4> QED
        BY <1>2, <4>1, <4>2
    <3>2. CASE ~connected
      BY <1>1, <3>2, EmitType
    <3> QED
      BY <3>1, <3>2
  <2> DEFINE Same(m) == /\ m <= Len(wire') /\ \A k \in 1 .. m : wire'[k] = wire[k]
  <2>3. Same(Len(wire))
    <3>1. CASE connected
      BY <1>1, <3>1, WireGrows, EmitType DEF BackendTypeOK
    <3>2. CASE ~connected
      BY <1>1, <3>2, EmitType
    <3> QED
      BY <3>1, <3>2
  <2>4. Heard(t)' = Heard(t) /\ LastTold(t)
    BY <2>1 DEF Heard
  <2>5. CASE (\A k \in 1 .. Len(wire) : ~Tells(wire[k], t)) /\ Heard(t) = Waits(t)
    <3>1. \A k \in 1 .. Len(wire') : ~Tells(wire'[k], t)
      BY <1>1, <2>2, <2>3, <2>5
    <3> QED
      BY <1>2, <2>4, <2>5, <3>1 DEF LastTold
  <2>6. ASSUME NEW k \in 1 .. Len(wire), Tells(wire[k], t), Told(wire[k]) = Waits(t),
               \A j \in k + 1 .. Len(wire) : ~Tells(wire[j], t)
        PROVE  LastTold(t)'
    <3>1. k \in 1 .. Len(wire') /\ wire'[k] = wire[k]
      BY <1>1, <2>3
    <3>2. \A j \in k + 1 .. Len(wire') : ~Tells(wire'[j], t)
      BY <1>1, <2>2, <2>3, <2>6
    <3>3. Tells(wire'[k], t) /\ Told(wire'[k]) = Waits(t)'
      BY <1>2, <2>6, <3>1
    <3> QED
      BY <3>1, <3>2, <3>3 DEF LastTold
  <2> QED
    BY <2>4, <2>5, <2>6 DEF LastTold
<1>3. CASE Len(es) = 1 /\ Tells(es[1], t) /\ es[1].task = t /\ Told(es[1]) = Waits(t)'
  <2>1. connected
    <3>1. t \in LostTasks(es)
      BY <1>1, <1>3 DEF LostTasks
    <3> QED
      BY <3>1 DEF Emit
  <2>2. Len(wire') = Len(wire) + 1 /\ wire'[Len(wire) + 1] = es[1]
    <3>1. /\ Len(wire') = Len(wire) + Len(es)
          /\ \A k \in Len(wire) + 1 .. Len(wire') : wire'[k] = es[k - Len(wire)]
      BY <2>1, WireGrows, EmitType DEF BackendTypeOK
    <3>2. Len(wire) + 1 \in Len(wire) + 1 .. Len(wire') /\ (Len(wire) + 1) - Len(wire) = 1
      BY <1>1, <1>3, <3>1
    <3> QED
      BY <1>3, <3>1, <3>2
  <2>3. Tells(wire'[Len(wire')], t) /\ Told(wire'[Len(wire')]) = Waits(t)'
    BY <1>3, <2>2
  <2> QED
    BY <1>1, <2>2, <2>3 DEF LastTold
<1> QED
  BY <1>2, <1>3

(* While the scheduler is up, every step of the back end that changes what a  *)
(* task waits for tells of it.                                                *)
LEMMA BackendTells ==
    ASSUME BackendInv, RetriesTold, DelaysFit, BackendNext, UNCHANGED retryTimers
    PROVE  RetriesTold'
<1> SUFFICES ASSUME phase' = "up", NEW t \in Tasks, t \notin missed'
             PROVE  LastTold(t)'
  BY DEF RetriesTold
<1>1. BackendTypeOK /\ BackendTypeOK' /\ HandsExact
  BY WireStaysTrue DEF BackendInv
<1>2. Len(wire) \in Nat /\ Len(wire') \in Nat
  BY <1>1, LenProperties DEF BackendTypeOK
<1>3. phase = "up" /\ t \notin missed => LastTold(t)
  BY DEF RetriesTold
<1>4. ASSUME UNCHANGED <<wire, phase, missed>>, Waits(t)' = Waits(t)
      PROVE  LastTold(t)'
  BY <1>3, <1>4 DEF LastTold, Heard
<1>5. ASSUME NEW u \in Tasks, NEW w \in Workers, Start(u, w)
      PROVE  LastTold(t)'
  <2> DEFINE e == Event("started", u, w)
  <2>1. e \in Events /\ e.type = "started" /\ e.task = u
    BY EventType DEF EventTypes
  <2>2. /\ phase = "up" /\ Emit(<<e>>) /\ task' = [task EXCEPT ![u] = "running"]
        /\ UNCHANGED attempt
    BY <1>5 DEF Start
  <2> HIDE DEF e
  <2> DEFINE es == <<e>>
  <2>3. es \in Seq(Events) /\ Len(es) = 1 /\ es[1] = e /\ Emit(es)
    BY <2>1, <2>2
  <2> HIDE DEF es
  <2>4. /\ Len(es) \in {1, 2} /\ Len(es) # 2
        /\ t \notin missed => LastTold(t)
        /\ Len(es) = 2 => es[1].type \notin {"started", "retry"}
    BY <1>3, <2>2, <2>3
  <2>5. CASE u = t
    <3>1. Waits(t)' = {}
      BY <1>1, <2>2, <2>5 DEF Waits, BackendTypeOK
    <3>2. Tells(es[1], t) /\ Told(es[1]) = {} /\ es[1].task = t
      BY <2>1, <2>3, <2>5 DEF Tells, Told
    <3> QED
      BY <1>1, <2>3, <2>4, <3>1, <3>2, SendTells
  <2>6. CASE u # t
    <3>1. Waits(t)' = Waits(t)
      BY <1>1, <2>2, <2>6 DEF Waits, BackendTypeOK
    <3>2. \A k \in 1 .. Len(es) : ~Tells(es[k], t)
      BY <2>1, <2>3, <2>6 DEF Tells
    <3> QED
      BY <1>1, <2>3, <2>4, <3>1, <3>2, SendTells
  <2> QED
    BY <2>5, <2>6
<1>6. CASE Announce
  <2> DEFINE r == handling[1]
             es == Announced(r)
  <2>1. /\ r \in Results /\ Outcome(r.task, r.result) /\ Emit(es) /\ phase = "up"
        /\ task[r.task] = "running" /\ r.task \in Tasks /\ r.result \in {"completed", "failed"}
    BY <1>1, <1>6, ResultInHand DEF Announce, HandsExact, Results
  <2>2. /\ es \in Seq(Events) /\ Len(es) \in {1, 2} /\ es[1].task = r.task
        /\ es[1].type = IF r.result = "completed" THEN "completed"
                        ELSE IF attempt[r.task] < Budget(r.task) THEN "retry"
                        ELSE "failed"
        /\ es[1].type = "retry" => es[1].retry = attempt[r.task] + 1 /\ Len(es) = 1
        /\ Len(es) = 2 => es[2].type = "cascade"
    <3>1. ASSUME es[1].type = "retry"
          PROVE  Len(es) = 1
      <4>1. r.result = "failed" /\ attempt[r.task] < Budget(r.task)
        BY <1>1, <2>1, <3>1, AnnouncedFacts
      <4>2. es = <<FailureEvent("retry", r.task, r.worker, attempt[r.task] + 1)>>
        BY <4>1 DEF Announced
      <4> QED
        BY <4>2
    <3> QED
      BY <1>1, <2>1, <3>1, AnnouncedFacts
  <2>3. /\ \A u \in Tasks : u # r.task => task'[u] = task[u] /\ attempt'[u] = attempt[u]
        /\ task'[r.task] = IF r.result = "completed" THEN "completed"
                           ELSE IF attempt[r.task] < Budget(r.task) THEN "backoff"
                           ELSE "failed"
        /\ task'[r.task] = "backoff" => attempt'[r.task] = attempt[r.task] + 1
    BY <1>1, <2>1, OutcomeFacts
  <2>4. Len(es) = 2 => es[1].type \notin {"started", "retry"}
    BY <2>1, <2>2
  <2> HIDE DEF es
  <2>5. CASE r.task = t /\ es[1].type = "retry"
    <3>1. attempt[t] \in Nat /\ Budget(t) \in Int /\ attempt[t] < Budget(t)
      BY <1>1, <2>1, <2>2, <2>5, AnnouncementsAssumption DEF BackendTypeOK, Budget
    <3> DEFINE n == attempt[t] + 1
    <3>2. n \in 1 .. 33
      BY <3>1 DEF DelaysFit
    <3>3. Waits(t)' = {<<n, RetryDelay(n)>>}
      <4>1. task'[t] = "backoff" /\ attempt'[t] = n
        BY <2>1, <2>2, <2>3, <2>5, <3>1
      <4> QED
        BY <4>1 DEF Waits
    <3>4. Told(es[1]) = {<<n, RetryDelaySeconds(Or(n, 1))>>}
      BY <2>2, <2>5 DEF Told
    <3> HIDE DEF n
    <3>5. Told(es[1]) = Waits(t)'
      BY <3>2, <3>3, <3>4, DelayAgrees
    <3> QED
      BY <1>1, <1>3, <2>1, <2>2, <2>4, <2>5, <3>5, SendTells DEF Tells
  <2>6. CASE r.task # t \/ es[1].type # "retry"
    <3>1. Waits(t)' = Waits(t)
      <4>1. CASE r.task # t
        BY <2>3, <4>1 DEF Waits
      <4>2. CASE r.task = t /\ es[1].type # "retry"
        <5>1. task[t] = "running" /\ task'[t] \in {"completed", "failed"}
          BY <2>1, <2>2, <2>3, <4>2
        <5> QED
          BY <5>1 DEF Waits
      <4> QED
        BY <2>6, <4>1, <4>2
    <3>2. \A k \in 1 .. Len(es) : ~Tells(es[k], t)
      BY <2>1, <2>2, <2>6 DEF Tells
    <3> QED
      BY <1>1, <1>3, <2>1, <2>2, <2>4, <3>1, <3>2, SendTells
  <2> QED
    BY <2>5, <2>6
<1>7. ASSUME NEW w \in Workers, EndsUnseen(w)
      PROVE  LastTold(t)'
  <2>1. /\ doing[w] \in Tasks /\ task[doing[w]] = "running" /\ UNCHANGED <<wire, phase, missed>>
        /\ Outcome(doing[w], "nothing")
    BY <1>1, <1>7 DEF EndsUnseen, BackendTypeOK, HandsExact, net
  <2>2. task' = [task EXCEPT ![doing[w]] = "dropped"] /\ UNCHANGED attempt
    BY <2>1 DEF Outcome
  <2>3. Waits(t)' = Waits(t)
    BY <1>1, <2>1, <2>2 DEF Waits, BackendTypeOK
  <2> QED
    BY <1>4, <2>1, <2>3
<1>8. ASSUME NEW u \in Tasks, BackoffEnds(u)
      PROVE  LastTold(t)'
  <2>1. /\ task[u] = "backoff" /\ task' = [task EXCEPT ![u] = "requeued"]
        /\ UNCHANGED <<wire, phase, missed, attempt>>
    BY <1>8 DEF BackoffEnds, net, ghosts
  <2>2. Waits(t)' = Waits(t)
    BY <1>1, <2>1 DEF Waits, BackendTypeOK
  <2> QED
    BY <1>4, <2>1, <2>2
<1>9. CASE Recover
  <2> DEFINE e == Event("submitted", None, None)
             f == Event("recover", None, None)
  <2>1. e \in Events /\ f \in Events /\ f.type = "recover"
    BY EventType DEF EventTypes
  <2>2. connected /\ wire' = wire \o <<e, f>>
    BY <1>9 DEF Recover
  <2> HIDE DEF e, f
  <2> DEFINE es == <<e, f>>
  <2>3. es \in Seq(Events) /\ Len(es) = 2 /\ es[2] = f /\ wire' = wire \o es
    BY <2>1, <2>2
  <2> HIDE DEF es
  <2>4. Len(wire') = Len(wire) + 2 /\ wire'[Len(wire')] = f
    <3>1. /\ Len(wire') = Len(wire) + Len(es)
          /\ \A k \in Len(wire) + 1 .. Len(wire') : wire'[k] = es[k - Len(wire)]
      BY <1>1, <2>3, WireGrows DEF BackendTypeOK
    <3>2. /\ Len(wire') \in Len(wire) + 1 .. Len(wire')
          /\ Len(wire') - Len(wire) = 2 /\ Len(wire') = Len(wire) + 2
      BY <1>2, <2>3, <3>1
    <3> QED
      BY <2>3, <3>1, <3>2
  <2>5. Waits(t)' = {}
    BY <1>9 DEF Recover, Waits
  <2>6. Tells(f, t) /\ Told(f) = {}
    BY <2>1 DEF Tells, Told
  <2> QED
    BY <1>2, <2>4, <2>5, <2>6 DEF LastTold
<1>10. CASE Disconnect
  <2>1. Cut /\ UNCHANGED <<task, attempt, phase>> /\ missed \subseteq missed'
    BY <1>10 DEF Disconnect, Cut, engine
  <2>2. PICK n \in 0 .. Len(wire) : wire' = SubSeq(wire, 1, n) /\ WireStep(n)
    BY <1>1, <1>10, CutStep DEF Disconnect
  <2>3. Len(wire') = n
    BY <1>1, <2>2, WireIsCut DEF BackendTypeOK
  <2>4. Waits(t)' = Waits(t)
    BY <2>1 DEF Waits
  <2> QED
    BY <1>1, <1>2, <1>3, <2>1, <2>2, <2>3, <2>4, ToldStays
<1>11. ASSUME NEW w \in Workers, NEW result \in {"completed", "failed"}, Report(w, result)
       PROVE  LastTold(t)'
  BY <1>4, <1>11 DEF Report, Waits, net, ghosts
<1>12. CASE Reconnect
  BY <1>4, <1>12 DEF Reconnect, Waits, engine, ghosts
<1>13. ~BeginCrash /\ ~EndCrash
  BY DEF BeginCrash, EndCrash
<1> QED
  BY <1>5, <1>6, <1>7, <1>8, <1>9, <1>10, <1>11, <1>12, <1>13 DEF BackendNext

(* The event that is heard becomes what has been heard.                       *)
LEMMA MessageTells ==
    ASSUME BackendInv, RetriesTold, wire # <<>>, wire' = Tail(wire),
           OnInternalsEvent(Head(wire)), UNCHANGED <<engine, ghosts>>
    PROVE  RetriesTold'
<1> DEFINE e == wire[1]
<1> SUFFICES ASSUME phase' = "up", NEW t \in Tasks, t \notin missed'
             PROVE  LastTold(t)'
  BY DEF RetriesTold
<1>1. /\ Len(wire) \in Nat \ {0} /\ Len(wire') = Len(wire) - 1 /\ Head(wire) = e
      /\ \A k \in 1 .. Len(wire') : wire'[k] = wire[k + 1]
  BY WireIsHeard DEF BackendInv, BackendTypeOK
<1>2. LastTold(t) /\ Waits(t)' = Waits(t)
  BY DEF RetriesTold, engine, ghosts, Waits
<1>3. retryTimers' = Timers(e)
  BY <1>1 DEF OnInternalsEvent
<1> HIDE DEF e
<1>4. Heard(t)' = IF Tells(e, t) THEN Told(e) ELSE Heard(t)
  <2> DEFINE Of(rs) == {q \in rs : q.task = t}
             Pairs(rs) == {<<r.attempt, r.delay>> : r \in rs}
  <2>1. Heard(t) = Pairs(Of(retryTimers)) /\ Heard(t)' = Pairs(Of(retryTimers'))
    BY DEF Heard
  <2>2. CASE e.type = "retry" /\ e.task = t
    <3>1. Of(retryTimers') = {Timer(e)}
      BY <1>3, <2>2 DEF Timers, OthersThan, Timer
    <3>2. Pairs({Timer(e)}) = {<<Timer(e).attempt, Timer(e).delay>>}
      OBVIOUS
    <3>3. Timer(e).attempt = e.retry /\ Timer(e).delay = RetryDelaySeconds(Or(e.retry, 1))
      BY DEF Timer
    <3> QED
      BY <2>1, <2>2, <3>1, <3>2, <3>3 DEF Tells, Told
  <2>3. CASE e.type = "retry" /\ e.task # t
    <3>1. Of(retryTimers') = Of(retryTimers)
      BY <1>3, <2>3 DEF Timers, OthersThan, Timer
    <3> QED
      BY <2>1, <2>3, <3>1 DEF Tells
  <2>4. CASE e.type = "started" /\ e.task = t
    <3>1. Of(retryTimers') = {}
      BY <1>3, <2>4 DEF Timers, OthersThan
    <3> QED
      BY <2>1, <2>4, <3>1 DEF Tells, Told
  <2>5. CASE e.type = "started" /\ e.task # t
    <3>1. Of(retryTimers') = Of(retryTimers)
      BY <1>3, <2>5 DEF Timers, OthersThan
    <3> QED
      BY <2>1, <2>5, <3>1 DEF Tells
  <2>6. CASE e.type \in {"crash", "recover"}
    <3>1. Of(retryTimers') = {}
      BY <1>3, <2>6 DEF Timers
    <3> QED
      BY <2>1, <2>6, <3>1 DEF Tells, Told
  <2>7. CASE e.type \notin {"retry", "started", "crash", "recover"}
    BY <1>3, <2>1, <2>7 DEF Timers, Tells
  <2> QED
    BY <2>2, <2>3, <2>4, <2>5, <2>6, <2>7
<1>5. CASE (\A k \in 1 .. Len(wire) : ~Tells(wire[k], t)) /\ Heard(t) = Waits(t)
  <2>1. \A k \in 1 .. Len(wire') : ~Tells(wire'[k], t)
    BY <1>1, <1>5
  <2>2. ~Tells(e, t)
    BY <1>1, <1>5 DEF e
  <2> QED
    BY <1>2, <1>4, <1>5, <2>1, <2>2 DEF LastTold
<1>6. ASSUME NEW k \in 1 .. Len(wire), Tells(wire[k], t), Told(wire[k]) = Waits(t),
             \A j \in k + 1 .. Len(wire) : ~Tells(wire[j], t)
      PROVE  LastTold(t)'
  <2>1. \A j \in k .. Len(wire') : ~Tells(wire'[j], t)
    BY <1>1, <1>6
  <2>2. CASE k = 1
    <3>1. Heard(t)' = Waits(t)'
      BY <1>2, <1>4, <1>6, <2>2 DEF e
    <3> QED
      BY <2>1, <2>2, <3>1 DEF LastTold
  <2>3. CASE k # 1
    <3>1. PICK m \in 1 .. Len(wire') : m + 1 = k
      BY <1>1, <2>3
    <3>2. wire'[m] = wire[k]
      BY <1>1, <3>1
    <3>3. Tells(wire'[m], t) /\ Told(wire'[m]) = Waits(t)'
      BY <1>2, <1>6, <3>2
    <3>4. \A j \in m + 1 .. Len(wire') : ~Tells(wire'[j], t)
      BY <2>1, <3>1
    <3> QED
      BY <3>3, <3>4 DEF LastTold
  <2> QED
    BY <2>2, <2>3
<1> QED
  BY <1>2, <1>5, <1>6 DEF LastTold

(* When everything sent has been heard, the timers shown are those of the     *)
(* tasks that wait for a retry, with their attempt and their delay: for every *)
(* task whose last start or retry the page could hear, if no budget lets the  *)
(* delay overflow. The overflow is in the code: the panel stops at 30 seconds *)
(* where the scheduler does not wait.                                         *)
THEOREM TimersExact == DelaysFit /\ Spec => []TimersAreBackoffs
<1>1. DelaysFit => DelaysFit'
  BY DEF DelaysFit, Budget
<1>2. Init => RetriesTold
  BY DEF Init, BackendInit, EventPanelsInit, RetriesTold, LastTold, Tells, Heard, Waits
<1>3. PanelsInv /\ DelaysFit /\ RetriesTold /\ [Next]_vars => RetriesTold'
  <2> SUFFICES ASSUME PanelsInv, DelaysFit, RetriesTold, [Next]_vars
               PROVE  RetriesTold'
    OBVIOUS
  <2>1. CASE BackendNext /\ UNCHANGED panels
    BY <2>1, BackendTells DEF PanelsInv, panels, eventPanels
  <2>2. CASE Message
    BY <2>2, MessageTells DEF Message, PanelsInv
  <2>3. ASSUME UNCHANGED <<backend, retryTimers>>
        PROVE  RetriesTold'
    BY <2>3 DEF RetriesTold, LastTold, Heard, Waits, backend, net, engine, ghosts
  <2>4. CASE ClickClear
    BY <2>3, <2>4 DEF ClickClear
  <2>5. ASSUME NEW w \in Slots, FadeTimer(w)
        PROVE  RetriesTold'
    BY <2>3, <2>5 DEF FadeTimer, eventPanels
  <2>6. CASE UNCHANGED vars
    BY <2>3, <2>6 DEF vars, panels, eventPanels
  <2> QED
    BY <2>1, <2>2, <2>4, <2>5, <2>6 DEF Next
<1>4. RetriesTold => TimersAreBackoffs
  <2> SUFFICES ASSUME RetriesTold, wire = <<>>, phase = "up", NEW t \in Tasks \ missed
               PROVE  Heard(t) = Waits(t)
    BY DEF TimersAreBackoffs, Heard, Waits
  <2>1. LastTold(t) /\ Len(wire) = 0
    BY DEF RetriesTold
  <2> QED
    BY <2>1 DEF LastTold
<1> QED
  BY <1>1, <1>2, <1>3, <1>4, PanelsInvariance, PTL DEF Spec
=============================================================================
