------------------------------ MODULE EngineProofs ------------------------------
(* What is proved of the engine, for every set of tasks, batches and workers. *)
(* First of one life, with any bound on failed appends: the order of          *)
(* dispatch, that nothing is lost, that failures have a cause, that settled   *)
(* tasks stay, that the counters are right, and that Engine implements        *)
(* Lifecycle. Then of the log, and how state and log agree. Last of all lives *)
(* together, with any number of crashes: what survives them.                  *)
EXTENDS EngineLifecycle, Recovery, FiniteSetTheorems, SequenceTheorems, TLAPS

USE DEF CounterOf, Terminal, Status

-----------------------------------------------------------------------------
(* Facts about the data                                                       *)

(* The unmet dependencies of a task are a finite set: their number, which     *)
(* handleIngest stores in inDegree, is a natural number.                      *)
LEMMA UnmetFinite ==
    ASSUME NEW t \in Tasks
    PROVE  /\ IsFiniteSet(Unmet(t))
           /\ Cardinality(Unmet(t)) \in Nat
<1>1. Unmet(t) \in SUBSET Tasks
  BY FieldsAssumption DEF Unmet
<1>2. IsFiniteSet(Unmet(t))
  BY <1>1, TasksAssumption, FS_Subset
<1> QED
  BY <1>2, FS_CardinalityType

(* A batch is a finite set of tasks.                                          *)
LEMMA BatchFinite ==
    ASSUME NEW b \in Batches
    PROVE  b \in SUBSET Tasks /\ IsFiniteSet(b) /\ Cardinality(b) \in Nat
<1>1. b \in SUBSET Tasks
  BY BatchesAssumption
<1>2. IsFiniteSet(b)
  BY <1>1, TasksAssumption, FS_Subset
<1> QED
  BY <1>1, <1>2, FS_CardinalityType

-----------------------------------------------------------------------------
(* Types                                                                      *)

(* The append operations keep the log well-typed (WAL.append).                *)
LEMMA AppendType ==
    ASSUME NEW r \in Record, WalTypeOK, AppendOk(r) \/ AppendError(r)
    PROVE  WalTypeOK'
BY WalAssumption DEF WalTypeOK, AppendOk, AppendError

(* Each case of the run loop keeps the scheduler's state well-typed; first    *)
(* handleIngest.                                                              *)
LEMMA IngestType ==
    ASSUME SchedulerTypeOK, NEW b \in Batches, HandleIngest(b) \/ RefuseIngest(b)
    PROVE  SchedulerTypeOK'
<1>1. CASE RefuseIngest(b)
  BY <1>1 DEF RefuseIngest, SchedulerTypeOK, schedVars
<1>2. CASE HandleIngest(b)
  <2> USE <1>2 DEF HandleIngest, SchedulerTypeOK
  <2>1. status' \in [Tasks -> Status]
    OBVIOUS
  <2>2. inDegree' \in [Tasks -> Int]
    BY UnmetFinite
  <2>3. dependents' \in [Tasks -> SUBSET Tasks]
    BY BatchFinite
  <2>4. readyQueue' \in [Tasks -> Nat]
    BY DEF Enqueued
  <2>5. metrics' \in [Counters -> Int]
    BY BatchFinite DEF Counters
  <2> QED
    BY <2>1, <2>2, <2>3, <2>4, <2>5
<1> QED
  BY <1>1, <1>2

(* The pop case keeps the types; the entry it takes is there to be taken.     *)
LEMMA PopType ==
    ASSUME SchedulerTypeOK, (\E t \in Tasks : PopReady(t)) \/ PopNothing
    PROVE  SchedulerTypeOK'
<1>1. CASE PopNothing
  BY <1>1 DEF PopNothing, SchedulerTypeOK
<1>2. ASSUME NEW t \in Tasks, PopReady(t)
      PROVE  SchedulerTypeOK'
  <2>1. readyQueue[t] > 0
    BY <1>2 DEF PopReady, ReadyEntries
  <2>2. readyQueue' \in [Tasks -> Nat]
    BY <1>2, <2>1 DEF PopReady, SchedulerTypeOK
  <2> QED
    BY <1>2, <2>2 DEF PopReady, SchedulerTypeOK, Moved, Counters
<1> QED
  BY <1>1, <1>2

(* handleComplete for a task the map holds keeps the types.                   *)
LEMMA CompleteType ==
    ASSUME SchedulerTypeOK, NEW t \in Tasks, status[t] # "absent", CompleteAndRelease(t)
    PROVE  SchedulerTypeOK'
<1> USE DEF CompleteAndRelease, SchedulerTypeOK
<1>1. readyQueue' \in [Tasks -> Nat]
  BY DEF Enqueued
<1>2. metrics' \in [Counters -> Int]
  BY DEF Moved, Counters
<1>3. status' \in [Tasks -> Status] /\ inDegree' \in [Tasks -> Int]
  OBVIOUS
<1> QED
  BY <1>1, <1>2, <1>3

(* transitionToFailed keeps the types of what it assigns.                     *)
LEMMA FailType ==
    ASSUME SchedulerTypeOK, NEW t \in Tasks, status[t] # "absent", TransitionToFailed(t)
    PROVE  /\ status' \in [Tasks -> Status]
           /\ cancelled' \subseteq Tasks
           /\ metrics' \in [Counters -> Int]
BY DEF TransitionToFailed, SchedulerTypeOK, Moved, Counters

(* handleFailure keeps the types, with a retry and without.                   *)
LEMMA FailureType ==
    ASSUME SchedulerTypeOK, NEW t \in Tasks, HandleFailure(t)
    PROVE  SchedulerTypeOK'
<1>1. CASE status[t] # "running"
  BY <1>1 DEF HandleFailure, SchedulerTypeOK, schedVars
<1>2. CASE status[t] = "running" /\ Retry(t)
  BY <1>2 DEF Retry, SchedulerTypeOK, Moved, Counters
<1>3. CASE status[t] = "running" /\ FailForGood(t)
  <2>1. TransitionToFailed(t)
    BY <1>3 DEF FailForGood
  <2> QED
    BY <1>3, <2>1, FailType DEF FailForGood, SchedulerTypeOK
<1> QED
  BY <1>1, <1>2, <1>3 DEF HandleFailure

(* A round of propagateFailure keeps the types of the state and of the log.   *)
LEMMA PropagateType ==
    ASSUME SchedulerTypeOK, WalTypeOK, NEW t \in Tasks, status[t] # "absent",
           PropagateFailure(t)
    PROVE  SchedulerTypeOK' /\ WalTypeOK'
<1>1. CASE status[t] \in Terminal
  BY <1>1 DEF PropagateFailure, SchedulerTypeOK, WalTypeOK, walVars
<1>2. CASE status[t] \notin Terminal
  <2>1. TransitionToFailed(t) /\ AppendIgnoringErrors(CascadeRecord(t))
    BY <1>2 DEF PropagateFailure
  <2>2. CascadeRecord(t) \in Record
    BY DEF CascadeRecord, Record
  <2>3. WalTypeOK'
    BY <2>1, <2>2, AppendType DEF AppendIgnoringErrors
  <2> QED
    BY <1>2, <2>1, <2>3, FailType DEF PropagateFailure, SchedulerTypeOK
<1> QED
  BY <1>1, <1>2

(* handleRetryEnqueue keeps the types; the timer it takes is there to be      *)
(* taken.                                                                     *)
LEMMA RetryEnqueueType ==
    ASSUME SchedulerTypeOK, NEW t \in Tasks, HandleRetryEnqueue(t)
    PROVE  SchedulerTypeOK'
<1> USE DEF HandleRetryEnqueue, SchedulerTypeOK
<1>1. readyQueue' \in [Tasks -> Nat]
  BY DEF Enqueued
<1>2. retryTimers' \in [Tasks -> Nat]
  OBVIOUS
<1>3. status' \in [Tasks -> Status]
  OBVIOUS
<1> QED
  BY <1>1, <1>2, <1>3

-----------------------------------------------------------------------------

(* The initial state is well-typed.                                           *)
LEMMA InitType == Init => TypeOK
<1> SUFFICES ASSUME Init
             PROVE  TypeOK
  OBVIOUS
<1> USE DEF Init
<1>1. WalTypeOK
  BY WalAssumption DEF WalInit, WalTypeOK
<1>2. SchedulerTypeOK
  BY FieldsAssumption DEF SchedulerInit, SchedulerTypeOK
<1>3. EngineTypeOK
  BY DEF EngineTypeOK, SubmissionState, WorkerState
<1> QED
  BY <1>1, <1>2, <1>3 DEF TypeOK

-----------------------------------------------------------------------------
(* The run loop keeps CoreInv: one lemma for each of its cases                *)

(* As long as no task completes, the unmet dependencies stay what they are.   *)
LEMMA UnmetStays ==
    ASSUME SchedulerTypeOK,
           \A d \in Tasks : status'[d] = "completed" <=> status[d] = "completed"
    PROVE  \A t \in Tasks : Unmet(t)' = Unmet(t)
BY FieldsAssumption DEF Unmet

(* A ready, running or completed task waits for nothing, and nothing in the   *)
(* worklist of a cascade is ready, running or completed.                      *)
LEMMA CascadeFacts ==
    ASSUME SchedulerTypeOK, CoreInv, NEW t \in cascade
    PROVE  t \in Tasks /\ status[t] \in {"pending", "failed"} /\ Unmet(t) # {}
<1>1. t \in Tasks /\ status[t] # "absent"
  BY DEF SchedulerTypeOK, CoreInv, CascadeCaused, Present
<1>2. PICK d \in Dependencies[t] : status[d] = "failed"
  BY DEF CoreInv, CascadeCaused
<1>3. d \in Unmet(t)
  BY <1>2 DEF Unmet
<1> QED
  BY <1>1, <1>3 DEF CoreInv, DepsRespected, SchedulerTypeOK

(* Between two cases of the run loop the worklist is empty, and stays so.     *)
LEMMA NoCascade == cascade' = {} => CascadeCaused'
BY DEF CascadeCaused

(* handleIngest                                                               *)
LEMMA IngestKeeps ==
    ASSUME SchedulerTypeOK, CoreInv, NEW b \in Batches, HandleIngest(b)
    PROVE  CoreInv'
<1> USE DEF CoreInv
<1>0. b \subseteq Tasks /\ \A t \in b : Dependencies[t] \subseteq b
  BY BatchesAssumption
<1>1. \A t \in b : status[t] = "absent"
  BY <1>0 DEF HandleIngest, Admissible, Present
<1>2. \A t \in Tasks : status'[t] = IF t \in b THEN IF Unmet(t) = {} THEN "ready" ELSE "pending"
                                    ELSE status[t]
  BY <1>0 DEF HandleIngest
<1>3. \A t \in Tasks : Unmet(t)' = Unmet(t)
  BY <1>1, <1>2, UnmetStays
<1>4. \A t \in b : Unmet(t) = Dependencies[t]
  BY <1>0, <1>1 DEF Unmet
<1>5. Present' = Present \cup b
  BY <1>0, <1>2 DEF Present
<1>6. GraphExact'
  <2>1. \A t \in Present' : Dependencies[t] \subseteq Present'
    BY <1>0, <1>5 DEF GraphExact
  <2>2. ASSUME NEW d \in Tasks
        PROVE  dependents'[d] = {t \in Present' : d \in Dependencies[t]}
    <3>1. dependents'[d] = dependents[d] \cup {t \in b : d \in Unmet(t)}
      BY DEF HandleIngest
    <3> QED
      BY <3>1, <1>4, <1>5 DEF GraphExact
  <2> QED
    BY <2>1, <2>2 DEF GraphExact
<1>7. DegreeExact'
  <2>1. \A t \in Tasks : inDegree'[t] = IF t \in b THEN Cardinality(Unmet(t)) ELSE inDegree[t]
    BY DEF HandleIngest
  <2>2. Present' \subseteq Tasks
    BY DEF Present
  <2>3. \A t \in Present' : inDegree'[t] = Cardinality(Unmet(t))
    BY <1>5, <2>1, <2>2 DEF DegreeExact
  <2> QED
    BY <2>2, <2>3, <1>3 DEF DegreeExact
<1>8. DepsRespected'
  BY <1>2, <1>3 DEF DepsRespected
<1>9. QueueCovers'
  <2>1. \A t \in Tasks : readyQueue'[t] = readyQueue[t] + IF t \in b /\ Unmet(t) = {} THEN 1 ELSE 0
    BY DEF HandleIngest, Enqueued
  <2> QED
    BY <1>1, <1>2, <2>1 DEF QueueCovers, SchedulerTypeOK
<1>10. TimersExact'
  <2>1. retryTimers' = retryTimers
    BY DEF HandleIngest
  <2> QED
    BY <1>1, <1>2, <1>3, <2>1 DEF TimersExact
<1>11. CancelledExact'
  BY <1>1, <1>2 DEF CancelledExact, HandleIngest
<1>12. CascadeCaused'
  BY NoCascade DEF HandleIngest
<1> QED
  BY <1>6, <1>7, <1>8, <1>9, <1>10, <1>11, <1>12

(* Less orders the tasks: two entries of the heap cannot precede each other.  *)
LEMMA LessAsymmetric ==
    ASSUME NEW t \in Tasks, NEW u \in Tasks, Less(t, u)
    PROVE  ~Less(u, t)
<1>1. Priority[t] \in Int /\ Priority[u] \in Int /\ t \in Nat /\ u \in Nat
  BY TasksAssumption, FieldsAssumption
<1> QED
  BY <1>1 DEF Less

(* What the pop case drops from the heap is outdated: no entry of another     *)
(* ready task.                                                                *)
LEMMA PopSpares ==
    ASSUME SchedulerTypeOK, QueueCovers, NEW t \in Tasks, PopReady(t),
           NEW u \in Tasks, u # t, status[u] = "ready"
    PROVE  readyQueue'[u] = readyQueue[u]
<1>1. u \in ReadyEntries
  BY DEF ReadyEntries, QueueCovers
<1>2. Less(t, u)
  BY <1>1 DEF PopReady
<1> QED
  BY <1>2, LessAsymmetric DEF PopReady

(* A task that neither completes nor has completed changes its status, and    *)
(* nothing else in the graph does: what most handlers have in common.         *)
LEMMA OneStatusChanges ==
    ASSUME SchedulerTypeOK, CoreInv, NEW t \in Tasks, NEW s \in Status,
           status[t] \notin {"absent", "completed"}, s \notin {"absent", "completed"},
           status' = [status EXCEPT ![t] = s],
           UNCHANGED <<inDegree, dependents>>
    PROVE  /\ \A u \in Tasks : status'[u] = IF u = t THEN s ELSE status[u]
           /\ \A u \in Tasks : Unmet(u)' = Unmet(u)
           /\ Present' = Present
           /\ GraphExact'
           /\ DegreeExact'
           /\ Unmet(t) = {} \/ s \in {"pending", "failed"} => DepsRespected'
<1> USE DEF CoreInv
<1>1. \A u \in Tasks : status'[u] = IF u = t THEN s ELSE status[u]
  BY DEF SchedulerTypeOK
<1>2. \A u \in Tasks : Unmet(u)' = Unmet(u)
  BY <1>1, UnmetStays
<1>3. Present' = Present
  BY <1>1 DEF Present
<1>4. GraphExact'
  BY <1>3 DEF GraphExact
<1>5. DegreeExact'
  BY <1>2, <1>3 DEF DegreeExact, Present
<1>6. Unmet(t) = {} \/ s \in {"pending", "failed"} => DepsRespected'
  BY <1>1, <1>2 DEF DepsRespected
<1> QED
  BY <1>1, <1>2, <1>3, <1>4, <1>5, <1>6

(* The pop case                                                               *)
LEMMA PopKeeps ==
    ASSUME SchedulerTypeOK, CoreInv, NEW t \in Tasks, PopReady(t)
    PROVE  CoreInv'
<1> USE DEF CoreInv
<1>0. /\ status[t] = "ready" /\ cascade' = {}
      /\ status' = [status EXCEPT ![t] = "running"]
      /\ UNCHANGED <<cancelled, inDegree, dependents, retryTimers>>
  BY DEF PopReady, ReadyEntries
<1>1. Unmet(t) = {}
  BY <1>0 DEF DepsRespected
<1>2. /\ \A u \in Tasks : status'[u] = IF u = t THEN "running" ELSE status[u]
      /\ \A u \in Tasks : Unmet(u)' = Unmet(u)
      /\ GraphExact' /\ DegreeExact' /\ DepsRespected'
  BY <1>0, <1>1, OneStatusChanges
<1>3. QueueCovers'
  BY <1>2, PopSpares DEF QueueCovers
<1>4. TimersExact' /\ CancelledExact'
  BY <1>0, <1>2 DEF TimersExact, CancelledExact
<1> QED
  BY <1>0, <1>2, <1>3, <1>4, NoCascade

(* The pop case with a nil answer: no task is ready, and only outdated        *)
(* entries leave the heap.                                                    *)
LEMMA PopNothingKeeps ==
    ASSUME SchedulerTypeOK, CoreInv, PopNothing
    PROVE  CoreInv'
<1> USE DEF CoreInv
<1>1. UNCHANGED <<status, cancelled, inDegree, dependents, retryTimers, cascade>>
  BY DEF PopNothing
<1>2. Present' = Present /\ \A t : Unmet(t)' = Unmet(t)
  BY <1>1 DEF Present, Unmet
<1>3. \A t \in Tasks : status[t] # "ready"
  BY DEF PopNothing, ReadyEntries, QueueCovers
<1> QED
  BY <1>1, <1>2, <1>3 DEF GraphExact, DegreeExact, DepsRespected, QueueCovers, TimersExact,
                          CancelledExact, CascadeCaused

(* The dependents that handleComplete releases wait for the completed task    *)
(* and for nothing else: the countdown of inDegree reaches zero for exactly   *)
(* those.                                                                     *)
LEMMA ReleaseFacts ==
    ASSUME SchedulerTypeOK, CoreInv, NEW c \in Tasks, status[c] = "running",
           CompleteAndRelease(c)
    PROVE  \E freed \in SUBSET dependents[c] :
              /\ \A t \in freed : /\ t \in Tasks /\ t # c
                                  /\ status[t] = "pending" /\ Unmet(t) = {c}
              /\ \A t \in dependents[c] \ freed : status[t] = "pending" => Unmet(t) # {c}
              /\ \A t \in Tasks : status'[t] = IF t \in freed THEN "ready"
                                               ELSE IF t = c THEN "completed" ELSE status[t]
              /\ \A t \in Tasks : readyQueue'[t] = readyQueue[t] + IF t \in freed THEN 1 ELSE 0
<1> USE DEF CoreInv
<1> DEFINE done == [status EXCEPT ![c] = "completed"]
           freed == {d \in dependents[c] : inDegree[d] = 1 /\ done[d] \notin Terminal}
<1>0. /\ status' = [d \in Tasks |-> IF d \in freed THEN "ready" ELSE done[d]]
      /\ readyQueue' = Enqueued(freed)
  BY DEF CompleteAndRelease
<1>1. \A t \in dependents[c] : t \in Tasks /\ t \in Present /\ c \in Unmet(t)
  BY DEF GraphExact, Unmet, Present
<1>2. c \notin dependents[c]
  BY <1>1 DEF DepsRespected
<1>3. ASSUME NEW t \in freed
      PROVE  t \in Tasks /\ t # c /\ status[t] = "pending" /\ Unmet(t) = {c}
  <2>1. t \in Tasks /\ t \in Present /\ c \in Unmet(t) /\ t # c
    BY <1>1, <1>2
  <2>2. Cardinality(Unmet(t)) = 1
    BY <2>1 DEF DegreeExact
  <2>3. PICK x : Unmet(t) = {x}
    BY <2>1, <2>2, UnmetFinite, FS_Singleton
  <2>4. status[t] \notin {"ready", "running", "completed", "failed", "absent"}
    BY <2>1 DEF DepsRespected, Present, SchedulerTypeOK
  <2> QED
    BY <2>1, <2>3, <2>4 DEF SchedulerTypeOK
<1>4. ASSUME NEW t \in dependents[c] \ freed, status[t] = "pending", Unmet(t) = {c}
      PROVE  FALSE
  <2>1. t \in Tasks /\ t \in Present /\ t # c
    BY <1>1, <1>2
  <2>2. inDegree[t] # 1
    BY <1>4, <2>1 DEF SchedulerTypeOK
  <2>3. Cardinality(Unmet(t)) = 1
    BY <1>4, FS_Singleton
  <2> QED
    BY <2>1, <2>2, <2>3 DEF DegreeExact
<1>5. \A t \in Tasks : status'[t] = IF t \in freed THEN "ready"
                                   ELSE IF t = c THEN "completed" ELSE status[t]
  BY <1>0 DEF SchedulerTypeOK
<1>6. \A t \in Tasks : readyQueue'[t] = readyQueue[t] + IF t \in freed THEN 1 ELSE 0
  BY <1>0 DEF Enqueued
<1>7. freed \in SUBSET dependents[c]
  OBVIOUS
<1> QED
  BY <1>3, <1>4, <1>5, <1>6, <1>7

(* handleComplete for a running task                                          *)
LEMMA CompleteKeeps ==
    ASSUME SchedulerTypeOK, CoreInv, NEW c \in Tasks, status[c] = "running",
           cascade = {}, CompleteAndRelease(c)
    PROVE  CoreInv'
<1> USE DEF CoreInv
<1>0. UNCHANGED <<cancelled, dependents, retryTimers, cascade>>
  BY DEF CompleteAndRelease
<1>1. PICK freed \in SUBSET dependents[c] :
        /\ \A t \in freed : t \in Tasks /\ t # c /\ status[t] = "pending" /\ Unmet(t) = {c}
        /\ \A t \in dependents[c] \ freed : status[t] = "pending" => Unmet(t) # {c}
        /\ \A t \in Tasks : status'[t] = IF t \in freed THEN "ready"
                                         ELSE IF t = c THEN "completed" ELSE status[t]
        /\ \A t \in Tasks : readyQueue'[t] = readyQueue[t] + IF t \in freed THEN 1 ELSE 0
  BY ReleaseFacts
<1>2. dependents[c] = {t \in Present : c \in Dependencies[t]} /\ Unmet(c) = {}
  BY DEF GraphExact, DepsRespected
<1>3. \A t \in Tasks : Unmet(t)' = Unmet(t) \ {c}
  BY <1>1, FieldsAssumption DEF Unmet
<1>4. Present' = Present
  BY <1>1 DEF Present
<1>5. GraphExact'
  BY <1>0, <1>4 DEF GraphExact
<1>6. DegreeExact'
  <2>1. ASSUME NEW t \in Present
        PROVE  inDegree'[t] = Cardinality(Unmet(t)')
    <3>1. t \in Tasks /\ inDegree[t] = Cardinality(Unmet(t))
      BY DEF Present, DegreeExact
    <3>2. Cardinality(Unmet(t) \ {c}) = IF c \in Unmet(t) THEN Cardinality(Unmet(t)) - 1
                                                         ELSE Cardinality(Unmet(t))
      BY <3>1, UnmetFinite, FS_RemoveElement
    <3>3. c \in Unmet(t) <=> t \in dependents[c]
      BY <1>2 DEF Unmet
    <3>4. Cardinality(Unmet(t)') = Cardinality(Unmet(t) \ {c})
      BY <1>3, <3>1
    <3>5. inDegree'[t] = inDegree[t] - IF t \in dependents[c] THEN 1 ELSE 0
      BY <3>1 DEF CompleteAndRelease
    <3>6. Cardinality(Unmet(t)) \in Nat
      BY <3>1, UnmetFinite
    <3> QED
      BY <3>1, <3>2, <3>3, <3>4, <3>5, <3>6
  <2> QED
    BY <1>4, <2>1 DEF DegreeExact
<1>7. DepsRespected'
  BY <1>1, <1>2, <1>3 DEF DepsRespected
<1>8. QueueCovers'
  BY <1>1 DEF QueueCovers, SchedulerTypeOK
<1>9. TimersExact'
  <2>1. ASSUME NEW t \in Tasks, status[t] = "pending", t \notin freed, c \in Unmet(t)
        PROVE  Unmet(t) \ {c} # {}
    <3>1. t \in dependents[c]
      BY <1>2, <2>1 DEF Present, Unmet
    <3> QED
      BY <1>1, <2>1, <3>1
  <2> QED
    BY <1>0, <1>1, <1>2, <1>3, <2>1 DEF TimersExact
<1>10. CancelledExact'
  BY <1>0, <1>1 DEF CancelledExact
<1> QED
  BY <1>0, <1>5, <1>6, <1>7, <1>8, <1>9, <1>10, NoCascade

(* handleFailure with budget left                                             *)
LEMMA RetryKeeps ==
    ASSUME SchedulerTypeOK, CoreInv, NEW t \in Tasks, status[t] = "running",
           cascade = {}, Retry(t)
    PROVE  CoreInv'
<1> USE DEF CoreInv
<1>0. /\ status' = [status EXCEPT ![t] = "pending"]
      /\ UNCHANGED <<cancelled, inDegree, dependents, readyQueue>> /\ cascade' = {}
  BY DEF Retry
<1>1. /\ \A u \in Tasks : status'[u] = IF u = t THEN "pending" ELSE status[u]
      /\ \A u \in Tasks : Unmet(u)' = Unmet(u)
      /\ GraphExact' /\ DegreeExact' /\ DepsRespected'
  BY <1>0, OneStatusChanges
<1>2. Unmet(t) = {}
  BY DEF DepsRespected
<1>3. QueueCovers' /\ CancelledExact'
  BY <1>0, <1>1 DEF QueueCovers, CancelledExact
<1>4. TimersExact'
  <2>1. \A u \in Tasks : retryTimers'[u] = IF u = t THEN retryTimers[u] + 1 ELSE retryTimers[u]
    BY DEF Retry, SchedulerTypeOK
  <2> QED
    BY <1>1, <1>2, <2>1 DEF TimersExact
<1> QED
  BY <1>0, <1>1, <1>3, <1>4, NoCascade

(* handleRetryEnqueue                                                         *)
LEMMA RetryEnqueueKeeps ==
    ASSUME SchedulerTypeOK, CoreInv, NEW t \in Tasks, HandleRetryEnqueue(t)
    PROVE  CoreInv'
<1> USE DEF CoreInv
<1>1. status[t] = "pending" /\ Unmet(t) = {} /\ cascade' = {}
  BY DEF HandleRetryEnqueue, TimersExact
<1>2. /\ status' = [status EXCEPT ![t] = "ready"]
      /\ UNCHANGED <<cancelled, inDegree, dependents>>
  BY <1>1 DEF HandleRetryEnqueue
<1>3. /\ \A u \in Tasks : status'[u] = IF u = t THEN "ready" ELSE status[u]
      /\ \A u \in Tasks : Unmet(u)' = Unmet(u)
      /\ GraphExact' /\ DegreeExact' /\ DepsRespected'
  BY <1>1, <1>2, OneStatusChanges
<1>4. QueueCovers'
  <2>1. \A u \in Tasks : readyQueue'[u] = readyQueue[u] + IF u = t THEN 1 ELSE 0
    BY <1>1 DEF HandleRetryEnqueue, Enqueued
  <2> QED
    BY <1>1, <1>3, <2>1 DEF QueueCovers, SchedulerTypeOK
<1>5. TimersExact'
  <2>1. \A u \in Tasks : retryTimers'[u] = IF u = t THEN retryTimers[u] - 1 ELSE retryTimers[u]
    BY DEF HandleRetryEnqueue, SchedulerTypeOK
  <2> QED
    BY <1>1, <1>3, <2>1 DEF TimersExact
<1>6. CancelledExact'
  BY <1>1, <1>2, <1>3 DEF CancelledExact
<1> QED
  BY <1>1, <1>3, <1>4, <1>5, <1>6, NoCascade

(* transitionToFailed for a task without a timer, when at most its dependents *)
(* enter the worklist: the root and the later rounds of a cascade, and the    *)
(* records of failures in a replay.                                           *)
LEMMA FailKeeps ==
    ASSUME SchedulerTypeOK, CoreInv, NEW t \in Tasks,
           status[t] \in {"pending", "ready", "running"},
           status[t] = "pending" => Unmet(t) # {},
           TransitionToFailed(t), cascade' \subseteq cascade \cup dependents[t],
           UNCHANGED <<inDegree, dependents, readyQueue, retryTimers>>
    PROVE  CoreInv'
<1> USE DEF CoreInv
<1>0. status' = [status EXCEPT ![t] = "failed"] /\ cancelled' = cancelled \cup {t}
  BY DEF TransitionToFailed
<1>1. /\ \A u \in Tasks : status'[u] = IF u = t THEN "failed" ELSE status[u]
      /\ \A u \in Tasks : Unmet(u)' = Unmet(u)
      /\ Present' = Present
      /\ GraphExact' /\ DegreeExact' /\ DepsRespected'
  BY <1>0, OneStatusChanges
<1>2. QueueCovers' /\ TimersExact'
  BY <1>1 DEF QueueCovers, TimersExact
<1>3. CancelledExact'
  BY <1>0, <1>1 DEF CancelledExact
<1>4. CascadeCaused'
  <2>1. dependents[t] = {u \in Present : t \in Dependencies[u]}
    BY DEF GraphExact
  <2>2. ASSUME NEW u \in cascade'
        PROVE  u \in Present' /\ \E d \in Dependencies[u] : status'[d] = "failed"
    <3>1. CASE u \in dependents[t]
      BY <1>1, <2>1, <3>1
    <3>2. CASE u \in cascade
      <4>1. u \in Present /\ \E d \in Dependencies[u] : status[d] = "failed"
        BY <3>2 DEF CascadeCaused
      <4> QED
        BY <1>1, <4>1, FieldsAssumption DEF Present
    <3> QED
      BY <2>2, <3>1, <3>2
  <2> QED
    BY <2>2 DEF CascadeCaused
<1> QED
  BY <1>1, <1>2, <1>3, <1>4

(* handleFailure at the end of the budget                                     *)
LEMMA FailForGoodKeeps ==
    ASSUME SchedulerTypeOK, CoreInv, NEW t \in Tasks, status[t] = "running",
           cascade = {}, FailForGood(t)
    PROVE  CoreInv'
BY FailKeeps DEF FailForGood

(* A round of propagateFailure                                                *)
LEMMA PropagateKeeps ==
    ASSUME SchedulerTypeOK, CoreInv, NEW t \in Tasks, PropagateFailure(t)
    PROVE  CoreInv'
<1>0. t \in cascade /\ status[t] \in {"pending", "failed"} /\ Unmet(t) # {}
  BY CascadeFacts DEF PropagateFailure
<1>1. CASE status[t] = "failed"
  <2>1. /\ cascade' = cascade \ {t}
        /\ UNCHANGED <<status, cancelled, inDegree, dependents, readyQueue, retryTimers>>
    BY <1>1 DEF PropagateFailure
  <2>2. Present' = Present /\ \A u : Unmet(u)' = Unmet(u)
    BY <2>1 DEF Present, Unmet
  <2> QED
    BY <2>1, <2>2 DEF CoreInv, GraphExact, DegreeExact, DepsRespected, QueueCovers,
                      TimersExact, CancelledExact, CascadeCaused
<1>2. CASE status[t] = "pending"
  BY <1>0, <1>2, FailKeeps DEF PropagateFailure
<1> QED
  BY <1>0, <1>1, <1>2

(* A step that leaves the run loop's state alone keeps CoreInv.               *)
LEMMA SchedStays == CoreInv /\ UNCHANGED schedVars => CoreInv'
<1> SUFFICES ASSUME CoreInv, UNCHANGED schedVars
             PROVE  CoreInv'
  OBVIOUS
<1>1. Present' = Present /\ \A t : Unmet(t)' = Unmet(t)
  BY DEF schedVars, Present, Unmet
<1> QED
  BY <1>1 DEF CoreInv, schedVars, GraphExact, DegreeExact, DepsRespected, QueueCovers,
              TimersExact, CancelledExact, CascadeCaused

-----------------------------------------------------------------------------
(* The goroutines keep track of the tasks they hold                           *)

(* What the worker loop can rely on between taking a task and returning.      *)
LEMMA HolderFacts ==
    ASSUME LiveInv, NEW w \in Workers, pc[w] # "idle"
    PROVE  /\ holding[w] \in Tasks
           /\ status[holding[w]] = "running"
           /\ holding[w] \notin cancelled
<1>1. holding[w] \in Tasks
  BY DEF LiveInv, HoldingExact, TypeOK, EngineTypeOK
<1>2. holding[w] \in Held
  BY <1>1 DEF Held
<1> QED
  BY <1>1, <1>2 DEF LiveInv, SingleHolder, CoreInv, CancelledExact

(* Nothing changes hands and every running task keeps running.                *)
LEMMA HandsStay ==
    ASSUME HoldingExact, SingleHolder, UNCHANGED <<pushed, pc, holding>>,
           \A t \in Tasks : status[t] = "running" => status'[t] = "running"
    PROVE  HoldingExact' /\ SingleHolder'
BY DEF HoldingExact, SingleHolder, Held

(* A worker goes on to another place of its loop body with the same task.     *)
LEMMA GoToKeepsHands ==
    ASSUME HoldingExact, SingleHolder, EngineTypeOK, NEW w \in Workers, NEW label,
           pc[w] # "idle", label # "idle", GoTo(w, label), UNCHANGED <<pushed, status>>
    PROVE  HoldingExact' /\ SingleHolder'
<1>1. \A v \in Workers : pc'[v] = (IF v = w THEN label ELSE pc[v]) /\ holding'[v] = holding[v]
  BY DEF GoTo, EngineTypeOK
<1> QED
  BY <1>1 DEF HoldingExact, SingleHolder, Held

(* A worker returns to the top of its loop; only its task stops running.      *)
LEMMA ReturnKeepsHands ==
    ASSUME HoldingExact, SingleHolder, EngineTypeOK, NEW w \in Workers,
           Return(w), UNCHANGED pushed, holding[w] # NoTask,
           \A t \in Tasks : status[t] = "running" /\ t # holding[w] => status'[t] = "running"
    PROVE  HoldingExact' /\ SingleHolder'
<1>1. \A v \in Workers : /\ pc'[v] = IF v = w THEN "idle" ELSE pc[v]
                         /\ holding'[v] = IF v = w THEN NoTask ELSE holding[v]
  BY DEF Return, EngineTypeOK
<1>2. HoldingExact'
  BY <1>1 DEF HoldingExact
<1>3. \A t \in Held' : t \in Held /\ t # holding[w]
  BY <1>1, TasksAssumption DEF Held, SingleHolder
<1>4. \A t \in Held' : status'[t] = "running"
  BY <1>3 DEF SingleHolder, Held
<1> QED
  BY <1>1, <1>2, <1>4 DEF SingleHolder

-----------------------------------------------------------------------------
(* The invariant                                                              *)

(* NewScheduler and the idle goroutines satisfy LiveInv.                      *)
LEMMA InitLive == Init => LiveInv
<1> SUFFICES ASSUME Init
             PROVE  LiveInv
  OBVIOUS
<1>1. TypeOK
  BY InitType
<1>2. \A t \in Tasks : status[t] = "absent"
  BY DEF Init, SchedulerInit
<1>3. Present = {}
  BY <1>2 DEF Present
<1>4. CoreInv
  BY <1>2, <1>3 DEF Init, SchedulerInit, CoreInv, GraphExact, DegreeExact, DepsRespected,
                    QueueCovers, TimersExact, CancelledExact, CascadeCaused
<1>5. HoldingExact /\ SingleHolder
  BY TasksAssumption DEF Init, HoldingExact, SingleHolder, Held
<1> QED
  BY <1>1, <1>4, <1>5 DEF LiveInv

(* The request handler                                                        *)
LEMMA PersistKeeps ==
    ASSUME LiveInv, NEW b \in Batches, Persist(b)
    PROVE  LiveInv'
<1> USE DEF LiveInv, TypeOK
<1>1. IngestRecord(b) \in Record
  BY DEF IngestRecord, Record
<1>2. WalTypeOK'
  BY <1>1, AppendType DEF Persist
<1>3. SchedulerTypeOK' /\ CoreInv'
  BY SchedStays DEF Persist, schedVars, SchedulerTypeOK
<1>4. EngineTypeOK'
  BY DEF Persist, EngineTypeOK, SubmissionState
<1>5. HoldingExact' /\ SingleHolder'
  BY HandsStay DEF Persist, schedVars
<1> QED
  BY <1>2, <1>3, <1>4, <1>5

(* Ingest meets the run loop on ingestChan: the batch is admitted or refused. *)
LEMMA IngestStepKeeps ==
    ASSUME LiveInv, NEW b \in Batches, Ingest(b)
    PROVE  LiveInv'
<1> USE DEF LiveInv, TypeOK
<1>1. HandleIngest(b) \/ RefuseIngest(b)
  BY DEF Ingest
<1>2. SchedulerTypeOK'
  BY <1>1, IngestType
<1>3. CoreInv'
  BY <1>1, IngestKeeps, SchedStays DEF RefuseIngest
<1>4. EngineTypeOK' /\ WalTypeOK'
  BY DEF Ingest, EngineTypeOK, SubmissionState, walVars, WalTypeOK
<1>5. \A t \in Tasks : status[t] = "running" => status'[t] = "running"
  <2>1. CASE HandleIngest(b)
    BY <2>1 DEF HandleIngest, Admissible, Present
  <2>2. CASE RefuseIngest(b)
    BY <2>2 DEF RefuseIngest, schedVars
  <2> QED
    BY <1>1, <2>1, <2>2
<1>6. HoldingExact' /\ SingleHolder'
  BY <1>5, HandsStay DEF Ingest
<1> QED
  BY <1>2, <1>3, <1>4, <1>6

(* The dispatch loop                                                          *)
LEMMA PopStepKeeps ==
    ASSUME LiveInv, Pop
    PROVE  LiveInv'
<1> USE DEF LiveInv, TypeOK
<1>0. WalTypeOK' /\ UNCHANGED <<submission, pc, holding>>
  BY DEF Pop, walVars, WalTypeOK
<1>1. ASSUME NEW t \in Tasks, PopReady(t), pushed' = t
      PROVE  LiveInv'
  <2>1. SchedulerTypeOK' /\ CoreInv'
    BY <1>1, PopType, PopKeeps
  <2>2. EngineTypeOK' /\ HoldingExact'
    BY <1>0, <1>1 DEF EngineTypeOK, HoldingExact
  <2>3. /\ status[t] = "ready"
        /\ \A u \in Tasks : status'[u] = IF u = t THEN "running" ELSE status[u]
    BY <1>1 DEF PopReady, ReadyEntries, SchedulerTypeOK
  <2>4. t \notin Held
    BY <2>3 DEF SingleHolder
  <2>5. SingleHolder'
    <3>1. \A u \in Held' : u = t \/ u \in Held
      BY <1>0, <1>1 DEF Held
    <3>2. \A u \in Held' : status'[u] = "running"
      BY <3>1, <2>3 DEF SingleHolder, Held
    <3>3. \A w \in Workers : holding'[w] # t
      BY <1>0, <2>4 DEF Held
    <3> QED
      BY <1>0, <1>1, <3>2, <3>3 DEF SingleHolder
  <2> QED
    BY <1>0, <2>1, <2>2, <2>5
<1>2. CASE PopNothing /\ UNCHANGED pushed
  <2>1. SchedulerTypeOK' /\ CoreInv'
    BY <1>2, PopType, PopNothingKeeps
  <2>2. HoldingExact' /\ SingleHolder'
    BY <1>0, <1>2, HandsStay DEF PopNothing
  <2> QED
    BY <1>0, <1>2, <2>1, <2>2 DEF EngineTypeOK
<1> QED
  BY <1>1, <1>2 DEF Pop

(* The workers                                                                *)
LEMMA HandOffKeeps ==
    ASSUME LiveInv, NEW w \in Workers, HandOff(w)
    PROVE  LiveInv'
<1> USE DEF LiveInv, TypeOK
<1>1. WalTypeOK' /\ SchedulerTypeOK' /\ CoreInv'
  BY SchedStays DEF HandOff, walVars, schedVars, WalTypeOK, SchedulerTypeOK
<1>2. EngineTypeOK'
  BY DEF HandOff, EngineTypeOK, WorkerState
<1>3. /\ pushed # NoTask /\ pushed' = NoTask
      /\ \A v \in Workers : /\ pc'[v] = IF v = w THEN "picked" ELSE pc[v]
                            /\ holding'[v] = IF v = w THEN pushed ELSE holding[v]
  BY DEF HandOff, EngineTypeOK
<1>4. HoldingExact'
  BY <1>3 DEF HoldingExact
<1>5. SingleHolder'
  <2>1. \A t \in Held' : t \in Held
    BY <1>3, TasksAssumption DEF Held
  <2>2. status' = status
    BY DEF HandOff, schedVars
  <2> QED
    BY <1>3, <2>1, <2>2 DEF SingleHolder
<1> QED
  BY <1>1, <1>2, <1>4, <1>5

(* The two guards never fire, and the three appends keep the log typed.       *)
LEMMA WorkKeeps ==
    ASSUME LiveInv, NEW w \in Workers, StartTask(w) \/ FailTask(w) \/ CompleteTask(w)
    PROVE  LiveInv'
<1> USE DEF LiveInv, TypeOK
<1>1. pc[w] # "idle"
  BY DEF StartTask, FailTask, CompleteTask
<1>2. holding[w] \in Tasks /\ holding[w] \notin cancelled
  BY <1>1, HolderFacts
<1>3. SchedulerTypeOK' /\ CoreInv' /\ UNCHANGED <<status, pushed, submission>>
  <2>1. UNCHANGED <<schedVars, submission, pushed>>
    BY DEF StartTask, FailTask, CompleteTask
  <2> QED
    BY <2>1, SchedStays DEF schedVars, SchedulerTypeOK
<1>4. PICK r \in {StartRecord(holding[w]), FailRecord(holding[w]), CompleteRecord(holding[w])} :
        AppendOk(r) \/ AppendError(r)
  BY <1>2 DEF StartTask, FailTask, CompleteTask, AppendIgnoringErrors
<1>5. r \in Record
  BY <1>2 DEF Record, StartRecord, FailRecord, CompleteRecord
<1>6. WalTypeOK'
  BY <1>4, <1>5, AppendType
<1>7. \/ \E label \in WorkerState \ {"idle"} : GoTo(w, label)
      \/ Return(w)
  BY DEF StartTask, FailTask, CompleteTask, WorkerState
<1>8. EngineTypeOK'
  BY <1>3, <1>7 DEF EngineTypeOK, GoTo, Return, WorkerState
<1>9. HoldingExact' /\ SingleHolder'
  <2>1. ASSUME NEW label \in WorkerState \ {"idle"}, GoTo(w, label)
        PROVE  HoldingExact' /\ SingleHolder'
    BY <1>1, <1>3, <2>1, GoToKeepsHands
  <2>2. CASE Return(w)
    BY <1>2, <1>3, <2>2, ReturnKeepsHands, TasksAssumption
  <2> QED
    BY <1>7, <2>1, <2>2
<1> QED
  BY <1>3, <1>6, <1>8, <1>9

(* Scheduler.Fail                                                             *)
LEMMA NotifyFailKeeps ==
    ASSUME LiveInv, NEW w \in Workers, NotifyFail(w)
    PROVE  LiveInv'
<1> USE DEF LiveInv, TypeOK
<1> DEFINE t == holding[w]
<1>1. t \in Tasks /\ status[t] = "running" /\ t # NoTask
  BY HolderFacts, TasksAssumption DEF NotifyFail
<1>2. HandleFailure(t) /\ cascade = {} /\ (Retry(t) \/ FailForGood(t))
  BY <1>1 DEF NotifyFail, HandleFailure
<1>3. SchedulerTypeOK'
  BY <1>1, <1>2, FailureType
<1>4. CoreInv'
  BY <1>1, <1>2, RetryKeeps, FailForGoodKeeps
<1>5. Return(w) /\ UNCHANGED <<walVars, submission, pushed>>
  BY DEF NotifyFail
<1>6. WalTypeOK' /\ EngineTypeOK'
  BY <1>5 DEF walVars, WalTypeOK, EngineTypeOK, Return, WorkerState
<1>7. \A u \in Tasks : u # t => status'[u] = status[u]
  BY <1>2 DEF Retry, FailForGood, TransitionToFailed, SchedulerTypeOK
<1>8. HoldingExact' /\ SingleHolder'
  BY <1>1, <1>5, <1>7, ReturnKeepsHands
<1> QED
  BY <1>3, <1>4, <1>6, <1>8

(* Scheduler.Complete: the dependents it releases were pending, so no task in *)
(* another worker's hands changes.                                            *)
LEMMA NotifyCompleteKeeps ==
    ASSUME LiveInv, NEW w \in Workers, NotifyComplete(w)
    PROVE  LiveInv'
<1> USE DEF LiveInv, TypeOK
<1> DEFINE t == holding[w]
<1>1. t \in Tasks /\ status[t] = "running" /\ t # NoTask
  BY HolderFacts, TasksAssumption DEF NotifyComplete
<1>2. cascade = {} /\ CompleteAndRelease(t)
  BY <1>1 DEF NotifyComplete, HandleComplete
<1>3. SchedulerTypeOK' /\ CoreInv'
  BY <1>1, <1>2, CompleteType, CompleteKeeps
<1>4. Return(w) /\ UNCHANGED <<walVars, submission, pushed>>
  BY DEF NotifyComplete
<1>5. WalTypeOK' /\ EngineTypeOK'
  BY <1>4 DEF walVars, WalTypeOK, EngineTypeOK, Return, WorkerState
<1>6. ASSUME NEW u \in Tasks, status[u] = "running", u # t
      PROVE  status'[u] = "running"
  <2>1. u \in dependents[t] => t \in Unmet(u)
    BY <1>1 DEF CoreInv, GraphExact, Present, Unmet
  <2>2. u \notin dependents[t]
    BY <1>6, <2>1 DEF CoreInv, DepsRespected
  <2> QED
    BY <1>2, <1>6, <2>2 DEF CompleteAndRelease, SchedulerTypeOK
<1>7. HoldingExact' /\ SingleHolder'
  BY <1>1, <1>4, <1>6, ReturnKeepsHands
<1> QED
  BY <1>3, <1>5, <1>7

(* The run loop on its own: a round of a cascade fails a pending task or      *)
(* none, so nothing in a worker's hands changes.                              *)
LEMMA CascadeStepKeeps ==
    ASSUME LiveInv, CascadeStep
    PROVE  LiveInv'
<1> USE DEF LiveInv, TypeOK
<1>1. PICK t \in Tasks : PropagateFailure(t)
  BY DEF CascadeStep
<1>2. status[t] \in {"pending", "failed"}
  BY <1>1, CascadeFacts DEF PropagateFailure
<1>3. SchedulerTypeOK' /\ WalTypeOK'
  BY <1>1, <1>2, PropagateType
<1>4. CoreInv'
  BY <1>1, PropagateKeeps
<1>5. UNCHANGED <<submission, pushed, pc, holding>>
  BY DEF CascadeStep, engineVars
<1>6. \A u \in Tasks : status[u] = "running" => status'[u] = "running"
  BY <1>1, <1>2 DEF PropagateFailure, TransitionToFailed, SchedulerTypeOK
<1> QED
  BY <1>3, <1>4, <1>5, <1>6, HandsStay DEF EngineTypeOK

(* A retry timer makes a pending task ready.                                  *)
LEMMA RetryFiresKeeps ==
    ASSUME LiveInv, NEW t \in Tasks, RetryFires(t)
    PROVE  LiveInv'
<1> USE DEF LiveInv, TypeOK
<1>1. HandleRetryEnqueue(t) /\ UNCHANGED <<wal, walErrors, submission, pushed, pc, holding>>
  BY DEF RetryFires, walVars, engineVars
<1>2. SchedulerTypeOK' /\ CoreInv'
  BY <1>1, RetryEnqueueType, RetryEnqueueKeeps
<1>3. \A u \in Tasks : status[u] = "running" => status'[u] = "running"
  BY <1>1 DEF HandleRetryEnqueue, SchedulerTypeOK
<1> QED
  BY <1>1, <1>2, <1>3, HandsStay DEF EngineTypeOK, WalTypeOK

(* Every step of every goroutine keeps the invariant.                         *)
LEMMA NextLive == LiveInv /\ [Next]_vars => LiveInv'
<1> SUFFICES ASSUME LiveInv, [Next]_vars
             PROVE  LiveInv'
  OBVIOUS
<1>1. ASSUME NEW b \in Batches, Persist(b) \/ Ingest(b)
      PROVE  LiveInv'
  BY <1>1, PersistKeeps, IngestStepKeeps
<1>2. CASE Pop
  BY <1>2, PopStepKeeps
<1>3. ASSUME NEW w \in Workers, WorkerNext(w)
      PROVE  LiveInv'
  BY <1>3, HandOffKeeps, WorkKeeps, NotifyFailKeeps, NotifyCompleteKeeps DEF WorkerNext
<1>4. CASE CascadeStep
  BY <1>4, CascadeStepKeeps
<1>5. ASSUME NEW t \in Tasks, RetryFires(t)
      PROVE  LiveInv'
  BY <1>5, RetryFiresKeeps
<1>6. CASE UNCHANGED vars
  <2>1. UNCHANGED <<wal, walErrors, submission, pushed, pc, holding>> /\ UNCHANGED schedVars
    BY <1>6 DEF vars, walVars, engineVars
  <2>2. CoreInv'
    BY <2>1, SchedStays DEF LiveInv
  <2>3. TypeOK'
    BY <2>1 DEF LiveInv, TypeOK, WalTypeOK, SchedulerTypeOK, EngineTypeOK, schedVars
  <2>4. HoldingExact' /\ SingleHolder'
    BY <2>1, HandsStay DEF LiveInv, schedVars
  <2> QED
    BY <2>2, <2>3, <2>4 DEF LiveInv
<1> QED
  BY <1>1, <1>2, <1>3, <1>4, <1>5, <1>6 DEF Next

-----------------------------------------------------------------------------
(* The first life: the heap is exact and a cascade reaches everything         *)

(* The heap never holds outdated entries only: pop answers nil only when it   *)
(* is empty.                                                                  *)
LEMMA PopNothingImpossible == QueueExact => ~PopNothing
BY DEF QueueExact, PopNothing, ReadyEntries

(* No task fails and none enters or leaves the worklist: nothing changes for  *)
(* the cascade.                                                               *)
LEMMA ReachesStays ==
    ASSUME CascadeReaches, UNCHANGED cascade, Present' = Present,
           \A u \in Tasks : status'[u] = "failed" <=> status[u] = "failed"
    PROVE  CascadeReaches'
<1>1. \A u \in Present : Dependencies[u] \subseteq Tasks /\ u \in Tasks
  BY FieldsAssumption DEF Present
<1> QED
  BY <1>1 DEF CascadeReaches

(* A task fails, leaves the worklist, and its dependents enter it.            *)
LEMMA FailReaches ==
    ASSUME SchedulerTypeOK, GraphExact, CascadeReaches, NEW t \in Tasks,
           status[t] # "absent", TransitionToFailed(t),
           cascade' = (cascade \ {t}) \cup dependents[t]
    PROVE  CascadeReaches'
<1>1. \A u \in Tasks : status'[u] = IF u = t THEN "failed" ELSE status[u]
  BY DEF TransitionToFailed, SchedulerTypeOK
<1>2. Present' = Present
  BY <1>1 DEF Present
<1>3. ASSUME NEW u \in Present', NEW d \in Dependencies[u], status'[d] = "failed"
      PROVE  status'[u] = "failed" \/ u \in cascade'
  <2>1. u \in Present /\ u \in Tasks /\ d \in Tasks
    BY <1>2, FieldsAssumption DEF Present
  <2>2. CASE d = t
    BY <2>1, <2>2 DEF GraphExact
  <2>3. CASE d # t
    <3>1. status[d] = "failed"
      BY <1>1, <1>3, <2>1, <2>3
    <3>2. status[u] = "failed" \/ u \in cascade
      BY <2>1, <3>1 DEF CascadeReaches
    <3> QED
      BY <1>1, <2>1, <3>2
  <2> QED
    BY <2>2, <2>3
<1> QED
  BY <1>3 DEF CascadeReaches

(* handleIngest: nothing in or below a new batch has failed.                  *)
LEMMA IngestExact ==
    ASSUME IInv, NEW b \in Batches, HandleIngest(b)
    PROVE  QueueExact' /\ CascadeReaches'
<1> USE DEF IInv, LiveInv, TypeOK
<1>0. b \subseteq Tasks /\ \A t \in b : Dependencies[t] \subseteq b
  BY BatchesAssumption
<1>1. \A t \in b : status[t] = "absent"
  BY <1>0 DEF HandleIngest, Admissible, Present
<1>2. \A t \in Tasks : status'[t] = IF t \in b THEN IF Unmet(t) = {} THEN "ready" ELSE "pending"
                                    ELSE status[t]
  BY <1>0 DEF HandleIngest
<1>3. Present' = Present \cup b
  BY <1>0, <1>2 DEF Present
<1>4. QueueExact'
  <2>1. \A t \in Tasks : readyQueue'[t] = readyQueue[t] + IF t \in b /\ Unmet(t) = {} THEN 1 ELSE 0
    BY DEF HandleIngest, Enqueued
  <2> QED
    BY <1>1, <1>2, <2>1 DEF QueueExact
<1>5. CascadeReaches'
  <2>1. cascade' = cascade
    BY DEF HandleIngest
  <2>2. ASSUME NEW t \in Present', NEW d \in Dependencies[t], status'[d] = "failed"
        PROVE  status'[t] = "failed" \/ t \in cascade'
    <3>1. t \in Tasks /\ d \in Tasks
      BY FieldsAssumption DEF Present
    <3>2. d \notin b
      BY <1>2, <2>2, <3>1
    <3>3. t \notin b
      BY <1>0, <3>2
    <3> QED
      BY <1>2, <1>3, <2>1, <2>2, <3>1, <3>2, <3>3 DEF CascadeReaches
  <2> QED
    BY <2>2 DEF CascadeReaches
<1> QED
  BY <1>4, <1>5

(* The pop case: the entry of t was its only one.                             *)
LEMMA PopExact ==
    ASSUME IInv, NEW t \in Tasks, PopReady(t)
    PROVE  QueueExact' /\ CascadeReaches'
<1> USE DEF IInv, LiveInv, TypeOK
<1>1. status[t] = "ready" /\ UNCHANGED cascade
  BY DEF PopReady, ReadyEntries
<1>2. \A u \in Tasks : status'[u] = IF u = t THEN "running" ELSE status[u]
  BY DEF PopReady, SchedulerTypeOK
<1>3. \A u \in Tasks : u # t /\ status[u] = "ready" => readyQueue'[u] = readyQueue[u]
  BY PopSpares DEF CoreInv
<1>4. \A u \in Tasks : u # t /\ status[u] # "ready" => readyQueue'[u] = 0
  BY DEF PopReady, QueueExact
<1>5. readyQueue'[t] = 0
  BY <1>1 DEF PopReady, QueueExact
<1>6. QueueExact'
  BY <1>2, <1>3, <1>4, <1>5 DEF QueueExact
<1>7. Present' = Present
  BY <1>1, <1>2 DEF Present
<1> QED
  BY <1>1, <1>2, <1>6, <1>7, ReachesStays

(* handleFailure                                                              *)
LEMMA NotifyFailExact ==
    ASSUME IInv, NEW w \in Workers, NotifyFail(w)
    PROVE  QueueExact' /\ CascadeReaches'
<1> USE DEF IInv, LiveInv, TypeOK
<1> DEFINE t == holding[w]
<1>1. t \in Tasks /\ status[t] = "running"
  BY HolderFacts DEF NotifyFail
<1>2. cascade = {} /\ (Retry(t) \/ FailForGood(t))
  BY <1>1 DEF NotifyFail, HandleFailure
<1>3. CASE Retry(t)
  <2>1. /\ \A u \in Tasks : status'[u] = IF u = t THEN "pending" ELSE status[u]
        /\ UNCHANGED <<readyQueue, cascade>>
    BY <1>3 DEF Retry, SchedulerTypeOK
  <2>2. Present' = Present
    BY <1>1, <2>1 DEF Present
  <2> QED
    BY <1>1, <2>1, <2>2, ReachesStays DEF QueueExact
<1>4. CASE FailForGood(t)
  <2>1. TransitionToFailed(t) /\ cascade' = dependents[t] /\ UNCHANGED readyQueue
    BY <1>4 DEF FailForGood
  <2>2. QueueExact'
    BY <1>1, <2>1 DEF TransitionToFailed, SchedulerTypeOK, QueueExact
  <2>3. CascadeReaches'
    BY <1>1, <1>2, <2>1, FailReaches DEF CoreInv
  <2> QED
    BY <2>2, <2>3
<1> QED
  BY <1>2, <1>3, <1>4

(* handleComplete: a dependent enters the heap as it becomes ready.           *)
LEMMA NotifyCompleteExact ==
    ASSUME IInv, NEW w \in Workers, NotifyComplete(w)
    PROVE  QueueExact' /\ CascadeReaches'
<1> USE DEF IInv, LiveInv, TypeOK
<1> DEFINE c == holding[w]
<1>1. c \in Tasks /\ status[c] = "running" /\ CompleteAndRelease(c)
  BY HolderFacts DEF NotifyComplete, HandleComplete
<1>2. PICK freed \in SUBSET dependents[c] :
        /\ \A t \in freed : t \in Tasks /\ t # c /\ status[t] = "pending" /\ Unmet(t) = {c}
        /\ \A t \in Tasks : status'[t] = IF t \in freed THEN "ready"
                                         ELSE IF t = c THEN "completed" ELSE status[t]
        /\ \A t \in Tasks : readyQueue'[t] = readyQueue[t] + IF t \in freed THEN 1 ELSE 0
  BY <1>1, ReleaseFacts
<1>3. QueueExact'
  BY <1>1, <1>2 DEF QueueExact
<1>4. Present' = Present /\ UNCHANGED cascade
  BY <1>1, <1>2 DEF Present, CompleteAndRelease
<1> QED
  BY <1>1, <1>2, <1>3, <1>4, ReachesStays

(* A round of propagateFailure                                                *)
LEMMA CascadeStepExact ==
    ASSUME IInv, CascadeStep
    PROVE  QueueExact' /\ CascadeReaches'
<1> USE DEF IInv, LiveInv, TypeOK
<1>1. PICK t \in Tasks : PropagateFailure(t)
  BY DEF CascadeStep
<1>2. status[t] \in {"pending", "failed"} /\ UNCHANGED readyQueue
  BY <1>1, CascadeFacts DEF PropagateFailure
<1>3. CASE status[t] = "failed"
  <2>1. cascade' = cascade \ {t} /\ UNCHANGED status
    BY <1>1, <1>3 DEF PropagateFailure
  <2>2. Present' = Present
    BY <2>1 DEF Present
  <2> QED
    BY <1>2, <1>3, <2>1, <2>2 DEF QueueExact, CascadeReaches
<1>4. CASE status[t] = "pending"
  <2>1. TransitionToFailed(t) /\ cascade' = (cascade \ {t}) \cup dependents[t]
    BY <1>1, <1>4 DEF PropagateFailure
  <2>2. QueueExact'
    BY <1>2, <1>4, <2>1 DEF TransitionToFailed, SchedulerTypeOK, QueueExact
  <2> QED
    BY <1>4, <2>1, <2>2, FailReaches DEF CoreInv
<1> QED
  BY <1>2, <1>3, <1>4

(* A retry timer brings its pending task the one entry it has.                *)
LEMMA RetryFiresExact ==
    ASSUME IInv, NEW t \in Tasks, RetryFires(t)
    PROVE  QueueExact' /\ CascadeReaches'
<1> USE DEF IInv, LiveInv, TypeOK
<1>1. HandleRetryEnqueue(t) /\ status[t] = "pending" /\ UNCHANGED cascade
  BY DEF RetryFires, HandleRetryEnqueue, CoreInv, TimersExact
<1>2. /\ \A u \in Tasks : status'[u] = IF u = t THEN "ready" ELSE status[u]
      /\ \A u \in Tasks : readyQueue'[u] = readyQueue[u] + IF u = t THEN 1 ELSE 0
  BY <1>1 DEF HandleRetryEnqueue, Enqueued, SchedulerTypeOK
<1>3. QueueExact'
  BY <1>1, <1>2 DEF QueueExact
<1>4. Present' = Present
  BY <1>1, <1>2 DEF Present
<1> QED
  BY <1>1, <1>2, <1>3, <1>4, ReachesStays

(* Every step of the first life keeps the invariant.                          *)
LEMMA NextInv == IInv /\ [Next]_vars => IInv'
<1> SUFFICES ASSUME IInv, [Next]_vars
             PROVE  QueueExact' /\ CascadeReaches'
  BY NextLive DEF IInv
<1>0. ASSUME UNCHANGED schedVars
      PROVE  QueueExact' /\ CascadeReaches'
  BY <1>0 DEF schedVars, IInv, QueueExact, CascadeReaches, Present
<1>1. ASSUME NEW b \in Batches, Persist(b) \/ Ingest(b)
      PROVE  QueueExact' /\ CascadeReaches'
  BY <1>0, <1>1, IngestExact DEF Persist, Ingest, RefuseIngest
<1>2. CASE Pop
  BY <1>2, PopExact, PopNothingImpossible DEF Pop, IInv
<1>3. ASSUME NEW w \in Workers, WorkerNext(w)
      PROVE  QueueExact' /\ CascadeReaches'
  <2>1. CASE HandOff(w) \/ StartTask(w) \/ FailTask(w) \/ CompleteTask(w)
    BY <1>0, <2>1 DEF HandOff, StartTask, FailTask, CompleteTask
  <2> QED
    BY <1>3, <2>1, NotifyFailExact, NotifyCompleteExact DEF WorkerNext
<1>4. ASSUME NEW t \in Tasks, RetryFires(t)
      PROVE  QueueExact' /\ CascadeReaches'
  BY <1>4, RetryFiresExact
<1>5. CASE UNCHANGED vars
  BY <1>0, <1>5 DEF vars
<1> QED
  BY <1>1, <1>2, <1>3, <1>4, <1>5, CascadeStepExact DEF Next

(* NewScheduler and the idle goroutines satisfy it.                           *)
LEMMA InitInv == Init => IInv
<1> SUFFICES ASSUME Init
             PROVE  QueueExact /\ CascadeReaches
  BY InitLive DEF IInv
<1>1. \A t \in Tasks : status[t] = "absent" /\ readyQueue[t] = 0
  BY DEF Init, SchedulerInit
<1> QED
  BY <1>1 DEF QueueExact, CascadeReaches, Present

-----------------------------------------------------------------------------
(* The theorems                                                               *)

(* The inductive invariant holds in every execution.                          *)
THEOREM Invariance == Spec => []IInv
<1>1. Init => IInv
  BY InitInv
<1>2. IInv /\ [Next]_vars => IInv'
  BY NextInv
<1> QED
  BY <1>1, <1>2, PTL DEF Spec

(* Every variable keeps its type.                                             *)
THEOREM TypeCorrect == Spec => []TypeOK
<1>1. IInv => TypeOK
  BY DEF IInv, LiveInv
<1> QED
  BY <1>1, Invariance, PTL

(* No task is queued, dispatched or finished before its dependencies have     *)
(* completed (handleIngest, handleComplete, handleRetryEnqueue).              *)
THEOREM DependenciesRespected == Spec => []DepsRespected
<1>1. IInv => DepsRespected
  BY DEF IInv, LiveInv, CoreInv
<1> QED
  BY <1>1, Invariance, PTL

(* The dispatch loop and the workers never hold a task twice, and they hold   *)
(* only tasks the scheduler calls running (pushLoop, worker).                 *)
THEOREM OneHolder == Spec => []SingleHolder
<1>1. IInv => SingleHolder
  BY DEF IInv, LiveInv
<1> QED
  BY <1>1, Invariance, PTL

(* No worker ever holds a cancelled task, so GUARD 1 and GUARD 2 never fire   *)
(* (worker, propagateFailure).                                                *)
THEOREM GuardsNeverFire == Spec => []HeldNotCancelled
<1>1. IInv => HeldNotCancelled
  BY DEF IInv, LiveInv, CoreInv, SingleHolder, CancelledExact, HeldNotCancelled, Held
<1> QED
  BY <1>1, Invariance, PTL

(* Between two cases of the run loop everything downstream of a failed task   *)
(* has failed (propagateFailure).                                             *)
THEOREM CascadeReachesAll == Spec => []CascadeClosed
<1>1. IInv => CascadeClosed
  BY DEF IInv, CascadeReaches, CascadeClosed
<1> QED
  BY <1>1, Invariance, PTL

-----------------------------------------------------------------------------
(* Nothing is lost. A running task loses its holder only to an append that    *)
(* fails, which the invariant does not say: it is a second invariant, and     *)
(* rests on the first one.                                                    *)

RunningIsHeld == walErrors = 0 => \A t \in Tasks : status[t] = "running" => t \in Held

(* Between taking a task and notifying the scheduler only FailTask returns,   *)
(* and only after an error of AppendFail.                                     *)
LEMMA WorkKeepsHeld ==
    ASSUME LiveInv, RunningIsHeld, NEW w \in Workers,
           StartTask(w) \/ FailTask(w) \/ CompleteTask(w)
    PROVE  RunningIsHeld'
<1> USE DEF LiveInv, TypeOK
<1>1. UNCHANGED <<schedVars, pushed>> /\ walErrors \in Nat
  BY WalAssumption DEF StartTask, FailTask, CompleteTask, WalTypeOK
<1>2. pc[w] # "idle"
  BY DEF StartTask, FailTask, CompleteTask
<1>3. holding[w] \notin cancelled
  BY <1>2, HolderFacts
<1>4. CASE UNCHANGED holding
  <2>1. walErrors' = 0 => walErrors = 0
    BY <1>1 DEF StartTask, FailTask, CompleteTask, AppendIgnoringErrors, AppendOk,
                AppendError, walVars
  <2> QED
    BY <1>1, <1>4, <2>1 DEF RunningIsHeld, Held, schedVars
<1>5. CASE AppendError(FailRecord(holding[w]))
  BY <1>1, <1>5 DEF AppendError, RunningIsHeld
<1> QED
  BY <1>3, <1>4, <1>5 DEF StartTask, FailTask, CompleteTask, GoTo

(* A worker that returns after its notification lets go of its task, and that *)
(* task alone: it is not running any more.                                    *)
LEMMA ReturnKeepsHeld ==
    ASSUME EngineTypeOK, RunningIsHeld, NEW w \in Workers, holding[w] \in Tasks,
           Return(w), UNCHANGED <<walVars, pushed>>, status'[holding[w]] # "running",
           \A t \in Tasks : status'[t] = "running" => status[t] = "running"
    PROVE  RunningIsHeld'
<1>1. \A v \in Workers : holding'[v] = IF v = w THEN NoTask ELSE holding[v]
  BY DEF Return, EngineTypeOK
<1>2. ASSUME NEW t \in Tasks, t \in Held, t # holding[w]
      PROVE  t \in Held'
  BY <1>1, <1>2 DEF Held
<1> QED
  BY <1>2 DEF RunningIsHeld, walVars

(* Every step of every goroutine keeps a holder for every running task.       *)
LEMMA NextHeld == LiveInv /\ RunningIsHeld /\ [Next]_vars => RunningIsHeld'
<1> SUFFICES ASSUME LiveInv, RunningIsHeld, [Next]_vars
             PROVE  RunningIsHeld'
  OBVIOUS
<1> USE DEF LiveInv, TypeOK
<1>1. ASSUME NEW b \in Batches, Persist(b)
      PROVE  RunningIsHeld'
  <2>1. UNCHANGED <<status, pushed, holding>> /\ walErrors \in Nat
    BY <1>1, WalAssumption DEF Persist, schedVars, WalTypeOK
  <2>2. walErrors' = 0 => walErrors = 0
    BY <1>1, <2>1 DEF Persist, AppendOk, AppendError
  <2> QED
    BY <2>1, <2>2 DEF RunningIsHeld, Held
<1>2. ASSUME NEW b \in Batches, Ingest(b)
      PROVE  RunningIsHeld'
  <2>1. UNCHANGED <<walErrors, pushed, holding>>
    BY <1>2 DEF Ingest, walVars
  <2>2. \A t \in Tasks : status'[t] = "running" => status[t] = "running"
    BY <1>2 DEF Ingest, HandleIngest, RefuseIngest, schedVars
  <2> QED
    BY <2>1, <2>2 DEF RunningIsHeld, Held
<1>3. CASE Pop
  <2>1. pushed = NoTask /\ UNCHANGED <<walErrors, holding>>
    BY <1>3 DEF Pop, walVars
  <2>2. ASSUME NEW t \in Tasks, PopReady(t), pushed' = t
        PROVE  RunningIsHeld'
    <3>1. \A u \in Tasks : status'[u] = "running" => u = t \/ status[u] = "running"
      BY <2>2 DEF PopReady, SchedulerTypeOK
    <3> QED
      BY <2>1, <2>2, <3>1, TasksAssumption DEF RunningIsHeld, Held
  <2>3. CASE PopNothing /\ UNCHANGED pushed
    BY <2>1, <2>3 DEF PopNothing, RunningIsHeld, Held
  <2> QED
    BY <1>3, <2>2, <2>3 DEF Pop
<1>4. ASSUME NEW w \in Workers, HandOff(w)
      PROVE  RunningIsHeld'
  <2>1. holding[w] = NoTask /\ pushed \in Tasks
    BY <1>4 DEF HandOff, HoldingExact, EngineTypeOK
  <2>2. \A v \in Workers : holding'[v] = IF v = w THEN pushed ELSE holding[v]
    BY <1>4 DEF HandOff, EngineTypeOK
  <2>3. \A t \in Held : t \in Held'
    BY <2>1, <2>2, TasksAssumption DEF Held
  <2> QED
    BY <1>4, <2>3 DEF HandOff, RunningIsHeld, Held, walVars, schedVars
<1>5. ASSUME NEW w \in Workers, StartTask(w) \/ FailTask(w) \/ CompleteTask(w)
      PROVE  RunningIsHeld'
  BY <1>5, WorkKeepsHeld
<1>6. ASSUME NEW w \in Workers, NotifyFail(w)
      PROVE  RunningIsHeld'
  <2>1. holding[w] \in Tasks /\ status[holding[w]] = "running"
    BY <1>6, HolderFacts DEF NotifyFail
  <2>2. Retry(holding[w]) \/ FailForGood(holding[w])
    BY <1>6, <2>1 DEF NotifyFail, HandleFailure
  <2>3. \A t \in Tasks : status'[t] = "running" => status[t] = "running" /\ t # holding[w]
    BY <2>1, <2>2 DEF Retry, FailForGood, TransitionToFailed, SchedulerTypeOK
  <2> QED
    BY <1>6, <2>1, <2>3, ReturnKeepsHeld DEF NotifyFail
<1>7. ASSUME NEW w \in Workers, NotifyComplete(w)
      PROVE  RunningIsHeld'
  <2>1. holding[w] \in Tasks /\ status[holding[w]] = "running"
    BY <1>7, HolderFacts DEF NotifyComplete
  <2>2. CompleteAndRelease(holding[w])
    BY <1>7, <2>1 DEF NotifyComplete, HandleComplete
  <2>3. \A t \in Tasks : status'[t] = "running" => status[t] = "running" /\ t # holding[w]
    BY <2>1, <2>2 DEF CompleteAndRelease, SchedulerTypeOK
  <2> QED
    BY <1>7, <2>1, <2>3, ReturnKeepsHeld DEF NotifyComplete
<1>8. CASE CascadeStep
  <2>1. UNCHANGED <<pushed, holding>> /\ walErrors \in Nat
    BY <1>8, WalAssumption DEF CascadeStep, engineVars, WalTypeOK
  <2>2. walErrors' = 0 => walErrors = 0
    BY <1>8, <2>1 DEF CascadeStep, PropagateFailure, AppendIgnoringErrors, AppendOk,
                      AppendError, walVars
  <2>3. \A t \in Tasks : status'[t] = "running" => status[t] = "running"
    BY <1>8 DEF CascadeStep, PropagateFailure, TransitionToFailed, SchedulerTypeOK
  <2> QED
    BY <2>1, <2>2, <2>3 DEF RunningIsHeld, Held
<1>9. ASSUME NEW u \in Tasks, RetryFires(u)
      PROVE  RunningIsHeld'
  <2>1. UNCHANGED <<walErrors, pushed, holding>>
    BY <1>9 DEF RetryFires, walVars, engineVars
  <2>2. \A t \in Tasks : status'[t] = "running" => status[t] = "running"
    BY <1>9 DEF RetryFires, HandleRetryEnqueue, SchedulerTypeOK
  <2> QED
    BY <2>1, <2>2 DEF RunningIsHeld, Held
<1>10. CASE UNCHANGED vars
  BY <1>10 DEF vars, walVars, schedVars, engineVars, RunningIsHeld, Held
<1> QED
  BY <1>1, <1>2, <1>3, <1>4, <1>5, <1>6, <1>7, <1>8, <1>9, <1>10 DEF Next, WorkerNext

(* A task that is not settled is always in the heap, with a timer, waiting    *)
(* for a dependency or, as long as no append fails, in somebody's hands.      *)
THEOREM NothingIsLost == Spec => []NoLostTask
<1>1. Init => RunningIsHeld
  BY DEF Init, SchedulerInit, RunningIsHeld
<1>2. IInv /\ RunningIsHeld => NoLostTask
  BY DEF IInv, LiveInv, TypeOK, CoreInv, QueueExact, TimersExact, RunningIsHeld, NoLostTask
<1>3. IInv => LiveInv
  BY DEF IInv
<1> QED
  BY <1>1, <1>2, <1>3, NextHeld, Invariance, PTL DEF Spec

-----------------------------------------------------------------------------
(* Failures have a cause                                                      *)

(* A worker is failing or completing a task as its payload says.              *)
PayloadExact ==
    \A w \in Workers : /\ pc[w] = "failing" => holding[w] \in FailPayload
                       /\ pc[w] = "completing" => holding[w] \notin FailPayload

(* The causes of earlier failures last: what remains to be seen of a step is  *)
(* that no settled task changes, that no attempt of a failed task is counted, *)
(* and the causes of what it fails and completes itself.                      *)
LEMMA CausesLast ==
    ASSUME SchedulerTypeOK, FailureIsCaused,
           \A t \in Tasks : status[t] \in Terminal => status'[t] = status[t],
           \A t \in Tasks : status[t] = "failed" => retryCount'[t] = retryCount[t],
           \A t \in Tasks : status'[t] = "failed" /\ status[t] # "failed" =>
              \/ t \in FailPayload /\ retryCount'[t] >= Budget(t)
              \/ \E d \in Dependencies[t] : status[d] = "failed",
           \A t \in Tasks : status'[t] = "completed" /\ status[t] # "completed" =>
              t \notin FailPayload
    PROVE  FailureIsCaused'
<1>1. ASSUME NEW t \in Tasks, \E d \in Dependencies[t] : status[d] = "failed"
      PROVE  \E d \in Dependencies[t] : status'[d] = "failed"
  BY <1>1, FieldsAssumption
<1>2. ASSUME NEW t \in Tasks, status'[t] = "failed"
      PROVE  \/ t \in FailPayload /\ retryCount'[t] >= Budget(t)
             \/ \E d \in Dependencies[t] : status'[d] = "failed"
  BY <1>1, <1>2 DEF FailureIsCaused
<1>3. ASSUME NEW t \in Tasks, status'[t] = "completed"
      PROVE  t \notin FailPayload
  BY <1>3 DEF FailureIsCaused
<1> QED
  BY <1>2, <1>3 DEF FailureIsCaused, Budget

(* Every step keeps the workers true to the payloads.                         *)
LEMMA NextPayload == LiveInv /\ PayloadExact /\ [Next]_vars => PayloadExact'
<1> SUFFICES ASSUME LiveInv, PayloadExact, [Next]_vars
             PROVE  PayloadExact'
  OBVIOUS
<1> USE DEF LiveInv, TypeOK, EngineTypeOK, PayloadExact
<1>1. CASE UNCHANGED <<pc, holding>>
  BY <1>1
<1>2. ASSUME NEW w \in Workers, WorkerNext(w)
      PROVE  PayloadExact'
  BY <1>2 DEF WorkerNext, HandOff, StartTask, FailTask, CompleteTask, NotifyFail,
              NotifyComplete, Return, GoTo
<1> QED
  BY <1>1, <1>2 DEF Next, Persist, Ingest, Pop, CascadeStep, RetryFires, engineVars, vars

(* No step changes a completed or failed task.                                *)
LEMMA SettledStep ==
    ASSUME LiveInv, Next, NEW t \in Tasks, status[t] \in Terminal
    PROVE  status'[t] = status[t]
<1> USE DEF LiveInv, TypeOK, SchedulerTypeOK
<1>1. ASSUME NEW b \in Batches, Persist(b) \/ Ingest(b)
      PROVE  status'[t] = status[t]
  BY <1>1 DEF Persist, Ingest, HandleIngest, RefuseIngest, Admissible, Present, schedVars
<1>2. CASE Pop
  BY <1>2 DEF Pop, PopReady, PopNothing, ReadyEntries
<1>3. ASSUME NEW w \in Workers, WorkerNext(w)
      PROVE  status'[t] = status[t]
  <2>1. CASE HandOff(w) \/ StartTask(w) \/ FailTask(w) \/ CompleteTask(w)
    BY <2>1 DEF HandOff, StartTask, FailTask, CompleteTask, schedVars
  <2>2. CASE NotifyFail(w)
    <3>1. holding[w] \in Tasks /\ status[holding[w]] = "running"
      BY <2>2, HolderFacts DEF NotifyFail
    <3> QED
      BY <2>2, <3>1 DEF NotifyFail, HandleFailure, Retry, FailForGood, TransitionToFailed
  <2>3. CASE NotifyComplete(w)
    <3>1. holding[w] \in Tasks /\ status[holding[w]] = "running"
      BY <2>3, HolderFacts DEF NotifyComplete
    <3> QED
      BY <2>3, <3>1 DEF NotifyComplete, HandleComplete, CompleteAndRelease
  <2> QED
    BY <1>3, <2>1, <2>2, <2>3 DEF WorkerNext
<1>4. CASE CascadeStep
  BY <1>4 DEF CascadeStep, PropagateFailure, TransitionToFailed
<1>5. ASSUME NEW u \in Tasks, RetryFires(u)
      PROVE  status'[t] = status[t]
  BY <1>5 DEF RetryFires, HandleRetryEnqueue
<1> QED
  BY <1>1, <1>2, <1>3, <1>4, <1>5 DEF Next

(* Every step that fails or completes a task has a cause for it.              *)
LEMMA NextCaused ==
    LiveInv /\ PayloadExact /\ FailureIsCaused /\ [Next]_vars => FailureIsCaused'
<1> SUFFICES ASSUME LiveInv, PayloadExact, FailureIsCaused, [Next]_vars
             PROVE  FailureIsCaused'
  OBVIOUS
<1> USE DEF LiveInv, TypeOK
<1>0. \A t \in Tasks : status[t] \in Terminal => status'[t] = status[t]
  <2>1. CASE UNCHANGED vars
    BY <2>1 DEF vars, schedVars
  <2> QED
    BY <2>1, SettledStep
<1>1. ASSUME UNCHANGED retryCount,
             \A t \in Tasks : status'[t] \in Terminal => status'[t] = status[t]
      PROVE  FailureIsCaused'
  BY <1>0, <1>1, CausesLast
<1>2. ASSUME NEW b \in Batches, Persist(b) \/ Ingest(b)
      PROVE  FailureIsCaused'
  BY <1>1, <1>2 DEF Persist, Ingest, HandleIngest, RefuseIngest, schedVars
<1>3. CASE Pop
  BY <1>1, <1>3 DEF Pop, PopReady, PopNothing, SchedulerTypeOK
<1>4. ASSUME NEW w \in Workers, WorkerNext(w)
      PROVE  FailureIsCaused'
  <2>1. CASE HandOff(w) \/ StartTask(w) \/ FailTask(w) \/ CompleteTask(w)
    BY <1>1, <2>1 DEF HandOff, StartTask, FailTask, CompleteTask, schedVars
  <2>2. CASE NotifyFail(w)
    <3> DEFINE t == holding[w]
    <3>1. t \in Tasks /\ status[t] = "running" /\ t \in FailPayload
      BY <2>2, HolderFacts DEF NotifyFail, PayloadExact
    <3>2. CASE Retry(t)
      <4>1. /\ \A u \in Tasks : status'[u] = IF u = t THEN "pending" ELSE status[u]
            /\ \A u \in Tasks : u # t => retryCount'[u] = retryCount[u]
        BY <3>2 DEF Retry, SchedulerTypeOK
      <4> QED
        BY <1>0, <3>1, <4>1, CausesLast
    <3>3. CASE FailForGood(t)
      <4>1. /\ \A u \in Tasks : status'[u] = IF u = t THEN "failed" ELSE status[u]
            /\ UNCHANGED retryCount /\ retryCount[t] >= Budget(t)
        BY <3>3 DEF FailForGood, TransitionToFailed, SchedulerTypeOK
      <4> QED
        BY <1>0, <3>1, <4>1, CausesLast
    <3> QED
      BY <2>2, <3>1, <3>2, <3>3 DEF NotifyFail, HandleFailure
  <2>3. CASE NotifyComplete(w)
    <3> DEFINE t == holding[w]
    <3>1. t \in Tasks /\ status[t] = "running" /\ t \notin FailPayload
      BY <2>3, HolderFacts DEF NotifyComplete, PayloadExact
    <3>2. /\ \A u \in Tasks : \/ status'[u] = "ready"
                              \/ status'[u] = IF u = t THEN "completed" ELSE status[u]
          /\ UNCHANGED retryCount
      BY <2>3, <3>1 DEF NotifyComplete, HandleComplete, CompleteAndRelease, SchedulerTypeOK
    <3> QED
      BY <1>0, <3>1, <3>2, CausesLast
  <2> QED
    BY <1>4, <2>1, <2>2, <2>3 DEF WorkerNext
<1>5. CASE CascadeStep
  <2>1. PICK t \in Tasks : PropagateFailure(t)
    BY <1>5 DEF CascadeStep
  <2>2. \E d \in Dependencies[t] : status[d] = "failed"
    BY <2>1 DEF PropagateFailure, CoreInv, CascadeCaused
  <2>3. /\ \A u \in Tasks : u # t => status'[u] = status[u]
        /\ status'[t] \in {status[t], "failed"}
        /\ UNCHANGED retryCount
    BY <2>1 DEF PropagateFailure, TransitionToFailed, SchedulerTypeOK
  <2> QED
    BY <1>0, <2>2, <2>3, CausesLast
<1>6. ASSUME NEW u \in Tasks, RetryFires(u)
      PROVE  FailureIsCaused'
  BY <1>1, <1>6 DEF RetryFires, HandleRetryEnqueue, SchedulerTypeOK
<1>7. CASE UNCHANGED vars
  BY <1>1, <1>7 DEF vars, schedVars
<1> QED
  BY <1>2, <1>3, <1>4, <1>5, <1>6, <1>7 DEF Next

(* A task fails only after its own retries or after a dependency, and only    *)
(* what does not carry the "fail" payload completes (handleFailure,           *)
(* propagateFailure, worker).                                                 *)
THEOREM FailuresAreCaused == Spec => []FailureIsCaused
<1>1. Init => PayloadExact /\ FailureIsCaused
  BY DEF Init, SchedulerInit, PayloadExact, FailureIsCaused
<1>2. IInv => LiveInv
  BY DEF IInv
<1> QED
  BY <1>1, <1>2, NextPayload, NextCaused, Invariance, PTL DEF Spec

(* A completed or failed task never changes again (transitionToCompleted,     *)
(* transitionToFailed, markReady, handleRetryEnqueue).                        *)
THEOREM SettledStays == Spec => TerminalIsFinal
<1> DEFINE Final == \A t \in Tasks : status[t] \in Terminal => status'[t] = status[t]
<1>1. IInv /\ [Next]_vars => [Final]_vars
  BY SettledStep DEF IInv, vars
<1> QED
  BY <1>1, Invariance, PTL DEF Spec, TerminalIsFinal

-----------------------------------------------------------------------------
(* The counters                                                               *)

Shown == {"pending", "running", "completed", "failed"}

(* The tasks that a counter counts.                                           *)
Counted(c) == {t \in Tasks : CounterOf(status[t]) = c}

(* A present task is counted under one of the counters of MetricsMatch, an    *)
(* absent one under none: what a counter must show is how many it counts.     *)
LEMMA MetricsCount ==
    ASSUME SchedulerTypeOK
    PROVE  /\ MetricsMatch <=> \A c \in Shown : metrics[c] = Cardinality(Counted(c))
           /\ \A c : IsFiniteSet(Counted(c)) /\ Cardinality(Counted(c)) \in Nat
<1>1. ASSUME NEW c \in Shown
      PROVE  {t \in Present : CounterOf(status[t]) = c} = Counted(c)
  BY DEF Present, Counted, Shown
<1>2. ASSUME NEW c
      PROVE  IsFiniteSet(Counted(c)) /\ Cardinality(Counted(c)) \in Nat
  <2>1. Counted(c) \in SUBSET Tasks
    BY DEF Counted
  <2>2. IsFiniteSet(Counted(c))
    BY <2>1, TasksAssumption, FS_Subset
  <2> QED
    BY <2>2, FS_CardinalityType
<1> QED
  BY <1>1, <1>2 DEF MetricsMatch, Shown

(* The same in the state after a step.                                        *)
LEMMA MetricsNext ==
    ASSUME SchedulerTypeOK', \A c \in Shown : metrics'[c] = Cardinality(Counted(c)')
    PROVE  MetricsMatch'
<1>1. ASSUME NEW c \in Shown
      PROVE  {t \in Present : CounterOf(status[t]) = c}' = Counted(c)'
  BY DEF Present, Counted, Shown
<1> QED
  BY <1>1 DEF MetricsMatch, Shown

(* Statuses change without leaving their counters, and no counter moves.      *)
LEMMA MetricsStay ==
    ASSUME SchedulerTypeOK, SchedulerTypeOK', MetricsMatch,
           \A t \in Tasks : CounterOf(status'[t]) = CounterOf(status[t]),
           \A c \in Shown : metrics'[c] = metrics[c]
    PROVE  MetricsMatch'
<1>1. \A c : Counted(c)' = Counted(c)
  BY DEF Counted
<1>2. \A c \in Shown : metrics'[c] = Cardinality(Counted(c)')
  BY <1>1, MetricsCount
<1> QED
  BY <1>2, MetricsNext

(* One task changes counters, and the two counters move (the two atomic adds  *)
(* of each transition).                                                       *)
LEMMA MetricsMove ==
    ASSUME SchedulerTypeOK, SchedulerTypeOK', MetricsMatch, NEW t \in Tasks,
           NEW from \in Shown, NEW to \in Shown, from # to,
           CounterOf(status[t]) = from, CounterOf(status'[t]) = to,
           \A u \in Tasks : u # t => CounterOf(status'[u]) = CounterOf(status[u]),
           \A c \in Shown : metrics'[c] = Moved(from, to)[c]
    PROVE  MetricsMatch'
<1> DEFINE N(c) == Cardinality(Counted(c))
<1>1. ASSUME NEW c \in Shown
      PROVE  metrics'[c] = Cardinality(Counted(c)')
  <2>1. metrics[c] = N(c) /\ IsFiniteSet(Counted(c)) /\ N(c) \in Nat
    BY MetricsCount
  <2>2. metrics'[c] = IF c = to THEN N(c) + 1 ELSE IF c = from THEN N(c) - 1 ELSE N(c)
    BY <2>1 DEF Moved, SchedulerTypeOK, Counters, Shown
  <2>3. CASE c = to
    <3>1. Counted(c)' = Counted(c) \cup {t} /\ t \notin Counted(c)
      BY <2>3 DEF Counted
    <3>2. Cardinality(Counted(c) \cup {t}) = N(c) + 1
      BY <2>1, <3>1, FS_AddElement
    <3> QED
      BY <2>2, <2>3, <3>1, <3>2
  <2>4. CASE c = from
    <3>1. Counted(c)' = Counted(c) \ {t} /\ t \in Counted(c)
      BY <2>4 DEF Counted
    <3>2. Cardinality(Counted(c) \ {t}) = N(c) - 1
      BY <2>1, <3>1, FS_RemoveElement
    <3> QED
      BY <2>2, <2>4, <3>1, <3>2
  <2>5. CASE c \notin {from, to}
    <3>1. Counted(c)' = Counted(c)
      BY <2>5 DEF Counted
    <3> QED
      BY <2>1, <2>2, <2>5, <3>1
  <2> QED
    BY <2>3, <2>4, <2>5
<1> QED
  BY <1>1, MetricsNext

(* handleIngest counts every task of the batch as pending, ready or not.      *)
LEMMA MetricsIngest ==
    ASSUME SchedulerTypeOK, SchedulerTypeOK', MetricsMatch, NEW b \in Batches, HandleIngest(b)
    PROVE  MetricsMatch'
<1>1. \A t \in Tasks : CounterOf(status'[t]) = IF t \in b THEN "pending" ELSE CounterOf(status[t])
  BY DEF HandleIngest
<1>2. \A t \in b : t \in Tasks /\ CounterOf(status[t]) = "absent"
  BY BatchFinite DEF HandleIngest, Admissible, Present
<1> HIDE DEF CounterOf
<1>3. ASSUME NEW c \in Shown
      PROVE  metrics'[c] = Cardinality(Counted(c)')
  <2>1. metrics[c] = Cardinality(Counted(c)) /\ IsFiniteSet(Counted(c))
    BY MetricsCount
  <2>2. CASE c = "pending"
    <3>1. Counted(c)' = Counted(c) \cup b /\ Counted(c) \cap b = {}
      <4>1. \A t \in Tasks : CounterOf(status'[t]) = c <=> CounterOf(status[t]) = c \/ t \in b
        BY <1>1, <2>2
      <4>2. \A t \in b : t \in Tasks /\ CounterOf(status[t]) # c
        BY <1>2, <2>2
      <4> QED
        BY <4>1, <4>2 DEF Counted
    <3>2. metrics'[c] = metrics[c] + Cardinality(b)
      BY <2>2 DEF HandleIngest, SchedulerTypeOK, Counters
    <3>3. Cardinality({}) = 0
      BY FS_EmptySet
    <3>4. Cardinality(Counted(c) \cup b) = Cardinality(Counted(c)) + Cardinality(b) - 0
      BY <2>1, <3>1, <3>3, BatchFinite, FS_Union
    <3>5. Cardinality(Counted(c)) \in Nat /\ Cardinality(b) \in Nat
      BY MetricsCount, BatchFinite
    <3> QED
      BY <2>1, <3>1, <3>2, <3>4, <3>5
  <2>3. CASE c # "pending"
    <3>1. Counted(c)' = Counted(c)
      <4>1. \A t \in Tasks : CounterOf(status'[t]) = c <=> CounterOf(status[t]) = c
        BY <1>1, <1>2, <2>3 DEF Shown
      <4> QED
        BY <4>1 DEF Counted
    <3> QED
      BY <2>1, <2>3, <3>1 DEF HandleIngest, SchedulerTypeOK, Counters, Shown
  <2> QED
    BY <2>2, <2>3
<1> QED
  BY <1>3, MetricsNext

(* Every step keeps the counters in agreement with the statuses.              *)
LEMMA NextMetrics == LiveInv /\ MetricsMatch /\ [Next]_vars => MetricsMatch'
<1> SUFFICES ASSUME LiveInv, MetricsMatch, [Next]_vars
             PROVE  MetricsMatch'
  OBVIOUS
<1> USE DEF LiveInv, TypeOK
<1>0. SchedulerTypeOK'
  BY NextLive
<1>1. ASSUME UNCHANGED schedVars
      PROVE  MetricsMatch'
  BY <1>0, <1>1, MetricsStay DEF schedVars
<1>2. ASSUME NEW b \in Batches, Persist(b) \/ Ingest(b)
      PROVE  MetricsMatch'
  BY <1>0, <1>1, <1>2, MetricsIngest DEF Persist, Ingest, RefuseIngest
<1>3. CASE Pop
  <2>1. ASSUME NEW t \in Tasks, PopReady(t)
        PROVE  MetricsMatch'
    <3>1. /\ status[t] = "ready" /\ metrics' = Moved("pending", "running")
          /\ \A u \in Tasks : status'[u] = IF u = t THEN "running" ELSE status[u]
      BY <2>1 DEF PopReady, ReadyEntries, SchedulerTypeOK
    <3> QED
      BY <1>0, <3>1, MetricsMove DEF Shown
  <2>2. CASE PopNothing
    BY <1>0, <2>2, MetricsStay DEF PopNothing
  <2> QED
    BY <1>3, <2>1, <2>2 DEF Pop
<1>4. ASSUME NEW w \in Workers, WorkerNext(w)
      PROVE  MetricsMatch'
  <2>1. CASE HandOff(w) \/ StartTask(w) \/ FailTask(w) \/ CompleteTask(w)
    BY <1>1, <2>1 DEF HandOff, StartTask, FailTask, CompleteTask
  <2>2. CASE NotifyFail(w)
    <3> DEFINE t == holding[w]
    <3>1. t \in Tasks /\ status[t] = "running"
      BY <2>2, HolderFacts DEF NotifyFail
    <3>2. CASE Retry(t)
      <4>1. \A u \in Tasks : status'[u] = IF u = t THEN "pending" ELSE status[u]
        BY <3>2 DEF Retry, SchedulerTypeOK
      <4>2. \A c \in Shown : metrics'[c] = Moved("running", "pending")[c]
        BY <3>2 DEF Retry, Moved, SchedulerTypeOK, Shown, Counters
      <4> QED
        BY <1>0, <3>1, <4>1, <4>2, MetricsMove DEF Shown
    <3>3. CASE FailForGood(t)
      <4>1. /\ \A u \in Tasks : status'[u] = IF u = t THEN "failed" ELSE status[u]
            /\ metrics' = Moved("running", "failed")
        BY <3>1, <3>3 DEF FailForGood, TransitionToFailed, SchedulerTypeOK
      <4> QED
        BY <1>0, <3>1, <4>1, MetricsMove DEF Shown
    <3> QED
      BY <2>2, <3>1, <3>2, <3>3 DEF NotifyFail, HandleFailure
  <2>3. CASE NotifyComplete(w)
    <3> DEFINE t == holding[w]
    <3>1. t \in Tasks /\ status[t] = "running" /\ CompleteAndRelease(t)
      BY <2>3, HolderFacts DEF NotifyComplete, HandleComplete
    <3>2. \A u \in dependents[t] : u \in Tasks /\ t \in Unmet(u)
      BY <3>1 DEF CoreInv, GraphExact, Present, Unmet
    <3>3. \A u \in dependents[t] : status[u] \in {"absent", "pending", "failed"} /\ u # t
      BY <3>1, <3>2 DEF CoreInv, DepsRespected, SchedulerTypeOK
    <3>4. \A u \in dependents[t] : status[u] # "absent"
      BY <3>1 DEF CoreInv, GraphExact, Present
    <3>5. /\ \A u \in Tasks : u # t => CounterOf(status'[u]) = CounterOf(status[u])
          /\ status'[t] = "completed" /\ metrics' = Moved("running", "completed")
      BY <3>1, <3>3, <3>4 DEF CompleteAndRelease, SchedulerTypeOK
    <3> QED
      BY <1>0, <3>1, <3>5, MetricsMove DEF Shown
  <2> QED
    BY <1>4, <2>1, <2>2, <2>3 DEF WorkerNext
<1>5. CASE CascadeStep
  <2>1. PICK t \in Tasks : PropagateFailure(t)
    BY <1>5 DEF CascadeStep
  <2>2. status[t] \in {"pending", "failed"}
    BY <2>1, CascadeFacts DEF PropagateFailure
  <2>3. CASE status[t] = "failed"
    BY <1>0, <2>1, <2>3, MetricsStay DEF PropagateFailure
  <2>4. CASE status[t] = "pending"
    <3>1. /\ \A u \in Tasks : status'[u] = IF u = t THEN "failed" ELSE status[u]
          /\ metrics' = Moved("pending", "failed")
      BY <2>1, <2>4 DEF PropagateFailure, TransitionToFailed, SchedulerTypeOK
    <3> QED
      BY <1>0, <2>4, <3>1, MetricsMove DEF Shown
  <2> QED
    BY <2>2, <2>3, <2>4
<1>6. ASSUME NEW t \in Tasks, RetryFires(t)
      PROVE  MetricsMatch'
  <2>1. /\ \A u \in Tasks : CounterOf(status'[u]) = CounterOf(status[u])
        /\ UNCHANGED metrics
    BY <1>6 DEF RetryFires, HandleRetryEnqueue, SchedulerTypeOK
  <2> QED
    BY <1>0, <2>1, MetricsStay
<1>7. CASE UNCHANGED vars
  BY <1>1, <1>7 DEF vars
<1> QED
  BY <1>2, <1>3, <1>4, <1>5, <1>6, <1>7 DEF Next

(* The counters of /api/v1/status agree with the statuses in every state      *)
(* between two cases of the run loop and between two rounds of a cascade      *)
(* (handleIngest and the transitions).                                        *)
THEOREM MetricsAgree == Spec => []MetricsMatch
<1>1. Init => MetricsMatch
  <2> SUFFICES ASSUME Init
               PROVE  MetricsMatch
    OBVIOUS
  <2>1. SchedulerTypeOK
    BY InitType DEF TypeOK
  <2>2. \A c \in Shown : Counted(c) = {} /\ metrics[c] = 0
    BY DEF Init, SchedulerInit, Counted, Shown, Counters
  <2> QED
    BY <2>1, <2>2, MetricsCount, FS_EmptySet
<1>2. IInv => LiveInv
  BY DEF IInv
<1> QED
  BY <1>1, <1>2, NextMetrics, Invariance, PTL DEF Spec

-----------------------------------------------------------------------------
(* Engine implements Lifecycle: every execution of Engine is, seen through    *)
(* EngineLifecycle, an execution of Lifecycle. One lemma for each action that *)
(* is not always a stutter.                                                   *)

USE DEF LifeOf

(* What the abstract actions read is there to be read.                        *)
LEMMA LifeReads ==
    ASSUME SchedulerTypeOK
    PROVE  /\ \A t \in Tasks : Life[t] = LifeOf(status[t])
           /\ \A t \in Tasks : Life[t] = "completed" <=> status[t] = "completed"
           /\ \A t \in Tasks : Life[t] = "failed" <=> status[t] = "failed"
           /\ \A t \in Tasks : Left[t] = RetriesLeft(t, retryCount[t])
BY DEF Life, Left, SchedulerTypeOK

(* A step that moves no task between two lives and counts no retry is a       *)
(* stutter of Lifecycle.                                                      *)
LEMMA LifeStutters ==
    ASSUME \A t \in Tasks : LifeOf(status'[t]) = LifeOf(status[t]), UNCHANGED retryCount
    PROVE  UNCHANGED <<Life, Left>>
BY DEF Life, Left, RetriesLeft, Budget

(* A step that moves one task changes Life at that task.                      *)
LEMMA OneLifeChanges ==
    ASSUME SchedulerTypeOK, NEW t \in Tasks, NEW new,
           \A u \in Tasks : LifeOf(status'[u]) = IF u = t THEN new ELSE LifeOf(status[u])
    PROVE  Life' = [Life EXCEPT ![t] = new]
BY DEF Life

(* ... and Left is what it was if no retry is counted.                        *)
LEMMA LeftStays ==
    ASSUME UNCHANGED retryCount
    PROVE  UNCHANGED Left
BY DEF Left, RetriesLeft, Budget

(* Admission: a refused batch changes nothing.                                *)
LEMMA IngestImplements ==
    ASSUME LiveInv, NEW b \in Batches, Ingest(b)
    PROVE  [L!Next]_<<Life, Left>>
<1> USE DEF LiveInv, TypeOK
<1>1. CASE RefuseIngest(b)
  BY <1>1, LifeStutters DEF RefuseIngest, schedVars
<1>2. CASE HandleIngest(b)
  <2>1. \A t \in b : t \in Tasks /\ status[t] = "absent"
    BY <1>2, BatchFinite DEF HandleIngest, Admissible, Present
  <2>2. \A t \in Tasks : LifeOf(status'[t]) = IF t \in b THEN "waiting" ELSE LifeOf(status[t])
    BY <1>2 DEF HandleIngest
  <2>3. UNCHANGED retryCount
    BY <1>2 DEF HandleIngest
  <2>4. \A t \in b : Life[t] = "unknown"
    BY <2>1 DEF Life
  <2>5. Life' = [t \in Tasks |-> IF t \in b THEN "waiting" ELSE Life[t]]
    BY <2>2 DEF Life
  <2>6. L!Admit(b)
    BY <2>3, <2>4, <2>5, LeftStays DEF L!Admit
  <2> QED
    BY <2>6 DEF L!Next
<1> QED
  BY <1>1, <1>2 DEF Ingest

(* Dispatch: a ready task waits for nothing.                                  *)
LEMMA PopImplements ==
    ASSUME LiveInv, Pop
    PROVE  [L!Next]_<<Life, Left>>
<1> USE DEF LiveInv, TypeOK
<1>1. CASE PopNothing
  BY <1>1, LifeStutters DEF PopNothing
<1>2. ASSUME NEW t \in Tasks, PopReady(t)
      PROVE  [L!Next]_<<Life, Left>>
  <2>1. /\ status[t] = "ready" /\ UNCHANGED retryCount
        /\ \A u \in Tasks : status'[u] = IF u = t THEN "running" ELSE status[u]
    BY <1>2 DEF PopReady, ReadyEntries, SchedulerTypeOK
  <2>2. Life' = [Life EXCEPT ![t] = "running"]
    BY <2>1, OneLifeChanges
  <2>3. \A d \in Dependencies[t] : Life[d] = "completed"
    <3>1. \A d \in Dependencies[t] : d \in Tasks /\ status[d] = "completed"
      BY <2>1, FieldsAssumption DEF CoreInv, DepsRespected, Unmet
    <3> QED
      BY <3>1, LifeReads
  <2>4. L!Begin(t)
    BY <2>1, <2>2, <2>3, LifeReads, LeftStays DEF L!Begin
  <2> QED
    BY <2>4 DEF L!Next
<1> QED
  BY <1>1, <1>2 DEF Pop

(* Failure: the budget decides between another attempt and the end.           *)
LEMMA NotifyFailImplements ==
    ASSUME LiveInv, PayloadExact, NEW w \in Workers, NotifyFail(w)
    PROVE  [L!Next]_<<Life, Left>>
<1> USE DEF LiveInv, TypeOK
<1> DEFINE t == holding[w]
<1>1. t \in Tasks /\ status[t] = "running" /\ t \in FailPayload
  BY HolderFacts DEF NotifyFail, PayloadExact
<1>2. Life[t] = "running" /\ Left[t] = RetriesLeft(t, retryCount[t])
  BY <1>1, LifeReads
<1>3. retryCount[t] \in Int /\ Budget(t) \in Int
  BY <1>1, FieldsAssumption DEF SchedulerTypeOK, Budget, DefaultMaxRetries
<1>4. CASE Retry(t)
  <2>1. /\ \A u \in Tasks : status'[u] = IF u = t THEN "pending" ELSE status[u]
        /\ \A u \in Tasks : retryCount'[u] = IF u = t THEN retryCount[u] + 1 ELSE retryCount[u]
    BY <1>4 DEF Retry, SchedulerTypeOK
  <2>2. Life' = [Life EXCEPT ![t] = "waiting"]
    BY <1>1, <2>1, OneLifeChanges
  <2>3. Left[t] > 0 /\ RetriesLeft(t, retryCount[t] + 1) = Left[t] - 1
    BY <1>2, <1>3, <1>4 DEF Retry, RetriesLeft
  <2>4. Left' = [Left EXCEPT ![t] = @ - 1]
    <3>1. \A u \in Tasks : Left'[u] = RetriesLeft(u, retryCount'[u])
      BY DEF Left, RetriesLeft, Budget
    <3>2. \A u \in Tasks : Left'[u] = IF u = t THEN Left[u] - 1 ELSE Left[u]
      BY <2>1, <2>3, <3>1, LifeReads
    <3> QED
      BY <3>2 DEF Left
  <2>5. L!TryAgain(t)
    BY <1>1, <1>2, <2>2, <2>3, <2>4 DEF L!TryAgain
  <2> QED
    BY <1>1, <2>5 DEF L!Next
<1>5. CASE FailForGood(t)
  <2>1. /\ \A u \in Tasks : status'[u] = IF u = t THEN "failed" ELSE status[u]
        /\ UNCHANGED retryCount
    BY <1>5 DEF FailForGood, TransitionToFailed, SchedulerTypeOK
  <2>2. Life' = [Life EXCEPT ![t] = "failed"]
    BY <1>1, <2>1, OneLifeChanges
  <2>3. Left[t] = 0
    BY <1>2, <1>3, <1>5 DEF FailForGood, RetriesLeft
  <2>4. L!GiveUp(t)
    BY <1>1, <1>2, <2>1, <2>2, <2>3, LeftStays DEF L!GiveUp
  <2> QED
    BY <1>1, <2>4 DEF L!Next
<1> QED
  BY <1>1, <1>4, <1>5 DEF NotifyFail, HandleFailure

(* Completion: the dependents it releases were waiting and wait on.           *)
LEMMA NotifyCompleteImplements ==
    ASSUME LiveInv, PayloadExact, NEW w \in Workers, NotifyComplete(w)
    PROVE  [L!Next]_<<Life, Left>>
<1> USE DEF LiveInv, TypeOK
<1> DEFINE t == holding[w]
<1>1. t \in Tasks /\ status[t] = "running" /\ t \notin FailPayload
  BY HolderFacts DEF NotifyComplete, PayloadExact
<1>2. CompleteAndRelease(t)
  BY <1>1 DEF NotifyComplete, HandleComplete
<1>3. ASSUME NEW u \in dependents[t], status[u] \notin Terminal
      PROVE  u \in Tasks /\ u # t /\ status[u] = "pending"
  <2>1. u \in Tasks /\ status[u] # "absent" /\ t \in Unmet(u)
    BY <1>1 DEF CoreInv, GraphExact, Present, Unmet
  <2>2. status[u] \notin {"ready", "running", "completed"}
    BY <2>1 DEF CoreInv, DepsRespected
  <2> QED
    BY <1>1, <1>3, <2>1, <2>2 DEF SchedulerTypeOK, Terminal
<1>4. \A u \in Tasks : LifeOf(status'[u]) = IF u = t THEN "completed" ELSE LifeOf(status[u])
  <2>1. \A u \in Tasks : \/ status'[u] = IF u = t THEN "completed" ELSE status[u]
                         \/ /\ u # t /\ status'[u] = "ready" /\ status[u] = "pending"
    BY <1>1, <1>2, <1>3 DEF CompleteAndRelease, SchedulerTypeOK, Terminal
  <2> QED
    BY <2>1
<1>5. Life' = [Life EXCEPT ![t] = "completed"] /\ UNCHANGED retryCount
  BY <1>1, <1>2, <1>4, OneLifeChanges DEF CompleteAndRelease
<1>6. L!Succeed(t)
  BY <1>1, <1>5, LifeReads, LeftStays DEF L!Succeed
<1> QED
  BY <1>1, <1>6 DEF L!Next

(* A round of a cascade: the task it fails was waiting for a failed one.      *)
LEMMA CascadeImplements ==
    ASSUME LiveInv, CascadeStep
    PROVE  [L!Next]_<<Life, Left>>
<1> USE DEF LiveInv, TypeOK
<1>1. PICK t \in Tasks : PropagateFailure(t)
  BY DEF CascadeStep
<1>2. t \in cascade /\ status[t] \in {"pending", "failed"} /\ UNCHANGED retryCount
  BY <1>1, CascadeFacts DEF PropagateFailure
<1>3. CASE status[t] = "failed"
  <2>1. UNCHANGED status
    BY <1>1, <1>3 DEF PropagateFailure, Terminal
  <2> QED
    BY <1>2, <2>1, LifeStutters
<1>4. CASE status[t] = "pending"
  <2>1. \A u \in Tasks : status'[u] = IF u = t THEN "failed" ELSE status[u]
    BY <1>1, <1>4 DEF PropagateFailure, TransitionToFailed, SchedulerTypeOK, Terminal
  <2>2. Life' = [Life EXCEPT ![t] = "failed"]
    BY <2>1, OneLifeChanges
  <2>3. \E d \in Dependencies[t] : Life[d] = "failed"
    BY <1>2, LifeReads, FieldsAssumption DEF CoreInv, CascadeCaused
  <2>4. L!GoDown(t)
    BY <1>2, <1>4, <2>2, <2>3, LifeReads, LeftStays DEF L!GoDown
  <2> QED
    BY <2>4 DEF L!Next
<1> QED
  BY <1>2, <1>3, <1>4

(* Every step of Engine is a step of Lifecycle or a stutter.                  *)
LEMMA StepImplements == LiveInv /\ PayloadExact /\ [Next]_vars => [L!Next]_<<Life, Left>>
<1> SUFFICES ASSUME LiveInv, PayloadExact, [Next]_vars
             PROVE  [L!Next]_<<Life, Left>>
  OBVIOUS
<1>1. ASSUME UNCHANGED schedVars
      PROVE  [L!Next]_<<Life, Left>>
  BY <1>1, LifeStutters DEF schedVars
<1>2. ASSUME NEW b \in Batches, Persist(b) \/ Ingest(b)
      PROVE  [L!Next]_<<Life, Left>>
  BY <1>1, <1>2, IngestImplements DEF Persist
<1>3. ASSUME NEW w \in Workers, WorkerNext(w)
      PROVE  [L!Next]_<<Life, Left>>
  <2>1. CASE HandOff(w) \/ StartTask(w) \/ FailTask(w) \/ CompleteTask(w)
    BY <1>1, <2>1 DEF HandOff, StartTask, FailTask, CompleteTask
  <2> QED
    BY <1>3, <2>1, NotifyFailImplements, NotifyCompleteImplements DEF WorkerNext
<1>4. ASSUME NEW t \in Tasks, RetryFires(t)
      PROVE  [L!Next]_<<Life, Left>>
  <2>1. /\ \A u \in Tasks : LifeOf(status'[u]) = LifeOf(status[u])
        /\ UNCHANGED retryCount
    BY <1>4 DEF RetryFires, HandleRetryEnqueue, LiveInv, TypeOK, SchedulerTypeOK
  <2> QED
    BY <2>1, LifeStutters
<1>5. CASE UNCHANGED vars
  BY <1>1, <1>5 DEF vars
<1> QED
  BY <1>2, <1>3, <1>4, <1>5, PopImplements, CascadeImplements DEF Next

(* Engine implements Lifecycle (handleIngest, handleComplete, handleFailure,  *)
(* propagateFailure, the pop of runLoop; every other step is invisible).      *)
THEOREM Refinement == Spec => ImplementsLifecycle
<1>1. Init => L!Init
  <2> SUFFICES ASSUME Init
               PROVE  L!Init
    OBVIOUS
  <2>1. Life = [t \in Tasks |-> "unknown"]
    BY DEF Init, SchedulerInit, Life
  <2>2. Left = [t \in Tasks |-> L!RetriesLeft(t, FirstRetry[t])]
    BY DEF Init, SchedulerInit, Left, RetriesLeft, L!RetriesLeft, Budget, L!Budget,
           DefaultMaxRetries, L!DefaultMaxRetries
  <2> QED
    BY <2>1, <2>2 DEF L!Init
<1>2. Init => PayloadExact
  BY DEF Init, PayloadExact
<1>3. IInv => LiveInv
  BY DEF IInv
<1> QED
  BY <1>1, <1>2, <1>3, StepImplements, NextPayload, Invariance, PTL
     DEF Spec, ImplementsLifecycle, L!Spec

HIDE DEF LifeOf

-----------------------------------------------------------------------------
(* The log and the state: what a log says of a task, which record may follow  *)
(* it, and how the state of the run loop and of the workers agrees with what  *)
(* has been written. The definitions speak of a log, not of the variable: the *)
(* running engine appends to it, and a replay reads it record by record.      *)

-----------------------------------------------------------------------------
(* What a log says                                                            *)

Has(r, log) == \E i \in 1 .. Len(log) : log[i] = r
Count(r, log) == Cardinality({i \in 1 .. Len(log) : log[i] = r})

Ingested(t, log) == \E b \in Batches : t \in b /\ Has(IngestRecord(b), log)
Starts(t, log) == Count(StartRecord(t), log)
Fails(t, log) == Count(FailRecord(t), log)

(* The failures have used up the budget; with a cascade, the ways to fail.    *)
Allowed(t) == RetriesLeft(t, FirstRetry[t])
Exhausted(t, log) == Fails(t, log) > Allowed(t)
Dead(t, log) == Has(CascadeRecord(t), log) \/ Exhausted(t, log)

(* The last attempt of t has begun and not ended.                             *)
Ends(t) == {CompleteRecord(t), FailRecord(t), CascadeRecord(t)}
Open(t, log) ==
    \E i \in 1 .. Len(log) :
        log[i] = StartRecord(t) /\ \A j \in i + 1 .. Len(log) : log[j] \notin Ends(t)

(* A record about a task may follow a log that knows the task and has not     *)
(* settled it; an attempt begins when the dependencies have completed, and    *)
(* what ends an attempt follows its beginning.                                *)
Lawful(r, log) ==
    r.type # "INGEST" =>
        /\ Ingested(r.task, log)
        /\ ~Has(CompleteRecord(r.task), log)
        /\ ~Dead(r.task, log)
        /\ r.type = "START" => \A d \in Dependencies[r.task] : Has(CompleteRecord(d), log)
        /\ r.type \in {"COMPLETE", "FAIL"} => Open(r.task, log)

Before(i) == SubSeq(wal, 1, i - 1)
LogLawful == \A i \in 1 .. Len(wal) : Lawful(wal[i], Before(i))

(* The log never shows more failures than the budget allows, and one.         *)
FailsBounded == \A t \in Tasks : Fails(t, wal) <= Allowed(t) + 1

-----------------------------------------------------------------------------
(* The state against a log                                                    *)

At(label) == {t \in Tasks : \E w \in Workers : holding[w] = t /\ pc[w] = label}
Picked == At("picked")
Executing == At("executing")
Failing == At("failing")
Completing == At("completing")

(* What the scheduler knows of t and what the goroutines do with it is backed *)
(* by the log.                                                                *)
Backed(t, log) ==
    /\ status[t] # "absent" => Ingested(t, log)
    /\ status[t] = "completed" => Has(CompleteRecord(t), log)
    /\ status[t] = "failed" => Dead(t, log)
    /\ pushed = t \/ t \in Picked \cup Executing =>
          ~Has(CompleteRecord(t), log) /\ ~Dead(t, log)
    /\ t \in Executing => Open(t, log)
    /\ t \in Failing => Fails(t, log) > 0
    /\ t \in Completing => Has(CompleteRecord(t), log)

(* What the log says of t has reached the scheduler, or is on its way with    *)
(* the worker that wrote the record.                                          *)
Delivered(t, log) ==
    /\ Has(CompleteRecord(t), log) => status[t] = "completed" \/ t \in Completing
    /\ Has(CascadeRecord(t), log) => status[t] = "failed"
    /\ Exhausted(t, log) => status[t] = "failed" \/ t \in Failing
    /\ status[t] = "absent" => Fails(t, log) = 0
    /\ retryCount[t] = FirstRetry[t] + Fails(t, log)
                       - IF Exhausted(t, log) \/ t \in Failing THEN 1 ELSE 0

(* A request on its way to the run loop, or past it, is in the log.           *)
RequestsLogged ==
    \A b \in Batches : submission[b] \in {"persisted", "accepted"} => Has(IngestRecord(b), wal)

-----------------------------------------------------------------------------
(* Records                                                                    *)

(* The constructors of WalEntry give records that can be told apart.          *)
LEMMA RecordFacts ==
    /\ \A b : IngestRecord(b).type = "INGEST" /\ IngestRecord(b).tasks = b
    /\ \A t : StartRecord(t).type = "START" /\ StartRecord(t).task = t
    /\ \A t : CompleteRecord(t).type = "COMPLETE" /\ CompleteRecord(t).task = t
    /\ \A t : FailRecord(t).type = "FAIL" /\ FailRecord(t).task = t
    /\ \A t : CascadeRecord(t).type = "CASCADE" /\ CascadeRecord(t).task = t
BY DEF IngestRecord, StartRecord, CompleteRecord, FailRecord, CascadeRecord

(* Every record is one of the five kinds.                                     *)
LEMMA RecordKinds ==
    ASSUME NEW r \in Record
    PROVE  \/ \E b \in Batches : r = IngestRecord(b)
           \/ \E t \in Tasks : r \in {StartRecord(t), CompleteRecord(t), FailRecord(t),
                                      CascadeRecord(t)}
BY DEF Record, IngestRecord, StartRecord, CompleteRecord, FailRecord, CascadeRecord

(* The constructors give records.                                             *)
LEMMA RecordTypes ==
    /\ \A b \in Batches : IngestRecord(b) \in Record
    /\ \A t \in Tasks : /\ StartRecord(t) \in Record
                        /\ CompleteRecord(t) \in Record
                        /\ FailRecord(t) \in Record
                        /\ CascadeRecord(t) \in Record
BY DEF Record, IngestRecord, StartRecord, CompleteRecord, FailRecord, CascadeRecord

-----------------------------------------------------------------------------
(* One more record                                                            *)

(* What an append leaves of a sequence, and where the record goes.            *)
LEMMA AppendFacts ==
    ASSUME NEW log \in Seq(Record), NEW r \in Record
    PROVE  /\ Append(log, r) \in Seq(Record)
           /\ Len(log) \in Nat
           /\ Len(Append(log, r)) = Len(log) + 1
           /\ 1 .. Len(log) + 1 = (1 .. Len(log)) \cup {Len(log) + 1}
           /\ \A i \in 1 .. Len(log) : Append(log, r)[i] = log[i]
           /\ Append(log, r)[Len(log) + 1] = r
OBVIOUS

(* What is in the longer log is in the shorter one, or is the last record.    *)
LEMMA HasAppend ==
    ASSUME NEW log \in Seq(Record), NEW r \in Record
    PROVE  \A x : Has(x, Append(log, r)) <=> Has(x, log) \/ r = x
BY AppendFacts DEF Has

(* A record counts from its own place on.                                     *)
LEMMA CountAppend ==
    ASSUME NEW log \in Seq(Record), NEW r \in Record, NEW x
    PROVE  /\ Count(x, log) \in Nat
           /\ Count(x, log) > 0 <=> Has(x, log)
           /\ Count(x, Append(log, r)) = Count(x, log) + IF r = x THEN 1 ELSE 0
<1> DEFINE places(s) == {i \in 1 .. Len(s) : s[i] = x}
<1>1. IsFiniteSet(places(log)) /\ Count(x, log) \in Nat
  <2>1. IsFiniteSet(1 .. Len(log))
    BY AppendFacts, FS_Interval
  <2>2. places(log) \in SUBSET (1 .. Len(log))
    OBVIOUS
  <2> QED
    BY <2>1, <2>2, FS_Subset, FS_CardinalityType DEF Count
<1>2. Count(x, log) > 0 <=> Has(x, log)
  <2>1. Cardinality(places(log)) = 0 <=> places(log) = {}
    BY <1>1, FS_EmptySet
  <2> QED
    BY <1>1, <2>1 DEF Count, Has
<1>3. CASE r = x
  <2>1. places(Append(log, r)) = places(log) \cup {Len(log) + 1}
    BY <1>3, AppendFacts
  <2>2. Len(log) + 1 \notin places(log)
    BY AppendFacts
  <2>3. Cardinality(places(log) \cup {Len(log) + 1}) = Cardinality(places(log)) + 1
    BY <1>1, <2>2, FS_AddElement
  <2> QED
    BY <1>1, <1>2, <1>3, <2>1, <2>3 DEF Count
<1>4. CASE r # x
  <2>1. places(Append(log, r)) = places(log)
    BY <1>4, AppendFacts
  <2>2. Count(x, Append(log, r)) = Count(x, log)
    BY ONLY <2>1 DEF Count
  <2> QED
    BY <1>1, <1>2, <1>4, <2>2
<1> QED
  BY <1>3, <1>4

(* An attempt is open from its START on, until a record ends it.              *)
LEMMA OpenAppend ==
    ASSUME NEW log \in Seq(Record), NEW r \in Record, NEW t
    PROVE  Open(t, Append(log, r)) <=> r = StartRecord(t) \/ (Open(t, log) /\ r \notin Ends(t))
<1> DEFINE new == Append(log, r)
<1>0. PICK n \in Nat : n = Len(log)
  BY AppendFacts
<1>1. /\ Len(new) = n + 1 /\ new[n + 1] = r
      /\ \A i \in 1 .. n : new[i] = log[i]
  BY <1>0, AppendFacts
<1> HIDE DEF new
<1>2. ASSUME r = StartRecord(t)
      PROVE  Open(t, new)
  <2>1. n + 1 \in 1 .. n + 1 /\ (n + 1) + 1 .. n + 1 = {}
    OBVIOUS
  <2> QED
    BY <1>1, <1>2, <2>1 DEF Open
<1>3. ASSUME Open(t, log), r \notin Ends(t)
      PROVE  Open(t, new)
  <2>1. PICK i \in 1 .. n : log[i] = StartRecord(t) /\ \A j \in i + 1 .. n : log[j] \notin Ends(t)
    BY <1>0, <1>3 DEF Open
  <2>2. /\ i \in 1 .. n + 1
        /\ \A j \in i + 1 .. n + 1 : (j \in i + 1 .. n /\ j \in 1 .. n) \/ j = n + 1
    OBVIOUS
  <2>3. \A j \in i + 1 .. n + 1 : new[j] \notin Ends(t)
    BY <1>1, <1>3, <2>1, <2>2
  <2> QED
    BY <1>1, <2>1, <2>2, <2>3 DEF Open
<1>4. ASSUME Open(t, new), r # StartRecord(t)
      PROVE  Open(t, log) /\ r \notin Ends(t)
  <2>1. PICK i \in 1 .. n + 1 :
          new[i] = StartRecord(t) /\ \A j \in i + 1 .. n + 1 : new[j] \notin Ends(t)
    BY <1>1, <1>4 DEF Open
  <2>2. i \in 1 .. n /\ n + 1 \in i + 1 .. n + 1
    BY <1>1, <1>4, <2>1
  <2>3. \A j \in i + 1 .. n : j \in i + 1 .. n + 1 /\ j \in 1 .. n
    BY <2>2
  <2>4. log[i] = StartRecord(t) /\ \A j \in i + 1 .. n : log[j] \notin Ends(t)
    BY <1>1, <2>1, <2>2, <2>3
  <2> QED
    BY <1>0, <1>1, <2>1, <2>2, <2>4 DEF Open
<1> QED
  BY <1>2, <1>3, <1>4 DEF new

(* An empty log says nothing.                                                 *)
LEMMA NothingYet ==
    /\ \A r : ~Has(r, << >>) /\ Count(r, << >>) = 0
    /\ \A t : ~Ingested(t, << >>) /\ ~Open(t, << >>)
<1>1. 1 .. Len(<< >>) = {}
  OBVIOUS
<1>2. \A r : {i \in 1 .. Len(<< >>) : << >>[i] = r} = {}
  BY <1>1
<1> QED
  BY <1>1, <1>2, FS_EmptySet DEF Has, Count, Ingested, Open

(* A batch is known to the log from its record on.                            *)
LEMMA IngestedAppend ==
    ASSUME NEW log \in Seq(Record), NEW r \in Record, NEW t
    PROVE  Ingested(t, Append(log, r)) <=>
             Ingested(t, log) \/ \E b \in Batches : t \in b /\ r = IngestRecord(b)
BY HasAppend DEF Ingested

(* What a log says of t is in the other log as well, and nothing more.        *)
SaysSame(t, log, new) ==
    /\ Has(CompleteRecord(t), new) <=> Has(CompleteRecord(t), log)
    /\ Has(CascadeRecord(t), new) <=> Has(CascadeRecord(t), log)
    /\ Fails(t, new) = Fails(t, log)
    /\ Starts(t, new) = Starts(t, log)
    /\ Open(t, new) <=> Open(t, log)
    /\ Ingested(t, log) => Ingested(t, new)

(* A record about something else says nothing of t.                           *)
LEMMA SilentAppend ==
    ASSUME NEW log \in Seq(Record), NEW r \in Record, NEW t \in Tasks,
           r.type = "INGEST" \/ r.task # t
    PROVE  SaysSame(t, log, Append(log, r))
<1>1. r \notin {StartRecord(t), CompleteRecord(t), FailRecord(t), CascadeRecord(t)}
  BY RecordFacts
<1>2. Has(CompleteRecord(t), Append(log, r)) <=> Has(CompleteRecord(t), log)
  BY <1>1, HasAppend
<1>3. Has(CascadeRecord(t), Append(log, r)) <=> Has(CascadeRecord(t), log)
  BY <1>1, HasAppend
<1>4. Fails(t, Append(log, r)) = Fails(t, log)
  BY <1>1, CountAppend DEF Fails
<1>5. Starts(t, Append(log, r)) = Starts(t, log)
  BY <1>1, CountAppend DEF Starts
<1>6. Open(t, Append(log, r)) <=> Open(t, log)
  BY <1>1, OpenAppend DEF Ends
<1> QED
  BY <1>2, <1>3, <1>4, <1>5, <1>6, IngestedAppend DEF SaysSame

(* What a record about t adds to what the log says of t.                      *)
LEMMA TaskAppend ==
    ASSUME NEW log \in Seq(Record), NEW r \in Record, NEW t \in Tasks
    PROVE  /\ Has(CompleteRecord(t), Append(log, r)) <=>
                 Has(CompleteRecord(t), log) \/ r = CompleteRecord(t)
           /\ Has(CascadeRecord(t), Append(log, r)) <=>
                 Has(CascadeRecord(t), log) \/ r = CascadeRecord(t)
           /\ Fails(t, log) \in Nat
           /\ Fails(t, Append(log, r)) = Fails(t, log) + IF r = FailRecord(t) THEN 1 ELSE 0
           /\ Starts(t, log) \in Nat
           /\ Starts(t, Append(log, r)) = Starts(t, log) + IF r = StartRecord(t) THEN 1 ELSE 0
           /\ Ingested(t, log) => Ingested(t, Append(log, r))
BY HasAppend, CountAppend, IngestedAppend DEF Fails, Starts

(* Prefixes of a log.                                                         *)
LEMMA Prefixes ==
    ASSUME NEW log \in Seq(Record)
    PROVE  /\ SubSeq(log, 1, 0) = << >>
           /\ SubSeq(log, 1, Len(log)) = log
           /\ \A n \in 0 .. Len(log) : SubSeq(log, 1, n) \in Seq(Record)
           /\ \A n \in 0 .. Len(log) - 1 :
                 SubSeq(log, 1, n + 1) = Append(SubSeq(log, 1, n), log[n + 1])
<1>1. \A n \in 0 .. Len(log) : SubSeq(log, 1, n) \in Seq(Record)
  OBVIOUS
<1>2. SubSeq(log, 1, Len(log)) = log
  OBVIOUS
<1>3. ASSUME NEW n \in 0 .. Len(log) - 1
      PROVE  SubSeq(log, 1, n + 1) = Append(SubSeq(log, 1, n), log[n + 1])
  <2>1. /\ SubSeq(log, 1, n + 1) \in Seq(Record) /\ Len(SubSeq(log, 1, n + 1)) = n + 1
        /\ SubSeq(log, 1, n) \in Seq(Record) /\ Len(SubSeq(log, 1, n)) = n
        /\ log[n + 1] \in Record
    BY <1>1
  <2>2. \A i \in 1 .. n + 1 :
           SubSeq(log, 1, n + 1)[i] = Append(SubSeq(log, 1, n), log[n + 1])[i]
    BY <2>1
  <2> QED
    BY <2>1, <2>2, SeqEqual
<1> QED
  BY <1>1, <1>2, <1>3

(* An append leaves the prefixes alone.                                       *)
LEMMA PrefixAppend ==
    ASSUME NEW log \in Seq(Record), NEW r \in Record, NEW n \in 0 .. Len(log)
    PROVE  SubSeq(Append(log, r), 1, n) = SubSeq(log, 1, n)
<1>1. /\ SubSeq(log, 1, n) \in Seq(Record) /\ Len(SubSeq(log, 1, n)) = n
      /\ SubSeq(Append(log, r), 1, n) \in Seq(Record) /\ Len(SubSeq(Append(log, r), 1, n)) = n
  BY AppendFacts
<1>2. \A i \in 1 .. n : SubSeq(Append(log, r), 1, n)[i] = SubSeq(log, 1, n)[i]
  BY AppendFacts
<1> QED
  BY <1>1, <1>2, SeqEqual

(* A lawful record keeps the log lawful and the failures within bounds.       *)
LEMMA AppendLawful ==
    ASSUME WalTypeOK, LogLawful, FailsBounded,
           NEW r \in Record, Lawful(r, wal), wal' = Append(wal, r)
    PROVE  LogLawful' /\ FailsBounded'
<1> USE DEF WalTypeOK
<1>1. ASSUME NEW i \in 1 .. Len(wal')
      PROVE  Lawful(wal'[i], SubSeq(wal', 1, i - 1))
  <2>1. SubSeq(wal', 1, i - 1) = SubSeq(wal, 1, i - 1)
    BY AppendFacts, PrefixAppend
  <2>2. CASE i \in 1 .. Len(wal)
    BY <2>1, <2>2, AppendFacts DEF LogLawful, Before
  <2>3. CASE i = Len(wal) + 1
    <3>1. i - 1 = Len(wal)
      BY <2>3
    <3> QED
      BY <2>1, <2>3, <3>1, AppendFacts, Prefixes
  <2> QED
    BY <2>2, <2>3, AppendFacts
<1>2. ASSUME NEW t \in Tasks
      PROVE  Fails(t, wal') <= Allowed(t) + 1
  <2>1. Allowed(t) \in Nat
    BY FieldsAssumption DEF Allowed, RetriesLeft, Budget, DefaultMaxRetries
  <2>2. Fails(t, wal) <= Allowed(t) + 1
    BY DEF FailsBounded
  <2>3. CASE r = FailRecord(t)
    <3>1. ~Exhausted(t, wal)
      BY <2>3, RecordFacts DEF Lawful, Dead
    <3> QED
      BY <2>1, <2>3, <3>1, TaskAppend DEF Exhausted
  <2> QED
    BY <2>1, <2>2, <2>3, TaskAppend
<1> QED
  BY <1>1, <1>2 DEF LogLawful, Before, FailsBounded, Allowed, RetriesLeft, Budget

-----------------------------------------------------------------------------
(* The hands                                                                  *)

(* A task in a worker's hands is running, is not with the dispatch loop and   *)
(* is at one place only.                                                      *)
LEMMA AtFacts ==
    ASSUME LiveInv
    PROVE  /\ \A l : \A t \in At(l) : t \in Tasks /\ status[t] = "running" /\ t # pushed
           /\ \A l, m : \A t \in At(l) : t \in At(m) => l = m
<1>1. ASSUME NEW l, NEW t \in At(l)
      PROVE  /\ t \in Tasks /\ status[t] = "running" /\ t # pushed
             /\ \A m : t \in At(m) => l = m
  <2>1. PICK w \in Workers : t \in Tasks /\ holding[w] = t /\ pc[w] = l
    BY <1>1 DEF At
  <2>2. \A v \in Workers : holding[v] = t => v = w
    BY <2>1, TasksAssumption DEF LiveInv, SingleHolder
  <2>3. status[t] = "running" /\ t # pushed
    BY <2>1, TasksAssumption DEF Held, LiveInv, SingleHolder
  <2>4. ASSUME NEW m, t \in At(m)
        PROVE  l = m
    BY <2>1, <2>2, <2>4 DEF At
  <2> QED
    BY <2>1, <2>3, <2>4
<1> QED
  BY <1>1

(* A worker is where its task is.                                             *)
LEMMA AtHolder ==
    ASSUME NEW w \in Workers, holding[w] \in Tasks
    PROVE  holding[w] \in At(pc[w])
BY DEF At

(* Nothing changes hands.                                                     *)
LEMMA AtStays ==
    ASSUME UNCHANGED <<pc, holding>>
    PROVE  \A l : At(l)' = At(l)
BY DEF At

(* The worker that takes a task from the dispatch loop.                       *)
LEMMA AtHandOff ==
    ASSUME LiveInv, NEW w \in Workers, HandOff(w)
    PROVE  /\ pushed \in Tasks
           /\ \A l : \A t \in Tasks : t \in At(l)' <=> t \in At(l) \/ (t = pushed /\ l = "picked")
<1>1. /\ pushed \in Tasks /\ holding[w] = NoTask
      /\ \A v \in Workers : /\ pc'[v] = IF v = w THEN "picked" ELSE pc[v]
                            /\ holding'[v] = IF v = w THEN pushed ELSE holding[v]
  BY DEF HandOff, LiveInv, TypeOK, EngineTypeOK, HoldingExact
<1> QED
  BY <1>1, TasksAssumption DEF At

(* A worker that goes on moves its task, and no other.                        *)
LEMMA AtGoTo ==
    ASSUME LiveInv, NEW w \in Workers, NEW label, holding[w] \in Tasks, GoTo(w, label)
    PROVE  \A l : \A t \in Tasks :
              t \in At(l)' <=> IF t = holding[w] THEN l = label ELSE t \in At(l)
<1>1. \A v \in Workers : pc'[v] = (IF v = w THEN label ELSE pc[v]) /\ holding'[v] = holding[v]
  BY DEF GoTo, LiveInv, TypeOK, EngineTypeOK
<1>2. \A v \in Workers : holding[v] = holding[w] => v = w
  BY TasksAssumption DEF LiveInv, SingleHolder
<1> QED
  BY <1>1, <1>2 DEF At

(* A worker that returns lets go of its task, and of no other.                *)
LEMMA AtReturn ==
    ASSUME LiveInv, NEW w \in Workers, holding[w] \in Tasks, Return(w)
    PROVE  \A l : \A t \in Tasks : t \in At(l)' <=> t # holding[w] /\ t \in At(l)
<1>1. \A v \in Workers : /\ pc'[v] = IF v = w THEN "idle" ELSE pc[v]
                         /\ holding'[v] = IF v = w THEN NoTask ELSE holding[v]
  BY DEF Return, LiveInv, TypeOK, EngineTypeOK
<1>2. \A v \in Workers : holding[v] = holding[w] => v = w
  BY TasksAssumption DEF LiveInv, SingleHolder
<1> QED
  BY <1>1, <1>2, TasksAssumption DEF At

-----------------------------------------------------------------------------
(* The log and the steps of the engine                                        *)

WrittenInv == LogLawful /\ FailsBounded /\ \A t \in Tasks : Backed(t, wal)
DeliveredInv == \A t \in Tasks : Delivered(t, wal)

(* A step leaves t with whoever has it, and moves its status, if at all,      *)
(* between those the log does not show.                                       *)
Hidden == {"pending", "ready", "running"}
HandsSame(t) ==
    /\ pushed' = t <=> pushed = t
    /\ t \in Picked' <=> t \in Picked
    /\ t \in Executing' <=> t \in Executing
    /\ t \in Failing' <=> t \in Failing
    /\ t \in Completing' <=> t \in Completing
StatusSame(t) ==
    /\ status'[t] = status[t] \/ {status[t], status'[t]} \subseteq Hidden
    /\ retryCount'[t] = retryCount[t]

(* Then what was true of t stays true, with a log that says the same of t.    *)
LEMMA Untouched ==
    ASSUME NEW t \in Tasks, NEW log, NEW new, SaysSame(t, log, new),
           HandsSame(t), StatusSame(t)
    PROVE  /\ Backed(t, log) => Backed(t, new)'
           /\ Delivered(t, log) => Delivered(t, new)'
BY DEF SaysSame, HandsSame, StatusSame, Hidden, Backed, Delivered, Dead, Exhausted, Allowed,
       RetriesLeft, Budget

(* A log says of t what it says.                                              *)
LEMMA SaysItself == \A t, log : SaysSame(t, log, log)
BY DEF SaysSame

(* When nothing changes hands.                                                *)
LEMMA HandsUntouched ==
    ASSUME UNCHANGED <<pushed, pc, holding>>
    PROVE  \A t : HandsSame(t)
BY AtStays DEF HandsSame, Picked, Executing, Failing, Completing

(* A step that does not write keeps the log as it is.                         *)
LEMMA LogStays ==
    ASSUME UNCHANGED wal
    PROVE  LogLawful /\ FailsBounded => LogLawful' /\ FailsBounded'
BY DEF LogLawful, FailsBounded, Before

(* A step that neither writes nor settles anything nor changes hands.         *)
LEMMA QuietStep ==
    ASSUME WrittenInv, UNCHANGED <<wal, pushed, pc, holding>>,
           \A t \in Tasks : StatusSame(t)
    PROVE  WrittenInv' /\ (DeliveredInv => DeliveredInv')
<1>1. \A t \in Tasks : (Backed(t, wal) => Backed(t, wal)') /\ (Delivered(t, wal) => Delivered(t, wal)')
  BY SaysItself, HandsUntouched, Untouched
<1> QED
  BY <1>1, LogStays DEF WrittenInv, DeliveredInv

(* handleSubmitDAG: AppendIngest                                              *)
LEMMA PersistLogged ==
    ASSUME LiveInv, WrittenInv, walErrors' = 0, NEW b \in Batches, Persist(b)
    PROVE  WrittenInv' /\ (DeliveredInv => DeliveredInv')
<1> DEFINE r == IngestRecord(b)
<1>1. /\ wal' = Append(wal, r) /\ r \in Record /\ r.type = "INGEST" /\ WalTypeOK
      /\ UNCHANGED <<status, retryCount, pushed, pc, holding>>
  <2>1. ~AppendError(r)
    BY WalAssumption DEF AppendError, LiveInv, TypeOK, WalTypeOK
  <2> QED
    BY <2>1, RecordFacts, RecordTypes DEF Persist, AppendOk, schedVars, LiveInv, TypeOK
<1> HIDE DEF r
<1>2. LogLawful' /\ FailsBounded'
  BY <1>1, AppendLawful DEF WrittenInv, Lawful
<1>3. \A t \in Tasks : SaysSame(t, wal, wal')
  BY <1>1, SilentAppend DEF WalTypeOK
<1>4. \A t \in Tasks : HandsSame(t) /\ StatusSame(t)
  BY <1>1, HandsUntouched DEF StatusSame
<1> QED
  BY <1>2, <1>3, <1>4, Untouched DEF WrittenInv, DeliveredInv

(* handleIngest: what it admits is in the log.                                *)
LEMMA IngestLogged ==
    ASSUME LiveInv, WrittenInv, RequestsLogged, DeliveredInv, NEW b \in Batches, Ingest(b)
    PROVE  WrittenInv' /\ DeliveredInv'
<1>1. UNCHANGED <<wal, pushed, pc, holding>> /\ Has(IngestRecord(b), wal)
  BY DEF Ingest, walVars, RequestsLogged
<1>2. CASE RefuseIngest(b)
  BY <1>1, <1>2, QuietStep DEF RefuseIngest, schedVars, StatusSame
<1>3. CASE HandleIngest(b)
  <2>1. /\ UNCHANGED retryCount
        /\ \A t \in Tasks \ b : status'[t] = status[t]
        /\ \A t \in b : t \in Tasks /\ status[t] = "absent" /\ status'[t] \in Hidden
    BY <1>3, BatchFinite DEF HandleIngest, Admissible, Present, Hidden
  <2>2. ASSUME NEW t \in Tasks \ b
        PROVE  Backed(t, wal)' /\ Delivered(t, wal)'
    BY <1>1, <2>1, SaysItself, HandsUntouched, Untouched DEF WrittenInv, DeliveredInv, StatusSame
  <2>3. ASSUME NEW t \in b
        PROVE  Backed(t, wal)' /\ Delivered(t, wal)'
    <3>1. Ingested(t, wal) /\ HandsSame(t) /\ Backed(t, wal) /\ Delivered(t, wal)
      BY <1>1, <2>1, HandsUntouched DEF Ingested, WrittenInv, DeliveredInv
    <3> QED
      BY <1>1, <2>1, <3>1 DEF HandsSame, Hidden, Backed, Delivered
  <2> QED
    BY <1>1, <2>2, <2>3, LogStays DEF WrittenInv, DeliveredInv
<1> QED
  BY <1>2, <1>3 DEF Ingest

(* The pop case: what is ready has not been settled in the log.               *)
LEMMA PopLogged ==
    ASSUME LiveInv, WrittenInv, DeliveredInv, Pop
    PROVE  WrittenInv' /\ DeliveredInv'
<1>1. UNCHANGED <<wal, pc, holding, retryCount>> /\ pushed = NoTask
  BY DEF Pop, walVars, PopReady, PopNothing
<1>2. ASSUME NEW t \in Tasks, PopReady(t), pushed' = t
      PROVE  WrittenInv' /\ DeliveredInv'
  <2>1. /\ status[t] = "ready"
        /\ \A u \in Tasks : status'[u] = IF u = t THEN "running" ELSE status[u]
    BY <1>2 DEF PopReady, ReadyEntries, LiveInv, TypeOK, SchedulerTypeOK
  <2>2. \A l : At(l)' = At(l) /\ t \notin At(l)
    BY <1>1, <2>1, AtStays, AtFacts
  <2>3. ASSUME NEW u \in Tasks, u # t
        PROVE  Backed(u, wal)' /\ Delivered(u, wal)'
    <3>1. HandsSame(u) /\ StatusSame(u)
      BY <1>1, <1>2, <2>1, <2>2, <2>3, TasksAssumption
         DEF HandsSame, StatusSame, Picked, Executing, Failing, Completing
    <3> QED
      BY <1>1, <3>1, SaysItself, Untouched DEF WrittenInv, DeliveredInv
  <2>4. Backed(t, wal)' /\ Delivered(t, wal)'
    <3>1. Backed(t, wal) /\ Delivered(t, wal)
      BY DEF WrittenInv, DeliveredInv
    <3>2. t \notin Failing \cup Completing /\ t \notin Picked' \cup Executing' \cup Failing' \cup Completing'
      BY <2>2 DEF Picked, Executing, Failing, Completing
    <3> QED
      BY <1>1, <2>1, <3>1, <3>2 DEF Backed, Delivered, Dead
  <2> QED
    BY <1>1, <2>3, <2>4, LogStays DEF WrittenInv, DeliveredInv
<1>3. CASE PopNothing /\ UNCHANGED pushed
  BY <1>1, <1>3, QuietStep DEF PopNothing, StatusSame
<1> QED
  BY <1>2, <1>3 DEF Pop

(* pushLoop hands its task to a worker.                                       *)
LEMMA HandOffLogged ==
    ASSUME LiveInv, WrittenInv, NEW w \in Workers, HandOff(w)
    PROVE  WrittenInv' /\ (DeliveredInv => DeliveredInv')
<1>1. UNCHANGED <<wal, status, retryCount>> /\ pushed' = NoTask
  BY DEF HandOff, walVars, schedVars
<1>2. /\ pushed \in Tasks
      /\ \A l : \A t \in Tasks : t \in At(l)' <=> t \in At(l) \/ (t = pushed /\ l = "picked")
  BY AtHandOff
<1>3. \A l : pushed \notin At(l)
  BY <1>2, AtFacts
<1>4. ASSUME NEW t \in Tasks, t # pushed
      PROVE  /\ Backed(t, wal)'
             /\ DeliveredInv => Delivered(t, wal)'
  <2>1. HandsSame(t) /\ StatusSame(t)
    BY <1>1, <1>2, <1>4, TasksAssumption
       DEF HandsSame, StatusSame, Picked, Executing, Failing, Completing
  <2> QED
    BY <1>1, <2>1, SaysItself, Untouched DEF WrittenInv, DeliveredInv
<1>5. ASSUME NEW t \in Tasks, t = pushed
      PROVE  /\ Backed(t, wal)'
             /\ DeliveredInv => Delivered(t, wal)'
  <2>1. /\ t \notin Executing' \cup Failing' \cup Completing'
        /\ t \notin Failing \cup Completing
    BY <1>2, <1>3, <1>5 DEF Picked, Executing, Failing, Completing
  <2>2. Backed(t, wal) /\ (DeliveredInv => Delivered(t, wal))
    BY DEF WrittenInv, DeliveredInv
  <2> QED
    BY <1>1, <1>5, <2>1, <2>2 DEF Backed, Delivered
<1> QED
  BY <1>1, <1>4, <1>5, LogStays DEF WrittenInv, DeliveredInv

(* A worker writes a record about its task and goes on: what is left to see   *)
(* is what becomes of that task.                                              *)
LEMMA WriteLogged ==
    ASSUME LiveInv, WrittenInv, NEW w \in Workers, NEW held \in Tasks, held = holding[w],
           NEW r \in Record, r.task = held, Lawful(r, wal),
           NEW label, GoTo(w, label), wal' = Append(wal, r),
           UNCHANGED <<schedVars, pushed>>,
           Backed(held, wal)',
           DeliveredInv => Delivered(held, wal)'
    PROVE  WrittenInv' /\ (DeliveredInv => DeliveredInv')
<1>1. LogLawful' /\ FailsBounded' /\ wal \in Seq(Record)
  BY AppendLawful DEF WrittenInv, LiveInv, TypeOK, WalTypeOK
<1>2. ASSUME NEW t \in Tasks, t # held
      PROVE  /\ Backed(t, wal)'
             /\ DeliveredInv => Delivered(t, wal)'
  <2>1. HandsSame(t) /\ StatusSame(t)
    BY <1>2, AtGoTo DEF HandsSame, StatusSame, Picked, Executing, Failing, Completing, schedVars
  <2>2. SaysSame(t, wal, wal')
    BY <1>1, <1>2, SilentAppend
  <2> QED
    BY <2>1, <2>2, Untouched DEF WrittenInv, DeliveredInv
<1>3. WrittenInv'
  BY <1>1, <1>2 DEF WrittenInv
<1>4. DeliveredInv => DeliveredInv'
  BY <1>2 DEF DeliveredInv
<1> QED
  BY <1>3, <1>4

(* A worker appends START: the dependencies have completed, in the log too.   *)
LEMMA StartLogged ==
    ASSUME LiveInv, WrittenInv, walErrors' = 0, NEW w \in Workers, StartTask(w)
    PROVE  WrittenInv' /\ (DeliveredInv => DeliveredInv')
<1>1. PICK t \in Tasks : t = holding[w] /\ status[t] = "running" /\ t \notin cancelled
  BY HolderFacts DEF StartTask
<1> DEFINE r == StartRecord(t)
<1>2. /\ GoTo(w, "executing") /\ wal' = Append(wal, r)
      /\ UNCHANGED <<schedVars, pushed>>
  BY <1>1, WalAssumption DEF StartTask, AppendIgnoringErrors, AppendOk, AppendError,
                             LiveInv, TypeOK, WalTypeOK
<1>3. /\ t \in Picked /\ t \notin Failing \cup Completing
      /\ t \in Executing' /\ t \notin Picked' \cup Failing' \cup Completing'
  BY <1>1, <1>2, AtHolder, AtFacts, AtGoTo DEF StartTask, Picked, Executing, Failing, Completing
<1>4. r \in Record /\ wal \in Seq(Record)
  BY <1>1, RecordTypes DEF LiveInv, TypeOK, WalTypeOK
<1>5. Backed(t, wal) /\ (DeliveredInv => Delivered(t, wal))
  BY <1>1 DEF WrittenInv, DeliveredInv
<1>6. \A d \in Dependencies[t] : Has(CompleteRecord(d), wal)
  <2>1. \A d \in Dependencies[t] : d \in Tasks /\ status[d] = "completed"
    BY <1>1, FieldsAssumption DEF LiveInv, CoreInv, DepsRespected, Unmet
  <2> QED
    BY <2>1 DEF WrittenInv, Backed
<1>7. Lawful(r, wal)
  BY <1>1, <1>3, <1>5, <1>6, RecordFacts DEF Backed, Lawful
<1>8. /\ Has(CompleteRecord(t), wal') <=> Has(CompleteRecord(t), wal)
      /\ Has(CascadeRecord(t), wal') <=> Has(CascadeRecord(t), wal)
      /\ Fails(t, wal') = Fails(t, wal)
      /\ Ingested(t, wal) => Ingested(t, wal')
      /\ Open(t, wal')
  BY <1>1, <1>2, <1>4, TaskAppend, OpenAppend, RecordFacts
<1>9. Backed(t, wal)' /\ (DeliveredInv => Delivered(t, wal)')
  <2>1. UNCHANGED <<status, retryCount, pushed>>
    BY <1>2 DEF schedVars
  <2>2. Backed(t, wal)'
    BY <1>1, <1>3, <1>5, <1>8, <2>1 DEF Backed, Dead, Exhausted, Allowed, RetriesLeft, Budget
  <2>3. DeliveredInv => Delivered(t, wal)'
    BY <1>1, <1>3, <1>5, <1>8, <2>1 DEF Delivered, Exhausted, Allowed, RetriesLeft, Budget
  <2> QED
    BY <2>2, <2>3
<1> QED
  BY <1>1, <1>2, <1>4, <1>7, <1>9, RecordFacts, WriteLogged

(* A worker appends FAIL for the attempt it has begun.                        *)
LEMMA FailLogged ==
    ASSUME LiveInv, WrittenInv, walErrors' = 0, NEW w \in Workers, FailTask(w)
    PROVE  WrittenInv' /\ (DeliveredInv => DeliveredInv')
<1>1. PICK t \in Tasks : t = holding[w] /\ status[t] = "running"
  BY HolderFacts DEF FailTask
<1> DEFINE r == FailRecord(t)
<1>2. /\ GoTo(w, "failing") /\ wal' = Append(wal, r)
      /\ UNCHANGED <<schedVars, pushed>>
  BY <1>1, WalAssumption DEF FailTask, AppendOk, AppendError, LiveInv, TypeOK, WalTypeOK
<1>3. /\ t \in Executing /\ t \notin Failing \cup Completing
      /\ t \in Failing' /\ t \notin Picked' \cup Executing' \cup Completing' /\ t # pushed
  BY <1>1, <1>2, AtHolder, AtFacts, AtGoTo DEF FailTask, Picked, Executing, Failing, Completing
<1>4. r \in Record /\ wal \in Seq(Record)
  BY <1>1, RecordTypes DEF LiveInv, TypeOK, WalTypeOK
<1>5. Backed(t, wal) /\ (DeliveredInv => Delivered(t, wal))
  BY <1>1 DEF WrittenInv, DeliveredInv
<1>6. Lawful(r, wal)
  BY <1>1, <1>3, <1>5, RecordFacts DEF Backed, Lawful
<1>7. /\ Has(CompleteRecord(t), wal') <=> Has(CompleteRecord(t), wal)
      /\ Has(CascadeRecord(t), wal') <=> Has(CascadeRecord(t), wal)
      /\ Fails(t, wal') = Fails(t, wal) + 1 /\ Fails(t, wal) \in Nat
      /\ Ingested(t, wal) => Ingested(t, wal')
  BY <1>1, <1>2, <1>4, TaskAppend, RecordFacts
<1>8. UNCHANGED <<status, retryCount, pushed>>
  BY <1>2 DEF schedVars
<1>9. Backed(t, wal)'
  BY <1>1, <1>3, <1>5, <1>7, <1>8 DEF Backed
<1>10. DeliveredInv => Delivered(t, wal)'
  <2>1. FirstRetry[t] \in Int
    BY FieldsAssumption
  <2> QED
    BY <1>1, <1>3, <1>5, <1>7, <1>8, <2>1 DEF Backed, Delivered, Dead
<1> QED
  BY <1>1, <1>2, <1>4, <1>6, <1>9, <1>10, RecordFacts, WriteLogged

(* A worker appends COMPLETE for the attempt it has begun.                    *)
LEMMA CompleteLogged ==
    ASSUME LiveInv, WrittenInv, walErrors' = 0, NEW w \in Workers, CompleteTask(w)
    PROVE  WrittenInv' /\ (DeliveredInv => DeliveredInv')
<1>1. PICK t \in Tasks : t = holding[w] /\ status[t] = "running" /\ t \notin cancelled
  BY HolderFacts DEF CompleteTask
<1> DEFINE r == CompleteRecord(t)
<1>2. /\ GoTo(w, "completing") /\ wal' = Append(wal, r)
      /\ UNCHANGED <<schedVars, pushed>>
  BY <1>1, WalAssumption DEF CompleteTask, AppendIgnoringErrors, AppendOk, AppendError,
                             LiveInv, TypeOK, WalTypeOK
<1>3. /\ t \in Executing /\ t \notin Failing \cup Completing
      /\ t \in Completing' /\ t \notin Picked' \cup Executing' \cup Failing' /\ t # pushed
  BY <1>1, <1>2, AtHolder, AtFacts, AtGoTo
     DEF CompleteTask, Picked, Executing, Failing, Completing
<1>4. r \in Record /\ wal \in Seq(Record)
  BY <1>1, RecordTypes DEF LiveInv, TypeOK, WalTypeOK
<1>5. Backed(t, wal) /\ (DeliveredInv => Delivered(t, wal))
  BY <1>1 DEF WrittenInv, DeliveredInv
<1>6. Lawful(r, wal)
  BY <1>1, <1>3, <1>5, RecordFacts DEF Backed, Lawful
<1>7. /\ Has(CompleteRecord(t), wal')
      /\ Has(CascadeRecord(t), wal') <=> Has(CascadeRecord(t), wal)
      /\ Fails(t, wal') = Fails(t, wal)
      /\ Ingested(t, wal) => Ingested(t, wal')
  BY <1>1, <1>2, <1>4, TaskAppend, RecordFacts
<1>8. UNCHANGED <<status, retryCount, pushed>>
  BY <1>2 DEF schedVars
<1>9. Backed(t, wal)'
  BY <1>1, <1>3, <1>5, <1>7, <1>8 DEF Backed
<1>10. DeliveredInv => Delivered(t, wal)'
  BY <1>1, <1>3, <1>5, <1>7, <1>8 DEF Backed, Delivered, Exhausted, Allowed, RetriesLeft, Budget
<1> QED
  BY <1>1, <1>2, <1>4, <1>6, <1>9, <1>10, RecordFacts, WriteLogged

(* A worker returns after its notification, which settles its task or lets it *)
(* wait: what is left to see is what becomes of that task.                    *)
LEMMA ReturnLogged ==
    ASSUME LiveInv, WrittenInv, DeliveredInv, NEW w \in Workers,
           NEW held \in Tasks, held = holding[w],
           Return(w), UNCHANGED <<wal, pushed>>,
           \A u \in Tasks : u # held => StatusSame(u),
           Backed(held, wal)', Delivered(held, wal)'
    PROVE  WrittenInv' /\ DeliveredInv'
<1>1. ASSUME NEW t \in Tasks, t # held
      PROVE  Backed(t, wal)' /\ Delivered(t, wal)'
  <2>1. HandsSame(t)
    BY <1>1, AtReturn DEF HandsSame, Picked, Executing, Failing, Completing
  <2> QED
    BY <1>1, <2>1, SaysItself, Untouched DEF WrittenInv, DeliveredInv
<1>2. WrittenInv'
  BY <1>1, LogStays DEF WrittenInv
<1>3. DeliveredInv'
  BY <1>1 DEF DeliveredInv
<1> QED
  BY <1>2, <1>3

(* handleFailure counts what the log shows, and fails the task for good when  *)
(* the log shows that its budget is used up.                                  *)
LEMMA NotifyFailLogged ==
    ASSUME LiveInv, WrittenInv, DeliveredInv, NEW w \in Workers, NotifyFail(w)
    PROVE  WrittenInv' /\ DeliveredInv'
<1>1. PICK t \in Tasks : t = holding[w] /\ status[t] = "running"
  BY HolderFacts DEF NotifyFail
<1>2. /\ Return(w) /\ UNCHANGED <<wal, pushed>>
      /\ Retry(t) \/ FailForGood(t)
  BY <1>1 DEF NotifyFail, HandleFailure, walVars
<1>3. t \in Failing /\ t \notin Completing /\ t # pushed
  BY <1>1, AtHolder, AtFacts DEF NotifyFail, Failing, Completing
<1>4. t \notin Picked' \cup Executing' \cup Failing' \cup Completing'
  BY <1>1, <1>2, AtReturn DEF Picked, Executing, Failing, Completing
<1>5. Backed(t, wal) /\ Delivered(t, wal)
  BY <1>1 DEF WrittenInv, DeliveredInv
<1>6. /\ Fails(t, wal) \in Nat /\ FirstRetry[t] \in Int /\ Budget(t) \in Int
      /\ Fails(t, wal) > 0
      /\ retryCount[t] = FirstRetry[t] + Fails(t, wal) - 1
      /\ Allowed(t) = IF FirstRetry[t] < Budget(t) THEN Budget(t) - FirstRetry[t] ELSE 0
  <2>1. Fails(t, wal) \in Nat
    BY TaskAppend, RecordTypes DEF LiveInv, TypeOK, WalTypeOK
  <2> QED
    BY <1>3, <1>5, <2>1, FieldsAssumption
       DEF Backed, Delivered, Allowed, RetriesLeft, Budget, DefaultMaxRetries
<1>7. Exhausted(t, wal) <=> retryCount[t] >= Budget(t)
  BY <1>6 DEF Exhausted
<1>8. CASE Retry(t)
  <2>1. /\ \A u \in Tasks : u # t => StatusSame(u)
        /\ status'[t] = "pending" /\ retryCount'[t] = retryCount[t] + 1
        /\ ~(retryCount[t] >= Budget(t))
    BY <1>6, <1>8 DEF Retry, StatusSame, LiveInv, TypeOK, SchedulerTypeOK
  <2>2. Backed(t, wal)'
    BY <1>1, <1>2, <1>3, <1>4, <1>5, <2>1 DEF Backed
  <2>3. Delivered(t, wal)'
    <3>1. ~Exhausted(t, wal) /\ ~Has(CompleteRecord(t), wal) /\ ~Has(CascadeRecord(t), wal)
      BY <1>1, <1>3, <1>5, <1>7, <2>1 DEF Delivered
    <3> QED
      BY <1>2, <1>4, <1>6, <2>1, <3>1 DEF Delivered
  <2> QED
    BY <1>1, <1>2, <2>1, <2>2, <2>3, ReturnLogged
<1>9. CASE FailForGood(t)
  <2>1. /\ \A u \in Tasks : u # t => StatusSame(u)
        /\ status'[t] = "failed" /\ retryCount'[t] = retryCount[t]
        /\ retryCount[t] >= Budget(t)
    BY <1>6, <1>9 DEF FailForGood, TransitionToFailed, StatusSame, LiveInv, TypeOK, SchedulerTypeOK
  <2>2. Exhausted(t, wal) /\ Dead(t, wal) /\ ~Has(CompleteRecord(t), wal)
    BY <1>1, <1>3, <1>5, <1>7, <2>1 DEF Dead, Delivered
  <2>3. Backed(t, wal)'
    BY <1>1, <1>2, <1>3, <1>4, <1>5, <2>1, <2>2 DEF Backed
  <2>4. Delivered(t, wal)'
    BY <1>2, <1>4, <1>6, <2>1, <2>2 DEF Delivered
  <2> QED
    BY <1>1, <1>2, <2>1, <2>3, <2>4, ReturnLogged
<1> QED
  BY <1>2, <1>8, <1>9

(* handleComplete completes what the log shows completed.                     *)
LEMMA NotifyCompleteLogged ==
    ASSUME LiveInv, WrittenInv, DeliveredInv, NEW w \in Workers, NotifyComplete(w)
    PROVE  WrittenInv' /\ DeliveredInv'
<1>1. PICK t \in Tasks : t = holding[w] /\ status[t] = "running"
  BY HolderFacts DEF NotifyComplete
<1>2. /\ Return(w) /\ UNCHANGED <<wal, pushed, retryCount>>
      /\ CompleteAndRelease(t)
  BY <1>1 DEF NotifyComplete, HandleComplete, CompleteAndRelease, walVars
<1>3. t \in Completing /\ t \notin Failing /\ t # pushed
  BY <1>1, AtHolder, AtFacts DEF NotifyComplete, Failing, Completing
<1>4. t \notin Picked' \cup Executing' \cup Failing' \cup Completing'
  BY <1>1, <1>2, AtReturn DEF Picked, Executing, Failing, Completing
<1>5. Backed(t, wal) /\ Delivered(t, wal)
  BY <1>1 DEF WrittenInv, DeliveredInv
<1>6. /\ status'[t] = "completed"
      /\ \A u \in Tasks : u # t => StatusSame(u)
  <2>1. PICK freed \in SUBSET dependents[t] :
          /\ \A u \in freed : u \in Tasks /\ u # t /\ status[u] = "pending" /\ Unmet(u) = {t}
          /\ \A u \in Tasks : status'[u] = IF u \in freed THEN "ready"
                                           ELSE IF u = t THEN "completed" ELSE status[u]
    BY <1>1, <1>2, ReleaseFacts DEF LiveInv, TypeOK
  <2> QED
    BY <1>2, <2>1 DEF StatusSame, Hidden
<1>7. Backed(t, wal)'
  BY <1>1, <1>2, <1>3, <1>4, <1>5, <1>6 DEF Backed
<1>8. Delivered(t, wal)'
  BY <1>1, <1>2, <1>3, <1>4, <1>5, <1>6 DEF Delivered, Exhausted, Allowed, RetriesLeft, Budget
<1> QED
  BY <1>1, <1>2, <1>6, <1>7, <1>8, ReturnLogged

(* propagateFailure writes about a task that the log has not settled.         *)
LEMMA CascadeLogged ==
    ASSUME LiveInv, WrittenInv, DeliveredInv, walErrors' = 0, CascadeStep
    PROVE  WrittenInv' /\ DeliveredInv'
<1>1. PICK held \in Tasks : PropagateFailure(held)
  BY DEF CascadeStep
<1>2. UNCHANGED <<pushed, pc, holding, retryCount>>
  BY <1>1 DEF CascadeStep, engineVars, PropagateFailure
<1>3. CASE status[held] \in Terminal
  BY <1>1, <1>2, <1>3, QuietStep DEF PropagateFailure, walVars, StatusSame
<1>4. CASE status[held] \notin Terminal
  <2> DEFINE r == CascadeRecord(held)
  <2>1. /\ status[held] = "pending"
        /\ \A t \in Tasks : status'[t] = IF t = held THEN "failed" ELSE status[t]
    BY <1>1, <1>4, CascadeFacts
       DEF PropagateFailure, TransitionToFailed, LiveInv, TypeOK, SchedulerTypeOK, Terminal
  <2>2. wal' = Append(wal, r) /\ r \in Record /\ wal \in Seq(Record) /\ r.task = held
    BY <1>1, <1>4, WalAssumption, RecordTypes, RecordFacts
       DEF PropagateFailure, AppendIgnoringErrors, AppendOk, AppendError, LiveInv, TypeOK, WalTypeOK
  <2>3. \A l : At(l)' = At(l) /\ held \notin At(l)
    BY <1>2, <2>1, AtFacts, AtStays
  <2>4. Backed(held, wal) /\ Delivered(held, wal)
    BY DEF WrittenInv, DeliveredInv
  <2>5. ~Has(CompleteRecord(held), wal) /\ ~Dead(held, wal) /\ Ingested(held, wal)
    BY <2>1, <2>3, <2>4 DEF Backed, Delivered, Dead, Failing, Completing
  <2>6. Lawful(r, wal)
    BY <2>5, RecordFacts DEF Lawful
  <2>7. LogLawful' /\ FailsBounded'
    BY <2>2, <2>6, AppendLawful DEF WrittenInv, LiveInv, TypeOK
  <2>8. ASSUME NEW t \in Tasks, t # held
        PROVE  Backed(t, wal)' /\ Delivered(t, wal)'
    <3>1. HandsSame(t) /\ StatusSame(t)
      BY <1>2, <2>1, <2>8, HandsUntouched DEF StatusSame
    <3>2. SaysSame(t, wal, wal')
      BY <2>2, <2>8, SilentAppend
    <3> QED
      BY <3>1, <3>2, Untouched DEF WrittenInv, DeliveredInv
  <2>9. /\ Has(CompleteRecord(held), wal') <=> Has(CompleteRecord(held), wal)
        /\ Has(CascadeRecord(held), wal')
        /\ Fails(held, wal') = Fails(held, wal)
        /\ Ingested(held, wal) => Ingested(held, wal')
    BY <2>2, TaskAppend, RecordFacts
  <2>10. (\A l : held \notin At(l)') /\ held # pushed
    BY <2>1, <2>3 DEF LiveInv, SingleHolder, Held
  <2>11. Backed(held, wal)'
    BY <1>2, <2>1, <2>3, <2>4, <2>9, <2>10 DEF Backed, Dead, Picked, Executing, Failing, Completing
  <2>12. Delivered(held, wal)'
    BY <1>2, <2>1, <2>3, <2>4, <2>5, <2>9, <2>10
       DEF Delivered, Dead, Exhausted, Allowed, RetriesLeft, Budget, Failing, Completing
  <2>13. WrittenInv'
    BY <2>7, <2>8, <2>11 DEF WrittenInv
  <2>14. DeliveredInv'
    BY <2>8, <2>12 DEF DeliveredInv
  <2> QED
    BY <2>13, <2>14
<1> QED
  BY <1>3, <1>4

(* handleRetryEnqueue                                                         *)
LEMMA RetryFiresLogged ==
    ASSUME LiveInv, WrittenInv, NEW t \in Tasks, RetryFires(t)
    PROVE  WrittenInv' /\ (DeliveredInv => DeliveredInv')
<1>1. UNCHANGED <<wal, pushed, pc, holding, retryCount>>
  BY DEF RetryFires, HandleRetryEnqueue, walVars, engineVars
<1>2. \A u \in Tasks : StatusSame(u)
  BY DEF RetryFires, HandleRetryEnqueue, StatusSame, Hidden, LiveInv, TypeOK, SchedulerTypeOK
<1> QED
  BY <1>1, <1>2, QuietStep

(* A step appends once, and an append returns one error at the most.          *)
LEMMA ErrorsCount == [Next]_vars => walErrors' \in {walErrors, walErrors + 1}
<1> SUFFICES ASSUME [Next]_vars
             PROVE  walErrors' \in {walErrors, walErrors + 1}
  OBVIOUS
<1> USE DEF walVars, AppendIgnoringErrors, AppendOk, AppendError
<1>1. ASSUME NEW b \in Batches, Persist(b) \/ Ingest(b)
      PROVE  walErrors' \in {walErrors, walErrors + 1}
  BY <1>1 DEF Persist, Ingest
<1>2. ASSUME NEW w \in Workers, WorkerNext(w)
      PROVE  walErrors' \in {walErrors, walErrors + 1}
  BY <1>2 DEF WorkerNext, HandOff, StartTask, FailTask, CompleteTask, NotifyFail, NotifyComplete
<1>3. CASE CascadeStep
  BY <1>3 DEF CascadeStep, PropagateFailure
<1>4. CASE UNCHANGED vars
  BY <1>4 DEF vars
<1> QED
  BY <1>1, <1>2, <1>3, <1>4 DEF Next, Pop, RetryFires

(* A behaviour without an error has had none before.                          *)
LEMMA ErrorsStay == WalTypeOK /\ [Next]_vars /\ walErrors' = 0 => walErrors = 0
<1>1. WalTypeOK => walErrors \in Nat
  BY WalAssumption DEF WalTypeOK
<1> QED
  BY <1>1, ErrorsCount

(* Every step of every goroutine keeps the log and the state together.        *)
LogInv == walErrors = 0 => WrittenInv /\ DeliveredInv

LEMMA NextLogged == LiveInv /\ RequestsLogged /\ LogInv /\ [Next]_vars => LogInv'
<1> SUFFICES ASSUME LiveInv, RequestsLogged, LogInv, [Next]_vars, walErrors' = 0
             PROVE  WrittenInv' /\ DeliveredInv'
  BY DEF LogInv
<1>0. WrittenInv /\ DeliveredInv
  BY ErrorsStay DEF LogInv, LiveInv, TypeOK
<1>1. ASSUME NEW b \in Batches, Persist(b) \/ Ingest(b)
      PROVE  WrittenInv' /\ DeliveredInv'
  BY <1>0, <1>1, PersistLogged, IngestLogged
<1>2. CASE Pop
  BY <1>0, <1>2, PopLogged
<1>3. ASSUME NEW w \in Workers, WorkerNext(w)
      PROVE  WrittenInv' /\ DeliveredInv'
  BY <1>0, <1>3, HandOffLogged, StartLogged, FailLogged, CompleteLogged, NotifyFailLogged,
     NotifyCompleteLogged DEF WorkerNext
<1>4. CASE CascadeStep
  BY <1>0, <1>4, CascadeLogged
<1>5. ASSUME NEW t \in Tasks, RetryFires(t)
      PROVE  WrittenInv' /\ DeliveredInv'
  BY <1>0, <1>5, RetryFiresLogged
<1>6. CASE UNCHANGED vars
  <2>1. UNCHANGED <<wal, pushed, pc, holding, status, retryCount>>
    BY <1>6 DEF vars, walVars, schedVars, engineVars
  <2> QED
    BY <1>0, <2>1, QuietStep DEF StatusSame
<1> QED
  BY <1>1, <1>2, <1>3, <1>4, <1>5, <1>6 DEF Next

(* A record that is in the log stays there.                                   *)
LEMMA NextHas ==
    ASSUME WalTypeOK, wal' = wal \/ \E r \in Record : wal' = Append(wal, r)
    PROVE  \A x : Has(x, wal) => Has(x, wal')
<1>1. CASE wal' = wal
  BY <1>1
<1>2. ASSUME NEW r \in Record, wal' = Append(wal, r)
      PROVE  \A x : Has(x, wal) => Has(x, wal')
  BY <1>2, HasAppend DEF WalTypeOK
<1> QED
  BY <1>1, <1>2

(* A step of the engine writes one record or none: START only for a task that *)
(* a worker has just picked, INGEST only for a request not sent before.       *)
Writes(r) ==
    /\ wal' = Append(wal, r)
    /\ r.type = "START" => r.task \in Picked
    /\ r.type = "INGEST" => \E b \in Batches : Persist(b)

LEMMA NextWrites == LiveInv /\ [Next]_vars => wal' = wal \/ \E r \in Record : Writes(r)
<1> SUFFICES ASSUME LiveInv, [Next]_vars
             PROVE  wal' = wal \/ \E r \in Record : Writes(r)
  OBVIOUS
<1> USE DEF walVars, AppendIgnoringErrors, AppendOk, AppendError
<1>0. /\ \A b \in Batches : IngestRecord(b) \in Record /\ IngestRecord(b).type # "START"
      /\ \A t \in Tasks :
            /\ StartRecord(t) \in Record /\ StartRecord(t).task = t
            /\ \A r \in {FailRecord(t), CompleteRecord(t), CascadeRecord(t)} :
                  r \in Record /\ r.type \notin {"START", "INGEST"}
            /\ StartRecord(t).type # "INGEST"
  BY RecordTypes, RecordFacts
<1>1. ASSUME NEW b \in Batches, Persist(b) \/ Ingest(b)
      PROVE  wal' = wal \/ \E r \in Record : Writes(r)
  BY <1>0, <1>1 DEF Persist, Ingest, Writes
<1>2. ASSUME NEW w \in Workers, WorkerNext(w)
      PROVE  wal' = wal \/ \E r \in Record : Writes(r)
  <2>1. CASE HandOff(w) \/ NotifyFail(w) \/ NotifyComplete(w)
    BY <2>1 DEF HandOff, NotifyFail, NotifyComplete
  <2>2. ASSUME StartTask(w) \/ FailTask(w) \/ CompleteTask(w)
        PROVE  wal' = wal \/ \E r \in Record : Writes(r)
    <3>1. holding[w] \in Tasks
      BY <2>2, HolderFacts DEF StartTask, FailTask, CompleteTask
    <3>2. StartTask(w) => holding[w] \in Picked
      BY <3>1, AtHolder DEF StartTask, Picked
    <3> QED
      BY <1>0, <2>2, <3>1, <3>2 DEF StartTask, FailTask, CompleteTask, Writes
  <2> QED
    BY <1>2, <2>1, <2>2 DEF WorkerNext
<1>3. CASE CascadeStep
  BY <1>0, <1>3 DEF CascadeStep, PropagateFailure, Writes
<1>4. CASE UNCHANGED vars
  BY <1>4 DEF vars
<1> QED
  BY <1>1, <1>2, <1>3, <1>4 DEF Next, Pop, RetryFires

(* The run loop on its own and the workers leave the requests alone, and the  *)
(* scheduler knows as many tasks as before.                                   *)
OtherStep ==
    Pop \/ (\E w \in Workers : WorkerNext(w)) \/ CascadeStep \/ (\E t \in Tasks : RetryFires(t))

LEMMA OtherStepFacts ==
    ASSUME LiveInv, OtherStep
    PROVE  UNCHANGED submission /\ Present' = Present
<1> USE DEF LiveInv, TypeOK, SchedulerTypeOK
<1>1. CASE Pop
  BY <1>1 DEF Pop, PopReady, PopNothing, ReadyEntries, Present
<1>2. ASSUME NEW w \in Workers, WorkerNext(w)
      PROVE  UNCHANGED submission /\ Present' = Present
  <2>1. UNCHANGED submission
    BY <1>2 DEF WorkerNext, HandOff, StartTask, FailTask, CompleteTask, NotifyFail,
                NotifyComplete
  <2>2. CASE UNCHANGED schedVars
    BY <2>1, <2>2 DEF schedVars, Present
  <2>3. CASE NotifyFail(w) \/ NotifyComplete(w)
    <3>1. PICK c \in Tasks : c = holding[w] /\ status[c] = "running"
      BY <2>3, HolderFacts DEF NotifyFail, NotifyComplete
    <3>2. CASE NotifyFail(w)
      BY <2>1, <3>1, <3>2
         DEF NotifyFail, HandleFailure, Retry, FailForGood, TransitionToFailed, Present
    <3>3. CASE NotifyComplete(w)
      <4>1. CompleteAndRelease(c)
        BY <3>1, <3>3 DEF NotifyComplete, HandleComplete
      <4>2. \A t \in Tasks : status[t] = "absent" <=> status'[t] = "absent"
        <5>1. dependents[c] \subseteq Present
          BY <3>1 DEF CoreInv, GraphExact
        <5> QED
          BY <3>1, <4>1, <5>1 DEF CompleteAndRelease, Present
      <4> QED
        BY <2>1, <4>2 DEF Present
    <3> QED
      BY <2>3, <3>2, <3>3
  <2> QED
    BY <1>2, <2>2, <2>3 DEF WorkerNext, HandOff, StartTask, FailTask, CompleteTask
<1>3. CASE CascadeStep
  <2>1. PICK t \in Tasks : PropagateFailure(t)
    BY <1>3 DEF CascadeStep
  <2>2. status[t] # "absent"
    BY <2>1, CascadeFacts DEF PropagateFailure
  <2> QED
    BY <1>3, <2>1, <2>2
       DEF CascadeStep, engineVars, PropagateFailure, TransitionToFailed, Present
<1>4. ASSUME NEW t \in Tasks, RetryFires(t)
      PROVE  UNCHANGED submission /\ Present' = Present
  BY <1>4 DEF RetryFires, engineVars, HandleRetryEnqueue, Present
<1> QED
  BY <1>1, <1>2, <1>3, <1>4 DEF OtherStep

(* handleSubmitDAG sends only what it has written.                            *)
LEMMA PersistFacts ==
    ASSUME LiveInv, NEW b \in Batches, Persist(b)
    PROVE  /\ submission[b] = "unsent" /\ Present' = Present
           /\ \A c \in Batches : c # b => submission'[c] = submission[c]
           /\ \/ submission'[b] = "lost"
              \/ submission'[b] = "persisted" /\ wal' = Append(wal, IngestRecord(b))
           /\ walErrors' = 0 => submission'[b] = "persisted"
<1> USE DEF LiveInv, TypeOK, EngineTypeOK, WalTypeOK
<1>1. walErrors \in Nat
  BY WalAssumption
<1> QED
  BY <1>1 DEF Persist, schedVars, Present, AppendOk, AppendError

(* handleIngest answers the request that was sent, one way or the other.      *)
LEMMA IngestFacts ==
    ASSUME LiveInv, NEW b \in Batches, Ingest(b)
    PROVE  /\ submission[b] = "persisted" /\ wal' = wal
           /\ \A c \in Batches : c # b => submission'[c] = submission[c]
           /\ \/ submission'[b] = "accepted" /\ Present' = Present \cup b
              \/ submission'[b] = "refused" /\ Present' = Present /\ ~Admissible(b)
<1> USE DEF LiveInv, TypeOK, EngineTypeOK
<1>1. CASE HandleIngest(b) /\ submission' = [submission EXCEPT ![b] = "accepted"]
  <2>1. Present' = Present \cup b
    BY <1>1, BatchFinite DEF HandleIngest, Present
  <2> QED
    BY <1>1, <2>1 DEF Ingest, walVars
<1>2. CASE RefuseIngest(b) /\ submission' = [submission EXCEPT ![b] = "refused"]
  BY <1>2 DEF Ingest, walVars, RefuseIngest, schedVars, Present
<1> QED
  BY <1>1, <1>2 DEF Ingest

(* What the scheduler knows has been ingested, whatever appends fail.         *)
Known == \A t \in Present : Ingested(t, wal)

LEMMA NextKnown ==
    LiveInv /\ RequestsLogged /\ Known /\ [Next]_vars => RequestsLogged' /\ Known'
<1> SUFFICES ASSUME LiveInv, RequestsLogged, Known, [Next]_vars
             PROVE  RequestsLogged' /\ Known'
  OBVIOUS
<1>0. /\ \A x : Has(x, wal) => Has(x, wal')
      /\ \A t : Ingested(t, wal) => Ingested(t, wal')
  <2>1. \A x : Has(x, wal) => Has(x, wal')
    BY NextWrites, NextHas DEF Writes, LiveInv, TypeOK
  <2> QED
    BY <2>1 DEF Ingested
<1>1. ASSUME NEW b \in Batches, Persist(b)
      PROVE  RequestsLogged' /\ Known'
  <2>1. Has(IngestRecord(b), Append(wal, IngestRecord(b)))
    BY HasAppend, RecordTypes DEF LiveInv, TypeOK, WalTypeOK
  <2>2. RequestsLogged'
    BY <1>0, <1>1, <2>1, PersistFacts DEF RequestsLogged
  <2> QED
    BY <1>0, <1>1, <2>2, PersistFacts DEF Known
<1>2. ASSUME NEW b \in Batches, Ingest(b)
      PROVE  RequestsLogged' /\ Known'
  <2>1. Has(IngestRecord(b), wal)
    BY <1>2, IngestFacts DEF RequestsLogged
  <2>2. RequestsLogged'
    BY <1>0, <1>2, <2>1, IngestFacts DEF RequestsLogged
  <2>3. \A t \in Present' : t \in b \/ t \in Present
    BY <1>2, IngestFacts
  <2> QED
    BY <1>0, <2>1, <2>2, <2>3 DEF Known, Ingested
<1>3. CASE OtherStep
  BY <1>0, <1>3, OtherStepFacts DEF RequestsLogged, Known
<1>4. CASE UNCHANGED vars
  BY <1>0, <1>4 DEF vars, schedVars, engineVars, Present, RequestsLogged, Known
<1> QED
  BY <1>1, <1>2, <1>3, <1>4 DEF Next, OtherStep

-----------------------------------------------------------------------------
(* Attempts                                                                   *)

(* No attempt of t is under way in the log: it has not begun, or its failure  *)
(* has been written.                                                          *)
Fresh(t) ==
    \/ status[t] \in {"absent", "pending", "ready"}
    \/ pushed = t
    \/ t \in Picked \cup Failing

(* At most k attempts were cut short by a crash, and one may be under way or  *)
(* have completed.                                                            *)
Attempts(t, k) ==
    /\ Starts(t, wal) <= Fails(t, wal) + k + 1
    /\ Fresh(t) => Starts(t, wal) <= Fails(t, wal) + k

(* handleComplete changes the status of pending tasks only, but for its own.  *)
LEMMA ReleaseOthers ==
    ASSUME LiveInv, NEW c \in Tasks, status[c] = "running", CompleteAndRelease(c),
           NEW t \in Tasks, t # c
    PROVE  status'[t] = status[t] \/ status[t] = "pending"
<1>1. PICK freed \in SUBSET dependents[c] :
        /\ \A u \in freed : u \in Tasks /\ u # c /\ status[u] = "pending" /\ Unmet(u) = {c}
        /\ \A u \in Tasks : status'[u] = IF u \in freed THEN "ready"
                                         ELSE IF u = c THEN "completed" ELSE status[u]
  BY ReleaseFacts DEF LiveInv, TypeOK
<1> QED
  BY <1>1

(* Only a FAIL record makes a task fresh again, and START ends that.          *)
LEMMA FreshStep ==
    ASSUME LiveInv, [Next]_vars, walErrors' = 0, NEW t \in Tasks, Fresh(t)'
    PROVE  wal' = Append(wal, FailRecord(t)) \/ (Fresh(t) /\ wal' # Append(wal, StartRecord(t)))
<1> USE DEF LiveInv, TypeOK, SchedulerTypeOK
<1> DEFINE Waits(s) == s \in {"absent", "pending", "ready"}
<1>0. ASSUME HandsSame(t), Waits(status'[t]) => Waits(status[t])
      PROVE  Fresh(t)
  BY <1>0 DEF HandsSame, Fresh
<1>1. \A r \in Record : r # StartRecord(t) => Append(wal, r) # Append(wal, StartRecord(t))
  <2>1. \A r \in Record : Append(wal, r)[Len(wal) + 1] = r
    BY AppendFacts DEF WalTypeOK
  <2> QED
    BY <2>1, RecordTypes
<1>2. wal # Append(wal, StartRecord(t))
  BY AppendFacts, RecordTypes DEF WalTypeOK
<1>3. ASSUME NEW b \in Batches, Persist(b)
      PROVE  Fresh(t) /\ wal' # Append(wal, StartRecord(t))
  <2>1. HandsSame(t) /\ status' = status
    BY <1>3, HandsUntouched DEF Persist, schedVars
  <2>2. wal' = wal \/ wal' = Append(wal, IngestRecord(b))
    BY <1>3 DEF Persist, AppendOk, AppendError
  <2>3. IngestRecord(b) \in Record /\ IngestRecord(b) # StartRecord(t)
    BY RecordTypes DEF IngestRecord, StartRecord
  <2> QED
    BY <1>0, <1>1, <1>2, <2>1, <2>2, <2>3
<1>4. ASSUME NEW b \in Batches, Ingest(b)
      PROVE  Fresh(t) /\ wal' # Append(wal, StartRecord(t))
  <2>1. HandsSame(t) /\ wal' = wal
    BY <1>4, HandsUntouched DEF Ingest, walVars
  <2>2. Waits(status'[t]) => Waits(status[t])
    BY <1>4 DEF Ingest, HandleIngest, RefuseIngest, schedVars, Admissible, Present
  <2> QED
    BY <1>0, <1>2, <2>1, <2>2
<1>5. CASE Pop
  <2>1. UNCHANGED <<wal, pc, holding>>
    BY <1>5 DEF Pop, walVars
  <2>2. Fresh(t)
    <3>1. UNCHANGED <<Picked, Failing>>
      BY <2>1, AtStays DEF Picked, Failing
    <3> QED
      BY <1>5, <3>1 DEF Pop, PopReady, PopNothing, ReadyEntries, Fresh
  <2> QED
    BY <1>2, <2>1, <2>2
<1>6. ASSUME NEW w \in Workers, HandOff(w)
      PROVE  Fresh(t) /\ wal' # Append(wal, StartRecord(t))
  <2>1. UNCHANGED <<wal, status>> /\ pushed' = NoTask
    BY <1>6 DEF HandOff, walVars, schedVars
  <2>2. \A l : t \in At(l)' <=> t \in At(l) \/ (t = pushed /\ l = "picked")
    BY <1>6, AtHandOff
  <2> QED
    BY <1>2, <2>1, <2>2, TasksAssumption DEF Fresh, Picked, Failing
<1>7. ASSUME NEW w \in Workers, StartTask(w)
      PROVE  Fresh(t) /\ wal' # Append(wal, StartRecord(t))
  <2>1. holding[w] \in Tasks /\ status[holding[w]] = "running" /\ holding[w] \notin cancelled
    BY <1>7, HolderFacts DEF StartTask
  <2>2. /\ GoTo(w, "executing") /\ UNCHANGED <<status, pushed>>
        /\ wal' = wal \/ wal' = Append(wal, StartRecord(holding[w]))
    BY <1>7, <2>1 DEF StartTask, schedVars, AppendIgnoringErrors, AppendOk, AppendError
  <2>3. t # holding[w]
    <3>1. \A l : holding[w] \in At(l)' <=> l = "executing"
      BY <2>1, <2>2, AtGoTo
    <3>2. holding[w] # pushed
      BY <2>1, AtHolder, AtFacts
    <3> QED
      BY <2>1, <2>2, <3>1, <3>2 DEF Fresh, Picked, Failing
  <2>4. HandsSame(t)
    BY <2>1, <2>2, <2>3, AtGoTo DEF HandsSame, Picked, Executing, Failing, Completing
  <2>5. StartRecord(holding[w]) \in Record /\ StartRecord(holding[w]) # StartRecord(t)
    BY <2>1, <2>3, RecordTypes, RecordFacts
  <2> QED
    BY <1>0, <1>1, <1>2, <2>2, <2>4, <2>5
<1>8. ASSUME NEW w \in Workers, FailTask(w)
      PROVE  wal' = Append(wal, FailRecord(t)) \/ (Fresh(t) /\ wal' # Append(wal, StartRecord(t)))
  <2>1. holding[w] \in Tasks /\ status[holding[w]] = "running"
    BY <1>8, HolderFacts DEF FailTask
  <2>2. /\ GoTo(w, "failing") /\ UNCHANGED <<status, pushed>>
        /\ wal' = Append(wal, FailRecord(holding[w]))
    BY <1>8, WalAssumption DEF FailTask, schedVars, AppendOk, AppendError, WalTypeOK
  <2>3. CASE t # holding[w]
    <3>1. HandsSame(t)
      BY <2>1, <2>2, <2>3, AtGoTo DEF HandsSame, Picked, Executing, Failing, Completing
    <3>2. FailRecord(holding[w]) \in Record /\ FailRecord(holding[w]) # StartRecord(t)
      BY <2>1, RecordTypes DEF FailRecord, StartRecord
    <3> QED
      BY <1>0, <1>1, <2>2, <3>1, <3>2
  <2> QED
    BY <2>2, <2>3
<1>9. ASSUME NEW w \in Workers, CompleteTask(w)
      PROVE  Fresh(t) /\ wal' # Append(wal, StartRecord(t))
  <2>1. holding[w] \in Tasks /\ status[holding[w]] = "running" /\ holding[w] \notin cancelled
    BY <1>9, HolderFacts DEF CompleteTask
  <2>2. /\ GoTo(w, "completing") /\ UNCHANGED <<status, pushed>>
        /\ wal' = wal \/ wal' = Append(wal, CompleteRecord(holding[w]))
    BY <1>9, <2>1 DEF CompleteTask, schedVars, AppendIgnoringErrors, AppendOk, AppendError
  <2>3. t # holding[w]
    <3>1. \A l : holding[w] \in At(l)' <=> l = "completing"
      BY <2>1, <2>2, AtGoTo
    <3>2. holding[w] # pushed
      BY <2>1, AtHolder, AtFacts
    <3> QED
      BY <2>1, <2>2, <3>1, <3>2 DEF Fresh, Picked, Failing
  <2>4. HandsSame(t)
    BY <2>1, <2>2, <2>3, AtGoTo DEF HandsSame, Picked, Executing, Failing, Completing
  <2>5. CompleteRecord(holding[w]) \in Record /\ CompleteRecord(holding[w]) # StartRecord(t)
    BY <2>1, RecordTypes DEF CompleteRecord, StartRecord
  <2> QED
    BY <1>0, <1>1, <1>2, <2>2, <2>4, <2>5
<1>10. ASSUME NEW w \in Workers, NotifyFail(w) \/ NotifyComplete(w)
       PROVE  Fresh(t) /\ wal' # Append(wal, StartRecord(t))
  <2>1. holding[w] \in Tasks /\ status[holding[w]] = "running"
    BY <1>10, HolderFacts DEF NotifyFail, NotifyComplete
  <2>2. /\ UNCHANGED <<wal, pushed>> /\ Return(w)
        /\ \A l : \A u \in Tasks : u \in At(l)' <=> u # holding[w] /\ u \in At(l)
    BY <1>10, <2>1, AtReturn DEF NotifyFail, NotifyComplete, walVars
  <2>3. CASE t # holding[w]
    <3>1. HandsSame(t)
      BY <2>2, <2>3 DEF HandsSame, Picked, Executing, Failing, Completing
    <3>2. Waits(status'[t]) => Waits(status[t])
      <4>1. CASE NotifyFail(w)
        BY <2>1, <2>3, <4>1 DEF NotifyFail, HandleFailure, Retry, FailForGood, TransitionToFailed
      <4>2. CASE NotifyComplete(w)
        <5>1. PICK c \in Tasks : c = holding[w] /\ status[c] = "running" /\ CompleteAndRelease(c)
          BY <2>1, <4>2 DEF NotifyComplete, HandleComplete
        <5>2. status'[t] = status[t] \/ status[t] = "pending"
          BY <2>3, <5>1, ReleaseOthers
        <5> QED
          BY <2>3, <5>1, <5>2
      <4> QED
        BY <1>10, <4>1, <4>2
    <3> QED
      BY <1>0, <1>2, <2>2, <3>1, <3>2
  <2>4. CASE t = holding[w]
    <3>1. CASE NotifyFail(w)
      BY <1>2, <2>1, <2>2, <2>4, <3>1, AtHolder DEF NotifyFail, Fresh, Failing
    <3>2. CASE NotifyComplete(w)
      <4>1. status'[t] = "completed" /\ t # pushed
        <5>1. CompleteAndRelease(t) /\ dependents[t] \subseteq Tasks
          BY <2>1, <2>4, <3>2 DEF NotifyComplete, HandleComplete
        <5>2. status'[t] = "completed"
          BY <5>1 DEF CompleteAndRelease, Terminal
        <5> QED
          BY <2>1, <2>4, <5>2, AtHolder, AtFacts
      <4> QED
        BY <2>2, <2>4, <4>1 DEF Fresh, Picked, Failing
    <3> QED
      BY <1>10, <3>1, <3>2
  <2> QED
    BY <2>3, <2>4
<1>11. CASE CascadeStep
  <2>1. PICK u \in Tasks : PropagateFailure(u)
    BY <1>11 DEF CascadeStep
  <2>2. HandsSame(t)
    BY <1>11, HandsUntouched DEF CascadeStep, engineVars
  <2>3. Waits(status'[t]) => Waits(status[t])
    BY <2>1 DEF PropagateFailure, TransitionToFailed
  <2>4. wal' = wal \/ wal' = Append(wal, CascadeRecord(u))
    BY <2>1 DEF PropagateFailure, walVars, AppendIgnoringErrors, AppendOk, AppendError
  <2>5. CascadeRecord(u) \in Record /\ CascadeRecord(u) # StartRecord(t)
    BY RecordTypes DEF CascadeRecord, StartRecord
  <2> QED
    BY <1>0, <1>1, <1>2, <2>2, <2>3, <2>4, <2>5
<1>12. ASSUME NEW u \in Tasks, RetryFires(u)
       PROVE  Fresh(t) /\ wal' # Append(wal, StartRecord(t))
  <2>1. HandsSame(t) /\ wal' = wal
    BY <1>12, HandsUntouched DEF RetryFires, engineVars, walVars
  <2>2. Waits(status'[t]) => Waits(status[t])
    BY <1>12 DEF RetryFires, HandleRetryEnqueue
  <2> QED
    BY <1>0, <1>2, <2>1, <2>2
<1>13. CASE UNCHANGED vars
  <2>1. HandsSame(t) /\ UNCHANGED <<wal, status>>
    BY <1>13, HandsUntouched DEF vars, engineVars, walVars, schedVars
  <2> QED
    BY <1>0, <1>2, <2>1
<1> QED
  BY <1>3, <1>4, <1>5, <1>6, <1>7, <1>8, <1>9, <1>10, <1>11, <1>12, <1>13 DEF Next, WorkerNext

(* What stays lawful after a record was lawful before it.                     *)
LEMMA LawfulWrite ==
    ASSUME WalTypeOK, NEW r \in Record, wal' = Append(wal, r), LogLawful'
    PROVE  Lawful(r, wal)
<1>1. /\ Len(wal') = Len(wal) + 1 /\ wal'[Len(wal) + 1] = r
      /\ Len(wal) + 1 \in 1 .. Len(wal') /\ (Len(wal) + 1) - 1 = Len(wal)
  BY AppendFacts DEF WalTypeOK
<1>2. SubSeq(wal', 1, Len(wal)) = wal
  BY PrefixAppend, Prefixes, AppendFacts DEF WalTypeOK
<1>3. Lawful(wal'[Len(wal) + 1], SubSeq(wal', 1, (Len(wal) + 1) - 1))
  BY <1>1 DEF LogLawful, Before
<1> QED
  BY <1>1, <1>2, <1>3

(* Every step of the engine keeps the bound on the attempts, however many     *)
(* were cut short before.                                                     *)
LEMMA NextAttempts ==
    ASSUME LiveInv, [Next]_vars, walErrors' = 0, NEW k \in Int, NEW t \in Tasks, Attempts(t, k)
    PROVE  Attempts(t, k)'
<1> DEFINE s == Starts(t, wal)
           f == Fails(t, wal)
<1>0. s \in Nat /\ f \in Nat /\ wal \in Seq(Record) /\ FailRecord(t) \in Record
  BY TaskAppend, RecordTypes DEF LiveInv, TypeOK, WalTypeOK
<1>1. CASE wal' = wal
  <2>1. wal' # Append(wal, FailRecord(t))
    BY <1>0, <1>1, AppendFacts
  <2>2. Fresh(t)' => Fresh(t)
    BY <2>1, FreshStep
  <2> QED
    BY <1>1, <2>2 DEF Attempts
<1>2. ASSUME NEW r \in Record, Writes(r)
      PROVE  Attempts(t, k)'
  <2>1. /\ Fails(t, wal') = f + IF r = FailRecord(t) THEN 1 ELSE 0
        /\ Starts(t, wal') = s + IF r = StartRecord(t) THEN 1 ELSE 0
    BY <1>0, <1>2, TaskAppend DEF Writes
  <2>2. wal' = Append(wal, FailRecord(t)) => r = FailRecord(t)
    BY <1>0, <1>2, AppendFacts DEF Writes
  <2>3. r = StartRecord(t) => Fresh(t) /\ r # FailRecord(t)
    BY <1>2, RecordFacts DEF Writes, Fresh
  <2>4. Fresh(t)' => r = FailRecord(t) \/ (Fresh(t) /\ r # StartRecord(t))
    BY <1>2, <2>2, FreshStep DEF Writes
  <2>5. Starts(t, wal') <= Fails(t, wal') + k + 1
    BY <1>0, <2>1, <2>3 DEF Attempts
  <2>6. Fresh(t)' => Starts(t, wal') <= Fails(t, wal') + k
    BY <1>0, <2>1, <2>3, <2>4 DEF Attempts
  <2> QED
    BY <2>5, <2>6 DEF Attempts
<1> QED
  BY <1>1, <1>2, NextWrites

(* Every FAIL record has a START record of its own before it.                 *)
StartsCover ==
    \A t \in Tasks : /\ Fails(t, wal) <= Starts(t, wal)
                     /\ Open(t, wal) => Fails(t, wal) < Starts(t, wal)

LEMMA AppendStarts ==
    ASSUME WalTypeOK, StartsCover, NEW r \in Record, Lawful(r, wal), wal' = Append(wal, r)
    PROVE  StartsCover'
<1> USE DEF WalTypeOK
<1>1. ASSUME NEW t \in Tasks
      PROVE  /\ Fails(t, wal') <= Starts(t, wal')
             /\ Open(t, wal') => Fails(t, wal') < Starts(t, wal')
  <2>1. /\ Fails(t, wal) \in Nat /\ Starts(t, wal) \in Nat
        /\ Fails(t, wal') = Fails(t, wal) + IF r = FailRecord(t) THEN 1 ELSE 0
        /\ Starts(t, wal') = Starts(t, wal) + IF r = StartRecord(t) THEN 1 ELSE 0
        /\ Open(t, wal') <=> r = StartRecord(t) \/ (Open(t, wal) /\ r \notin Ends(t))
    BY TaskAppend, OpenAppend
  <2>2. r = FailRecord(t) => Open(t, wal) /\ r \in Ends(t) /\ r # StartRecord(t)
    BY RecordFacts DEF Lawful, Ends
  <2>3. /\ Fails(t, wal) <= Starts(t, wal)
        /\ Open(t, wal) => Fails(t, wal) < Starts(t, wal)
    BY DEF StartsCover
  <2> QED
    BY <2>1, <2>2, <2>3
<1> QED
  BY <1>1 DEF StartsCover

(* In the first life no attempt has been cut short, so that the budget bounds *)
(* the attempts.                                                              *)
AttemptsInv ==
    walErrors = 0 =>
        /\ StartsCover
        /\ \A t \in Tasks : Attempts(t, 0) /\ Starts(t, wal) <= Allowed(t) + 1

LEMMA NextAttemptsInv ==
    LiveInv /\ LogInv /\ LogInv' /\ AttemptsInv /\ [Next]_vars => AttemptsInv'
<1> SUFFICES ASSUME LiveInv, LogInv, LogInv', AttemptsInv, [Next]_vars, walErrors' = 0
             PROVE  /\ StartsCover'
                    /\ \A t \in Tasks : Attempts(t, 0)' /\ Starts(t, wal') <= Allowed(t) + 1
  BY DEF AttemptsInv, Allowed, RetriesLeft, Budget
<1>1. /\ WalTypeOK /\ LogLawful' /\ FailsBounded /\ StartsCover
      /\ \A t \in Tasks : Attempts(t, 0) /\ Starts(t, wal) <= Allowed(t) + 1
  <2>1. walErrors = 0 /\ WalTypeOK
    BY ErrorsStay DEF LiveInv, TypeOK
  <2> QED
    BY <2>1 DEF LogInv, WrittenInv, AttemptsInv
<1>2. \A t \in Tasks : Attempts(t, 0)'
  BY <1>1, NextAttempts
<1>3. CASE wal' = wal
  BY <1>1, <1>2, <1>3 DEF StartsCover
<1>4. ASSUME NEW r \in Record, Writes(r)
      PROVE  /\ StartsCover'
             /\ \A t \in Tasks : Starts(t, wal') <= Allowed(t) + 1
  <2>1. Lawful(r, wal)
    BY <1>1, <1>4, LawfulWrite DEF Writes
  <2>2. ASSUME NEW t \in Tasks
        PROVE  Starts(t, wal') <= Allowed(t) + 1
    <3>1. /\ Starts(t, wal) \in Nat /\ Fails(t, wal) \in Nat
          /\ Starts(t, wal') = Starts(t, wal) + IF r = StartRecord(t) THEN 1 ELSE 0
          /\ Allowed(t) \in Nat
      BY <1>1, <1>4, TaskAppend, FieldsAssumption
         DEF Writes, WalTypeOK, Allowed, RetriesLeft, Budget, DefaultMaxRetries
    <3>2. CASE r = StartRecord(t)
      <4>1. Fresh(t) /\ ~Exhausted(t, wal)
        BY <1>4, <2>1, <3>2, RecordFacts DEF Writes, Fresh, Lawful, Dead
      <4> QED
        BY <1>1, <3>1, <4>1 DEF Attempts, Exhausted
    <3> QED
      BY <1>1, <3>1, <3>2
  <2> QED
    BY <1>1, <1>4, <2>1, <2>2, AppendStarts DEF Writes
<1> QED
  BY <1>1, <1>2, <1>3, <1>4, NextWrites DEF LiveInv, TypeOK

-----------------------------------------------------------------------------
(* The theorem                                                                *)

(* A task of a new life that has done nothing agrees with an empty log.       *)
LEMMA NothingAgrees ==
    ASSUME NEW t \in Tasks, status[t] = "absent", retryCount[t] = FirstRetry[t],
           pushed = NoTask, \A w \in Workers : holding[w] = NoTask
    PROVE  Backed(t, << >>) /\ Delivered(t, << >>)
<1>1. \A l : t \notin At(l)
  BY TasksAssumption DEF At
<1>2. /\ ~Has(CompleteRecord(t), << >>) /\ ~Has(CascadeRecord(t), << >>)
      /\ Fails(t, << >>) = 0 /\ ~Exhausted(t, << >>)
  BY NothingYet, FieldsAssumption
     DEF Fails, Exhausted, Allowed, RetriesLeft, Budget, DefaultMaxRetries
<1>3. pushed # t /\ FirstRetry[t] \in Int
  BY TasksAssumption, FieldsAssumption
<1> QED
  BY <1>1, <1>2, <1>3 DEF Backed, Delivered, Dead, Picked, Executing, Failing, Completing

LEMMA InitLog == Init => RequestsLogged /\ Known /\ LogInv /\ AttemptsInv
<1> SUFFICES ASSUME Init
             PROVE  RequestsLogged /\ Known /\ LogInv /\ AttemptsInv
  OBVIOUS
<1>1. wal = << >>
  BY DEF Init, WalInit
<1>2. RequestsLogged /\ Known
  BY DEF Init, SchedulerInit, RequestsLogged, Known, Present
<1>3. \A t \in Tasks : Starts(t, wal) = 0 /\ Fails(t, wal) = 0 /\ ~Open(t, wal) /\ Allowed(t) \in Nat
  BY <1>1, NothingYet, FieldsAssumption
     DEF Starts, Fails, Allowed, RetriesLeft, Budget, DefaultMaxRetries
<1>4. LogLawful /\ FailsBounded
  BY <1>1, <1>3 DEF LogLawful, FailsBounded
<1>5. \A t \in Tasks : Backed(t, wal) /\ Delivered(t, wal)
  BY <1>1, NothingAgrees DEF Init, SchedulerInit
<1> QED
  BY <1>2, <1>3, <1>4, <1>5
     DEF LogInv, WrittenInv, DeliveredInv, AttemptsInv, StartsCover, Attempts

(* The places of a record, counted from one.                                  *)
LEMMA PlacesCount ==
    ASSUME WalTypeOK, NEW r
    PROVE  /\ Cardinality(Places(r)) = Count(r, wal)
           /\ Logged(r) <=> Has(r, wal)
           /\ \A i \in Places(r) : i \in 1 .. Len(wal) /\ wal[i] = r
<1>1. DOMAIN wal = 1 .. Len(wal)
  BY DEF WalTypeOK
<1> QED
  BY <1>1 DEF Places, Logged, Count, Has

(* What the invariants say in the words of the property.                      *)
LEMMA LogFacts ==
    LiveInv /\ RequestsLogged /\ Known /\ LogInv /\ AttemptsInv => LogCoversState
<1> SUFFICES ASSUME LiveInv, RequestsLogged, Known, LogInv, AttemptsInv
             PROVE  LogCoversState
  OBVIOUS
<1>0. WalTypeOK /\ DOMAIN wal = 1 .. Len(wal)
  BY DEF LiveInv, TypeOK, WalTypeOK
<1>1. \A t \in Present : \E i \in DOMAIN wal : wal[i].type = "INGEST" /\ t \in wal[i].tasks
  BY <1>0, RecordFacts DEF Known, Ingested, Has
<1>2. ASSUME walErrors = 0, NEW t \in Tasks
      PROVE  LET starts == Cardinality(Places(StartRecord(t)))
                 fails == Cardinality(Places(FailRecord(t)))
             IN  /\ status[t] = "completed" => Logged(CompleteRecord(t))
                 /\ status[t] = "failed" => Logged(FailRecord(t)) \/ Logged(CascadeRecord(t))
                 /\ \A i \in Places(StartRecord(t)), d \in Dependencies[t] :
                       \E j \in Places(CompleteRecord(d)) : j < i
                 /\ starts \in {fails, fails + 1}
                 /\ starts <= RetriesLeft(t, FirstRetry[t]) + 1
                 /\ fails - (retryCount[t] - FirstRetry[t]) \in {0, 1}
  <2>1. /\ Cardinality(Places(StartRecord(t))) = Starts(t, wal)
        /\ Cardinality(Places(FailRecord(t))) = Fails(t, wal)
        /\ Logged(CompleteRecord(t)) <=> Has(CompleteRecord(t), wal)
        /\ Logged(CascadeRecord(t)) <=> Has(CascadeRecord(t), wal)
        /\ Logged(FailRecord(t)) <=> Fails(t, wal) > 0
        /\ Starts(t, wal) \in Nat /\ Fails(t, wal) \in Nat
        /\ Allowed(t) \in Nat /\ FirstRetry[t] \in Int
    <3>1. wal \in Seq(Record) /\ StartRecord(t) \in Record
      BY <1>0, RecordTypes DEF WalTypeOK
    <3>2. Count(FailRecord(t), wal) > 0 <=> Has(FailRecord(t), wal)
      BY <3>1, CountAppend
    <3>3. Starts(t, wal) \in Nat /\ Fails(t, wal) \in Nat
      BY <3>1, TaskAppend
    <3>4. Allowed(t) \in Nat /\ FirstRetry[t] \in Int
      BY FieldsAssumption DEF Allowed, RetriesLeft, Budget, DefaultMaxRetries
    <3> QED
      BY <1>0, <3>2, <3>3, <3>4, PlacesCount DEF Starts, Fails
  <2>2. /\ LogLawful /\ Backed(t, wal) /\ Delivered(t, wal)
        /\ Fails(t, wal) <= Starts(t, wal) /\ Attempts(t, 0)
        /\ Starts(t, wal) <= Allowed(t) + 1
    BY <1>2 DEF LogInv, WrittenInv, DeliveredInv, AttemptsInv, StartsCover
  <2>3. /\ status[t] = "completed" => Logged(CompleteRecord(t))
        /\ status[t] = "failed" => Logged(FailRecord(t)) \/ Logged(CascadeRecord(t))
    BY <2>1, <2>2 DEF Backed, Dead, Exhausted
  <2>4. ASSUME NEW i \in Places(StartRecord(t)), NEW d \in Dependencies[t]
        PROVE  \E j \in Places(CompleteRecord(d)) : j < i
    <3>1. i \in 1 .. Len(wal) /\ wal[i] = StartRecord(t)
      BY <1>0, PlacesCount
    <3>2. Has(CompleteRecord(d), Before(i))
      BY <2>2, <3>1, RecordFacts DEF LogLawful, Lawful
    <3>3. PICK j \in 1 .. i - 1 : Before(i)[j] = CompleteRecord(d)
      BY <1>0, <3>1, <3>2 DEF Before, Has, WalTypeOK
    <3>4. wal[j] = CompleteRecord(d) /\ j \in DOMAIN wal /\ j < i
      BY <1>0, <3>1, <3>3 DEF Before, WalTypeOK
    <3> QED
      BY <3>4 DEF Places
  <2>5. Starts(t, wal) \in {Fails(t, wal), Fails(t, wal) + 1}
    BY <2>1, <2>2 DEF Attempts
  <2>6. Fails(t, wal) - (retryCount[t] - FirstRetry[t]) \in {0, 1}
    BY <2>1, <2>2 DEF Delivered
  <2> QED
    BY <2>1, <2>2, <2>3, <2>4, <2>5, <2>6 DEF Allowed
<1> QED
  BY <1>1, <1>2 DEF LogCoversState

(* "The WAL is the source of recovery truth": while the engine runs, the log  *)
(* covers what the scheduler knows (handleSubmitDAG, worker, handleFailure,   *)
(* propagateFailure).                                                         *)
THEOREM LogCovers == Spec => []LogCoversState
<1> DEFINE Log == RequestsLogged /\ Known /\ LogInv /\ AttemptsInv
<1>1. Init => Log
  BY InitLog
<1>2. LiveInv /\ Log /\ [Next]_vars => Log'
  BY NextKnown, NextLogged, NextAttemptsInv
<1>3. IInv => LiveInv
  BY DEF IInv
<1>4. LiveInv /\ Log => LogCoversState
  BY LogFacts
<1> HIDE DEF Log
<1> QED
  BY <1>1, <1>2, <1>3, <1>4, Invariance, PTL DEF Spec

-----------------------------------------------------------------------------
(* All lives: what survives a crash. The invariant ties the log to the state  *)
(* of each life, and to as much of a life as a replay has rebuilt             *)
(* (manager.go). No append fails, or the promises are off; and no two         *)
(* requests name the same task, or a refused request may win over an accepted *)
(* one in the replay (the run of MCOverlap shows it).                         *)

(* No two requests name the same task.                                        *)
RequestsDisjoint == \A b, c \in Batches : b # c => b \cap c = {}

-----------------------------------------------------------------------------
(* The invariant                                                              *)

(* What the state of this life stands for: the log, or as much of it as a     *)
(* replay has read.                                                           *)
Read == CASE phase = "down" -> << >> [] phase = "replaying" -> Before(cursor) [] OTHER -> wal

LifeTypeOK ==
    /\ phase \in {"up", "draining", "down", "replaying"}
    /\ stopped \subseteq Goroutines
    /\ cursor \in 1 .. Len(wal) + 1
    /\ crashes \in 0 .. MaxCrashes

(* A task is admitted to the log once.                                        *)
IngestsOnce ==
    \A i \in 1 .. Len(wal) :
        wal[i].type = "INGEST" => \A t \in wal[i].tasks : ~Ingested(t, Before(i))

(* A request that was not sent is not in the log, one that waits for the run  *)
(* loop is there and not yet admitted, and what is in the log is admitted or  *)
(* waits.                                                                     *)
UnsentUnknown ==
    \A b \in Batches : submission[b] = "unsent" => \A t \in b : ~Ingested(t, wal)
SentWaits ==
    \A b \in Batches : submission[b] = "persisted" =>
        phase \in {"up", "draining"} /\ b \cap Present = {}
ReadIsPresent ==
    \A t \in Tasks : Ingested(t, Read) =>
        t \in Present \/ \E b \in Batches : t \in b /\ submission[b] = "persisted"
Admissions == RequestsLogged /\ UnsentUnknown /\ SentWaits /\ ReadIsPresent

(* The replay shows a task running while its last attempt is open in the part *)
(* of the log that it has read.                                               *)
Mirrors(t, log) ==
    /\ status[t] = "running" => Open(t, log)
    /\ status[t] \in {"absent", "pending", "ready"} => ~Open(t, log)

(* Between two lives there is no goroutine, no timer and no cascade.          *)
EmptyHands ==
    /\ pushed = NoTask
    /\ \A w \in Workers : pc[w] = "idle" /\ holding[w] = NoTask
Quiet == EmptyHands /\ cascade = {} /\ \A t \in Tasks : retryTimers[t] = 0
Resting == phase \in {"down", "replaying"} => Quiet /\ \A t \in Tasks : Mirrors(t, Read)

(* All goroutines are there, and hold the running tasks, until a crash.       *)
UpHeld == phase = "up" => stopped = {} /\ \A t \in Tasks : status[t] = "running" => t \in Held

(* Whoever has written a record can still tell the run loop.                  *)
RunLoopUp == phase = "draining" => RunLoop \notin stopped

LifeAgrees ==
    /\ LiveInv /\ LifeTypeOK /\ MetricsMatch
    /\ LogLawful /\ FailsBounded /\ IngestsOnce
    /\ \A t \in Tasks : Backed(t, Read)
    /\ RunLoopUp => \A t \in Tasks : Delivered(t, Read)
    /\ Admissions /\ Resting /\ UpHeld

LifeInv == walErrors \in Nat /\ (walErrors = 0 => LifeAgrees)

(* A crash cuts short one attempt of a task at the most, and so does each of  *)
(* those before it.                                                           *)
Ended == IF phase = "draining" THEN crashes - 1 ELSE crashes
LifeAttempts ==
    walErrors = 0 => \A t \in Tasks :
        /\ Attempts(t, Ended)
        /\ phase \in {"down", "replaying"} => Starts(t, wal) <= Fails(t, wal) + Ended

-----------------------------------------------------------------------------
(* The beginning of a life                                                    *)

(* A new scheduler with idle goroutines.                                      *)
Anew ==
    /\ SchedulerInit
    /\ pushed = NoTask
    /\ pc = [w \in Workers |-> "idle"]
    /\ holding = [w \in Workers |-> NoTask]

(* NewScheduler: it agrees with an empty log.                                 *)
LEMMA AnewFacts ==
    Anew => /\ SchedulerTypeOK /\ CoreInv /\ HoldingExact /\ SingleHolder /\ MetricsMatch
            /\ Quiet /\ Present = {}
            /\ \A t \in Tasks : /\ status[t] = "absent"
                                /\ Backed(t, << >>) /\ Delivered(t, << >>) /\ Mirrors(t, << >>)
<1> SUFFICES ASSUME Anew
             PROVE  /\ SchedulerTypeOK /\ CoreInv /\ HoldingExact /\ SingleHolder /\ MetricsMatch
                    /\ Quiet /\ Present = {}
                    /\ \A t \in Tasks :
                          /\ status[t] = "absent"
                          /\ Backed(t, << >>) /\ Delivered(t, << >>) /\ Mirrors(t, << >>)
  OBVIOUS
<1>1. SchedulerTypeOK
  BY FieldsAssumption DEF Anew, SchedulerInit, SchedulerTypeOK
<1>2. Present = {} /\ \A t \in Tasks : status[t] = "absent"
  BY DEF Anew, SchedulerInit, Present
<1>3. CoreInv
  BY <1>2 DEF Anew, SchedulerInit, CoreInv, GraphExact, DegreeExact, DepsRespected,
              QueueCovers, TimersExact, CancelledExact, CascadeCaused
<1>4. HoldingExact /\ SingleHolder
  BY TasksAssumption DEF Anew, HoldingExact, SingleHolder, Held
<1>5. MetricsMatch
  <2>1. \A c \in Shown : Counted(c) = {} /\ metrics[c] = 0
    BY <1>2 DEF Anew, SchedulerInit, Counted, Shown, Counters
  <2> QED
    BY <1>1, <2>1, MetricsCount, FS_EmptySet
<1>6. Quiet
  BY DEF Anew, SchedulerInit, Quiet, EmptyHands
<1>7. \A t \in Tasks : Backed(t, << >>) /\ Delivered(t, << >>)
  BY <1>2, NothingAgrees DEF Anew, SchedulerInit
<1>8. \A t \in Tasks : Mirrors(t, << >>)
  BY <1>2, NothingYet DEF Mirrors
<1> QED
  BY <1>1, <1>2, <1>3, <1>4, <1>5, <1>6, <1>7, <1>8

(* The first life                                                             *)
LEMMA InitLife == RecoveryInit => LifeInv /\ LifeAttempts
<1> SUFFICES ASSUME RecoveryInit
             PROVE  LifeInv /\ LifeAttempts
  OBVIOUS
<1>1. /\ wal = << >> /\ walErrors = 0 /\ phase = "up" /\ stopped = {} /\ cursor = 1 /\ crashes = 0
      /\ \A b \in Batches : submission[b] = "unsent"
  BY DEF RecoveryInit, Init, WalInit
<1>2. LiveInv
  BY InitLive DEF RecoveryInit
<1>3. Anew
  BY DEF RecoveryInit, Init, Anew
<1>4. /\ MetricsMatch
      /\ \A t \in Tasks : status[t] = "absent" /\ Backed(t, << >>) /\ Delivered(t, << >>)
  BY <1>3, AnewFacts
<1>5. \A t \in Tasks : /\ Starts(t, wal) = 0 /\ Fails(t, wal) = 0 /\ ~Ingested(t, wal)
                       /\ Allowed(t) \in Nat
  BY <1>1, NothingYet, FieldsAssumption
     DEF Starts, Fails, Allowed, RetriesLeft, Budget, DefaultMaxRetries
<1>6. Read = wal
  BY <1>1 DEF Read
<1>7. LogLawful /\ FailsBounded /\ IngestsOnce
  BY <1>1, <1>5 DEF LogLawful, FailsBounded, IngestsOnce
<1>8. Admissions
  BY <1>1, <1>5, <1>6, BatchesAssumption
     DEF Admissions, RequestsLogged, UnsentUnknown, SentWaits, ReadIsPresent
<1>9. LifeTypeOK
  BY <1>1, RecoveryAssumption DEF LifeTypeOK
<1>10. LifeAgrees
  BY <1>1, <1>2, <1>4, <1>6, <1>7, <1>8, <1>9 DEF LifeAgrees, Resting, UpHeld
<1>11. LifeAttempts
  BY <1>1, <1>5 DEF LifeAttempts, Attempts, Ended
<1> QED
  BY <1>1, <1>10, <1>11 DEF LifeInv
-----------------------------------------------------------------------------
(* The steps of the goroutines                                                *)

(* A step of Engine while the goroutines live.                                *)
EngineStep == ClientStep \/ RunLoopStep \/ \E w \in Workers : WorkerStep(w)

LEMMA EngineStepFacts ==
    ASSUME EngineStep
    PROVE  /\ Next /\ UNCHANGED lifeVars /\ phase \in {"up", "draining"}
           /\ Read = wal /\ Read' = wal'
<1>1. Next /\ UNCHANGED lifeVars /\ phase \in {"up", "draining"}
  BY DEF EngineStep, ClientStep, RunLoopStep, WorkerStep, Next, WorkerNext, Live
<1> QED
  BY <1>1 DEF Read, lifeVars

(* The log and the state stay together: what the run loop does needs the      *)
(* notifications that are on their way, and there is a run loop to do it.     *)
LEMMA EngineStepLogged ==
    ASSUME LifeAgrees, walErrors' = 0, EngineStep
    PROVE  WrittenInv' /\ (RunLoopUp' => DeliveredInv')
<1>1. /\ LiveInv /\ WrittenInv /\ RequestsLogged
      /\ RunLoopUp => DeliveredInv
      /\ RunLoopUp' <=> RunLoopUp
  BY EngineStepFacts DEF LifeAgrees, Admissions, WrittenInv, DeliveredInv, RunLoopUp, lifeVars
<1>2. CASE ClientStep
  BY <1>1, <1>2, PersistLogged DEF ClientStep
<1>3. CASE RunLoopStep
  <2>1. DeliveredInv
    BY <1>1, <1>3 DEF RunLoopStep, Live, RunLoopUp
  <2>2. ASSUME NEW b \in Batches, Ingest(b)
        PROVE  WrittenInv' /\ DeliveredInv'
    BY <1>1, <2>1, <2>2, IngestLogged
  <2>3. CASE Pop
    BY <1>1, <2>1, <2>3, PopLogged
  <2>4. CASE CascadeStep
    BY <1>1, <2>1, <2>4, CascadeLogged
  <2>5. ASSUME NEW t \in Tasks, RetryFires(t)
        PROVE  WrittenInv' /\ DeliveredInv'
    BY <1>1, <2>1, <2>5, RetryFiresLogged
  <2>6. ASSUME NEW w \in Workers, NotifyFail(w) \/ NotifyComplete(w)
        PROVE  WrittenInv' /\ DeliveredInv'
    BY <1>1, <2>1, <2>6, NotifyFailLogged, NotifyCompleteLogged
  <2> QED
    BY <1>3, <2>2, <2>3, <2>4, <2>5, <2>6 DEF RunLoopStep
<1>4. ASSUME NEW w \in Workers, WorkerStep(w)
      PROVE  WrittenInv' /\ (DeliveredInv => DeliveredInv')
  BY <1>1, <1>4, HandOffLogged, StartLogged, FailLogged, CompleteLogged DEF WorkerStep
<1> QED
  BY <1>1, <1>2, <1>3, <1>4 DEF EngineStep

(* A record that admits nothing admitted before keeps admission unique.       *)
LEMMA AppendOnce ==
    ASSUME WalTypeOK, IngestsOnce, NEW r \in Record, wal' = Append(wal, r),
           r.type = "INGEST" => \A t \in r.tasks : ~Ingested(t, wal)
    PROVE  IngestsOnce'
<1> USE DEF WalTypeOK
<1>1. ASSUME NEW i \in 1 .. Len(wal'), wal'[i].type = "INGEST", NEW t \in wal'[i].tasks
      PROVE  ~Ingested(t, SubSeq(wal', 1, i - 1))
  <2>1. SubSeq(wal', 1, i - 1) = SubSeq(wal, 1, i - 1)
    BY AppendFacts, PrefixAppend
  <2>2. CASE i \in 1 .. Len(wal)
    BY <1>1, <2>1, <2>2, AppendFacts DEF IngestsOnce, Before
  <2>3. CASE i = Len(wal) + 1
    <3>1. i - 1 = Len(wal)
      BY <2>3
    <3> QED
      BY <1>1, <2>1, <2>3, <3>1, AppendFacts, Prefixes
  <2> QED
    BY <2>2, <2>3, AppendFacts
<1> QED
  BY <1>1 DEF IngestsOnce, Before

(* A request that waits is admitted: its tasks are new and bring what they    *)
(* depend on.                                                                 *)
LEMMA WaitingAdmissible ==
    ASSUME SentWaits, NEW b \in Batches, submission[b] = "persisted"
    PROVE  Admissible(b)
BY BatchesAssumption DEF SentWaits, Admissible

(* The client and the run loop between them admit every request once.         *)
LEMMA EngineStepAdmits ==
    ASSUME RequestsDisjoint, LifeAgrees, walErrors' = 0, EngineStep
    PROVE  IngestsOnce' /\ Admissions'
<1> USE DEF Admissions
<1>1. /\ LiveInv /\ WalTypeOK /\ Next /\ Known /\ IngestsOnce /\ Admissions
      /\ Read = wal /\ Read' = wal' /\ phase' = phase /\ phase \in {"up", "draining"}
  BY EngineStepFacts DEF LifeAgrees, LiveInv, TypeOK, Known, Backed, Present, lifeVars
<1>2. RequestsLogged'
  BY <1>1, NextKnown
<1>3. ASSUME NEW b \in Batches, Persist(b)
      PROVE  IngestsOnce' /\ Admissions'
  <2> DEFINE r == IngestRecord(b)
  <2>1. /\ submission[b] = "unsent" /\ submission'[b] = "persisted" /\ Present' = Present
        /\ \A c \in Batches : c # b => submission'[c] = submission[c]
        /\ wal' = Append(wal, r) /\ r \in Record /\ r.type = "INGEST" /\ r.tasks = b
    BY <1>1, <1>3, PersistFacts, RecordTypes, RecordFacts
  <2>2. \A t : Ingested(t, wal') => Ingested(t, wal) \/ t \in b
    BY <1>1, <2>1, IngestedAppend, RecordFacts DEF WalTypeOK
  <2>3. \A t \in b : ~Ingested(t, wal)
    BY <1>1, <2>1 DEF UnsentUnknown
  <2>4. IngestsOnce'
    BY <1>1, <2>1, <2>3, AppendOnce
  <2>5. UnsentUnknown'
    BY <1>1, <2>1, <2>2 DEF UnsentUnknown, RequestsDisjoint
  <2>6. SentWaits'
    BY <1>1, <2>1, <2>3 DEF SentWaits, Known
  <2>7. ReadIsPresent'
    BY <1>1, <2>1, <2>2 DEF ReadIsPresent
  <2> QED
    BY <1>2, <2>4, <2>5, <2>6, <2>7
<1>4. ASSUME NEW b \in Batches, Ingest(b)
      PROVE  IngestsOnce' /\ Admissions'
  <2>1. /\ submission[b] = "persisted" /\ submission'[b] = "accepted" /\ wal' = wal
        /\ \A c \in Batches : c # b => submission'[c] = submission[c]
        /\ Present' = Present \cup b
    BY <1>1, <1>4, IngestFacts, WaitingAdmissible
  <2>2. IngestsOnce' /\ UnsentUnknown'
    BY <1>1, <2>1 DEF IngestsOnce, Before, UnsentUnknown
  <2>3. SentWaits'
    BY <1>1, <2>1 DEF SentWaits, RequestsDisjoint
  <2>4. ReadIsPresent'
    BY <1>1, <2>1 DEF ReadIsPresent
  <2> QED
    BY <1>2, <2>2, <2>3, <2>4
<1>5. CASE OtherStep
  <2>1. UNCHANGED submission /\ Present' = Present
    BY <1>1, <1>5, OtherStepFacts
  <2>2. \A b \in Batches : ~Persist(b)
    BY <1>1, <2>1, PersistFacts
  <2>3. IngestsOnce' /\ \A t : Ingested(t, wal') => Ingested(t, wal)
    <3>1. CASE wal' = wal
      BY <1>1, <3>1 DEF IngestsOnce, Before
    <3>2. ASSUME NEW r \in Record, Writes(r)
          PROVE  IngestsOnce' /\ \A t : Ingested(t, wal') => Ingested(t, wal)
      <4>1. wal' = Append(wal, r) /\ r.type # "INGEST"
        BY <2>2, <3>2 DEF Writes
      <4> QED
        BY <1>1, <4>1, AppendOnce, IngestedAppend, RecordFacts DEF WalTypeOK
    <3> QED
      BY <1>1, <3>1, <3>2, NextWrites
  <2> QED
    BY <1>1, <1>2, <2>1, <2>3 DEF UnsentUnknown, SentWaits, ReadIsPresent
<1> QED
  BY <1>1, <1>3, <1>4, <1>5 DEF Next, OtherStep

(* Every step of the goroutines keeps the invariant.                          *)
LEMMA EngineStepLife ==
    ASSUME RequestsDisjoint, walErrors = 0, LifeAgrees, walErrors' = 0, EngineStep
    PROVE  LifeAgrees'
<1>1. /\ Next /\ UNCHANGED lifeVars /\ phase \in {"up", "draining"}
      /\ Read = wal /\ Read' = wal'
  BY EngineStepFacts
<1>2. LiveInv' /\ MetricsMatch'
  BY <1>1, NextLive, NextMetrics DEF LifeAgrees
<1>3. /\ LogLawful' /\ FailsBounded' /\ \A t \in Tasks : Backed(t, Read)'
      /\ RunLoopUp' => \A t \in Tasks : Delivered(t, Read)'
  BY <1>1, EngineStepLogged DEF WrittenInv, DeliveredInv
<1>4. IngestsOnce' /\ Admissions'
  BY EngineStepAdmits
<1>5. LifeTypeOK'
  <2>1. wal' = wal \/ \E r \in Record : wal' = Append(wal, r)
    BY <1>1, NextWrites DEF LifeAgrees, Writes
  <2>2. Len(wal) \in Nat /\ (Len(wal') = Len(wal) \/ Len(wal') = Len(wal) + 1)
    BY <2>1, AppendFacts DEF LifeAgrees, LiveInv, TypeOK, WalTypeOK
  <2> QED
    BY <1>1, <2>2 DEF LifeAgrees, LifeTypeOK, lifeVars
<1>6. Resting'
  BY <1>1 DEF Resting, lifeVars
<1>7. UpHeld'
  <2>1. CASE phase = "up"
    <3>1. RunningIsHeld
      BY <2>1 DEF LifeAgrees, UpHeld, RunningIsHeld
    <3>2. RunningIsHeld'
      BY <1>1, <3>1, NextHeld DEF LifeAgrees
    <3> QED
      BY <1>1, <2>1, <3>2 DEF LifeAgrees, UpHeld, RunningIsHeld, lifeVars
  <2> QED
    BY <1>1, <2>1 DEF UpHeld, lifeVars
<1> QED
  BY <1>2, <1>3, <1>4, <1>5, <1>6, <1>7 DEF LifeAgrees
-----------------------------------------------------------------------------
(* The end of a life                                                          *)

(* A step that only changes where the life stands.                            *)
LEMMA VarsStay ==
    ASSUME LiveInv, UNCHANGED vars
    PROVE  /\ LiveInv' /\ (MetricsMatch => MetricsMatch')
           /\ LogLawful /\ FailsBounded => LogLawful' /\ FailsBounded'
           /\ IngestsOnce => IngestsOnce'
           /\ \A t \in Tasks : \A log : /\ Backed(t, log) => Backed(t, log)'
                                        /\ Delivered(t, log) => Delivered(t, log)'
                                        /\ Mirrors(t, log) => Mirrors(t, log)'
           /\ RequestsLogged => RequestsLogged'
           /\ UnsentUnknown => UnsentUnknown'
           /\ Quiet => Quiet'
           /\ Present' = Present /\ Held' = Held
<1>1. UNCHANGED <<wal, status, retryCount, retryTimers, cascade, submission, pushed, pc, holding>>
  BY DEF vars, walVars, schedVars, engineVars
<1>2. LiveInv' /\ (MetricsMatch => MetricsMatch')
  BY NextLive, NextMetrics
<1>3. LogLawful /\ FailsBounded => LogLawful' /\ FailsBounded'
  BY <1>1, LogStays
<1>4. ASSUME NEW t \in Tasks, NEW log
      PROVE  /\ Backed(t, log) => Backed(t, log)'
             /\ Delivered(t, log) => Delivered(t, log)'
             /\ Mirrors(t, log) => Mirrors(t, log)'
  <2>1. HandsSame(t) /\ StatusSame(t)
    BY <1>1, HandsUntouched DEF StatusSame
  <2> QED
    BY <1>1, <2>1, SaysItself, Untouched DEF Mirrors
<1>5. IngestsOnce => IngestsOnce'
  BY <1>1 DEF IngestsOnce, Before
<1>6. /\ RequestsLogged => RequestsLogged'
      /\ UnsentUnknown => UnsentUnknown'
      /\ Quiet => Quiet'
      /\ Present' = Present /\ Held' = Held
  BY <1>1 DEF RequestsLogged, UnsentUnknown, Quiet, EmptyHands, Present, Held
<1> QED
  BY <1>2, <1>3, <1>4, <1>5, <1>6

(* SimulateCrash cancels the context.                                         *)
LEMMA CancelLife ==
    ASSUME LifeAgrees, CancelContext
    PROVE  LifeAgrees'
<1>1. /\ UNCHANGED vars /\ UNCHANGED <<stopped, cursor>>
      /\ phase = "up" /\ phase' = "draining" /\ crashes' = crashes + 1 /\ crashes < MaxCrashes
      /\ Read = wal /\ Read' = wal
  BY DEF CancelContext, Read, vars, walVars
<1>2. LifeTypeOK'
  BY <1>1, RecoveryAssumption DEF LifeAgrees, LifeTypeOK, vars, walVars
<1>3. /\ \A t \in Tasks : Backed(t, wal) /\ Delivered(t, wal)
      /\ LiveInv /\ MetricsMatch /\ LogLawful /\ FailsBounded /\ IngestsOnce /\ Admissions
  BY <1>1 DEF LifeAgrees, RunLoopUp
<1>4. \A t \in Tasks : Backed(t, Read)' /\ Delivered(t, Read)'
  BY <1>1, <1>3, VarsStay
<1>5. Admissions'
  BY <1>1, <1>3, VarsStay DEF Admissions, SentWaits, ReadIsPresent, vars, engineVars, walVars
<1>6. Resting' /\ UpHeld'
  BY <1>1 DEF Resting, UpHeld
<1> QED
  BY <1>1, <1>2, <1>3, <1>4, <1>5, <1>6, VarsStay DEF LifeAgrees

(* runLoop returns, and nothing reaches the scheduler any more.               *)
LEMMA StopRunLoopLife ==
    ASSUME LifeAgrees, StopRunLoop
    PROVE  LifeAgrees'
<1>1. /\ UNCHANGED vars /\ UNCHANGED <<phase, cursor, crashes>>
      /\ phase = "draining" /\ stopped' = stopped \cup {RunLoop}
      /\ Read = wal /\ Read' = wal
  BY DEF StopRunLoop, Read, vars, walVars
<1>2. LifeTypeOK'
  BY <1>1 DEF LifeAgrees, LifeTypeOK, vars, walVars, Goroutines
<1>3. /\ \A t \in Tasks : Backed(t, wal)
      /\ LiveInv /\ MetricsMatch /\ LogLawful /\ FailsBounded /\ IngestsOnce /\ Admissions
  BY <1>1 DEF LifeAgrees
<1>4. \A t \in Tasks : Backed(t, Read)'
  BY <1>1, <1>3, VarsStay
<1>5. Admissions'
  BY <1>1, <1>3, VarsStay DEF Admissions, SentWaits, ReadIsPresent, vars, engineVars, walVars
<1>6. Resting' /\ UpHeld' /\ ~RunLoopUp'
  BY <1>1 DEF Resting, UpHeld, RunLoopUp
<1> QED
  BY <1>1, <1>2, <1>3, <1>4, <1>5, <1>6, VarsStay DEF LifeAgrees

(* A goroutine that returns lets go of the task in its hands, and the run     *)
(* loop does not hear of it.                                                  *)
LetGo ==
    /\ UNCHANGED <<walVars, schedVars, submission>>
    /\ \/ pushed' = NoTask /\ UNCHANGED <<pc, holding>>
       \/ UNCHANGED pushed /\ \E w \in Workers : Return(w)

LEMMA LetGoFacts ==
    ASSUME LiveInv, LetGo
    PROVE  /\ LiveInv' /\ (MetricsMatch => MetricsMatch')
           /\ \A t \in Tasks : pushed' = t => pushed = t
           /\ \A l : At(l)' \subseteq At(l)
<1> USE DEF LiveInv, TypeOK, EngineTypeOK, LetGo
<1>1. UNCHANGED <<wal, walErrors, status, retryCount, cancelled, inDegree, dependents,
                  readyQueue, retryTimers, metrics, cascade, submission>>
  BY DEF walVars, schedVars
<1>2. WalTypeOK' /\ SchedulerTypeOK' /\ CoreInv'
  BY <1>1, SchedStays DEF WalTypeOK, SchedulerTypeOK, schedVars
<1>3. MetricsMatch => MetricsMatch'
  BY <1>1 DEF MetricsMatch, Present
<1>4. CASE pushed' = NoTask /\ UNCHANGED <<pc, holding>>
  <2>1. EngineTypeOK' /\ HoldingExact' /\ SingleHolder'
    BY <1>1, <1>4, TasksAssumption DEF HoldingExact, SingleHolder, Held
  <2>2. /\ \A t \in Tasks : pushed' # t
        /\ \A l : At(l)' = At(l)
    BY <1>4, AtStays, TasksAssumption
  <2> QED
    BY <1>2, <1>3, <2>1, <2>2
<1>5. ASSUME NEW w \in Workers, Return(w), UNCHANGED pushed
      PROVE  /\ EngineTypeOK' /\ HoldingExact' /\ SingleHolder'
             /\ \A l : At(l)' \subseteq At(l)
  <2>1. \A v \in Workers : /\ pc'[v] = IF v = w THEN "idle" ELSE pc[v]
                           /\ holding'[v] = IF v = w THEN NoTask ELSE holding[v]
    BY <1>5 DEF Return
  <2>2. EngineTypeOK'
    BY <1>1, <1>5 DEF Return, WorkerState
  <2>3. HoldingExact' /\ SingleHolder'
    <3>1. Held' \subseteq Held
      BY <1>5, <2>1, TasksAssumption DEF Held
    <3> QED
      BY <1>1, <1>5, <2>1, <3>1 DEF HoldingExact, SingleHolder
  <2>4. \A l : At(l)' \subseteq At(l)
    BY <2>1, TasksAssumption DEF At
  <2> QED
    BY <2>2, <2>3, <2>4
<1> QED
  BY <1>2, <1>3, <1>4, <1>5

(* With less in hand, less has to be backed by the log.                       *)
LEMMA LetGoBacked ==
    ASSUME LiveInv, LetGo, NEW t \in Tasks, NEW log, Backed(t, log)
    PROVE  Backed(t, log)'
<1>1. /\ UNCHANGED <<status, retryCount>> /\ (pushed' = t => pushed = t)
      /\ \A l : t \in At(l)' => t \in At(l)
  BY LetGoFacts DEF LetGo, schedVars
<1> QED
  BY <1>1 DEF Backed, Dead, Exhausted, Allowed, RetriesLeft, Budget,
              Picked, Executing, Failing, Completing

(* pushLoop and the workers return, during an execution or instead of a       *)
(* notification that nobody takes.                                            *)
LEMMA LetGoLife ==
    ASSUME LifeAgrees, LetGo, phase = "draining", UNCHANGED <<phase, cursor, crashes>>,
           stopped \subseteq stopped', stopped' \subseteq Goroutines,
           RunLoopUp' => RunLoopUp /\ \A l \in {"failing", "completing"} : At(l)' = At(l)
    PROVE  LifeAgrees'
<1>1. /\ UNCHANGED <<wal, walErrors, status, retryCount, submission>>
      /\ Read = wal /\ Read' = wal
  BY DEF LetGo, walVars, schedVars, Read
<1>2. LifeTypeOK'
  BY <1>1 DEF LifeAgrees, LifeTypeOK
<1>3. LiveInv' /\ MetricsMatch'
  BY LetGoFacts DEF LifeAgrees
<1>4. LogLawful' /\ FailsBounded' /\ IngestsOnce'
  BY <1>1, LogStays DEF LifeAgrees, IngestsOnce, Before
<1>5. \A t \in Tasks : Backed(t, Read)'
  BY <1>1, LetGoBacked DEF LifeAgrees
<1>6. ASSUME RunLoopUp', NEW t \in Tasks
      PROVE  Delivered(t, Read)'
  <2>1. Delivered(t, wal) /\ UNCHANGED <<Failing, Completing>>
    BY <1>1, <1>6 DEF LifeAgrees, Failing, Completing
  <2> QED
    BY <1>1, <2>1 DEF Delivered, Exhausted, Allowed, RetriesLeft, Budget
<1>7. Admissions'
  BY <1>1 DEF LifeAgrees, Admissions, RequestsLogged, UnsentUnknown, SentWaits, ReadIsPresent, Present
<1>8. Resting' /\ UpHeld'
  BY DEF Resting, UpHeld
<1> QED
  BY <1>2, <1>3, <1>4, <1>5, <1>6, <1>7, <1>8 DEF LifeAgrees

LEMMA StopPushLoopLife ==
    ASSUME LifeAgrees, StopPushLoop
    PROVE  LifeAgrees'
<1>1. /\ LetGo /\ phase = "draining" /\ UNCHANGED <<phase, cursor, crashes>>
      /\ stopped' = stopped \cup {PushLoop}
  BY DEF StopPushLoop, LetGo
<1>2. stopped \subseteq stopped' /\ stopped' \subseteq Goroutines
  BY <1>1 DEF LifeAgrees, LifeTypeOK, Goroutines
<1>3. \A l : At(l)' = At(l)
  BY AtStays DEF StopPushLoop
<1> QED
  BY <1>1, <1>2, <1>3, LetGoLife DEF RunLoopUp

LEMMA StopWorkerLife ==
    ASSUME LifeAgrees, NEW w \in Workers, StopWorker(w)
    PROVE  LifeAgrees'
<1>1. /\ LetGo /\ phase = "draining" /\ UNCHANGED <<phase, cursor, crashes>>
      /\ stopped' = stopped \cup {w}
  BY DEF StopWorker, LetGo
<1>2. stopped \subseteq stopped' /\ stopped' \subseteq Goroutines
  BY <1>1 DEF LifeAgrees, LifeTypeOK, Goroutines
<1>3. ASSUME NEW l \in {"failing", "completing"}
      PROVE  At(l)' = At(l)
  <2>1. At(l)' \subseteq At(l)
    BY <1>1, LetGoFacts DEF LifeAgrees
  <2>2. \A v \in Workers : v # w => pc'[v] = pc[v] /\ holding'[v] = holding[v]
    BY DEF StopWorker, Return, LifeAgrees, LiveInv, TypeOK, EngineTypeOK
  <2>3. pc[w] # l
    BY DEF StopWorker
  <2>4. At(l) \subseteq At(l)'
    BY <2>2, <2>3 DEF At
  <2> QED
    BY <2>1, <2>4
<1> QED
  BY <1>1, <1>2, <1>3, LetGoLife DEF RunLoopUp

LEMMA NotifyStoppedLife ==
    ASSUME LifeAgrees, NEW w \in Workers, NotifyStopped(w)
    PROVE  LifeAgrees'
<1>1. /\ LetGo /\ phase = "draining" /\ UNCHANGED <<phase, cursor, crashes, stopped>>
      /\ RunLoop \in stopped
  BY DEF NotifyStopped, LetGo, lifeVars
<1> QED
  BY <1>1, LetGoLife DEF RunLoopUp, LifeAgrees, LifeTypeOK

(* Nothing is left but the log, and the next scheduler has read none of it.   *)
LEMMA VanishLife ==
    ASSUME LifeAgrees, Vanish, crashes' \in 0 .. MaxCrashes
    PROVE  LifeAgrees'
<1>1. /\ Anew' /\ phase' = "down" /\ UNCHANGED <<wal, walErrors, cursor>>
      /\ stopped' = Goroutines /\ Read' = << >>
      /\ \A b \in Batches : /\ submission'[b] # "persisted"
                            /\ submission'[b] = submission[b] \/ submission'[b] = "lost"
  BY DEF Vanish, SchedulerReset, Anew, SchedulerInit, walVars, Read
<1>2. /\ SchedulerTypeOK' /\ CoreInv' /\ HoldingExact' /\ SingleHolder' /\ MetricsMatch'
      /\ Quiet' /\ Present' = {}
      /\ \A t \in Tasks : /\ Backed(t, << >>)' /\ Delivered(t, << >>)' /\ Mirrors(t, << >>)'
  <2>1. ( /\ SchedulerTypeOK /\ CoreInv /\ HoldingExact /\ SingleHolder /\ MetricsMatch
          /\ Quiet /\ Present = {}
          /\ \A t \in Tasks : /\ status[t] = "absent"
                              /\ Backed(t, << >>) /\ Delivered(t, << >>) /\ Mirrors(t, << >>) )'
    BY <1>1, AnewFacts, PTL
  <2> QED
    BY <2>1
<1>3. LiveInv'
  <2>1. WalTypeOK'
    BY <1>1 DEF LifeAgrees, LiveInv, TypeOK, WalTypeOK
  <2>2. EngineTypeOK'
    BY DEF Vanish, LifeAgrees, LiveInv, TypeOK, EngineTypeOK, SubmissionState, WorkerState
  <2> QED
    BY <1>2, <2>1, <2>2 DEF LiveInv, TypeOK
<1>4. LifeTypeOK'
  BY <1>1 DEF LifeAgrees, LifeTypeOK
<1>5. LogLawful' /\ FailsBounded' /\ IngestsOnce'
  BY <1>1, LogStays DEF LifeAgrees, IngestsOnce, Before
<1>6. Admissions'
  <2>1. \A t : ~Ingested(t, Read')
    BY <1>1, NothingYet
  <2> QED
    BY <1>1, <2>1 DEF LifeAgrees, Admissions, RequestsLogged, UnsentUnknown, SentWaits, ReadIsPresent
<1>7. /\ \A t \in Tasks : Backed(t, Read)' /\ Delivered(t, Read)'
      /\ Resting' /\ UpHeld'
  BY <1>1, <1>2 DEF Resting, UpHeld
<1> QED
  BY <1>2, <1>3, <1>4, <1>5, <1>6, <1>7 DEF LifeAgrees
-----------------------------------------------------------------------------
(* Replay                                                                     *)

(* What a replay has built from the records it has read: a scheduler that     *)
(* agrees with them, and nobody who works for it.                             *)
Replayed(log) ==
    /\ SchedulerTypeOK /\ CoreInv /\ MetricsMatch /\ Quiet
    /\ \A t \in Tasks : /\ Ingested(t, log) => t \in Present
                        /\ Backed(t, log) /\ Delivered(t, log) /\ Mirrors(t, log)

(* Nobody has a task in hand.                                                 *)
LEMMA NobodyHolds ==
    ASSUME EmptyHands
    PROVE  \A t \in Tasks : pushed # t /\ \A l : t \notin At(l)
BY TasksAssumption DEF EmptyHands, At

(* A record that says nothing of t leaves t as it is, or lets it become ready *)
(* because what it waits for has completed.                                   *)
LEMMA ReplayUntouched ==
    ASSUME NEW t \in Tasks, NEW log, NEW new, SaysSame(t, log, new),
           UNCHANGED <<pushed, pc, holding>>, retryCount'[t] = retryCount[t],
           status'[t] = status[t] \/ (status[t] = "pending" /\ status'[t] = "ready"),
           Backed(t, log), Delivered(t, log), Mirrors(t, log)
    PROVE  Backed(t, new)' /\ Delivered(t, new)' /\ Mirrors(t, new)'
<1>1. HandsSame(t) /\ StatusSame(t)
  BY HandsUntouched DEF StatusSame, Hidden
<1>2. Backed(t, new)' /\ Delivered(t, new)'
  BY <1>1, Untouched
<1>3. Mirrors(t, new)'
  BY DEF Mirrors, SaysSame
<1> QED
  BY <1>2, <1>3

(* An INGEST record: no task of it is known, so it is not refused.            *)
LEMMA ReplayIngest ==
    ASSUME NEW log \in Seq(Record), Replayed(log), NEW b \in Batches,
           \A t \in b : ~Ingested(t, log),
           HandleIngest(b) \/ RefuseIngest(b), UNCHANGED engineVars
    PROVE  Replayed(Append(log, IngestRecord(b)))'
<1> DEFINE r == IngestRecord(b)
           new == Append(log, r)
<1>0. /\ SchedulerTypeOK /\ CoreInv /\ MetricsMatch /\ Quiet
      /\ \A t \in Tasks : /\ Ingested(t, log) => t \in Present
                          /\ Backed(t, log) /\ Delivered(t, log) /\ Mirrors(t, log)
  BY DEF Replayed
<1>1. HandleIngest(b)
  <2>1. b \cap Present = {}
    BY <1>0 DEF Present, Backed
  <2>2. Admissible(b)
    BY <2>1, BatchesAssumption DEF Admissible
  <2> QED
    BY <2>2 DEF RefuseIngest
<1>2. SchedulerTypeOK' /\ CoreInv' /\ MetricsMatch'
  BY <1>0, <1>1, IngestType, IngestKeeps, MetricsIngest
<1>3. /\ UNCHANGED <<retryCount, retryTimers, cascade, pushed, pc, holding>>
      /\ \A t \in Tasks : t \notin b => status'[t] = status[t]
      /\ \A t \in b : t \in Tasks /\ status[t] = "absent" /\ status'[t] \in {"pending", "ready"}
  BY <1>1, BatchFinite DEF HandleIngest, Admissible, Present, engineVars
<1>4. Quiet'
  BY <1>0, <1>3 DEF Quiet, EmptyHands
<1>5. r \in Record /\ r.type = "INGEST"
  BY RecordTypes, RecordFacts
<1>6. \A t \in Tasks : SaysSame(t, log, new)
  BY <1>5, SilentAppend
<1>7. ASSUME NEW t \in Tasks
      PROVE  Ingested(t, new) <=> Ingested(t, log) \/ t \in b
  BY <1>5, IngestedAppend, RecordFacts
<1>8. ASSUME NEW t \in Tasks, t \notin b
      PROVE  /\ Ingested(t, new) => t \in Present'
             /\ Backed(t, new)' /\ Delivered(t, new)' /\ Mirrors(t, new)'
  <2>1. Ingested(t, new) => t \in Present'
    BY <1>0, <1>3, <1>7, <1>8 DEF Present
  <2> HIDE DEF new
  <2> QED
    BY <1>0, <1>3, <1>6, <1>8, <2>1, ReplayUntouched
<1>9. ASSUME NEW t \in b
      PROVE  /\ Ingested(t, new) => t \in Present'
             /\ Backed(t, new)' /\ Delivered(t, new)' /\ Mirrors(t, new)'
  <2>1. /\ t \in Tasks /\ Ingested(t, new) /\ SaysSame(t, log, new)
        /\ Backed(t, log) /\ Delivered(t, log) /\ Mirrors(t, log)
        /\ status[t] = "absent" /\ status'[t] \in {"pending", "ready"}
        /\ UNCHANGED retryCount
    BY <1>0, <1>3, <1>6, <1>7
  <2>2. \A u \in Tasks : pushed' # u /\ \A l : u \notin At(l)' /\ u \notin At(l)
    <3>1. EmptyHands /\ UNCHANGED <<pushed, pc, holding>>
      BY <1>0, <1>3 DEF Quiet
    <3> QED
      BY <3>1, NobodyHolds, AtStays
  <2>3. t \in Present'
    BY <2>1 DEF Present
  <2> HIDE DEF new
  <2>4. Backed(t, new)'
    BY <2>1, <2>2 DEF Backed, SaysSame, Picked, Executing, Failing, Completing
  <2>5. Delivered(t, new)'
    BY <2>1, <2>2 DEF Delivered, SaysSame, Exhausted, Allowed, RetriesLeft, Budget, Failing,
                      Completing
  <2>6. Mirrors(t, new)'
    BY <2>1 DEF Mirrors, SaysSame
  <2> QED
    BY <2>3, <2>4, <2>5, <2>6
<1> HIDE DEF new
<1>10. Replayed(new)'
  BY <1>2, <1>4, <1>8, <1>9 DEF Replayed
<1> QED
  BY <1>10 DEF new

(* The other records: what is left to see is what becomes of the task.        *)
LEMMA ReplayTask ==
    ASSUME NEW log \in Seq(Record), Replayed(log), NEW t \in Tasks, NEW r \in Record,
           r.type # "INGEST", r.task = t,
           UNCHANGED engineVars, UNCHANGED <<retryTimers, cascade>>,
           SchedulerTypeOK', CoreInv', MetricsMatch',
           \A u \in Tasks : u # t =>
              /\ retryCount'[u] = retryCount[u]
              /\ status'[u] = status[u] \/ (status[u] = "pending" /\ status'[u] = "ready"),
           status'[t] # "absent",
           NEW new, new = Append(log, r),
           Backed(t, new)', Delivered(t, new)', Mirrors(t, new)'
    PROVE  Replayed(new)'
<1>0. /\ Quiet
      /\ \A u \in Tasks : /\ Ingested(u, log) => u \in Present
                          /\ Backed(u, log) /\ Delivered(u, log) /\ Mirrors(u, log)
  BY DEF Replayed
<1>1. UNCHANGED <<pushed, pc, holding>>
  BY DEF engineVars
<1>2. Quiet'
  BY <1>0, <1>1 DEF Quiet, EmptyHands
<1>3. ASSUME NEW u \in Tasks
      PROVE  Ingested(u, new) => u \in Present'
  <2>1. Ingested(u, new) => Ingested(u, log)
    BY IngestedAppend, RecordFacts
  <2> QED
    BY <1>0, <2>1 DEF Present
<1>4. ASSUME NEW u \in Tasks, u # t
      PROVE  Backed(u, new)' /\ Delivered(u, new)' /\ Mirrors(u, new)'
  <2>1. SaysSame(u, log, new)
    BY <1>4, SilentAppend
  <2> QED
    BY <1>0, <1>1, <1>4, <2>1, ReplayUntouched
<1> QED
  BY <1>2, <1>3, <1>4 DEF Replayed

(* What a lawful record finds: its task, not settled.                         *)
LEMMA ReplayFinds ==
    ASSUME NEW log \in Seq(Record), Replayed(log), NEW t \in Tasks, NEW r,
           r.type # "INGEST", r.task = t, Lawful(r, log)
    PROVE  /\ SchedulerTypeOK /\ CoreInv /\ MetricsMatch /\ cascade = {}
           /\ Backed(t, log) /\ Delivered(t, log) /\ Mirrors(t, log) /\ Ingested(t, log)
           /\ ~Has(CompleteRecord(t), log) /\ ~Has(CascadeRecord(t), log) /\ ~Exhausted(t, log)
           /\ status[t] \in {"pending", "ready", "running"}
           /\ status[t] = "pending" => Unmet(t) # {}
           /\ r.type \in {"COMPLETE", "FAIL"} => status[t] = "running"
           /\ \A u \in Tasks : pushed # u /\ \A l : u \notin At(l)
<1>1. /\ SchedulerTypeOK /\ CoreInv /\ MetricsMatch /\ Quiet
      /\ Backed(t, log) /\ Delivered(t, log) /\ Mirrors(t, log) /\ Ingested(t, log)
      /\ t \in Present
      /\ ~Has(CompleteRecord(t), log) /\ ~Dead(t, log)
      /\ r.type \in {"COMPLETE", "FAIL"} => Open(t, log)
  BY DEF Replayed, Lawful
<1>2. status[t] \in {"pending", "ready", "running"}
  BY <1>1 DEF Backed, Present, SchedulerTypeOK
<1>3. status[t] = "pending" => Unmet(t) # {}
  BY <1>1 DEF Quiet, CoreInv, TimersExact
<1> QED
  BY <1>1, <1>2, <1>3, NobodyHolds DEF Dead, Mirrors, Quiet

(* START: the dependencies have completed, so the task is ready, or runs      *)
(* already because an earlier attempt was cut short.                          *)
LEMMA ReplayStart ==
    ASSUME NEW log \in Seq(Record), Replayed(log), NEW t \in Tasks, Lawful(StartRecord(t), log),
           HandleReplayStart(t), UNCHANGED engineVars
    PROVE  Replayed(Append(log, StartRecord(t)))'
<1>0. PICK r \in Record : /\ r = StartRecord(t) /\ r.type = "START" /\ r.task = t
                          /\ Lawful(r, log)
  BY RecordTypes, RecordFacts
<1>1. PICK new : new = Append(log, r)
  OBVIOUS
<1>2. /\ SchedulerTypeOK /\ CoreInv /\ MetricsMatch /\ cascade = {}
      /\ Backed(t, log) /\ Delivered(t, log) /\ Ingested(t, log)
      /\ ~Has(CompleteRecord(t), log) /\ ~Has(CascadeRecord(t), log) /\ ~Exhausted(t, log)
      /\ status[t] \in {"pending", "ready", "running"}
      /\ status[t] = "pending" => Unmet(t) # {}
      /\ \A u \in Tasks : pushed # u /\ \A l : u \notin At(l)
  BY <1>0, ReplayFinds
<1>3. Unmet(t) = {}
  <2>1. \A d \in Dependencies[t] : d \in Tasks /\ Has(CompleteRecord(d), log)
    BY <1>0, FieldsAssumption DEF Lawful
  <2>2. \A d \in Dependencies[t] : status[d] = "completed"
    BY <1>2, <2>1 DEF Replayed, Delivered, Completing
  <2> QED
    BY <2>2 DEF Unmet
<1>4. /\ UNCHANGED <<retryCount, retryTimers, cascade, inDegree, dependents, cancelled,
                     readyQueue, pushed, pc, holding>>
  BY DEF HandleReplayStart, engineVars
<1>5. /\ status'[t] = "running"
      /\ \A u \in Tasks : u # t => status'[u] = status[u]
      /\ SchedulerTypeOK' /\ CoreInv' /\ MetricsMatch'
  <2>1. CASE status[t] = "running"
    <3>1. UNCHANGED schedVars
      BY <2>1 DEF HandleReplayStart, schedVars
    <3>2. SchedulerTypeOK' /\ CoreInv'
      BY <1>2, <3>1, SchedStays DEF SchedulerTypeOK, schedVars
    <3>3. MetricsMatch'
      BY <1>2, <3>1 DEF MetricsMatch, Present, schedVars
    <3> QED
      BY <2>1, <3>1, <3>2, <3>3 DEF schedVars
  <2>2. CASE status[t] = "ready"
    <3>1. status' = [status EXCEPT ![t] = "running"] /\ metrics' = Moved("pending", "running")
      BY <2>2 DEF HandleReplayStart
    <3>2. /\ \A u \in Tasks : status'[u] = IF u = t THEN "running" ELSE status[u]
          /\ \A u \in Tasks : Unmet(u)' = Unmet(u)
          /\ GraphExact' /\ DegreeExact' /\ DepsRespected'
      BY <1>2, <1>3, <1>4, <2>2, <3>1, OneStatusChanges
    <3>3. QueueCovers' /\ TimersExact' /\ CancelledExact'
      BY <1>2, <1>4, <2>2, <3>2 DEF CoreInv, QueueCovers, TimersExact, CancelledExact
    <3>4. CoreInv'
      BY <1>2, <1>4, <3>2, <3>3, NoCascade DEF CoreInv
    <3>5. SchedulerTypeOK'
      BY <1>2, <1>4, <3>1 DEF SchedulerTypeOK, Moved, Counters
    <3>6. MetricsMatch'
      BY <1>2, <2>2, <3>1, <3>2, <3>5, MetricsMove DEF Shown
    <3> QED
      BY <3>2, <3>4, <3>5, <3>6
  <2> QED
    BY <1>2, <1>3, <2>1, <2>2
<1>6. /\ Has(CompleteRecord(t), new) <=> Has(CompleteRecord(t), log)
      /\ Has(CascadeRecord(t), new) <=> Has(CascadeRecord(t), log)
      /\ Fails(t, new) = Fails(t, log) /\ Open(t, new) /\ Ingested(t, new)
  BY <1>0, <1>1, <1>2, TaskAppend, OpenAppend, RecordFacts
<1>7. \A u \in Tasks : pushed' # u /\ \A l : u \notin At(l)'
  BY <1>2, <1>4, AtStays
<1>8. Backed(t, new)' /\ Mirrors(t, new)'
  BY <1>5, <1>6, <1>7 DEF Backed, Mirrors, Picked, Executing, Failing, Completing
<1>9. Delivered(t, new)'
  BY <1>2, <1>4, <1>5, <1>6, <1>7
     DEF Delivered, Exhausted, Allowed, RetriesLeft, Budget, Failing, Completing
<1>10. Replayed(new)'
  BY <1>0, <1>1, <1>4, <1>5, <1>8, <1>9, ReplayTask
<1> QED
  BY <1>0, <1>1, <1>10

(* COMPLETE: the attempt was open, so the task runs, and its dependents are   *)
(* released as they were then.                                                *)
LEMMA ReplayComplete ==
    ASSUME NEW log \in Seq(Record), Replayed(log), NEW t \in Tasks,
           Lawful(CompleteRecord(t), log), HandleReplayComplete(t), UNCHANGED engineVars
    PROVE  Replayed(Append(log, CompleteRecord(t)))'
<1>0. PICK r \in Record : /\ r = CompleteRecord(t) /\ r.type = "COMPLETE" /\ r.task = t
                          /\ Lawful(r, log)
  BY RecordTypes, RecordFacts
<1>1. PICK new : new = Append(log, r)
  OBVIOUS
<1>2. /\ SchedulerTypeOK /\ CoreInv /\ MetricsMatch /\ cascade = {}
      /\ Backed(t, log) /\ Delivered(t, log) /\ Ingested(t, log)
      /\ ~Has(CascadeRecord(t), log) /\ ~Exhausted(t, log) /\ status[t] = "running"
      /\ \A u \in Tasks : pushed # u /\ \A l : u \notin At(l)
  BY <1>0, ReplayFinds
<1>3. /\ CompleteAndRelease(t)
      /\ UNCHANGED <<retryCount, retryTimers, cascade, pushed, pc, holding>>
      /\ metrics' = Moved("running", "completed")
  BY <1>2 DEF HandleReplayComplete, CompleteAndRelease, engineVars
<1>4. PICK freed \in SUBSET dependents[t] :
        /\ \A u \in freed : u \in Tasks /\ u # t /\ status[u] = "pending" /\ Unmet(u) = {t}
        /\ \A u \in Tasks : status'[u] = IF u \in freed THEN "ready"
                                         ELSE IF u = t THEN "completed" ELSE status[u]
  BY <1>2, <1>3, ReleaseFacts
<1>5. SchedulerTypeOK' /\ CoreInv'
  BY <1>2, <1>3, CompleteType, CompleteKeeps
<1>6. MetricsMatch'
  <2>1. /\ \A u \in Tasks : u # t => CounterOf(status'[u]) = CounterOf(status[u])
        /\ status'[t] = "completed"
    BY <1>4
  <2> QED
    BY <1>2, <1>3, <1>5, <2>1, MetricsMove DEF Shown
<1>7. /\ Has(CompleteRecord(t), new)
      /\ Has(CascadeRecord(t), new) <=> Has(CascadeRecord(t), log)
      /\ Fails(t, new) = Fails(t, log) /\ Ingested(t, new)
  BY <1>0, <1>1, <1>2, TaskAppend, RecordFacts
<1>8. \A u \in Tasks : pushed' # u /\ \A l : u \notin At(l)'
  BY <1>2, <1>3, AtStays
<1>9. Backed(t, new)' /\ Mirrors(t, new)'
  BY <1>4, <1>7, <1>8 DEF Backed, Mirrors, Picked, Executing, Failing, Completing
<1>10. Delivered(t, new)'
  BY <1>2, <1>3, <1>4, <1>7, <1>8
     DEF Delivered, Exhausted, Allowed, RetriesLeft, Budget, Failing, Completing
<1>11. Replayed(new)'
  BY <1>0, <1>1, <1>3, <1>4, <1>5, <1>6, <1>9, <1>10, ReplayTask
<1> QED
  BY <1>0, <1>1, <1>11

(* FAIL: the attempt was open, so the task runs; the failures read so far say *)
(* whether it is retried.                                                     *)
LEMMA ReplayFail ==
    ASSUME NEW log \in Seq(Record), Replayed(log), NEW t \in Tasks,
           Lawful(FailRecord(t), log), HandleReplayFail(t), UNCHANGED engineVars
    PROVE  Replayed(Append(log, FailRecord(t)))'
<1>0. PICK r \in Record : /\ r = FailRecord(t) /\ r.type = "FAIL" /\ r.task = t
                          /\ Lawful(r, log)
  BY RecordTypes, RecordFacts
<1>1. PICK new : new = Append(log, r)
  OBVIOUS
<1>2. /\ SchedulerTypeOK /\ CoreInv /\ MetricsMatch /\ cascade = {}
      /\ Backed(t, log) /\ Delivered(t, log) /\ Ingested(t, log)
      /\ ~Has(CompleteRecord(t), log) /\ ~Has(CascadeRecord(t), log) /\ ~Exhausted(t, log)
      /\ status[t] = "running"
      /\ \A u \in Tasks : pushed # u /\ \A l : u \notin At(l)
  BY <1>0, ReplayFinds
<1>3. /\ UNCHANGED <<retryTimers, cascade, inDegree, dependents, pushed, pc, holding>>
      /\ \A u \in Tasks : pushed' # u /\ \A l : u \notin At(l)'
  <2>1. UNCHANGED <<retryTimers, cascade, inDegree, dependents, pushed, pc, holding>>
    BY DEF HandleReplayFail, engineVars
  <2> QED
    BY <1>2, <2>1, AtStays
<1>4. /\ ~Has(CompleteRecord(t), new) /\ ~Has(CascadeRecord(t), new)
      /\ Fails(t, new) = Fails(t, log) + 1 /\ Fails(t, log) \in Nat
      /\ Ingested(t, new) /\ ~Open(t, new)
  BY <1>0, <1>1, <1>2, TaskAppend, OpenAppend, RecordFacts DEF Ends
<1>5. /\ FirstRetry[t] \in Int /\ Budget(t) \in Int
      /\ Allowed(t) = IF FirstRetry[t] < Budget(t) THEN Budget(t) - FirstRetry[t] ELSE 0
      /\ retryCount[t] = FirstRetry[t] + Fails(t, log)
  <2>1. /\ FirstRetry[t] \in Int /\ Budget(t) \in Int
        /\ Allowed(t) = IF FirstRetry[t] < Budget(t) THEN Budget(t) - FirstRetry[t] ELSE 0
    BY FieldsAssumption DEF Allowed, RetriesLeft, Budget, DefaultMaxRetries
  <2>2. retryCount[t] = FirstRetry[t] + Fails(t, log)
    BY <1>2, <1>4, <2>1 DEF Delivered, Failing
  <2> QED
    BY <2>1, <2>2
<1>6. Exhausted(t, new) <=> ~(retryCount[t] < Budget(t))
  BY <1>2, <1>4, <1>5 DEF Exhausted
<1>7. CASE retryCount[t] < Budget(t)
  <2>1. /\ retryCount' = [retryCount EXCEPT ![t] = @ + 1]
        /\ status' = [status EXCEPT ![t] = "ready"]
        /\ readyQueue' = Enqueued({t})
        /\ metrics' = [Moved("running", "pending") EXCEPT !["retried"] = @ + 1]
        /\ UNCHANGED cancelled
    BY <1>2, <1>7 DEF HandleReplayFail
  <2>2. /\ \A u \in Tasks : status'[u] = IF u = t THEN "ready" ELSE status[u]
        /\ \A u \in Tasks : Unmet(u)' = Unmet(u)
        /\ GraphExact' /\ DegreeExact' /\ DepsRespected'
    <3>1. Unmet(t) = {}
      BY <1>2 DEF CoreInv, DepsRespected
    <3> QED
      BY <1>2, <1>3, <2>1, <3>1, OneStatusChanges
  <2>3. QueueCovers' /\ TimersExact' /\ CancelledExact'
    BY <1>2, <1>3, <2>1, <2>2
       DEF CoreInv, QueueCovers, TimersExact, CancelledExact, Enqueued, SchedulerTypeOK
  <2>4. CoreInv'
    BY <1>2, <1>3, <2>2, <2>3, NoCascade DEF CoreInv
  <2>5. SchedulerTypeOK'
    <3>1. readyQueue' \in [Tasks -> Nat]
      BY <1>2, <2>1 DEF SchedulerTypeOK, Enqueued
    <3>2. metrics' \in [Counters -> Int]
      <4>1. Moved("running", "pending") \in [Counters -> Int]
        BY <1>2 DEF SchedulerTypeOK, Moved, Counters
      <4> QED
        BY <2>1, <4>1 DEF Counters
    <3>3. retryCount' \in [Tasks -> Int] /\ status' \in [Tasks -> Status]
      BY <1>2, <2>1 DEF SchedulerTypeOK
    <3> QED
      BY <1>2, <1>3, <2>1, <3>1, <3>2, <3>3 DEF SchedulerTypeOK
  <2>6. MetricsMatch'
    <3>1. \A c \in Shown : metrics'[c] = Moved("running", "pending")[c]
      BY <1>2, <2>1 DEF Moved, SchedulerTypeOK, Shown, Counters
    <3> QED
      BY <1>2, <2>2, <2>5, <3>1, MetricsMove DEF Shown
  <2>7. Backed(t, new)' /\ Mirrors(t, new)'
    BY <1>3, <1>4, <2>2 DEF Backed, Mirrors, Picked, Executing, Failing, Completing
  <2>8. Delivered(t, new)'
    <3>1. retryCount'[t] = retryCount[t] + 1 /\ t \notin Failing'
      BY <1>2, <1>3, <2>1 DEF SchedulerTypeOK, Failing
    <3>2. ~Exhausted(t, new) /\ status'[t] = "ready"
      BY <1>6, <1>7, <2>2
    <3>3. retryCount'[t] = FirstRetry[t] + Fails(t, new)
      BY <1>4, <1>5, <3>1
    <3>4. FirstRetry[t] + Fails(t, new) = FirstRetry[t] + Fails(t, new) - 0
      BY <1>4, <1>5
    <3> QED
      BY <1>4, <3>1, <3>2, <3>3, <3>4 DEF Delivered
  <2>9. \A u \in Tasks : u # t => retryCount'[u] = retryCount[u]
    BY <1>2, <2>1 DEF SchedulerTypeOK
  <2>10. Replayed(new)'
    BY <1>0, <1>1, <1>3, <2>2, <2>4, <2>5, <2>6, <2>7, <2>8, <2>9, ReplayTask
  <2> QED
    BY <1>0, <1>1, <2>10
<1>8. CASE ~(retryCount[t] < Budget(t))
  <2>1. TransitionToFailed(t) /\ UNCHANGED <<retryCount, readyQueue>>
    BY <1>2, <1>8 DEF HandleReplayFail
  <2>2. /\ \A u \in Tasks : status'[u] = IF u = t THEN "failed" ELSE status[u]
        /\ metrics' = Moved("running", "failed")
    BY <1>2, <2>1 DEF TransitionToFailed, SchedulerTypeOK
  <2>3. SchedulerTypeOK' /\ CoreInv'
    <3>1. CoreInv'
      BY <1>2, <1>3, <2>1, FailKeeps
    <3> QED
      BY <1>2, <1>3, <2>1, <3>1, FailType DEF SchedulerTypeOK
  <2>4. MetricsMatch'
    BY <1>2, <2>2, <2>3, MetricsMove DEF Shown
  <2>5. Backed(t, new)' /\ Mirrors(t, new)'
    <3>1. Dead(t, new)
      BY <1>6, <1>8 DEF Dead
    <3> QED
      BY <1>3, <1>4, <2>2, <3>1 DEF Backed, Mirrors, Dead, Exhausted, Allowed, RetriesLeft,
                                    Budget, Picked, Executing, Failing, Completing
  <2>6. Delivered(t, new)'
    <3>1. Exhausted(t, new) /\ status'[t] = "failed"
      BY <1>6, <1>8, <2>2
    <3>2. retryCount'[t] = FirstRetry[t] + Fails(t, new) - 1
      BY <1>4, <1>5, <2>1
    <3> QED
      BY <1>4, <3>1, <3>2 DEF Delivered
  <2>7. Replayed(new)'
    BY <1>0, <1>1, <1>3, <2>1, <2>2, <2>3, <2>4, <2>5, <2>6, ReplayTask
  <2> QED
    BY <1>0, <1>1, <2>7
<1> QED
  BY <1>7, <1>8

(* CASCADE: whatever the task waits for, it fails.                            *)
LEMMA ReplayCascade ==
    ASSUME NEW log \in Seq(Record), Replayed(log), NEW t \in Tasks,
           Lawful(CascadeRecord(t), log), HandleReplayCascade(t), UNCHANGED engineVars
    PROVE  Replayed(Append(log, CascadeRecord(t)))'
<1>0. PICK r \in Record : /\ r = CascadeRecord(t) /\ r.type = "CASCADE" /\ r.task = t
                          /\ Lawful(r, log)
  BY RecordTypes, RecordFacts
<1>1. PICK new : new = Append(log, r)
  OBVIOUS
<1>2. /\ SchedulerTypeOK /\ CoreInv /\ MetricsMatch /\ cascade = {}
      /\ Backed(t, log) /\ Delivered(t, log) /\ Ingested(t, log)
      /\ ~Has(CompleteRecord(t), log) /\ ~Has(CascadeRecord(t), log) /\ ~Exhausted(t, log)
      /\ status[t] \in {"pending", "ready", "running"}
      /\ status[t] = "pending" => Unmet(t) # {}
      /\ \A u \in Tasks : pushed # u /\ \A l : u \notin At(l)
  BY <1>0, ReplayFinds
<1>3. /\ UNCHANGED <<retryCount, readyQueue, retryTimers, cascade, inDegree, dependents,
                     pushed, pc, holding>>
      /\ \A u \in Tasks : pushed' # u /\ \A l : u \notin At(l)'
  <2>1. UNCHANGED <<retryCount, readyQueue, retryTimers, cascade, inDegree, dependents,
                    pushed, pc, holding>>
    BY DEF HandleReplayCascade, engineVars
  <2> QED
    BY <1>2, <2>1, AtStays
<1>4. TransitionToFailed(t)
  BY <1>2 DEF HandleReplayCascade
<1>5. /\ \A u \in Tasks : status'[u] = IF u = t THEN "failed" ELSE status[u]
      /\ metrics' = Moved(CounterOf(status[t]), "failed")
  BY <1>2, <1>4 DEF TransitionToFailed, SchedulerTypeOK
<1>6. SchedulerTypeOK' /\ CoreInv'
  <2>1. CoreInv'
    BY <1>2, <1>3, <1>4, FailKeeps
  <2> QED
    BY <1>2, <1>3, <1>4, <2>1, FailType DEF SchedulerTypeOK
<1>7. MetricsMatch'
  <2>1. CounterOf(status[t]) \in Shown /\ CounterOf(status[t]) # "failed"
    BY <1>2 DEF Shown
  <2>2. \A u \in Tasks : u # t => CounterOf(status'[u]) = CounterOf(status[u])
    BY <1>5
  <2>3. CounterOf(status'[t]) = "failed" /\ "failed" \in Shown
    BY <1>5 DEF Shown
  <2> HIDE DEF CounterOf
  <2> QED
    BY <1>2, <1>5, <1>6, <2>1, <2>2, <2>3, MetricsMove
<1>8. /\ ~Has(CompleteRecord(t), new) /\ Has(CascadeRecord(t), new)
      /\ Fails(t, new) = Fails(t, log) /\ Ingested(t, new)
  BY <1>0, <1>1, <1>2, TaskAppend, RecordFacts
<1>9. Backed(t, new)' /\ Mirrors(t, new)'
  BY <1>3, <1>5, <1>8 DEF Backed, Mirrors, Dead, Picked, Executing, Failing, Completing
<1>10. Delivered(t, new)'
  BY <1>2, <1>3, <1>5, <1>8
     DEF Delivered, Exhausted, Allowed, RetriesLeft, Budget, Failing, Completing
<1>11. Replayed(new)'
  BY <1>0, <1>1, <1>3, <1>5, <1>6, <1>7, <1>9, <1>10, ReplayTask
<1> QED
  BY <1>0, <1>1, <1>11

(* A life in the making is the invariant of this section.                     *)
LEMMA LifeReplayed ==
    ASSUME LifeAgrees, phase \in {"down", "replaying"}
    PROVE  /\ Replayed(Read) /\ EmptyHands
           /\ \A b \in Batches : submission[b] # "persisted"
<1>1. \A b \in Batches : submission[b] # "persisted"
  BY DEF LifeAgrees, Admissions, SentWaits
<1>2. \A t \in Tasks : Ingested(t, Read) => t \in Present
  BY <1>1 DEF LifeAgrees, Admissions, ReadIsPresent
<1>3. Quiet /\ \A t \in Tasks : Backed(t, Read) /\ Delivered(t, Read) /\ Mirrors(t, Read)
  BY DEF LifeAgrees, Resting, RunLoopUp
<1> QED
  BY <1>1, <1>2, <1>3 DEF Replayed, LifeAgrees, LiveInv, TypeOK, Quiet

(* And the other way round, as long as a replay goes on.                      *)
LEMMA ReplayedLife ==
    ASSUME LifeAgrees, phase \in {"down", "replaying"}, phase' = "replaying",
           UNCHANGED <<walVars, engineVars, stopped, crashes>>,
           cursor' \in 1 .. Len(wal) + 1, NEW new, Read' = new, Replayed(new)'
    PROVE  LifeAgrees'
<1>1. UNCHANGED <<wal, walErrors, submission, pushed, pc, holding>>
  BY DEF walVars, engineVars
<1>2. /\ SchedulerTypeOK' /\ CoreInv' /\ MetricsMatch' /\ Quiet'
      /\ \A t \in Tasks : /\ Ingested(t, new) => t \in Present'
                          /\ Backed(t, new)' /\ Delivered(t, new)' /\ Mirrors(t, new)'
  BY DEF Replayed
<1>3. LiveInv'
  <2>1. WalTypeOK' /\ EngineTypeOK'
    BY <1>1 DEF LifeAgrees, LiveInv, TypeOK, WalTypeOK, EngineTypeOK
  <2>2. HoldingExact' /\ SingleHolder'
    BY <1>2, TasksAssumption DEF Quiet, EmptyHands, HoldingExact, SingleHolder, Held
  <2> QED
    BY <1>2, <2>1, <2>2 DEF LiveInv, TypeOK
<1>4. LifeTypeOK'
  BY <1>1 DEF LifeAgrees, LifeTypeOK
<1>5. LogLawful' /\ FailsBounded' /\ IngestsOnce'
  BY <1>1, LogStays DEF LifeAgrees, IngestsOnce, Before
<1>6. Admissions'
  <2>1. \A b \in Batches : submission[b] # "persisted"
    BY LifeReplayed
  <2> QED
    BY <1>1, <1>2, <2>1
       DEF LifeAgrees, Admissions, RequestsLogged, UnsentUnknown, SentWaits, ReadIsPresent
<1>7. \A t \in Tasks : Backed(t, Read)' /\ Delivered(t, Read)' /\ Mirrors(t, Read)'
  BY <1>2
<1>8. Resting' /\ UpHeld'
  BY <1>2, <1>7 DEF Resting, UpHeld
<1> QED
  BY <1>2, <1>3, <1>4, <1>5, <1>6, <1>7, <1>8 DEF LifeAgrees

(* Manager.Start begins at the first record.                                  *)
LEMMA RecoverLife ==
    ASSUME LifeAgrees, Recover
    PROVE  LifeAgrees'
<1>1. /\ UNCHANGED vars /\ UNCHANGED <<stopped, crashes>>
      /\ phase = "down" /\ phase' = "replaying" /\ cursor' = 1 /\ Read = << >>
  BY DEF Recover, Read
<1>2. UNCHANGED <<walVars, engineVars, wal>>
  BY <1>1 DEF vars, walVars
<1>3. wal \in Seq(Record) /\ Len(wal) \in Nat
  BY DEF LifeAgrees, LiveInv, TypeOK, WalTypeOK
<1>4. Read' = << >>
  <2>1. Read' = SubSeq(wal', 1, 1 - 1)
    BY <1>1 DEF Read, Before
  <2> QED
    BY <1>2, <1>3, <2>1, Prefixes
<1>5. Replayed(<< >>)'
  <2>1. Replayed(<< >>) /\ LiveInv
    BY <1>1, LifeReplayed DEF LifeAgrees
  <2>2. SchedulerTypeOK' /\ CoreInv'
    BY <1>1, <2>1, VarsStay DEF LiveInv, TypeOK
  <2> QED
    BY <1>1, <2>1, <2>2, VarsStay DEF Replayed
<1> QED
  BY <1>1, <1>2, <1>3, <1>4, <1>5, ReplayedLife

(* One record of the log after another.                                       *)
LEMMA ReplayEntryLife ==
    ASSUME LifeAgrees, ReplayEntry
    PROVE  LifeAgrees'
<1>1. /\ phase = "replaying" /\ phase' = "replaying" /\ cursor' = cursor + 1
      /\ cursor <= Len(wal) /\ cursor \in 1 .. Len(wal)
      /\ UNCHANGED <<walVars, engineVars, wal, stopped, crashes>>
      /\ wal \in Seq(Record) /\ Len(wal) \in Nat
  BY DEF ReplayEntry, ReplayEnd, walVars, LifeAgrees, LifeTypeOK, LiveInv, TypeOK, WalTypeOK
<1>2. PICK log \in Seq(Record), r \in Record, new \in Seq(Record) :
        /\ log = Read /\ r = wal[cursor] /\ new = Append(log, r)
        /\ Read' = new /\ Lawful(r, log)
        /\ r.type = "INGEST" => \A t \in r.tasks : ~Ingested(t, log)
  <2>1. Read = SubSeq(wal, 1, cursor - 1) /\ Read' = SubSeq(wal, 1, cursor)
    <3>1. (cursor + 1) - 1 = cursor
      BY <1>1
    <3> QED
      BY <1>1, <3>1 DEF Read, Before
  <2>2. /\ cursor - 1 \in 0 .. Len(wal) - 1 /\ (cursor - 1) + 1 = cursor
        /\ cursor - 1 \in 0 .. Len(wal) /\ wal[cursor] \in Record
    BY <1>1
  <2>3. Read \in Seq(Record) /\ Read' = Append(Read, wal[cursor])
    BY <1>1, <2>1, <2>2, Prefixes
  <2>4. /\ Lawful(wal[cursor], Read)
        /\ wal[cursor].type = "INGEST" => \A t \in wal[cursor].tasks : ~Ingested(t, Read)
    BY <1>1, <2>1 DEF LifeAgrees, LogLawful, IngestsOnce, Before
  <2>5. Append(Read, wal[cursor]) \in Seq(Record)
    BY <2>2, <2>3, AppendFacts
  <2> QED
    BY <2>2, <2>3, <2>4, <2>5
<1>3. Replayed(log)
  BY <1>1, <1>2, LifeReplayed
<1>4. /\ r.type = "INGEST" => HandleIngest(r.tasks) \/ RefuseIngest(r.tasks)
      /\ r.type = "START" => HandleReplayStart(r.task)
      /\ r.type = "COMPLETE" => HandleReplayComplete(r.task)
      /\ r.type = "FAIL" => HandleReplayFail(r.task)
      /\ r.type = "CASCADE" => HandleReplayCascade(r.task)
  BY <1>2 DEF ReplayEntry
<1>5. Replayed(new)'
  <2>1. ASSUME NEW b \in Batches, r = IngestRecord(b)
        PROVE  Replayed(new)'
    <3>1. r.type = "INGEST" /\ r.tasks = b
      BY <2>1, RecordFacts
    <3>2. HandleIngest(b) \/ RefuseIngest(b)
      BY <1>4, <3>1
    <3> QED
      BY <1>1, <1>2, <1>3, <2>1, <3>1, <3>2, ReplayIngest
  <2>2. ASSUME NEW t \in Tasks, r = StartRecord(t)
        PROVE  Replayed(new)'
    <3>1. r.type = "START" /\ r.task = t
      BY <2>2, RecordFacts
    <3>2. HandleReplayStart(t)
      BY <1>4, <3>1
    <3> QED
      BY <1>1, <1>2, <1>3, <2>2, <3>2, ReplayStart
  <2>3. ASSUME NEW t \in Tasks, r = CompleteRecord(t)
        PROVE  Replayed(new)'
    <3>1. r.type = "COMPLETE" /\ r.task = t
      BY <2>3, RecordFacts
    <3>2. HandleReplayComplete(t)
      BY <1>4, <3>1
    <3> QED
      BY <1>1, <1>2, <1>3, <2>3, <3>2, ReplayComplete
  <2>4. ASSUME NEW t \in Tasks, r = FailRecord(t)
        PROVE  Replayed(new)'
    <3>1. r.type = "FAIL" /\ r.task = t
      BY <2>4, RecordFacts
    <3>2. HandleReplayFail(t)
      BY <1>4, <3>1
    <3> QED
      BY <1>1, <1>2, <1>3, <2>4, <3>2, ReplayFail
  <2>5. ASSUME NEW t \in Tasks, r = CascadeRecord(t)
        PROVE  Replayed(new)'
    <3>1. r.type = "CASCADE" /\ r.task = t
      BY <2>5, RecordFacts
    <3>2. HandleReplayCascade(t)
      BY <1>4, <3>1
    <3> QED
      BY <1>1, <1>2, <1>3, <2>5, <3>2, ReplayCascade
  <2> QED
    BY <1>2, <2>1, <2>2, <2>3, <2>4, <2>5, RecordKinds
<1>6. cursor' \in 1 .. Len(wal) + 1
  BY <1>1
<1> QED
  BY <1>1, <1>2, <1>5, <1>6, ReplayedLife

(* RecoveryState.InProgressTasks holds the open attempts.                     *)
LEMMA InProgressOpen ==
    ASSUME WalTypeOK
    PROVE  InProgress = {t \in Tasks : Open(t, wal)}
<1>1. DOMAIN wal = 1 .. Len(wal) /\ Len(wal) \in Nat
  BY DEF WalTypeOK
<1>2. ASSUME NEW t \in Tasks
      PROVE  t \in InProgress <=> Open(t, wal)
  <2> DEFINE ends == Places(CompleteRecord(t)) \cup Places(FailRecord(t))
                     \cup Places(CascadeRecord(t))
  <2>1. \A j : j \in ends <=> j \in 1 .. Len(wal) /\ wal[j] \in Ends(t)
    BY <1>1 DEF Places, Ends
  <2>2. StartRecord(t) \notin Ends(t)
    BY RecordFacts DEF Ends
  <2>3. t \in InProgress <=> \E i \in Places(StartRecord(t)) : \A j \in ends : j < i
    BY DEF InProgress
  <2> HIDE DEF ends
  <2>4. ASSUME NEW i \in 1 .. Len(wal), wal[i] = StartRecord(t)
        PROVE  (\A j \in ends : j < i) <=> \A j \in i + 1 .. Len(wal) : wal[j] \notin Ends(t)
    BY <1>1, <2>1, <2>2, <2>4
  <2> QED
    BY <1>1, <2>3, <2>4 DEF Places, Open
<1> QED
  BY <1>2 DEF InProgress

(* StartDispatch: the attempts that a crash has cut short are queued again.   *)
LEMMA ResumeLife ==
    ASSUME LifeAgrees, Resume
    PROVE  LifeAgrees'
<1>1. /\ phase = "replaying" /\ phase' = "up" /\ stopped' = {} /\ cursor = Len(wal) + 1
      /\ UNCHANGED <<wal, walErrors, submission, pushed, pc, holding, cursor, crashes>>
      /\ HandleRequeueOrphans(InProgress)
      /\ wal \in Seq(Record) /\ Len(wal) \in Nat
  BY DEF Resume, ReplayEnd, walVars, engineVars, LifeAgrees, LifeTypeOK, LiveInv, TypeOK, WalTypeOK
<1>2. Read = wal /\ Read' = wal
  <2>1. (Len(wal) + 1) - 1 = Len(wal)
    BY <1>1
  <2> QED
    BY <1>1, <2>1, Prefixes DEF Read, Before
<1>3. /\ SchedulerTypeOK /\ CoreInv /\ MetricsMatch /\ Quiet
      /\ \A t \in Tasks : /\ Ingested(t, wal) => t \in Present
                          /\ Backed(t, wal) /\ Delivered(t, wal) /\ Mirrors(t, wal)
      /\ \A b \in Batches : submission[b] # "persisted"
  BY <1>1, <1>2, LifeReplayed DEF Replayed
<1> DEFINE requeued == {t \in Tasks : status[t] = "running"}
<1>4. requeued = {t \in InProgress : status[t] = "running"}
  <2>1. InProgress = {t \in Tasks : Open(t, wal)}
    BY InProgressOpen DEF LifeAgrees, LiveInv, TypeOK
  <2> QED
    BY <1>3, <2>1 DEF Mirrors
<1>5. IsFiniteSet(requeued) /\ Cardinality(requeued) \in Nat
  <2>1. requeued \in SUBSET Tasks
    OBVIOUS
  <2> QED
    BY <2>1, TasksAssumption, FS_Subset, FS_CardinalityType
<1> DEFINE count == Cardinality(requeued)
<1>6. /\ status' = [t \in Tasks |-> IF t \in requeued THEN "ready" ELSE status[t]]
      /\ readyQueue' = Enqueued(requeued)
      /\ metrics' = [metrics EXCEPT !["running"] = @ - count, !["pending"] = @ + count]
      /\ UNCHANGED <<retryCount, cancelled, inDegree, dependents, retryTimers, cascade>>
  BY <1>1, <1>4 DEF HandleRequeueOrphans
<1>7. \A t \in Tasks : status'[t] = IF status[t] = "running" THEN "ready" ELSE status[t]
  BY <1>6
<1>8. SchedulerTypeOK'
  <2>1. readyQueue' \in [Tasks -> Nat]
    BY <1>3, <1>6 DEF SchedulerTypeOK, Enqueued
  <2>2. metrics' \in [Counters -> Int]
    <3> HIDE DEF requeued
    <3> QED
      BY <1>3, <1>5, <1>6 DEF SchedulerTypeOK, Counters
  <2>3. status' \in [Tasks -> Status]
    BY <1>3, <1>6 DEF SchedulerTypeOK
  <2> QED
    BY <1>3, <1>6, <2>1, <2>2, <2>3 DEF SchedulerTypeOK
<1>9. CoreInv'
  <2>1. Present' = Present /\ \A t \in Tasks : Unmet(t)' = Unmet(t)
    BY <1>3, <1>7, UnmetStays DEF Present
  <2>2. GraphExact' /\ DegreeExact' /\ DepsRespected'
    BY <1>3, <1>6, <1>7, <2>1 DEF CoreInv, GraphExact, DegreeExact, DepsRespected, Present
  <2>3. QueueCovers'
    BY <1>3, <1>6, <1>7 DEF CoreInv, QueueCovers, Enqueued, SchedulerTypeOK
  <2>4. TimersExact' /\ CancelledExact'
    BY <1>3, <1>6, <1>7, <2>1 DEF CoreInv, TimersExact, CancelledExact
  <2>5. CascadeCaused'
    BY <1>3, <1>6, NoCascade DEF Quiet
  <2> QED
    BY <2>2, <2>3, <2>4, <2>5 DEF CoreInv
<1>10. MetricsMatch'
  <2>1. \A c \in Shown : metrics[c] = Cardinality(Counted(c))
    BY <1>3, MetricsCount
  <2>2. \A c \in Shown : IsFiniteSet(Counted(c)) /\ Cardinality(Counted(c)) \in Nat
    BY <1>3, MetricsCount
  <2>3. /\ Counted("running") = requeued /\ Counted("running")' = {}
        /\ Counted("pending")' = Counted("pending") \cup requeued
        /\ Counted("pending") \cap requeued = {}
        /\ Counted("completed")' = Counted("completed")
        /\ Counted("failed")' = Counted("failed")
    BY <1>3, <1>7 DEF Counted, SchedulerTypeOK
  <2>4. Cardinality(Counted("pending") \cup requeued) = Cardinality(Counted("pending")) + count
    <3>1. Cardinality(Counted("pending") \cap requeued) = 0
      BY <2>3, FS_EmptySet
    <3> HIDE DEF requeued
    <3> QED
      BY <1>5, <2>2, <3>1, FS_Union DEF Shown
  <2>5. /\ metrics'["running"] = metrics["running"] - count
        /\ metrics'["pending"] = metrics["pending"] + count
        /\ metrics'["completed"] = metrics["completed"]
        /\ metrics'["failed"] = metrics["failed"]
    <3> HIDE DEF requeued
    <3> QED
      BY <1>3, <1>6 DEF SchedulerTypeOK, Counters
  <2>6. \A c \in Shown : metrics'[c] = Cardinality(Counted(c)')
    <3> HIDE DEF requeued
    <3>1. metrics'["running"] = Cardinality(Counted("running")')
      <4>1. Cardinality(Counted("running")') = 0
        BY <2>3, FS_EmptySet
      <4>2. metrics["running"] = count
        BY <2>1, <2>3 DEF Shown
      <4> QED
        BY <1>5, <2>5, <4>1, <4>2
    <3>2. metrics'["pending"] = Cardinality(Counted("pending")')
      <4>1. Cardinality(Counted("pending")') = Cardinality(Counted("pending")) + count
        BY <2>3, <2>4
      <4> QED
        BY <2>1, <2>5, <4>1 DEF Shown
    <3>3. /\ metrics'["completed"] = Cardinality(Counted("completed")')
          /\ metrics'["failed"] = Cardinality(Counted("failed")')
      BY <2>1, <2>3, <2>5 DEF Shown
    <3> QED
      BY <3>1, <3>2, <3>3 DEF Shown
  <2> QED
    BY <1>8, <2>6, MetricsNext
<1>11. LiveInv'
  <2>1. WalTypeOK' /\ EngineTypeOK'
    BY <1>1 DEF LifeAgrees, LiveInv, TypeOK, WalTypeOK, EngineTypeOK
  <2>2. HoldingExact' /\ SingleHolder'
    BY <1>1, <1>3, TasksAssumption DEF Quiet, EmptyHands, HoldingExact, SingleHolder, Held
  <2> QED
    BY <1>8, <1>9, <2>1, <2>2 DEF LiveInv, TypeOK
<1>12. ASSUME NEW t \in Tasks
       PROVE  Backed(t, Read)' /\ Delivered(t, Read)'
  <2>1. HandsSame(t) /\ StatusSame(t)
    BY <1>1, <1>6, <1>7, HandsUntouched DEF StatusSame, Hidden
  <2> QED
    BY <1>2, <1>3, <2>1, SaysItself, Untouched
<1>13. LogLawful' /\ FailsBounded' /\ IngestsOnce'
  BY <1>1, LogStays DEF LifeAgrees, IngestsOnce, Before
<1>14. Admissions'
  <2>1. Present' = Present
    BY <1>7 DEF Present
  <2> QED
    BY <1>1, <1>2, <1>3, <2>1
       DEF LifeAgrees, Admissions, RequestsLogged, UnsentUnknown, SentWaits, ReadIsPresent
<1>15. LifeTypeOK' /\ Resting' /\ UpHeld'
  BY <1>1, <1>7 DEF LifeAgrees, LifeTypeOK, Resting, UpHeld
<1> QED
  BY <1>10, <1>11, <1>12, <1>13, <1>14, <1>15 DEF LifeAgrees

-----------------------------------------------------------------------------
(* Every step                                                                 *)

(* No step but those of the engine touches the count of failed appends.       *)
LEMMA LifeErrors == [RecoveryNext]_allVars => walErrors' \in {walErrors, walErrors + 1}
<1> SUFFICES ASSUME [RecoveryNext]_allVars
             PROVE  walErrors' \in {walErrors, walErrors + 1}
  OBVIOUS
<1>1. CASE EngineStep
  BY <1>1, EngineStepFacts, ErrorsCount
<1>2. ASSUME NEW w \in Workers, StopWorker(w) \/ NotifyStopped(w)
      PROVE  UNCHANGED walErrors
  BY <1>2 DEF StopWorker, NotifyStopped, walVars
<1> QED
  BY <1>1, <1>2
     DEF RecoveryNext, EngineStep, CancelContext, StopRunLoop, StopPushLoop, CrashDone,
         ProcessCrash, Vanish, Recover, ReplayEntry, Resume, allVars, vars, walVars

LEMMA NextLife == RequestsDisjoint /\ LifeInv /\ [RecoveryNext]_allVars => LifeInv'
<1> SUFFICES ASSUME RequestsDisjoint, LifeInv, [RecoveryNext]_allVars
             PROVE  LifeInv'
  OBVIOUS
<1>1. walErrors' \in Nat /\ (walErrors' = 0 => walErrors = 0)
  BY LifeErrors DEF LifeInv
<1> SUFFICES ASSUME walErrors' = 0
             PROVE  LifeAgrees'
  BY <1>1 DEF LifeInv
<1>2. walErrors = 0 /\ LifeAgrees
  BY <1>1 DEF LifeInv
<1>3. CASE EngineStep
  BY <1>2, <1>3, EngineStepLife
<1>4. ASSUME NEW w \in Workers, StopWorker(w) \/ NotifyStopped(w)
      PROVE  LifeAgrees'
  BY <1>2, <1>4, StopWorkerLife, NotifyStoppedLife
<1>5. CASE CancelContext \/ StopRunLoop \/ StopPushLoop
  BY <1>2, <1>5, CancelLife, StopRunLoopLife, StopPushLoopLife
<1>6. CASE CrashDone \/ ProcessCrash
  <2>1. Vanish /\ crashes' \in 0 .. MaxCrashes
    BY <1>2, <1>6, RecoveryAssumption DEF CrashDone, ProcessCrash, LifeAgrees, LifeTypeOK
  <2> QED
    BY <1>2, <2>1, VanishLife
<1>7. CASE Recover \/ ReplayEntry \/ Resume
  BY <1>2, <1>7, RecoverLife, ReplayEntryLife, ResumeLife
<1>8. CASE UNCHANGED allVars
  <2>1. UNCHANGED vars /\ UNCHANGED lifeVars /\ Read' = Read /\ LiveInv
    BY <1>2, <1>8 DEF allVars, lifeVars, vars, walVars, Read, Before, LifeAgrees
  <2>2. UNCHANGED <<wal, submission, phase, stopped, cursor, crashes, status, Held, Present>>
    BY <2>1, VarsStay DEF vars, walVars, schedVars, engineVars, lifeVars
  <2>3. \A t \in Tasks : /\ Backed(t, Read) => Backed(t, Read)'
                         /\ Delivered(t, Read) => Delivered(t, Read)'
                         /\ Mirrors(t, Read) => Mirrors(t, Read)'
    BY <2>1, VarsStay
  <2>4. Resting' /\ UpHeld' /\ LifeTypeOK' /\ (RunLoopUp' => RunLoopUp)
    BY <1>2, <2>1, <2>2, <2>3, VarsStay DEF LifeAgrees, Resting, UpHeld, LifeTypeOK, RunLoopUp
  <2>5. Admissions'
    BY <1>2, <2>1, <2>2, VarsStay DEF LifeAgrees, Admissions, SentWaits, ReadIsPresent
  <2> QED
    BY <1>2, <2>1, <2>3, <2>4, <2>5, VarsStay DEF LifeAgrees
<1> QED
  BY <1>3, <1>4, <1>5, <1>6, <1>7, <1>8 DEF RecoveryNext, EngineStep

-----------------------------------------------------------------------------
(* Attempts over all lives                                                    *)

(* While the goroutines live, no attempt is cut short.                        *)
LEMMA AttemptsGoOn ==
    ASSUME LifeAgrees, walErrors = 0, LifeAttempts, Ended' = Ended,
           phase \in {"up", "draining"}, phase' \in {"up", "draining"},
           \A t \in Tasks : \A k \in Int : Attempts(t, k) => Attempts(t, k)'
    PROVE  LifeAttempts'
<1>1. PICK k \in Int : k = Ended
  BY RecoveryAssumption DEF LifeAgrees, LifeTypeOK, Ended
<1>2. \A t \in Tasks : Attempts(t, k)
  BY <1>1 DEF LifeAttempts
<1>3. \A t \in Tasks : Attempts(t, k)'
  BY <1>2
<1>4. Ended' = k
  BY <1>1
<1> QED
  BY <1>3, <1>4 DEF LifeAttempts, Attempts

(* Nor when one of them returns.                                              *)
LEMMA AttemptsLetGo ==
    ASSUME UNCHANGED <<wal, status>>, NEW t \in Tasks, NEW k \in Int,
           pushed' = t => pushed = t, \A l : At(l)' \subseteq At(l), Attempts(t, k)
    PROVE  Attempts(t, k)'
<1>1. Fresh(t)' => Fresh(t)
  BY DEF Fresh, Picked, Failing
<1> QED
  BY <1>1 DEF Attempts

(* The attempt that was under way when the goroutines came to an end is the   *)
(* one that this crash has cut short.                                         *)
LEMMA AttemptsVanish ==
    ASSUME LifeAgrees, walErrors = 0, LifeAttempts, Vanish, crashes' \in 0 .. MaxCrashes,
           \/ phase = "draining" /\ crashes' \in {crashes, crashes + 1}
           \/ crashes' = crashes + 1
    PROVE  LifeAttempts'
<1>1. phase' = "down" /\ UNCHANGED wal /\ crashes \in Nat /\ crashes' \in Nat
  BY RecoveryAssumption DEF Vanish, walVars, LifeAgrees, LifeTypeOK
<1>2. Ended' = crashes' /\ Ended \in Int /\ Ended + 1 <= crashes'
  BY <1>1 DEF Ended
<1>3. ASSUME NEW t \in Tasks
      PROVE  Starts(t, wal)' <= Fails(t, wal)' + Ended'
  <2>1. Starts(t, wal) <= Fails(t, wal) + Ended + 1
    BY DEF LifeAttempts, Attempts
  <2>2. Starts(t, wal) \in Nat /\ Fails(t, wal) \in Nat
    BY TaskAppend, RecordTypes DEF LifeAgrees, LiveInv, TypeOK, WalTypeOK
  <2>3. Starts(t, wal') = Starts(t, wal) /\ Fails(t, wal') = Fails(t, wal)
    BY <1>1
  <2> QED
    BY <1>1, <1>2, <2>1, <2>2, <2>3
<1>4. ASSUME NEW t \in Tasks
      PROVE  Starts(t, wal') \in Nat /\ Fails(t, wal') \in Nat
  BY <1>1, TaskAppend, RecordTypes DEF LifeAgrees, LiveInv, TypeOK, WalTypeOK
<1> QED
  BY <1>1, <1>2, <1>3, <1>4 DEF LifeAttempts, Attempts

(* The replay writes nothing.                                                 *)
LEMMA AttemptsRest ==
    ASSUME LifeAgrees, walErrors = 0, LifeAttempts, Ended' = Ended, UNCHANGED wal,
           phase \in {"down", "replaying"}
    PROVE  LifeAttempts'
<1>1. Ended \in Int
  BY RecoveryAssumption DEF LifeAgrees, LifeTypeOK, Ended
<1>2. ASSUME NEW t \in Tasks
      PROVE  /\ Starts(t, wal') <= Fails(t, wal') + Ended'
             /\ Starts(t, wal') \in Nat /\ Fails(t, wal') \in Nat
  <2>1. Starts(t, wal) <= Fails(t, wal) + Ended
    BY DEF LifeAttempts
  <2>2. Starts(t, wal) \in Nat /\ Fails(t, wal) \in Nat
    BY TaskAppend, RecordTypes DEF LifeAgrees, LiveInv, TypeOK, WalTypeOK
  <2> QED
    BY <2>1, <2>2
<1> QED
  BY <1>1, <1>2 DEF LifeAttempts, Attempts

LEMMA NextLifeAttempts ==
    LifeInv /\ LifeAttempts /\ [RecoveryNext]_allVars => LifeAttempts'
<1> SUFFICES ASSUME LifeInv, LifeAttempts, [RecoveryNext]_allVars, walErrors' = 0
             PROVE  LifeAttempts'
  BY DEF LifeAttempts
<1>1. walErrors = 0 /\ LifeAgrees
  BY LifeErrors DEF LifeInv
<1>2. /\ LiveInv /\ crashes \in Nat
  BY <1>1, RecoveryAssumption DEF LifeAgrees, LifeTypeOK
<1>3. CASE EngineStep
  <2>1. Ended' = Ended /\ phase \in {"up", "draining"} /\ phase' = phase /\ [Next]_vars
    BY <1>3, EngineStepFacts DEF Ended, lifeVars
  <2>2. \A t \in Tasks : \A k \in Int : Attempts(t, k) => Attempts(t, k)'
    BY <1>2, <2>1, NextAttempts
  <2> QED
    BY <1>1, <2>1, <2>2, AttemptsGoOn
<1>4. ASSUME UNCHANGED vars, Ended' = Ended,
             phase \in {"up", "draining"}, phase' \in {"up", "draining"}
      PROVE  LifeAttempts'
  <2>1. UNCHANGED <<wal, status, pushed, pc, holding>> /\ \A l : At(l)' = At(l)
    BY <1>4, AtStays DEF vars, walVars, schedVars, engineVars
  <2>2. \A t \in Tasks : \A k \in Int : Attempts(t, k) => Attempts(t, k)'
    BY <2>1, AttemptsLetGo
  <2> QED
    BY <1>1, <1>4, <2>2, AttemptsGoOn
<1>5. ASSUME LetGo, phase = "draining", UNCHANGED <<phase, crashes>>
      PROVE  LifeAttempts'
  <2>1. Ended' = Ended /\ UNCHANGED <<wal, status>>
    BY <1>5 DEF Ended, LetGo, walVars, schedVars
  <2>2. \A t \in Tasks : \A k \in Int : Attempts(t, k) => Attempts(t, k)'
    BY <1>2, <1>5, <2>1, LetGoFacts, AttemptsLetGo
  <2> QED
    BY <1>1, <1>5, <2>1, <2>2, AttemptsGoOn
<1>6. CASE CancelContext \/ StopRunLoop
  <2>1. /\ UNCHANGED vars /\ phase \in {"up", "draining"} /\ phase' = "draining"
        /\ \/ phase = "up" /\ crashes' = crashes + 1
           \/ phase = "draining" /\ crashes' = crashes
    BY <1>6 DEF CancelContext, StopRunLoop
  <2>2. Ended' = Ended
    BY <1>2, <2>1 DEF Ended
  <2> QED
    BY <1>4, <2>1, <2>2
<1>7. CASE StopPushLoop
  BY <1>5, <1>7 DEF StopPushLoop, LetGo
<1>8. ASSUME NEW w \in Workers, StopWorker(w) \/ NotifyStopped(w)
      PROVE  LifeAttempts'
  BY <1>5, <1>8 DEF StopWorker, NotifyStopped, LetGo, lifeVars
<1>9. CASE CrashDone \/ ProcessCrash
  <2>1. /\ Vanish /\ crashes' \in 0 .. MaxCrashes
        /\ \/ phase = "draining" /\ crashes' = crashes
           \/ crashes' = crashes + 1
    BY <1>1, <1>9, RecoveryAssumption DEF CrashDone, ProcessCrash, LifeAgrees, LifeTypeOK
  <2> QED
    BY <1>1, <2>1, AttemptsVanish
<1>10. CASE Recover \/ ReplayEntry \/ Resume
  <2>1. /\ UNCHANGED wal /\ UNCHANGED crashes
        /\ phase \in {"down", "replaying"} /\ phase' \in {"up", "replaying"}
    BY <1>10 DEF Recover, ReplayEntry, Resume, vars, walVars
  <2>2. Ended' = Ended
    BY <2>1 DEF Ended
  <2> QED
    BY <1>1, <2>1, <2>2, AttemptsRest
<1>11. CASE UNCHANGED allVars
  <2>1. UNCHANGED vars /\ UNCHANGED <<wal, phase, crashes>> /\ Ended' = Ended
    BY <1>11 DEF allVars, vars, walVars, lifeVars, Ended
  <2>2. phase \in {"up", "draining", "down", "replaying"}
    BY <1>1 DEF LifeAgrees, LifeTypeOK
  <2> QED
    BY <1>1, <1>4, <2>1, <2>2, AttemptsRest
<1> QED
  BY <1>3, <1>6, <1>7, <1>8, <1>9, <1>10, <1>11 DEF RecoveryNext, EngineStep

-----------------------------------------------------------------------------
(* What survives                                                              *)

(* Between crashes the state is that of the whole log.                        *)
LEMMA UpFacts ==
    ASSUME LifeAgrees, phase = "up"
    PROVE  /\ LiveInv /\ Admissions /\ UpHeld /\ Read = wal
           /\ \A t \in Tasks : Backed(t, wal) /\ Delivered(t, wal)
BY DEF LifeAgrees, Read, RunLoopUp

(* Places and Logged in terms of what the log says.                           *)
LEMMA LogCounts ==
    ASSUME LifeAgrees, NEW t \in Tasks
    PROVE  /\ Cardinality(Places(StartRecord(t))) = Starts(t, wal)
           /\ Cardinality(Places(FailRecord(t))) = Fails(t, wal)
           /\ Logged(CompleteRecord(t)) <=> Has(CompleteRecord(t), wal)
           /\ Logged(CascadeRecord(t)) <=> Has(CascadeRecord(t), wal)
           /\ Starts(t, wal) \in Nat /\ Fails(t, wal) \in Nat
           /\ RetriesLeft(t, FirstRetry[t]) = Allowed(t)
           /\ Allowed(t) \in Nat /\ FirstRetry[t] \in Int
<1>1. WalTypeOK /\ wal \in Seq(Record) /\ StartRecord(t) \in Record
  BY RecordTypes DEF LifeAgrees, LiveInv, TypeOK, WalTypeOK
<1>2. Starts(t, wal) \in Nat /\ Fails(t, wal) \in Nat
  BY <1>1, TaskAppend
<1>3. Allowed(t) \in Nat /\ FirstRetry[t] \in Int
  BY FieldsAssumption DEF Allowed, RetriesLeft, Budget, DefaultMaxRetries
<1> QED
  BY <1>1, <1>2, <1>3, PlacesCount DEF Starts, Fails, Allowed

LEMMA LifeCompleted == LifeInv => CompletedSurvives
<1> SUFFICES ASSUME LifeInv, walErrors = 0, phase = "up", NEW t \in Tasks,
                    Logged(CompleteRecord(t))
             PROVE  status[t] = "completed" \/ \E w \in Workers : holding[w] = t /\ pc[w] = "completing"
  BY DEF CompletedSurvives
<1>1. LifeAgrees
  BY DEF LifeInv
<1>2. status[t] = "completed" \/ t \in Completing
  BY <1>1, UpFacts, LogCounts DEF Delivered
<1> QED
  BY <1>2 DEF Completing, At

LEMMA LifeFailed == LifeInv => FailedSurvives
<1> SUFFICES ASSUME LifeInv, walErrors = 0, phase = "up", NEW t \in Tasks
             PROVE  /\ Logged(CascadeRecord(t)) => status[t] = "failed"
                    /\ Cardinality(Places(FailRecord(t))) > RetriesLeft(t, FirstRetry[t]) =>
                          status[t] = "failed"
                          \/ \E w \in Workers : holding[w] = t /\ pc[w] = "failing"
  BY DEF FailedSurvives
<1>1. LifeAgrees
  BY DEF LifeInv
<1>2. Delivered(t, wal)
  BY <1>1, UpFacts
<1> QED
  BY <1>1, <1>2, LogCounts DEF Delivered, Exhausted, Failing, At

LEMMA LifeBudget == LifeInv => BudgetSurvives
<1> SUFFICES ASSUME LifeInv, walErrors = 0, NEW t \in Tasks
             PROVE  LET fails == Cardinality(Places(FailRecord(t)))
                    IN  /\ fails <= RetriesLeft(t, FirstRetry[t]) + 1
                        /\ phase = "up" /\ t \in Present
                              => fails - (retryCount[t] - FirstRetry[t]) \in {0, 1}
  BY DEF BudgetSurvives
<1>1. LifeAgrees
  BY DEF LifeInv
<1>2. Fails(t, wal) <= Allowed(t) + 1
  BY <1>1 DEF LifeAgrees, FailsBounded
<1>3. ASSUME phase = "up"
      PROVE  Fails(t, wal) - (retryCount[t] - FirstRetry[t]) \in {0, 1}
  <2>1. Delivered(t, wal)
    BY <1>1, <1>3, UpFacts
  <2> QED
    BY <1>1, <2>1, LogCounts DEF Delivered
<1> QED
  BY <1>1, <1>2, <1>3, LogCounts

(* Nothing is written about a task after its COMPLETE record.                 *)
LEMMA CompleteEnds ==
    ASSUME WalTypeOK, LogLawful, NEW t \in Tasks,
           NEW i \in 1 .. Len(wal), wal[i] = CompleteRecord(t),
           NEW j \in 1 .. Len(wal), wal[j] \in {StartRecord(t), CompleteRecord(t)}
    PROVE  j <= i
<1> SUFFICES ASSUME i < j
             PROVE  FALSE
  BY DEF WalTypeOK
<1>1. ~Has(CompleteRecord(t), Before(j))
  BY RecordFacts DEF LogLawful, Lawful
<1>2. /\ Len(Before(j)) = j - 1 /\ i \in 1 .. j - 1
      /\ Before(j)[i] = wal[i]
  BY DEF Before, WalTypeOK
<1> QED
  BY <1>1, <1>2 DEF Has

LEMMA LifeNoRerun == LifeInv /\ LifeAttempts => NoRerunOfCompleted
<1> SUFFICES ASSUME LifeInv, LifeAttempts, walErrors = 0, NEW t \in Tasks
             PROVE  /\ Cardinality(Places(CompleteRecord(t))) <= 1
                    /\ \A i \in Places(CompleteRecord(t)), j \in Places(StartRecord(t)) : j < i
                    /\ Cardinality(Places(StartRecord(t)))
                          <= Cardinality(Places(FailRecord(t))) + 1 + crashes
  BY DEF NoRerunOfCompleted
<1>1. LifeAgrees /\ WalTypeOK /\ LogLawful
  BY DEF LifeInv, LifeAgrees, LiveInv, TypeOK
<1>2. \A r : \A i \in Places(r) : i \in 1 .. Len(wal) /\ wal[i] = r /\ i \in Nat
  BY <1>1, PlacesCount DEF WalTypeOK
<1>3. Cardinality(Places(CompleteRecord(t))) <= 1
  <2>1. CASE Places(CompleteRecord(t)) = {}
    BY <2>1, FS_EmptySet
  <2>2. ASSUME NEW i \in Places(CompleteRecord(t))
        PROVE  Cardinality(Places(CompleteRecord(t))) <= 1
    <3>1. ASSUME NEW j \in Places(CompleteRecord(t))
          PROVE  j = i
      <4>1. i <= j /\ j <= i
        BY <1>1, <1>2, CompleteEnds
      <4> QED
        BY <1>2, <4>1
    <3>2. Places(CompleteRecord(t)) = {i}
      BY <3>1
    <3> QED
      BY <3>2, FS_Singleton
  <2> QED
    BY <2>1, <2>2
<1>4. ASSUME NEW i \in Places(CompleteRecord(t)), NEW j \in Places(StartRecord(t))
      PROVE  j < i
  <2>1. j <= i
    BY <1>1, <1>2, CompleteEnds
  <2>2. j # i
    BY <1>2, RecordFacts
  <2> QED
    BY <1>2, <2>1, <2>2
<1>5. Starts(t, wal) <= Fails(t, wal) + 1 + crashes
  <2>1. Starts(t, wal) <= Fails(t, wal) + Ended + 1
    BY DEF LifeAttempts, Attempts
  <2>2. Ended \in {crashes, crashes - 1} /\ crashes \in Nat
    BY <1>1, RecoveryAssumption DEF Ended, LifeAgrees, LifeTypeOK
  <2>3. Starts(t, wal) \in Nat /\ Fails(t, wal) \in Nat
    BY <1>1, LogCounts
  <2> QED
    BY <2>1, <2>2, <2>3
<1> QED
  BY <1>1, <1>3, <1>4, <1>5, LogCounts

LEMMA LifeNothingForgotten == LifeInv => NothingForgotten
<1> SUFFICES ASSUME LifeInv, walErrors = 0, phase = "up", NEW t \in Tasks
             PROVE  /\ status[t] = "ready" => readyQueue[t] > 0
                    /\ status[t] = "pending" => (retryTimers[t] > 0 <=> Unmet(t) = {})
                    /\ status[t] = "running" => t \in Held
  BY DEF NothingForgotten
<1>1. CoreInv /\ UpHeld
  BY DEF LifeInv, LifeAgrees, LiveInv
<1> QED
  BY <1>1 DEF CoreInv, QueueCovers, TimersExact, UpHeld

LEMMA LifeAccepted == RequestsDisjoint /\ LifeInv => (walErrors = 0 => AcceptedSurvives)
<1> SUFFICES ASSUME RequestsDisjoint, LifeInv, walErrors = 0, phase = "up",
                    NEW b \in Batches, submission[b] = "accepted", NEW t \in b
             PROVE  t \in Present
  BY DEF AcceptedSurvives
<1>1. Admissions /\ Read = wal
  BY UpFacts DEF LifeInv
<1>2. t \in Tasks /\ Ingested(t, wal)
  BY <1>1, BatchesAssumption DEF Admissions, RequestsLogged, Ingested
<1>3. \A c \in Batches : t \in c => submission[c] # "persisted"
  BY DEF RequestsDisjoint
<1> QED
  BY <1>1, <1>2, <1>3 DEF Admissions, ReadIsPresent

(* What holds of the engine in one life holds of it in all.                   *)
EngineInOrder ==
    walErrors = 0 => DepsRespected /\ SingleHolder /\ HeldNotCancelled /\ ExecutesAfterDependencies

LEMMA LifeInOrder == LifeInv => EngineInOrder
<1> SUFFICES ASSUME LifeInv, walErrors = 0
             PROVE  DepsRespected /\ SingleHolder /\ HeldNotCancelled
                    /\ ExecutesAfterDependencies
  BY DEF EngineInOrder
<1>1. LiveInv
  BY DEF LifeInv, LifeAgrees
<1>2. DepsRespected /\ SingleHolder /\ HeldNotCancelled
  BY <1>1 DEF LiveInv, CoreInv, SingleHolder, CancelledExact, HeldNotCancelled, Held
<1>3. ASSUME NEW w \in Workers, pc[w] = "executing"
      PROVE  Unmet(holding[w]) = {}
  <2>1. holding[w] # NoTask /\ holding[w] \in Tasks \cup {NoTask}
    BY <1>1, <1>3 DEF LiveInv, TypeOK, EngineTypeOK, HoldingExact
  <2>2. holding[w] \in Held
    BY <2>1 DEF Held
  <2> QED
    BY <1>2, <2>1, <2>2 DEF SingleHolder, DepsRespected
<1> QED
  BY <1>2, <1>3 DEF ExecutesAfterDependencies

(* The invariant of all lives, of requests that share no task: the actions of *)
(* the engine, the crashes and the replay between them keep it.               *)
THEOREM EveryLife == RequestsDisjoint /\ RecoverySpec => [](LifeInv /\ LifeAttempts)
<1>1. RecoveryInit => LifeInv /\ LifeAttempts
  BY InitLife
<1>2. RequestsDisjoint /\ LifeInv /\ LifeAttempts /\ [RecoveryNext]_allVars
      => (LifeInv /\ LifeAttempts)'
  BY NextLife, NextLifeAttempts
<1>3. RequestsDisjoint => RequestsDisjoint'
  OBVIOUS
<1> QED
  BY <1>1, <1>2, <1>3, PTL DEF RecoverySpec

(* "Completed tasks remain complete": whatever crashes, a task whose COMPLETE *)
(* record was synced is completed in every later life, or the worker that     *)
(* wrote the record is about to say so (HandleReplayComplete).                *)
THEOREM CompletedRemain == RequestsDisjoint /\ RecoverySpec => []CompletedSurvives
BY EveryLife, LifeCompleted, PTL

(* "Failed tasks remain failed": the tasks that a cascade has failed, and     *)
(* those whose failures have used up the budget, stay failed                  *)
(* (HandleReplayFail, HandleReplayCascade).                                   *)
THEOREM FailedRemain == RequestsDisjoint /\ RecoverySpec => []FailedSurvives
BY EveryLife, LifeFailed, PTL

(* No crash refills a retry budget: the FAIL records of all lives together    *)
(* stay within it, and each life counts those of the lives before             *)
(* (HandleReplayFail).                                                        *)
THEOREM BudgetIsKept == RequestsDisjoint /\ RecoverySpec => []BudgetSurvives
BY EveryLife, LifeBudget, PTL

(* Only work in flight is repeated: no START follows the COMPLETE of its      *)
(* task, and a task starts more often than it fails and completes at most     *)
(* once for each crash (RequeueOrphans).                                      *)
THEOREM OnlyInFlightRepeats == RequestsDisjoint /\ RecoverySpec => []NoRerunOfCompleted
BY EveryLife, LifeNoRerun, PTL

(* Nothing is forgotten: in every life a ready task is queued, a pending one  *)
(* waits for a dependency or a timer, and a running one is with a goroutine   *)
(* (Resume).                                                                  *)
THEOREM NothingIsForgotten == RequestsDisjoint /\ RecoverySpec => []NothingForgotten
BY EveryLife, LifeNothingForgotten, PTL

(* The counters of the status endpoint agree with the statuses after any      *)
(* recovery, and during it (HandleReplayStart and the other replay handlers). *)
THEOREM MetricsSurvive == RequestsDisjoint /\ RecoverySpec => []MetricsMatchInEveryLife
<1>1. LifeInv => MetricsMatchInEveryLife
  BY DEF LifeInv, LifeAgrees, MetricsMatchInEveryLife
<1> QED
  BY <1>1, EveryLife, PTL

(* An accepted request is part of every later life while no append fails. It  *)
(* is where requests share a task that it may be lost: there the run of       *)
(* MCOverlap refutes it (handleSubmitDAG, Ingest).                            *)
THEOREM AcceptedRemain ==
    RequestsDisjoint /\ RecoverySpec => [](walErrors = 0 => AcceptedSurvives)
<1>1. RequestsDisjoint => RequestsDisjoint'
  OBVIOUS
<1> QED
  BY <1>1, EveryLife, LifeAccepted, PTL

(* In every life a task is dispatched and executed after its dependencies     *)
(* only, by one goroutine, and never once it is cancelled (pushLoop, worker). *)
THEOREM OrderSurvives == RequestsDisjoint /\ RecoverySpec => []EngineInOrder
BY EveryLife, LifeInOrder, PTL

=============================================================================
