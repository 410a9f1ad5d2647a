------------------------------- MODULE OrionTasks -------------------------------
(* The data every component shares: the tasks of pkg/models/task.go, the      *)
(* batches a client can submit, and the order of the ready queue.             *)
(* A task is identified by a natural number; the order of the numbers stands  *)
(* for the lexical order of the IDs, which is all the code uses of them.      *)
EXTENDS Integers, FiniteSets

CONSTANTS
    Tasks,        \* the task IDs that may ever be submitted
    Dependencies, \* Task.Dependencies: [Tasks -> SUBSET Tasks]
    Priority,     \* Task.Priority: [Tasks -> Int], lower runs first
    MaxRetries,   \* Task.MaxRetries as submitted: [Tasks -> Int], 0 = not given
    FirstRetry,   \* Task.RetryCount as submitted: [Tasks -> Int], normally 0
    FailPayload,  \* the tasks whose payload is "fail": every attempt fails
    Batches,      \* the task sets that requests submit, one request each
    NoTask        \* the nil *models.Task

ASSUME TasksAssumption ==
    /\ Tasks \subseteq Nat
    /\ IsFiniteSet(Tasks)
    /\ NoTask \notin Tasks

ASSUME FieldsAssumption ==
    /\ Dependencies \in [Tasks -> SUBSET Tasks]
    /\ Priority \in [Tasks -> Int]
    /\ MaxRetries \in [Tasks -> Int]
    /\ FirstRetry \in [Tasks -> Int]
    /\ FailPayload \subseteq Tasks

(* What validateDAG leaves through (api/handlers.go): a batch is not empty    *)
(* and names no dependency outside itself.                                    *)
ASSUME BatchesAssumption ==
    /\ Batches \subseteq SUBSET Tasks
    /\ \A b \in Batches : b # {} /\ \A t \in b : Dependencies[t] \subseteq b

(* The other half of validateDAG, Kahn's algorithm: the dependencies form no  *)
(* cycle, so every non-empty part of a batch has a task with no dependency in *)
(* that part.                                                                 *)
ASSUME AcyclicAssumption ==
    \A b \in Batches : \A part \in (SUBSET b) \ {{}} :
        \E t \in part : Dependencies[t] \cap part = {}

-----------------------------------------------------------------------------

(* Task.Status; "absent" is a task the scheduler's map does not hold.         *)
Status == {"absent", "pending", "ready", "running", "completed", "failed"}
Terminal == {"completed", "failed"}

DefaultMaxRetries == 3

(* Task.MaxRetries once ingested: zero means "not given". A negative value    *)
(* passes every check and means "never retry".                                *)
Budget(t) == IF MaxRetries[t] = 0 THEN DefaultMaxRetries ELSE MaxRetries[t]

(* The retries that handleFailure still grants after "used" of them.          *)
RetriesLeft(t, used) == IF used < Budget(t) THEN Budget(t) - used ELSE 0

(* TaskHeap.Less: priority first, then the ID.                                *)
Less(t, u) ==
    \/ Priority[t] < Priority[u]
    \/ Priority[t] = Priority[u] /\ t < u

(* The tasks a permanent failure of t reaches, and t itself: t is doomed when *)
(* it, or anything it needs, has the "fail" payload.                          *)
Ancestry[n \in Nat] ==
    [t \in Tasks |-> IF n = 0 THEN {t}
                     ELSE {t} \cup UNION {Ancestry[n - 1][d] : d \in Dependencies[t]}]
Doomed(t) == Ancestry[Cardinality(Tasks)][t] \cap FailPayload # {}
=============================================================================
