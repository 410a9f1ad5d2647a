--------------------------------- MODULE Service ----------------------------------
(* The server's requests beside each other: submissions (handleSubmitDAG),    *)
(* crashes and recoveries (admin.go), with the manager they share, the        *)
(* schedulers it starts, the log and the idempotency store.  Each request is  *)
(* a goroutine of its own.  A batch of tasks stands for itself; what becomes  *)
(* of its tasks is the business of Engine and Recovery.                       *)
EXTENDS Integers, Sequences, FiniteSets

CONSTANTS
    Submits, Crashes, Recoveries, \* the requests, of three kinds
    Batch, Key, \* the tasks of a submission, and its idempotency key
    QueueLimit, \* 50: queue size from which submissions wait
    MaxErrors,  \* bound: failed appends
    None        \* no scheduler, no holder

Requests == Submits \cup Crashes \cup Recoveries
Batches == {Batch[r] : r \in Submits}

ASSUME ServiceRequests ==
    /\ Submits \cap Crashes = {} /\ Submits \cap Recoveries = {} /\ Crashes \cap Recoveries = {}
    /\ DOMAIN Batch = Submits /\ DOMAIN Key = Submits
    /\ QueueLimit \in Nat /\ MaxErrors \in Nat /\ None \notin Nat \cup Requests

VARIABLES
    log,     \* the INGEST records
    store,   \* the idempotency keys with a stored answer
    lives,   \* schedulers started: what each knows, its queue and whether it runs
    current, \* m.scheduler, as an index of lives
    running, \* m.running
    holder,  \* of m.mu: a request in Start or SimulateCrash
    upTo,    \* how much of the log the replay has read, and replayed
    pc,      \* where each request is
    sched,   \* the scheduler a submission has read
    outcome, \* what the run loop answered it
    errors

manager == <<lives, current, running, holder, upTo>>
vars == <<log, store, manager, pc, sched, outcome, errors>>

NewLife == [known |-> {}, queue |-> 0, live |-> TRUE, cancelled |-> FALSE]

(* The server has started on an empty log.                                    *)
Init ==
    /\ log = <<>> /\ store = {} /\ lives = <<NewLife>> /\ current = 1
    /\ running = TRUE /\ holder = None /\ upTo = [read |-> 0, replayed |-> 0]
    /\ pc = [r \in Requests |-> "start"] /\ sched = [r \in Submits |-> None]
    /\ outcome = [r \in Submits |-> "none"] /\ errors = 0

Goto(r, place) == pc' = [pc EXCEPT ![r] = place]

-----------------------------------------------------------------------------
(* A submission.                                                              *)

LookUpKey(r) ==
    /\ pc[r] = "start" /\ Goto(r, IF Key[r] \in store THEN "repeated" ELSE "new")
    /\ UNCHANGED <<log, store, manager, sched, outcome, errors>>

ReadScheduler(r) ==
    /\ pc[r] = "new" /\ holder = None
    /\ sched' = [sched EXCEPT ![r] = current]
    /\ Goto(r, IF current = None THEN "offline" ELSE "waiting")
    /\ UNCHANGED <<log, store, manager, outcome, errors>>

(* The loop looks at the queue of the scheduler it has read, every 10 ms.     *)
Backpressure(r) ==
    /\ pc[r] = "waiting" /\ lives[sched[r]].queue <= QueueLimit
    /\ Goto(r, "valid")
    /\ UNCHANGED <<log, store, manager, sched, outcome, errors>>

(* An append that fails in the fsync, after the write, leaves its record.     *)
Persist(r) ==
    /\ pc[r] = "valid"
    /\ \/ log' = Append(log, Batch[r]) /\ Goto(r, "persisted") /\ UNCHANGED errors
       \/ /\ errors < MaxErrors /\ errors' = errors + 1 /\ Goto(r, "error")
          /\ log' \in {log, Append(log, Batch[r])}
    /\ UNCHANGED <<store, manager, sched, outcome>>

(* The run loop takes a batch none of whose tasks it knows.                   *)
Admits_Always(s, b) == TRUE
Admits(s, b) == b \notin lives[s].known
Taken(s, b) == [lives EXCEPT ![s].known = @ \cup {b}, ![s].queue = @ + 1]
Ingest(r) ==
    /\ pc[r] = "persisted" /\ lives[sched[r]].live
    /\ IF Admits(sched[r], Batch[r])
       THEN lives' = Taken(sched[r], Batch[r]) /\ outcome' = [outcome EXCEPT ![r] = "admitted"]
       ELSE UNCHANGED lives /\ outcome' = [outcome EXCEPT ![r] = "duplicate"]
    /\ Goto(r, "ingested")
    /\ UNCHANGED <<log, store, current, running, holder, upTo, sched, errors>>

(* When the run loop has returned, the select may take that for the answer    *)
(* although the answer is there too.                                          *)
IngestReturns(r) ==
    /\ pc[r] = "ingested"
    /\ Goto(r, IF outcome[r] = "admitted" THEN "tracked" ELSE "refused")
    /\ UNCHANGED <<log, store, manager, sched, outcome, errors>>
IngestStopped_NoDone(r) ==
    /\ pc[r] = "ingested" /\ ~lives[sched[r]].live
    /\ Goto(r, "stopped")
    /\ UNCHANGED <<log, store, manager, sched, outcome, errors>>
IngestStopped(r) ==
    /\ pc[r] \in {"persisted", "ingested"} /\ ~lives[sched[r]].live
    /\ Goto(r, "stopped")
    /\ UNCHANGED <<log, store, manager, sched, outcome, errors>>

Remember(r) == store' = store \cup {Key[r]}
Accept(r) ==
    /\ pc[r] = "tracked" /\ Remember(r) /\ Goto(r, "accepted")
    /\ UNCHANGED <<log, manager, sched, outcome, errors>>

-----------------------------------------------------------------------------
(* A crash: one look at running, then SimulateCrash under the lock.           *)

CheckCrash(r) ==
    /\ pc[r] = "start" /\ Goto(r, IF running THEN "crashing" ELSE "conflict")
    /\ UNCHANGED <<log, store, manager, sched, outcome, errors>>

(* Nothing to cancel: another request has been faster.                        *)
CrashNothing(r) ==
    /\ pc[r] = "crashing" /\ holder = None /\ current = None /\ Goto(r, "crashed")
    /\ UNCHANGED <<log, store, manager, sched, outcome, errors>>
BeginCrash(r) ==
    /\ pc[r] = "crashing" /\ holder = None /\ current # None
    /\ holder' = r /\ lives' = [lives EXCEPT ![current].cancelled = TRUE]
    /\ Goto(r, "draining")
    /\ UNCHANGED <<log, store, current, running, upTo, sched, outcome, errors>>
Drained_NotAwaited == TRUE
Drained == ~lives[current].live
EndCrash(r) ==
    /\ pc[r] = "draining" /\ Drained
    /\ current' = None /\ running' = FALSE /\ holder' = None /\ Goto(r, "crashed")
    /\ UNCHANGED <<log, store, lives, upTo, sched, outcome, errors>>

-----------------------------------------------------------------------------
(* A recovery: one look at running, then Start under the lock, which replays  *)
(* the log as it finds it.                                                    *)

CheckRecover(r) ==
    /\ pc[r] = "start" /\ Goto(r, IF running THEN "conflict" ELSE "recovering")
    /\ UNCHANGED <<log, store, manager, sched, outcome, errors>>
BeginStart(r) ==
    /\ pc[r] = "recovering" /\ holder = None
    /\ holder' = r /\ lives' = Append(lives, NewLife)
    /\ upTo' = [read |-> Len(log), replayed |-> 0] /\ Goto(r, "replaying")
    /\ UNCHANGED <<log, store, current, running, sched, outcome, errors>>
ReplayEnds_OneEarly == upTo.replayed + 1 >= upTo.read
ReplayEnds == upTo.replayed = upTo.read
ReplayIngest(r) ==
    /\ pc[r] = "replaying" /\ ~ReplayEnds
    /\ upTo' = [upTo EXCEPT !.replayed = @ + 1]
    /\ LET b == log[upTo.replayed + 1] IN
          lives' = IF Admits(Len(lives), b) THEN Taken(Len(lives), b) ELSE lives
    /\ UNCHANGED <<log, store, current, running, holder, pc, sched, outcome, errors>>
EndStart(r) ==
    /\ pc[r] = "replaying" /\ ReplayEnds
    /\ current' = Len(lives) /\ running' = TRUE /\ holder' = None /\ Goto(r, "recovered")
    /\ UNCHANGED <<log, store, lives, upTo, sched, outcome, errors>>

-----------------------------------------------------------------------------
(* A scheduler hands out its queue, and stops when its context is cancelled,  *)
(* with whatever is left in the queue.                                        *)

Pop(s) ==
    /\ lives[s].live /\ lives[s].queue > 0
    /\ lives' = [lives EXCEPT ![s].queue = @ - 1]
    /\ UNCHANGED <<log, store, current, running, holder, upTo, pc, sched, outcome, errors>>
Stop(s) ==
    /\ lives[s].live /\ lives[s].cancelled
    /\ lives' = [lives EXCEPT ![s].live = FALSE]
    /\ UNCHANGED <<log, store, current, running, holder, upTo, pc, sched, outcome, errors>>

Submission(r) ==
    \/ LookUpKey(r) \/ ReadScheduler(r) \/ Backpressure(r) \/ Persist(r)
    \/ Ingest(r) \/ IngestReturns(r) \/ IngestStopped(r) \/ Accept(r)
CrashRequest(r) == CheckCrash(r) \/ CrashNothing(r) \/ BeginCrash(r) \/ EndCrash(r)
RecoveryRequest(r) == CheckRecover(r) \/ BeginStart(r) \/ ReplayIngest(r) \/ EndStart(r)

Next ==
    \/ \E r \in Submits : Submission(r)
    \/ \E r \in Crashes : CrashRequest(r)
    \/ \E r \in Recoveries : RecoveryRequest(r)
    \/ \E s \in DOMAIN lives : Pop(s) \/ Stop(s)

Spec == Init /\ [][Next]_vars

(* Every goroutine goes on.  A request need not arrive, so the first step of  *)
(* each is not required; the lock is handed on fairly.                        *)
FairSpec ==
    /\ Spec
    /\ \A r \in Submits : WF_vars(pc[r] # "start" /\ Submission(r)) /\ SF_vars(ReadScheduler(r))
    /\ \A r \in Crashes : WF_vars(EndCrash(r)) /\ SF_vars(CrashNothing(r) \/ BeginCrash(r))
    /\ \A r \in Recoveries : WF_vars(ReplayIngest(r) \/ EndStart(r)) /\ SF_vars(BeginStart(r))
    /\ \A s \in 1..(Cardinality(Recoveries) + 1) :
          WF_vars(s \in DOMAIN lives /\ Pop(s)) /\ WF_vars(s \in DOMAIN lives /\ Stop(s))

-----------------------------------------------------------------------------
(* Properties.                                                                *)

Answered(r) == pc[r] \in {"repeated", "offline", "error", "refused", "stopped", "accepted",
                          "conflict", "crashed", "recovered"}

(* There is never a second scheduler at work beside the first: two of them    *)
(* would hand out every task of the log twice.                                *)
OneScheduler == Cardinality({s \in DOMAIN lives : lives[s].live}) <= 1

(* A batch is accepted once, however many requests bring it, with one key or  *)
(* with several, and whatever crashes and recoveries lie between them.        *)
AcceptedOnce ==
    \A r, q \in Submits :
        (r # q /\ Batch[r] = Batch[q]) => ~(pc[r] = "accepted" /\ pc[q] = "accepted")

(* What was accepted is in the log, and the scheduler that the manager has    *)
(* knows it, even when it was another one that took it.                       *)
AcceptedIsKnown ==
    \A r \in Submits : pc[r] = "accepted" =>
        /\ \E k \in DOMAIN log : log[k] = Batch[r]
        /\ current # None => Batch[r] \in lives[current].known

(* What a submission, a crash and a recovery wait for comes about: no two of  *)
(* them wait for each other, and whatever is drained is drained to the end.   *)
(* The one exception the code leaves is a submission that polls the full      *)
(* queue of a scheduler that has stopped.                                     *)
Stranded(r) ==
    pc[r] = "waiting" /\ ~lives[sched[r]].live /\ lives[sched[r]].queue > QueueLimit
RequestsReturn ==
    \A r \in Requests : pc[r] # "start" ~> (Answered(r) \/ (r \in Submits /\ Stranded(r)))
=============================================================================
