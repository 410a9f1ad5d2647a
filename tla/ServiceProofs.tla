------------------------------- MODULE ServiceProofs -------------------------------
(* One scheduler at a time, and no accepted batch lost or taken twice, for    *)
(* any number of submissions, crashes and recoveries, whatever the order of   *)
(* their steps, as long as no two recoveries overlap: handleRecover looks at  *)
(* IsRunning before it takes the lock, and two that both look first start two *)
(* schedulers (the run of MCServiceTwice shows it).                           *)
EXTENDS Service, TLAPS, FiniteSetTheorems

-----------------------------------------------------------------------------
(* The invariant                                                              *)

(* A recovery between its look at running and its answer.                     *)
Starting(r) == pc[r] \in {"recovering", "replaying"}
RecoveriesApart == \A q, r \in Recoveries : Starting(q) /\ Starting(r) => q = r

(* Manager.Start has made a scheduler and feeds it the log.                   *)
Rebuilding == \E r \in Recoveries : pc[r] = "replaying"

(* The schedulers that m.scheduler has shown to submissions.                  *)
Published(s) == s \in 1 .. Len(lives) /\ ~(Rebuilding /\ s = Len(lives))

LifeRecord == [known : SUBSET Batches, queue : Nat, live : BOOLEAN, cancelled : BOOLEAN]
SubmitPlaces == {"start", "new", "repeated", "offline", "waiting", "valid", "error", "persisted",
                 "ingested", "tracked", "refused", "stopped", "accepted"}
CrashPlaces == {"start", "conflict", "crashing", "draining", "crashed"}
RecoveryPlaces == {"start", "conflict", "recovering", "replaying", "recovered"}

TypeOK ==
    /\ log \in Seq(Batches)
    /\ lives \in Seq(LifeRecord) /\ Len(lives) > 0
    /\ current \in 1 .. Len(lives) \cup {None}
    /\ running \in BOOLEAN
    /\ upTo \in [read : Nat, replayed : Nat]
    /\ pc \in [Requests -> SubmitPlaces \cup CrashPlaces \cup RecoveryPlaces]
    /\ \A r \in Submits : pc[r] \in SubmitPlaces
    /\ \A r \in Crashes : pc[r] \in CrashPlaces
    /\ \A r \in Recoveries : pc[r] \in RecoveryPlaces
    /\ sched \in [Submits -> Nat \cup {None}]
    /\ outcome \in [Submits -> {"none", "admitted", "duplicate"}]

(* Whoever drains or replays has the lock.                                    *)
LockHeld == \A r \in Requests : pc[r] \in {"draining", "replaying"} => holder = r

(* What the manager says of itself: with a recovery on its way it has no      *)
(* scheduler, and whom it has is the last.                                    *)
ManagerExact ==
    /\ running <=> current # None
    /\ current # None => current = Len(lives)
    /\ \A r \in Recoveries : Starting(r) => current = None
    /\ \A r \in Crashes : pc[r] = "draining" => current # None

(* Only the last scheduler works, the manager's or the one that it builds.    *)
LastIsLive ==
    \A s \in 1 .. Len(lives) : lives[s].live => s = Len(lives) /\ (current = s \/ Rebuilding)

(* The replay stays within what it has found in the log.                      *)
ReadIsLogged == Rebuilding => upTo.replayed <= upTo.read /\ upTo.read <= Len(log)

(* A batch is logged before it is admitted, by a scheduler that the           *)
(* submission has been shown.                                                 *)
LoggedFirst ==
    \A r \in Submits :
        /\ pc[r] \in {"start", "new", "waiting", "valid", "persisted"} => outcome[r] = "none"
        /\ pc[r] \in {"tracked", "accepted"} => outcome[r] = "admitted"
        /\ pc[r] \in {"waiting", "valid", "persisted"} \/ outcome[r] = "admitted" =>
              sched[r] # None /\ Published(sched[r])
        /\ pc[r] = "persisted" \/ outcome[r] = "admitted" =>
              \E k \in 1 .. Len(log) : log[k] = Batch[r]

(* The scheduler that has admitted a batch knows it, and so do those after    *)
(* it, the one that is replaying as soon as it has come to its record.        *)
AdmittedIsKnown ==
    \A r \in Submits : outcome[r] = "admitted" =>
        /\ \A s \in 1 .. Len(lives) :
              sched[r] <= s /\ Published(s) => Batch[r] \in lives[s].known
        /\ Rebuilding => \E k \in 1 .. upTo.read :
              /\ log[k] = Batch[r]
              /\ k <= upTo.replayed => Batch[r] \in lives[Len(lives)].known

AdmittedOnce ==
    \A q, r \in Submits : outcome[q] = "admitted" /\ outcome[r] = "admitted" /\ Batch[q] = Batch[r]
        => q = r

ServiceInv ==
    /\ TypeOK /\ LockHeld /\ ManagerExact /\ LastIsLive /\ ReadIsLogged
    /\ LoggedFirst /\ AdmittedIsKnown /\ AdmittedOnce

-----------------------------------------------------------------------------
(* The parts that a step may disturb                                          *)

(* What a recovery on its way says of the manager.                            *)
LEMMA RecoveryFacts ==
    ASSUME ServiceInv
    PROVE  /\ holder = None => ~Rebuilding /\ \A r \in Requests : pc[r] \notin {"draining", "replaying"}
           /\ \A r \in Recoveries : pc[r] = "replaying" => Rebuilding /\ current = None /\ holder = r
           /\ current # None => ~Rebuilding /\ Published(current) /\ current = Len(lives)
           /\ None \notin Nat /\ Len(lives) \in Nat
BY ServiceRequests
   DEF ServiceInv, TypeOK, LockHeld, ManagerExact, Rebuilding, Starting, Published, Requests

(* Only r moves.                                                              *)
LEMMA GotoFacts ==
    ASSUME TypeOK, NEW r \in Requests, NEW place, Goto(r, place)
    PROVE  /\ \A q \in Requests : pc'[q] = IF q = r THEN place ELSE pc[q]
           /\ DOMAIN pc' = Requests /\ pc' = [pc EXCEPT ![r] = place]
BY DEF TypeOK, Goto

(* A submission moves between places where it has nothing of the manager's,   *)
(* and may have logged its batch.                                             *)
LEMMA SubmitMoves ==
    ASSUME ServiceInv, NEW r \in Submits, NEW place \in SubmitPlaces, Goto(r, place),
           UNCHANGED <<manager, sched, outcome>>,
           log' = log \/ log' = Append(log, Batch[r]),
           place # "start",
           place = "new" => outcome[r] = "none",
           place \in {"waiting", "valid", "persisted"} => pc[r] \in {"waiting", "valid"},
           place = "persisted" => log' = Append(log, Batch[r]),
           place \in {"tracked", "accepted"} => outcome[r] = "admitted"
    PROVE  ServiceInv'
<1> USE DEF ServiceInv
<1>1. /\ UNCHANGED <<lives, current, running, holder, upTo, sched, outcome>>
      /\ \A q \in Requests : pc'[q] = IF q = r THEN place ELSE pc[q]
      /\ r \in Requests /\ r \notin Crashes /\ r \notin Recoveries
      /\ Crashes \subseteq Requests /\ Recoveries \subseteq Requests /\ Submits \subseteq Requests
  BY ServiceRequests, GotoFacts DEF manager, Requests
<1>2. /\ log' \in Seq(Batches) /\ Len(log) \in Nat /\ Len(log') \in Nat /\ Len(log) <= Len(log')
      /\ \A k \in 1 .. Len(log) : log'[k] = log[k]
      /\ log' = Append(log, Batch[r]) => Len(log') = Len(log) + 1 /\ log'[Len(log')] = Batch[r]
  <2>1. Batch[r] \in Batches /\ log \in Seq(Batches)
    BY DEF Batches, TypeOK
  <2> QED
    BY <2>1
<1>3. TypeOK'
  <2>1. pc' \in [Requests -> SubmitPlaces \cup CrashPlaces \cup RecoveryPlaces]
    BY <1>1, GotoFacts DEF TypeOK
  <2>2. /\ \A q \in Submits : pc'[q] \in SubmitPlaces
        /\ \A q \in Crashes : pc'[q] \in CrashPlaces
        /\ \A q \in Recoveries : pc'[q] \in RecoveryPlaces
    BY <1>1 DEF TypeOK
  <2> QED
    BY <1>1, <1>2, <2>1, <2>2 DEF TypeOK
<1>4. Rebuilding' = Rebuilding /\ \A s : Published(s)' = Published(s)
  BY <1>1 DEF Rebuilding, Published
<1>5. LockHeld' /\ ManagerExact' /\ LastIsLive' /\ ReadIsLogged'
  <2>1. LockHeld'
    BY <1>1 DEF LockHeld, SubmitPlaces
  <2>2. ManagerExact'
    BY <1>1 DEF ManagerExact, Starting
  <2>3. LastIsLive'
    BY <1>1, <1>4 DEF LastIsLive
  <2>4. ReadIsLogged'
    BY <1>1, <1>2, <1>4 DEF ReadIsLogged, TypeOK
  <2> QED
    BY <2>1, <2>2, <2>3, <2>4
<1>6. LoggedFirst'
  <2>1. ASSUME NEW q \in Submits
        PROVE  (\E k \in 1 .. Len(log) : log[k] = Batch[q])
                  => \E k \in 1 .. Len(log') : log'[k] = Batch[q]
    BY <1>2
  <2>2. log' = Append(log, Batch[r]) => \E k \in 1 .. Len(log') : log'[k] = Batch[r]
    BY <1>2
  <2>3. \A q \in Submits : q # r => pc'[q] = pc[q]
    BY <1>1
  <2>4. pc'[r] = place
    BY <1>1
  <2> QED
    BY <1>1, <1>4, <2>1, <2>2, <2>3, <2>4 DEF LoggedFirst
<1>7. AdmittedIsKnown'
  <2>1. ASSUME Rebuilding
        PROVE  upTo.read \in Nat /\ upTo.read <= Len(log)
    BY <2>1 DEF ReadIsLogged, TypeOK
  <2>2. ASSUME Rebuilding, NEW k \in 1 .. upTo.read
        PROVE  log'[k] = log[k]
    BY <1>2, <2>1, <2>2
  <2> QED
    BY <1>1, <1>4, <2>2 DEF AdmittedIsKnown
<1>8. AdmittedOnce'
  BY <1>1 DEF AdmittedOnce
<1> QED
  BY <1>3, <1>5, <1>6, <1>7, <1>8

(* What a submission does without the run loop.                               *)
LEMMA SubmissionInv ==
    ASSUME ServiceInv, NEW r \in Submits,
           \/ LookUpKey(r) \/ Backpressure(r) \/ Persist(r)
           \/ IngestReturns(r) \/ IngestStopped(r) \/ Accept(r)
    PROVE  ServiceInv'
<1>1. LoggedFirst
  BY DEF ServiceInv
<1>2. CASE LookUpKey(r)
  <2>1. PICK place \in {"repeated", "new"} : Goto(r, place)
    BY <1>2 DEF LookUpKey
  <2>2. outcome[r] = "none"
    BY <1>1, <1>2 DEF LookUpKey, LoggedFirst
  <2> QED
    BY <1>2, <2>1, <2>2, SubmitMoves DEF LookUpKey, SubmitPlaces
<1>3. CASE Backpressure(r)
  BY <1>3, SubmitMoves DEF Backpressure, SubmitPlaces
<1>4. CASE Persist(r)
  BY <1>4, SubmitMoves DEF Persist, SubmitPlaces
<1>5. CASE IngestReturns(r)
  <2>1. PICK place \in {"tracked", "refused"} :
          Goto(r, place) /\ (place = "tracked" => outcome[r] = "admitted")
    BY <1>5 DEF IngestReturns
  <2> QED
    BY <1>5, <2>1, SubmitMoves DEF IngestReturns, SubmitPlaces
<1>6. CASE IngestStopped(r)
  BY <1>6, SubmitMoves DEF IngestStopped, SubmitPlaces
<1>7. CASE Accept(r)
  BY <1>1, <1>7, SubmitMoves DEF Accept, SubmitPlaces, LoggedFirst
<1> QED
  BY <1>2, <1>3, <1>4, <1>5, <1>6, <1>7

(* getScheduler, under the lock.                                              *)
LEMMA ReadSchedulerInv ==
    ASSUME ServiceInv, NEW r \in Submits, ReadScheduler(r)
    PROVE  ServiceInv'
<1> USE DEF ServiceInv
<1> DEFINE place == IF current = None THEN "offline" ELSE "waiting"
<1>1. /\ UNCHANGED <<lives, current, running, holder, upTo, outcome, log>>
      /\ pc[r] = "new" /\ holder = None /\ Goto(r, place)
      /\ \A q \in Submits : sched'[q] = IF q = r THEN current ELSE sched[q]
      /\ sched' = [sched EXCEPT ![r] = current]
  BY DEF ReadScheduler, manager, TypeOK
<1>2. /\ \A q \in Requests : pc'[q] = IF q = r THEN place ELSE pc[q]
      /\ r \in Requests /\ r \notin Crashes /\ r \notin Recoveries
      /\ Crashes \subseteq Requests /\ Recoveries \subseteq Requests /\ Submits \subseteq Requests
  BY <1>1, ServiceRequests, GotoFacts DEF Requests
<1>3. place \in {"offline", "waiting"} /\ (place = "waiting" => current # None)
  OBVIOUS
<1> HIDE DEF place
<1>4. TypeOK'
  <2>1. pc' \in [Requests -> SubmitPlaces \cup CrashPlaces \cup RecoveryPlaces]
    BY <1>1, <1>2, <1>3, GotoFacts DEF TypeOK, SubmitPlaces
  <2>2. /\ \A q \in Submits : pc'[q] \in SubmitPlaces
        /\ \A q \in Crashes : pc'[q] \in CrashPlaces
        /\ \A q \in Recoveries : pc'[q] \in RecoveryPlaces
    BY <1>2, <1>3 DEF TypeOK, SubmitPlaces
  <2>3. sched' \in [Submits -> Nat \cup {None}]
    BY <1>1 DEF TypeOK
  <2> QED
    BY <1>1, <2>1, <2>2, <2>3 DEF TypeOK
<1>5. Rebuilding' = Rebuilding /\ \A s : Published(s)' = Published(s)
  BY <1>1, <1>2 DEF Rebuilding, Published
<1>6. LockHeld' /\ ManagerExact' /\ LastIsLive' /\ ReadIsLogged'
  <2>1. LockHeld'
    BY <1>1, <1>2, <1>3 DEF LockHeld
  <2>2. ManagerExact'
    BY <1>1, <1>2 DEF ManagerExact, Starting
  <2> QED
    BY <1>1, <1>5, <2>1, <2>2 DEF LastIsLive, ReadIsLogged
<1>7. outcome[r] = "none"
  BY <1>1 DEF LoggedFirst
<1>8. LoggedFirst'
  <2>1. current # None => Published(current)
    BY RecoveryFacts
  <2>2. ASSUME NEW q \in Submits, q # r
        PROVE  pc'[q] = pc[q] /\ sched'[q] = sched[q]
    BY <1>1, <1>2, <2>2
  <2>3. pc'[r] = place /\ sched'[r] = current
    BY <1>1, <1>2
  <2> QED
    BY <1>1, <1>3, <1>5, <1>7, <2>1, <2>2, <2>3 DEF LoggedFirst
<1>9. AdmittedIsKnown' /\ AdmittedOnce'
  BY <1>1, <1>5, <1>7 DEF AdmittedIsKnown, AdmittedOnce
<1> QED
  BY <1>4, <1>6, <1>8, <1>9

-----------------------------------------------------------------------------
(* The schedulers                                                             *)

(* One life is written over.                                                  *)
LEMMA LifeWritten ==
    ASSUME TypeOK, NEW s \in 1 .. Len(lives), NEW l \in LifeRecord,
           lives' = [lives EXCEPT ![s] = l]
    PROVE  /\ lives' \in Seq(LifeRecord) /\ Len(lives') = Len(lives)
           /\ \A i \in 1 .. Len(lives) : lives'[i] = IF i = s THEN l ELSE lives[i]
BY DEF TypeOK

(* Submissions notice nothing of a step that takes no knowledge away.         *)
LEMMA KnowledgeStays ==
    ASSUME ServiceInv, UNCHANGED <<log, sched, outcome, upTo>>,
           \A q \in Submits : pc'[q] = pc[q], Rebuilding' = Rebuilding,
           Len(lives') = Len(lives),
           \A i \in 1 .. Len(lives) : lives[i].known \subseteq lives'[i].known
    PROVE  ReadIsLogged' /\ LoggedFirst' /\ AdmittedIsKnown' /\ AdmittedOnce'
<1> USE DEF ServiceInv
<1>1. \A s : Published(s)' = Published(s)
  BY DEF Published
<1>2. ReadIsLogged' /\ LoggedFirst' /\ AdmittedOnce'
  BY <1>1 DEF ReadIsLogged, LoggedFirst, AdmittedOnce
<1>3. Len(lives) \in 1 .. Len(lives) /\ lives[Len(lives)].known \subseteq lives'[Len(lives')].known
  BY DEF TypeOK
<1>4. AdmittedIsKnown'
  BY <1>1, <1>3 DEF AdmittedIsKnown
<1> QED
  BY <1>2, <1>4

(* Ingest: the scheduler that a submission was shown is the last one as long  *)
(* as it works.                                                               *)
LEMMA IngestInv ==
    ASSUME ServiceInv, NEW r \in Submits, Ingest(r)
    PROVE  ServiceInv'
<1> USE DEF ServiceInv
<1> DEFINE s == sched[r]
           b == Batch[r]
<1>1. /\ UNCHANGED <<current, running, holder, upTo, sched, log>>
      /\ pc[r] = "persisted" /\ Goto(r, "ingested") /\ lives[s].live
  BY DEF Ingest
<1>2. /\ s # None /\ Published(s) /\ s \in 1 .. Len(lives) /\ s = Len(lives) /\ ~Rebuilding
      /\ b \in Batches /\ outcome[r] = "none"
      /\ \E k \in 1 .. Len(log) : log[k] = b
  BY <1>1 DEF LoggedFirst, Published, LastIsLive, Batches
<1> DEFINE l == [lives[s] EXCEPT !.known = @ \cup {b}, !.queue = @ + 1]
<1>3. /\ lives[s] \in LifeRecord /\ l \in LifeRecord
      /\ l.known = lives[s].known \cup {b} /\ l.live = lives[s].live
  <2>1. lives[s] \in LifeRecord
    BY <1>2 DEF TypeOK
  <2>2. lives[s].queue + 1 \in Nat /\ lives[s].known \cup {b} \in SUBSET Batches
    BY <1>2, <2>1 DEF LifeRecord
  <2> QED
    BY <2>1, <2>2 DEF LifeRecord
<1>4. /\ \A q \in Requests : pc'[q] = IF q = r THEN "ingested" ELSE pc[q]
      /\ pc' = [pc EXCEPT ![r] = "ingested"]
      /\ r \in Requests /\ r \notin Crashes /\ r \notin Recoveries
      /\ Crashes \subseteq Requests /\ Recoveries \subseteq Requests /\ Submits \subseteq Requests
  BY <1>1, ServiceRequests, GotoFacts DEF Requests
<1>5. PICK answer \in {"admitted", "duplicate"} :
        /\ outcome' = [outcome EXCEPT ![r] = answer]
        /\ IF answer = "admitted"
           THEN b \notin lives[s].known /\ lives' = [lives EXCEPT ![s] = l]
           ELSE lives' = lives
  BY DEF Ingest, Admits, Taken
<1> HIDE DEF l, s, b
<1>6. /\ lives' \in Seq(LifeRecord) /\ Len(lives') = Len(lives)
      /\ \A i \in 1 .. Len(lives) : /\ lives'[i].live = lives[i].live
                                    /\ lives[i].known \subseteq lives'[i].known
      /\ answer = "admitted" => b \in lives'[s].known
  BY <1>2, <1>3, <1>5, LifeWritten DEF TypeOK
<1>7. \A q \in Submits : outcome'[q] = IF q = r THEN answer ELSE outcome[q]
  BY <1>5 DEF TypeOK
<1>8. TypeOK'
  <2>1. /\ \A q \in Submits : pc'[q] \in SubmitPlaces
        /\ \A q \in Crashes : pc'[q] \in CrashPlaces
        /\ \A q \in Recoveries : pc'[q] \in RecoveryPlaces
    BY <1>4 DEF TypeOK, SubmitPlaces
  <2>2. pc' \in [Requests -> SubmitPlaces \cup CrashPlaces \cup RecoveryPlaces]
    BY <1>4 DEF TypeOK, SubmitPlaces
  <2>3. outcome' \in [Submits -> {"none", "admitted", "duplicate"}]
    BY <1>5 DEF TypeOK
  <2> QED
    BY <1>1, <1>6, <2>1, <2>2, <2>3 DEF TypeOK
<1>9. ~Rebuilding' /\ \A i : Published(i)' = Published(i)
  BY <1>2, <1>4, <1>6 DEF Rebuilding, Published
<1>10. LockHeld' /\ ManagerExact' /\ LastIsLive' /\ ReadIsLogged'
  <2>1. LockHeld'
    BY <1>1, <1>4 DEF LockHeld
  <2>2. ManagerExact'
    BY <1>1, <1>4, <1>6 DEF ManagerExact, Starting
  <2>3. LastIsLive'
    BY <1>1, <1>2, <1>6, <1>9 DEF LastIsLive
  <2> QED
    BY <1>9, <2>1, <2>2, <2>3 DEF ReadIsLogged
<1>11. LoggedFirst'
  <2>1. \A q \in Submits : q # r => pc'[q] = pc[q] /\ outcome'[q] = outcome[q]
    BY <1>4, <1>7
  <2>2. pc'[r] = "ingested" /\ outcome'[r] = answer
    BY <1>4, <1>7
  <2> QED
    BY <1>1, <1>2, <1>9, <2>1, <2>2 DEF LoggedFirst, s, b
<1>12. AdmittedIsKnown'
  <2>1. ASSUME NEW q \in Submits, outcome'[q] = "admitted",
               NEW i \in 1 .. Len(lives), sched[q] <= i, Published(i)
        PROVE  Batch[q] \in lives'[i].known
    <3>1. CASE q = r
      <4>1. answer = "admitted" /\ i = s
        BY <1>2, <1>7, <2>1, <3>1 DEF s, TypeOK
      <4> QED
        BY <1>6, <3>1, <4>1 DEF b
    <3>2. CASE q # r
      BY <1>6, <1>7, <2>1, <3>2 DEF AdmittedIsKnown
    <3> QED
      BY <3>1, <3>2
  <2> QED
    BY <1>1, <1>6, <1>9, <2>1 DEF AdmittedIsKnown
<1>13. AdmittedOnce'
  <2>1. ASSUME NEW q \in Submits, outcome[q] = "admitted", Batch[q] = b
        PROVE  b \in lives[s].known
    <3>1. sched[q] # None /\ Published(sched[q]) /\ sched[q] \in 1 .. Len(lives)
      BY <2>1 DEF LoggedFirst, Published
    <3>2. sched[q] <= s
      BY <1>2, <3>1
    <3> QED
      BY <1>2, <2>1, <3>2 DEF AdmittedIsKnown
  <2> QED
    BY <1>5, <1>7, <2>1 DEF AdmittedOnce, b
<1> QED
  BY <1>8, <1>10, <1>11, <1>12, <1>13

(* A scheduler hands out its queue, or returns.                               *)
LEMMA SchedulerInv ==
    ASSUME ServiceInv, NEW s \in DOMAIN lives, Pop(s) \/ Stop(s)
    PROVE  ServiceInv'
<1> USE DEF ServiceInv
<1>1. s \in 1 .. Len(lives) /\ lives[s] \in LifeRecord
  BY DEF TypeOK
<1>2. PICK l \in LifeRecord :
        /\ lives' = [lives EXCEPT ![s] = l]
        /\ l.known = lives[s].known /\ (l.live => lives[s].live)
  <2>1. CASE Pop(s)
    <3> DEFINE l == [lives[s] EXCEPT !.queue = @ - 1]
    <3>1. l \in LifeRecord /\ l.known = lives[s].known /\ l.live = lives[s].live
      <4>1. lives[s].queue - 1 \in Nat
        BY <1>1, <2>1 DEF Pop, LifeRecord
      <4> QED
        BY <1>1, <4>1 DEF LifeRecord
    <3>2. lives' = [lives EXCEPT ![s] = l]
      BY <2>1 DEF Pop
    <3> QED
      BY <3>1, <3>2
  <2>2. CASE Stop(s)
    <3> DEFINE l == [lives[s] EXCEPT !.live = FALSE]
    <3>1. l \in LifeRecord /\ l.known = lives[s].known /\ ~l.live
      BY <1>1, <2>2 DEF Stop, LifeRecord
    <3>2. lives' = [lives EXCEPT ![s] = l]
      BY <2>2 DEF Stop
    <3> QED
      BY <3>1, <3>2
  <2> QED
    BY <2>1, <2>2
<1>3. /\ lives' \in Seq(LifeRecord) /\ Len(lives') = Len(lives)
      /\ \A i \in 1 .. Len(lives) : /\ lives'[i].live => lives[i].live
                                    /\ lives[i].known \subseteq lives'[i].known
  <2>1. /\ lives' \in Seq(LifeRecord) /\ Len(lives') = Len(lives)
        /\ \A i \in 1 .. Len(lives) : lives'[i] = IF i = s THEN l ELSE lives[i]
    BY <1>1, <1>2, LifeWritten
  <2>2. lives'[s] = l /\ \A i \in 1 .. Len(lives) : i # s => lives'[i] = lives[i]
    BY <1>1, <2>1
  <2> QED
    BY <1>2, <2>1, <2>2
<1>4. UNCHANGED <<log, current, running, holder, upTo, pc, sched, outcome>>
  BY DEF Pop, Stop
<1>5. Rebuilding' = Rebuilding
  BY <1>4 DEF Rebuilding
<1>6. ReadIsLogged' /\ LoggedFirst' /\ AdmittedIsKnown' /\ AdmittedOnce'
  BY <1>3, <1>4, <1>5, KnowledgeStays
<1>7. TypeOK' /\ LockHeld' /\ ManagerExact' /\ LastIsLive'
  BY <1>3, <1>4, <1>5 DEF TypeOK, LockHeld, ManagerExact, LastIsLive, Starting
<1> QED
  BY <1>6, <1>7

-----------------------------------------------------------------------------
(* Crashes and recoveries                                                     *)

(* A crash or a recovery moves, and no submission does.                       *)
LEMMA ManagerMoves ==
    ASSUME ServiceInv, NEW r \in Crashes \cup Recoveries, NEW place, Goto(r, place),
           r \in Crashes => place \in CrashPlaces,
           r \in Recoveries => place \in RecoveryPlaces
    PROVE  /\ \A q \in Requests : pc'[q] = IF q = r THEN place ELSE pc[q]
           /\ pc' \in [Requests -> SubmitPlaces \cup CrashPlaces \cup RecoveryPlaces]
           /\ \A q \in Submits : pc'[q] = pc[q] /\ pc'[q] \in SubmitPlaces
           /\ \A q \in Crashes : pc'[q] \in CrashPlaces
           /\ \A q \in Recoveries : pc'[q] \in RecoveryPlaces
           /\ r \in Requests /\ r # None /\ (r \in Crashes <=> r \notin Recoveries)
           /\ Submits \subseteq Requests /\ Crashes \subseteq Requests /\ Recoveries \subseteq Requests
<1>1. TypeOK /\ r \in Requests /\ r # None /\ r \notin Submits
  BY ServiceRequests DEF ServiceInv, Requests
<1>2. /\ \A q \in Requests : pc'[q] = IF q = r THEN place ELSE pc[q]
      /\ pc' = [pc EXCEPT ![r] = place]
  BY <1>1, GotoFacts
<1> QED
  BY <1>1, <1>2, ServiceRequests DEF TypeOK, Requests

(* Before the lock is taken, and after a look that ends the request.          *)
LEMMA LooksInv ==
    ASSUME ServiceInv, NEW r \in Crashes \cup Recoveries,
           \/ r \in Crashes /\ (CheckCrash(r) \/ CrashNothing(r))
           \/ r \in Recoveries /\ CheckRecover(r)
    PROVE  ServiceInv'
<1> USE DEF ServiceInv
<1>1. PICK place : /\ Goto(r, place)
                   /\ r \in Crashes => place \in {"crashing", "conflict", "crashed"}
                   /\ r \in Recoveries => place \in {"recovering", "conflict"}
                   /\ place = "recovering" => ~running
  BY ServiceRequests DEF CheckCrash, CrashNothing, CheckRecover
<1>2. UNCHANGED <<log, lives, current, running, holder, upTo, sched, outcome>>
  BY DEF CheckCrash, CrashNothing, CheckRecover, manager
<1>3. pc[r] # "replaying" /\ place # "replaying" /\ place # "draining"
  BY <1>1 DEF CheckCrash, CrashNothing, CheckRecover
<1>4. /\ \A q \in Requests : pc'[q] = IF q = r THEN place ELSE pc[q]
      /\ pc' \in [Requests -> SubmitPlaces \cup CrashPlaces \cup RecoveryPlaces]
      /\ \A q \in Submits : pc'[q] = pc[q] /\ pc'[q] \in SubmitPlaces
      /\ \A q \in Crashes : pc'[q] \in CrashPlaces
      /\ \A q \in Recoveries : pc'[q] \in RecoveryPlaces
      /\ Crashes \subseteq Requests /\ Recoveries \subseteq Requests
  BY <1>1, ManagerMoves DEF CrashPlaces, RecoveryPlaces
<1>5. Rebuilding' = Rebuilding
  BY <1>3, <1>4 DEF Rebuilding
<1>6. ReadIsLogged' /\ LoggedFirst' /\ AdmittedIsKnown' /\ AdmittedOnce'
  BY <1>2, <1>4, <1>5, KnowledgeStays
<1>7. TypeOK' /\ LockHeld' /\ LastIsLive'
  BY <1>2, <1>3, <1>4, <1>5 DEF TypeOK, LockHeld, LastIsLive
<1>8. ManagerExact'
  <2>1. \A q \in Recoveries : Starting(q)' => Starting(q) \/ ~running
    BY <1>1, <1>4 DEF Starting
  <2>2. \A q \in Crashes : pc'[q] = "draining" => pc[q] = "draining"
    BY <1>3, <1>4
  <2> QED
    BY <1>2, <2>1, <2>2 DEF ManagerExact
<1> QED
  BY <1>6, <1>7, <1>8

(* SimulateCrash takes the lock and cancels the context.                      *)
LEMMA BeginCrashInv ==
    ASSUME ServiceInv, NEW r \in Crashes, BeginCrash(r)
    PROVE  ServiceInv'
<1> USE DEF ServiceInv
<1>1. /\ UNCHANGED <<log, current, running, upTo, sched, outcome>>
      /\ holder = None /\ holder' = r /\ current # None /\ Goto(r, "draining")
      /\ pc[r] = "crashing"
  BY DEF BeginCrash
<1>2. /\ \A q \in Requests : pc'[q] = IF q = r THEN "draining" ELSE pc[q]
      /\ pc' \in [Requests -> SubmitPlaces \cup CrashPlaces \cup RecoveryPlaces]
      /\ \A q \in Submits : pc'[q] = pc[q] /\ pc'[q] \in SubmitPlaces
      /\ \A q \in Crashes : pc'[q] \in CrashPlaces
      /\ \A q \in Recoveries : pc'[q] = pc[q] /\ pc'[q] \in RecoveryPlaces
      /\ Crashes \subseteq Requests /\ Recoveries \subseteq Requests /\ r \in Requests
  <2>1. "draining" \in CrashPlaces /\ r \notin Recoveries /\ r \in Crashes \cup Recoveries
    BY ServiceRequests DEF CrashPlaces
  <2>2. \A q \in Recoveries : q # r /\ q \in Requests
    BY <2>1 DEF Requests
  <2> HIDE DEF ServiceInv
  <2> QED
    BY <1>1, <2>1, <2>2, ManagerMoves
<1>3. /\ \A q \in Requests : pc[q] \notin {"draining", "replaying"}
      /\ current \in 1 .. Len(lives) /\ ~Rebuilding
  BY <1>1, RecoveryFacts DEF TypeOK
<1> DEFINE l == [lives[current] EXCEPT !.cancelled = TRUE]
<1>4. /\ lives[current] \in LifeRecord /\ l \in LifeRecord
      /\ l.known = lives[current].known /\ l.live = lives[current].live
      /\ lives' = [lives EXCEPT ![current] = l]
  <2>1. lives[current] \in LifeRecord
    BY <1>3 DEF TypeOK
  <2>2. lives' = [lives EXCEPT ![current] = l]
    BY DEF BeginCrash
  <2> QED
    BY <2>1, <2>2 DEF LifeRecord
<1> HIDE DEF l
<1>5. /\ lives' \in Seq(LifeRecord) /\ Len(lives') = Len(lives)
      /\ \A i \in 1 .. Len(lives) : /\ lives'[i].live = lives[i].live
                                    /\ lives[i].known \subseteq lives'[i].known
  <2>1. /\ lives' \in Seq(LifeRecord) /\ Len(lives') = Len(lives)
        /\ \A i \in 1 .. Len(lives) : lives'[i] = IF i = current THEN l ELSE lives[i]
    BY <1>3, <1>4, LifeWritten
  <2> QED
    BY <1>3, <1>4, <2>1
<1>6. Rebuilding' = Rebuilding
  BY <1>2 DEF Rebuilding
<1>7. ReadIsLogged' /\ LoggedFirst' /\ AdmittedIsKnown' /\ AdmittedOnce'
  BY <1>1, <1>2, <1>5, <1>6, KnowledgeStays
<1>8. TypeOK' /\ LockHeld' /\ ManagerExact' /\ LastIsLive'
  BY <1>1, <1>2, <1>3, <1>5, <1>6 DEF TypeOK, LockHeld, ManagerExact, LastIsLive, Starting
<1> QED
  BY <1>7, <1>8

(* SimulateCrash returns.                                                     *)
LEMMA EndCrashInv ==
    ASSUME ServiceInv, NEW r \in Crashes, EndCrash(r)
    PROVE  ServiceInv'
<1> USE DEF ServiceInv
<1>1. /\ UNCHANGED <<log, lives, upTo, sched, outcome>>
      /\ holder' = None /\ current' = None /\ ~running' /\ running' = FALSE
      /\ Goto(r, "crashed") /\ pc[r] = "draining" /\ ~lives[current].live
  BY DEF EndCrash, Drained
<1>2. /\ \A q \in Requests : pc'[q] = IF q = r THEN "crashed" ELSE pc[q]
      /\ pc' \in [Requests -> SubmitPlaces \cup CrashPlaces \cup RecoveryPlaces]
      /\ \A q \in Submits : pc'[q] = pc[q] /\ pc'[q] \in SubmitPlaces
      /\ \A q \in Crashes : pc'[q] \in CrashPlaces
      /\ \A q \in Recoveries : pc'[q] = pc[q] /\ pc'[q] \in RecoveryPlaces
      /\ Crashes \subseteq Requests /\ Recoveries \subseteq Requests /\ r \in Requests
  <2>1. "crashed" \in CrashPlaces /\ r \notin Recoveries /\ r \in Crashes \cup Recoveries
    BY ServiceRequests DEF CrashPlaces
  <2>2. \A q \in Recoveries : q # r /\ q \in Requests
    BY <2>1 DEF Requests
  <2> HIDE DEF ServiceInv
  <2> QED
    BY <1>1, <2>1, <2>2, ManagerMoves
<1>3. /\ \A q \in Requests : q # r => pc[q] \notin {"draining", "replaying"}
      /\ current # None /\ ~Rebuilding
  BY <1>1, <1>2, RecoveryFacts DEF LockHeld, ManagerExact
<1>4. Rebuilding' = Rebuilding
  BY <1>2 DEF Rebuilding
<1>5. ReadIsLogged' /\ LoggedFirst' /\ AdmittedIsKnown' /\ AdmittedOnce'
  BY <1>1, <1>2, <1>4, KnowledgeStays
<1>6. TypeOK' /\ LockHeld' /\ ManagerExact'
  BY <1>1, <1>2, <1>3 DEF TypeOK, LockHeld, ManagerExact, Starting
<1>7. LastIsLive'
  BY <1>1, <1>3 DEF LastIsLive
<1> QED
  BY <1>5, <1>6, <1>7

(* Manager.Start takes the lock and makes a scheduler that knows nothing yet: *)
(* whatever was admitted is in the log that it reads.                         *)
LEMMA BeginStartInv ==
    ASSUME ServiceInv, NEW r \in Recoveries, BeginStart(r)
    PROVE  ServiceInv'
<1> USE DEF ServiceInv
<1>1. /\ UNCHANGED <<log, current, running, sched, outcome>>
      /\ holder = None /\ holder' = r /\ Goto(r, "replaying") /\ pc[r] = "recovering"
      /\ lives' = Append(lives, NewLife)
      /\ upTo' = [read |-> Len(log), replayed |-> 0]
  BY DEF BeginStart
<1>2. /\ \A q \in Requests : pc'[q] = IF q = r THEN "replaying" ELSE pc[q]
      /\ pc' \in [Requests -> SubmitPlaces \cup CrashPlaces \cup RecoveryPlaces]
      /\ \A q \in Submits : pc'[q] = pc[q] /\ pc'[q] \in SubmitPlaces
      /\ \A q \in Crashes : pc'[q] \in CrashPlaces
      /\ \A q \in Recoveries : pc'[q] \in RecoveryPlaces
      /\ Crashes \subseteq Requests /\ Recoveries \subseteq Requests /\ r \in Requests
      /\ r \notin Crashes
  <2>1. "replaying" \in RecoveryPlaces /\ r \notin Crashes /\ r \in Crashes \cup Recoveries
    BY ServiceRequests DEF RecoveryPlaces
  <2> HIDE DEF ServiceInv
  <2> QED
    BY <1>1, <2>1, ManagerMoves
<1>3. /\ \A q \in Requests : pc[q] \notin {"draining", "replaying"}
      /\ ~Rebuilding /\ current = None
  BY <1>1, RecoveryFacts DEF ManagerExact, Starting
<1>4. /\ lives' \in Seq(LifeRecord) /\ Len(lives) \in Nat /\ Len(lives') = Len(lives) + 1
      /\ \A s \in 1 .. Len(lives) : lives'[s] = lives[s]
  <2>1. NewLife \in LifeRecord
    BY DEF NewLife, LifeRecord
  <2> QED
    BY <1>1, <2>1 DEF TypeOK
<1>5. Rebuilding' /\ \A s : Published(s)' <=> Published(s)
  <2>1. Rebuilding'
    BY <1>2 DEF Rebuilding
  <2>2. \A s : s \in 1 .. Len(lives') /\ s # Len(lives') <=> s \in 1 .. Len(lives)
    BY <1>4
  <2> QED
    BY <1>3, <2>1, <2>2 DEF Published
<1>6. Len(log) \in Nat /\ upTo'.read = Len(log) /\ upTo'.replayed = 0
  BY <1>1 DEF TypeOK
<1>7. TypeOK' /\ LockHeld' /\ ManagerExact'
  <2>1. TypeOK'
    BY <1>1, <1>2, <1>3, <1>4, <1>6 DEF TypeOK
  <2>2. LockHeld'
    BY <1>1, <1>2, <1>3 DEF LockHeld
  <2>3. ManagerExact'
    BY <1>1, <1>2, <1>3 DEF ManagerExact, Starting
  <2> QED
    BY <2>1, <2>2, <2>3
<1>8. LastIsLive'
  <2>1. \A s \in 1 .. Len(lives) : ~lives[s].live
    BY <1>3, ServiceRequests DEF LastIsLive, TypeOK
  <2>2. ASSUME NEW s \in 1 .. Len(lives'), s # Len(lives')
        PROVE  ~lives'[s].live
    <3>1. s \in 1 .. Len(lives)
      BY <1>4, <2>2
    <3> QED
      BY <1>4, <2>1, <3>1
  <2> QED
    BY <1>5, <2>2 DEF LastIsLive
<1>9. ReadIsLogged' /\ LoggedFirst' /\ AdmittedOnce'
  BY <1>1, <1>2, <1>5, <1>6 DEF ReadIsLogged, LoggedFirst, AdmittedOnce
<1>10. AdmittedIsKnown'
  <2>1. ASSUME NEW q \in Submits, outcome[q] = "admitted",
               NEW s \in 1 .. Len(lives'), sched[q] <= s, Published(s)
        PROVE  Batch[q] \in lives'[s].known
    <3>1. s \in 1 .. Len(lives) /\ lives'[s] = lives[s]
      BY <1>4, <2>1 DEF Published
    <3> QED
      BY <2>1, <3>1 DEF AdmittedIsKnown
  <2>2. ASSUME NEW q \in Submits, outcome[q] = "admitted"
        PROVE  \E k \in 1 .. Len(log) : log[k] = Batch[q] /\ ~(k <= 0)
    BY <2>2 DEF LoggedFirst
  <2> QED
    BY <1>1, <1>5, <1>6, <2>1, <2>2 DEF AdmittedIsKnown
<1> QED
  BY <1>7, <1>8, <1>9, <1>10

(* One INGEST record after another.                                           *)
LEMMA ReplayIngestInv ==
    ASSUME ServiceInv, NEW r \in Recoveries, ReplayIngest(r)
    PROVE  ServiceInv'
<1> USE DEF ServiceInv
<1> DEFINE s == Len(lives)
           n == upTo.replayed + 1
           b == log[n]
<1>1. /\ UNCHANGED <<log, current, running, holder, pc, sched, outcome>>
      /\ pc[r] = "replaying" /\ upTo.replayed # upTo.read
      /\ upTo' = [upTo EXCEPT !.replayed = @ + 1]
      /\ lives' = IF Admits(s, b) THEN Taken(s, b) ELSE lives
  BY DEF ReplayIngest, ReplayEnds
<1>2. Rebuilding /\ Rebuilding'
  BY <1>1 DEF Rebuilding
<1>3. /\ upTo.read \in Nat /\ upTo.replayed \in Nat /\ Len(log) \in Nat
      /\ upTo.replayed <= upTo.read /\ upTo.read <= Len(log)
      /\ upTo'.read = upTo.read /\ upTo'.replayed = n /\ n \in 1 .. upTo.read
      /\ upTo' \in [read : Nat, replayed : Nat]
      /\ n \in 1 .. Len(log)
  BY <1>1, <1>2 DEF TypeOK, ReadIsLogged
<1>4. s \in 1 .. Len(lives) /\ lives[s] \in LifeRecord /\ b \in Batches
  BY <1>3 DEF TypeOK
<1> DEFINE l == [lives[s] EXCEPT !.known = @ \cup {b}, !.queue = @ + 1]
<1>5. /\ l \in LifeRecord /\ l.known = lives[s].known \cup {b} /\ l.live = lives[s].live
  <2>1. lives[s].queue + 1 \in Nat /\ lives[s].known \cup {b} \in SUBSET Batches
    BY <1>4 DEF LifeRecord
  <2> QED
    BY <1>4, <2>1 DEF LifeRecord
<1>6. \/ lives' = lives /\ b \in lives[s].known
      \/ lives' = [lives EXCEPT ![s] = l]
  BY <1>1 DEF Admits, Taken
<1> HIDE DEF l, s, b, n
<1>7. /\ lives' \in Seq(LifeRecord) /\ Len(lives') = Len(lives)
      /\ \A i \in 1 .. Len(lives) : /\ lives'[i].live = lives[i].live
                                    /\ lives[i].known \subseteq lives'[i].known
      /\ b \in lives'[s].known
  <2>1. CASE lives' = lives /\ b \in lives[s].known
    BY <2>1 DEF TypeOK
  <2>2. CASE lives' = [lives EXCEPT ![s] = l]
    <3>1. /\ lives' \in Seq(LifeRecord) /\ Len(lives') = Len(lives)
          /\ \A i \in 1 .. Len(lives) : lives'[i] = IF i = s THEN l ELSE lives[i]
      BY <1>4, <1>5, <2>2, LifeWritten
    <3> QED
      BY <1>4, <1>5, <3>1
  <2> QED
    BY <1>6, <2>1, <2>2
<1>8. \A i : Published(i)' = Published(i)
  BY <1>2, <1>7 DEF Published
<1>9. TypeOK' /\ LockHeld' /\ ManagerExact' /\ LastIsLive'
  BY <1>1, <1>2, <1>3, <1>7 DEF TypeOK, LockHeld, ManagerExact, LastIsLive, Starting
<1>10. ReadIsLogged' /\ LoggedFirst' /\ AdmittedOnce'
  BY <1>1, <1>2, <1>3, <1>8 DEF ReadIsLogged, LoggedFirst, AdmittedOnce
<1>11. AdmittedIsKnown'
  <2>1. ASSUME NEW q \in Submits, outcome[q] = "admitted"
        PROVE  \E k \in 1 .. upTo.read :
                 log[k] = Batch[q] /\ (k <= n => Batch[q] \in lives'[s].known)
    <3>1. PICK k \in 1 .. upTo.read :
            log[k] = Batch[q] /\ (k <= upTo.replayed => Batch[q] \in lives[s].known)
      BY <1>2, <2>1 DEF AdmittedIsKnown, s
    <3>2. CASE k = n
      BY <1>7, <3>1, <3>2 DEF b
    <3>3. CASE k # n
      <4>1. k <= n => k <= upTo.replayed
        BY <1>3, <3>3 DEF n
      <4> QED
        BY <1>4, <1>7, <3>1, <4>1
    <3> QED
      BY <3>2, <3>3
  <2> QED
    BY <1>1, <1>2, <1>3, <1>7, <1>8, <2>1 DEF AdmittedIsKnown, s
<1> QED
  BY <1>9, <1>10, <1>11

(* Manager.Start returns: the scheduler it has built knows the whole log that *)
(* it has read, and no other recovery waits for the lock.                     *)
LEMMA EndStartInv ==
    ASSUME ServiceInv, RecoveriesApart, NEW r \in Recoveries, EndStart(r)
    PROVE  ServiceInv'
<1> USE DEF ServiceInv
<1>1. /\ UNCHANGED <<log, lives, upTo, sched, outcome>>
      /\ holder' = None /\ current' = Len(lives) /\ running' = TRUE
      /\ Goto(r, "recovered") /\ pc[r] = "replaying" /\ upTo.replayed = upTo.read
  BY DEF EndStart, ReplayEnds
<1>2. /\ \A q \in Requests : pc'[q] = IF q = r THEN "recovered" ELSE pc[q]
      /\ pc' \in [Requests -> SubmitPlaces \cup CrashPlaces \cup RecoveryPlaces]
      /\ \A q \in Submits : pc'[q] = pc[q] /\ pc'[q] \in SubmitPlaces
      /\ \A q \in Crashes : pc'[q] \in CrashPlaces
      /\ \A q \in Recoveries : pc'[q] \in RecoveryPlaces
      /\ Crashes \subseteq Requests /\ Recoveries \subseteq Requests /\ r \in Requests
      /\ r \notin Crashes
  <2>1. "recovered" \in RecoveryPlaces /\ r \notin Crashes /\ r \in Crashes \cup Recoveries
    BY ServiceRequests DEF RecoveryPlaces
  <2> HIDE DEF ServiceInv
  <2> QED
    BY <1>1, <2>1, ManagerMoves
<1>3. \A q \in Requests : q # r => pc[q] \notin {"draining", "replaying"}
  BY <1>1, <1>2 DEF LockHeld
<1>4. Rebuilding /\ ~Rebuilding'
  BY <1>1, <1>2, <1>3 DEF Rebuilding
<1>5. Len(lives) \in 1 .. Len(lives) /\ None \notin Nat /\ Len(lives) \in Nat
  BY ServiceRequests DEF TypeOK
<1>6. \A s \in 1 .. Len(lives) : Published(s)'
  BY <1>1, <1>4 DEF Published
<1>7. TypeOK' /\ LockHeld'
  BY <1>1, <1>2, <1>3, <1>5 DEF TypeOK, LockHeld
<1>8. ManagerExact'
  <2>1. \A q \in Recoveries : ~Starting(q)'
    BY <1>1, <1>2 DEF Starting, RecoveriesApart
  <2>2. \A q \in Crashes : pc'[q] # "draining"
    BY <1>2, <1>3
  <2> QED
    BY <1>1, <1>5, <2>1, <2>2 DEF ManagerExact
<1>9. LastIsLive' /\ ReadIsLogged' /\ AdmittedOnce'
  BY <1>1, <1>4 DEF LastIsLive, ReadIsLogged, AdmittedOnce
<1>10. LoggedFirst'
  BY <1>1, <1>2, <1>6 DEF LoggedFirst, Published
<1>11. AdmittedIsKnown'
  <2>1. ASSUME NEW q \in Submits, outcome[q] = "admitted",
               NEW s \in 1 .. Len(lives), sched[q] <= s
        PROVE  Batch[q] \in lives[s].known
    <3>1. CASE s = Len(lives)
      BY <1>1, <1>4, <2>1, <3>1 DEF AdmittedIsKnown, TypeOK
    <3>2. CASE s # Len(lives)
      BY <2>1, <3>2 DEF AdmittedIsKnown, Published
    <3> QED
      BY <3>1, <3>2
  <2> QED
    BY <1>1, <1>4, <2>1 DEF AdmittedIsKnown
<1> QED
  BY <1>7, <1>8, <1>9, <1>10, <1>11

-----------------------------------------------------------------------------
(* The theorems                                                               *)

LEMMA InitService == Init => ServiceInv
<1> SUFFICES ASSUME Init
             PROVE  ServiceInv
  OBVIOUS
<1>1. NewLife \in LifeRecord /\ NewLife.known = {}
  BY DEF NewLife, LifeRecord
<1>2. /\ log = << >> /\ log \in Seq(Batches) /\ Len(log) = 0
      /\ lives \in Seq(LifeRecord) /\ Len(lives) = 1
      /\ current = 1 /\ running = TRUE /\ holder = None
      /\ upTo \in [read : Nat, replayed : Nat]
      /\ pc \in [Requests -> {"start"}] /\ sched \in [Submits -> {None}]
      /\ outcome \in [Submits -> {"none"}]
      /\ Submits \subseteq Requests /\ Crashes \subseteq Requests /\ Recoveries \subseteq Requests
  BY <1>1 DEF Init, Requests
<1>3. TypeOK
  BY <1>2 DEF TypeOK, SubmitPlaces, CrashPlaces, RecoveryPlaces
<1>4. ~Rebuilding /\ \A r \in Recoveries : ~Starting(r)
  BY <1>2 DEF Rebuilding, Starting
<1>5. LockHeld /\ ManagerExact /\ LastIsLive /\ ReadIsLogged
  BY <1>2, <1>4, ServiceRequests DEF LockHeld, ManagerExact, LastIsLive, ReadIsLogged
<1>6. LoggedFirst /\ AdmittedIsKnown /\ AdmittedOnce
  BY <1>2 DEF LoggedFirst, AdmittedIsKnown, AdmittedOnce
<1> QED
  BY <1>3, <1>5, <1>6 DEF ServiceInv

LEMMA NextService == ServiceInv /\ RecoveriesApart /\ [Next]_vars => ServiceInv'
<1> SUFFICES ASSUME ServiceInv, RecoveriesApart, [Next]_vars
             PROVE  ServiceInv'
  OBVIOUS
<1>1. ASSUME NEW r \in Submits, Submission(r)
      PROVE  ServiceInv'
  BY <1>1, SubmissionInv, ReadSchedulerInv, IngestInv DEF Submission
<1>2. ASSUME NEW r \in Crashes, CrashRequest(r)
      PROVE  ServiceInv'
  BY <1>2, LooksInv, BeginCrashInv, EndCrashInv DEF CrashRequest
<1>3. ASSUME NEW r \in Recoveries, RecoveryRequest(r)
      PROVE  ServiceInv'
  BY <1>3, LooksInv, BeginStartInv, ReplayIngestInv, EndStartInv DEF RecoveryRequest
<1>4. ASSUME NEW s \in DOMAIN lives, Pop(s) \/ Stop(s)
      PROVE  ServiceInv'
  BY <1>4, SchedulerInv
<1>5. CASE UNCHANGED vars
  BY <1>5 DEF vars, manager, ServiceInv, TypeOK, LockHeld, ManagerExact, LastIsLive, ReadIsLogged,
              LoggedFirst, AdmittedIsKnown, AdmittedOnce, Published, Rebuilding, Starting
<1> QED
  BY <1>1, <1>2, <1>3, <1>4, <1>5 DEF Next

(* The manager's lock, its one look at running and the log keep the           *)
(* schedulers apart and in agreement, if no two recoveries overlap.           *)
THEOREM ServiceInvariance == Spec /\ []RecoveriesApart => []ServiceInv
BY InitService, NextService, PTL DEF Spec

(* There is never a second scheduler at work beside the first, while no two   *)
(* recoveries overlap (Manager.Start, SimulateCrash).                         *)
THEOREM OneAtATime == Spec /\ []RecoveriesApart => []OneScheduler
<1>1. ServiceInv => OneScheduler
  <2> SUFFICES ASSUME ServiceInv
               PROVE  OneScheduler
    OBVIOUS
  <2> DEFINE works == {s \in DOMAIN lives : lives[s].live}
  <2>1. \A s \in works : s = Len(lives)
    BY DEF ServiceInv, TypeOK, LastIsLive
  <2>2. works = {} \/ works = {Len(lives)}
    BY <2>1
  <2>3. Cardinality({}) = 0 /\ Cardinality({Len(lives)}) = 1
    BY FS_EmptySet, FS_Singleton
  <2>4. Cardinality(works) <= 1
    <3> HIDE DEF works
    <3>1. Cardinality(works) = 0 \/ Cardinality(works) = 1
      BY ONLY <2>2, <2>3
    <3> QED
      BY <3>1
  <2> QED
    BY <2>4 DEF OneScheduler
<1> QED
  BY <1>1, ServiceInvariance, PTL

(* A batch is accepted once, whatever requests bring it and whatever crashes  *)
(* and recoveries lie between them (handleSubmitDAG, Ingest).                 *)
THEOREM AcceptedOnceOnly == Spec /\ []RecoveriesApart => []AcceptedOnce
<1>1. ServiceInv => AcceptedOnce
  BY DEF ServiceInv, LoggedFirst, AdmittedOnce, AcceptedOnce
<1> QED
  BY <1>1, ServiceInvariance, PTL

(* What was accepted is in the log, and the scheduler that the manager has    *)
(* knows it, even when it was another one that took it (handleRecover).       *)
THEOREM AcceptedStaysKnown == Spec /\ []RecoveriesApart => []AcceptedIsKnown
<1>1. ServiceInv => AcceptedIsKnown
  <2> SUFFICES ASSUME ServiceInv, NEW r \in Submits, pc[r] = "accepted"
               PROVE  /\ \E k \in DOMAIN log : log[k] = Batch[r]
                      /\ current # None => Batch[r] \in lives[current].known
    BY DEF AcceptedIsKnown
  <2>1. /\ outcome[r] = "admitted" /\ sched[r] # None /\ Published(sched[r])
        /\ \E k \in 1 .. Len(log) : log[k] = Batch[r]
    BY DEF ServiceInv, LoggedFirst
  <2>2. ASSUME current # None
        PROVE  Batch[r] \in lives[current].known
    <3>1. Published(current) /\ current = Len(lives) /\ current \in 1 .. Len(lives)
      BY <2>2, RecoveryFacts DEF Published
    <3>2. sched[r] <= current
      BY <2>1, <3>1 DEF Published
    <3> QED
      BY <2>1, <3>1, <3>2 DEF ServiceInv, AdmittedIsKnown
  <2> QED
    BY <2>1, <2>2 DEF ServiceInv, TypeOK
<1> QED
  BY <1>1, ServiceInvariance, PTL
=============================================================================
