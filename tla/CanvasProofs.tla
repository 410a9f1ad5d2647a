------------------------------ MODULE CanvasProofs ------------------------------
(* What the canvas shows is so, for any graph, any number of submissions and  *)
(* snapshot requests that overlap, and any order in which their answers, the  *)
(* events and the timers of a cascade arrive. Two arguments. Everything that  *)
(* may still reach the canvas (an event, a timer, a snapshot, the picture a   *)
(* submission keeps) speaks of something the scheduler has done and never     *)
(* undoes. And a task about which nothing is on its way is shown as it is,    *)
(* on the canvas and in every picture that may come back.                     *)
EXTENDS Canvas, TLAPS, SequenceTheorems, FunctionTheorems, FiniteSetTheorems,
        WellFoundedInduction

-----------------------------------------------------------------------------
(* The invariant                                                              *)

TaskStates == {"none", "pending", "running", "completed", "failed"}
NodeStates == {"pending", "running", "completed", "failed", "retrying", "cascade-failed"}
EdgeStyles == {"idle", "active", "complete", "crash"}
TaskTypes == {"started", "completed", "failed", "retry"}
Pictures ==
    [gen : 0 .. MaxSubmits, node : [Names -> NodeStates], edge : [Edges -> EdgeStyles]]
Events ==
    [type : TaskTypes, id : Ids, tasks : {{}}]
    \cup [type : {"cascade"}, id : Ids, tasks : SUBSET Ids]
    \cup [type : {"system"}, id : {<<"crash", 0>>, <<"recover", 0>>}, tasks : {{}}]
Submissions ==
    [at : {"idle", "asked", "accepted", "refused"}, gen : 0 .. MaxSubmits, saved : Pictures]
Snapshots == [Ids -> TaskStates]
Requests ==
    [at : {"idle", "asked", "failed"}, then : BOOLEAN, snap : {<<>>}, moved : {{}}]
    \cup [at : {"answered"}, then : BOOLEAN, snap : Snapshots, moved : SUBSET Ids]

CanvasTypeOK ==
    /\ canvas \in Pictures /\ killed \in SUBSET Ids /\ timers \in SUBSET Ids
    /\ submit \in [Submits -> Submissions] /\ fetch \in [Fetches -> Requests]
    /\ wire \in Seq(Events) /\ connected \in BOOLEAN
    /\ task \in [Ids -> TaskStates] /\ retries \in [Ids -> Nat] /\ running \in BOOLEAN
    /\ gens \in 0 .. MaxSubmits /\ dirty \in SUBSET Ids

(* No two pictures bear the same suffix; a batch reaches the scheduler as a   *)
(* whole, and one that has not been served is new to it.                      *)
Kept(s) == submit[s].at # "idle"
SuffixesOK ==
    /\ canvas.gen <= gens
    /\ \A s \in Submits : submit[s].gen <= gens /\ submit[s].saved.gen <= gens
    /\ \A s \in Submits : Kept(s) => submit[s].saved.gen = 0 \/ submit[s].saved.gen # canvas.gen
    /\ \A s, u \in Submits :
          Kept(s) /\ Kept(u) /\ submit[s].saved.gen = submit[u].saved.gen
              => submit[s].saved.gen = 0 \/ s = u
    /\ \A s, u \in Submits :
          submit[s].at = "asked" /\ submit[u].at = "asked" /\ submit[s].gen = submit[u].gen => s = u
BatchesOK ==
    /\ \A i \in Ids : task[i] # "none" => i[2] <= gens
    /\ \A i, j \in Ids : task[i] # "none" /\ i[2] = j[2] => task[j] # "none"
    /\ \A s \in Submits, i \in Ids :
          submit[s].at = "asked" /\ submit[s].gen = i[2] => task[i] = "none"

(* The scheduler starts what has its dependencies completed.                  *)
DepsDone(i, st) == \A d \in Deps(i) : st[d] = "completed"
DepsOK == \A i \in Ids : task[i] \in {"running", "completed"} => DepsDone(i, task)

(* What a status shown says of the scheduler, and never ceases to be true.    *)
Real(i, shown, st) ==
    shown # "pending" =>
        /\ i \in Ids /\ st[i] # "none"
        /\ shown = "completed" => st[i] = "completed"
        /\ shown \in {"failed", "cascade-failed"} => st[i] = "failed"
        /\ shown = "running" => DepsDone(i, st)
PictureReal(p, st) ==
    /\ \A n \in Names : Real(<<n, p.gen>>, p.node[n], st)
    /\ \A e \in Edges :
          p.edge[e] = "complete" => <<e[1], p.gen>> \in Ids /\ st[<<e[1], p.gen>>] = "completed"
EventReal(e, st) ==
    /\ e.type \in TaskTypes => Real(e.id, StatusOf(e.type), st)
    /\ \A i \in e.tasks : st[i] = "failed"
SnapshotReal(snap, st) ==
    \A i \in Ids : snap[i] # "none" => st[i] # "none" /\ Real(i, snap[i], st)
AllReal ==
    /\ PictureReal(canvas, task)
    /\ \A s \in Submits : Kept(s) => PictureReal(submit[s].saved, task)
    /\ \A k \in 1 .. Len(wire) : EventReal(wire[k], task)
    /\ \A f \in Fetches : fetch[f].at = "answered" => SnapshotReal(fetch[f].snap, task)
    /\ \A i \in timers \cup killed : task[i] = "failed"

(* Of the events about a task, the last on the wire agrees with the scheduler.*)
Coming(i, w) == \E k \in 1 .. Len(w) : i \in About(w[k])
LastAbout(i, k, w) == i \in About(w[k]) /\ \A j \in k + 1 .. Len(w) : i \notin About(w[j])
Said(e) ==
    CASE e.type = "started" -> "running" [] e.type = "completed" -> "completed"
      [] e.type = "retry" -> "pending" [] OTHER -> "failed"
WireOK ==
    connected =>
        /\ ~running => wire = <<>>
        /\ \A i \in Ids, k \in 1 .. Len(wire) : LastAbout(i, k, wire) => task[i] = Said(wire[k])

(* A picture agrees on each task of which nothing is on its way, or missed;   *)
(* so does the answer of a request, on the tasks of a picture.                *)
PictureAgrees(p) ==
    \A i \in Ids :
        (i[2] = p.gen /\ task[i] # "none" /\ ~Coming(i, wire) /\ i \notin dirty \cup timers)
            => Agrees(p.node[i[1]], task[i])
Pictured(i) == i[2] = canvas.gen \/ Superseded(i)
AnswerAgrees(a) ==
    \A i \in Ids :
        (Pictured(i) /\ a.snap[i] # "none" /\ ~Coming(i, wire) /\ i \notin a.moved \cup timers)
            => Agrees(a.snap[i], task[i])
AllAgree ==
    /\ PictureAgrees(canvas)
    /\ \A s \in Submits : Kept(s) => PictureAgrees(submit[s].saved)
    /\ \A f \in Fetches : fetch[f].at = "answered" => AnswerAgrees(fetch[f])

CanvasInv ==
    /\ CanvasTypeOK /\ SuffixesOK /\ BatchesOK /\ DepsOK /\ AllReal /\ WireOK /\ AllAgree

-----------------------------------------------------------------------------
(* Induction over the naturals, with sets, and what a cascade reaches         *)

(* A set of naturals that is not empty has a least element.                   *)
LEMMA Least ==
    ASSUME NEW S \in SUBSET Nat, S # {}
    PROVE  \E m \in S : \A n \in S : m <= n
<1> DEFINE R == OpToRel(<, Nat)
<1>1. IsWellFoundedOn(R, Nat)
  BY NatLessThanWellFounded
<1>2. \A x, y \in Nat : x < y => <<x, y>> \in R
  BY DEF OpToRel
<1> HIDE DEF R
<1>3. PICK m \in S : \A n \in S : ~(<<n, m>> \in R)
  BY <1>1, WFMin
<1>4. \A n \in S : m <= n
  <2> TAKE n \in S
  <2>1. m \in Nat /\ n \in Nat /\ ~(n < m)
    BY <1>2, <1>3
  <2> QED BY <2>1
<1> QED
  BY <1>4

(* A set that holds 0 and the successor of each natural in it holds them all. *)
LEMMA SetInduction ==
    ASSUME NEW S, 0 \in S, \A n \in Nat : n \in S => n + 1 \in S
    PROVE  Nat \subseteq S
<1> DEFINE Out == {n \in Nat : n \notin S}
<1> SUFFICES ASSUME Out # {} PROVE FALSE
  OBVIOUS
<1>1. PICK m \in Out : \A n \in Out : m <= n
  BY Least
<1>2. m # 0 /\ m - 1 \in Nat /\ m - 1 \notin Out
  BY <1>1
<1> QED
  BY <1>1, <1>2

(* The dependencies of a task were submitted with it.                         *)
LEMMA DepsAreIds ==
    ASSUME NEW i \in Ids
    PROVE  /\ i[1] \in Names /\ i[2] \in 1 .. MaxSubmits /\ i = <<i[1], i[2]>>
           /\ Deps(i) \subseteq Ids /\ \A d \in Deps(i) : d[2] = i[2]
BY CanvasBounds DEF Ids, Deps

(* The function that a cascade computes exists, so it is what its definition  *)
(* says: the task, and whoever depends on what is reached already.            *)
LEMMA DownstreamInduction ==
    ASSUME NEW i \in Ids, NEW Closed, i \in Closed,
           \A j \in Ids : Deps(j) \cap Closed # {} => j \in Closed
    PROVE  i \in Downstream(i) /\ Downstream(i) \subseteq Closed /\ Downstream(i) \subseteq Ids
<1> DEFINE N == Cardinality(Names)
           After(S) == S \cup {j \in Ids : Deps(j) \cap S # {}}
           Good(f, n) ==
               /\ f \in [0 .. n -> SUBSET Ids] /\ f[0] = {i}
               /\ \A k \in 1 .. n : f[k] = After(f[k - 1])
           Some == {n \in Nat : \E f \in [0 .. n -> SUBSET Ids] : Good(f, n)}
           Is(g) == g = [k \in 0 .. N |->
                            IF k = 0 THEN {i}
                            ELSE g[k-1] \cup {j \in Ids : Deps(j) \cap g[k-1] # {}}]
           Reach == CHOOSE g : Is(g)
<1>1. N \in Nat
  BY CanvasBounds, FS_CardinalityType
<1>2. 0 \in Some
  <2>1. Good([k \in 0 .. 0 |-> {i}], 0)
    OBVIOUS
  <2> QED BY <2>1
<1>3. \A n \in Nat : n \in Some => n + 1 \in Some
  <2> SUFFICES ASSUME NEW n \in Nat, NEW f \in [0 .. n -> SUBSET Ids], Good(f, n)
               PROVE  n + 1 \in Some
    OBVIOUS
  <2> DEFINE g == [k \in 0 .. n + 1 |-> IF k = n + 1 THEN After(f[n]) ELSE f[k]]
  <2>1. g \in [0 .. n + 1 -> SUBSET Ids]
    OBVIOUS
  <2>2. g[0] = {i} /\ \A k \in 1 .. n + 1 : g[k] = After(g[k - 1])
    OBVIOUS
  <2>3. n + 1 \in Nat /\ Good(g, n + 1)
    BY <2>1, <2>2
  <2> HIDE DEF Good
  <2> QED BY <2>1, <2>3
<1>4. PICK f \in [0 .. N -> SUBSET Ids] : Good(f, N)
  BY <1>1, <1>2, <1>3, SetInduction
<1>5. Is(f)
  BY <1>1, <1>4
<1>6. Is(Reach)
  <2> HIDE DEF Is
  <2> QED BY <1>5, Zenon
<1>7. Downstream(i) = Reach[N]
  BY DEF Downstream
<1> HIDE DEF Reach
<1> DEFINE Within == {n \in Nat : n \in 0 .. N =>
                        i \in Reach[n] /\ Reach[n] \subseteq Closed /\ Reach[n] \subseteq Ids}
<1>8. 0 \in Within
  BY <1>1, <1>6
<1>9. \A n \in Nat : n \in Within => n + 1 \in Within
  <2> SUFFICES ASSUME NEW n \in Nat, n \in Within, n + 1 \in 0 .. N
               PROVE  /\ i \in Reach[n + 1]
                      /\ Reach[n + 1] \subseteq Closed /\ Reach[n + 1] \subseteq Ids
    OBVIOUS
  <2>1. n \in 0 .. N /\ n + 1 # 0 /\ (n + 1) - 1 = n
    BY <1>1
  <2>2. Reach[n + 1] = Reach[n] \cup {j \in Ids : Deps(j) \cap Reach[n] # {}}
    BY <1>6, <2>1
  <2>3. i \in Reach[n] /\ Reach[n] \subseteq Closed /\ Reach[n] \subseteq Ids
    BY <2>1
  <2> QED BY <2>2, <2>3
<1>10. N \in Within
  BY <1>1, <1>8, <1>9, SetInduction
<1> QED BY <1>1, <1>7, <1>10

-----------------------------------------------------------------------------
(* What a step of the scheduler leaves behind                                 *)

(* What has completed or failed stays so, and a task stays known.             *)
Later(st, su) ==
    /\ \A i \in Ids : st[i] = "none" <=> su[i] = "none"
    /\ \A i \in Ids : st[i] \in {"completed", "failed"} => su[i] = st[i]

(* Whatever changes is on its way to the page, or noted as missed.            *)
Traced ==
    /\ \A i \in Ids : (~Coming(i, wire') /\ i \notin dirty') =>
          ~Coming(i, wire) /\ i \notin dirty /\ task'[i] = task[i]
    /\ \A f \in Fetches : fetch[f].at # "answered" => fetch'[f] = fetch[f]
    /\ \A f \in Fetches : fetch[f].at = "answered" =>
          /\ fetch'[f].at = "answered" /\ fetch'[f].snap = fetch[f].snap
          /\ \A i \in Ids : (~Coming(i, wire') /\ i \notin fetch'[f].moved) =>
                ~Coming(i, wire) /\ i \notin fetch[f].moved /\ task'[i] = task[i]

(* What was real stays real while no task is forgotten and no outcome is      *)
(* undone.                                                                    *)
LEMMA RealStays ==
    ASSUME NEW st \in Snapshots, NEW su \in Snapshots,
           \A i \in Ids : st[i] # "none" => su[i] # "none",
           \A i \in Ids : st[i] \in {"completed", "failed"} => su[i] = st[i]
    PROVE  /\ \A i, shown : Real(i, shown, st) => Real(i, shown, su)
           /\ \A i \in Ids : DepsDone(i, st) => DepsDone(i, su)
           /\ \A p \in Pictures : PictureReal(p, st) => PictureReal(p, su)
           /\ \A e \in Events : EventReal(e, st) => EventReal(e, su)
           /\ \A snap \in Snapshots : SnapshotReal(snap, st) => SnapshotReal(snap, su)
<1>1. \A i \in Ids : DepsDone(i, st) => DepsDone(i, su)
  BY DepsAreIds DEF DepsDone
<1>2. \A i, shown : Real(i, shown, st) => Real(i, shown, su)
  BY <1>1 DEF Real
<1>3. \A p \in Pictures : PictureReal(p, st) => PictureReal(p, su)
  BY <1>2 DEF PictureReal
<1>4. \A e \in Events : EventReal(e, st) => EventReal(e, su)
  <2> TAKE e \in Events
  <2>1. e.tasks \subseteq Ids
    BY DEF Events
  <2> QED BY <1>2, <2>1 DEF EventReal
<1>5. \A snap \in Snapshots : SnapshotReal(snap, st) => SnapshotReal(snap, su)
  BY <1>2 DEF SnapshotReal
<1> QED BY <1>1, <1>2, <1>3, <1>4, <1>5

(* Events are about tasks.                                                    *)
LEMMA AboutIds ==
    ASSUME NEW e \in Events
    PROVE  About(e) \subseteq Ids
BY DEF About, Events, TaskTypes

(* A loss is noted in every snapshot that is under way.                       *)
LEMMA MissTypes ==
    ASSUME CanvasTypeOK, NEW ids \in SUBSET Ids
    PROVE  /\ Moved(ids) \in [Fetches -> Requests]
           /\ \A f \in Fetches : fetch[f].at # "answered" => Moved(ids)[f] = fetch[f]
           /\ \A f \in Fetches : fetch[f].at = "answered" =>
                 /\ Moved(ids)[f].at = "answered" /\ Moved(ids)[f].snap = fetch[f].snap
                 /\ Moved(ids)[f].moved = fetch[f].moved \cup ids
<1> SUFFICES ASSUME NEW f \in Fetches
             PROVE  /\ Moved(ids)[f] \in Requests
                    /\ fetch[f].at # "answered" => Moved(ids)[f] = fetch[f]
                    /\ fetch[f].at = "answered" =>
                          /\ Moved(ids)[f].at = "answered"
                          /\ Moved(ids)[f].snap = fetch[f].snap
                          /\ Moved(ids)[f].moved = fetch[f].moved \cup ids
  BY DEF Moved
<1>1. fetch[f] \in Requests
  BY DEF CanvasTypeOK
<1>2. CASE fetch[f].at = "answered"
  <2>1. fetch[f] \in [at : {"answered"}, then : BOOLEAN, snap : Snapshots, moved : SUBSET Ids]
    BY <1>1, <1>2 DEF Requests
  <2>2. Moved(ids)[f] = [fetch[f] EXCEPT !.moved = fetch[f].moved \cup ids]
    BY <1>2 DEF Moved
  <2> QED BY <1>2, <2>1, <2>2 DEF Requests
<1>3. CASE fetch[f].at # "answered"
  BY <1>1, <1>3 DEF Moved
<1> QED BY <1>2, <1>3

(* What the scheduler says is on the wire, or missed.                         *)
LEMMA EmitTypes ==
    ASSUME CanvasTypeOK, NEW events \in Seq(Events), Emit(events)
    PROVE  /\ wire' \in Seq(Events) /\ dirty' \in SUBSET Ids
           /\ fetch' \in [Fetches -> Requests]
           /\ wire' = IF connected THEN wire \o events ELSE wire
<1> DEFINE ids == UNION {About(events[k]) : k \in 1 .. Len(events)}
<1>1. ids \in SUBSET Ids
  BY AboutIds, ElementOfSeq
<1>2. CASE connected
  BY <1>2, ConcatProperties DEF Emit, CanvasTypeOK
<1>3. CASE ~connected
  <2>1. Miss(ids) /\ wire' = wire
    BY <1>3 DEF Emit
  <2> HIDE DEF ids
  <2> QED BY <1>1, <1>3, <2>1, MissTypes DEF Miss, CanvasTypeOK
<1> QED BY <1>2, <1>3

(* Every change of a task leaves a trace: an event, or a note of its loss.    *)
LEMMA EmitTraced ==
    ASSUME CanvasTypeOK, NEW events \in Seq(Events), Emit(events),
           \A i \in Ids : task'[i] # task[i] => Coming(i, events)
    PROVE  Traced
<1> DEFINE ids == UNION {About(events[k]) : k \in 1 .. Len(events)}
<1>1. ids \in SUBSET Ids /\ \A i \in Ids : i \in ids <=> Coming(i, events)
  BY AboutIds, ElementOfSeq DEF Coming
<1> HIDE DEF ids
<1>2. CASE connected
  <2>1. wire' = wire \o events /\ dirty' = dirty /\ fetch' = fetch
    BY <1>2 DEF Emit
  <2>2. wire \in Seq(Events)
    BY DEF CanvasTypeOK
  <2>3. ASSUME NEW i \in Ids, ~Coming(i, wire') PROVE ~Coming(i, wire) /\ ~Coming(i, events)
    <3>1. ASSUME NEW k \in 1 .. Len(wire) PROVE i \notin About(wire[k])
      <4>1. k \in 1 .. Len(wire') /\ wire'[k] = wire[k]
        BY <2>1, <2>2, ConcatProperties, LenProperties
      <4> QED BY <2>3, <4>1 DEF Coming
    <3>2. ASSUME NEW k \in 1 .. Len(events) PROVE i \notin About(events[k])
      <4>1. Len(wire) + k \in 1 .. Len(wire') /\ wire'[Len(wire) + k] = events[k]
        BY <2>1, <2>2, ConcatProperties, LenProperties
      <4> QED BY <2>3, <4>1 DEF Coming
    <3> QED BY <3>1, <3>2 DEF Coming
  <2> QED BY <2>1, <2>3 DEF Traced
<1>3. CASE ~connected
  <2>1. Miss(ids) /\ wire' = wire
    BY <1>3 DEF Emit, ids
  <2> QED BY <1>1, <2>1, MissTypes DEF Miss, Traced
<1> QED BY <1>2, <1>3

(* What a step of the scheduler, or of its connection to the page, does.      *)
BackendStep ==
    /\ task' \in Snapshots /\ retries' \in [Ids -> Nat] /\ running' \in BOOLEAN
    /\ wire' \in Seq(Events) /\ connected' \in BOOLEAN
    /\ dirty' \in SUBSET Ids /\ fetch' \in [Fetches -> Requests]
    /\ Later(task, task') /\ DepsOK' /\ Traced /\ WireOK'
    /\ \A k \in 1 .. Len(wire') : EventReal(wire'[k], task')
    /\ UNCHANGED <<canvas, killed, timers, submit, gens>>

(* A step of the scheduler that announces what it changes, the truth last,    *)
(* is a step the canvas can follow.                                           *)
LEMMA EmitStep ==
    ASSUME CanvasInv, running, BackendFrame,
           NEW events \in Seq(Events), Emit(events),
           task' \in Snapshots, retries' \in [Ids -> Nat], Later(task, task'), DepsOK',
           \A i \in Ids : task'[i] # task[i] => Coming(i, events),
           \A k \in 1 .. Len(events) : EventReal(events[k], task'),
           \A i \in Ids, k \in 1 .. Len(events) :
               LastAbout(i, k, events) => task'[i] = Said(events[k])
    PROVE  BackendStep
<1>1. CanvasTypeOK /\ WireOK /\ wire \in Seq(Events) /\ task \in Snapshots
  BY DEF CanvasInv, CanvasTypeOK, Snapshots
<1>2. /\ wire' \in Seq(Events) /\ dirty' \in SUBSET Ids /\ fetch' \in [Fetches -> Requests]
      /\ wire' = IF connected THEN wire \o events ELSE wire
  BY <1>1, EmitTypes
<1>3. Traced
  BY <1>1, EmitTraced
<1>4. /\ UNCHANGED <<canvas, killed, timers, submit, gens, running, connected>>
      /\ running' \in BOOLEAN /\ connected' \in BOOLEAN
  BY <1>1 DEF BackendFrame, CanvasTypeOK
<1>5. \A k \in 1 .. Len(wire) : EventReal(wire[k], task')
  <2>1. \A k \in 1 .. Len(wire) : EventReal(wire[k], task) /\ wire[k] \in Events
    BY <1>1, ElementOfSeq DEF CanvasInv, AllReal
  <2>2. /\ \A i \in Ids : task[i] # "none" => task'[i] # "none"
        /\ \A i \in Ids : task[i] \in {"completed", "failed"} => task'[i] = task[i]
    BY DEF Later
  <2>3. \A e \in Events : EventReal(e, task) => EventReal(e, task')
    BY <1>1, <2>2, RealStays
  <2> QED BY <2>1, <2>3
<1>6. \A k \in 1 .. Len(wire') :
         wire'[k] = IF k <= Len(wire) THEN wire[k] ELSE events[k - Len(wire)]
  BY <1>1, <1>2, ConcatProperties, LenProperties
<1>7. Len(wire') = IF connected THEN Len(wire) + Len(events) ELSE Len(wire)
  BY <1>1, <1>2, ConcatProperties
<1>8. Len(wire) \in Nat /\ Len(events) \in Nat
  BY <1>1, LenProperties
<1>9. \A k \in 1 .. Len(wire') : EventReal(wire'[k], task')
  <2> TAKE k \in 1 .. Len(wire')
  <2>1. CASE k <= Len(wire)
    BY <1>5, <1>6, <1>8, <2>1
  <2>2. CASE k > Len(wire)
    <3>1. k - Len(wire) \in 1 .. Len(events)
      BY <1>7, <1>8, <2>2
    <3> QED BY <1>6, <1>8, <2>2, <3>1
  <2> QED BY <1>8, <2>1, <2>2
<1>10. WireOK'
  <2> SUFFICES ASSUME connected, NEW i \in Ids, NEW k \in 1 .. Len(wire'),
                      LastAbout(i, k, wire')
               PROVE  task'[i] = Said(wire'[k])
    BY <1>4 DEF WireOK
  <2>1. \A m \in 1 .. Len(wire) : wire'[m] = wire[m]
    BY <1>6, <1>7, <1>8
  <2>2. \A m \in 1 .. Len(events) : wire'[Len(wire) + m] = events[m]
    BY <1>6, <1>7, <1>8
  <2>3. CASE k <= Len(wire)
    <3>1. k \in 1 .. Len(wire) /\ i \in About(wire[k])
      BY <1>8, <2>1, <2>3 DEF LastAbout
    <3>2. \A j \in k + 1 .. Len(wire) : i \notin About(wire[j])
      BY <1>7, <1>8, <2>1, <2>3 DEF LastAbout
    <3>3. task[i] = Said(wire[k])
      BY <1>1, <3>1, <3>2 DEF WireOK, LastAbout
    <3>4. \A m \in 1 .. Len(events) : i \notin About(events[m])
      <4> TAKE m \in 1 .. Len(events)
      <4>1. Len(wire) + m \in k + 1 .. Len(wire')
        BY <1>7, <1>8, <2>3
      <4> QED BY <2>2, <4>1 DEF LastAbout
    <3>5. task'[i] = task[i]
      BY <3>4 DEF Coming
    <3> QED BY <2>1, <3>1, <3>3, <3>5
  <2>4. CASE k > Len(wire)
    <3> DEFINE m == k - Len(wire)
    <3>1. m \in 1 .. Len(events) /\ Len(wire) + m = k
      BY <1>7, <1>8, <2>4
    <3>2. \A j \in m + 1 .. Len(events) :
             j \in 1 .. Len(events) /\ Len(wire) + j \in k + 1 .. Len(wire')
      BY <1>7, <1>8, <3>1
    <3>3. LastAbout(i, m, events)
      BY <2>2, <3>1, <3>2 DEF LastAbout
    <3> QED BY <2>2, <3>1, <3>3
  <2> QED BY <1>8, <2>3, <2>4
<1> QED BY <1>2, <1>3, <1>4, <1>9, <1>10 DEF BackendStep

(* The four events about one task.                                            *)
LEMMA OneEvent ==
    ASSUME CanvasInv, running, BackendFrame,
           NEW i \in Ids, NEW type \in TaskTypes, Emit(<<TaskEvent(type, i)>>),
           task' \in Snapshots, retries' \in [Ids -> Nat], Later(task, task'), DepsOK',
           \A j \in Ids : task'[j] # task[j] => j = i,
           Real(i, StatusOf(type), task'), task'[i] = Said(TaskEvent(type, i))
    PROVE  BackendStep
<1> DEFINE events == <<TaskEvent(type, i)>>
<1>1. TaskEvent(type, i) \in Events
  BY DEF Events, TaskEvent
<1>2. events \in Seq(Events) /\ Len(events) = 1 /\ events[1] = TaskEvent(type, i)
  BY <1>1
<1>3. About(TaskEvent(type, i)) = {i}
  BY DEF About, TaskEvent, TaskTypes
<1>4. EventReal(TaskEvent(type, i), task')
  BY DEF EventReal, TaskEvent
<1>5. \A j \in Ids : task'[j] # task[j] => Coming(j, events)
  BY <1>2, <1>3 DEF Coming
<1>6. \A k \in 1 .. Len(events) : EventReal(events[k], task')
  BY <1>2, <1>4
<1>7. \A j \in Ids, k \in 1 .. Len(events) :
         LastAbout(j, k, events) => task'[j] = Said(events[k])
  BY <1>2, <1>3 DEF LastAbout
<1> HIDE DEF events
<1>8. Emit(events)
  BY DEF events
<1> QED BY <1>2, <1>5, <1>6, <1>7, <1>8, EmitStep

(* Each step of the scheduler is such a step.                                 *)
LEMMA StartStep ==
    ASSUME CanvasInv, NEW i \in Ids, Start(i)
    PROVE  BackendStep
<1>1. /\ task \in Snapshots /\ task' \in Snapshots /\ retries' \in [Ids -> Nat]
      /\ task' = [task EXCEPT ![i] = "running"] /\ task[i] = "pending"
      /\ Emit(<<TaskEvent("started", i)>>) /\ BackendFrame /\ running
  BY DEF CanvasInv, CanvasTypeOK, Start, Snapshots, TaskStates
<1>2. Later(task, task') /\ \A j \in Ids : task'[j] # task[j] => j = i
  BY <1>1 DEF Later, Snapshots
<1>3. DepsDone(i, task') /\ DepsOK'
  <2>1. \A j \in Ids : DepsDone(j, task) => DepsDone(j, task')
    BY <1>1, <1>2, RealStays DEF Later
  <2>2. DepsDone(i, task)
    BY DEF Start, DepsDone
  <2>3. \A j \in Ids : task'[j] = (IF j = i THEN "running" ELSE task[j])
    BY <1>1 DEF Snapshots
  <2> QED BY <2>1, <2>2, <2>3 DEF DepsOK, CanvasInv
<1>4. task'[i] = "running"
  BY <1>1 DEF Snapshots
<1>5. Real(i, StatusOf("started"), task') /\ Said(TaskEvent("started", i)) = "running"
  BY <1>3, <1>4 DEF Real, StatusOf, Said, TaskEvent
<1> QED BY <1>1, <1>2, <1>3, <1>4, <1>5, OneEvent DEF TaskTypes

LEMMA CompleteStep ==
    ASSUME CanvasInv, NEW i \in Ids, Complete(i)
    PROVE  BackendStep
<1>1. /\ task \in Snapshots /\ task' \in Snapshots /\ retries' \in [Ids -> Nat]
      /\ task' = [task EXCEPT ![i] = "completed"] /\ task[i] = "running"
      /\ Emit(<<TaskEvent("completed", i)>>) /\ BackendFrame /\ running
  BY DEF CanvasInv, CanvasTypeOK, Complete, Snapshots, TaskStates
<1>2. Later(task, task') /\ \A j \in Ids : task'[j] # task[j] => j = i
  BY <1>1 DEF Later, Snapshots
<1>3. DepsOK'
  <2>1. \A j \in Ids : DepsDone(j, task) => DepsDone(j, task')
    BY <1>1, <1>2, RealStays DEF Later
  <2>2. \A j \in Ids : task'[j] = (IF j = i THEN "completed" ELSE task[j])
    BY <1>1 DEF Snapshots
  <2> QED BY <1>1, <2>1, <2>2 DEF DepsOK, CanvasInv
<1>4. task'[i] = "completed"
  BY <1>1 DEF Snapshots
<1>5. Real(i, StatusOf("completed"), task') /\ Said(TaskEvent("completed", i)) = "completed"
  BY <1>4 DEF Real, StatusOf, Said, TaskEvent
<1> QED BY <1>1, <1>2, <1>3, <1>4, <1>5, OneEvent DEF TaskTypes

LEMMA RetryStep ==
    ASSUME CanvasInv, NEW i \in Ids, Retry(i)
    PROVE  BackendStep
<1>1. /\ task \in Snapshots /\ task' \in Snapshots /\ retries' \in [Ids -> Nat]
      /\ task' = [task EXCEPT ![i] = "pending"] /\ task[i] = "running"
      /\ Emit(<<TaskEvent("retry", i)>>) /\ BackendFrame /\ running
  BY DEF CanvasInv, CanvasTypeOK, Retry, Snapshots, TaskStates
<1>2. Later(task, task') /\ \A j \in Ids : task'[j] # task[j] => j = i
  BY <1>1 DEF Later, Snapshots
<1>3. DepsOK'
  <2>1. \A j \in Ids : DepsDone(j, task) => DepsDone(j, task')
    BY <1>1, <1>2, RealStays DEF Later
  <2>2. \A j \in Ids : task'[j] = (IF j = i THEN "pending" ELSE task[j])
    BY <1>1 DEF Snapshots
  <2> QED BY <1>1, <2>1, <2>2 DEF DepsOK, CanvasInv
<1>4. task'[i] = "pending"
  BY <1>1 DEF Snapshots
<1>5. Real(i, StatusOf("retry"), task') /\ Said(TaskEvent("retry", i)) = "pending"
  BY <1>4 DEF Real, StatusOf, Said, TaskEvent
<1> QED BY <1>1, <1>2, <1>3, <1>4, <1>5, OneEvent DEF TaskTypes

(* A cascade takes tasks of the same batch, none of which has completed.      *)
LEMMA CascadeTakes ==
    ASSUME CanvasInv, NEW i \in Ids, task[i] = "running"
    PROVE  /\ i \in Downstream(i) /\ Downstream(i) \subseteq Ids
           /\ \A j \in Downstream(i) : task[j] \notin {"none", "completed"}
<1> DEFINE Batch == {j \in Ids : j[2] = i[2]}
           Open == {j \in Ids : task[j] # "completed"}
<1>1. i \in Downstream(i) /\ Downstream(i) \subseteq Batch /\ Downstream(i) \subseteq Ids
  <2>1. \A j \in Ids : Deps(j) \cap Batch # {} => j \in Batch
    BY DepsAreIds
  <2>2. i \in Batch
    OBVIOUS
  <2> HIDE DEF Batch
  <2> QED BY <2>1, <2>2, DownstreamInduction
<1>2. Downstream(i) \subseteq Open
  <2>1. \A j \in Ids : Deps(j) \cap Open # {} => j \in Open
    BY DEF CanvasInv, DepsOK, DepsDone
  <2>2. i \in Open
    OBVIOUS
  <2> HIDE DEF Open
  <2> QED BY <2>1, <2>2, DownstreamInduction
<1>3. \A j \in Batch : task[j] # "none"
  BY DEF CanvasInv, BatchesOK
<1> QED BY <1>1, <1>2, <1>3

LEMMA FailStep ==
    ASSUME CanvasInv, NEW i \in Ids, Fail(i)
    PROVE  BackendStep
<1> DEFINE all == Downstream(i)
           cascade == [type |-> "cascade", id |-> i, tasks |-> all]
           events == <<TaskEvent("failed", i), cascade>>
<1>1. /\ task \in Snapshots /\ retries' \in [Ids -> Nat]
      /\ task' = [j \in Ids |-> IF j \in all THEN "failed" ELSE task[j]]
      /\ task[i] = "running" /\ Emit(events) /\ BackendFrame /\ running
  BY DEF CanvasInv, CanvasTypeOK, Fail, Snapshots
<1>2. i \in all /\ all \subseteq Ids /\ \A j \in all : task[j] \notin {"none", "completed"}
  BY <1>1, CascadeTakes
<1> HIDE DEF all
<1>3. task' \in Snapshots /\ \A j \in Ids : task'[j] = IF j \in all THEN "failed" ELSE task[j]
  BY <1>1 DEF Snapshots, TaskStates
<1>4. Later(task, task')
  BY <1>2, <1>3 DEF Later
<1>5. DepsOK'
  <2>1. \A j \in Ids : DepsDone(j, task) => DepsDone(j, task')
    BY <1>1, <1>3, <1>4, RealStays DEF Later
  <2> QED BY <1>3, <2>1 DEF DepsOK, CanvasInv
<1>6. TaskEvent("failed", i) \in Events /\ cascade \in Events
  BY <1>2 DEF Events, TaskEvent, TaskTypes
<1>7. /\ events \in Seq(Events) /\ Len(events) = 2
      /\ events[1] = TaskEvent("failed", i) /\ events[2] = cascade
  BY <1>6
<1>8. About(TaskEvent("failed", i)) = {i} /\ About(cascade) = all
  BY DEF About, TaskEvent
<1>9. EventReal(TaskEvent("failed", i), task') /\ EventReal(cascade, task')
  BY <1>2, <1>3 DEF EventReal, TaskEvent, TaskTypes, Real, StatusOf
<1>10. Said(cascade) = "failed"
  BY DEF Said
<1> HIDE DEF events, cascade
<1>11. \A j \in Ids : task'[j] # task[j] => Coming(j, events)
  BY <1>3, <1>7, <1>8 DEF Coming
<1>12. \A k \in 1 .. Len(events) : EventReal(events[k], task')
  BY <1>7, <1>9
<1>13. \A j \in Ids, k \in 1 .. Len(events) :
          LastAbout(j, k, events) => task'[j] = Said(events[k])
  <2> SUFFICES ASSUME NEW j \in Ids, NEW k \in 1 .. Len(events), LastAbout(j, k, events)
               PROVE  task'[j] = Said(events[k])
    OBVIOUS
  <2>1. k # 1
    BY <1>2, <1>7, <1>8 DEF LastAbout
  <2>2. k = 2
    BY <1>7, <2>1
  <2> QED BY <1>3, <1>7, <1>8, <1>10, <2>2 DEF LastAbout
<1> QED BY <1>1, <1>3, <1>4, <1>5, <1>7, <1>11, <1>12, <1>13, EmitStep

(* A connection that is lost takes along what had not arrived.                *)
LEMMA CutStep ==
    ASSUME CanvasInv, NEW events \in Seq(Events), Cut(events), running' \in BOOLEAN,
           \A i \in Ids : Coming(i, wire) => Coming(i, events),
           \A k \in 1 .. Len(events) : EventReal(events[k], task)
    PROVE  BackendStep
<1>1. CanvasTypeOK /\ task \in Snapshots /\ wire \in Seq(Events)
  BY DEF CanvasInv, CanvasTypeOK, Snapshots
<1>2. PICK k \in 0 .. Len(events) :
         /\ wire' = SubSeq(events, 1, k)
         /\ Miss(UNION {About(events[j]) : j \in k+1..Len(events)})
  BY DEF Cut
<1> DEFINE lost == UNION {About(events[j]) : j \in k+1..Len(events)}
<1>3. Len(events) \in Nat /\ k \in Nat /\ k <= Len(events)
  BY LenProperties
<1>4. wire' \in Seq(Events) /\ Len(wire') = k /\ \A j \in 1 .. k : wire'[j] = events[j]
  BY <1>2, <1>3, SubSeqProperties
<1>5. lost \in SUBSET Ids
  <2>1. \A j \in k + 1 .. Len(events) : events[j] \in Events
    BY <1>3, ElementOfSeq
  <2> QED BY <2>1, AboutIds
<1>6. \A i \in Ids : Coming(i, events) => Coming(i, wire') \/ i \in lost
  <2> SUFFICES ASSUME NEW i \in Ids, NEW j \in 1 .. Len(events), i \in About(events[j]), j <= k
               PROVE  Coming(i, wire')
    BY <1>3 DEF Coming
  <2> QED BY <1>3, <1>4 DEF Coming
<1>7. Miss(lost)
  BY <1>2
<1> HIDE DEF lost
<1>8. /\ UNCHANGED <<canvas, killed, timers, submit, task, retries, gens>>
      /\ ~connected' /\ connected' \in BOOLEAN
  BY DEF Cut
<1>9. Traced
  BY <1>1, <1>5, <1>6, <1>7, <1>8, MissTypes DEF Traced, Miss
<1>10. Later(task, task') /\ DepsOK' /\ WireOK'
  BY <1>8 DEF Later, DepsOK, DepsDone, WireOK, CanvasInv
<1>11. \A j \in 1 .. Len(wire') : EventReal(wire'[j], task')
  BY <1>3, <1>4, <1>8
<1>12. /\ task' \in Snapshots /\ retries' \in [Ids -> Nat]
       /\ dirty' \in SUBSET Ids /\ fetch' \in [Fetches -> Requests]
  BY <1>1, <1>5, <1>7, <1>8, MissTypes DEF Miss, CanvasTypeOK
<1> QED BY <1>4, <1>8, <1>9, <1>10, <1>11, <1>12 DEF BackendStep

LEMMA CrashStep ==
    ASSUME CanvasInv, Crash
    PROVE  BackendStep
<1> DEFINE last == SystemEvent("crash")
           events == Append(wire, last)
<1>1. last \in Events /\ About(last) = {} /\ EventReal(last, task)
  BY DEF SystemEvent, Events, About, EventReal, TaskTypes
<1>2. /\ wire \in Seq(Events) /\ Cut(events) /\ running' \in BOOLEAN
      /\ \A k \in 1 .. Len(wire) : EventReal(wire[k], task)
  BY DEF CanvasInv, CanvasTypeOK, AllReal, Crash
<1> HIDE DEF last
<1>3. /\ events \in Seq(Events) /\ Len(events) = Len(wire) + 1 /\ events[Len(wire) + 1] = last
      /\ \A k \in 1 .. Len(wire) : events[k] = wire[k]
  BY <1>1, <1>2, AppendProperties
<1> HIDE DEF events
<1>4. Len(wire) \in Nat
  BY <1>2, LenProperties
<1>5. \A i \in Ids : Coming(i, wire) => Coming(i, events)
  BY <1>3, <1>4 DEF Coming
<1>6. \A k \in 1 .. Len(events) : EventReal(events[k], task)
  BY <1>1, <1>2, <1>3, <1>4
<1> QED BY <1>2, <1>3, <1>5, <1>6, CutStep

LEMMA DisconnectStep ==
    ASSUME CanvasInv, Disconnect
    PROVE  BackendStep
BY CutStep DEF CanvasInv, CanvasTypeOK, AllReal, Disconnect

LEMMA ReconnectStep ==
    ASSUME CanvasInv, Reconnect
    PROVE  BackendStep
<1>1. /\ UNCHANGED <<canvas, killed, timers, submit, fetch, wire, task, retries, running,
                     gens, dirty>>
      /\ connected' = TRUE /\ wire = <<>>
  BY DEF Reconnect, page, backend
<1>2. CanvasTypeOK
  BY DEF CanvasInv
<1>3. Traced
  BY <1>1 DEF Traced
<1>4. Later(task, task') /\ DepsOK'
  BY <1>1 DEF Later, DepsOK, DepsDone, CanvasInv
<1>5. WireOK' /\ \A k \in 1 .. Len(wire') : EventReal(wire'[k], task')
  BY <1>1 DEF WireOK
<1> QED BY <1>1, <1>2, <1>3, <1>4, <1>5 DEF BackendStep, CanvasTypeOK, Snapshots

LEMMA RecoverStep ==
    ASSUME CanvasInv, Recover
    PROVE  BackendStep
<1> DEFINE last == SystemEvent("recover")
<1>1. CanvasTypeOK /\ task \in Snapshots /\ wire \in Seq(Events)
  BY DEF CanvasInv, CanvasTypeOK, Snapshots
<1>2. /\ ~running /\ running' = TRUE /\ Miss(Orphans)
      /\ wire' = IF connected THEN Append(wire, last) ELSE wire
      /\ UNCHANGED <<canvas, killed, timers, submit, connected, gens>>
  BY DEF Recover
<1>3. /\ Orphans \in SUBSET Ids /\ \A i \in Ids : i \in Orphans <=> task[i] = "running"
      /\ task' \in Snapshots /\ retries' \in [Ids -> Nat]
      /\ \A i \in Ids : IF i \in Orphans THEN task'[i] \in {"pending", "completed", "failed"}
                        ELSE task'[i] = task[i]
  BY <1>1 DEF Recover, Orphans, Snapshots, TaskStates, CanvasTypeOK
<1>4. Later(task, task')
  BY <1>3 DEF Later
<1>5. DepsOK'
  <2>1. \A j \in Ids : DepsDone(j, task) => DepsDone(j, task')
    BY <1>1, <1>3, <1>4, RealStays DEF Later
  <2> QED BY <1>3, <2>1 DEF DepsOK, CanvasInv
<1>6. connected => wire = <<>>
  BY <1>2 DEF CanvasInv, WireOK
<1>7. last \in Events /\ About(last) = {} /\ EventReal(last, task')
  BY DEF SystemEvent, Events, About, EventReal, TaskTypes
<1> HIDE DEF last
<1>8. CASE connected
  <2>1. wire' \in Seq(Events) /\ Len(wire') = 1 /\ wire'[1] = last /\ Len(wire) = 0
    BY <1>2, <1>6, <1>7, <1>8, AppendProperties
  <2>2. \A i \in Ids : ~Coming(i, wire)
    BY <2>1 DEF Coming
  <2>3. Traced
    BY <1>1, <1>2, <1>3, <2>2, MissTypes DEF Traced, Miss
  <2>4. WireOK' /\ \A k \in 1 .. Len(wire') : EventReal(wire'[k], task')
    BY <1>2, <1>7, <2>1 DEF WireOK, LastAbout
  <2> QED BY <2>1, <2>3, <2>4, <1>1, <1>2, <1>3, <1>4, <1>5, MissTypes
          DEF BackendStep, Miss, CanvasTypeOK
<1>9. CASE ~connected
  <2>1. wire' = wire /\ ~connected'
    BY <1>2, <1>9
  <2>2. Traced
    BY <1>1, <1>2, <1>3, <2>1, MissTypes DEF Traced, Miss
  <2>3. \A k \in 1 .. Len(wire') : EventReal(wire'[k], task')
    <3>1. \A k \in 1 .. Len(wire) : EventReal(wire[k], task) /\ wire[k] \in Events
      BY <1>1, ElementOfSeq DEF CanvasInv, AllReal
    <3>2. \A e \in Events : EventReal(e, task) => EventReal(e, task')
      BY <1>1, <1>3, <1>4, RealStays DEF Later
    <3> QED BY <2>1, <3>1, <3>2
  <2>4. WireOK'
    BY <2>1 DEF WireOK
  <2> QED BY <2>1, <2>2, <2>3, <2>4, <1>1, <1>2, <1>3, <1>4, <1>5, MissTypes
          DEF BackendStep, Miss, CanvasTypeOK
<1> QED BY <1>8, <1>9

(* A step the canvas can follow keeps the invariant.                          *)
LEMMA BackendPreserves ==
    ASSUME CanvasInv, BackendStep
    PROVE  CanvasInv'
<1>1. /\ CanvasTypeOK /\ SuffixesOK /\ BatchesOK /\ AllReal /\ AllAgree
      /\ task \in Snapshots /\ task' \in Snapshots
  BY DEF CanvasInv, CanvasTypeOK, Snapshots, BackendStep
<1>2. UNCHANGED <<canvas, killed, timers, submit, gens>> /\ Later(task, task') /\ Traced
  BY DEF BackendStep
<1>3. CanvasTypeOK'
  BY <1>1 DEF CanvasTypeOK, BackendStep, Snapshots
<1>4. SuffixesOK'
  BY <1>1, <1>2 DEF SuffixesOK, Kept
<1>5. BatchesOK'
  BY <1>1, <1>2 DEF BatchesOK, Later
<1>6. \A f \in Fetches : fetch'[f].at = "answered" =>
         fetch[f].at = "answered" /\ fetch'[f].snap = fetch[f].snap
  BY <1>2 DEF Traced
<1>7. AllReal'
  <2>1. /\ \A p \in Pictures : PictureReal(p, task) => PictureReal(p, task')
        /\ \A snap \in Snapshots : SnapshotReal(snap, task) => SnapshotReal(snap, task')
    BY <1>1, <1>2, RealStays DEF Later
  <2>2. canvas \in Pictures /\ \A s \in Submits : submit[s].saved \in Pictures
    BY <1>1 DEF CanvasTypeOK, Submissions
  <2>3. PictureReal(canvas', task')
    BY <1>1, <1>2, <2>1, <2>2 DEF AllReal
  <2>4. \A s \in Submits : Kept(s)' => PictureReal(submit'[s].saved, task')
    BY <1>1, <1>2, <2>1, <2>2 DEF AllReal, Kept
  <2>5. \A f \in Fetches : fetch[f].at = "answered" => fetch[f].snap \in Snapshots
    BY <1>1 DEF CanvasTypeOK, Requests
  <2>6. \A f \in Fetches : fetch'[f].at = "answered" => SnapshotReal(fetch'[f].snap, task')
    BY <1>1, <1>6, <2>1, <2>5 DEF AllReal
  <2>7. \A i \in timers' \cup killed' : task'[i] = "failed"
    BY <1>1, <1>2 DEF AllReal, Later, CanvasTypeOK
  <2> QED BY <2>3, <2>4, <2>6, <2>7 DEF AllReal, BackendStep
<1>8. AllAgree'
  <2>1. \A i \in Ids : (~Coming(i, wire') /\ i \notin dirty') =>
           ~Coming(i, wire) /\ i \notin dirty /\ task'[i] = task[i]
    BY <1>2 DEF Traced
  <2>2. PictureAgrees(canvas)'
    BY <1>1, <1>2, <2>1 DEF AllAgree, PictureAgrees
  <2>3. ASSUME NEW s \in Submits, Kept(s)' PROVE PictureAgrees(submit[s].saved)'
    BY <1>1, <1>2, <2>1, <2>3 DEF AllAgree, PictureAgrees, Kept
  <2>4. ASSUME NEW f \in Fetches, fetch'[f].at = "answered" PROVE AnswerAgrees(fetch[f])'
    <3>1. AnswerAgrees(fetch[f]) /\ fetch'[f].snap = fetch[f].snap
      BY <1>1, <1>6, <2>4 DEF AllAgree
    <3>2. \A i \in Ids : (~Coming(i, wire') /\ i \notin fetch'[f].moved) =>
             ~Coming(i, wire) /\ i \notin fetch[f].moved /\ task'[i] = task[i]
      BY <1>2, <1>6, <2>4 DEF Traced
    <3>3. \A i \in Ids : Pictured(i)' <=> Pictured(i)
      BY <1>2 DEF Pictured, Superseded
    <3> QED BY <1>2, <3>1, <3>2, <3>3 DEF AnswerAgrees
  <2> QED BY <2>2, <2>3, <2>4 DEF AllAgree
<1> QED BY <1>3, <1>4, <1>5, <1>7, <1>8 DEF CanvasInv, BackendStep

-----------------------------------------------------------------------------
(* What the page does with an event                                           *)

(* The steps of the page that leave the submissions and the scheduler alone.  *)
LEMMA SameBatches ==
    ASSUME CanvasInv, UNCHANGED <<submit, task, gens>>, canvas'.gen = canvas.gen
    PROVE  /\ SuffixesOK' /\ BatchesOK' /\ DepsOK'
           /\ \A i \in Ids : Pictured(i)' <=> Pictured(i)
<1>1. SuffixesOK'
  BY DEF CanvasInv, SuffixesOK, Kept
<1>2. BatchesOK'
  BY DEF CanvasInv, BatchesOK
<1>3. DepsOK'
  BY DEF CanvasInv, DepsOK, DepsDone
<1>4. \A i \in Ids : Pictured(i)' <=> Pictured(i)
  BY DEF Pictured, Superseded
<1> QED BY <1>1, <1>2, <1>3, <1>4

(* The types of what the handlers read.                                       *)
LEMMA SavedTyped ==
    ASSUME CanvasInv
    PROVE  /\ canvas \in Pictures /\ \A s \in Submits : submit[s].saved \in Pictures
           /\ \A i \in Ids : i \in CanvasIds <=> i[2] = canvas.gen
           /\ task \in Snapshots /\ CanvasTypeOK
           /\ \A f \in Fetches : fetch[f].at = "answered" => fetch[f].snap \in Snapshots
<1>1. CanvasTypeOK
  BY DEF CanvasInv
<1>2. canvas \in Pictures /\ task \in Snapshots
  BY <1>1 DEF CanvasTypeOK, Snapshots
<1>3. \A s \in Submits : submit[s].saved \in Pictures
  BY <1>1 DEF CanvasTypeOK, Submissions
<1>4. \A i \in Ids : i \in CanvasIds <=> i[2] = canvas.gen
  BY DEF Ids, CanvasIds
<1>5. \A f \in Fetches : fetch[f].at = "answered" => fetch[f].snap \in Snapshots
  BY <1>1 DEF CanvasTypeOK, Requests
<1> QED BY <1>1, <1>2, <1>3, <1>4, <1>5

(* The event that is heard was the last about its tasks, or another follows.  *)
LEMMA HeardFacts ==
    ASSUME CanvasInv, wire # <<>>, wire' = Tail(wire),
           UNCHANGED <<connected, task, running>>
    PROVE  /\ Head(wire) \in Events /\ EventReal(Head(wire), task)
           /\ wire' \in Seq(Events) /\ WireOK'
           /\ \A k \in 1 .. Len(wire') : EventReal(wire'[k], task')
           /\ \A i \in Ids : ~Coming(i, wire') /\ i \notin About(Head(wire)) => ~Coming(i, wire)
           /\ \A i \in Ids : connected /\ ~Coming(i, wire') /\ i \in About(Head(wire)) =>
                 task[i] = Said(Head(wire))
<1>1. /\ wire \in Seq(Events) /\ WireOK
      /\ \A k \in 1 .. Len(wire) : EventReal(wire[k], task)
  BY DEF CanvasInv, CanvasTypeOK, AllReal
<1>2. /\ Head(wire) \in Events /\ wire' \in Seq(Events)
      /\ Len(wire') = Len(wire) - 1
      /\ \A k \in 1 .. Len(wire') : wire'[k] = wire[k + 1]
  BY <1>1, HeadTailProperties
<1>3. Len(wire) \in Nat /\ Len(wire) >= 1 /\ Head(wire) = wire[1]
  BY <1>1, LenProperties, EmptySeq
<1>4. \A k \in 1 .. Len(wire) : k # 1 => k - 1 \in 1 .. Len(wire') /\ wire'[k - 1] = wire[k]
  BY <1>2, <1>3
<1>5. \A k \in 1 .. Len(wire') : k + 1 \in 1 .. Len(wire) /\ wire'[k] = wire[k + 1]
  BY <1>2, <1>3
<1>6. \A k \in 1 .. Len(wire') : EventReal(wire'[k], task')
  BY <1>1, <1>5
<1>7. \A i \in Ids : ~Coming(i, wire') /\ i \notin About(Head(wire)) => ~Coming(i, wire)
  BY <1>3, <1>4 DEF Coming
<1>8. ASSUME NEW i \in Ids, connected, ~Coming(i, wire'), i \in About(Head(wire))
      PROVE  task[i] = Said(Head(wire))
  <2>1. \A j \in 2 .. Len(wire) : i \notin About(wire[j])
    <3> TAKE j \in 2 .. Len(wire)
    <3>1. j - 1 \in 1 .. Len(wire') /\ wire'[j - 1] = wire[j]
      BY <1>3, <1>4
    <3> QED BY <1>8, <3>1 DEF Coming
  <2>2. 1 \in 1 .. Len(wire) /\ LastAbout(i, 1, wire)
    BY <1>3, <1>8, <2>1 DEF LastAbout
  <2> QED BY <1>1, <1>3, <1>8, <2>2 DEF WireOK
<1>9. WireOK'
  <2> SUFFICES ASSUME connected
               PROVE  /\ ~running => wire' = <<>>
                      /\ \A i \in Ids, k \in 1 .. Len(wire') :
                            LastAbout(i, k, wire') => task[i] = Said(wire'[k])
    BY DEF WireOK
  <2>1. running
    BY <1>1 DEF WireOK
  <2>2. ASSUME NEW i \in Ids, NEW k \in 1 .. Len(wire'), LastAbout(i, k, wire')
        PROVE  task[i] = Said(wire'[k])
    <3>1. \A j \in (k + 1) + 1 .. Len(wire) : j - 1 \in k + 1 .. Len(wire') /\ wire'[j - 1] = wire[j]
      BY <1>2, <1>3, <1>4
    <3>2. LastAbout(i, k + 1, wire)
      BY <1>5, <2>2, <3>1 DEF LastAbout
    <3> QED BY <1>1, <1>5, <3>2 DEF WireOK
  <2> QED BY <2>1, <2>2
<1> QED BY <1>1, <1>2, <1>3, <1>6, <1>7, <1>8, <1>9

(* Each handler of an event keeps the invariant.                              *)
LEMMA OnTaskEventPreserves ==
    ASSUME CanvasInv, OnMessage, OnTaskEvent(Head(wire))
    PROVE  CanvasInv'
<1> DEFINE e == Head(wire)
<1>1. /\ wire # <<>> /\ wire' = Tail(wire)
      /\ UNCHANGED <<submit, connected, task, retries, running, gens, upsets, killed, timers>>
      /\ e.type \in TaskTypes
  BY DEF OnMessage, OnTaskEvent, backend, TaskTypes
<1>2. /\ e \in Events /\ EventReal(e, task)
      /\ wire' \in Seq(Events) /\ WireOK'
      /\ \A k \in 1 .. Len(wire') : EventReal(wire'[k], task')
      /\ \A i \in Ids : ~Coming(i, wire') /\ i \notin About(e) => ~Coming(i, wire)
      /\ \A i \in Ids : connected /\ ~Coming(i, wire') /\ i \in About(e) => task[i] = Said(e)
  BY <1>1, HeardFacts
<1>3. OnTaskEvent(e)
  OBVIOUS
<1> HIDE DEF e
<1>4. e.id \in Ids /\ About(e) = {e.id} /\ Real(e.id, StatusOf(e.type), task)
  BY <1>1, <1>2 DEF Events, About, TaskTypes, EventReal
<1>5. /\ canvas \in Pictures /\ \A s \in Submits : submit[s].saved \in Pictures
      /\ \A i \in Ids : i \in CanvasIds <=> i[2] = canvas.gen
      /\ task \in Snapshots /\ CanvasTypeOK /\ SuffixesOK /\ AllReal /\ AllAgree
  BY SavedTyped DEF CanvasInv
<1>6. /\ StatusOf(e.type) \in NodeStates
      /\ Agrees(StatusOf(e.type), Said(e))
      /\ e.type = "completed" => StatusOf(e.type) = "completed"
  BY <1>1 DEF TaskTypes, StatusOf, NodeStates, Said, Agrees
<1>7. CASE e.id \in CanvasIds
  <2>1. /\ canvas' = [canvas EXCEPT !.node = SetNode(e.id, StatusOf(e.type)),
                                    !.edge = Restyled(e)]
        /\ dirty' = IF connected THEN dirty \ {e.id} ELSE dirty \cup {e.id}
        /\ fetch' = Moved({e.id})
    BY <1>3, <1>7 DEF OnTaskEvent, Known
  <2>2. e.id[1] \in Names /\ e.id = <<e.id[1], canvas.gen>>
    BY <1>4, <1>5, <1>7, DepsAreIds
  <2>3. /\ canvas' \in Pictures /\ canvas'.gen = canvas.gen
        /\ \A n \in Names : canvas'.node[n] =
              IF n = e.id[1] THEN StatusOf(e.type) ELSE canvas.node[n]
        /\ canvas'.edge = Restyled(e)
    <3>1. SetNode(e.id, StatusOf(e.type)) \in [Names -> NodeStates]
      BY <1>5, <1>6 DEF SetNode, Pictures
    <3>2. Restyled(e) \in [Edges -> EdgeStyles]
      BY <1>5 DEF Restyled, Pictures, EdgeStyles
    <3>3. \A n \in Names : SetNode(e.id, StatusOf(e.type))[n] =
             IF n = e.id[1] THEN StatusOf(e.type) ELSE canvas.node[n]
      BY <1>5 DEF SetNode, Pictures
    <3> QED BY <1>5, <2>1, <3>1, <3>2, <3>3 DEF Pictures
  <2>4. PictureReal(canvas', task')
    <3>1. \A n \in Names : Real(<<n, canvas'.gen>>, canvas'.node[n], task')
      <4> TAKE n \in Names
      <4>1. CASE n = e.id[1]
        BY <1>1, <1>4, <2>2, <2>3, <4>1
      <4>2. CASE n # e.id[1]
        <5>1. Real(<<n, canvas.gen>>, canvas.node[n], task)
          BY <1>5 DEF AllReal, PictureReal
        <5> QED BY <1>1, <2>3, <4>2, <5>1
      <4> QED BY <4>1, <4>2
    <3>2. ASSUME NEW d \in Edges, canvas'.edge[d] = "complete"
          PROVE  <<d[1], canvas'.gen>> \in Ids /\ task'[<<d[1], canvas'.gen>>] = "completed"
      <4>1. (e.type = "completed" /\ d[1] = e.id[1]) \/ canvas.edge[d] = "complete"
        BY <2>3, <3>2 DEF Restyled
      <4>2. CASE e.type = "completed" /\ d[1] = e.id[1]
        BY <1>1, <1>4, <1>6, <2>2, <2>3, <4>2 DEF Real
      <4>3. CASE canvas.edge[d] = "complete"
        BY <1>1, <1>5, <2>3, <4>3 DEF AllReal, PictureReal
      <4> QED BY <4>1, <4>2, <4>3
    <3> QED BY <3>1, <3>2 DEF PictureReal
  <2>5. /\ fetch' \in [Fetches -> Requests]
        /\ \A f \in Fetches : fetch'[f].at = "answered" =>
              /\ fetch[f].at = "answered" /\ fetch'[f].snap = fetch[f].snap
              /\ fetch'[f].moved = fetch[f].moved \cup {e.id}
    BY <1>4, <1>5, <2>1, MissTypes
  <2>6. CanvasTypeOK'
    BY <1>1, <1>2, <1>4, <1>5, <2>1, <2>3, <2>5 DEF CanvasTypeOK
  <2>7. /\ SuffixesOK' /\ BatchesOK' /\ DepsOK'
        /\ \A i \in Ids : Pictured(i)' <=> Pictured(i)
    BY <1>1, <2>3, SameBatches
  <2>8. AllReal'
    BY <1>1, <1>2, <1>5, <2>4, <2>5 DEF AllReal, Kept
  <2>9. PictureAgrees(canvas)'
    <3> SUFFICES ASSUME NEW i \in Ids, i[2] = canvas.gen, task[i] # "none",
                        ~Coming(i, wire'), i \notin dirty' \cup timers
                 PROVE  Agrees(canvas'.node[i[1]], task[i])
      BY <1>1, <2>3 DEF PictureAgrees
    <3>1. i[1] \in Names /\ i = <<i[1], canvas.gen>>
      BY DepsAreIds
    <3>2. CASE i = e.id
      <4>1. connected
        BY <2>1, <3>2
      <4> QED BY <1>2, <1>4, <1>6, <2>2, <2>3, <3>2, <4>1
    <3>3. CASE i # e.id
      <4>1. ~Coming(i, wire) /\ i \notin dirty \cup timers
        BY <1>2, <1>4, <2>1, <3>3
      <4>2. i[1] # e.id[1]
        BY <2>2, <3>1, <3>3
      <4> QED BY <1>5, <2>3, <3>1, <4>1, <4>2 DEF AllAgree, PictureAgrees
    <3> QED BY <3>2, <3>3
  <2>10. ASSUME NEW s \in Submits, Kept(s)' PROVE PictureAgrees(submit[s].saved)'
    <3> SUFFICES ASSUME NEW i \in Ids, i[2] = submit[s].saved.gen, task[i] # "none",
                        ~Coming(i, wire'), i \notin dirty' \cup timers
                 PROVE  Agrees(submit[s].saved.node[i[1]], task[i])
      BY <1>1 DEF PictureAgrees
    <3>1. Kept(s) /\ i[2] # 0
      BY <1>1, <2>10, DepsAreIds DEF Kept
    <3>2. i # e.id
      BY <1>5, <2>2, <3>1 DEF SuffixesOK
    <3>3. ~Coming(i, wire) /\ i \notin dirty \cup timers
      BY <1>2, <1>4, <2>1, <3>2
    <3> QED BY <1>5, <3>1, <3>3 DEF AllAgree, PictureAgrees
  <2>11. ASSUME NEW f \in Fetches, fetch'[f].at = "answered" PROVE AnswerAgrees(fetch[f])'
    <3>1. AnswerAgrees(fetch[f])
      BY <1>5, <2>5, <2>11 DEF AllAgree
    <3> QED BY <1>1, <1>2, <1>4, <2>5, <2>7, <2>11, <3>1 DEF AnswerAgrees
  <2> QED BY <1>2, <2>6, <2>7, <2>8, <2>9, <2>10, <2>11 DEF CanvasInv, AllAgree
<1>8. CASE e.id \notin CanvasIds
  <2> DEFINE gone == {i \in {e.id} : Superseded(i)}
  <2>1. canvas' = canvas /\ Miss(gone)
    BY <1>3, <1>8 DEF OnTaskEvent, Unknown
  <2>2. gone \in SUBSET Ids /\ \A i \in Ids : i \in gone <=> i = e.id /\ Superseded(i)
    BY <1>4
  <2> HIDE DEF gone
  <2>3. dirty' = dirty \cup gone /\ fetch' = Moved(gone)
    BY <2>1 DEF Miss
  <2>4. /\ fetch' \in [Fetches -> Requests]
        /\ \A f \in Fetches : fetch'[f].at = "answered" =>
              /\ fetch[f].at = "answered" /\ fetch'[f].snap = fetch[f].snap
              /\ fetch'[f].moved = fetch[f].moved \cup gone
    BY <1>5, <2>2, <2>3, MissTypes
  <2>5. CanvasTypeOK'
    BY <1>1, <1>2, <1>5, <2>1, <2>2, <2>3, <2>4 DEF CanvasTypeOK
  <2>6. /\ SuffixesOK' /\ BatchesOK' /\ DepsOK'
        /\ \A i \in Ids : Pictured(i)' <=> Pictured(i)
    BY <1>1, <2>1, SameBatches
  <2>7. AllReal'
    BY <1>1, <1>2, <1>5, <2>1, <2>4 DEF AllReal, Kept
  <2>8. e.id[2] # canvas.gen
    BY <1>4, <1>5, <1>8
  <2>9. \A i \in Ids : Pictured(i) /\ i \notin gone /\ ~Coming(i, wire') => ~Coming(i, wire)
    BY <1>2, <1>4, <2>2, <2>8 DEF Pictured
  <2>10. PictureAgrees(canvas)'
    BY <1>1, <1>5, <2>1, <2>3, <2>9 DEF AllAgree, PictureAgrees, Pictured
  <2>11. ASSUME NEW s \in Submits, Kept(s)' PROVE PictureAgrees(submit[s].saved)'
    <3>1. \A i \in Ids : i[2] = submit[s].saved.gen => Pictured(i)
      BY <1>1, <2>11 DEF Pictured, Superseded, Kept
    <3> QED BY <1>1, <1>5, <2>3, <2>9, <2>11, <3>1 DEF AllAgree, PictureAgrees, Kept
  <2>12. ASSUME NEW f \in Fetches, fetch'[f].at = "answered" PROVE AnswerAgrees(fetch[f])'
    <3>1. AnswerAgrees(fetch[f])
      BY <1>5, <2>4, <2>12 DEF AllAgree
    <3> QED BY <1>1, <2>4, <2>6, <2>9, <2>12, <3>1 DEF AnswerAgrees
  <2> QED BY <1>2, <2>5, <2>6, <2>7, <2>10, <2>11, <2>12 DEF CanvasInv, AllAgree
<1> QED BY <1>7, <1>8

LEMMA OnCascadePreserves ==
    ASSUME CanvasInv, OnMessage, OnCascade(Head(wire))
    PROVE  CanvasInv'
<1> DEFINE e == Head(wire)
           gone == {i \in e.tasks : Superseded(i)}
<1>1. /\ wire # <<>> /\ wire' = Tail(wire)
      /\ UNCHANGED <<submit, connected, task, retries, running, gens, upsets, canvas>>
      /\ e.type = "cascade" /\ killed' = killed \cup e.tasks /\ timers' = timers \cup e.tasks
      /\ dirty' = dirty \cup gone /\ fetch' = Moved(gone)
  BY DEF OnMessage, OnCascade, backend, Miss
<1>2. /\ e \in Events /\ EventReal(e, task)
      /\ wire' \in Seq(Events) /\ WireOK'
      /\ \A k \in 1 .. Len(wire') : EventReal(wire'[k], task')
      /\ \A i \in Ids : ~Coming(i, wire') /\ i \notin About(e) => ~Coming(i, wire)
  BY <1>1, HeardFacts
<1> HIDE DEF e
<1>3. /\ e.tasks \subseteq Ids /\ About(e) = e.tasks /\ gone \in SUBSET Ids
      /\ \A i \in e.tasks : task[i] = "failed"
  BY <1>1, <1>2 DEF Events, About, EventReal
<1> HIDE DEF gone
<1>4. /\ canvas \in Pictures /\ task \in Snapshots /\ CanvasTypeOK /\ AllReal /\ AllAgree
  BY SavedTyped DEF CanvasInv
<1>5. /\ fetch' \in [Fetches -> Requests]
      /\ \A f \in Fetches : fetch'[f].at = "answered" =>
            /\ fetch[f].at = "answered" /\ fetch'[f].snap = fetch[f].snap
            /\ fetch'[f].moved = fetch[f].moved \cup gone
  BY <1>1, <1>3, <1>4, MissTypes
<1>6. CanvasTypeOK'
  BY <1>1, <1>2, <1>3, <1>4, <1>5 DEF CanvasTypeOK
<1>7. /\ SuffixesOK' /\ BatchesOK' /\ DepsOK'
      /\ \A i \in Ids : Pictured(i)' <=> Pictured(i)
  BY <1>1, SameBatches
<1>8. AllReal'
  BY <1>1, <1>2, <1>3, <1>4, <1>5 DEF AllReal, Kept
<1>9. \A i \in Ids : i \notin timers' /\ ~Coming(i, wire') => i \notin timers /\ ~Coming(i, wire)
  BY <1>1, <1>2, <1>3
<1>10. PictureAgrees(canvas)'
  BY <1>1, <1>4, <1>9 DEF AllAgree, PictureAgrees
<1>11. ASSUME NEW s \in Submits, Kept(s)' PROVE PictureAgrees(submit[s].saved)'
  BY <1>1, <1>4, <1>9, <1>11 DEF AllAgree, PictureAgrees, Kept
<1>12. ASSUME NEW f \in Fetches, fetch'[f].at = "answered" PROVE AnswerAgrees(fetch[f])'
  <2>1. AnswerAgrees(fetch[f])
    BY <1>4, <1>5, <1>12 DEF AllAgree
  <2> QED BY <1>1, <1>5, <1>7, <1>9, <1>12, <2>1 DEF AnswerAgrees
<1> QED BY <1>2, <1>6, <1>7, <1>8, <1>10, <1>11, <1>12 DEF CanvasInv, AllAgree

(* A request that has been sent.                                              *)
LEMMA AskedTyped == \A then \in BOOLEAN : Asked(then) \in Requests /\ Asked(then).at = "asked"
BY DEF Asked, NoFetch, Requests

LEMMA OnSystemEventPreserves ==
    ASSUME CanvasInv, OnMessage, OnSystemEvent(Head(wire))
    PROVE  CanvasInv'
<1> DEFINE e == Head(wire)
<1>1. /\ wire # <<>> /\ wire' = Tail(wire) /\ e.type = "system"
      /\ UNCHANGED <<submit, connected, task, retries, running, gens, upsets, killed, timers, dirty>>
  BY DEF OnMessage, OnSystemEvent, backend
<1>2. /\ wire' \in Seq(Events) /\ WireOK'
      /\ \A k \in 1 .. Len(wire') : EventReal(wire'[k], task')
      /\ \A i \in Ids : ~Coming(i, wire') /\ i \notin About(e) => ~Coming(i, wire)
  BY <1>1, HeardFacts
<1>3. \A i \in Ids : ~Coming(i, wire') => ~Coming(i, wire)
  BY <1>1, <1>2 DEF About
<1>4. /\ canvas \in Pictures /\ task \in Snapshots /\ CanvasTypeOK /\ AllReal /\ AllAgree
  BY SavedTyped DEF CanvasInv
<1>5. \/ /\ canvas' = [canvas EXCEPT !.edge = [d \in Edges |-> "crash"]] /\ fetch' = fetch
      \/ /\ canvas' = canvas
         /\ \E f \in Fetches : fetch' = [fetch EXCEPT ![f] = Asked(TRUE)]
  BY DEF OnSystemEvent
<1> HIDE DEF e
<1>6. /\ canvas' \in Pictures /\ canvas'.gen = canvas.gen /\ canvas'.node = canvas.node
      /\ \A d \in Edges : canvas'.edge[d] = "complete" => canvas.edge[d] = "complete"
  <2>1. CASE canvas' = canvas
    BY <1>4, <2>1
  <2>2. CASE canvas' = [canvas EXCEPT !.edge = [d \in Edges |-> "crash"]]
    <3>1. [d \in Edges |-> "crash"] \in [Edges -> EdgeStyles]
      BY DEF EdgeStyles
    <3>2. /\ canvas'.gen = canvas.gen /\ canvas'.node = canvas.node
          /\ canvas'.edge = [d \in Edges |-> "crash"] /\ canvas' \in Pictures
      BY <1>4, <2>2, <3>1 DEF Pictures
    <3> QED BY <3>2
  <2> QED BY <1>5, <2>1, <2>2
<1>7. /\ fetch' \in [Fetches -> Requests]
      /\ \A f \in Fetches : fetch'[f].at = "answered" => fetch'[f] = fetch[f]
  BY <1>4, <1>5, AskedTyped DEF CanvasTypeOK
<1>8. CanvasTypeOK'
  BY <1>1, <1>2, <1>4, <1>6, <1>7 DEF CanvasTypeOK
<1>9. /\ SuffixesOK' /\ BatchesOK' /\ DepsOK'
      /\ \A i \in Ids : Pictured(i)' <=> Pictured(i)
  BY <1>1, <1>6, SameBatches
<1>10. AllReal'
  <2>1. PictureReal(canvas', task')
    BY <1>1, <1>4, <1>6 DEF AllReal, PictureReal
  <2> QED BY <1>1, <1>2, <1>4, <1>7, <2>1 DEF AllReal, Kept
<1>11. PictureAgrees(canvas)'
  BY <1>1, <1>3, <1>4, <1>6 DEF AllAgree, PictureAgrees
<1>12. ASSUME NEW s \in Submits, Kept(s)' PROVE PictureAgrees(submit[s].saved)'
  BY <1>1, <1>3, <1>4, <1>12 DEF AllAgree, PictureAgrees, Kept
<1>13. ASSUME NEW f \in Fetches, fetch'[f].at = "answered" PROVE AnswerAgrees(fetch[f])'
  <2>1. AnswerAgrees(fetch[f]) /\ fetch'[f] = fetch[f]
    BY <1>4, <1>7, <1>13 DEF AllAgree
  <2> QED BY <1>1, <1>3, <1>9, <2>1 DEF AnswerAgrees
<1> QED BY <1>2, <1>8, <1>9, <1>10, <1>11, <1>12, <1>13 DEF CanvasInv, AllAgree

(* The timer of a cascade, which marks what has failed.                       *)
LEMMA CascadeTimerPreserves ==
    ASSUME CanvasInv, NEW i \in Ids, CascadeTimer(i)
    PROVE  CanvasInv'
<1>1. /\ i \in timers /\ timers' = timers \ {i}
      /\ UNCHANGED <<killed, submit, wire, connected, task, retries, running, gens>>
  BY DEF CascadeTimer, net, backend
<1>2. /\ canvas \in Pictures /\ \A j \in Ids : j \in CanvasIds <=> j[2] = canvas.gen
      /\ task \in Snapshots /\ CanvasTypeOK /\ AllReal /\ AllAgree /\ SuffixesOK
  BY SavedTyped DEF CanvasInv
<1>3. task[i] = "failed"
  BY <1>1, <1>2 DEF AllReal
<1> DEFINE known == i \in CanvasIds
           gone == {j \in {i} : Superseded(j)}
           ids == IF known THEN {i} ELSE gone
<1>4. /\ canvas' = IF known THEN [canvas EXCEPT !.node = SetNode(i, "cascade-failed")] ELSE canvas
      /\ fetch' = Moved(ids) /\ dirty' = IF known THEN dirty ELSE dirty \cup gone
  BY DEF CascadeTimer, Unknown, Miss
<1>5. ids \in SUBSET Ids /\ gone \in SUBSET Ids
      /\ (i \in ids <=> Pictured(i)) /\ ids \subseteq {i}
      /\ (i \in gone <=> Superseded(i))
  BY <1>2 DEF Pictured
<1>6. i \in CanvasIds <=> i[2] = canvas.gen
  BY <1>2
<1> HIDE DEF ids, gone
<1>7. i[1] \in Names /\ i = <<i[1], i[2]>> /\ i[2] # 0
  BY DepsAreIds
<1>8. /\ canvas' \in Pictures /\ canvas'.gen = canvas.gen /\ canvas'.edge = canvas.edge
      /\ \A n \in Names : canvas'.node[n] =
            IF known /\ n = i[1] THEN "cascade-failed" ELSE canvas.node[n]
  BY <1>2, <1>4, <1>7 DEF Pictures, SetNode, NodeStates
<1>9. /\ fetch' \in [Fetches -> Requests]
      /\ \A f \in Fetches : fetch'[f].at = "answered" =>
            /\ fetch[f].at = "answered" /\ fetch'[f].snap = fetch[f].snap
            /\ fetch'[f].moved = fetch[f].moved \cup ids
  BY <1>2, <1>4, <1>5, MissTypes
<1>10. CanvasTypeOK'
  BY <1>1, <1>2, <1>4, <1>5, <1>8, <1>9 DEF CanvasTypeOK
<1>11. /\ SuffixesOK' /\ BatchesOK' /\ DepsOK'
       /\ \A j \in Ids : Pictured(j)' <=> Pictured(j)
  BY <1>1, <1>8, SameBatches
<1>12. AllReal'
  <2>1. \A n \in Names : Real(<<n, canvas'.gen>>, canvas'.node[n], task')
    <3> TAKE n \in Names
    <3>1. CASE known /\ n = i[1]
      <4>1. <<n, canvas.gen>> = i
        BY <1>6, <1>7, <3>1
      <4> QED BY <1>1, <1>3, <1>8, <3>1, <4>1 DEF Real
    <3>2. CASE ~(known /\ n = i[1])
      <4>1. Real(<<n, canvas.gen>>, canvas.node[n], task)
        BY <1>2 DEF AllReal, PictureReal
      <4> HIDE DEF known
      <4> QED BY <1>1, <1>8, <3>2, <4>1
    <3> QED BY <3>1, <3>2
  <2>2. PictureReal(canvas', task')
    BY <1>1, <1>2, <1>8, <2>1 DEF AllReal, PictureReal
  <2> QED BY <1>1, <1>2, <1>9, <2>2 DEF AllReal, Kept
<1>13. WireOK'
  BY <1>1 DEF CanvasInv, WireOK
<1>14. PictureAgrees(canvas)'
  <2> SUFFICES ASSUME NEW j \in Ids, j[2] = canvas.gen, task[j] # "none",
                      ~Coming(j, wire), j \notin dirty' \cup timers'
               PROVE  Agrees(canvas'.node[j[1]], task[j])
    BY <1>1, <1>8 DEF PictureAgrees
  <2>1. j[1] \in Names /\ j = <<j[1], j[2]>>
    BY DepsAreIds
  <2>2. CASE j = i
    <3>1. canvas'.node[i[1]] = "cascade-failed"
      BY <1>6, <1>7, <1>8, <2>2
    <3> QED BY <1>3, <2>2, <3>1 DEF Agrees
  <2>3. CASE j # i
    <3>1. canvas'.node[j[1]] = canvas.node[j[1]]
      BY <1>6, <1>7, <1>8, <2>1, <2>3
    <3>2. j \notin dirty \cup timers
      BY <1>1, <1>4, <2>3
    <3> QED BY <1>2, <3>1, <3>2 DEF AllAgree, PictureAgrees
  <2> QED BY <2>2, <2>3
<1>15. ASSUME NEW s \in Submits, Kept(s)' PROVE PictureAgrees(submit[s].saved)'
  <2> SUFFICES ASSUME NEW j \in Ids, j[2] = submit[s].saved.gen, task[j] # "none",
                      ~Coming(j, wire), j \notin dirty' \cup timers'
               PROVE  Agrees(submit[s].saved.node[j[1]], task[j])
    BY <1>1 DEF PictureAgrees
  <2>1. Kept(s) /\ Superseded(j) /\ j[2] # 0
    BY <1>1, <1>15, DepsAreIds DEF Kept, Superseded
  <2>2. j # i
    <3>1. j[2] # canvas.gen
      BY <1>2, <2>1 DEF SuffixesOK
    <3> QED BY <1>4, <1>5, <1>6, <2>1, <3>1
  <2>3. j \notin dirty \cup timers
    BY <1>1, <1>4, <2>2
  <2> QED BY <1>2, <2>1, <2>3 DEF AllAgree, PictureAgrees
<1>16. ASSUME NEW f \in Fetches, fetch'[f].at = "answered" PROVE AnswerAgrees(fetch[f])'
  <2>1. AnswerAgrees(fetch[f])
    BY <1>2, <1>9, <1>16 DEF AllAgree
  <2> SUFFICES ASSUME NEW j \in Ids, Pictured(j), fetch'[f].snap[j] # "none",
                      ~Coming(j, wire), j \notin fetch'[f].moved \cup timers'
               PROVE  Agrees(fetch'[f].snap[j], task[j])
    BY <1>1, <1>11 DEF AnswerAgrees
  <2>2. j # i
    BY <1>5, <1>9, <1>16
  <2> QED BY <1>1, <1>9, <1>16, <2>1, <2>2 DEF AnswerAgrees
<1> QED BY <1>10, <1>11, <1>12, <1>13, <1>14, <1>15, <1>16 DEF CanvasInv, AllAgree

-----------------------------------------------------------------------------
(* Snapshots                                                                  *)

(* A step of one request: nothing but the canvas and what is noted changes.   *)
LEMMA ServeFetchPreserves ==
    ASSUME CanvasInv, NEW f \in Fetches, ServeFetch(f)
    PROVE  CanvasInv'
<1> DEFINE answer == IF running THEN task ELSE [i \in Ids |-> "none"]
<1>1. /\ fetch[f].at = "asked"
      /\ fetch' = [fetch EXCEPT ![f].at = "answered", ![f].snap = answer]
      /\ UNCHANGED <<canvas, killed, timers, submit, wire, connected, task, retries, running,
                     gens, dirty>>
  BY DEF ServeFetch, net, backend
<1>2. CanvasTypeOK /\ task \in Snapshots /\ DepsOK /\ AllReal /\ AllAgree
  BY SavedTyped DEF CanvasInv
<1>3. answer \in Snapshots
  BY <1>2 DEF Snapshots, TaskStates
<1>4. fetch[f] \in [at : {"idle", "asked", "failed"}, then : BOOLEAN, snap : {<<>>}, moved : {{}}]
  BY <1>1, <1>2 DEF CanvasTypeOK, Requests
<1>5. /\ fetch' \in [Fetches -> Requests] /\ fetch'[f].snap = answer
      /\ \A g \in Fetches : g # f => fetch'[g] = fetch[g]
  <2>1. /\ fetch'[f] = [fetch[f] EXCEPT !.at = "answered", !.snap = answer]
        /\ \A g \in Fetches : g # f => fetch'[g] = fetch[g]
        /\ DOMAIN fetch' = Fetches /\ fetch' = [g \in Fetches |-> fetch'[g]]
    BY <1>1, <1>2 DEF CanvasTypeOK
  <2> HIDE DEF answer
  <2>2. fetch'[f] \in [at : {"answered"}, then : BOOLEAN, snap : Snapshots, moved : SUBSET Ids]
    BY <1>3, <1>4, <2>1
  <2>3. fetch'[f] \in Requests /\ fetch'[f].snap = answer
    BY <1>4, <2>1, <2>2 DEF Requests
  <2> QED BY <1>2, <2>1, <2>3 DEF CanvasTypeOK
<1>6. CanvasTypeOK'
  BY <1>1, <1>2, <1>5 DEF CanvasTypeOK
<1>7. SuffixesOK' /\ BatchesOK' /\ DepsOK' /\ \A i \in Ids : Pictured(i)' <=> Pictured(i)
  BY <1>1, SameBatches
<1>8. SnapshotReal(answer, task)
  BY <1>2 DEF SnapshotReal, Real, DepsOK, Snapshots, TaskStates
<1>9. \A i \in Ids : answer[i] # "none" => Agrees(answer[i], task[i])
  BY <1>2 DEF Agrees, Snapshots, TaskStates
<1> HIDE DEF answer
<1>10. AllReal'
  BY <1>1, <1>2, <1>5, <1>8 DEF AllReal, Kept
<1>11. WireOK'
  BY <1>1 DEF CanvasInv, WireOK
<1>12. PictureAgrees(canvas)' /\ \A s \in Submits : Kept(s)' => PictureAgrees(submit[s].saved)'
  BY <1>1, <1>2 DEF AllAgree, PictureAgrees, Kept
<1>13. ASSUME NEW g \in Fetches, fetch'[g].at = "answered" PROVE AnswerAgrees(fetch[g])'
  <2>1. CASE g = f
    BY <1>1, <1>5, <1>9, <2>1 DEF AnswerAgrees
  <2>2. CASE g # f
    BY <1>1, <1>2, <1>5, <1>7, <1>13, <2>2 DEF AllAgree, AnswerAgrees
  <2> QED BY <2>1, <2>2
<1> QED BY <1>6, <1>7, <1>10, <1>11, <1>12, <1>13 DEF CanvasInv, AllAgree

(* A request that fails, served or not, brings no snapshot.                   *)
LEMMA FetchFailsPreserves ==
    ASSUME CanvasInv, NEW f \in Fetches, FetchFails(f)
    PROVE  CanvasInv'
<1> DEFINE failed == [Asked(fetch[f].then) EXCEPT !.at = "failed"]
<1>1. /\ fetch' = [fetch EXCEPT ![f] = failed]
      /\ UNCHANGED <<canvas, killed, timers, submit, wire, connected, task, retries, running,
                     gens, dirty>>
  BY DEF FetchFails, net, backend
<1>2. CanvasTypeOK /\ task \in Snapshots /\ AllReal /\ AllAgree
  BY SavedTyped DEF CanvasInv
<1>3. failed \in Requests /\ failed.at = "failed"
  <2>1. fetch[f].then \in BOOLEAN
    BY <1>2 DEF CanvasTypeOK, Requests
  <2> QED BY <2>1 DEF Asked, NoFetch, Requests
<1> HIDE DEF failed
<1>4. /\ fetch' \in [Fetches -> Requests]
      /\ \A g \in Fetches : fetch'[g].at = "answered" => fetch'[g] = fetch[g]
  BY <1>1, <1>2, <1>3 DEF CanvasTypeOK
<1>5. CanvasTypeOK'
  BY <1>1, <1>2, <1>4 DEF CanvasTypeOK
<1>6. SuffixesOK' /\ BatchesOK' /\ DepsOK' /\ \A i \in Ids : Pictured(i)' <=> Pictured(i)
  BY <1>1, SameBatches
<1>7. AllReal'
  BY <1>1, <1>2, <1>4 DEF AllReal, Kept
<1>8. WireOK'
  BY <1>1 DEF CanvasInv, WireOK
<1>9. PictureAgrees(canvas)' /\ \A s \in Submits : Kept(s)' => PictureAgrees(submit[s].saved)'
  BY <1>1, <1>2 DEF AllAgree, PictureAgrees, Kept
<1>10. ASSUME NEW g \in Fetches, fetch'[g].at = "answered" PROVE AnswerAgrees(fetch[g])'
  BY <1>1, <1>2, <1>4, <1>6, <1>10 DEF AllAgree, AnswerAgrees
<1> QED BY <1>5, <1>6, <1>7, <1>8, <1>9, <1>10 DEF CanvasInv, AllAgree

(* An answer takes every task it names to the status it gives; what it is     *)
(* older than has been noted.                                                 *)
LEMMA FetchReturnsPreserves ==
    ASSUME CanvasInv, NEW f \in Fetches, FetchReturns(f)
    PROVE  CanvasInv'
<1> DEFINE a == fetch[f]
           seen == IF a.at = "failed" THEN {} ELSE {i \in CanvasIds \cap Ids : a.snap[i] # "none"}
           nodes == IF a.at = "failed" THEN canvas.node ELSE Reconstructed(a.snap)
           styles == IF a.then THEN [d \in Edges |-> "idle"] ELSE canvas.edge
<1>1. /\ a.at \in {"answered", "failed"}
      /\ canvas' = [canvas EXCEPT !.node = nodes, !.edge = styles]
      /\ dirty' = (dirty \ seen) \cup (seen \cap a.moved)
      /\ fetch' = [Moved(seen) EXCEPT ![f] = NoFetch]
      /\ UNCHANGED <<killed, timers, submit, wire, connected, task, retries, running, gens>>
  BY DEF FetchReturns, net, backend
<1>2. /\ canvas \in Pictures /\ \A s \in Submits : submit[s].saved \in Pictures
      /\ \A i \in Ids : i \in CanvasIds <=> i[2] = canvas.gen
      /\ task \in Snapshots /\ CanvasTypeOK /\ SuffixesOK /\ AllReal /\ AllAgree
  BY SavedTyped DEF CanvasInv
<1>3. /\ seen \in SUBSET Ids
      /\ \A i \in Ids : i \in seen <=> /\ i[2] = canvas.gen /\ a.at = "answered"
                                       /\ a.snap[i] # "none"
  BY <1>1, <1>2
<1>4. a.at = "answered" => a.snap \in Snapshots /\ SnapshotReal(a.snap, task) /\ AnswerAgrees(a)
  BY <1>2 DEF CanvasTypeOK, Requests, AllReal, AllAgree
<1>5. \A n \in Names : nodes[n] =
         IF <<n, canvas.gen>> \notin seen THEN canvas.node[n]
         ELSE IF <<n, canvas.gen>> \in killed THEN "cascade-failed" ELSE a.snap[<<n, canvas.gen>>]
  BY <1>1, <1>3 DEF Reconstructed
<1>6. nodes \in [Names -> NodeStates]
  <2>1. nodes = [n \in Names |-> nodes[n]]
    BY <1>2 DEF Reconstructed, Pictures
  <2>2. \A n \in Names : nodes[n] \in NodeStates
    <3> TAKE n \in Names
    <3>1. <<n, canvas.gen>> \in seen =>
             a.snap[<<n, canvas.gen>>] \in {"pending", "running", "completed", "failed"}
      BY <1>3, <1>4 DEF Snapshots, TaskStates
    <3>2. canvas.node[n] \in NodeStates
      BY <1>2 DEF Pictures
    <3> QED BY <1>5, <3>1, <3>2 DEF NodeStates
  <2> QED BY <2>1, <2>2
<1>7. styles \in [Edges -> EdgeStyles] /\ \A d \in Edges : styles[d] \in {"idle", canvas.edge[d]}
  BY <1>2 DEF EdgeStyles, Pictures
<1>8. /\ canvas' \in Pictures /\ canvas'.gen = canvas.gen
      /\ canvas'.node = nodes /\ canvas'.edge = styles
  <2> HIDE DEF nodes, styles
  <2> QED BY <1>1, <1>2, <1>6, <1>7 DEF Pictures
<1> HIDE DEF seen, nodes, styles
<1>9. /\ fetch' \in [Fetches -> Requests]
      /\ \A g \in Fetches : fetch'[g].at = "answered" =>
            /\ g # f /\ fetch[g].at = "answered" /\ fetch'[g].snap = fetch[g].snap
            /\ fetch'[g].moved = fetch[g].moved \cup seen
  <2>1. NoFetch \in Requests /\ NoFetch.at = "idle"
    BY DEF NoFetch, Requests
  <2>2. Moved(seen) \in [Fetches -> Requests]
    BY <1>2, <1>3, MissTypes
  <2>3. /\ fetch' \in [Fetches -> Requests] /\ fetch'[f].at = "idle"
        /\ \A g \in Fetches : g # f => fetch'[g] = Moved(seen)[g]
    BY <1>1, <2>1, <2>2
  <2> QED BY <1>2, <1>3, <2>3, MissTypes
<1>10. CanvasTypeOK'
  BY <1>1, <1>2, <1>3, <1>8, <1>9 DEF CanvasTypeOK
<1>11. SuffixesOK' /\ BatchesOK' /\ DepsOK' /\ \A i \in Ids : Pictured(i)' <=> Pictured(i)
  BY <1>1, <1>8, SameBatches
<1>12. AllReal'
  <2>1. \A n \in Names : Real(<<n, canvas.gen>>, nodes[n], task)
    <3> TAKE n \in Names
    <3> DEFINE i == <<n, canvas.gen>>
    <3>1. CASE i \notin seen
      BY <1>2, <1>5, <3>1 DEF AllReal, PictureReal
    <3>2. CASE i \in seen /\ i \in killed
      BY <1>2, <1>3, <1>5, <3>2 DEF AllReal, Real
    <3>3. CASE i \in seen /\ i \notin killed
      <4>1. i \in Ids /\ nodes[n] = a.snap[i] /\ a.snap[i] # "none"
        BY <1>3, <1>5, <3>3
      <4> HIDE DEF i
      <4>2. Real(i, a.snap[i], task)
        BY <1>3, <1>4, <3>3, <4>1 DEF SnapshotReal
      <4>3. Real(i, nodes[n], task)
        BY <4>1, <4>2
      <4> QED BY <4>3 DEF i
    <3> QED BY <3>1, <3>2, <3>3
  <2>2. PictureReal(canvas', task')
    BY <1>1, <1>2, <1>7, <1>8, <2>1 DEF AllReal, PictureReal
  <2> QED BY <1>1, <1>2, <1>9, <2>2 DEF AllReal, Kept
<1>13. WireOK'
  BY <1>1 DEF CanvasInv, WireOK
<1>14. PictureAgrees(canvas)'
  <2> SUFFICES ASSUME NEW i \in Ids, i[2] = canvas.gen, task[i] # "none",
                      ~Coming(i, wire), i \notin dirty' \cup timers
               PROVE  Agrees(nodes[i[1]], task[i])
    BY <1>1, <1>8 DEF PictureAgrees
  <2>1. i[1] \in Names /\ i = <<i[1], canvas.gen>>
    BY DepsAreIds
  <2>2. CASE i \notin seen
    BY <1>1, <1>2, <1>5, <2>1, <2>2 DEF AllAgree, PictureAgrees
  <2>3. CASE i \in seen /\ i \in killed
    <3>1. task[i] = "failed" /\ nodes[i[1]] = "cascade-failed"
      BY <1>2, <1>5, <2>1, <2>3 DEF AllReal
    <3> QED BY <3>1 DEF Agrees
  <2>4. CASE i \in seen /\ i \notin killed
    <3>1. nodes[i[1]] = a.snap[i] /\ i \notin a.moved /\ a.snap[i] # "none"
      BY <1>1, <1>3, <1>5, <2>1, <2>4
    <3>2. AnswerAgrees(a) /\ Pictured(i)
      BY <1>3, <1>4, <2>4 DEF Pictured
    <3> QED BY <3>1, <3>2 DEF AnswerAgrees
  <2> QED BY <2>2, <2>3, <2>4
<1>15. ASSUME NEW s \in Submits, Kept(s)' PROVE PictureAgrees(submit[s].saved)'
  <2> SUFFICES ASSUME NEW i \in Ids, i[2] = submit[s].saved.gen, task[i] # "none",
                      ~Coming(i, wire), i \notin dirty' \cup timers
               PROVE  Agrees(submit[s].saved.node[i[1]], task[i])
    BY <1>1 DEF PictureAgrees
  <2>1. Kept(s) /\ i[2] # 0
    BY <1>1, <1>15, DepsAreIds DEF Kept
  <2>2. i \notin seen
    BY <1>2, <1>3, <2>1 DEF SuffixesOK
  <2> QED BY <1>1, <1>2, <2>1, <2>2 DEF AllAgree, PictureAgrees
<1>16. ASSUME NEW g \in Fetches, fetch'[g].at = "answered" PROVE AnswerAgrees(fetch[g])'
  <2>1. AnswerAgrees(fetch[g])
    BY <1>2, <1>9, <1>16 DEF AllAgree
  <2> QED BY <1>1, <1>9, <1>11, <1>16, <2>1 DEF AnswerAgrees
<1> QED BY <1>10, <1>11, <1>12, <1>13, <1>14, <1>15, <1>16 DEF CanvasInv, AllAgree

-----------------------------------------------------------------------------
(* Submissions                                                                *)

(* A picture as it is kept already, or drawn for tasks nobody knows yet.      *)
Familiar(p) ==
    \/ p = canvas
    \/ \E s \in Submits : Kept(s) /\ p = submit[s].saved
    \/ \E g \in 0 .. MaxSubmits : p = Drawn(g) /\ \A i \in Ids : i[2] = g => task[i] = "none"

(* A template is a picture on which nothing has begun.                        *)
LEMMA DrawnTyped ==
    ASSUME NEW g \in 0 .. MaxSubmits
    PROVE  /\ Drawn(g) \in Pictures /\ Drawn(g).gen = g
           /\ \A n \in Names : Drawn(g).node[n] = "pending"
           /\ \A e \in Edges : Drawn(g).edge[e] = "idle"
BY DEF Drawn, Pictures, NodeStates, EdgeStyles

(* A picture that is known, or of which nothing has begun, is real and        *)
(* agrees.                                                                    *)
LEMMA KnownPicture ==
    ASSUME CanvasInv, NEW p, Familiar(p)
    PROVE  /\ p \in Pictures /\ PictureReal(p, task) /\ PictureAgrees(p)
           /\ \A i \in Ids : i[2] = p.gen => Pictured(i) \/ task[i] = "none"
<1>1. canvas \in Pictures /\ (\A s \in Submits : submit[s].saved \in Pictures)
      /\ AllReal /\ AllAgree
  BY SavedTyped DEF CanvasInv
<1>2. CASE p = canvas
  BY <1>1, <1>2 DEF AllReal, AllAgree, Pictured
<1>3. CASE \E s \in Submits : Kept(s) /\ p = submit[s].saved
  BY <1>1, <1>3 DEF AllReal, AllAgree, Pictured, Superseded, Kept
<1>4. CASE \E g \in 0 .. MaxSubmits : p = Drawn(g) /\ \A i \in Ids : i[2] = g => task[i] = "none"
  BY <1>4, DrawnTyped DEF PictureReal, PictureAgrees, Real
<1> QED BY <1>2, <1>3, <1>4 DEF Familiar

(* Changing one such picture for another keeps the invariant.                 *)
LEMMA PicturesStep ==
    ASSUME CanvasInv,
           UNCHANGED <<timers, fetch, wire, connected, task, retries, running, dirty>>,
           killed' \in SUBSET killed, submit' \in [Submits -> Submissions],
           gens' \in 0 .. MaxSubmits, SuffixesOK', BatchesOK',
           Familiar(canvas'), \A s \in Submits : Kept(s)' => Familiar(submit'[s].saved)
    PROVE  CanvasInv'
<1>1. CanvasTypeOK /\ DepsOK /\ AllReal /\ WireOK /\ AllAgree /\ task \in Snapshots
  BY SavedTyped DEF CanvasInv
<1>2. CanvasTypeOK'
  BY <1>1, KnownPicture DEF CanvasTypeOK
<1>3. DepsOK' /\ WireOK'
  BY <1>1 DEF DepsOK, DepsDone, WireOK
<1>4. AllReal'
  BY <1>1, KnownPicture DEF AllReal
<1>5. PictureAgrees(canvas)'
  BY KnownPicture DEF PictureAgrees
<1>6. ASSUME NEW s \in Submits, Kept(s)' PROVE PictureAgrees(submit[s].saved)'
  <2>1. PictureAgrees(submit'[s].saved)
    BY <1>6, KnownPicture
  <2> QED BY <2>1 DEF PictureAgrees
<1>7. ASSUME NEW f \in Fetches, fetch'[f].at = "answered" PROVE AnswerAgrees(fetch[f])'
  <2>1. AnswerAgrees(fetch[f]) /\ SnapshotReal(fetch[f].snap, task)
    BY <1>1, <1>7 DEF AllAgree, AllReal
  <2>2. \A i \in Ids : Pictured(i)' => Pictured(i) \/ task[i] = "none"
    <3> SUFFICES ASSUME NEW i \in Ids, Pictured(i)'
                 PROVE  Pictured(i) \/ task[i] = "none"
      OBVIOUS
    <3>1. CASE i[2] = canvas'.gen
      BY <3>1, KnownPicture
    <3>2. CASE Superseded(i)'
      BY <3>2, KnownPicture DEF Superseded, Kept
    <3> QED BY <3>1, <3>2 DEF Pictured
  <2> QED BY <2>1, <2>2 DEF AnswerAgrees, SnapshotReal
<1> QED BY <1>2, <1>3, <1>4, <1>5, <1>6, <1>7 DEF CanvasInv, AllAgree

(* handleSubmit keeps the canvas, and gives it a suffix no other has.         *)
LEMMA ClickSubmitPreserves ==
    ASSUME CanvasInv, NEW s \in Submits, ClickSubmit(s)
    PROVE  CanvasInv'
<1> DEFINE asked == [at |-> "asked", gen |-> gens + 1, saved |-> canvas]
<1>1. /\ submit[s].at = "idle" /\ gens < MaxSubmits /\ gens' = gens + 1 /\ killed' = {}
      /\ submit' = [submit EXCEPT ![s] = asked] /\ canvas' = Drawn(gens + 1)
      /\ UNCHANGED <<timers, fetch, wire, connected, task, retries, running, dirty>>
  BY DEF ClickSubmit, net, backend, Renamed
<1>2. CanvasTypeOK /\ SuffixesOK /\ BatchesOK /\ canvas \in Pictures
  BY SavedTyped DEF CanvasInv
<1>3. gens \in Nat /\ gens + 1 \in 0 .. MaxSubmits /\ canvas.gen \in Nat
      /\ \A u \in Submits : submit[u].gen \in Nat /\ submit[u].saved.gen \in Nat
  BY <1>1, <1>2, CanvasBounds DEF CanvasTypeOK, Submissions, Pictures
<1>4. asked \in Submissions
  BY <1>2, <1>3 DEF Submissions
<1>5. /\ submit' \in [Submits -> Submissions] /\ submit'[s] = asked
      /\ \A u \in Submits : u # s => submit'[u] = submit[u]
  BY <1>1, <1>2, <1>4 DEF CanvasTypeOK
<1>6. canvas'.gen = gens + 1
  BY <1>1, <1>3, DrawnTyped
<1>7. SuffixesOK'
  <2>1. /\ canvas'.gen <= gens'
        /\ \A u \in Submits : submit'[u].gen <= gens' /\ submit'[u].saved.gen <= gens
    BY <1>1, <1>2, <1>3, <1>5, <1>6 DEF SuffixesOK
  <2>2. \A u \in Submits : submit'[u].saved.gen <= gens' /\ submit'[u].saved.gen # canvas'.gen
    <3> TAKE u \in Submits
    <3>1. submit'[u].saved.gen \in Nat
      BY <1>3, <1>5
    <3> QED BY <1>1, <1>3, <1>6, <2>1, <3>1
  <2>3. ASSUME NEW u \in Submits, NEW v \in Submits, Kept(u)', Kept(v)',
               submit'[u].saved.gen = submit'[v].saved.gen, u # v
        PROVE  submit'[u].saved.gen = 0
    <3>1. CASE u # s /\ v # s
      BY <1>2, <1>5, <2>3, <3>1 DEF SuffixesOK, Kept
    <3>2. CASE u = s
      BY <1>2, <1>5, <2>3, <3>2 DEF SuffixesOK, Kept
    <3>3. CASE v = s
      BY <1>2, <1>5, <2>3, <3>3 DEF SuffixesOK, Kept
    <3> QED BY <3>1, <3>2, <3>3
  <2>4. ASSUME NEW u \in Submits, NEW v \in Submits, submit'[u].at = "asked",
               submit'[v].at = "asked", submit'[u].gen = submit'[v].gen
        PROVE  u = v
    <3>1. \A x \in Submits : submit[x].gen # gens + 1
      BY <1>2, <1>3 DEF SuffixesOK
    <3> QED BY <1>2, <1>5, <2>4, <3>1 DEF SuffixesOK
  <2> QED BY <2>1, <2>2, <2>3, <2>4 DEF SuffixesOK
<1>8. \A i \in Ids : i[2] = gens + 1 => task[i] = "none"
  BY <1>2, <1>3 DEF BatchesOK
<1>9. BatchesOK'
  <2>1. \A i \in Ids : i[2] \in Nat
    BY DepsAreIds
  <2>2. \A i \in Ids : task'[i] # "none" => i[2] <= gens'
    BY <1>1, <1>2, <1>3, <2>1 DEF BatchesOK
  <2>3. \A i, j \in Ids : task'[i] # "none" /\ i[2] = j[2] => task'[j] # "none"
    BY <1>1, <1>2 DEF BatchesOK
  <2>4. \A u \in Submits, i \in Ids :
           submit'[u].at = "asked" /\ submit'[u].gen = i[2] => task'[i] = "none"
    BY <1>1, <1>2, <1>5, <1>8 DEF BatchesOK
  <2> QED BY <2>2, <2>3, <2>4 DEF BatchesOK
<1>10. Familiar(canvas')
  BY <1>1, <1>3, <1>8 DEF Familiar
<1>11. \A u \in Submits : Kept(u)' => Familiar(submit'[u].saved)
  BY <1>5 DEF Familiar, Kept
<1> QED BY <1>1, <1>3, <1>5, <1>7, <1>9, <1>10, <1>11, PicturesStep

(* A batch is accepted, and its answer lost.                                  *)
LEMMA AnswerLostPreserves ==
    ASSUME CanvasInv, NEW s \in Submits, AnswerLost(s)
    PROVE  CanvasInv'
<1>1. /\ submit[s].at = "accepted" /\ submit' = [submit EXCEPT ![s].at = "refused"]
      /\ UNCHANGED <<canvas, gens, killed, timers, fetch, wire, connected, task, retries,
                     running, dirty>>
  BY DEF AnswerLost, net, backend
<1>2. CanvasTypeOK /\ SuffixesOK /\ BatchesOK
  BY DEF CanvasInv
<1>3. /\ submit' \in [Submits -> Submissions]
      /\ \A u \in Submits : /\ submit'[u].gen = submit[u].gen
                            /\ submit'[u].saved = submit[u].saved
                            /\ submit'[u].at = "asked" <=> submit[u].at = "asked"
                            /\ Kept(u)' <=> Kept(u)
  BY <1>1, <1>2 DEF CanvasTypeOK, Submissions, Kept
<1>4. SuffixesOK'
  BY <1>1, <1>2, <1>3 DEF SuffixesOK
<1>5. BatchesOK'
  BY <1>1, <1>2, <1>3 DEF BatchesOK
<1>6. Familiar(canvas') /\ \A u \in Submits : Kept(u)' => Familiar(submit'[u].saved)
  BY <1>1, <1>3 DEF Familiar
<1> QED BY <1>1, <1>2, <1>3, <1>4, <1>5, <1>6, PicturesStep DEF CanvasTypeOK

(* A refused submission puts its picture back, under the suffix it had.       *)
LEMMA SubmitReturnsPreserves ==
    ASSUME CanvasInv, NEW s \in Submits, SubmitReturns(s)
    PROVE  CanvasInv'
<1>1. /\ submit[s].at \in {"accepted", "refused"} /\ submit' = [submit EXCEPT ![s] = NoSubmit]
      /\ canvas' = IF submit[s].at = "refused" THEN submit[s].saved ELSE canvas
      /\ UNCHANGED <<gens, killed, timers, fetch, wire, connected, task, retries,
                     running, dirty>>
  BY DEF SubmitReturns, net, backend
<1>2. CanvasTypeOK /\ SuffixesOK /\ BatchesOK
  BY DEF CanvasInv
<1>3. /\ NoSubmit \in Submissions /\ NoSubmit.at = "idle" /\ NoSubmit.gen = 0
      /\ NoSubmit.saved.gen = 0
  BY CanvasBounds, DrawnTyped DEF NoSubmit, Submissions
<1>4. /\ submit' \in [Submits -> Submissions] /\ submit'[s] = NoSubmit
      /\ \A u \in Submits : u # s => submit'[u] = submit[u]
  BY <1>1, <1>2, <1>3 DEF CanvasTypeOK
<1>5. SuffixesOK'
  <2>1. gens >= 0
    BY <1>2 DEF CanvasTypeOK
  <2>2. canvas'.gen <= gens' /\ \A u \in Submits : submit'[u].gen <= gens'
                                                   /\ submit'[u].saved.gen <= gens'
    BY <1>1, <1>2, <1>3, <1>4, <2>1 DEF SuffixesOK
  <2>3. \A u \in Submits : Kept(u)' => submit'[u].saved.gen = 0 \/ submit'[u].saved.gen # canvas'.gen
    BY <1>1, <1>2, <1>3, <1>4 DEF SuffixesOK, Kept
  <2>4. \A u, v \in Submits :
           Kept(u)' /\ Kept(v)' /\ submit'[u].saved.gen = submit'[v].saved.gen
               => submit'[u].saved.gen = 0 \/ u = v
    BY <1>2, <1>3, <1>4 DEF SuffixesOK, Kept
  <2>5. \A u, v \in Submits :
           submit'[u].at = "asked" /\ submit'[v].at = "asked" /\ submit'[u].gen = submit'[v].gen
               => u = v
    BY <1>2, <1>3, <1>4 DEF SuffixesOK
  <2> QED BY <2>2, <2>3, <2>4, <2>5 DEF SuffixesOK
<1>6. BatchesOK'
  BY <1>1, <1>2, <1>3, <1>4 DEF BatchesOK
<1>7. Familiar(canvas') /\ \A u \in Submits : Kept(u)' => Familiar(submit'[u].saved)
  BY <1>1, <1>3, <1>4 DEF Familiar, Kept
<1> QED BY <1>1, <1>2, <1>4, <1>5, <1>6, <1>7, PicturesStep DEF CanvasTypeOK

(* A template replaces the canvas: nothing on it has begun.                   *)
LEMMA LoadTemplatePreserves ==
    ASSUME CanvasInv, LoadTemplate
    PROVE  CanvasInv'
<1>1. /\ canvas' = Drawn(0) /\ killed' = {}
      /\ UNCHANGED <<submit, gens, timers, fetch, wire, connected, task, retries,
                     running, dirty>>
  BY DEF LoadTemplate, net, backend
<1>2. CanvasTypeOK /\ SuffixesOK /\ BatchesOK
  BY DEF CanvasInv
<1>3. canvas'.gen = 0 /\ 0 \in 0 .. MaxSubmits /\ gens >= 0
  BY <1>1, <1>2, CanvasBounds, DrawnTyped DEF CanvasTypeOK
<1>4. SuffixesOK'
  BY <1>1, <1>2, <1>3 DEF SuffixesOK, Kept
<1>5. BatchesOK'
  BY <1>1, <1>2 DEF BatchesOK
<1>6. \A i \in Ids : i[2] # 0
  BY DepsAreIds
<1>7. Familiar(canvas')
  BY <1>1, <1>3, <1>6 DEF Familiar
<1>8. \A u \in Submits : Kept(u)' => Familiar(submit'[u].saved)
  BY <1>1 DEF Familiar, Kept
<1> QED BY <1>1, <1>2, <1>4, <1>5, <1>7, <1>8, PicturesStep DEF CanvasTypeOK

(* An event is about tasks that the scheduler has.                            *)
LEMMA EventKnown ==
    ASSUME NEW e \in Events, EventReal(e, task), NEW i \in About(e)
    PROVE  task[i] # "none"
<1>1. CASE e.type \in TaskTypes
  <2>1. i = e.id /\ StatusOf(e.type) # "pending"
    BY <1>1 DEF About, TaskTypes, StatusOf
  <2> QED BY <1>1, <2>1 DEF EventReal, Real
<1>2. CASE e.type = "cascade"
  BY <1>2 DEF About, EventReal
<1>3. CASE e.type = "system"
  BY <1>3 DEF About
<1> QED BY <1>1, <1>2, <1>3 DEF Events

(* A batch that is accepted makes its tasks, which were drawn as pending, so. *)
LEMMA AcceptPreserves ==
    ASSUME CanvasInv, NEW s \in Submits, submit[s].at = "asked",
           task' = [i \in Ids |-> IF i[2] = submit[s].gen THEN "pending" ELSE task[i]],
           submit' = [submit EXCEPT ![s].at = "accepted"],
           UNCHANGED <<canvas, killed, timers, fetch, wire, connected, retries, running,
                       gens, dirty>>
    PROVE  CanvasInv'
<1> DEFINE new == {i \in Ids : i[2] = submit[s].gen}
<1>1. CanvasTypeOK /\ SuffixesOK /\ BatchesOK /\ AllReal /\ AllAgree /\ DepsOK /\ WireOK
      /\ task \in Snapshots /\ wire \in Seq(Events)
      /\ canvas \in Pictures /\ \A u \in Submits : submit[u].saved \in Pictures
      /\ \A f \in Fetches : fetch[f].at = "answered" => fetch[f].snap \in Snapshots
  BY SavedTyped DEF CanvasInv, CanvasTypeOK
<1>2. \A i \in new : task[i] = "none"
  BY <1>1 DEF BatchesOK
<1>3. task' \in Snapshots
      /\ \A i \in Ids : task'[i] = IF i \in new THEN "pending" ELSE task[i]
  BY <1>1 DEF Snapshots, TaskStates
<1>4. /\ \A i \in Ids : task[i] # "none" => task'[i] = task[i]
      /\ \A i \in Ids : task'[i] # task[i] => task[i] = "none" /\ task'[i] = "pending"
  BY <1>2, <1>3
<1>5. /\ \A i \in Ids : DepsDone(i, task) => DepsDone(i, task')
      /\ \A p \in Pictures : PictureReal(p, task) => PictureReal(p, task')
      /\ \A e \in Events : EventReal(e, task) => EventReal(e, task')
      /\ \A snap \in Snapshots : SnapshotReal(snap, task) => SnapshotReal(snap, task')
  BY <1>1, <1>3, <1>4, RealStays
<1>6. /\ submit' \in [Submits -> Submissions]
      /\ \A u \in Submits : /\ submit'[u].gen = submit[u].gen
                            /\ submit'[u].saved = submit[u].saved
                            /\ submit'[u].at = "asked" => submit[u].at = "asked" /\ u # s
                            /\ Kept(u)' <=> Kept(u)
  BY <1>1 DEF CanvasTypeOK, Submissions, Kept
<1>7. CanvasTypeOK'
  BY <1>1, <1>3, <1>6 DEF CanvasTypeOK, Snapshots
<1>8. SuffixesOK'
  BY <1>1, <1>6 DEF SuffixesOK
<1>9. BatchesOK'
  <2>1. \A i \in Ids : task'[i] # "none" => i[2] <= gens'
    BY <1>1, <1>3 DEF BatchesOK, SuffixesOK
  <2>2. \A i, j \in Ids : task'[i] # "none" /\ i[2] = j[2] => task'[j] # "none"
    BY <1>1, <1>3 DEF BatchesOK
  <2>3. \A u \in Submits, i \in Ids :
           submit'[u].at = "asked" /\ submit'[u].gen = i[2] => task'[i] = "none"
    BY <1>1, <1>3, <1>6 DEF BatchesOK, SuffixesOK
  <2> QED BY <2>1, <2>2, <2>3 DEF BatchesOK
<1>10. DepsOK'
  BY <1>1, <1>3, <1>4, <1>5 DEF DepsOK
<1>11. \A k \in 1 .. Len(wire) : wire[k] \in Events /\ EventReal(wire[k], task)
  BY <1>1, ElementOfSeq DEF AllReal
<1>12. AllReal'
  <2>1. \A k \in 1 .. Len(wire') : EventReal(wire'[k], task')
    BY <1>5, <1>11
  <2>2. \A i \in timers' \cup killed' : task'[i] = "failed"
    BY <1>1, <1>4 DEF AllReal, CanvasTypeOK
  <2>3. /\ PictureReal(canvas', task')
        /\ \A u \in Submits : Kept(u)' => PictureReal(submit'[u].saved, task')
    BY <1>1, <1>5, <1>6 DEF AllReal
  <2>4. \A f \in Fetches : fetch'[f].at = "answered" => SnapshotReal(fetch'[f].snap, task')
    BY <1>1, <1>5 DEF AllReal
  <2> QED BY <2>1, <2>2, <2>3, <2>4 DEF AllReal
<1>13. WireOK'
  <2>1. ASSUME NEW i \in Ids, NEW k \in 1 .. Len(wire), LastAbout(i, k, wire), connected
        PROVE  task'[i] = Said(wire[k])
    <3>1. task[i] # "none"
      BY <1>11, <2>1, EventKnown DEF LastAbout
    <3> QED BY <1>1, <1>4, <2>1, <3>1 DEF WireOK
  <2> QED BY <1>1, <2>1 DEF WireOK
<1>14. ASSUME NEW p \in Pictures, PictureReal(p, task), PictureAgrees(p)
       PROVE  PictureAgrees(p)'
  <2> SUFFICES ASSUME NEW i \in Ids, i[2] = p.gen, task'[i] # "none",
                      ~Coming(i, wire), i \notin dirty \cup timers
               PROVE  Agrees(p.node[i[1]], task'[i])
    BY DEF PictureAgrees
  <2>1. CASE task[i] # "none"
    BY <1>4, <1>14, <2>1 DEF PictureAgrees
  <2>2. CASE task[i] = "none"
    <3>1. i[1] \in Names /\ i = <<i[1], p.gen>>
      BY DepsAreIds
    <3>2. p.node[i[1]] = "pending"
      BY <1>14, <2>2, <3>1 DEF PictureReal, Real
    <3>3. task'[i] = "pending"
      BY <1>4, <2>2
    <3> QED BY <3>2, <3>3 DEF Agrees
  <2> QED BY <2>1, <2>2
<1>15. PictureAgrees(canvas)'
  <2>1. PictureReal(canvas, task) /\ PictureAgrees(canvas)
    BY <1>1 DEF AllReal, AllAgree
  <2>2. \A p \in Pictures : PictureReal(p, task) /\ PictureAgrees(p) => PictureAgrees(p)'
    BY <1>14
  <2> QED BY <1>1, <2>1, <2>2 DEF PictureAgrees
<1>16. ASSUME NEW u \in Submits, Kept(u)' PROVE PictureAgrees(submit[u].saved)'
  <2>1. PictureReal(submit[u].saved, task) /\ PictureAgrees(submit[u].saved)
    BY <1>1, <1>6, <1>16 DEF AllReal, AllAgree
  <2>2. \A p \in Pictures : PictureReal(p, task) /\ PictureAgrees(p) => PictureAgrees(p)'
    BY <1>14
  <2> QED BY <1>1, <1>6, <2>1, <2>2 DEF PictureAgrees
<1>17. ASSUME NEW f \in Fetches, fetch'[f].at = "answered" PROVE AnswerAgrees(fetch[f])'
  <2>1. AnswerAgrees(fetch[f]) /\ SnapshotReal(fetch[f].snap, task)
    BY <1>1, <1>17 DEF AllAgree, AllReal
  <2>2. \A i \in Ids : Pictured(i)' <=> Pictured(i)
    BY <1>6 DEF Pictured, Superseded, Kept
  <2> QED BY <1>4, <2>1, <2>2 DEF AnswerAgrees, SnapshotReal
<1> QED BY <1>7, <1>8, <1>9, <1>10, <1>12, <1>13, <1>15, <1>16, <1>17 DEF CanvasInv, AllAgree

(* A batch reaches the scheduler, which knows none of its tasks.              *)
LEMMA ServeSubmitPreserves ==
    ASSUME CanvasInv, NEW s \in Submits, ServeSubmit(s)
    PROVE  CanvasInv'
<1>1. /\ submit[s].at = "asked"
      /\ UNCHANGED <<canvas, killed, timers, fetch, wire, connected, retries, running,
                     gens, dirty>>
  BY DEF ServeSubmit, net
<1>2. CASE /\ task' = [i \in Ids |-> IF i[2] = submit[s].gen THEN "pending" ELSE task[i]]
           /\ submit' = [submit EXCEPT ![s].at = "accepted"]
  BY <1>1, <1>2, AcceptPreserves
<1>3. CASE UNCHANGED task /\ submit' = [submit EXCEPT ![s].at = "refused"]
  <2>1. CanvasTypeOK /\ SuffixesOK /\ BatchesOK
    BY DEF CanvasInv
  <2>2. /\ submit' \in [Submits -> Submissions]
        /\ \A u \in Submits : /\ submit'[u].gen = submit[u].gen
                              /\ submit'[u].saved = submit[u].saved
                              /\ submit'[u].at = "asked" => submit[u].at = "asked"
                              /\ Kept(u)' <=> Kept(u)
    BY <1>1, <1>3, <2>1 DEF CanvasTypeOK, Submissions, Kept
  <2>3. SuffixesOK'
    BY <1>1, <2>1, <2>2 DEF SuffixesOK
  <2>4. BatchesOK'
    BY <1>1, <1>3, <2>1, <2>2 DEF BatchesOK
  <2>5. Familiar(canvas') /\ \A u \in Submits : Kept(u)' => Familiar(submit'[u].saved)
    BY <1>1, <2>2 DEF Familiar
  <2> QED BY <1>1, <1>3, <2>1, <2>2, <2>3, <2>4, <2>5, PicturesStep DEF CanvasTypeOK
<1> QED BY <1>2, <1>3 DEF ServeSubmit

(* A page that is loaded again knows of nothing, and says so.                 *)
LEMMA ReloadPreserves ==
    ASSUME CanvasInv, Reload
    PROVE  CanvasInv'
<1>1. /\ canvas' = Drawn(0) /\ killed' = {} /\ timers' = {}
      /\ wire' = <<>> /\ connected' = FALSE /\ dirty' = Ids
      /\ UNCHANGED <<submit, task, retries, running, gens>>
      /\ \A s \in Submits : submit[s].at = "idle"
  BY DEF Reload, backend
<1>2. PICK f \in Fetches : fetch' = [g \in Fetches |-> IF g = f THEN Asked(FALSE) ELSE NoFetch]
  BY DEF Reload
<1>3. CanvasTypeOK /\ SuffixesOK /\ BatchesOK
  BY DEF CanvasInv
<1>4. fetch' \in [Fetches -> Requests] /\ \A g \in Fetches : fetch'[g].at # "answered"
  <2>1. NoFetch \in Requests /\ NoFetch.at = "idle"
    BY DEF NoFetch, Requests
  <2>2. Asked(FALSE) \in Requests /\ Asked(FALSE).at = "asked"
    BY AskedTyped
  <2> QED BY <1>2, <2>1, <2>2
<1>5. canvas' \in Pictures /\ canvas'.gen = 0 /\ gens >= 0
      /\ (\A n \in Names : canvas'.node[n] = "pending")
      /\ \A e \in Edges : canvas'.edge[e] = "idle"
  BY <1>1, <1>3, CanvasBounds, DrawnTyped DEF CanvasTypeOK
<1>6. wire' \in Seq(Events) /\ Len(wire') = 0
  BY <1>1
<1>7. CanvasTypeOK'
  BY <1>1, <1>3, <1>4, <1>5, <1>6 DEF CanvasTypeOK
<1>8. SuffixesOK' /\ BatchesOK' /\ DepsOK'
  BY <1>1, <1>3, <1>5 DEF CanvasInv, SuffixesOK, BatchesOK, DepsOK, DepsDone, Kept
<1>9. AllReal'
  <2>1. PictureReal(canvas', task')
    BY <1>5 DEF PictureReal, Real
  <2>2. \A k \in 1 .. Len(wire') : EventReal(wire'[k], task')
    BY <1>6
  <2> QED BY <1>1, <1>4, <2>1, <2>2 DEF AllReal, Kept
<1>10. WireOK' /\ AllAgree'
  BY <1>1, <1>4 DEF WireOK, AllAgree, PictureAgrees, Kept
<1> QED BY <1>7, <1>8, <1>9, <1>10 DEF CanvasInv

-----------------------------------------------------------------------------
(* The theorems                                                               *)

(* The invariant holds at first, and every step keeps it.                     *)
LEMMA CanvasInit == Init => CanvasInv
<1> SUFFICES ASSUME Init PROVE CanvasInv
  OBVIOUS
<1>1. PICK f \in Fetches : fetch = [g \in Fetches |-> IF g = f THEN Asked(FALSE) ELSE NoFetch]
  BY DEF Init
<1>2. fetch \in [Fetches -> Requests] /\ \A g \in Fetches : fetch[g].at # "answered"
  <2>1. NoFetch \in Requests /\ NoFetch.at = "idle"
    BY DEF NoFetch, Requests
  <2> QED BY <1>1, <2>1, AskedTyped
<1>3. canvas \in Pictures /\ canvas.gen = 0
      /\ (\A n \in Names : canvas.node[n] = "pending")
      /\ \A e \in Edges : canvas.edge[e] = "idle"
  BY CanvasBounds, DrawnTyped DEF Init
<1>4. NoSubmit \in Submissions /\ NoSubmit.at = "idle" /\ NoSubmit.gen = 0 /\ NoSubmit.saved.gen = 0
  BY CanvasBounds, DrawnTyped DEF NoSubmit, Submissions
<1>5. wire \in Seq(Events) /\ Len(wire) = 0
  BY DEF Init
<1>6. CanvasTypeOK
  <2>1. task \in [Ids -> TaskStates] /\ retries \in [Ids -> Nat]
    BY DEF Init, TaskStates
  <2>2. submit \in [Submits -> Submissions]
    BY <1>4 DEF Init
  <2>3. gens \in 0 .. MaxSubmits
    BY CanvasBounds DEF Init
  <2> QED BY <1>2, <1>3, <1>5, <2>1, <2>2, <2>3 DEF Init, CanvasTypeOK
<1>7. SuffixesOK /\ BatchesOK /\ DepsOK
  BY <1>3, <1>4 DEF Init, SuffixesOK, BatchesOK, DepsOK, Kept
<1>8. AllReal
  <2>1. PictureReal(canvas, task)
    BY <1>3 DEF PictureReal, Real
  <2>2. \A k \in 1 .. Len(wire) : EventReal(wire[k], task)
    BY <1>5
  <2>3. timers \cup killed = {} /\ \A s \in Submits : ~Kept(s)
    BY <1>4 DEF Init, Kept
  <2> QED BY <1>2, <2>1, <2>2, <2>3 DEF AllReal
<1>9. WireOK
  BY <1>5 DEF Init, WireOK
<1>10. AllAgree
  BY <1>2, <1>4 DEF Init, AllAgree, PictureAgrees, Kept
<1> QED BY <1>6, <1>7, <1>8, <1>9, <1>10 DEF CanvasInv

LEMMA CanvasNext == CanvasInv /\ [Next]_vars => CanvasInv'
<1> SUFFICES ASSUME CanvasInv, [Next]_vars PROVE CanvasInv'
  OBVIOUS
<1>1. ASSUME NEW i \in Ids, Start(i) \/ Complete(i) \/ Retry(i) \/ Fail(i) PROVE CanvasInv'
  BY <1>1, StartStep, CompleteStep, RetryStep, FailStep, BackendPreserves
<1>2. ASSUME NEW i \in Ids, CascadeTimer(i) PROVE CanvasInv'
  BY <1>2, CascadeTimerPreserves
<1>3. CASE Crash \/ Recover \/ Disconnect \/ Reconnect
  BY <1>3, CrashStep, RecoverStep, DisconnectStep, ReconnectStep, BackendPreserves
<1>4. CASE OnMessage
  <2>1. OnTaskEvent(Head(wire)) \/ OnCascade(Head(wire)) \/ OnSystemEvent(Head(wire))
    BY <1>4 DEF OnMessage
  <2> QED BY <1>4, <2>1, OnTaskEventPreserves, OnCascadePreserves, OnSystemEventPreserves
<1>5. ASSUME NEW f \in Fetches, ServeFetch(f) \/ FetchFails(f) \/ FetchReturns(f)
      PROVE  CanvasInv'
  BY <1>5, ServeFetchPreserves, FetchFailsPreserves, FetchReturnsPreserves
<1>6. ASSUME NEW s \in Submits,
             ClickSubmit(s) \/ ServeSubmit(s) \/ AnswerLost(s) \/ SubmitReturns(s)
      PROVE  CanvasInv'
  BY <1>6, ClickSubmitPreserves, ServeSubmitPreserves, AnswerLostPreserves,
     SubmitReturnsPreserves
<1>7. CASE LoadTemplate \/ Reload
  BY <1>7, LoadTemplatePreserves, ReloadPreserves
<1>8. CASE UNCHANGED vars
  <2>1. UNCHANGED <<canvas, killed, timers, submit, fetch, wire, connected, task, retries,
                    running, gens, dirty>>
    BY <1>8 DEF vars, page, net, backend
  <2>2. BackendStep
    <3>1. CanvasTypeOK /\ DepsOK /\ WireOK /\ AllReal
      BY DEF CanvasInv
    <3>2. Later(task, task') /\ Traced /\ DepsOK' /\ WireOK'
      BY <2>1, <3>1 DEF Later, Traced, DepsOK, DepsDone, WireOK
    <3> QED BY <2>1, <3>1, <3>2 DEF BackendStep, CanvasTypeOK, Snapshots, AllReal
  <2> QED BY <2>2, BackendPreserves
<1> QED BY <1>1, <1>2, <1>3, <1>4, <1>5, <1>6, <1>7, <1>8 DEF Next

(* Type correctness, and the invariant of the canvas.                         *)
THEOREM CanvasInvariance == Spec => []CanvasInv
<1> QED BY CanvasInit, CanvasNext, PTL DEF Spec

(* The canvas never shows an outcome the scheduler has not reached, whatever  *)
(* snapshot, event, timer or restored picture it comes from.                  *)
THEOREM OutcomesAlwaysReal == Spec => []OutcomesAreReal
<1>1. CanvasInv => OutcomesAreReal
  <2> SUFFICES ASSUME CanvasInv PROVE OutcomesAreReal
    OBVIOUS
  <2>1. PictureReal(canvas, task)
    BY DEF CanvasInv, AllReal
  <2> QED BY <2>1 DEF PictureReal, Real, OutcomesAreReal, StatusNow
<1> QED BY <1>1, CanvasInvariance, PTL

(* When nothing is under way the canvas agrees with the scheduler on every    *)
(* task of which it has not missed an event.                                  *)
THEOREM CanvasCatchesUp == Spec => []CanvasAgrees
<1>1. CanvasInv => CanvasAgrees
  <2> SUFFICES ASSUME CanvasInv, Quiet, NEW n \in Names, StatusNow(n) # "none",
                      <<n, canvas.gen>> \notin dirty
               PROVE  Agrees(canvas.node[n], StatusNow(n))
    BY DEF CanvasAgrees
  <2> DEFINE i == <<n, canvas.gen>>
  <2>1. i \in Ids /\ StatusNow(n) = task[i] /\ task[i] # "none" /\ i[1] = n /\ i[2] = canvas.gen
    BY DEF StatusNow
  <2>2. ~Coming(i, wire) /\ i \notin dirty \cup timers
    BY DEF Quiet, Coming
  <2> HIDE DEF i
  <2>3. PictureAgrees(canvas)
    BY DEF CanvasInv, AllAgree
  <2> QED BY <2>1, <2>2, <2>3 DEF PictureAgrees
<1> QED BY <1>1, CanvasInvariance, PTL

(* A task that the dependency view calls ready, or that is shown running, has *)
(* its dependencies completed by the scheduler.                               *)
THEOREM ReadyAlwaysReal == Spec => []ReadyIsReal
<1>1. CanvasInv => ReadyIsReal
  <2> SUFFICES ASSUME CanvasInv, NEW e \in Edges, DependencyLabel(e[2]) \in {"READY", "running"}
               PROVE  StatusNow(e[1]) = "completed"
    BY DEF ReadyIsReal
  <2>1. PictureReal(canvas, task) /\ canvas \in Pictures
    BY DEF CanvasInv, AllReal, CanvasTypeOK
  <2>2. e[1] \in Names /\ e[2] \in Names
    BY CanvasBounds
  <2>3. CASE canvas.node[e[2]] = "pending"
    <3> DEFINE open == {d \in Edges : d[2] = e[2] /\ canvas.node[d[1]] # "completed"}
    <3>1. Remaining(e[2]) = 0
      BY <2>3 DEF DependencyLabel
    <3>2. IsFiniteSet(open)
      <4>1. IsFiniteSet(Names \X Names)
        BY CanvasBounds, FS_Product
      <4> QED BY <4>1, CanvasBounds, FS_Subset
    <3>3. open = {}
      BY <3>1, <3>2, FS_EmptySet DEF Remaining
    <3>4. canvas.node[e[1]] = "completed"
      BY <3>3
    <3> QED BY <2>1, <2>2, <3>4 DEF PictureReal, Real, StatusNow
  <2>4. CASE canvas.node[e[2]] # "pending"
    <3> DEFINE i == <<e[2], canvas.gen>>
               d == <<e[1], canvas.gen>>
    <3>1. canvas.node[e[2]] = "running"
      <4>1. canvas.node[e[2]] \in NodeStates
        BY <2>1, <2>2 DEF Pictures
      <4>2. DependencyLabel(e[2]) = canvas.node[e[2]]
        BY <2>4 DEF DependencyLabel
      <4> QED BY <4>1, <4>2 DEF NodeStates
    <3>2. i \in Ids /\ DepsDone(i, task)
      BY <2>1, <2>2, <3>1 DEF PictureReal, Real
    <3>3. d \in Deps(i)
      BY DEF Deps
    <3>4. d \in Ids /\ task[d] = "completed"
      BY <3>2, <3>3, DepsAreIds DEF DepsDone
    <3> QED BY <3>4 DEF StatusNow
  <2> QED BY <2>3, <2>4
<1> QED BY <1>1, CanvasInvariance, PTL
=============================================================================
