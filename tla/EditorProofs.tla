------------------------------ MODULE EditorProofs ------------------------------
(* The graph stays a graph through any edits, submissions and refusals, and   *)
(* the server accepts exactly the batches that can be executed, for batches   *)
(* of any size. What the recursive definitions of Editor compute is proved by *)
(* induction over the naturals, with sets in the place of predicates.         *)
EXTENDS Editor, TLAPS, SequenceTheorems, FunctionTheorems, FiniteSetTheorems,
        WellFoundedInduction

-----------------------------------------------------------------------------
(* Induction and recursion                                                    *)

(* A set of naturals that is not empty has a least element.                   *)
LEMMA Least ==
    ASSUME NEW S \in SUBSET Nat, S # {}
    PROVE  \E m \in S : \A n \in S : m <= n
<1> DEFINE R == OpToRel(<, Nat)
<1>1. IsWellFoundedOn(R, Nat)
  BY NatLessThanWellFounded
<1>2. \A x, y \in Nat : x < y => <<x, y>> \in R
  BY DEF OpToRel
<1> HIDE DEF R
<1>3. PICK m \in S : \A n \in S : ~(<<n, m>> \in R)
  BY <1>1, WFMin
<1>4. \A n \in S : m <= n
  <2> TAKE n \in S
  <2>1. m \in Nat /\ n \in Nat /\ ~(n < m)
    BY <1>2, <1>3
  <2> QED BY <2>1
<1> QED
  BY <1>4

(* What holds of 0, and of k + 1 if of k, for each k below n, holds up to n.  *)
LEMMA UpTo ==
    ASSUME NEW n \in Nat, NEW S, 0 \in S, \A k \in 0 .. n - 1 : k \in S => k + 1 \in S
    PROVE  0 .. n \subseteq S
<1> DEFINE Out == {k \in 0 .. n : k \notin S}
<1> SUFFICES ASSUME Out # {} PROVE FALSE
  OBVIOUS
<1>1. Out \in SUBSET Nat
  OBVIOUS
<1>2. PICK m \in Out : \A k \in Out : m <= k
  BY <1>1, Least
<1>3. m # 0 /\ m - 1 \in 0 .. n - 1 /\ m - 1 \notin Out
  BY <1>2
<1> QED
  BY <1>2, <1>3

(* f does the steps one after the other, from base on.                        *)
Recurs(f, n, X, base, Step) ==
    /\ f \in [0 .. n -> X]
    /\ f[0] = base
    /\ \A k \in 1 .. n : f[k] = Step[k][f[k - 1]]
(* A recursion whose steps stay in X defines a function into X.               *)
LEMMA Recursion ==
    ASSUME NEW n \in Nat, NEW X, NEW base \in X, NEW Step \in [1 .. n -> [X -> X]]
    PROVE  \E f : Recurs(f, n, X, base, Step)
<1> DEFINE Upto(m, f) == f[0] = base /\ \A k \in 1 .. m : f[k] = Step[k][f[k - 1]]
           Some == {m \in 0 .. n : \E f \in [0 .. m -> X] : Upto(m, f)}
<1>1. 0 \in Some
  <2> DEFINE g == [k \in 0 .. 0 |-> base]
  <2>1. g \in [0 .. 0 -> X] /\ Upto(0, g)
    OBVIOUS
  <2> HIDE DEF g, Upto
  <2> QED BY <2>1
<1>2. ASSUME NEW m \in 0 .. n - 1, m \in Some PROVE m + 1 \in Some
  <2>1. PICK f \in [0 .. m -> X] : Upto(m, f)
    BY <1>2
  <2> DEFINE g == [k \in 0 .. m + 1 |-> IF k = m + 1 THEN Step[m + 1][f[m]] ELSE f[k]]
  <2>2. Step[m + 1][f[m]] \in X
    BY <2>1
  <2>3. g \in [0 .. m + 1 -> X]
    BY <2>1, <2>2
  <2>4. Upto(m + 1, g)
    BY <2>1
  <2>5. m + 1 \in 0 .. n
    OBVIOUS
  <2> HIDE DEF g, Upto
  <2> QED BY <2>3, <2>4, <2>5
<1>3. n \in Some
  <2> HIDE DEF Some
  <2>1. 0 .. n \subseteq Some
    BY <1>1, <1>2, UpTo
  <2> QED BY <2>1
<1> QED
  BY <1>3 DEF Recurs

-----------------------------------------------------------------------------
(* The validation of the server                                               *)

IdSet == [name : {"T", "word"}, number : Nat, sent : Seq(Nat)]
Payloads == {"work", "sleep", "fail"}
NodeSet == [id : IdSet, payload : Payloads]
TaskSet == [id : IdSet, payload : Payloads, deps : SUBSET IdSet]

Ready(ts, S) == {ts[j].id : j \in {i \in DOMAIN ts : ts[i].deps \subseteq S}}
Layers(ts, R) ==
    /\ R \in [0 .. Len(ts) -> SUBSET IdsOf(ts)]
    /\ R[0] = {}
    /\ \A k \in 1 .. Len(ts) : R[k] = R[k - 1] \cup Ready(ts, R[k - 1])

(* Kahn's algorithm goes through the layers of the graph.                     *)
LEMMA VisitedLayers ==
    ASSUME NEW ts \in Seq(TaskSet)
    PROVE  \E R : Layers(ts, R) /\ Visited(ts) = R[Len(ts)]
<1> DEFINE n == Len(ts)
           X == SUBSET IdsOf(ts)
           Step == [k \in 1 .. n |-> [S \in X |-> S \cup Ready(ts, S)]]
           Is(g) == g = [k \in 0 .. n |->
                            IF k = 0 THEN {}
                            ELSE LET before == g[k-1]
                                 IN before \cup {ts[j].id : j \in
                                        {i \in DOMAIN ts : ts[i].deps \subseteq before}}]
           g == CHOOSE f : Is(f)
<1>1. n \in Nat /\ {} \in X
  OBVIOUS
<1>2. \A S \in X : S \cup Ready(ts, S) \in X
  BY DEF Ready, IdsOf
<1>3. Step \in [1 .. n -> [X -> X]]
  BY <1>2
<1> HIDE DEF n, X
<1>4. PICK f : Recurs(f, n, X, {}, Step)
  <2> HIDE DEF Step
  <2> QED BY <1>1, <1>3, Recursion
<1>5. \A k \in 1 .. n : k - 1 \in 0 .. n /\ f[k] = f[k - 1] \cup Ready(ts, f[k - 1])
  BY <1>1, <1>4 DEF Recurs
<1>6. Is(f)
  BY <1>1, <1>4, <1>5 DEF Ready, Recurs
<1>7. Is(g)
  <2> HIDE DEF Is
  <2> QED BY <1>6
<1>8. Visited(ts) = g[n]
  BY DEF Visited, n
<1> HIDE DEF g
<1>9. g[0] = {} /\ \A k \in 1 .. n : k - 1 \in 0 .. n /\ g[k] = g[k - 1] \cup Ready(ts, g[k - 1])
  <2>1. 0 \in 0 .. n /\ \A k \in 1 .. n : k # 0 /\ k \in 0 .. n /\ k - 1 \in 0 .. n
    BY <1>1
  <2>2. g[0] = {}
    BY <1>7, <2>1
  <2>3. ASSUME NEW k \in 1 .. n PROVE g[k] = g[k - 1] \cup Ready(ts, g[k - 1])
    BY <1>7, <2>1 DEF Ready
  <2> QED BY <2>1, <2>2, <2>3
<1>10. g \in [0 .. n -> X]
  <2> DEFINE Good == {k \in 0 .. n : g[k] \in X}
  <2>1. 0 \in Good
    <3>1. g[0] \in X
      BY <1>1, <1>9
    <3> QED BY <1>1, <3>1
  <2>2. ASSUME NEW k \in 0 .. n - 1, k \in Good PROVE k + 1 \in Good
    <3>1. k + 1 \in 1 .. n /\ g[k + 1] = g[k] \cup Ready(ts, g[k])
      BY <1>1, <1>9
    <3> QED BY <1>1, <1>2, <2>2, <3>1
  <2>3. 0 .. n \subseteq Good
    <3> HIDE DEF Good
    <3> QED BY <1>1, <2>1, <2>2, UpTo
  <2>4. \A k \in 0 .. n : g[k] \in X
    BY <2>3
  <2>5. g = [k \in 0 .. n |-> g[k]]
    BY <1>7
  <2> QED BY <2>4, <2>5
<1>11. Layers(ts, g)
  BY <1>9, <1>10 DEF Layers, n, X
<1> QED
  BY <1>8, <1>11 DEF n

(* As many ids as tasks, when no two tasks share one.                         *)
LEMMA IdsCounted ==
    ASSUME NEW ts \in Seq(TaskSet), DistinctIds(ts)
    PROVE  IsFiniteSet(IdsOf(ts)) /\ Cardinality(IdsOf(ts)) = Len(ts)
<1> DEFINE f == [k \in 1 .. Len(ts) |-> ts[k].id]
<1>1. Len(ts) \in Nat /\ DOMAIN ts = 1 .. Len(ts)
  OBVIOUS
<1>2. f \in Bijection(1 .. Len(ts), IdsOf(ts))
  BY <1>1 DEF Bijection, Injection, Surjection, IsInjective, IdsOf, DistinctIds
<1>3. IsFiniteSet(1 .. Len(ts)) /\ Cardinality(1 .. Len(ts)) = Len(ts)
  BY <1>1, FS_Interval
<1> QED
  BY <1>2, <1>3, FS_Bijection DEF ExistsBijection

(* No set of tasks in which each waits for another.                           *)
NoneWaiting(ts) ==
    \A S \in SUBSET DOMAIN ts :
        S # {} => \E k \in S : \A j \in S : ts[j].id \notin ts[k].deps

(* If all are visited, no tasks wait for each other: none of them is in any   *)
(* layer.                                                                     *)
LEMMA VisitedNeverWait ==
    ASSUME NEW ts \in Seq(TaskSet), DistinctIds(ts), Visited(ts) = IdsOf(ts)
    PROVE  NoneWaiting(ts)
<1> SUFFICES ASSUME NEW S \in SUBSET DOMAIN ts, S # {},
                    \A k \in S : \E j \in S : ts[j].id \in ts[k].deps
             PROVE  FALSE
  BY DEF NoneWaiting
<1>1. PICK R : Layers(ts, R) /\ Visited(ts) = R[Len(ts)]
  BY VisitedLayers
<1> DEFINE Free == {m \in 0 .. Len(ts) : \A k \in S : ts[k].id \notin R[m]}
<1>2. Len(ts) \in Nat /\ DOMAIN ts = 1 .. Len(ts)
  OBVIOUS
<1>3. 0 \in Free
  BY <1>1, <1>2 DEF Layers
<1>4. ASSUME NEW m \in 0 .. Len(ts) - 1, m \in Free PROVE m + 1 \in Free
  <2>1. m + 1 \in 1 .. Len(ts) /\ R[m + 1] = R[m] \cup Ready(ts, R[m])
    BY <1>1, <1>2 DEF Layers
  <2>2. ASSUME NEW k \in S, ts[k].id \in Ready(ts, R[m]) PROVE FALSE
    <3>1. PICK i \in DOMAIN ts : ts[i].id = ts[k].id /\ ts[i].deps \subseteq R[m]
      BY <2>2 DEF Ready
    <3>2. i = k
      BY <3>1 DEF DistinctIds
    <3> QED BY <1>4, <3>1, <3>2
  <2>3. m + 1 \in 0 .. Len(ts)
    BY <1>2
  <2>4. \A k \in S : ts[k].id \notin R[m] /\ ts[k].id \notin R[m + 1]
    BY <1>4, <2>1, <2>2
  <2> QED BY <2>3, <2>4
<1>5. 0 .. Len(ts) \subseteq Free
  <2> HIDE DEF Free
  <2> QED BY <1>2, <1>3, <1>4, UpTo
<1>6. PICK k \in S : TRUE
  OBVIOUS
<1>7. ts[k].id \in IdsOf(ts) /\ Len(ts) \in 0 .. Len(ts)
  BY <1>2 DEF IdsOf
<1> QED
  BY <1>1, <1>5, <1>6, <1>7

(* If no tasks wait for each other, each layer but the last has a task more   *)
(* than the one before.                                                       *)
LEMMA NoneWaitingVisited ==
    ASSUME NEW ts \in Seq(TaskSet), DistinctIds(ts), KnownDeps(ts), NoneWaiting(ts)
    PROVE  Visited(ts) = IdsOf(ts)
<1>1. PICK R : Layers(ts, R) /\ Visited(ts) = R[Len(ts)]
  BY VisitedLayers
<1>2. Len(ts) \in Nat /\ DOMAIN ts = 1 .. Len(ts)
  OBVIOUS
<1>3. IsFiniteSet(IdsOf(ts)) /\ Cardinality(IdsOf(ts)) = Len(ts)
  BY IdsCounted
<1>4. ASSUME NEW m \in 0 .. Len(ts)
      PROVE  R[m] \subseteq IdsOf(ts) /\ IsFiniteSet(R[m]) /\ Cardinality(R[m]) \in Nat
  BY <1>1, <1>2, <1>3, FS_Subset, FS_CardinalityType DEF Layers
<1> DEFINE Grown == {m \in 0 .. Len(ts) : R[m] = IdsOf(ts) \/ Cardinality(R[m]) >= m}
<1>5. 0 \in Grown
  BY <1>2, <1>4
<1>6. ASSUME NEW m \in 0 .. Len(ts) - 1, m \in Grown PROVE m + 1 \in Grown
  <2>1. /\ m \in 0 .. Len(ts) /\ m + 1 \in 0 .. Len(ts) /\ m + 1 \in 1 .. Len(ts)
        /\ m \in Nat /\ R[m + 1] = R[m] \cup Ready(ts, R[m])
    BY <1>1, <1>2 DEF Layers
  <2>2. R[m] \subseteq IdsOf(ts) /\ R[m + 1] \subseteq IdsOf(ts)
    BY <1>2, <1>4, <2>1
  <2>3. CASE R[m] = IdsOf(ts)
    BY <1>2, <2>1, <2>2, <2>3
  <2>4. CASE R[m] # IdsOf(ts)
    <3> DEFINE S == {k \in DOMAIN ts : ts[k].id \notin R[m]}
    <3>1. S # {} /\ S \in SUBSET DOMAIN ts
      BY <2>2, <2>4 DEF IdsOf
    <3>2. PICK k \in S : \A j \in S : ts[j].id \notin ts[k].deps
      BY <3>1 DEF NoneWaiting
    <3>3. ts[k].deps \subseteq R[m]
      BY <3>2 DEF KnownDeps, IdsOf
    <3>4. ts[k].id \in R[m + 1] /\ ts[k].id \notin R[m]
      BY <2>1, <3>2, <3>3 DEF Ready
    <3>5. Cardinality(R[m + 1]) > Cardinality(R[m])
      <4>1. IsFiniteSet(R[m + 1]) /\ R[m] \subseteq R[m + 1] /\ R[m] # R[m + 1]
        BY <1>4, <2>1, <3>4
      <4>2. Cardinality(R[m]) <= Cardinality(R[m + 1])
            /\ (Cardinality(R[m]) = Cardinality(R[m + 1]) => R[m] = R[m + 1])
        BY <4>1, FS_Subset
      <4>3. Cardinality(R[m]) \in Nat /\ Cardinality(R[m + 1]) \in Nat
        BY <1>4, <2>1
      <4> QED BY <4>1, <4>2, <4>3
    <3>6. Cardinality(R[m]) >= m
      BY <1>6, <2>4
    <3>7. Cardinality(R[m + 1]) >= m + 1
      <4>1. Cardinality(R[m]) \in Nat /\ Cardinality(R[m + 1]) \in Nat
        BY <1>4, <2>1
      <4> QED BY <2>1, <3>5, <3>6, <4>1
    <3> QED BY <2>1, <3>7
  <2> QED BY <2>3, <2>4
<1>7. 0 .. Len(ts) \subseteq Grown
  <2> HIDE DEF Grown
  <2> QED BY <1>2, <1>5, <1>6, UpTo
<1>8. Len(ts) \in 0 .. Len(ts) /\ Len(ts) \in Grown
  BY <1>2, <1>7
<1> QED
  BY <1>1, <1>3, <1>4, <1>8, FS_Subset

(* The server accepts exactly the batches that can be executed.               *)
LEMMA AcceptedIffExecutable ==
    ASSUME NEW ts \in Seq(TaskSet)
    PROVE  Accepted(ts) <=> Executable(ts)
<1>1. ASSUME DistinctIds(ts), KnownDeps(ts)
      PROVE  (Cardinality(Visited(ts)) = Len(ts)) <=> NoneWaiting(ts)
  <2>1. IsFiniteSet(IdsOf(ts)) /\ Cardinality(IdsOf(ts)) = Len(ts)
    BY <1>1, IdsCounted
  <2>2. Visited(ts) \subseteq IdsOf(ts)
    BY VisitedLayers DEF Layers
  <2>3. (Cardinality(Visited(ts)) = Len(ts)) <=> (Visited(ts) = IdsOf(ts))
    BY <2>1, <2>2, FS_Subset
  <2> QED BY <1>1, <2>3, VisitedNeverWait, NoneWaitingVisited
<1> QED
  BY <1>1 DEF Accepted, Executable, NoneWaiting, DistinctIds, KnownDeps

-----------------------------------------------------------------------------
(* The nodes in the store of React Flow                                       *)

IdsUpTo(ns, k) == {ns[j].id : j \in 1 .. k}

(* A node put into the store replaces the one with its id, or is appended.    *)
LEMMA PutNode ==
    ASSUME NEW ns \in Seq(NodeSet), NEW n \in NodeSet
    PROVE  Put(ns, n) \in Seq(NodeSet) /\ IdsOf(Put(ns, n)) = IdsOf(ns) \cup {n.id}
<1>1. Len(ns) \in Nat /\ DOMAIN ns = 1 .. Len(ns)
  OBVIOUS
<1>2. CASE n.id \in IdsOf(ns)
  <2> DEFINE new == [k \in DOMAIN ns |-> IF ns[k].id = n.id THEN n ELSE ns[k]]
  <2>1. Put(ns, n) = new
    BY <1>2 DEF Put
  <2>2. \A k \in DOMAIN ns : new[k] \in NodeSet /\ new[k].id = ns[k].id
    BY <1>1
  <2>3. new \in Seq(NodeSet) /\ DOMAIN new = DOMAIN ns
    BY <1>1, <2>2, SeqDef
  <2> HIDE DEF new
  <2>4. IdsOf(new) = IdsOf(ns)
    BY <2>2, <2>3 DEF IdsOf
  <2> QED BY <1>2, <2>1, <2>3, <2>4
<1>3. CASE n.id \notin IdsOf(ns)
  <2> DEFINE new == Append(ns, n)
  <2>1. Put(ns, n) = new
    BY <1>3 DEF Put
  <2>2. /\ new \in Seq(NodeSet) /\ DOMAIN new = 1 .. Len(ns) + 1
        /\ \A k \in DOMAIN ns : new[k] = ns[k]
        /\ new[Len(ns) + 1] = n
    BY <1>1
  <2> HIDE DEF new
  <2>3. DOMAIN new = DOMAIN ns \cup {Len(ns) + 1}
    BY <1>1, <2>2
  <2>4. IdsOf(new) = IdsOf(ns) \cup {n.id}
    BY <2>2, <2>3 DEF IdsOf
  <2> QED BY <2>1, <2>2, <2>4
<1> QED
  BY <1>2, <1>3

(* The store has the ids of the list, and if no two nodes share one, the list.*)
LEMMA StoreNodes ==
    ASSUME NEW ns \in Seq(NodeSet)
    PROVE  /\ StoreOf(ns) \in Seq(NodeSet)
           /\ IdsOf(StoreOf(ns)) = IdsOf(ns)
           /\ DistinctIds(ns) => StoreOf(ns) = ns
<1> DEFINE n == Len(ns)
           X == Seq(NodeSet)
           Step == [k \in 1 .. n |-> [held \in X |-> Put(held, ns[k])]]
           Is(g) == g = [k \in 0 .. n |-> IF k = 0 THEN <<>> ELSE Put(g[k-1], ns[k])]
           g == CHOOSE f : Is(f)
<1>1. n \in Nat /\ <<>> \in X /\ DOMAIN ns = 1 .. n /\ \A k \in 1 .. n : ns[k] \in NodeSet
  OBVIOUS
<1>2. \A k \in 1 .. n, held \in X : Put(held, ns[k]) \in X
  BY <1>1, PutNode
<1>3. Step \in [1 .. n -> [X -> X]]
  BY <1>2
<1> HIDE DEF n, X
<1>4. PICK f : Recurs(f, n, X, <<>>, Step)
  <2> HIDE DEF Step
  <2> QED BY <1>1, <1>3, Recursion
<1>5. Is(f)
  <2>1. \A k \in 1 .. n : k # 0 /\ k - 1 \in 0 .. n /\ f[k] = Put(f[k - 1], ns[k])
    BY <1>1, <1>4 DEF Recurs
  <2> QED BY <1>1, <1>4, <2>1 DEF Recurs
<1>6. Is(g)
  <2> HIDE DEF Is
  <2> QED BY <1>5
<1>7. StoreOf(ns) = g[n]
  BY DEF StoreOf, n
<1> HIDE DEF g
<1>8. g[0] = <<>> /\ \A k \in 1 .. n : g[k] = Put(g[k - 1], ns[k])
  <2>1. 0 \in 0 .. n /\ \A k \in 1 .. n : k # 0 /\ k \in 0 .. n
    BY <1>1
  <2> QED BY <1>6, <2>1
<1> DEFINE Held(k) ==
               /\ g[k] \in X /\ IdsOf(g[k]) = IdsUpTo(ns, k)
               /\ DistinctIds(ns) => Len(g[k]) = k /\ \A j \in 1 .. k : g[k][j] = ns[j]
           Good == {k \in 0 .. n : Held(k)}
<1>9. 0 \in Good
  <2>1. <<>> \in X /\ IdsOf(<<>>) = {} /\ Len(<<>>) = 0
    BY DEF IdsOf, X
  <2>2. IdsUpTo(ns, 0) = {} /\ \A j \in 1 .. 0 : FALSE
    BY DEF IdsUpTo
  <2>3. g[0] \in X /\ IdsOf(g[0]) = {} /\ Len(g[0]) = 0
    BY <1>8, <2>1
  <2>4. \A j \in 1 .. 0 : g[0][j] = ns[j]
    BY <2>2
  <2>5. Held(0)
    BY <2>2, <2>3, <2>4
  <2> HIDE DEF Held
  <2> QED BY <1>1, <2>5
<1>10. ASSUME NEW k \in 0 .. n - 1, k \in Good PROVE k + 1 \in Good
  <2>1. /\ k \in Nat /\ k + 1 \in 0 .. n /\ k + 1 \in 1 .. n /\ ns[k + 1] \in NodeSet
        /\ g[k + 1] = Put(g[k], ns[k + 1]) /\ 1 .. k + 1 = 1 .. k \cup {k + 1}
    BY <1>1, <1>8
  <2>2. Held(k)
    BY <1>10
  <2>3. g[k + 1] \in X /\ IdsOf(g[k + 1]) = IdsUpTo(ns, k + 1)
    <3>1. g[k + 1] \in X /\ IdsOf(g[k + 1]) = IdsUpTo(ns, k) \cup {ns[k + 1].id}
      BY <2>1, <2>2, PutNode DEF X
    <3>2. IdsUpTo(ns, k + 1) = IdsUpTo(ns, k) \cup {ns[k + 1].id}
      BY <2>1 DEF IdsUpTo
    <3> QED BY <3>1, <3>2
  <2>4. ASSUME DistinctIds(ns)
        PROVE  Len(g[k + 1]) = k + 1 /\ \A j \in 1 .. k + 1 : g[k + 1][j] = ns[j]
    <3>1. \A j \in 1 .. k : j \in DOMAIN ns /\ k + 1 \in DOMAIN ns /\ j # k + 1
      BY <1>1, <2>1
    <3>2. ns[k + 1].id \notin IdsOf(g[k])
      BY <2>2, <2>4, <3>1 DEF DistinctIds, IdsUpTo
    <3>3. g[k + 1] = Append(g[k], ns[k + 1])
      BY <2>1, <3>2 DEF Put
    <3> QED BY <2>1, <2>2, <2>4, <3>3 DEF X
  <2> QED BY <2>1, <2>3, <2>4
<1>11. Held(n)
  <2>1. 0 .. n \subseteq Good
    <3> HIDE DEF Good
    <3> QED BY <1>1, <1>9, <1>10, UpTo
  <2>2. n \in 0 .. n
    BY <1>1
  <2> QED BY <2>1, <2>2
<1>12. IdsUpTo(ns, n) = IdsOf(ns)
  BY <1>1 DEF IdsUpTo, IdsOf
<1>13. ASSUME DistinctIds(ns) PROVE g[n] = ns
  <2>1. g[n] \in Seq(NodeSet) /\ ns \in Seq(NodeSet) /\ Len(g[n]) = Len(ns)
    BY <1>11, <1>13 DEF X, n
  <2>2. \A j \in 1 .. Len(ns) : g[n][j] = ns[j]
    BY <1>11, <1>13 DEF n
  <2> HIDE DEF Is
  <2> QED BY <2>1, <2>2, SeqEqual
<1> QED
  BY <1>7, <1>11, <1>12, <1>13 DEF X

(* Without a node, the other ids remain.                                      *)
LEMMA WithoutNodes ==
    ASSUME NEW ns \in Seq(NodeSet), NEW id
    PROVE  Without(ns, id) \in Seq(NodeSet) /\ IdsOf(Without(ns, id)) = IdsOf(ns) \ {id}
<1> DEFINE n == Len(ns)
           X == Seq(NodeSet)
           Keep(kept, k) == IF ns[k].id = id THEN kept ELSE Append(kept, ns[k])
           Step == [k \in 1 .. n |-> [kept \in X |-> Keep(kept, k)]]
           Is(g) == g = [k \in 0 .. n |->
                            IF k = 0 THEN <<>>
                            ELSE IF ns[k].id = id THEN g[k-1] ELSE Append(g[k-1], ns[k])]
           g == CHOOSE f : Is(f)
<1>1. n \in Nat /\ <<>> \in X /\ DOMAIN ns = 1 .. n /\ \A k \in 1 .. n : ns[k] \in NodeSet
  OBVIOUS
<1>2. \A k \in 1 .. n, kept \in X : Keep(kept, k) \in X
  BY <1>1
<1>3. Step \in [1 .. n -> [X -> X]]
  <2> HIDE DEF Keep
  <2> QED BY <1>2
<1> HIDE DEF n, X
<1>4. PICK f : Recurs(f, n, X, <<>>, Step)
  <2> HIDE DEF Step
  <2> QED BY <1>1, <1>3, Recursion
<1>5. Is(f)
  <2>1. \A k \in 1 .. n : k # 0 /\ k - 1 \in 0 .. n /\ f[k] = Keep(f[k - 1], k)
    <3> HIDE DEF Keep
    <3> QED BY <1>1, <1>4 DEF Recurs
  <2>2. f[0] = <<>> /\ f = [k \in 0 .. n |-> f[k]]
    BY <1>4 DEF Recurs
  <2>3. \A k \in 0 .. n : k = 0 \/ k \in 1 .. n
    BY <1>1
  <2>4. \A k \in 0 .. n :
           f[k] = IF k = 0 THEN <<>>
                  ELSE IF ns[k].id = id THEN f[k-1] ELSE Append(f[k-1], ns[k])
    BY <2>1, <2>2, <2>3
  <2> HIDE DEF Keep
  <2> QED BY <2>2, <2>4
<1>6. Is(g)
  <2> HIDE DEF Is
  <2> QED BY <1>5
<1>7. Without(ns, id) = g[n]
  BY DEF Without, n
<1> HIDE DEF g
<1>8. g[0] = <<>> /\ \A k \in 1 .. n : g[k] = Keep(g[k - 1], k)
  <2>1. 0 \in 0 .. n /\ \A k \in 1 .. n : k # 0 /\ k \in 0 .. n
    BY <1>1
  <2> QED BY <1>6, <2>1
<1> DEFINE Kept(k) == g[k] \in X /\ IdsOf(g[k]) = IdsUpTo(ns, k) \ {id}
           Good == {k \in 0 .. n : Kept(k)}
<1>9. 0 \in Good
  <2>1. <<>> \in X /\ IdsOf(<<>>) = {}
    BY DEF IdsOf, X
  <2>2. IdsUpTo(ns, 0) = {}
    BY DEF IdsUpTo
  <2> QED BY <1>1, <1>8, <2>1, <2>2
<1>10. ASSUME NEW k \in 0 .. n - 1, k \in Good PROVE k + 1 \in Good
  <2>1. /\ k \in Nat /\ k + 1 \in 0 .. n /\ k + 1 \in 1 .. n /\ ns[k + 1] \in NodeSet
        /\ g[k + 1] = Keep(g[k], k + 1) /\ 1 .. k + 1 = 1 .. k \cup {k + 1}
    <3> HIDE DEF Keep
    <3> QED BY <1>1, <1>8
  <2>2. Kept(k)
    BY <1>10
  <2>3. IdsUpTo(ns, k + 1) = IdsUpTo(ns, k) \cup {ns[k + 1].id}
    BY <2>1 DEF IdsUpTo
  <2>4. CASE ns[k + 1].id = id
    BY <2>1, <2>2, <2>3, <2>4
  <2>5. CASE ns[k + 1].id # id
    <3> DEFINE old == g[k]
               new == Append(old, ns[k + 1])
    <3>1. g[k + 1] = new /\ old \in Seq(NodeSet)
      BY <2>1, <2>2, <2>5 DEF X
    <3> HIDE DEF old
    <3>2. /\ new \in Seq(NodeSet) /\ DOMAIN new = DOMAIN old \cup {Len(old) + 1}
          /\ \A j \in DOMAIN old : new[j] = old[j]
          /\ new[Len(old) + 1] = ns[k + 1]
      BY <2>1, <3>1
    <3> HIDE DEF new
    <3>3. IdsOf(new) = IdsOf(old) \cup {ns[k + 1].id}
      BY <3>2 DEF IdsOf
    <3>4. IdsOf(old) = IdsUpTo(ns, k) \ {id}
      BY <2>2 DEF old
    <3> QED BY <2>1, <2>3, <2>5, <3>1, <3>2, <3>3, <3>4 DEF X
  <2> QED BY <2>4, <2>5
<1>11. Kept(n)
  <2>1. 0 .. n \subseteq Good
    <3> HIDE DEF Good
    <3> QED BY <1>1, <1>9, <1>10, UpTo
  <2>2. n \in 0 .. n
    BY <1>1
  <2> QED BY <2>1, <2>2
<1>12. IdsUpTo(ns, n) = IdsOf(ns)
  BY <1>1 DEF IdsUpTo, IdsOf
<1> QED
  BY <1>7, <1>11, <1>12 DEF X

-----------------------------------------------------------------------------
(* The invariant                                                              *)

Graphs ==
    [nodes : Seq(NodeSet), edges : SUBSET (IdSet \X IdSet),
     marks : SUBSET {"drawn", "button", "key"}]
EditorTypeOK ==
    /\ canvas \in Graphs
    /\ submit \in [at : {"idle", "asked"}, tasks : Seq(TaskSet), saved : Graphs]
    /\ edits \in Nat /\ submits \in Nat

(* The next number is free: those in use are at most the number of nodes.     *)
NumbersFit(ns) ==
    \A k \in DOMAIN ns :
        ns[k].id.name = "T" /\ ns[k].id.sent = <<>> => ns[k].id.number <= Len(ns)
WellFormed(c) ==
    /\ "button" \notin c.marks => EndsKnown(c)
    /\ c.marks \subseteq {"drawn"} => DistinctIds(c.nodes) /\ NumbersFit(c.nodes)

(* The canvas, and the one that a refusal puts back.                          *)
EditorInv == EditorTypeOK /\ WellFormed(canvas) /\ WellFormed(submit.saved)

(* The numbers of a drawing make ids.                                         *)
LEMMA IdFacts ==
    ASSUME NEW name \in {"T", "word"}, NEW k \in Nat
    PROVE  /\ Id(name, k) \in IdSet
           /\ Id(name, k).name = name /\ Id(name, k).number = k /\ Id(name, k).sent = <<>>
<1>1. <<>> \in Seq(Nat)
  OBVIOUS
<1> QED
  BY <1>1 DEF Id, IdSet

(* A drawing is a graph: its nodes are numbered, its edges go between them.   *)
LEMMA DrawnWellFormed ==
    ASSUME NEW name \in {"T", "word"}, NEW n \in Nat, NEW sleeping, NEW edges,
           edges \subseteq (1 .. n) \X (1 .. n)
    PROVE  /\ Drawn(name, n, sleeping, edges) \in Graphs
           /\ WellFormed(Drawn(name, n, sleeping, edges))
<1> DEFINE c == Drawn(name, n, sleeping, edges)
           ns == [k \in 1 .. n |-> Node(Id(name, k), IF k \in sleeping THEN "sleep" ELSE "work")]
           es == {<<Id(name, e[1]), Id(name, e[2])>> : e \in edges}
<1>1. \A k \in 1 .. n : Id(name, k) \in IdSet /\ Id(name, k).number = k
  BY IdFacts
<1>2. c = [nodes |-> ns, edges |-> es, marks |-> {}]
  BY DEF Drawn
<1>3. \A k \in 1 .. n : ns[k] \in NodeSet /\ ns[k].id = Id(name, k)
  BY <1>1 DEF Node, NodeSet, Payloads
<1>4. ns \in Seq(NodeSet) /\ Len(ns) = n /\ DOMAIN ns = 1 .. n
  <2>1. ns \in [1 .. n -> NodeSet]
    BY <1>3
  <2>2. ns \in Seq(NodeSet)
    BY <2>1, SeqDef
  <2>3. DOMAIN ns = 1 .. n
    OBVIOUS
  <2> HIDE DEF ns
  <2> QED BY <2>2, <2>3, LenProperties
<1>5. \A l \in es : \E j, k \in 1 .. n : l = <<Id(name, j), Id(name, k)>>
  OBVIOUS
<1> HIDE DEF ns, es, c
<1>6. es \subseteq IdSet \X IdSet
  BY <1>1, <1>5
<1>7. c \in Graphs
  BY <1>2, <1>4, <1>6 DEF Graphs
<1>8. EndsKnown(c)
  <2>1. \A k \in 1 .. n : Id(name, k) \in IdsOf(ns)
    BY <1>3, <1>4 DEF IdsOf
  <2> QED BY <1>2, <1>5, <2>1 DEF EndsKnown
<1>9. DistinctIds(ns) /\ NumbersFit(ns)
  BY <1>1, <1>3, <1>4 DEF DistinctIds, NumbersFit
<1> QED
  BY <1>2, <1>7, <1>8, <1>9 DEF WellFormed, c

(* Whichever template the user loads is a graph.                              *)
LEMMA Templated ==
    ASSUME NEW t \in DOMAIN DagTemplates
    PROVE  DagTemplates[t] \in Graphs /\ WellFormed(DagTemplates[t])
<1>1. CASE t = "simple"
  BY <1>1, DrawnWellFormed DEF DagTemplates
<1>2. CASE t = "diamond"
  BY <1>2, DrawnWellFormed DEF DagTemplates
<1>3. CASE t = "complex"
  BY <1>3, DrawnWellFormed DEF DagTemplates
<1>4. CASE t = "mapReduce"
  BY <1>4, DrawnWellFormed DEF DagTemplates
<1>5. CASE t = "bipartite"
  BY <1>5, DrawnWellFormed DEF DagTemplates
<1>6. CASE t = "mesh"
  BY <1>6, DrawnWellFormed DEF DagTemplates
<1> QED
  BY <1>1, <1>2, <1>3, <1>4, <1>5, <1>6 DEF DagTemplates

-----------------------------------------------------------------------------
(* The steps                                                                  *)

(* The console begins with a graph, and nothing saved.                        *)
LEMMA InitInv == Init => EditorInv
<1> SUFFICES ASSUME Init PROVE EditorInv
  OBVIOUS
<1>1. canvas = Drawn("T", 2, {1}, {<<1, 2>>})
  BY DEF Init
<1>2. canvas \in Graphs /\ WellFormed(canvas)
  BY <1>1, DrawnWellFormed
<1>3. Drawn("T", 0, {}, {}) \in Graphs /\ WellFormed(Drawn("T", 0, {}, {}))
  BY DrawnWellFormed
<1>4. submit = [at |-> "idle", tasks |-> <<>>, saved |-> Drawn("T", 0, {}, {})]
  BY DEF Init, NoSubmit
<1>5. <<>> \in Seq(TaskSet)
  OBVIOUS
<1>6. edits = 0 /\ submits = 0
  BY DEF Init
<1> QED
  BY <1>2, <1>3, <1>4, <1>5, <1>6 DEF EditorInv, EditorTypeOK

(* An edit that makes a graph keeps the invariant.                            *)
LEMMA EditInv ==
    ASSUME EditorInv, NEW c \in Graphs, WellFormed(c), Edit(c)
    PROVE  EditorInv'
BY DEF EditorInv, EditorTypeOK, Edit, WellFormed, EndsKnown, DistinctIds, NumbersFit, IdsOf

(* What the store of React Flow is to a canvas that is well formed.           *)
LEMMA CanvasNodes ==
    ASSUME EditorInv
    PROVE  /\ canvas \in Graphs /\ canvas.nodes \in Seq(NodeSet)
           /\ canvas.edges \subseteq IdSet \X IdSet
           /\ canvas.marks \subseteq {"drawn", "button", "key"}
           /\ Store \in Seq(NodeSet) /\ IdsOf(Store) = IdsOf(canvas.nodes)
           /\ canvas.marks \subseteq {"drawn"} => Store = canvas.nodes
<1>1. canvas \in Graphs
  BY DEF EditorInv, EditorTypeOK
<1>2. /\ canvas.nodes \in Seq(NodeSet) /\ canvas.edges \subseteq IdSet \X IdSet
      /\ canvas.marks \subseteq {"drawn", "button", "key"}
  BY <1>1 DEF Graphs
<1>3. canvas.marks \subseteq {"drawn"} => DistinctIds(canvas.nodes)
  BY DEF EditorInv, WellFormed
<1> QED
  BY <1>1, <1>2, <1>3, StoreNodes DEF Store

(* What a list of nodes holds.                                                *)
LEMMA NodeFields ==
    ASSUME NEW ns \in Seq(NodeSet)
    PROVE  /\ \A k \in DOMAIN ns :
                 /\ ns[k] \in NodeSet /\ ns[k].id \in IdSet /\ ns[k].id.number \in Nat
                 /\ ns[k].payload \in Payloads
           /\ IdsOf(ns) \subseteq IdSet
<1>1. \A k \in DOMAIN ns : ns[k] \in NodeSet
  OBVIOUS
<1>2. \A n \in NodeSet : n.id \in IdSet /\ n.payload \in Payloads
  BY DEF NodeSet
<1>3. \A i \in IdSet : i.number \in Nat
  BY DEF IdSet
<1> QED
  BY <1>1, <1>2, <1>3 DEF IdsOf

(* handleAddNode: the new number is larger than any in use.                   *)
LEMMA AddNodeInv == ASSUME EditorInv, AddNode PROVE EditorInv'
<1> DEFINE n == Len(Store)
           ns == Append(Store, Node(NewId, "work"))
           c == [canvas EXCEPT !.nodes = ns, !.marks = @ \cup {"drawn"}]
<1>1. /\ Store \in Seq(NodeSet) /\ n \in Nat /\ DOMAIN Store = 1 .. n
      /\ IdsOf(Store) = IdsOf(canvas.nodes)
  BY CanvasNodes
<1>2. /\ NewId \in IdSet /\ NewId.name = "T" /\ NewId.number = n + 1 /\ NewId.sent = <<>>
      /\ Node(NewId, "work") \in NodeSet /\ Node(NewId, "work").id = NewId
  BY <1>1, IdFacts DEF NewId, T, Node, NodeSet, Payloads
<1>3. /\ ns \in Seq(NodeSet) /\ Len(ns) = n + 1 /\ DOMAIN ns = 1 .. n + 1
      /\ \A k \in 1 .. n : ns[k] = Store[k]
      /\ ns[n + 1].id = NewId
  BY <1>1, <1>2
<1> HIDE DEF ns
<1>4. c \in Graphs /\ c.nodes = ns /\ c.edges = canvas.edges /\ c.marks = canvas.marks \cup {"drawn"}
  BY <1>3, CanvasNodes DEF Graphs
<1>5. "button" \notin c.marks => EndsKnown(c)
  <2>1. IdsOf(canvas.nodes) \subseteq IdsOf(ns)
    <3>1. \A k \in 1 .. n : k \in DOMAIN ns /\ ns[k].id = Store[k].id
      BY <1>1, <1>3
    <3>2. IdsOf(Store) \subseteq IdsOf(ns)
      BY <1>1, <3>1 DEF IdsOf
    <3> QED BY <1>1, <3>2
  <2>2. "button" \notin canvas.marks => EndsKnown(canvas)
    BY DEF EditorInv, WellFormed
  <2> QED BY <1>4, <2>1, <2>2 DEF EndsKnown
<1>6. ASSUME c.marks \subseteq {"drawn"} PROVE DistinctIds(ns) /\ NumbersFit(ns)
  <2>1. Store = canvas.nodes /\ DistinctIds(Store) /\ NumbersFit(Store)
    BY <1>4, <1>6, CanvasNodes DEF EditorInv, WellFormed
  <2>2. \A k \in 1 .. n : ns[k].id # NewId
    BY <1>1, <1>2, <1>3, <2>1 DEF NumbersFit
  <2>3. \A k \in 1 .. n + 1 : k \in 1 .. n \/ k = n + 1
    BY <1>1
  <2>4. DistinctIds(ns)
    BY <1>1, <1>3, <2>1, <2>2, <2>3 DEF DistinctIds
  <2>5. ASSUME NEW k \in DOMAIN ns, ns[k].id.name = "T", ns[k].id.sent = <<>>
        PROVE  ns[k].id.number <= n + 1
    <3>1. CASE k = n + 1
      BY <1>1, <1>2, <1>3, <3>1
    <3>2. CASE k \in 1 .. n
      <4>1. Store[k].id.number <= n /\ Store[k].id.number \in Nat
        BY <1>1, <1>3, <2>1, <2>5, <3>2, NodeFields DEF NumbersFit
      <4> QED BY <1>1, <1>3, <3>2, <4>1
    <3> QED BY <1>3, <2>3, <3>1, <3>2
  <2> QED BY <1>3, <2>4, <2>5 DEF NumbersFit
<1>7. WellFormed(c)
  BY <1>4, <1>5, <1>6 DEF WellFormed
<1>8. Edit(c)
  BY DEF AddNode, ns
<1> QED
  <2> HIDE DEF c
  <2> QED BY <1>4, <1>7, <1>8, EditInv

(* handleDeleteNode: the promise about edges and ids is off from here on.     *)
LEMMA DeleteNodeInv == ASSUME EditorInv, NEW id, DeleteNode(id) PROVE EditorInv'
<1> DEFINE ns == Without(Store, id)
           c == [canvas EXCEPT !.nodes = ns, !.marks = @ \cup {"button"}]
<1>1. ns \in Seq(NodeSet)
  BY CanvasNodes, WithoutNodes
<1> HIDE DEF ns
<1>2. c \in Graphs /\ WellFormed(c)
  BY <1>1, CanvasNodes DEF Graphs, WellFormed
<1>3. Edit(c)
  BY DEF DeleteNode, ns
<1> QED
  <2> HIDE DEF c
  <2> QED BY <1>2, <1>3, EditInv

(* The delete key takes the edges of the node along.                          *)
LEMMA KeyDeleteInv == ASSUME EditorInv, NEW id, KeyDelete(id) PROVE EditorInv'
<1> DEFINE ns == Without(canvas.nodes, id)
           es == {e \in canvas.edges : id \notin {e[1], e[2]}}
           c == [canvas EXCEPT !.nodes = ns, !.edges = es, !.marks = @ \cup {"key"}]
<1>1. ns \in Seq(NodeSet) /\ IdsOf(ns) = IdsOf(canvas.nodes) \ {id}
  BY CanvasNodes, WithoutNodes
<1> HIDE DEF ns
<1>2. es \subseteq IdSet \X IdSet
  BY CanvasNodes
<1>3. c \in Graphs /\ c.nodes = ns /\ c.edges = es /\ c.marks = canvas.marks \cup {"key"}
  <2> HIDE DEF es
  <2> QED BY <1>1, <1>2, CanvasNodes DEF Graphs
<1>4. "button" \notin c.marks => EndsKnown(c)
  BY <1>1, <1>3 DEF EditorInv, WellFormed, EndsKnown
<1>5. WellFormed(c)
  BY <1>3, <1>4 DEF WellFormed
<1>6. Edit(c)
  BY DEF KeyDelete, ns
<1> QED
  <2> HIDE DEF c
  <2> QED BY <1>3, <1>5, <1>6, EditInv

(* updateNodeData keeps the ids.                                              *)
LEMMA UpdateNodeDataInv ==
    ASSUME EditorInv, NEW id, NEW payload \in Payloads, UpdateNodeData(id, payload)
    PROVE  EditorInv'
<1> DEFINE ns == [k \in DOMAIN Store |-> IF Store[k].id = id THEN Node(id, payload) ELSE Store[k]]
           c == [canvas EXCEPT !.nodes = ns]
<1>1. /\ Store \in Seq(NodeSet) /\ Len(Store) \in Nat /\ DOMAIN Store = 1 .. Len(Store)
      /\ IdsOf(Store) = IdsOf(canvas.nodes)
  BY CanvasNodes
<1>2. \A k \in DOMAIN Store : ns[k] \in NodeSet /\ ns[k].id = Store[k].id
  <2> TAKE k \in DOMAIN Store
  <2>1. Store[k] \in NodeSet /\ Store[k].id \in IdSet
    BY <1>1, NodeFields
  <2>2. CASE Store[k].id = id
    <3>1. ns[k] = [id |-> Store[k].id, payload |-> payload]
      BY <2>2 DEF Node
    <3> QED BY <2>1, <3>1 DEF NodeSet
  <2>3. CASE Store[k].id # id
    BY <2>1, <2>3
  <2> QED BY <2>2, <2>3
<1>3. ns \in Seq(NodeSet) /\ DOMAIN ns = DOMAIN Store /\ Len(ns) = Len(Store)
  <2>1. ns \in [1 .. Len(Store) -> NodeSet]
    BY <1>1, <1>2
  <2>2. ns \in Seq(NodeSet) /\ DOMAIN ns = 1 .. Len(Store)
    BY <1>1, <2>1, SeqDef
  <2> HIDE DEF ns
  <2> QED BY <1>1, <2>2, LenProperties
<1> HIDE DEF ns
<1>4. c \in Graphs /\ c.nodes = ns /\ c.edges = canvas.edges /\ c.marks = canvas.marks
  BY <1>3, CanvasNodes DEF Graphs
<1>5. IdsOf(ns) = IdsOf(canvas.nodes)
  BY <1>1, <1>2, <1>3 DEF IdsOf
<1>6. "button" \notin c.marks => EndsKnown(c)
  BY <1>4, <1>5 DEF EditorInv, WellFormed, EndsKnown
<1>7. ASSUME c.marks \subseteq {"drawn"} PROVE DistinctIds(ns) /\ NumbersFit(ns)
  <2>1. DistinctIds(Store) /\ NumbersFit(Store)
    BY <1>4, <1>7, CanvasNodes DEF EditorInv, WellFormed
  <2> QED BY <1>2, <1>3, <2>1 DEF DistinctIds, NumbersFit
<1>8. WellFormed(c)
  BY <1>4, <1>6, <1>7 DEF WellFormed
<1>9. Edit(c)
  BY DEF UpdateNodeData, ns
<1> QED
  <2> HIDE DEF c
  <2> QED BY <1>4, <1>8, <1>9, EditInv

(* onConnect joins two nodes of the canvas.                                   *)
LEMMA ConnectInv ==
    ASSUME EditorInv, NEW s \in IdsOf(canvas.nodes), NEW t \in IdsOf(canvas.nodes), Connect(s, t)
    PROVE  EditorInv'
<1> DEFINE es == canvas.edges \cup {<<s, t>>}
           c == [canvas EXCEPT !.edges = es, !.marks = @ \cup {"drawn"}]
<1>1. s \in IdSet /\ t \in IdSet
  BY CanvasNodes, NodeFields
<1>2. es \subseteq IdSet \X IdSet
  BY <1>1, CanvasNodes
<1>3. /\ c \in Graphs /\ c.nodes = canvas.nodes /\ c.edges = es
      /\ c.marks = canvas.marks \cup {"drawn"}
  <2> HIDE DEF es
  <2> QED BY <1>2, CanvasNodes DEF Graphs
<1>4. WellFormed(c)
  BY <1>3 DEF EditorInv, WellFormed, EndsKnown
<1>5. Edit(c)
  BY DEF Connect
<1> QED
  <2> HIDE DEF c
  <2> QED BY <1>3, <1>4, <1>5, EditInv

-----------------------------------------------------------------------------
(* The batch and its suffix                                                   *)

(* A graph becomes a batch, a task for each node.                             *)
LEMMA TasksTyped ==
    ASSUME NEW ns \in Seq(NodeSet), NEW es \in SUBSET (IdSet \X IdSet)
    PROVE  FlowToTasks(ns, es) \in Seq(TaskSet)
<1>1. Len(ns) \in Nat /\ DOMAIN ns = 1 .. Len(ns)
  OBVIOUS
<1>2. ASSUME NEW k \in DOMAIN ns
      PROVE  [id |-> ns[k].id, payload |-> ns[k].payload,
              deps |-> {e[1] : e \in {d \in es : d[2] = ns[k].id}}] \in TaskSet
  <2> DEFINE ds == {e[1] : e \in {d \in es : d[2] = ns[k].id}}
  <2>1. ds \subseteq IdSet
    OBVIOUS
  <2>2. ns[k].id \in IdSet /\ ns[k].payload \in Payloads
    BY NodeFields
  <2> HIDE DEF ds
  <2>3. [id |-> ns[k].id, payload |-> ns[k].payload, deps |-> ds] \in TaskSet
    BY <2>1, <2>2 DEF TaskSet
  <2> QED BY <2>3 DEF ds
<1>3. FlowToTasks(ns, es) \in [1 .. Len(ns) -> TaskSet]
  BY <1>1, <1>2 DEF FlowToTasks
<1> QED
  BY <1>1, <1>3, SeqDef

(* The suffix makes a new id of each id, and the same of no two.              *)
LEMMA NewNames ==
    ASSUME submits \in Nat, NEW ids
    PROVE  /\ \A i \in IdSet : NewName(ids, i) \in IdSet
           /\ \A i \in ids \cap IdSet : NewName(ids, i).sent # <<>>
           /\ \A i, j \in ids \cap IdSet : NewName(ids, i) = NewName(ids, j) => i = j
<1>1. ASSUME NEW i \in IdSet
      PROVE  /\ i.sent \in Seq(Nat) /\ i = [name |-> i.name, number |-> i.number, sent |-> i.sent]
             /\ [i EXCEPT !.sent = Append(@, submits)]
                   = [name |-> i.name, number |-> i.number, sent |-> Append(i.sent, submits)]
             /\ [i EXCEPT !.sent = Append(@, submits)] \in IdSet
  <2>1. /\ i.name \in {"T", "word"} /\ i.number \in Nat /\ i.sent \in Seq(Nat)
        /\ i = [name |-> i.name, number |-> i.number, sent |-> i.sent]
    BY DEF IdSet
  <2> DEFINE new == Append(i.sent, submits)
  <2>2. new \in Seq(Nat)
    BY <2>1
  <2> HIDE DEF new
  <2>3. /\ [i EXCEPT !.sent = new] = [name |-> i.name, number |-> i.number, sent |-> new]
        /\ [name |-> i.name, number |-> i.number, sent |-> new] \in IdSet
    BY <2>1, <2>2 DEF IdSet
  <2> QED BY <2>1, <2>3 DEF new
<1>2. \A q \in Seq(Nat) : Append(q, submits) # <<>>
  OBVIOUS
<1>3. ASSUME NEW q \in Seq(Nat), NEW r \in Seq(Nat), Append(q, submits) = Append(r, submits)
      PROVE  q = r
  <2>1. Len(q) = Len(r)
    BY <1>3
  <2>2. \A k \in 1 .. Len(q) : q[k] = r[k]
    <3> TAKE k \in 1 .. Len(q)
    <3>1. Append(q, submits)[k] = q[k] /\ Append(r, submits)[k] = r[k]
      BY <2>1
    <3> QED BY <1>3, <3>1
  <2> QED BY <2>1, <2>2, SeqEqual
<1>4. ASSUME NEW i \in ids \cap IdSet, NEW j \in ids \cap IdSet, NewName(ids, i) = NewName(ids, j)
      PROVE  i = j
  <2>1. [name |-> i.name, number |-> i.number, sent |-> Append(i.sent, submits)]
        = [name |-> j.name, number |-> j.number, sent |-> Append(j.sent, submits)]
    BY <1>1, <1>4 DEF NewName
  <2>2. i.name = j.name /\ i.number = j.number /\ Append(i.sent, submits) = Append(j.sent, submits)
    BY <2>1
  <2> QED BY <1>1, <1>3, <2>2
<1>5. ASSUME NEW i \in ids \cap IdSet PROVE NewName(ids, i).sent # <<>>
  <2>1. NewName(ids, i).sent = Append(i.sent, submits)
    BY <1>1 DEF NewName
  <2> QED BY <1>1, <1>2, <2>1
<1>6. \A i \in IdSet : NewName(ids, i) \in IdSet
  BY <1>1 DEF NewName
<1> QED
  BY <1>4, <1>5, <1>6

(* The batch with its suffix is a batch.                                      *)
LEMMA RenamedTasksTyped ==
    ASSUME submits \in Nat, NEW ts \in Seq(TaskSet)
    PROVE  RenamedTasks(ts) \in Seq(TaskSet)
<1> DEFINE New(i) == NewName(IdsOf(ts), i)
<1>1. Len(ts) \in Nat /\ DOMAIN ts = 1 .. Len(ts) /\ \A k \in DOMAIN ts : ts[k] \in TaskSet
  OBVIOUS
<1>2. \A i \in IdSet : New(i) \in IdSet
  BY NewNames
<1> HIDE DEF New
<1>3. ASSUME NEW k \in DOMAIN ts
      PROVE  [ts[k] EXCEPT !.id = New(@), !.deps = {New(d) : d \in @}] \in TaskSet
  <2>1. ts[k] \in TaskSet /\ ts[k].id \in IdSet /\ ts[k].deps \in SUBSET IdSet
    BY <1>1 DEF TaskSet
  <2>2. {New(d) : d \in ts[k].deps} \subseteq IdSet
    BY <1>2, <2>1
  <2> QED BY <1>2, <2>1, <2>2 DEF TaskSet
<1>4. RenamedTasks(ts) \in [1 .. Len(ts) -> TaskSet]
  BY <1>1, <1>3 DEF RenamedTasks, New
<1> QED
  BY <1>1, <1>4, SeqDef

(* Canvas and store keep their shape under the suffix.                        *)
LEMMA RenamedWellFormed ==
    ASSUME submits \in Nat, NEW c \in Graphs, WellFormed(c)
    PROVE  RenamedCanvas(c) \in Graphs /\ WellFormed(RenamedCanvas(c))
<1> DEFINE New(i) == NewName(IdsOf(c.nodes), i)
           ns == [k \in DOMAIN c.nodes |-> Node(New(c.nodes[k].id), c.nodes[k].payload)]
           es == {<<New(e[1]), New(e[2])>> : e \in c.edges}
           r == [c EXCEPT !.nodes = ns, !.edges = es]
<1>1. /\ c.nodes \in Seq(NodeSet) /\ Len(c.nodes) \in Nat /\ DOMAIN c.nodes = 1 .. Len(c.nodes)
      /\ c.edges \subseteq IdSet \X IdSet
  BY DEF Graphs
<1>2. /\ IdsOf(c.nodes) \subseteq IdSet
      /\ \A i \in IdSet : New(i) \in IdSet
      /\ \A i \in IdsOf(c.nodes) : New(i).sent # <<>>
      /\ \A i, j \in IdsOf(c.nodes) : New(i) = New(j) => i = j
  BY <1>1, NodeFields, NewNames
<1> HIDE DEF New
<1>3. ASSUME NEW k \in DOMAIN c.nodes
      PROVE  ns[k] \in NodeSet /\ ns[k].id = New(c.nodes[k].id) /\ c.nodes[k].id \in IdsOf(c.nodes)
  <2>1. /\ c.nodes[k].id \in IdSet /\ c.nodes[k].payload \in Payloads
        /\ c.nodes[k].id \in IdsOf(c.nodes)
    BY <1>1, NodeFields DEF IdsOf
  <2> QED BY <1>2, <2>1 DEF Node, NodeSet
<1>4. ns \in Seq(NodeSet) /\ DOMAIN ns = DOMAIN c.nodes
  <2>1. ns \in [1 .. Len(c.nodes) -> NodeSet]
    BY <1>1, <1>3
  <2> QED BY <1>1, <2>1, SeqDef
<1> HIDE DEF ns
<1>5. es \subseteq IdSet \X IdSet
  BY <1>1, <1>2
<1>6. r \in Graphs /\ r.nodes = ns /\ r.edges = es /\ r.marks = c.marks
  <2> HIDE DEF es
  <2> QED BY <1>4, <1>5 DEF Graphs
<1>7. ASSUME EndsKnown(c) PROVE EndsKnown(r)
  <2>1. ASSUME NEW i \in IdsOf(c.nodes) PROVE New(i) \in IdsOf(ns)
    <3>1. PICK k \in DOMAIN c.nodes : c.nodes[k].id = i
      BY DEF IdsOf
    <3> QED BY <1>3, <1>4, <3>1 DEF IdsOf
  <2>2. ASSUME NEW e \in es PROVE {e[1], e[2]} \subseteq IdsOf(ns)
    <3>1. PICK d \in c.edges : e = <<New(d[1]), New(d[2])>>
      OBVIOUS
    <3>2. d[1] \in IdsOf(c.nodes) /\ d[2] \in IdsOf(c.nodes)
      BY <1>7 DEF EndsKnown
    <3> QED BY <2>1, <3>1, <3>2
  <2> HIDE DEF es
  <2> QED BY <1>6, <2>2 DEF EndsKnown
<1>8. ASSUME DistinctIds(c.nodes) PROVE DistinctIds(ns) /\ NumbersFit(ns)
  <2>1. DistinctIds(ns)
    BY <1>2, <1>3, <1>4, <1>8 DEF DistinctIds
  <2>2. NumbersFit(ns)
    BY <1>2, <1>3, <1>4 DEF NumbersFit
  <2> QED BY <2>1, <2>2
<1>9. WellFormed(r)
  BY <1>6, <1>7, <1>8 DEF WellFormed
<1>10. RenamedCanvas(c) = r
  BY DEF RenamedCanvas, New, ns
<1> QED
  <2> HIDE DEF r
  <2> QED BY <1>6, <1>9, <1>10

(* handleSubmit renames the canvas and keeps the one before.                  *)
LEMMA ClickSubmitInv == ASSUME EditorInv, ClickSubmit PROVE EditorInv'
<1> DEFINE ts == RenamedTasks(FlowToTasks(canvas.nodes, canvas.edges))
           c == RenamedCanvas(canvas)
<1>1. /\ canvas \in Graphs /\ WellFormed(canvas) /\ submits \in Nat /\ edits \in Nat
  BY DEF EditorInv, EditorTypeOK
<1>2. ts \in Seq(TaskSet)
  BY <1>1, CanvasNodes, TasksTyped, RenamedTasksTyped
<1>3. c \in Graphs /\ WellFormed(c)
  BY <1>1, RenamedWellFormed
<1> HIDE DEF ts, c
<1>4. /\ canvas' = c /\ submit' = [at |-> "asked", saved |-> canvas, tasks |-> ts]
      /\ submits' = submits + 1 /\ edits' = edits
  BY DEF ClickSubmit, ts, c
<1>5. EditorTypeOK'
  BY <1>1, <1>2, <1>3, <1>4 DEF EditorTypeOK
<1>6. submit'.saved = canvas
  BY <1>4
<1>7. WellFormed(canvas)' /\ WellFormed(submit.saved)'
  BY <1>1, <1>3, <1>4, <1>6 DEF WellFormed, EndsKnown, DistinctIds, NumbersFit, IdsOf
<1> QED
  BY <1>5, <1>7 DEF EditorInv

(* The canvas saved when nothing is submitted.                                *)
LEMMA NothingSaved == NoSubmit.saved \in Graphs /\ WellFormed(NoSubmit.saved)
BY DrawnWellFormed DEF NoSubmit

(* An answer leaves the canvas, or puts back the saved one.                   *)
LEMMA AnswersInv ==
    ASSUME EditorInv, Answered \/ Refused
    PROVE  EditorInv'
<1>1. /\ canvas \in Graphs /\ WellFormed(canvas)
      /\ submit.saved \in Graphs /\ WellFormed(submit.saved)
      /\ edits \in Nat /\ submits \in Nat
  BY DEF EditorInv, EditorTypeOK
<1>2. /\ canvas' = canvas \/ canvas' = submit.saved
      /\ submit' = NoSubmit /\ edits' = edits /\ submits' = submits
  BY DEF Answered, Refused, Restored
<1>3. canvas' \in Graphs /\ WellFormed(canvas)'
  BY <1>1, <1>2 DEF WellFormed, EndsKnown, DistinctIds, NumbersFit, IdsOf
<1>4. NoSubmit \in [at : {"idle", "asked"}, tasks : Seq(TaskSet), saved : Graphs]
  <2>1. <<>> \in Seq(TaskSet)
    OBVIOUS
  <2> DEFINE none == NoSubmit.saved
  <2>2. NoSubmit = [at |-> "idle", tasks |-> <<>>, saved |-> none]
    BY DEF NoSubmit
  <2>3. none \in Graphs
    BY NothingSaved
  <2> HIDE DEF none
  <2> QED BY <2>1, <2>2, <2>3
<1>5. WellFormed(submit.saved)'
  BY <1>2, NothingSaved DEF WellFormed, EndsKnown, DistinctIds, NumbersFit, IdsOf
<1> QED
  BY <1>1, <1>2, <1>3, <1>4, <1>5 DEF EditorInv, EditorTypeOK

(* Every step keeps the invariant.                                            *)
LEMMA NextInv == ASSUME EditorInv, [Next]_vars PROVE EditorInv'
<1>1. ASSUME NEW t \in Templates, LoadTemplate(t) PROVE EditorInv'
  <2>1. DagTemplates[t] \in Graphs /\ WellFormed(DagTemplates[t])
    BY Templated, TemplatesExist
  <2>2. Edit(DagTemplates[t])
    BY <1>1 DEF LoadTemplate
  <2> DEFINE c == DagTemplates[t]
  <2> HIDE DEF c
  <2>3. c \in Graphs /\ WellFormed(c) /\ Edit(c)
    BY <2>1, <2>2 DEF c
  <2> QED BY <2>3, EditInv
<1>2. "fail" \in Payloads
  BY DEF Payloads
<1>3. CASE UNCHANGED vars
  BY <1>3 DEF vars, EditorInv, EditorTypeOK, WellFormed, EndsKnown, DistinctIds, NumbersFit, IdsOf
<1> QED
  BY <1>1, <1>2, <1>3, AddNodeInv, DeleteNodeInv, KeyDeleteInv, UpdateNodeDataInv, ConnectInv,
     ClickSubmitInv, AnswersInv DEF Next

-----------------------------------------------------------------------------
(* The theorems                                                               *)

(* The invariant: canvas and saved canvas are graphs, and the number of a new *)
(* node is free (ControlSidebar.tsx, DagCanvas.tsx).                          *)
THEOREM EditorInvariance == Spec => []EditorInv
<1> QED
  BY InitInv, NextInv, PTL DEF Spec

(* No edge dangles unless the DEL button was used, no two nodes share an id   *)
(* unless one was deleted, whatever is edited while a submission is under way.*)
THEOREM CanvasStaysWellFormed == Spec => []CanvasWellFormed
<1>1. EditorInv => CanvasWellFormed
  BY DEF EditorInv, WellFormed, CanvasWellFormed
<1> QED
  BY <1>1, EditorInvariance, PTL

(* Whatever the user draws, however large, validateDAG accepts it if and only *)
(* if it can be executed: Kahn's algorithm leaves out no graph without a      *)
(* cycle and lets none with a cycle pass.                                     *)
THEOREM ValidationAlwaysExact == Spec => []ValidationIsExact
<1>1. ASSUME EditorInv PROVE ValidationIsExact
  <2>1. Batch \in Seq(TaskSet)
    BY <1>1, CanvasNodes, TasksTyped DEF Batch
  <2> QED BY <2>1, AcceptedIffExecutable DEF ValidationIsExact
<1> QED
  BY <1>1, EditorInvariance, PTL

=============================================================================
