---------------------------------- MODULE Editor ----------------------------------
(* The graph the user draws and submits: the templates (templates.ts), the    *)
(* node editor of the sidebar (ControlSidebar.tsx), the connections made on   *)
(* the canvas, and what becomes of them on their way to the backend           *)
(* (dagConvert.ts, handleSubmit of DagCanvas.tsx, validateDAG of handlers.go).*)
(* The sidebar edits through the store of React Flow, which knows one node    *)
(* per id; the canvas keeps a list of its own, which may know two.            *)
EXTENDS Naturals, Sequences, FiniteSets

CONSTANTS
    Templates,  \* the templates the user may load
    MaxNodes,   \* bound: nodes on the canvas
    MaxEdits,   \* bound: edits, templates loaded
    MaxSubmits  \* bound: submissions

ASSUME EditorBounds == MaxNodes \in Nat /\ MaxEdits \in Nat /\ MaxSubmits \in Nat

VARIABLES
    canvas, \* nodes (a list), edges (source, target), kinds of edits made
    submit, \* the request under way: its tasks, previousNodes and previousEdges
    edits, submits

vars == <<canvas, submit, edits, submits>>

-----------------------------------------------------------------------------
(* Ids and DAG_TEMPLATES. The code makes ids of strings: "T" and a number, or *)
(* a word, then the suffix of each submission. What a template says does not  *)
(* matter: its k-th node is number k, in the order in which it lists them.    *)
Id(name, k) == [name |-> name, number |-> k, sent |-> <<>>]
T(k) == Id("T", k)

Node(id, payload) == [id |-> id, payload |-> payload]
Drawn(name, n, sleeping, edges) ==
    [nodes |-> [k \in 1..n |-> Node(Id(name, k), IF k \in sleeping THEN "sleep" ELSE "work")],
     edges |-> {<<Id(name, e[1]), Id(name, e[2])>> : e \in edges}, marks |-> {}]

DagTemplates == [
    simple |-> Drawn("T", 3, {}, {<<1, 2>>, <<2, 3>>}),
    diamond |-> Drawn("word", 4, {2}, {1} \X {2, 3} \cup {2, 3} \X {4}),
    complex |-> Drawn("word", 7, {3, 4, 5},
        {<<1, 2>>, <<6, 7>>} \cup {2} \X {3, 4, 5} \cup {3, 4, 5} \X {6}),
    mapReduce |-> Drawn("word", 8, {2, 4},
        {1} \X {2, 3, 4} \cup {2, 3, 4} \X {5} \cup {5} \X {6, 7} \cup {6, 7} \X {8}),
    bipartite |-> Drawn("word", 5, {4, 5}, {1, 2, 3} \X {4, 5}),
    mesh |-> Drawn("word", 7, {2, 4, 7},
        {1} \X {2, 3, 4} \cup {2, 3} \X {4} \cup {2, 4} \X {5} \cup {3, 4} \X {6}
            \cup {5, 6} \X {7})]

ASSUME TemplatesExist == Templates \subseteq DOMAIN DagTemplates

NoSubmit == [at |-> "idle", tasks |-> <<>>, saved |-> Drawn("T", 0, {}, {})]

Init ==
    /\ canvas = Drawn("T", 2, {1}, {<<1, 2>>})
    /\ submit = NoSubmit /\ edits = 0 /\ submits = 0

-----------------------------------------------------------------------------
(* The nodes as the store of React Flow holds them, in a map by id: of two    *)
(* with one id the later, in the place of the earlier.                        *)
IdsOf(ns) == {ns[k].id : k \in DOMAIN ns}
Put(ns, n) ==
    IF n.id \in IdsOf(ns) THEN [k \in DOMAIN ns |-> IF ns[k].id = n.id THEN n ELSE ns[k]]
    ELSE Append(ns, n)
StoreOf(ns) ==
    LET Held[k \in 0..Len(ns)] == IF k = 0 THEN <<>> ELSE Put(Held[k-1], ns[k])
    IN Held[Len(ns)]
Store == StoreOf(canvas.nodes)

Edit(c) ==
    /\ edits < MaxEdits /\ edits' = edits + 1
    /\ canvas' = c
    /\ UNCHANGED <<submit, submits>>

LoadTemplate(t) == Edit(DagTemplates[t])

(* handleAddNode                                                              *)
NewId == T(Len(Store) + 1)
AddNode ==
    /\ Len(Store) < MaxNodes
    /\ Edit([canvas EXCEPT !.nodes = Append(Store, Node(NewId, "work")),
                           !.marks = @ \cup {"drawn"}])

(* handleDeleteNode takes the node, and leaves its edges.                     *)
Without(ns, id) ==
    LET Kept[k \in 0..Len(ns)] ==
            IF k = 0 THEN <<>>
            ELSE IF ns[k].id = id THEN Kept[k-1] ELSE Append(Kept[k-1], ns[k])
    IN Kept[Len(ns)]
DeleteNode(id) ==
    /\ id \in IdsOf(canvas.nodes)
    /\ Edit([canvas EXCEPT !.nodes = Without(Store, id), !.marks = @ \cup {"button"}])

(* The delete key of React Flow takes the edges along.                        *)
KeyDelete(id) ==
    /\ id \in IdsOf(canvas.nodes)
    /\ Edit([canvas EXCEPT !.nodes = Without(@, id),
                           !.edges = {e \in @ : id \notin {e[1], e[2]}},
                           !.marks = @ \cup {"key"}])

(* updateNodeData                                                             *)
UpdateNodeData(id, payload) ==
    /\ id \in IdsOf(canvas.nodes)
    /\ Edit([canvas EXCEPT !.nodes =
                [k \in DOMAIN Store |-> IF Store[k].id = id THEN Node(id, payload) ELSE Store[k]]])

(* onConnect: any two nodes, in any direction.                                *)
Connect(s, t) ==
    /\ {s, t} \subseteq IdsOf(canvas.nodes)
    /\ Edit([canvas EXCEPT !.edges = @ \cup {<<s, t>>}, !.marks = @ \cup {"drawn"}])

-----------------------------------------------------------------------------
(* flowToTasks, then the suffix of handleSubmit, on tasks and canvas alike:   *)
(* an id that is no task's keeps its name.                                    *)
FlowToTasks(ns, es) ==
    [k \in DOMAIN ns |-> [id |-> ns[k].id, payload |-> ns[k].payload,
                          deps |-> {e[1] : e \in {d \in es : d[2] = ns[k].id}}]]

NewName(ids, id) == IF id \in ids THEN [id EXCEPT !.sent = Append(@, submits)] ELSE id
RenamedTasks(ts) ==
    LET New(i) == NewName(IdsOf(ts), i)
    IN [k \in DOMAIN ts |-> [ts[k] EXCEPT !.id = New(@), !.deps = {New(d) : d \in @}]]
RenamedCanvas(c) ==
    LET New(i) == NewName(IdsOf(c.nodes), i)
    IN [c EXCEPT !.nodes = [k \in DOMAIN @ |-> Node(New(@[k].id), @[k].payload)],
                 !.edges = {<<New(e[1]), New(e[2])>> : e \in @}]

ClickSubmit ==
    /\ submit.at = "idle" /\ submits < MaxSubmits /\ submits' = submits + 1
    /\ submit' = [at |-> "asked", saved |-> canvas,
                  tasks |-> RenamedTasks(FlowToTasks(canvas.nodes, canvas.edges))]
    /\ canvas' = RenamedCanvas(canvas)
    /\ UNCHANGED edits

(* validateDAG: no empty batch, no id twice, no unknown dependency, and every *)
(* task reached from the roots, each once all its dependencies have been.     *)
(* That no task names a dependency twice needs no check here: the canvas has  *)
(* one edge for two nodes (addEdge refuses a second, no template draws one).  *)
Visited(ts) ==
    LET Reach[k \in 0..Len(ts)] ==
            IF k = 0 THEN {}
            ELSE LET before == Reach[k-1]
                 IN before \cup {ts[j].id : j \in {i \in DOMAIN ts : ts[i].deps \subseteq before}}
    IN Reach[Len(ts)]
Accepted_NoCycleCheck(ts) ==
    /\ ts # <<>>
    /\ \A j, k \in DOMAIN ts : ts[j].id = ts[k].id => j = k
    /\ \A k \in DOMAIN ts : ts[k].deps \subseteq IdsOf(ts)
    /\ \E k \in DOMAIN ts : ts[k].deps = {}
Accepted(ts) ==
    /\ ts # <<>>
    /\ \A j, k \in DOMAIN ts : ts[j].id = ts[k].id => j = k
    /\ \A k \in DOMAIN ts : ts[k].deps \subseteq IdsOf(ts)
    /\ Cardinality(Visited(ts)) = Len(ts)

(* The answer, or the lack of one: a refused submission puts the canvas back. *)
Restored_NodesOnly == [submit.saved EXCEPT !.edges = canvas.edges]
Restored == submit.saved
Answered ==
    /\ submit.at = "asked"
    /\ Accepted(submit.tasks) /\ UNCHANGED canvas
    /\ submit' = NoSubmit /\ UNCHANGED <<edits, submits>>
Refused ==
    /\ submit.at = "asked"
    /\ canvas' = Restored
    /\ submit' = NoSubmit /\ UNCHANGED <<edits, submits>>

Next ==
    \/ \E t \in Templates : LoadTemplate(t)
    \/ AddNode
    \/ \E id \in IdsOf(canvas.nodes) :
          DeleteNode(id) \/ KeyDelete(id) \/ UpdateNodeData(id, "fail")
    \/ \E s, t \in IdsOf(canvas.nodes) : Connect(s, t)
    \/ ClickSubmit \/ Answered \/ Refused

Spec == Init /\ [][Next]_vars

-----------------------------------------------------------------------------
(* Properties.                                                                *)

Batch == FlowToTasks(canvas.nodes, canvas.edges)
DistinctIds(ts) == \A j, k \in DOMAIN ts : ts[j].id = ts[k].id => j = k
KnownDeps(ts) == \A k \in DOMAIN ts : ts[k].deps \subseteq IdsOf(ts)
EndsKnown(c) == \A e \in c.edges : {e[1], e[2]} \subseteq IdsOf(c.nodes)

(* Drawing never loses its way: through edits, suffixes and canvases put back *)
(* (also over what was edited meanwhile), no edge dangles unless the DEL      *)
(* button was used, and no two nodes share an id unless one was deleted.      *)
CanvasWellFormed ==
    /\ "button" \notin canvas.marks => EndsKnown(canvas)
    /\ canvas.marks \subseteq {"drawn"} => DistinctIds(canvas.nodes)

(* The backend accepts exactly the graphs that can be executed: tasks known   *)
(* by their ids, and no set of them in which each waits for another.          *)
Executable(ts) ==
    /\ ts # <<>> /\ DistinctIds(ts) /\ KnownDeps(ts)
    /\ \A S \in SUBSET DOMAIN ts :
          S # {} => \E k \in S : \A j \in S : ts[j].id \notin ts[k].deps
ValidationIsExact == Accepted(Batch) <=> Executable(Batch)

-----------------------------------------------------------------------------
(* What the comments of the page say and the code does not keep: TLC refutes  *)
(* these two, and no run checks them.                                         *)

(* What is sent has the format the backend expects, and every dependency is   *)
(* the id of a task: the DEL button leaves the edges of its node.             *)
DependenciesSent == submit.at = "asked" => KnownDeps(submit.tasks)

(* The ids of a submission are unique: after a deletion the number of nodes   *)
(* plus one may be the number of a node that is still there.                  *)
UniqueIdsSent == submit.at = "asked" => DistinctIds(submit.tasks)
=============================================================================
