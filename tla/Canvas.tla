---------------------------------- MODULE Canvas ----------------------------------
(* The DAG canvas (DagCanvas.tsx): the status it shows for every task, built  *)
(* from three sources that overtake each other: the events of the socket, the *)
(* snapshots of GET /dag/state, fetched on mount and after system.recover,    *)
(* and its own submissions, which rename every task (the suffix) and put the  *)
(* canvas back when they fail.  An id is a name and the number of the         *)
(* submission that made its suffix; number 0 is the canvas as drawn.          *)
EXTENDS Naturals, Sequences, FiniteSets

CONSTANTS
    Names,      \* the nodes
    Edges,      \* <<source, target>> pairs of names
    Submits,    \* submissions that may overlap (the user's, the demo's)
    Fetches,    \* snapshot requests that may overlap
    MaxSubmits, \* bound: submissions
    MaxRetries, \* retry budget of a task
    MaxWire,    \* bound: events on their way before the scheduler emits more
    MaxUpsets   \* bound, together: submissions after the first, templates
                \* loaded, reloads, crashes, disconnections, answers lost

ASSUME CanvasBounds ==
    /\ MaxSubmits \in Nat /\ MaxRetries \in Nat /\ MaxWire \in Nat /\ MaxUpsets \in Nat
    /\ Edges \subseteq Names \X Names /\ IsFiniteSet(Names)

VARIABLES
    canvas,    \* gen: suffix of its ids, node: status shown, edge: style shown
    killed,    \* cascadeKilledIds
    timers,    \* ids whose delayed cascade status is still to be shown
    submit,    \* of each submission: where it is, its suffix, previousNodes
    fetch,     \* of each request: where it is, its answer, what moved since
    wire,      \* events on their way to the page
    connected, \* the page's socket is registered with the hub
    task,      \* the scheduler's status of each id
    retries,   \* and its retry count
    running,   \* the scheduler runs
    gens,      \* submissions so far
    dirty,     \* ids the canvas cannot know about: see Miss
    upsets     \* of those under MaxUpsets, so far

page == <<canvas, killed, timers, submit, fetch>>
net == <<wire, connected>>
backend == <<task, retries, running>>
vars == <<page, net, backend, gens, dirty, upsets>>

Ids == Names \X (1..MaxSubmits)
CanvasIds == Names \X {canvas.gen}
Deps(i) == {<<e[1], i[2]>> : e \in {d \in Edges : d[2] = i[1]}}

Drawn(gen) == [gen |-> gen, node |-> [n \in Names |-> "pending"],
               edge |-> [e \in Edges |-> "idle"]]
NoSubmit == [at |-> "idle", gen |-> 0, saved |-> Drawn(0)]
NoFetch == [at |-> "idle", then |-> FALSE, snap |-> <<>>, moved |-> {}]
Asked(then) == [NoFetch EXCEPT !.at = "asked", !.then = then]

Init ==
    /\ canvas = Drawn(0) /\ killed = {} /\ timers = {}
    /\ submit = [s \in Submits |-> NoSubmit]
    /\ \E f \in Fetches : fetch = [g \in Fetches |-> IF g = f THEN Asked(FALSE) ELSE NoFetch]
    /\ wire = <<>> /\ connected = TRUE
    /\ task = [i \in Ids |-> "none"] /\ retries = [i \in Ids |-> 0] /\ running = TRUE
    /\ gens = 0 /\ dirty = {}
    /\ upsets = 0

-----------------------------------------------------------------------------
(* What the page has missed.  An event about an id that is lost, or comes     *)
(* while the id is not on the canvas but waits in the previousNodes of a      *)
(* submission, leaves the canvas without a way to know; an answer given       *)
(* before such a change, or before an event that has been shown, is older     *)
(* than the canvas.                                                           *)
Moved(ids) ==
    [f \in Fetches |-> IF fetch[f].at = "answered"
                       THEN [fetch[f] EXCEPT !.moved = @ \cup ids] ELSE fetch[f]]
Miss(ids) == dirty' = dirty \cup ids /\ fetch' = Moved(ids)
Superseded(i) == \E s \in Submits : submit[s].at # "idle" /\ submit[s].saved.gen = i[2]

-----------------------------------------------------------------------------
(* The backend, as the page sees it: the tasks of Engine, and their events.   *)

About(e) == IF e.type = "cascade" THEN e.tasks ELSE IF e.type = "system" THEN {} ELSE {e.id}
TaskEvent(type, i) == [type |-> type, id |-> i, tasks |-> {}]
SystemEvent(which) == [type |-> "system", id |-> <<which, 0>>, tasks |-> {}]

(* hub.broadcast: whoever is not registered misses the events.                *)
Emit(events) ==
    /\ Len(wire) < MaxWire
    /\ IF connected
       THEN wire' = wire \o events /\ UNCHANGED <<dirty, fetch>>
       ELSE Miss(UNION {About(events[k]) : k \in 1..Len(events)}) /\ UNCHANGED wire

BackendFrame == UNCHANGED <<canvas, killed, timers, submit, connected, running, gens, upsets>>

Start(i) ==
    /\ running /\ task[i] = "pending" /\ \A d \in Deps(i) : task[d] = "completed"
    /\ task' = [task EXCEPT ![i] = "running"]
    /\ Emit(<<TaskEvent("started", i)>>)
    /\ UNCHANGED retries /\ BackendFrame
Complete(i) ==
    /\ running /\ task[i] = "running"
    /\ task' = [task EXCEPT ![i] = "completed"]
    /\ Emit(<<TaskEvent("completed", i)>>)
    /\ UNCHANGED retries /\ BackendFrame
Retry(i) ==
    /\ running /\ task[i] = "running" /\ retries[i] < MaxRetries
    /\ task' = [task EXCEPT ![i] = "pending"] /\ retries' = [retries EXCEPT ![i] = @ + 1]
    /\ Emit(<<TaskEvent("retry", i)>>)
    /\ BackendFrame

(* A permanent failure takes the dependents along, and the cascade event      *)
(* names the root among them (propagateFailure).                              *)
Downstream(i) ==
    LET Reach[k \in 0..Cardinality(Names)] ==
            IF k = 0 THEN {i} ELSE Reach[k-1] \cup {j \in Ids : Deps(j) \cap Reach[k-1] # {}}
    IN Reach[Cardinality(Names)]
Fail(i) ==
    /\ running /\ task[i] = "running" /\ retries[i] = MaxRetries
    /\ task' = [j \in Ids |-> IF j \in Downstream(i) THEN "failed" ELSE task[j]]
    /\ Emit(<<TaskEvent("failed", i),
              [type |-> "cascade", id |-> i, tasks |-> Downstream(i)]>>)
    /\ UNCHANGED retries /\ BackendFrame

(* The connection is lost: of what was on its way a first part still arrives. *)
(* The hub is taken to have nothing left to send when the page is back.       *)
Cut(events) ==
    /\ connected' = FALSE
    /\ upsets < MaxUpsets /\ upsets' = upsets + 1
    /\ \E k \in 0..Len(events) :
          /\ wire' = SubSeq(events, 1, k)
          /\ Miss(UNION {About(events[j]) : j \in k+1..Len(events)})
    /\ UNCHANGED <<canvas, killed, timers, submit, task, retries, gens>>
Crash == running /\ running' = FALSE /\ Cut(Append(wire, SystemEvent("crash")))
Disconnect == connected /\ Cut(wire) /\ UNCHANGED running
Reconnect ==
    /\ ~connected /\ wire = <<>> /\ connected' = TRUE
    /\ UNCHANGED <<page, wire, backend, gens, dirty, upsets>>

(* Replay, which announces itself. Of what was running the scheduler may have *)
(* stopped before it heard the end that a worker logged: `done` and `broken`  *)
(* are those tasks. They end, or are tried once more, without an event, and   *)
(* no cascade follows; whatever else was running is pending again.            *)
Orphans == {i \in Ids : task[i] = "running"}
Recover ==
    /\ ~running /\ running' = TRUE
    /\ \E done \in SUBSET Orphans : \E broken \in SUBSET (Orphans \ done) :
          LET last == {i \in broken : retries[i] = MaxRetries}
          IN /\ task' = [i \in Ids |-> IF i \in done THEN "completed"
                                      ELSE IF i \in last THEN "failed"
                                      ELSE IF i \in Orphans THEN "pending" ELSE task[i]]
             /\ retries' = [i \in Ids |-> IF i \in broken \ last THEN retries[i] + 1
                                         ELSE retries[i]]
    /\ Miss(Orphans)
    /\ wire' = IF connected THEN Append(wire, SystemEvent("recover")) ELSE wire
    /\ UNCHANGED <<canvas, killed, timers, submit, connected, gens, upsets>>

-----------------------------------------------------------------------------
(* The event handler.                                                         *)

StatusOf_RetryIsFailure(type) ==
    CASE type = "started" -> "running" [] type = "completed" -> "completed"
      [] type \in {"failed", "retry"} -> "failed"
StatusOf(type) ==
    CASE type = "started" -> "running" [] type = "completed" -> "completed"
      [] type = "failed" -> "failed" [] type = "retry" -> "retrying"

SetNode(i, st) == [canvas.node EXCEPT ![i[1]] = st]
Restyled(e) ==
    [d \in Edges |-> IF e.type = "started" /\ d[2] = e.id[1] THEN "active"
                     ELSE IF e.type = "completed" /\ d[1] = e.id[1] THEN "complete"
                     ELSE canvas.edge[d]]

(* An event about a task updates it when its id is on the canvas.  Of a lost  *)
(* connection it may be the last to arrive and not the last that was sent.    *)
Known(ids) ==
    /\ dirty' = IF connected THEN dirty \ ids ELSE dirty \cup ids
    /\ fetch' = Moved(ids)
Unknown(ids) == Miss({i \in ids : Superseded(i)})

OnTaskEvent(e) ==
    /\ e.type \in {"started", "completed", "failed", "retry"}
    /\ IF e.id \in CanvasIds
       THEN /\ canvas' = [canvas EXCEPT !.node = SetNode(e.id, StatusOf(e.type)),
                                        !.edge = Restyled(e)]
            /\ Known({e.id})
       ELSE UNCHANGED canvas /\ Unknown({e.id})
    /\ UNCHANGED <<killed, timers>>

(* Each status of a cascade is shown by a timer of its own.                   *)
OnCascade_NoTimer(e) ==
    /\ e.type = "cascade"
    /\ killed' = killed \cup e.tasks /\ Miss({i \in e.tasks : Superseded(i)})
    /\ UNCHANGED <<canvas, timers>>
OnCascade(e) ==
    /\ e.type = "cascade"
    /\ killed' = killed \cup e.tasks /\ timers' = timers \cup e.tasks
    /\ Miss({i \in e.tasks : Superseded(i)})
    /\ UNCHANGED canvas

OnSystemEvent(e) ==
    /\ e.type = "system"
    /\ IF e.id[1] = "crash"
       THEN /\ canvas' = [canvas EXCEPT !.edge = [d \in Edges |-> "crash"]]
            /\ UNCHANGED fetch
       ELSE /\ \E f \in Fetches : /\ fetch[f].at = "idle"
                                  /\ fetch' = [fetch EXCEPT ![f] = Asked(TRUE)]
            /\ UNCHANGED canvas
    /\ UNCHANGED <<killed, timers, dirty>>

OnMessage ==
    /\ wire # <<>> /\ wire' = Tail(wire)
    /\ LET e == Head(wire) IN OnTaskEvent(e) \/ OnCascade(e) \/ OnSystemEvent(e)
    /\ UNCHANGED <<submit, connected, backend, gens, upsets>>

CascadeTimer(i) ==
    /\ i \in timers /\ timers' = timers \ {i}
    /\ IF i \in CanvasIds
       THEN /\ canvas' = [canvas EXCEPT !.node = SetNode(i, "cascade-failed")]
            /\ fetch' = Moved({i}) /\ UNCHANGED dirty
       ELSE UNCHANGED canvas /\ Unknown({i})
    /\ UNCHANGED <<killed, submit, net, backend, gens, upsets>>

-----------------------------------------------------------------------------
(* The dependency view of SystemInternalsPanel, derived from the canvas.      *)
Remaining_NotFailed(n) ==
    Cardinality({e \in Edges : e[2] = n /\ canvas.node[e[1]] \in {"pending", "running"}})
Remaining(n) == Cardinality({e \in Edges : e[2] = n /\ canvas.node[e[1]] # "completed"})
DependencyLabel(n) ==
    CASE canvas.node[n] # "pending" -> canvas.node[n]
      [] canvas.node[n] = "pending" /\ Remaining(n) = 0 -> "READY"
      [] OTHER -> "wait"

-----------------------------------------------------------------------------
(* reconstructFromState                                                       *)

(* handleDAGState: without a scheduler there are no tasks to report.          *)
ServeFetch(f) ==
    /\ fetch[f].at = "asked"
    /\ fetch' = [fetch EXCEPT ![f].at = "answered",
                              ![f].snap = IF running THEN task ELSE [i \in Ids |-> "none"]]
    /\ UNCHANGED <<canvas, killed, timers, submit, net, backend, gens, dirty, upsets>>

FetchFails(f) ==
    /\ fetch[f].at \in {"asked", "answered"} /\ upsets < MaxUpsets /\ upsets' = upsets + 1
    /\ fetch' = [fetch EXCEPT ![f] = [Asked(fetch[f].then) EXCEPT !.at = "failed"]]
    /\ UNCHANGED <<canvas, killed, timers, submit, net, backend, gens, dirty>>

Reconstructed(snap) ==
    [n \in Names |->
        LET i == <<n, canvas.gen>> IN
        IF i \notin Ids \/ snap[i] = "none" THEN canvas.node[n]
        ELSE IF i \in killed THEN "cascade-failed"
        ELSE snap[i]]

FetchReturns(f) ==
    /\ fetch[f].at \in {"answered", "failed"}
    /\ LET a == fetch[f]
           seen == IF a.at = "failed" THEN {} ELSE {i \in CanvasIds \cap Ids : a.snap[i] # "none"}
       IN /\ canvas' = [canvas EXCEPT
                !.node = IF a.at = "failed" THEN @ ELSE Reconstructed(a.snap),
                !.edge = IF a.then THEN [d \in Edges |-> "idle"] ELSE @]
          /\ dirty' = (dirty \ seen) \cup (seen \cap a.moved)
          /\ fetch' = [Moved(seen) EXCEPT ![f] = NoFetch]
    /\ UNCHANGED <<killed, timers, submit, net, backend, gens, upsets>>

-----------------------------------------------------------------------------
(* handleSubmit and loadTemplate.                                             *)

(* The ids are renamed before the request.                                    *)
Renamed_KeepStatus(gen) == [canvas EXCEPT !.gen = gen]
Renamed(gen) == Drawn(gen)

ClickSubmit(s) ==
    /\ submit[s].at = "idle" /\ gens < MaxSubmits
    /\ gens > 0 => upsets < MaxUpsets
    /\ gens' = gens + 1 /\ upsets' = IF gens > 0 THEN upsets + 1 ELSE upsets
    /\ killed' = {}
    /\ submit' = [submit EXCEPT ![s] = [at |-> "asked", gen |-> gens + 1, saved |-> canvas]]
    /\ canvas' = Renamed(gens + 1)
    /\ UNCHANGED <<timers, fetch, net, backend, dirty>>

(* handleSubmitDAG: the batch is accepted, or refused, for want of a          *)
(* scheduler or of room.                                                      *)
ServeSubmit(s) ==
    /\ submit[s].at = "asked"
    /\ \/ /\ running
          /\ task' = [i \in Ids |-> IF i[2] = submit[s].gen THEN "pending" ELSE task[i]]
          /\ submit' = [submit EXCEPT ![s].at = "accepted"]
       \/ UNCHANGED task /\ submit' = [submit EXCEPT ![s].at = "refused"]
    /\ UNCHANGED <<canvas, killed, timers, fetch, net, retries, running, gens, dirty, upsets>>
AnswerLost(s) ==
    /\ submit[s].at = "accepted" /\ upsets < MaxUpsets /\ upsets' = upsets + 1
    /\ submit' = [submit EXCEPT ![s].at = "refused"]
    /\ UNCHANGED <<canvas, killed, timers, fetch, net, backend, gens, dirty>>

SubmitReturns(s) ==
    /\ submit[s].at \in {"accepted", "refused"}
    /\ submit' = [submit EXCEPT ![s] = NoSubmit]
    /\ canvas' = IF submit[s].at = "refused" THEN submit[s].saved ELSE canvas
    /\ UNCHANGED <<killed, timers, fetch, net, backend, gens, dirty, upsets>>

LoadTemplate ==
    /\ upsets < MaxUpsets /\ upsets' = upsets + 1
    /\ canvas' = Drawn(0) /\ killed' = {}
    /\ UNCHANGED <<timers, submit, fetch, net, backend, gens, dirty>>

(* The page is loaded again and starts from the initial nodes.                *)
Reload ==
    /\ upsets < MaxUpsets /\ upsets' = upsets + 1
    /\ \A s \in Submits : submit[s].at = "idle"
    /\ canvas' = Drawn(0) /\ killed' = {} /\ timers' = {}
    /\ \E f \in Fetches : fetch' = [g \in Fetches |-> IF g = f THEN Asked(FALSE) ELSE NoFetch]
    /\ wire' = <<>> /\ connected' = FALSE
    /\ dirty' = Ids
    /\ UNCHANGED <<submit, backend, gens>>

Next ==
    \/ \E i \in Ids : Start(i) \/ Complete(i) \/ Retry(i) \/ Fail(i) \/ CascadeTimer(i)
    \/ Crash \/ Recover \/ Disconnect \/ Reconnect \/ OnMessage
    \/ \E f \in Fetches : ServeFetch(f) \/ FetchFails(f) \/ FetchReturns(f)
    \/ \E s \in Submits : ClickSubmit(s) \/ ServeSubmit(s) \/ AnswerLost(s) \/ SubmitReturns(s)
    \/ LoadTemplate \/ Reload

Spec == Init /\ [][Next]_vars

-----------------------------------------------------------------------------
(* Properties.                                                                *)

StatusNow(n) == IF <<n, canvas.gen>> \in Ids THEN task[<<n, canvas.gen>>] ELSE "none"

(* The canvas never shows an outcome the scheduler has not reached: late      *)
(* timers, late events and restored nodes of other submissions never show up  *)
(* on the tasks of this one.                                                  *)
OutcomesAreReal ==
    /\ \A n \in Names :
          /\ canvas.node[n] = "completed" => StatusNow(n) = "completed"
          /\ canvas.node[n] \in {"failed", "cascade-failed"} => StatusNow(n) = "failed"
    /\ \A e \in Edges : canvas.edge[e] = "complete" => StatusNow(e[1]) = "completed"

(* When nothing is under way the canvas agrees with the scheduler, whatever   *)
(* overtook what, on every task of which it has not missed an event.          *)
Quiet ==
    /\ connected /\ running /\ wire = <<>> /\ timers = {}
    /\ \A s \in Submits : submit[s].at = "idle"
    /\ \A f \in Fetches : fetch[f].at = "idle"
Agrees(shown, status) ==
    CASE status = "pending" -> shown \in {"pending", "retrying"}
      [] status = "failed" -> shown \in {"failed", "cascade-failed"}
      [] OTHER -> shown = status
CanvasAgrees ==
    Quiet => \A n \in Names :
                StatusNow(n) = "none" \/ <<n, canvas.gen>> \in dirty
                \/ Agrees(canvas.node[n], StatusNow(n))

(* A task that the dependency view calls ready, or that is shown running, has *)
(* its dependencies completed by the scheduler, not just in the picture.      *)
ReadyIsReal ==
    \A e \in Edges :
        DependencyLabel(e[2]) \in {"READY", "running"} => StatusNow(e[1]) = "completed"

-----------------------------------------------------------------------------
(* What the page or its documentation says and the code does not keep: TLC    *)
(* refutes these three, and no run checks them.                               *)

(* A pending node awaits its backend event: a snapshot given before the event *)
(* and applied after it takes the node back.                                  *)
AwaitingIsTrue ==
    Quiet => \A n \in Names :
                canvas.node[n] = "pending" => StatusNow(n) \notin {"running", "completed", "failed"}

(* A task that failed for good by itself is shown as failed, not as one that  *)
(* a cascade has taken along: the cascade event names it too.                 *)
RootShownFailed ==
    Quiet => \A n \in Names :
                (StatusNow(n) = "failed" /\ \A d \in Deps(<<n, canvas.gen>>) : task[d] # "failed")
                    => canvas.node[n] = "failed"

(* The graph is reconstructed without losing in-flight state: after a reload  *)
(* the ids on the canvas have lost their suffix, and match nothing.           *)
InFlightShown ==
    Quiet => \A i \in Ids :
                (task[i] = "running" /\ i[2] = gens) => canvas.gen = gens
=============================================================================
