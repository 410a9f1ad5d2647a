# OrionScheduler, verified

TLA+ models of OrionScheduler, the TLC configurations that check them, and TLAPS
proofs of the invariants that matter most. The models cover the scheduling core
and its server (Go) and the console in the browser (TypeScript). Paths below are
relative to the root of the repository.

- [1 The system](#1-the-system)
- [2 Plan](#2-plan)
- [3 Modules and code](#3-modules-and-code)
- [4 Runs](#4-runs)
- [5 Fairness](#5-fairness)
- [6 Proofs](#6-proofs)
- [7 What the code does that its documents do not say](#7-what-the-code-does-that-its-documents-do-not-say)
- [8 Not modelled](#8-not-modelled)

## 1 The system

A single process accepts DAGs of tasks over HTTP, writes each to a log, schedules
the tasks on a pool of workers, retries failures, fails what depends on a
permanent failure, and after a crash rebuilds the scheduler from the log. A
console in the browser draws the graphs, submits them, crashes and recovers the
scheduler, and shows what happens from polls, snapshots and a stream of events.

### Components

| Component | Code | State | Operations |
|---|---|---|---|
| Task | `pkg/models/task.go` | ID, dependencies, priority, retries, status, Cancelled flag | none |
| Ready queue | `internal/engine/heap.go` | a heap ordered by priority, then ID | Enqueue, Dequeue |
| Write-ahead log | `internal/storage/wal.go` | an append-only file of INGEST, START, COMPLETE, FAIL (organic or cascade) and REQUEST records; a mutex | the Append operations, Recover (parse, cut the torn tail, list the tasks in progress) |
| Run loop | `internal/engine/scheduler.go` | tasks, inDegree, dependents, ready queue, counters, retry timers | the cases of one `select`: ingest, pop, complete, fail, retry, the replay handlers, requeue of orphans, snapshot |
| Dispatch loop | `scheduler.go`, `pushLoop` | the task it is offering | ask for a task, offer it on `readyChan` |
| Worker pool | `internal/engine/worker.go` | the task of each worker | take, check Cancelled, log START, execute, log the result, notify |
| Manager | `internal/engine/manager.go` | the current scheduler, log and dispatcher; a mutex | Start (recover, replay, requeue, dispatch), SimulateCrash, Recover |
| Submission | `internal/api/handlers.go`, `idempotency.go`, `dagstore.go` | the idempotency store, the DAG store | validate, backpressure, AppendIngest, Ingest, answer |
| Readers | `handlers.go` | none | status, health, metrics, snapshot, DAG list |
| Admin | `internal/api/admin.go` | none | simulate a crash, recover |
| Event stream | `websocket.go`, `pkg/models/event.go` | EventChan (1000), hub clients | emit, drop when full, forward, broadcast, CloseAll |
| Console: socket | `hooks/useWebSocket.ts`, `lib/api.ts` | socket, status, reconnect timer, listeners | connect, reconnect, deliver, subscribe |
| Console: page | `app/page.tsx`, `Console/ControlSidebar.tsx` | system state, flags, polls, the demo | poll, crash, recover, submit, demo |
| Console: canvas | `Console/DagCanvas.tsx` | nodes, edges, cascade timers, killed ids, a snapshot request | event handler, snapshot, submit, template |
| Console: editor | `ControlSidebar.tsx`, `lib/dagConvert.ts`, `lib/templates.ts` | the drawn graph | add, delete, connect, update, load, convert |
| Console: panels | `WorkerPoolPanel`, `EnhancedEventStream`, `SystemInternalsPanel` | a picture of workers, a list of events, retry timers | event handlers, timers |
| Console: status bar | `SystemStatusBar.tsx` | metrics, uptime | fetch, metrics event, a one-second interval |
| Load test, seed | `cmd/loadtest`, `scripts` | none | submit, poll until drained |

### How they meet

The run loop owns the scheduler's state. Everybody else reaches it through an
unbuffered channel whose other end is one case of its `select`: a request on
`ingestChan`, `pushLoop` on `popReqChan`, a worker on `completeChan` or
`failChan`, a retry timer on `retryChan`, the manager on the replay channels. Two
things are shared outside the channels: the log (a mutex, four kinds of writer)
and the Cancelled flag (atomic; written by a cascade, read by workers). A
cancelled context ends the goroutines, each at its next `select`; `done` is
closed when the run loop returns, and releases whoever waits for it.

Requests reach the scheduler through a pointer they read from the manager once;
crash and recovery replace it under the manager's mutex. Events leave the run
loop through `EventChan`, one per scheduler; a goroutine of the hub writes them to
every registered socket. A crash closes all sockets, and
what is left in the channel is drained beside the channel of the next scheduler.

In the browser everything runs on one thread, and everything that takes time is
asynchronous: a fetch, a timer, a socket event, a React commit. Each of them
works with the state of the moment at which it was started or with the state of
the moment at which it ends, and the code chooses which by hand (refs, closures,
functional updates).

### What is hard

- A failure cascade of the run loop runs beside workers that hold tasks of the
  same graph and append to the same log.
- A retried task exists only as a timer; a dispatched one only in the hands of
  `pushLoop` or a worker. Losing either loses the task.
- The state of the scheduler and the records of the log are written by different
  goroutines in two steps, live; replay must arrive at the same state from the
  records alone, through handlers written apart from the live ones.
- A crash may fall between any two of those steps, also during a drain or a
  replay.
- An append may fail after the record has reached the file.
- Waiting during a simulated crash: workers wait for a run loop that returns, the
  manager for the workers.
- Requests interleave with each other, with a crash and with a recovery, holding
  a scheduler that may be the one before.
- The close event of a replaced socket, the timer of an effect that has been
  cleaned up, the handler of a render long past: late callbacks of the console.
- The canvas is told the same thing by an event, a snapshot and its own submission,
  in any order; a lost event is never sent again.
- Flags that disable buttons are set by handlers that may overlap (the user's and
  the demo's).

### What makes each component correct

- Run loop: nothing runs before its dependencies; `inDegree` counts exactly what
  is missing; no task is lost; settled tasks stay settled; a cascade reaches all
  and only what depends on the failure; the counters are the statuses.
- Dispatch and workers: a task is in one pair of hands; the log starts nothing
  before it completes its dependencies.
- Log and recovery: what the log says completed or failed is so in every later
  life; budget is not refilled by a crash; completed work does not run again;
  what was in flight is requeued once; an accepted batch is in every later life.
- Manager: a simulated crash returns; one scheduler at a time.
- Submission: one key, one acceptance; what was accepted is known to whichever
  scheduler runs; every request is answered.
- Event stream and socket: one connection, a true status, a reconnect that comes;
  panels hear the same events, none twice, none out of order.
- Page: no flag outlives its handler; label and buttons agree; the page comes to
  show what the backend is.
- Canvas, panels, status bar: nothing shown that did not happen; agreement with
  the scheduler when nothing is under way and nothing was lost.
- Editor: the graph stays a graph; the backend takes exactly what can be executed.

The list of what is hard to test, line by line, is `hazards` in `PROJECT.json`.

## 2 Plan

| Step | Module | Content | State |
|---|---|---|---|
| 1 | `OrionTasks`, `Wal`, `Scheduler` | data, log, run loop | done |
| 2 | `Engine` | one life: run loop, `pushLoop`, workers, requests | done |
| 3 | `Lifecycle`, `EngineLifecycle` | abstract specification of the life of a task, which `Engine` implements | done |
| 4 | `EngineProofs` | the inductive invariant of `Engine` and the theorems about its properties, the refinement, what the log says of the state, and (with 5) all lives | done |
| 5 | `Recovery` | crashes of both kinds, replay, lives in sequence; what survives, checked and proved | done |
| 6 | `Service`, `ServiceProofs` | submissions, crashes and recoveries beside each other, with the manager's lock, the log and the idempotency store | done |
| 7 | `Feed`, `Socket`, `SocketProofs` | abstract specification of the event stream; provider, sockets and hub implement it, checked and proved | done |
| 8 | `ConsolePage`, `ConsolePageProofs` | flags, polls, crash, recovery, submission, demo | done |
| 9 | `Editor`, `Canvas`, `EditorProofs`, `CanvasProofs` | the graph on its way to the backend; the statuses on their way back, checked and proved | done |
| 10 | `Announcements`, `WorkerPool`, `EventPanels`, `Panels`, `PanelsProofs` | what the panels hear and what they make of it | done |
| 11 | `StatusBar`, `StatusBarProofs` | metrics and uptime across two schedulers | done |
| 12 | `WalFile` | lines, torn tail, missing newline, cut without the mutex | open |
| 13 | `Heap`, `MetricsReader` | sift operations against the bag of `Scheduler`; the read between two counter stores | open |

Three abstract specifications are stated: `Lifecycle` for the engine, `Feed` for the
event stream, and the condition `Executable` in `Editor` for the validation. One
for the log file ("a sequence with a durable prefix") would come with `WalFile`. No
module that is proved about reaches a RECURSIVE operator; none has one.

## 3 Modules and code

### The engine

`OrionTasks` declares the tasks and what a request can submit. A task is a
number; the order of numbers stands for the lexical order of IDs. What
`validateDAG` lets through is an assumption on `Batches`: no batch is empty,
dependencies are inside the batch, no cycle (`Editor` shows that this is what
validateDAG checks). A request is one batch; two batches may share a task ID, which
the run loop then refuses.

`Wal` is the log as its writers see it, a sequence of records. An append is one
step because `WAL.mu` serialises the writers. It may return an error, at most
`MaxWalErrors` times, with or without the record in the file (Write or Sync
failed); each caller goes on as the code does: a request answers 500
(`Persist`), a worker drops a failure (`FailTask`), everybody else prints the
error and carries on (`AppendIgnoringErrors`).

`Scheduler` has the run loop's state and one operator per case.

| Variable | Code |
|---|---|
| `status`, `retryCount`, `cancelled` | the fields of `tasks[t]`; "absent" = no entry in the map |
| `inDegree`, `dependents` | the maps of the same names |
| `readyQueue` | number of heap entries per task; in replay an entry may be outdated |
| `retryTimers` | `time.AfterFunc` timers per task that `retryChan` has not delivered |
| `metrics` | `atomicMetrics` |
| `cascade` | the `queue` of `propagateFailure` |

A handler is one step, because the run loop is one goroutine. The exception is
`propagateFailure`, which writes a log record and a Cancelled flag per task while
workers run: each round of it is a step, and every other case of the run loop has
`cascade = {}` as its guard. Its worklist is a set: the order of rounds is left
open, which includes the breadth-first order of the code. `propagateFailure`
appends to the log after `transitionToFailed`; both are one step here, the log
record being what a worker or a crash could tell apart from the flag only if it
came between the two: a crash loses the flag anyway, and no worker holds a
pending task (`HeldNotCancelled`).

`Engine` adds the goroutines. A meeting on a channel is one step of both sides:
`Ingest`, `Pop`, `HandOff`, `NotifyFail`, `NotifyComplete`. The steps of a worker
are cut where others can come between: after taking the task (`HandOff`), after
GUARD 1 and AppendStart (`StartTask`), after the execution with GUARD 2 and the
append (`FailTask`, `CompleteTask`), and at the notification. The guard and the
append that follows it are one step, which hides no interleaving: only a cascade
sets the flag, and by the theorem `GuardsNeverFire` never for a held task.

`Recovery` adds the lives. `CancelContext` is `SimulateCrash` up to its waits,
`StopRunLoop`, `StopPushLoop`, `StopWorker` and `NotifyStopped` are the
goroutines leaving, in any order and after any further work that a random
`select` still prefers; `CrashDone` is the end of the waits. `ProcessCrash` is the
death of the process at any point. `Recover`, `ReplayEntry` and `Resume` are
`Manager.Start`: a new scheduler, the entries one by one through the replay
handlers, then RequeueOrphans and the start of dispatch.

`Lifecycle` is what the engine promises a client: batches enter whole, a task
waits, runs after its dependencies, is retried within its budget, and fails for
want of budget or because of a dependency. `EngineLifecycle` has the refinement
mapping: pending and ready are both "waiting", and the retries left are what
`retryCount` has not used. Queue, timers, workers, cancellation, counters and log
are invisible there: releasing a dependent, offering a retried task again and
every step of a worker but the notification are stutters.

### The server

`Service` puts the HTTP requests beside each other, each a goroutine with its own
`pc`: a submission (`LookUpKey`, `ReadScheduler`, `Backpressure`, `Persist`, `Ingest`,
`IngestReturns` or `IngestStopped`, `Accept`), a crash (`CheckCrash`, `BeginCrash`,
`EndCrash`) and a recovery (`CheckRecover`, `BeginStart`, `ReplayIngest`, `EndStart`).
The lock of the manager is `holder`; `current` and `running` are its fields; `lives`
keeps every scheduler it has ever started, since a request may hold an old one. A
batch is a model value: the tasks inside it are the matter of `Engine` and
`Recovery`, and the two halves meet in `known`, the batches a scheduler has admitted.

### The console

`Socket` is the provider of `useWebSocket.ts` with the hub at the other end. A
socket object has the browser's state (`ready`) and the server's (`peer`), which
learn of each other's end late. An effect run is one execution of the provider's
`useEffect`; `owner` says which run's closure a socket's handlers see, `timers` and
`strays` are the reconnect timers of the present run and of runs cleaned up. The
positions of events stand for the events. `Feed` is what a panel may rely on.

`ConsolePage` has the React states of `page.tsx` under their own names, and an
activation record (`call`) for each running `handleCrash` or `handleRecover`: two
handlers may run at once, one of the user and one of the demo. Its backend is a
scheduler that runs or does not and a host that answers or does not.

`Editor` follows the drawn graph through the sidebar's edits, the conversion
(`FlowToTasks`), the suffix given to every id, the validation of the server and the
restoration after a refusal. It keeps apart what the code keeps apart: the list of
nodes of the canvas, and the store of React Flow, which holds one node per id
(`Store`). The code makes ids of strings: "T" and a number, or a word, plus the suffix of
each submission; here an id is a record of these parts, because whether two collide is
the question. What the words of a template say is not: its k-th node is number k.

`Canvas` follows the statuses. An id is a name and the number of the submission that
suffixed it. The backend is that of `Engine` cut down to the status of each task;
`wire` is what is on its way, `dirty` holds the ids the canvas cannot know about
because an event was lost or an answer was older than the canvas when it was
applied. Everything else must agree: `CanvasAgrees` has no other exception. `Recover`
decides of each task that was running at the crash what its worker logged in the
drain: nothing, its end, or a failure, which is the last or leaves a retry; the page
hears of none of it.

`Announcements` is the source the panels share: workers that execute, a run loop that
announces one result at a time after the worker is free, a crash that is announced
first and drains after it. `missed` and `unheard` play the part of `dirty`. `WorkerPool`
and `EventPanels` are the handlers of the panels, `Panels` composes the three: one
message goes to each panel's listener.

`StatusBar` has the request sent when the page turns online, the metrics ticks and
the one-second interval. Its `channel` and `leftover` are the event channels of the
present scheduler and of the ones before, which the hub empties beside each other.

Time is counted in half seconds there, because the clocks of interval and server
are not in step: a second of the server is two of them, and an interval started in
the middle of one fires in the middle of the next.

`Instances` has the task graphs, `MCEngine`, `MCRecovery`, `MCService`, `MCCanvas`,
`MCEditor` and `MCPanels` join values to specifications; the other specifications
take theirs from the cfg alone. Operators named `<Action>_<Something>` are wrong
variants of the operator after them, one plausible bug each; they are used by
nothing and stand there to show, replaced for the right one, that the properties
notice.

## 4 Runs

| Run | Instance and bounds | States | Shows |
|---|---|---|---|
| `engine` | diamond 1 -> {2,3} -> 4 with 3 failing after one retry; a second batch with task 1 again and a chain 5 -> 6 -> 7 whose head never retries; 2 workers; 2 failed appends | 192k | the safety of `Engine`, that it implements `Lifecycle`, and that every accepted task settles |
| `recovery` | diamond with a task that fails once more than it may be retried; 2 workers; 2 crashes of either kind | 175k | what the log says and what each life makes of it agree; a crash returns; what is not bound to fail completes |
| `service` | two submissions of one batch with one key; two crashes, one recovery; a limit of 0 on the queue; one failed append, with its record in the file or without | 32k | one scheduler, one acceptance, nothing accepted unknown, every request answered |
| `socket` | 2 socket objects, 2 panels, 3 events, 2 effect runs, 2 faults | 200k | the inductive invariant of `SocketProofs`, the implementation of `Feed`, reconnection, delivery |
| `page` | 2 handlers at once, 1 poll, 2 clicks of any kind, 2 faults | 92k | no flag outlives its handler; label and buttons agree; the page converges |
| `editor` | all six templates and the initial graph, 9 nodes, 3 edits, 2 submissions | 216k | the graph stays well formed; the validation is exact |
| `canvas` | a task and a dependent, one retry, two submissions, one snapshot request, wire of 2, one upset; the submissions symmetric | 2.4M | no invented outcome, agreement at rest, readiness is real |
| `panels` | one task whose next retries are at the cap of the delay and one never retried; 2 workers; a crash; a fault; stream of 2; the workers symmetric | 2.1M | the panels say nothing that is not so |
| `status_bar` | 2 tasks finished, 2 half seconds, 2 ticks, 2 requests, 1 crash, 1 fault | 607k | the uptime never runs ahead; the numbers converge |
| `lost_cascade`, `overlapping_requests` | two or three tasks, one crash | | the counterexamples of section 7 |
| `two_recoveries` | `service` with two recoveries | | the third one |

Why these bounds are enough.

`engine`, `recovery`. The interesting configurations are: a join that waits for a
failing and a succeeding parent; a cascade of depth two or more; a retry in the
timer while another task runs; a task ready in the heap ahead of another by
priority; two requests that exclude each other; a batch with `MaxRetries` unset,
positive and negative. The first graph has all of them, and two workers are
enough for every race here: each race is between one worker and the run loop, or
between two workers about one task. Two crashes give a crash during the drain of
another life's work, during a replay, and after a recovery that itself requeued
orphans. Two failed appends reach each failing append in turn and one of them
after another. `walErrors` appears in the properties that rest on the log: after
an error the code knowingly lets state and log drift; `engine` has states with and
without errors, `recovery` has none with.

`service`. The races are between two requests of any kinds, and between a request
and a scheduler that is replaced under it. Two submissions of one batch with one key
are a client that tries again; with two crashes and a recovery the first may be in
any state when the second scheduler replays the log. A limit of 0 makes one queued
batch a full queue.

`socket`. Late callbacks are those of one earlier socket and of one earlier run: two
of each. Three events make a prefix, a loss and a suffix; two faults a reconnection
that fails.

`page`. Overlap needs two handlers, staleness one poll. The demo is one click and
makes two calls itself; a second click comes between its steps.

`editor`. Three edits reach a deletion, an addition that reuses the number, and a
connection that closes a cycle, each before, between and after two submissions.

`canvas`. One edge is enough for a cascade and for readiness; the upset is each of:
another submission over the first, a template, a reload, a crash, a lost connection,
a lost answer.

`panels`. The cap of the delay is at the fifth retry, so task `a` is submitted with
four retries behind it and one left; `b` has a negative budget, the case in which
the field that JSON leaves out and the field that is zero differ.

`status_bar`. Two overlapping requests, the ticks of two schedulers, and a clock of
one whole second with the half second that an interval can be off.

CHECK_DEADLOCK is off throughout: clients need not send anything and counters are
bounded, so every system here may come to rest rightly. That nothing comes to rest
wrongly is what the liveness properties say, and for the modules without one
(`Canvas`, `Panels`, `Editor`) the properties speak of the state of rest itself.
Symmetry is used in safety runs only.

## 5 Fairness

*Engine, Recovery.* `Fairness` asks for weak fairness of each goroutine's own steps.
The Go runtime runs every runnable goroutine. For the meetings on channels weak
fairness is justified by the run loop's `select`, which picks at random among the
ready cases: a case that stays ready is picked in the end, and only a cascade
keeps the run loop away from its `select`, and a cascade ends. Retry timers fire.
Clients have no fairness. `RecoveryFairness` adds that a process that is down is
started again, that replay goes on, and that goroutines notice a cancelled
context. Crashes are bounded by `MaxCrashes`, so "in the end" means after the last
one.

*Service.* A request need not arrive; one that has goes on. Whoever waits for the
manager's lock gets it although others take it in between (strong fairness):
`sync.Mutex` hands the lock on to whoever has waited for a millisecond. A
scheduler pops what it has, and notices its cancelled context.

*Socket.* Timers fire, React commits, the browser delivers what has arrived, the
server accepts and notices what is closed. Faults have no fairness: connections may
break `MaxFaults` times.

*ConsolePage.* Every request is answered or given up, and every handler, timer and
poll goes on. No click is fair. `Outage` is not fair: the page converges also
to an unreachable backend.

*StatusBar.* The poll, the ticker, the hub, the socket and the server go on, and
somebody recovers the system after a crash: without that the numbers shown are the
last ones of the crashed scheduler, as they should be.

## 6 Proofs

### The engine

For every set of tasks and dependencies, every set of batches, every number of
workers and every bound on failed appends, from the named assumptions of
`OrionTasks` (`TasksAssumption`, `FieldsAssumption`, `BatchesAssumption`) and
`WalAssumption`:

| Theorem | States |
|---|---|
| `Invariance` | `Spec => []IInv` |
| `TypeCorrect` | `Spec => []TypeOK` |
| `DependenciesRespected` | `Spec => []DepsRespected` |
| `OneHolder` | `Spec => []SingleHolder` |
| `GuardsNeverFire` | `Spec => []HeldNotCancelled` |
| `CascadeReachesAll` | `Spec => []CascadeClosed` |
| `NothingIsLost` | `Spec => []NoLostTask` |
| `FailuresAreCaused` | `Spec => []FailureIsCaused` |
| `SettledStays` | `Spec => TerminalIsFinal` |
| `MetricsAgree` | `Spec => []MetricsMatch` |
| `Refinement` | `Spec => ImplementsLifecycle` |
| `LogCovers` | `Spec => []LogCoversState` |

The argument. `DepsRespected` is not inductive: `handleComplete` releases a
dependent when `inDegree` falls to zero, so one must know that `inDegree` is the
number of unmet dependencies (`DegreeExact`) and that `dependents` has exactly
the edges between present tasks (`GraphExact`). A completion decrements a
dependent once because the completing task was one of its unmet dependencies,
which it was because no task completes twice; that needs a task to be running
exactly while somebody holds it (`SingleHolder`, `HoldingExact`). Pop needs the
heap to have no outdated entry (`QueueExact`), a timer needs its task to be
pending and to wait for nothing (`TimersExact`), and a cascade needs every task
in its worklist to have a failed dependency, hence an unmet one, hence to be
neither ready nor running nor completed (`CascadeCaused`, lemma `CascadeFacts`).
`CancelledExact` then gives `HeldNotCancelled`, and `CascadeReaches`, which says that
what depends on a failure has failed or is in the worklist, gives `CascadeClosed`.
The invariant comes in two layers because a life that begins with a replay keeps
less: `CoreInv` (the run loop) and `LiveInv` (with types and hands) hold in every
life, and ask of the heap only that it has the ready tasks (`QueueCovers`); `IInv`
adds `QueueExact` and `CascadeReaches`, which are true of the first life. There is
one lemma per handler for `CoreInv`, one per action for `LiveInv`; `NextLive` and
`NextInv` collect them. TLC checks `IInv` in `engine`, and with it `TypeOK` and
`SingleHolder`, which are parts of it.

Three more are inductive beside `IInv`: `RunningIsHeld` (a holder is lost only with a
failed append) for `NothingIsLost`, `PayloadExact` for `FailuresAreCaused`, and
`MetricsMatch` itself, with the cardinality facts about the sets each counter counts.
What depends on a failed append is in the formulas, not in an assumption:
`NoLostTask` promises a holder for a running task only while `walErrors = 0`. No run
checks `TerminalIsFinal` and `MetricsMatch` by themselves; the refinement and
`MetricsMatchInEveryLife` are checked instead, which say more.

`Refinement` has one lemma per action that is visible in `Lifecycle`; each finds
the abstract guard in the invariant: `DepsRespected` for `Begin`, `CascadeCaused`
for `GoDown`, `PayloadExact` and the budget for `TryAgain`, `GiveUp` and
`Succeed`.

The acyclicity of batches is used by no theorem. It is what makes
`EveryTaskSettles` true: safety does not need it, progress does.

The second part of `EngineProofs` ties the state to the log. Its operators speak of any log, since a replay
reads a part of one: `Backed` says that whatever the scheduler knows of a task, and
whatever a goroutine does with it, is backed by a record; `Delivered` says the
converse, that a record has reached the scheduler or is with the worker that wrote
it; `Lawful` says which record may follow which log (an attempt begins after the
COMPLETE of every dependency, nothing follows a COMPLETE or a death); `FailsBounded`
and `Attempts` count the FAIL and START records against the budget. Each has one
lemma per kind of record appended. `LogCoversState` follows, and the same lemmas
serve the third part.

### All lives

The third part of `EngineProofs` proves for every set of tasks, batches and workers and any number
of crashes, at any points, that each of these follows from
`RequestsDisjoint /\ RecoverySpec`:

| Theorem | States |
|---|---|
| `EveryLife` | `[](LifeInv /\ LifeAttempts)` |
| `CompletedRemain` | `[]CompletedSurvives` |
| `FailedRemain` | `[]FailedSurvives` |
| `BudgetIsKept` | `[]BudgetSurvives` |
| `OnlyInFlightRepeats` | `[]NoRerunOfCompleted` |
| `NothingIsForgotten` | `[]NothingForgotten` |
| `MetricsSurvive` | `[]MetricsMatchInEveryLife` |
| `AcceptedRemain` | `[]AcceptedSurvives` |
| `OrderSurvives` | `[]EngineInOrder`: dependencies, single holders and cancellation in every life |

`RequestsDisjoint` says that no two requests name the same task. It cannot be left out:
`overlapping_requests` is the counterexample to `AcceptedSurvives` without it, because
log order and order of admission may differ and the replay then admits the other
batch. The properties promise nothing once an append has failed (`walErrors = 0` is in
the formulas): the code then prints the error and goes on, knowing that the log has
fallen behind.

The argument. `Read` is the log as this life knows it: the whole log while the
scheduler runs, the records before the cursor during a replay, nothing between two
lives. `LifeAgrees` says that `LiveInv` and the counters hold throughout and that the
state agrees with `Read` (`Backed`, `Delivered`). A crash empties the state and `Read`
together, so the agreement begins anew (`Anew`); each replay handler reads one record
and does to the state what the live handler did when it was written, and `LogLawful`
is what makes its guards true: the record before a COMPLETE is a START of the same
attempt, so the replayed task is running (`Mirrors`), and so on. `Admissions` follows a
request from the log to the run loop and keeps a batch from being admitted twice. A
drain needs one thing more: as long as the run loop is there, a worker that has
written a record can still tell it (`RunLoopUp`). `LifeAttempts` counts that each crash
cuts short one attempt of a task at most; `Ended` are the crashes whose drain is over.
A task whose `max_retries` is negative, or whose `retry_count` starts above zero, has
a smaller budget than it was submitted with, down to none (`Allowed`); the
properties count from there.

### The service

For every set of submissions, crashes and recoveries and of batches, from
`ServiceRequests`; the theorems are of the form `Spec /\ []RecoveriesApart => ...`:

| Theorem | States |
|---|---|
| `ServiceInvariance` | `[]ServiceInv` |
| `OneAtATime` | `[]OneScheduler` |
| `AcceptedOnceOnly` | `[]AcceptedOnce` |
| `AcceptedStaysKnown` | `[]AcceptedIsKnown` |

`RecoveriesApart` says that no two recoveries are between their look at `running` and
their answer at once. That is not so of the code, it is what the code needs:
`two_recoveries` shows two schedulers without it. Everything else may overlap:
submissions with each other, with a crash and with a recovery, holding schedulers
long replaced.

The argument. Whoever drains or replays has the lock (`LockHeld`); the manager has no
scheduler while a recovery is on its way, and otherwise the last one made
(`ManagerExact`), which is the only one that works (`LastIsLive`). A submission holds a
scheduler that it was shown, and logs before it ingests (`LoggedFirst`); so a batch
that a scheduler has admitted is in the log before that scheduler is drained, hence
in what the next recovery reads (`AdmittedIsKnown`). A second submission of the batch
finds it known, whichever scheduler it holds (`AdmittedOnce`).

### The socket

For every set of sockets and panels, and any bounds on events, effect runs and
faults, from `NoSocketAssumption` and `BoundsAssumption`:

| Theorem | States |
|---|---|
| `SpecInv` | `Spec => []SInv` |
| `OneConnectionAlways` | `Spec => []OneConnection` |
| `StatusAlwaysTrue` | `Spec => []StatusIsTrue` |
| `ReconnectAlwaysPending` | `Spec => []ReconnectPending` |
| `Refinement` | `Spec => ImplementsFeed` |

The argument. A socket's handlers act only if the socket is still the current one
and their run is still mounted, so one must know that no other socket is alive
(`OneConnection`), that the provider always has a socket or one timer
(`ReconnectPending`, which is also why a cleanup leaves no timer behind), and
that the status was written last by the current socket's handler (`StatusIsTrue`).
Each of these needs the others when a timer fires or an effect runs again. For the
refinement one adds that a mounted panel has exactly one listener (`ListensOnce`)
and that what is in transit to a live socket is newer than what was given to the
panels and in order (`WireInOrder`, `HeardPublished`): a new socket starts with an
empty wire, which is what makes a reconnection lose events and never repeat
them. Every delivery is then a `Hear`, every broadcast a `Publish`, and everything
else a stutter. `SInv` is their conjunction, inductive, and what `socket` checks.

### The status bar

`UptimeNeverAheadAlways`: `Spec => []UptimeNeverAhead`, for any bounds
(`StatusBarBounds`). The uptime is a number fetched in the past plus the firings of
an interval, and both the effect and a late answer may overwrite either. The
inductive invariant bounds the running interval: there is at most one, and what it
will have added by the time it fires next is no more than what the server's
clock adds by then; an answer under way never says more than the clock.

### The page

For any number of handlers at once, polls, clicks and faults:

| Theorem | States |
|---|---|
| `PageInvariance` | `Spec => []PageInv` |
| `NothingStaysStuck` | `Spec => []NothingStuck` |
| `ControlsAgree` | `Spec => []ControlsMatchLabel` |

`NothingStuck` is inductive with its types: every flag names the activation that will
reset it. `ControlsMatchLabel` is not, because label and buttons read different states:
one adds that a state that waits for an answer has a call out (`AnswerAwaited`), and
that the two states that say whether the scheduler runs were written together
(`ShownTogether`).

### The panels

For every set of tasks, workers and slots, any budgets, crashes and faults, from
`AnnouncementsAssumption` and `StreamLimit`:

| Theorem | States |
|---|---|
| `PanelsInvariance` | `Spec => []PanelsInv` |
| `ExecutingAlwaysReal` | `Spec => []ExecutingIsReal` |
| `CountsAlwaysReal` | `Spec => []CountsAreReal` |
| `FailuresAlwaysFinal` | `Spec => []FailuresShownFinal` |
| `TimersExact` | `DelaysFit /\ Spec => []TimersAreBackoffs` |

The argument. A panel is told the truth late, so the invariant is about the wire: what
each event on it will have a panel show, and what later event takes that back. A
worker shown executing, or about to be by a start on the wire, is excused by what
comes after: it executes, or the end of its execution is on the wire behind the start,
or in the hands of the run loop, or was missed (`StartsExcused`). A completion is on
the wire, in a timer or in the count, and only in one of them (`CompletionsCounted`;
the lemma `CompletionHeard` moves it by a bijection between the positions of the
wire and of its tail). A failure on the wire has used up the budget it names, and the
task has failed (`WireTrue`), so what the stream annotates is final. The last event on
the wire that tells of the retries of a task tells how it is now, or what was heard
does if there is none (`LastTold`). A loss of the connection cuts a last part off the
wire: `WireStep` says of every step of the back end which part of the wire it keeps,
that what it adds is true, and that whatever it drops was about somebody in `missed`
or `unheard`; the lemma `StepsSend` proves it once for all steps, and each part of the
invariant uses that instead of the actions.

`DelaysFit` says that no budget reaches 34. It is needed: `defaultRetryDelay` shifts a
64-bit product, which from 34 on may come out as zero, and the panel shows
30 seconds for a task that is retried at once.

### The canvas

For any graph, any number of submissions, snapshot requests that overlap, retries,
crashes and lost connections, from `CanvasBounds`:

| Theorem | States |
|---|---|
| `CanvasInvariance` | `Spec => []CanvasInv` |
| `OutcomesAlwaysReal` | `Spec => []OutcomesAreReal` |
| `CanvasCatchesUp` | `Spec => []CanvasAgrees` |
| `ReadyAlwaysReal` | `Spec => []ReadyIsReal` |

There are two arguments, and both are about what is still to arrive. First, everything
that may reach the canvas (an event, a snapshot, the timer of a cascade, the picture
that a refused submission puts back) says only what the scheduler never undoes: what
is completed or failed stays so, and what was once running has its dependencies
completed (`AllReal`). So nothing can come too late to be true, and the lemma that
says so looks at the scheduler's step alone (`Later`). Second, a task is shown as it is
if nothing about it is on its way or was missed, on the canvas and in every picture
and snapshot that may still replace it (`AllAgree`): the last event on the wire about a
task agrees with the scheduler (`WireOK`), and a snapshot that was overtaken has the
task in `moved`. That no two pictures bear the same suffix (`SuffixesOK`) keeps the
events of one submission off the nodes of another, and that a batch is new to the
scheduler when it is served (`BatchesOK`) keeps a late request from undoing what has
happened. The reach of a cascade
is a recursive function; `DownstreamInduction` shows that it exists and stays within
any set that is closed under dependence.

### The editor

For any edits and submissions, on graphs of any size:

| Theorem | States |
|---|---|
| `EditorInvariance` | `Spec => []EditorInv` |
| `CanvasStaysWellFormed` | `Spec => []CanvasWellFormed` |
| `ValidationAlwaysExact` | `Spec => []ValidationIsExact` |

`ValidationAlwaysExact` rests on a lemma about any batch, `AcceptedIffExecutable`.
If no set of tasks wait for each other, each layer of Kahn's algorithm but the last
adds a task, since the tasks not reached yet are such a set otherwise
(`NoneWaitingVisited`); and no task of such a set is in any layer
(`VisitedNeverWait`). For `CanvasStaysWellFormed` one must know that the number of the
next new node is free: without deletions the numbers in use are at most the number
of nodes, and a suffixed id is no number (`NumbersFit`); the canvas that a refusal
puts back keeps the same promise. What React Flow's store does to a list is proved of
the recursive definitions: it keeps the ids, and the list if no id is there twice
(`StoreNodes`).

The library's induction theorems take an operator as a parameter, which the provers
cannot instantiate. `Least` and `UpTo` are induction with a set in its place, proved
from the well-foundedness of the naturals, and `Recursion` is what a recursive
definition needs to be the function it describes.

### Only model-checked

All liveness, which like ENABLED is beyond the prover: `EveryTaskSettles`,
`RecoverableTasksComplete`, `CrashReturns`, `Reconnects`, `EventsArrive`,
`StatusConverges`, `ControlsReturn`, `MetricsConverge` and `RequestsReturn`. Every
safety property of a passing run is a theorem, those of recovery, service and retry
timers under the hypotheses named with them. `Ancestry` of `OrionTasks`, the
recursive function that says which tasks are bound to fail, is used by liveness
properties only and nothing is proved about it.

## 7 What the code does that its documents do not say

Three runs end in a counterexample, each against one property taken from the
repository's words; `findings` in `PROJECT.json` quotes them.

1. `lost_cascade`: a crash after a task's last FAIL record and before the
   cascade records. Replay fails the task alone (`handleReplayFail` does not
   call `propagateFailure`), and its dependents are pending in every later life.
2. `overlapping_requests`: two requests that share a task ID are logged in one
   order and ingested in the other; replay, in log order, admits the refused
   batch and drops the accepted one.
3. `two_recoveries`: `handleRecover` looks at `IsRunning` before it takes the lock, so
   two recoveries at once start two schedulers. With recoveries one at a time
   `OneScheduler` holds (`service`).

Smaller ones are stated in the modules, each at the end of its module with the
words it comes from, and TLC refutes them under the module's own cfg or with the
change named here; no run repeats that.

| Formula | What happens instead |
|---|---|
| `Engine.AttemptsEnd` | an error of AppendFail makes the worker drop the failure; the task is running until a restart |
| `Recovery.ExecutesAfterDependencies` | an error of AppendComplete is printed and ignored; after a crash a task and its dependency are both requeued (`MaxWalErrors = 1`, one crash) |
| `Recovery.SummaryIsTrue` | the summary of a recovery counts tasks with a FAIL record, a retried one included |
| `ConsolePage.OfflineIsReported` | a poll answered before a recovery and applied after it shows the banner over a running scheduler |
| `ConsolePage.RecoveryIsAnnounced` | the banner of a recovery needs `~isCrashed`, the button that starts one needs `isCrashed` |
| `Canvas.AwaitingIsTrue` | a snapshot given before an event and applied after it takes a node back to pending until the next event |
| `Canvas.RootShownFailed` | the cascade event names the root too, so a failed root is shown as killed by a cascade |
| `Canvas.InFlightShown` | after a reload the ids on the canvas have lost their suffix and match nothing |
| `Editor.DependenciesSent` | the DEL button leaves the edges of its node: the batch names an unknown dependency |
| `Editor.UniqueIdsSent` | after a deletion the next new node may get an id that is in use |

And some that the models show without a formula: the completion timer of 400 ms
shows a worker idle that has started its next task; a start that is on its way when
a crash is announced shows a worker executing until the next event about it; the
delay of a retry overflows from retry 34 on and the timer fires at once
(`RetryDelay` in `Announcements`; `TimersAreBackoffs` fails for a task submitted with 33
retries behind it); a submission is answered "stopped" although its batch is in
the log and the next scheduler runs it; a submission that waits for the queue of a
scheduler that stops in the meantime polls for ever (handlers.go:199, `Stranded`);
a page that is cut off during a recovery does not hear of it; the demo calls
handlers of the render in which it was clicked.

One more is no violation: GUARD 1 and GUARD 2 of the worker provide for a race with
a cascade that `GuardsNeverFire` shows impossible within a life.

## 8 Not modelled

- Telemetry, timestamps and latency, and REQUEST records: no decision reads them.
  `queueSize` always equals the number of heap entries.
- A record cut in two by a crash, and the cut of the file by Recover: `WalFile`, open.
  `Wal` has whole records only.
- The contents of the heap array: `Scheduler` takes the least ready entry and
  drops the outdated ones before it, which is what repeated Dequeue does; the
  sift operations are open (`Heap`).
- The data race on `StartTime` between worker and snapshot: a display field. The
  reader between the two stores of a pop (`MetricsReader`, open).
- The event channel is never full here; its 1000 places are out of reach, and the
  loss of any event is modelled where a connection loses it.
- The length of a back-off in `Engine` and `Recovery`: a timer fires at any later time, so
  their properties hold for every delay.
- Rate limiter, body and batch limits, CORS, the token check (taken as passed: without
  a token the console makes no admin request), the DAG list, health and status
  beyond the field the page polls.
- In `Canvas` a crash is one step, without the drain; what the workers log in the drain
  is decided when the log is replayed. `Announcements` has the drain. The tasks of
  `Canvas` have no heap and no workers; any order of ready tasks is allowed. No append
  fails in `Canvas`, and in `Announcements` only that of a failure.
- Events left in the event channel of the previous scheduler. `Canvas` and
  `Announcements` have one wire, which a crash cuts; `StatusBar` alone has the
  `leftover` of the channel before. In the code the old `hub.Run` (websocket.go:41) goes
  on until its channel is empty, beside the one that a recovery starts (admin.go:89).
  After CloseAll there is no client for it to wait for, and the page is back after 3 s
  at the earliest, so an old event reaches the page only when that goroutine has
  lagged for seconds. Should it, a late start or failure would be shown over the
  statuses of the new life: `CanvasAgrees`, `ExecutingIsReal` and `TimersAreBackoffs`
  are claims about executions in which it does not.
- A restart of the process in `Canvas`, `Announcements` and `StatusBar`: their crash is the
  simulated one (`Recovery` has both kinds). The server's clock of the uptime
  (`serverStartTime`, read at handlers.go:375) starts again with the process. If that
  happens between two polls the page does not turn offline, and its uptime runs
  ahead of the server's until it next does; `UptimeNeverAhead` is a claim about one
  server process.
- The check for a dependency named twice (handlers.go:487-492) in `Editor.Accepted`: the
  dependencies of a task are a set there. React Flow's `addEdge` refuses a second edge
  between two nodes and no template has one, so the canvas never sends one.
- Retry delays that overflow, in the run `panels` and in the theorem `TimersExact`
  (`DelaysFit`): the property is false there, as section 7 says.
- The hook's own socket outside a provider (useWebSocket.ts:152-215): every use of
  the hook is inside the provider, so the branch is never taken.
- `useMetricsState`, which nothing imports; the UI kit, layout, styles, texts, colours,
  positions and animations; the internals' own log of 100 lines, ids of entries,
  the queue bar and scrolling.
- A slow socket client and its write deadline; the retry of a fetch by the browser.
- Server wiring, load test, seed data: no state worth a model.
