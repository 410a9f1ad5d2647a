------------------------------- MODULE ConsolePage --------------------------------
(* The state of the console page (page.tsx) and the buttons of its sidebar:   *)
(* the status poll, the crash and recovery requests, the submission and the   *)
(* automatic demo, all of them asynchronous functions over one set of React   *)
(* states, against a backend that may be out of reach.  A call is one         *)
(* activation of handleCrash or handleRecover, by the user or by the demo,    *)
(* which holds the handlers of the render in which it was started.            *)
EXTENDS Naturals, FiniteSets

CONSTANTS
    Calls,     \* activations of handleCrash and handleRecover that may overlap
    Polls,     \* status requests that may overlap
    Clicks,    \* what the user may click: "crash", "recover", "submit", "demo"
    MaxClicks, \* bound: clicks
    MaxFaults  \* bound: requests or answers lost, changes of reachability

ASSUME PageBounds == MaxClicks \in Nat /\ MaxFaults \in Nat

VARIABLES
    systemState, isCrashed, isProcessing, isSubmitting, isAutoDemoRunning,
    hasActiveDAG, recoverCooldown,
    mutating,  \* backendMutationInFlight.current
    call,      \* of each call: what it asks, for whom, where it is, its answer
    poll,      \* of each status request: its answer, or where it is
    cooldowns, \* timers that will end a cooldown
    submit,    \* the user's submission
    demo,      \* where handleAutoDemo is
    running,   \* the scheduler runs
    reachable, \* the backend answers
    clicks, faults

shown == <<systemState, isCrashed>>
backend == <<running, reachable>>
demoVars == <<demo, isAutoDemoRunning>>
submitVars == <<submit, isSubmitting, hasActiveDAG>>
vars == <<shown, isProcessing, mutating, call, poll, recoverCooldown, cooldowns,
          submitVars, demoVars, backend, clicks, faults>>

NoCall == [op |-> "none", by |-> "user", at |-> "idle", net |-> "none"]
Active(c) == call[c].at # "idle"
Busy == \E c \in Calls : Active(c)

Init ==
    /\ systemState = "WARMING" /\ isCrashed = FALSE /\ isProcessing = FALSE
    /\ isSubmitting = FALSE /\ isAutoDemoRunning = FALSE /\ hasActiveDAG = FALSE
    /\ recoverCooldown = FALSE /\ cooldowns = 0
    /\ mutating = FALSE
    /\ call = [c \in Calls |-> NoCall] /\ poll = [p \in Polls |-> "idle"]
    /\ submit = FALSE /\ demo = "idle"
    /\ running \in BOOLEAN /\ reachable \in BOOLEAN
    /\ clicks = 0 /\ faults = 0

-----------------------------------------------------------------------------
(* What the buttons and the banners are computed from.  The admin token is    *)
(* taken to be there: without it there is no request to make.                 *)

BackendUnavailable == systemState \in {"WARMING", "BACKEND_OFFLINE"}
SubmitDisabled == isSubmitting \/ isCrashed \/ BackendUnavailable
AutoDemoDisabled == isProcessing \/ isCrashed \/ isAutoDemoRunning \/ BackendUnavailable
CrashDisabled ==
    isProcessing \/ isCrashed \/ ~hasActiveDAG \/ recoverCooldown \/ BackendUnavailable
RecoverDisabled == isProcessing \/ ~isCrashed \/ BackendUnavailable

OfflineBanner == isCrashed /\ systemState = "OFFLINE"
RecoveryBanner == systemState = "RECOVERING" /\ ~isCrashed

StatusView ==
    IF systemState = "WARMING" THEN "BACKEND WARMING"
    ELSE IF systemState = "BACKEND_OFFLINE" THEN "BACKEND OFFLINE"
    ELSE IF isCrashed \/ systemState = "OFFLINE" THEN "SCHEDULER OFFLINE"
    ELSE IF systemState \in {"RECOVERING", "CRASHING"} THEN systemState
    ELSE "SCHEDULER ONLINE"

-----------------------------------------------------------------------------
(* The backend, as the admin endpoints show it.                               *)

(* handleStatus                                                               *)
StatusAnswer == IF running THEN "running" ELSE "stopped"

(* What an answer to the status request does to the page; none is a failure.  *)
ShowStatus_KeepCrashed(answer) ==
    /\ systemState' = CASE answer = "running" -> "ONLINE"
                        [] answer = "stopped" -> "OFFLINE"
                        [] OTHER -> "BACKEND_OFFLINE"
    /\ isCrashed' = (isCrashed \/ answer = "stopped")
ShowStatus(answer) ==
    /\ systemState' = CASE answer = "running" -> "ONLINE"
                        [] answer = "stopped" -> "OFFLINE"
                        [] OTHER -> "BACKEND_OFFLINE"
    /\ isCrashed' = (answer = "stopped")

(* handleCrash and handleRecover of the server: each is refused (409) when    *)
(* there is nothing to do.                                                    *)
ServeCall(c) ==
    /\ call[c].at = "sent" /\ call[c].net = "asked" /\ reachable
    /\ LET accepted == running = (call[c].op = "crash") IN
          /\ running' = IF accepted THEN ~running ELSE running
          /\ call' = [call EXCEPT ![c].net = IF accepted THEN "ok" ELSE "error"]
    /\ UNCHANGED <<shown, isProcessing, mutating, poll, recoverCooldown, cooldowns,
                   submitVars, demoVars, reachable, clicks, faults>>

ServeStatus(c) ==
    /\ call[c].at = "sync" /\ call[c].net = "asked" /\ reachable
    /\ call' = [call EXCEPT ![c].net = StatusAnswer]
    /\ UNCHANGED <<shown, isProcessing, mutating, poll, recoverCooldown, cooldowns,
                   submitVars, demoVars, backend, clicks, faults>>

ServePoll(p) ==
    /\ poll[p] = "asked" /\ reachable
    /\ poll' = [poll EXCEPT ![p] = StatusAnswer]
    /\ UNCHANGED <<shown, isProcessing, mutating, call, recoverCooldown, cooldowns,
                   submitVars, demoVars, backend, clicks, faults>>

(* A request fails when the backend is out of reach, and when it, or the      *)
(* answer to it, is lost.                                                     *)
Lost(unserved) ==
    /\ \/ unserved /\ ~reachable /\ UNCHANGED faults
       \/ faults < MaxFaults /\ faults' = faults + 1
    /\ UNCHANGED <<shown, isProcessing, mutating, recoverCooldown, cooldowns,
                   submitVars, demoVars, backend, clicks>>
CallFails(c) ==
    /\ Active(c) /\ call[c].net \notin {"none", "error"}
    /\ call' = [call EXCEPT ![c].net = "error"]
    /\ Lost(call[c].net = "asked") /\ UNCHANGED poll
PollFails(p) ==
    /\ poll[p] \notin {"idle", "error"}
    /\ poll' = [poll EXCEPT ![p] = "error"]
    /\ Lost(poll[p] = "asked") /\ UNCHANGED call

(* The backend's host goes to sleep, or wakes up.                             *)
Outage ==
    /\ faults < MaxFaults /\ faults' = faults + 1
    /\ reachable' = ~reachable
    /\ UNCHANGED <<shown, isProcessing, mutating, call, poll, recoverCooldown, cooldowns,
                   submitVars, demoVars, running, clicks>>

-----------------------------------------------------------------------------
(* syncBackendStatus, called every five seconds.  The flag is looked at       *)
(* before the request and not after it.                                       *)
PollTick(p) ==
    /\ poll[p] = "idle" /\ ~mutating
    /\ poll' = [poll EXCEPT ![p] = "asked"]
    /\ UNCHANGED <<shown, isProcessing, mutating, call, recoverCooldown, cooldowns,
                   submitVars, demoVars, backend, clicks, faults>>

PollReturns(p) ==
    /\ poll[p] \in {"running", "stopped", "error"}
    /\ poll' = [poll EXCEPT ![p] = "idle"]
    /\ ShowStatus(poll[p])
    /\ UNCHANGED <<isProcessing, mutating, call, recoverCooldown, cooldowns, submitVars,
                   demoVars, backend, clicks, faults>>

-----------------------------------------------------------------------------
(* handleCrash and handleRecover.                                             *)

(* Up to the request.                                                         *)
Begin(c, op, by) ==
    /\ ~Active(c)
    /\ call' = [call EXCEPT ![c] = [op |-> op, by |-> by, at |-> "sent", net |-> "asked"]]
    /\ mutating' = TRUE /\ isProcessing' = TRUE
    /\ systemState' = IF op = "crash" THEN "CRASHING" ELSE "RECOVERING"

(* The finally block.                                                         *)
Finish_KeepFlag(c) ==
    /\ call' = [call EXCEPT ![c] = NoCall]
    /\ isProcessing' = FALSE /\ UNCHANGED mutating
Finish(c) ==
    /\ call' = [call EXCEPT ![c] = NoCall]
    /\ mutating' = FALSE /\ isProcessing' = FALSE

Clicked(what) == what \in Clicks /\ clicks < MaxClicks /\ clicks' = clicks + 1

ClickCrash ==
    /\ Clicked("crash") /\ ~CrashDisabled
    /\ \E c \in Calls : Begin(c, "crash", "user")
    /\ UNCHANGED <<isCrashed, poll, recoverCooldown, cooldowns, submitVars, demoVars,
                   backend, faults>>
ClickRecover ==
    /\ Clicked("recover") /\ ~RecoverDisabled
    /\ \E c \in Calls : Begin(c, "recover", "user")
    /\ UNCHANGED <<isCrashed, poll, recoverCooldown, cooldowns, submitVars, demoVars,
                   backend, faults>>

(* The crash was accepted: the handler lingers for 1.2 s.                     *)
CrashAccepted(c) ==
    /\ call[c].at = "sent" /\ call[c].op = "crash" /\ call[c].net = "ok"
    /\ call' = [call EXCEPT ![c].at = "pause", ![c].net = "none"]
    /\ isCrashed' = TRUE /\ systemState' = "OFFLINE"
    /\ UNCHANGED <<isProcessing, mutating, poll, recoverCooldown, cooldowns, submitVars,
                   demoVars, backend, clicks, faults>>
PauseEnds(c) ==
    /\ call[c].at = "pause"
    /\ Finish(c)
    /\ UNCHANGED <<shown, poll, recoverCooldown, cooldowns, submitVars, demoVars, backend,
                   clicks, faults>>

RecoverAccepted(c) ==
    /\ call[c].at = "sent" /\ call[c].op = "recover" /\ call[c].net = "ok"
    /\ Finish(c)
    /\ isCrashed' = FALSE /\ systemState' = "ONLINE"
    /\ recoverCooldown' = TRUE /\ cooldowns' = cooldowns + 1
    /\ UNCHANGED <<poll, submitVars, demoVars, backend, clicks, faults>>
CooldownEnds ==
    /\ cooldowns > 0 /\ cooldowns' = cooldowns - 1
    /\ recoverCooldown' = FALSE
    /\ UNCHANGED <<shown, isProcessing, mutating, call, poll, submitVars, demoVars, backend,
                   clicks, faults>>

(* The request failed: the page asks for the status before it goes on.        *)
CallRefused(c) ==
    /\ call[c].at = "sent" /\ call[c].net = "error"
    /\ call' = [call EXCEPT ![c].at = "sync", ![c].net = "asked"]
    /\ mutating' = FALSE /\ systemState' = "WARMING"
    /\ UNCHANGED <<isCrashed, isProcessing, poll, recoverCooldown, cooldowns, submitVars,
                   demoVars, backend, clicks, faults>>
SyncReturns(c) ==
    /\ call[c].at = "sync" /\ call[c].net \in {"running", "stopped", "error"}
    /\ ShowStatus(call[c].net) /\ Finish(c)
    /\ UNCHANGED <<poll, recoverCooldown, cooldowns, submitVars, demoVars, backend, clicks,
                   faults>>

-----------------------------------------------------------------------------
(* handleSubmit.  The backend may refuse a batch for reasons of its own.      *)
Accepts == reachable /\ running

ClickSubmit ==
    /\ Clicked("submit") /\ ~SubmitDisabled
    /\ submit' = TRUE /\ isSubmitting' = TRUE
    /\ UNCHANGED <<shown, isProcessing, mutating, call, poll, recoverCooldown, cooldowns,
                   hasActiveDAG, demoVars, backend, faults>>
SubmitReturns ==
    /\ submit /\ submit' = FALSE /\ isSubmitting' = FALSE
    /\ hasActiveDAG' \in {hasActiveDAG, hasActiveDAG \/ Accepts}
    /\ UNCHANGED <<shown, isProcessing, mutating, call, poll, recoverCooldown, cooldowns,
                   demoVars, backend, clicks, faults>>

-----------------------------------------------------------------------------
(* handleAutoDemo.  It calls handleCrash and handleRecover of the render in   *)
(* which it was clicked, when the backend was available: their guards have    *)
(* been passed once and for all.                                              *)

ClickDemo ==
    /\ Clicked("demo") /\ ~AutoDemoDisabled
    /\ isAutoDemoRunning' = TRUE /\ demo' = "loaded"
    /\ UNCHANGED <<shown, isProcessing, mutating, call, poll, recoverCooldown, cooldowns,
                   submitVars, backend, faults>>

DemoSubmits ==
    /\ demo = "loaded" /\ demo' = "submitting" /\ isSubmitting' = TRUE
    /\ UNCHANGED <<shown, isProcessing, mutating, call, poll, recoverCooldown, cooldowns,
                   submit, hasActiveDAG, isAutoDemoRunning, backend, clicks, faults>>
DemoSubmitted ==
    /\ demo = "submitting" /\ Accepts
    /\ demo' = "awaiting start" /\ isSubmitting' = FALSE /\ hasActiveDAG' = TRUE
    /\ UNCHANGED <<shown, isProcessing, mutating, call, poll, recoverCooldown, cooldowns,
                   submit, isAutoDemoRunning, backend, clicks, faults>>

(* waitForEvidence has its evidence, or a handler called by the demo has      *)
(* returned.                                                                  *)
DemoIdle == \A c \in Calls : call[c].by = "demo" => ~Active(c)
DemoCalls(op, from, to) ==
    /\ demo = from /\ demo' = to
    /\ \E c \in Calls : Begin(c, op, "demo")
    /\ UNCHANGED <<isCrashed, poll, recoverCooldown, cooldowns, submitVars,
                   isAutoDemoRunning, backend, clicks, faults>>
DemoCrashes == DemoCalls("crash", "awaiting start", "crashing")
DemoRecovers == reachable /\ ~running /\ DemoCalls("recover", "confirming crash", "recovering")
DemoWaits ==
    /\ DemoIdle
    /\ \/ demo = "crashing" /\ demo' = "confirming crash"
       \/ demo = "recovering" /\ demo' = "confirming recovery"
    /\ UNCHANGED <<shown, isProcessing, mutating, call, poll, recoverCooldown, cooldowns,
                   submitVars, isAutoDemoRunning, backend, clicks, faults>>

(* The finally block, after the end or after an error: a submission that is   *)
(* refused, evidence that does not come in time.                              *)
DemoLeaves_KeepRunning(to) ==
    /\ demo' = to /\ isSubmitting' = FALSE /\ UNCHANGED isAutoDemoRunning
    /\ UNCHANGED <<shown, isProcessing, mutating, call, poll, recoverCooldown, cooldowns,
                   submit, hasActiveDAG, backend, clicks, faults>>
DemoLeaves(to) ==
    /\ demo' = to /\ isAutoDemoRunning' = FALSE /\ isSubmitting' = FALSE
    /\ UNCHANGED <<shown, isProcessing, mutating, call, poll, recoverCooldown, cooldowns,
                   submit, hasActiveDAG, backend, clicks, faults>>
DemoEnds == demo = "confirming recovery" /\ reachable /\ running /\ DemoLeaves("done")
DemoFails ==
    /\ demo \in {"submitting", "awaiting start", "confirming crash", "confirming recovery"}
    /\ DemoLeaves("stopped")

-----------------------------------------------------------------------------
CallStep(c) ==
    \/ CrashAccepted(c) \/ PauseEnds(c) \/ RecoverAccepted(c)
    \/ CallRefused(c) \/ SyncReturns(c)
DemoStep ==
    \/ DemoSubmits \/ DemoSubmitted \/ DemoCrashes \/ DemoRecovers \/ DemoWaits
    \/ DemoEnds \/ DemoFails
UserStep == ClickCrash \/ ClickRecover \/ ClickSubmit \/ ClickDemo
Next ==
    \/ \E c \in Calls : ServeCall(c) \/ ServeStatus(c) \/ CallFails(c) \/ CallStep(c)
    \/ \E p \in Polls : ServePoll(p) \/ PollFails(p) \/ PollTick(p) \/ PollReturns(p)
    \/ SubmitReturns \/ CooldownEnds \/ DemoStep \/ UserStep \/ Outage

(* The browser's timers fire, and every request it has sent is answered or    *)
(* given up; nobody has to click.                                             *)
Fairness ==
    /\ \A c \in Calls :
          WF_vars(ServeCall(c) \/ ServeStatus(c) \/ CallFails(c)) /\ WF_vars(CallStep(c))
    /\ \A p \in Polls :
          /\ WF_vars(ServePoll(p) \/ PollFails(p))
          /\ WF_vars(PollReturns(p)) /\ WF_vars(PollTick(p))
    /\ WF_vars(SubmitReturns) /\ WF_vars(CooldownEnds) /\ WF_vars(DemoStep)

Spec == Init /\ [][Next]_vars
FairSpec == Spec /\ Fairness

-----------------------------------------------------------------------------
(* Properties.                                                                *)

(* Whatever is disabled because something is under way has something under    *)
(* way that will enable it: no flag outlives its handler, also when the       *)
(* handlers of the demo and of the user overlap and one ends before the       *)
(* other.                                                                     *)
NothingStuck ==
    /\ isProcessing \/ mutating \/ systemState \in {"CRASHING", "RECOVERING"} => Busy
    /\ isSubmitting => submit \/ demo = "submitting"
    /\ recoverCooldown => cooldowns > 0
    /\ isAutoDemoRunning <=> demo \notin {"idle", "done", "stopped"}

(* When nothing is in flight, the label of the sidebar and its buttons tell   *)
(* the same story, though each is computed from other states.                 *)
ControlsMatchLabel ==
    ~Busy =>
        /\ StatusView = "SCHEDULER OFFLINE" <=> ~RecoverDisabled
        /\ StatusView = "SCHEDULER ONLINE" <=> ~isCrashed /\ ~BackendUnavailable
        /\ StatusView \notin {"CRASHING", "RECOVERING"}
        /\ OfflineBanner <=> ~RecoverDisabled

(* When the clicks and the faults are over, the page comes to show what the   *)
(* backend is, and stays with it, whichever requests were lost or overtaken.  *)
Truth == IF ~reachable THEN "BACKEND_OFFLINE" ELSE IF running THEN "ONLINE" ELSE "OFFLINE"
StatusConverges == <>[](systemState = Truth /\ isCrashed = (Truth = "OFFLINE"))

(* The controls come back.                                                    *)
ControlsReturn ==
    /\ (isProcessing ~> ~isProcessing) /\ (isSubmitting ~> ~isSubmitting)
    /\ (recoverCooldown ~> ~recoverCooldown)
    /\ (isAutoDemoRunning ~> ~isAutoDemoRunning)

-----------------------------------------------------------------------------
(* What the page says of itself and the code does not keep: TLC refutes these *)
(* two, and no run checks them.                                               *)

(* The banner over the page says that the scheduler reports stopped: a poll   *)
(* answered before a recovery may be applied after it.                        *)
OfflineIsReported == OfflineBanner => ~running

(* A recovery the user has asked for is announced while the page waits: its   *)
(* banner needs ~isCrashed, and the button needs isCrashed.                   *)
RecoveryIsAnnounced ==
    \A c \in Calls :
        (call[c].op = "recover" /\ call[c].at = "sent" /\ systemState = "RECOVERING")
            => RecoveryBanner
=============================================================================
