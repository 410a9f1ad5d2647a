---------------------------- MODULE ConsolePageProofs ----------------------------
(* No flag of the console page outlives its handler, and its label and its    *)
(* buttons agree, for any number of overlapping calls, polls, clicks and      *)
(* faults.  The invariant names, for everything a flag or a state waits for,  *)
(* the activation that will end it.                                           *)
EXTENDS ConsolePage, TLAPS

SystemStates ==
    {"WARMING", "ONLINE", "OFFLINE", "BACKEND_OFFLINE", "CRASHING", "RECOVERING"}
StatusAnswers == {"running", "stopped", "error"}
CallRecords ==
    [op : {"none", "crash", "recover"}, by : {"user", "demo"},
     at : {"idle", "sent", "pause", "sync"}, net : {"none", "asked", "ok"} \cup StatusAnswers]

PageTypeOK ==
    /\ systemState \in SystemStates
    /\ isCrashed \in BOOLEAN /\ isProcessing \in BOOLEAN /\ mutating \in BOOLEAN
    /\ isSubmitting \in BOOLEAN /\ submit \in BOOLEAN
    /\ isAutoDemoRunning \in BOOLEAN
    /\ recoverCooldown \in BOOLEAN /\ cooldowns \in Nat
    /\ call \in [Calls -> CallRecords] /\ running \in BOOLEAN

(* A state that waits for the answer of the server has its call out: a call   *)
(* whose answer has come has written another state.                           *)
AnswerAwaited ==
    systemState \in {"CRASHING", "RECOVERING"} => \E c \in Calls : call[c].at = "sent"

(* The two states of the page that say whether the scheduler runs.            *)
ShownTogether ==
    /\ systemState = "OFFLINE" => isCrashed
    /\ systemState = "ONLINE" => ~isCrashed

PageInv == PageTypeOK /\ NothingStuck /\ AnswerAwaited /\ ShownTogether
-----------------------------------------------------------------------------
(* What the actions are made of                                               *)

(* An answer to the status request leaves the page in a state that waits for  *)
(* nothing and says one thing.                                                *)
LEMMA StatusShown ==
    ASSUME NEW answer, ShowStatus(answer)
    PROVE  /\ systemState' \in {"ONLINE", "OFFLINE", "BACKEND_OFFLINE"}
           /\ isCrashed' \in BOOLEAN
           /\ AnswerAwaited' /\ ShownTogether'
BY DEF ShowStatus, AnswerAwaited, ShownTogether

(* A handler that begins is what its flags and its state wait for.            *)
LEMMA CallBegins ==
    ASSUME PageInv, NEW c \in Calls, NEW op \in {"crash", "recover"},
           NEW by \in {"user", "demo"}, Begin(c, op, by)
    PROVE  /\ systemState' \in {"CRASHING", "RECOVERING"}
           /\ isProcessing' /\ mutating' /\ isProcessing' \in BOOLEAN /\ mutating' \in BOOLEAN
           /\ call' \in [Calls -> CallRecords]
           /\ Busy' /\ AnswerAwaited' /\ ShownTogether'
<1> USE DEF PageInv, PageTypeOK, Begin
<1>1. /\ call' \in [Calls -> CallRecords] /\ call'[c].at = "sent"
      /\ systemState' \in {"CRASHING", "RECOVERING"}
  BY DEF CallRecords
<1>2. Busy' /\ AnswerAwaited' /\ ShownTogether'
  BY <1>1 DEF Busy, Active, AnswerAwaited, ShownTogether
<1> QED
  BY <1>1, <1>2

(* The finally block of a handler that has not left the page waiting for it   *)
(* resets every flag that could stay behind, also of another handler.         *)
LEMMA CallFinishes ==
    ASSUME PageInv, NEW c \in Calls, Finish(c)
    PROVE  /\ call' \in [Calls -> CallRecords]
           /\ ~isProcessing' /\ ~mutating' /\ isProcessing' \in BOOLEAN /\ mutating' \in BOOLEAN
           /\ \A d \in Calls : d # c => call'[d] = call[d]
BY DEF PageInv, PageTypeOK, Finish, NoCall, CallRecords

(* What the user's submission and the demo leave alone stays as it was.       *)
LEMMA FlagsStay ==
    ASSUME PageInv, UNCHANGED <<submitVars, demoVars>>
    PROVE  /\ isSubmitting' => submit' \/ demo' = "submitting"
           /\ isAutoDemoRunning' <=> demo' \notin {"idle", "done", "stopped"}
           /\ {isSubmitting', submit', isAutoDemoRunning'} \subseteq BOOLEAN
BY DEF PageInv, PageTypeOK, NothingStuck, submitVars, demoVars

(* Nor do the calls concern whoever changes none.                             *)
LEMMA CallsStay ==
    ASSUME PageInv, UNCHANGED <<shown, isProcessing, mutating, call>>
    PROVE  /\ systemState' \in SystemStates /\ call' \in [Calls -> CallRecords]
           /\ {isCrashed', isProcessing', mutating'} \subseteq BOOLEAN
           /\ isProcessing' \/ mutating' \/ systemState' \in {"CRASHING", "RECOVERING"} => Busy'
           /\ AnswerAwaited' /\ ShownTogether'
BY DEF PageInv, PageTypeOK, NothingStuck, AnswerAwaited, ShownTogether, Busy, Active, shown

-----------------------------------------------------------------------------
(* The inductive invariant                                                    *)

(* The page starts with every flag down and nothing under way.                *)
LEMMA InitInv == Init => PageInv
<1> SUFFICES ASSUME Init
             PROVE  PageInv
  OBVIOUS
<1>1. call \in [Calls -> CallRecords]
  BY DEF Init, NoCall, CallRecords
<1> QED
  BY <1>1 DEF Init, PageInv, PageTypeOK, SystemStates, NothingStuck, AnswerAwaited,
              ShownTogether

(* A request is answered, or it, or its answer, is lost: the call stays where *)
(* it is.                                                                     *)
LEMMA AnswerInv ==
    ASSUME PageInv, NEW c \in Calls, ServeCall(c) \/ ServeStatus(c) \/ CallFails(c)
    PROVE  PageInv'
<1> USE DEF PageInv, PageTypeOK
<1>1. UNCHANGED <<shown, isProcessing, mutating, recoverCooldown, cooldowns, submitVars,
                  demoVars>>
  BY DEF ServeCall, ServeStatus, CallFails, Lost
<1>2. PICK answer \in {"ok", "error", "running", "stopped"} :
          call' = [call EXCEPT ![c].net = answer]
  BY DEF ServeCall, ServeStatus, StatusAnswer, CallFails
<1>3. /\ call' \in [Calls -> CallRecords]
      /\ \A d \in Calls : call'[d].at = call[d].at
  BY <1>2 DEF CallRecords, StatusAnswers
<1>4. running' \in BOOLEAN
  BY DEF ServeCall, ServeStatus, CallFails, Lost, backend
<1>5. Busy' <=> Busy
  BY <1>3 DEF Busy, Active
<1>6. NothingStuck'
  BY <1>1, <1>5, FlagsStay DEF NothingStuck, shown
<1>7. AnswerAwaited' /\ ShownTogether'
  BY <1>1, <1>3 DEF AnswerAwaited, ShownTogether, shown
<1> QED
  BY <1>1, <1>3, <1>4, <1>6, <1>7 DEF shown, submitVars, demoVars

(* The steps of a handler.                                                    *)
LEMMA CallStepInv ==
    ASSUME PageInv, NEW c \in Calls, CallStep(c)
    PROVE  PageInv'
<1> USE DEF PageInv, PageTypeOK
<1>1. UNCHANGED <<submitVars, demoVars, backend>>
  BY DEF CallStep, CrashAccepted, PauseEnds, RecoverAccepted, CallRefused, SyncReturns
<1>2. cooldowns' \in Nat /\ recoverCooldown' \in BOOLEAN /\ (recoverCooldown' => cooldowns' > 0)
  <2>1. CASE UNCHANGED <<recoverCooldown, cooldowns>>
    BY <2>1 DEF NothingStuck
  <2>2. CASE recoverCooldown' = TRUE /\ cooldowns' = cooldowns + 1
    BY <2>2
  <2> QED
    BY <2>1, <2>2 DEF CallStep, CrashAccepted, PauseEnds, RecoverAccepted, CallRefused,
                      SyncReturns
<1>3. /\ systemState' \in SystemStates /\ call' \in [Calls -> CallRecords]
      /\ {isCrashed', isProcessing', mutating'} \subseteq BOOLEAN
      /\ isProcessing' \/ mutating' \/ systemState' \in {"CRASHING", "RECOVERING"} => Busy'
      /\ AnswerAwaited' /\ ShownTogether'
  <2>1. CASE CrashAccepted(c)
    <3> USE <2>1 DEF CrashAccepted
    <3>1. call' \in [Calls -> CallRecords] /\ call'[c].at = "pause"
      BY DEF CallRecords
    <3>2. Busy'
      BY <3>1 DEF Busy, Active
    <3> QED
      BY <3>1, <3>2 DEF AnswerAwaited, ShownTogether, SystemStates
  <2>2. CASE PauseEnds(c)
    <3>1. UNCHANGED shown /\ Finish(c) /\ call[c].at = "pause"
      BY <2>2 DEF PauseEnds
    <3>2. AnswerAwaited'
      BY <3>1, CallFinishes DEF AnswerAwaited, shown
    <3>3. systemState' \in {"CRASHING", "RECOVERING"} => Busy'
      BY <3>2 DEF AnswerAwaited, Busy, Active
    <3> QED
      BY <3>1, <3>2, <3>3, CallFinishes DEF ShownTogether, shown
  <2>3. CASE RecoverAccepted(c)
    <3>1. Finish(c) /\ isCrashed' = FALSE /\ systemState' = "ONLINE"
      BY <2>3 DEF RecoverAccepted
    <3> QED
      BY <3>1, CallFinishes DEF AnswerAwaited, ShownTogether, SystemStates
  <2>4. CASE CallRefused(c)
    <3> USE <2>4 DEF CallRefused
    <3>1. call' \in [Calls -> CallRecords] /\ call'[c].at = "sync"
      BY DEF CallRecords
    <3>2. Busy'
      BY <3>1 DEF Busy, Active
    <3> QED
      BY <3>1, <3>2 DEF AnswerAwaited, ShownTogether, SystemStates
  <2>5. CASE SyncReturns(c)
    <3>1. ShowStatus(call[c].net) /\ Finish(c)
      BY <2>5 DEF SyncReturns
    <3> QED
      BY <3>1, CallFinishes, StatusShown DEF SystemStates
  <2> QED
    BY <2>1, <2>2, <2>3, <2>4, <2>5 DEF CallStep
<1> QED
  BY <1>1, <1>2, <1>3, FlagsStay DEF NothingStuck, backend

(* The status poll: only its return changes the page.                         *)
LEMMA PollInv ==
    ASSUME PageInv, NEW p \in Polls,
           ServePoll(p) \/ PollFails(p) \/ PollTick(p) \/ PollReturns(p)
    PROVE  PageInv'
<1> USE DEF PageInv, PageTypeOK
<1>1. UNCHANGED <<isProcessing, mutating, call, recoverCooldown, cooldowns, submitVars,
                  demoVars, running>>
  BY DEF ServePoll, PollFails, Lost, PollTick, PollReturns, backend
<1>2. /\ systemState' \in SystemStates /\ isCrashed' \in BOOLEAN
      /\ AnswerAwaited' /\ ShownTogether'
  <2>1. CASE UNCHANGED shown
    BY <1>1, <2>1, CallsStay
  <2>2. CASE PollReturns(p)
    <3>1. ShowStatus(poll[p])
      BY <2>2 DEF PollReturns
    <3> QED
      BY <3>1, StatusShown DEF SystemStates
  <2> QED
    BY <2>1, <2>2 DEF ServePoll, PollFails, Lost, PollTick
<1>3. systemState' \in {"CRASHING", "RECOVERING"} => Busy'
  BY <1>2 DEF AnswerAwaited, Busy, Active
<1>4. Busy' <=> Busy
  BY <1>1 DEF Busy, Active
<1> QED
  BY <1>1, <1>2, <1>3, <1>4, FlagsStay DEF NothingStuck

(* The user clicks.                                                           *)
LEMMA UserInv ==
    ASSUME PageInv, UserStep
    PROVE  PageInv'
<1> USE DEF PageInv, PageTypeOK
<1>1. CASE ClickCrash \/ ClickRecover
  <2>1. UNCHANGED <<isCrashed, recoverCooldown, cooldowns, submitVars, demoVars, backend>>
    BY <1>1 DEF ClickCrash, ClickRecover
  <2>2. PICK c \in Calls, op \in {"crash", "recover"} : Begin(c, op, "user")
    BY <1>1 DEF ClickCrash, ClickRecover
  <2> QED
    BY <2>1, <2>2, CallBegins, FlagsStay DEF NothingStuck, SystemStates, backend
<1>2. CASE ClickSubmit \/ ClickDemo
  <2>1. UNCHANGED <<shown, isProcessing, mutating, call, recoverCooldown, cooldowns, backend>>
    BY <1>2 DEF ClickSubmit, ClickDemo
  <2>2. /\ {isSubmitting', submit', isAutoDemoRunning'} \subseteq BOOLEAN
        /\ isSubmitting' => submit' \/ demo' = "submitting"
        /\ isAutoDemoRunning' <=> demo' \notin {"idle", "done", "stopped"}
    <3>1. CASE ClickSubmit
      BY <3>1 DEF ClickSubmit, demoVars, NothingStuck
    <3>2. CASE ClickDemo
      BY <3>2 DEF ClickDemo, AutoDemoDisabled, submitVars, NothingStuck
    <3> QED
      BY <1>2, <3>1, <3>2
  <2> QED
    BY <2>1, <2>2, CallsStay DEF NothingStuck, backend
<1> QED
  BY <1>1, <1>2 DEF UserStep

(* The demo goes on, or leaves.                                               *)
LEMMA DemoInv ==
    ASSUME PageInv, DemoStep
    PROVE  PageInv'
<1> USE DEF PageInv, PageTypeOK
<1>1. CASE DemoCrashes \/ DemoRecovers
  <2>1. UNCHANGED <<isCrashed, recoverCooldown, cooldowns, submitVars, isAutoDemoRunning,
                    backend>>
    BY <1>1 DEF DemoCrashes, DemoRecovers, DemoCalls
  <2>2. PICK c \in Calls, op \in {"crash", "recover"} : Begin(c, op, "demo")
    BY <1>1 DEF DemoCrashes, DemoRecovers, DemoCalls
  <2>3. /\ demo \in {"awaiting start", "confirming crash"}
        /\ demo' \in {"crashing", "recovering"}
    BY <1>1 DEF DemoCrashes, DemoRecovers, DemoCalls
  <2>4. NothingStuck'
    BY <2>1, <2>2, <2>3, CallBegins DEF NothingStuck, submitVars
  <2> QED
    BY <2>1, <2>2, <2>4, CallBegins DEF SystemStates, submitVars, backend
<1>2. CASE DemoSubmits \/ DemoSubmitted \/ DemoWaits \/ DemoEnds \/ DemoFails
  <2>1. UNCHANGED <<shown, isProcessing, mutating, call, recoverCooldown, cooldowns, backend,
                    submit>>
    BY <1>2 DEF DemoSubmits, DemoSubmitted, DemoWaits, DemoEnds, DemoFails, DemoLeaves,
                submitVars
  <2>2. /\ {isSubmitting', isAutoDemoRunning'} \subseteq BOOLEAN
        /\ isSubmitting' => submit' \/ demo' = "submitting"
        /\ isAutoDemoRunning' <=> demo' \notin {"idle", "done", "stopped"}
    <3>1. CASE DemoSubmits
      BY <3>1 DEF DemoSubmits, NothingStuck
    <3>2. CASE DemoSubmitted
      BY <3>2 DEF DemoSubmitted, NothingStuck
    <3>3. CASE DemoWaits
      BY <3>3 DEF DemoWaits, submitVars, NothingStuck
    <3>4. CASE DemoEnds \/ DemoFails
      BY <3>4 DEF DemoEnds, DemoFails, DemoLeaves, NothingStuck
    <3> QED
      BY <1>2, <3>1, <3>2, <3>3, <3>4
  <2> QED
    BY <2>1, <2>2, CallsStay DEF NothingStuck, backend
<1> QED
  BY <1>1, <1>2 DEF DemoStep

(* What is left: the submission is answered, a cooldown is over, the host of  *)
(* the backend goes to sleep or wakes up.                                     *)
LEMMA OthersInv ==
    ASSUME PageInv, SubmitReturns \/ CooldownEnds \/ Outage
    PROVE  PageInv'
<1> USE DEF PageInv, PageTypeOK
<1>1. UNCHANGED <<shown, isProcessing, mutating, call, demoVars, running>>
  BY DEF SubmitReturns, CooldownEnds, Outage, backend
<1>2. /\ isSubmitting' \in BOOLEAN /\ submit' \in BOOLEAN
      /\ isSubmitting' => submit' \/ demo = "submitting"
  <2>1. CASE SubmitReturns
    BY <2>1, Zenon DEF SubmitReturns
  <2>2. CASE CooldownEnds \/ Outage
    BY <2>2 DEF CooldownEnds, Outage, submitVars, NothingStuck
  <2> QED
    BY <2>1, <2>2
<1>3. /\ recoverCooldown' \in BOOLEAN /\ cooldowns' \in Nat
      /\ recoverCooldown' => cooldowns' > 0
  <2>1. CASE UNCHANGED <<recoverCooldown, cooldowns>>
    BY <2>1 DEF NothingStuck
  <2>2. CASE /\ cooldowns > 0 /\ cooldowns' = cooldowns - 1
             /\ ~recoverCooldown' /\ recoverCooldown' \in BOOLEAN
    <3>1. cooldowns' \in Nat
      BY <2>2
    <3> QED
      BY <2>2, <3>1
  <2> QED
    BY <2>1, <2>2 DEF SubmitReturns, CooldownEnds, Outage
<1> QED
  BY <1>1, <1>2, <1>3, CallsStay DEF NothingStuck, demoVars

(* Every step keeps the invariant.                                            *)
LEMMA NextInv == PageInv /\ [Next]_vars => PageInv'
<1> SUFFICES ASSUME PageInv, [Next]_vars
             PROVE  PageInv'
  OBVIOUS
<1>1. CASE UNCHANGED vars
  <2>1. /\ UNCHANGED <<shown, isProcessing, mutating, call>>
        /\ UNCHANGED <<submitVars, demoVars>>
        /\ UNCHANGED <<recoverCooldown, cooldowns, running>>
    BY <1>1 DEF vars, backend
  <2> QED
    BY <2>1, CallsStay, FlagsStay DEF PageInv, PageTypeOK, NothingStuck
<1>2. CASE Next
  BY <1>2, AnswerInv, CallStepInv, PollInv, UserInv, DemoInv, OthersInv DEF Next
<1> QED
  BY <1>1, <1>2

(* The invariant of the page, whatever the user clicks, the network loses and *)
(* the demo does meanwhile.                                                   *)
THEOREM PageInvariance == Spec => []PageInv
BY InitInv, NextInv, PTL DEF Spec

-----------------------------------------------------------------------------
(* What the page promises                                                     *)

(* No flag outlives its handler (the finally blocks of handleCrash,           *)
(* handleRecover, handleSubmit and handleAutoDemo), however many of them      *)
(* overlap and whichever ends first.                                          *)
THEOREM NothingStaysStuck == Spec => []NothingStuck
<1>1. PageInv => NothingStuck
  BY DEF PageInv
<1> QED
  BY <1>1, PageInvariance, PTL

(* When no call is out, the label of the sidebar, its banner and its buttons  *)
(* tell the same story (ControlSidebar), though each is computed from other   *)
(* states.                                                                    *)
THEOREM ControlsAgree == Spec => []ControlsMatchLabel
<1>1. PageInv => ControlsMatchLabel
  <2> SUFFICES ASSUME PageInv, ~Busy
               PROVE  /\ StatusView = "SCHEDULER OFFLINE" <=> ~RecoverDisabled
                      /\ StatusView = "SCHEDULER ONLINE" <=> ~isCrashed /\ ~BackendUnavailable
                      /\ StatusView \notin {"CRASHING", "RECOVERING"}
                      /\ OfflineBanner <=> ~RecoverDisabled
    BY DEF ControlsMatchLabel
  <2>1. ~isProcessing /\ systemState \in {"WARMING", "ONLINE", "OFFLINE", "BACKEND_OFFLINE"}
    BY DEF PageInv, PageTypeOK, NothingStuck, SystemStates
  <2>2. (systemState = "OFFLINE" => isCrashed) /\ (systemState = "ONLINE" => ~isCrashed)
    BY DEF PageInv, ShownTogether
  <2> QED
    BY <2>1, <2>2 DEF StatusView, RecoverDisabled, BackendUnavailable, OfflineBanner
<1> QED
  BY <1>1, PageInvariance, PTL
=============================================================================
