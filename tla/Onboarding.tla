------------------------------ MODULE Onboarding ------------------------------
(***************************************************************************)
(* The onboarding page, src/byok-onboarding.ts: it shows the official       *)
(* Wizard of the Gateway in its frame, obtains a model capability from the  *)
(* Worker, attaches it to the runtime, and replaces a runtime that stopped  *)
(* answering (src/openclaw-runtime-recovery.ts).                            *)
(*                                                                          *)
(* The page's async functions are chains: each awaits one thing at a time,  *)
(* and several run at once because a button may start one while another     *)
(* still waits.  What a chain does between two awaits is one step, built    *)
(* from operators named after the functions it goes through.                *)
(*                                                                          *)
(* External, as the page uses them: the runtime behind the frame (modules   *)
(* SharedRuntime and GatewayConfig look inside) and the Worker's answers    *)
(* (module ByokBroker).  Left out: wording, layout, Wizard results that     *)
(* carry an error of their own, and sensitive text steps, for which         *)
(* renderText only shows an error.                                          *)
(***************************************************************************)
EXTENDS Naturals, FiniteSets, Sequences, FiniteSetsExt

CONSTANTS
  Chain,            \* bound: chains of the user's that may be under way at once
  Main,             \* the chain that resumes when the Gateway is ready
  Script,           \* the kinds of step the Wizard asks, in order
  MaxRecoveries,    \* maximumAutomaticRuntimeRecoveries
  MaxCapabilities,  \* bound: capabilities the Worker issues
  MaxMishaps        \* bound: refused or unanswered calls, replaced Gateways

ASSUME OnboardingAssumption ==
  /\ IsFiniteSet(Chain) /\ Main \notin Chain
  /\ Script \in Seq({"auth", "primer", "channels", "other"}) /\ Script # <<>>
  /\ MaxRecoveries \in Nat /\ MaxCapabilities \in Nat /\ MaxMishaps \in Nat

VARIABLES
  page,      \* module state, and what the page shows
  chain,     \* what each chain waits for
  runtime,   \* the runtime behind the current frame
  worker,    \* the Worker's capabilities: how many were issued, which revoked
  mishaps    \* mishaps so far

vars == <<page, chain, runtime, worker, mishaps>>

Step == 1..Len(Script)
Done == Len(Script) + 1
Capability == 1..MaxCapabilities
None == 0

AllChains == Chain \cup {Main}

Adapter == {"methods", "resume", "oauth", "key"}

Page ==
  [boot : {"running", "ready", "failed"},               \* bootProgress
   view : Adapter \cup {"busy", "step", "retry", "done", "closed"},
   failed : BOOLEAN,                                     \* an error is shown
   ready : BOOLEAN,                        \* runtimePanel, with revokeButton
   session : {"none", "live", "dead"},                   \* wizardSessionId
   step : Step \cup {None},                              \* currentStep
   started : BOOLEAN, finishing : BOOLEAN,
   skipping : BOOLEAN,                       \* initialChannelSkipInProgress
   capability : Capability \cup {None},
   attached : BOOLEAN,                                   \* capabilityAttached
   oauthAdmin : Capability \cup {None},                  \* oauthAdminToken
   recoveries : 0..MaxRecoveries, recovering : BOOLEAN]

Posted == {"start", "next", "attach", "reattach", "configure"}
Awaited == Posted \cup
  {"issue", "device", "poll", "body", "discard", "abandon", "revoke"}

Waits ==
  [at : Awaited \cup {"idle"},
   frame : {"current", "gone", "later"},  \* where its request was posted
   kind : {"wizard", "key", "oauth"},
   live : BOOLEAN,                        \* attempt === oauthAttempt
   session : {"live", "dead"},            \* the session the request names
   step : Step \cup {None},
   cap : Capability \cup {None}]

Runtime ==
  [state : {"booting", "ready", "failed"},
   wizard : 0..Done,                      \* the step it is at, 0 before start
   attached : Capability \cup {None},
   configured : BOOLEAN,
   replaced : BOOLEAN]                    \* it took another one's place

TypeOK ==
  /\ page \in Page
  /\ chain \in [AllChains -> Waits]
  /\ runtime \in Runtime
  /\ worker \in [issued : 0..MaxCapabilities, revoked : SUBSET Capability]
  /\ mishaps \in 0..MaxMishaps

Idle == [at |-> "idle", frame |-> "current", kind |-> "wizard", live |-> TRUE,
         session |-> "live", step |-> None, cap |-> None]

Booting == [state |-> "booting", wizard |-> 0, attached |-> None,
            configured |-> FALSE, replaced |-> FALSE]

Init ==
  /\ page = [boot |-> "running", view |-> "busy", failed |-> FALSE,
             ready |-> FALSE, session |-> "none", step |-> None, started |-> FALSE,
             finishing |-> FALSE, skipping |-> FALSE, capability |-> None,
             attached |-> FALSE, oauthAdmin |-> None,
             recoveries |-> 0, recovering |-> FALSE]
  /\ chain = [c \in AllChains |-> Idle]
  /\ runtime = Booting
  /\ worker = [issued |-> 0, revoked |-> {}]
  /\ mishaps = 0

-----------------------------------------------------------------------------
(* The Worker's routes, as the page sees them.                              *)

\* Every issue and every device authorization is a new Durable Object, and
\* the tokens name it.
NewCapability == worker.issued + 1

\* A call is routed to the Durable Object its admin token names.
RevokedBy(admins) ==
  [worker EXCEPT !.revoked = @ \cup (admins \ {None})]

-----------------------------------------------------------------------------
(* The page's synchronous functions: from a page to a page, or to a page    *)
(* and what the calling chain awaits next.                                  *)

Post(c, at) == [c EXCEPT !.at = at, !.frame = "current"]

Both(p, c) == [page |-> p, chain |-> c]

ShowError(p) == [p EXCEPT !.failed = TRUE]

\* The loader replaces the Wizard's buttons; an open adapter stays in front.
SetWizardBusy(p) ==
  [p EXCEPT !.view = IF @ \in Adapter THEN @ ELSE "busy"]

CredentialView(p) ==
  IF p.attached /\ p.capability # None THEN "resume" ELSE "methods"

RenderWizardStep(p, s) ==
  [p EXCEPT !.step = s,
            !.failed = FALSE,
            !.view = IF Script[s] = "auth" THEN CredentialView(p) ELSE "step"]

ShowInitialChannelSkipProgress(p) ==
  [p EXCEPT !.step = None, !.failed = FALSE, !.view = "busy"]

AnswerWizard(p, c, s) ==
  Both([SetWizardBusy(p) EXCEPT !.failed = FALSE],
       [Post(c, "next") EXCEPT !.step = s, !.session = p.session])

ShowDone(p) == [p EXCEPT !.view = "done", !.ready = TRUE]

\* Slip: the page reports success and configures the model afterwards.
EarlyFinishWizard(p, c) ==
  IF p.finishing THEN Both(p, Idle)
  ELSE LET q == [SetWizardBusy(p) EXCEPT !.finishing = TRUE, !.failed = FALSE]
       IN IF p.capability = None THEN Both(ShowDone(q), Idle)
          ELSE Both(ShowDone(q), Post(c, "configure"))

FinishWizard(p, c) ==
  IF p.finishing THEN Both(p, Idle)
  ELSE LET q == [SetWizardBusy(p) EXCEPT !.finishing = TRUE, !.failed = FALSE]
       IN IF p.capability = None THEN Both(ShowDone(q), Idle)
          ELSE Both(q, Post(c, "configure"))

\* What follows a Wizard result that stands at step s.
HandleWizardResult(p, c, s) ==
  IF s = Done THEN FinishWizard(p, c)
  ELSE IF Script[s] = "primer"
  THEN AnswerWizard(ShowInitialChannelSkipProgress(
                      [p EXCEPT !.skipping = TRUE]), c, s)
  ELSE IF Script[s] = "channels" /\ p.skipping
  THEN AnswerWizard(ShowInitialChannelSkipProgress(p), c, s)
  ELSE Both(RenderWizardStep([p EXCEPT !.skipping = FALSE], s), Idle)

StartWizard(p, c) ==
  IF p.started THEN Both(p, Idle)
  ELSE Both([SetWizardBusy(p) EXCEPT !.started = TRUE, !.failed = FALSE],
            Post(c, "start"))

\* An exception that leaves finishCredential, for issueApiKeyCapability or
\* startDeviceAuthorization to catch.
Throw(p, c) ==
  IF c.kind = "oauth" /\ ~c.live THEN Both(p, Idle)
  ELSE IF c.kind = "oauth" /\ p.oauthAdmin # None
  THEN Both([p EXCEPT !.oauthAdmin = None],
            [c EXCEPT !.at = "abandon", !.cap = p.oauthAdmin])
  ELSE Both([ShowError(p) EXCEPT
               !.view = IF c.kind = "oauth" THEN "methods" ELSE @], Idle)

FinishCredential(p, c, cap) ==
  IF p.step = None THEN Throw(p, c)
  ELSE Both([p EXCEPT !.capability = cap],
            [Post(c, "attach") EXCEPT !.cap = cap])

\* The capability is attached: the Wizard's credential step is skipped.
CredentialAttached(p, c) ==
  LET q == [p EXCEPT !.attached = TRUE, !.view = "busy"] IN
  IF q.session = "none" \/ q.step = None THEN Throw(q, c)
  ELSE AnswerWizard(q, c, q.step)

\* Slip: one recovery too many.
MayRecoverAgain(p) == ~p.recovering /\ p.recoveries <= MaxRecoveries

MayRecover(p) == ~p.recovering /\ p.recoveries < MaxRecoveries

\* Slip: the new runtime's Wizard counts as started.
RecoverStarted(p) ==
  [SetWizardBusy(p) EXCEPT
     !.recoveries = @ + 1, !.recovering = TRUE, !.skipping = FALSE,
     !.session = "none", !.step = None,
     !.finishing = FALSE, !.attached = FALSE, !.failed = FALSE,
     !.boot = "running"]

RecoverDisconnectedRuntime(p) ==
  [SetWizardBusy(p) EXCEPT
     !.recoveries = @ + 1, !.recovering = TRUE, !.skipping = FALSE,
     !.started = FALSE, !.session = "none", !.step = None,
     !.finishing = FALSE, !.attached = FALSE, !.failed = FALSE,
     !.boot = "running"]

-----------------------------------------------------------------------------
(* What the user does.                                                      *)

Open == page.view # "closed"

Free == CHOOSE f \in Chain : chain[f].at = "idle"

\* The buttons of a credential flow are disabled while one runs.
Begins(kind) ==
  /\ \E f \in Chain : chain[f].at = "idle"
  /\ kind # "wizard" => \A f \in Chain : chain[f].kind # kind

Run(f, both) ==
  /\ page' = both.page
  /\ chain' = [chain EXCEPT ![f] = both.chain]

\* A button of the step shown, or credentialResume.
Answer ==
  /\ Begins("wizard")
  /\ page.view \in {"step", "resume"}
  /\ page.step # None /\ page.session # "none"
  /\ Run(Free, AnswerWizard(page, Idle, page.step))
  /\ UNCHANGED <<runtime, worker, mishaps>>

\* apiKeyShow and the form's submission.
SubmitApiKey ==
  /\ Begins("key")
  /\ page.view \in {"methods", "key"}
  /\ worker.issued < MaxCapabilities
  /\ Run(Free, Both([page EXCEPT !.view = "key", !.failed = FALSE],
                    [Idle EXCEPT !.at = "issue", !.kind = "key"]))
  /\ UNCHANGED <<runtime, worker, mishaps>>

\* oauthStart: it is disabled while an earlier attempt still runs.
StartDeviceAuthorization ==
  /\ Begins("oauth")
  /\ page.view = "methods"
  /\ worker.issued < MaxCapabilities
  /\ Run(Free, Both([page EXCEPT !.view = "oauth", !.failed = FALSE],
                    [Idle EXCEPT !.at = "device", !.kind = "oauth"]))
  /\ UNCHANGED <<runtime, worker, mishaps>>

\* oauthBack, apiKeyBack.
ShowCredentialMethods ==
  /\ page.view \in {"oauth", "key"}
  /\ page' = [page EXCEPT !.view = "methods", !.failed = FALSE,
                          !.oauthAdmin = None]
  /\ chain' = [f \in AllChains |->
                 IF chain[f].kind = "oauth"
                 THEN [chain[f] EXCEPT !.live = FALSE] ELSE chain[f]]
  /\ worker' = RevokedBy({page.oauthAdmin})
  /\ UNCHANGED <<runtime, mishaps>>

RetryFinish ==
  /\ Begins("wizard")
  /\ page.view = "retry"
  /\ Run(Free, FinishWizard(page, Idle))
  /\ UNCHANGED <<runtime, worker, mishaps>>

Admin(p) == IF p.capability # None THEN p.capability ELSE p.oauthAdmin

\* revokeButton.
Revoke ==
  /\ Begins("wizard") /\ Open
  /\ page.ready /\ page.capability # None
  /\ \A f \in Chain : chain[f].at # "revoke"
  /\ Run(Free, Both(page, [Idle EXCEPT !.at = "revoke",
                                       !.cap = Admin(page)]))
  /\ UNCHANGED <<runtime, worker, mishaps>>

\* pagehide: the document and its chains are gone.
PageHide ==
  /\ Open
  /\ worker' = RevokedBy({Admin(page)})
  /\ page' = [page EXCEPT !.view = "closed", !.capability = None,
                          !.oauthAdmin = None]
  /\ chain' = [f \in AllChains |-> Idle]
  /\ UNCHANGED <<runtime, mishaps>>

-----------------------------------------------------------------------------
(* The runtime behind the frame.                                            *)

\* Slip: the flag that says a recovery is under way is cleared too early.
ResumeWithoutModel(p) ==
  StartWizard([p EXCEPT !.recovering = FALSE], Idle)

\* resumeWizardAfterGatewayReady.
ResumeWizardAfterGatewayReady(p) ==
  LET q == [p EXCEPT !.recovering = FALSE] IN
  IF p.recovering /\ p.capability # None
  THEN Both(q, [Post(Idle, "reattach") EXCEPT !.cap = p.capability])
  ELSE StartWizard(q, Idle)

\* Nothing keeps a resume from running beside an earlier one.
Resumes(f) ==
  /\ chain[f].at = "idle"
  /\ f # Main => chain[Main].at # "idle"

GatewayReady ==
  LET next == ResumeWizardAfterGatewayReady([page EXCEPT !.boot = "ready"]) IN
  /\ Open
  /\ runtime.state = "booting"
  /\ runtime' = [runtime EXCEPT !.state = "ready"]
  /\ page' = next.page
  /\ \/ next.chain = Idle /\ UNCHANGED chain
     \/ /\ next.chain # Idle
        /\ \E f \in AllChains :
             Resumes(f) /\ chain' = [chain EXCEPT ![f] = next.chain]
  /\ UNCHANGED <<worker, mishaps>>

\* byok-runtime-status with state fail; ignored once the Wizard has started.
BootFails ==
  /\ Open
  /\ runtime.state = "booting"
  /\ mishaps < MaxMishaps
  /\ runtime' = [runtime EXCEPT !.state = "failed"]
  /\ page' = IF page.started THEN page
             ELSE [ShowError(page) EXCEPT !.boot = "failed"]
  /\ mishaps' = mishaps + 1
  /\ UNCHANGED <<chain, worker>>

\* The tab that owns the shared runtime closes and another one boots it anew.
\* So may the runtime this page rotated to: the epoch is in localStorage, and a
\* tab that opens meanwhile may join it first and own it.
GatewayReplaced ==
  /\ Open
  /\ runtime.state = "ready"
  /\ mishaps < MaxMishaps
  /\ runtime' = [Booting EXCEPT !.replaced = TRUE]
  /\ page' = [page EXCEPT !.session = IF @ = "live" THEN "dead" ELSE @]
  /\ chain' = [f \in AllChains |->
                 IF chain[f].at = "next"
                 THEN [chain[f] EXCEPT !.session = "dead"] ELSE chain[f]]
  /\ mishaps' = mishaps + 1
  /\ UNCHANGED worker

\* What the runtime does with a request it accepts.
Accepts(c) ==
  CASE c.at = "next" -> c.session = "live"
    [] c.at \in {"attach", "reattach"} -> runtime.attached = None
    [] c.at = "configure" -> runtime.attached # None
    [] OTHER -> TRUE

Effect(c) ==
  CASE c.at = "start" -> [runtime EXCEPT !.wizard = Max({@, 1})]
    [] c.at = "next" -> [runtime EXCEPT !.wizard = Max({@, c.step + 1})]
    [] c.at = "configure" -> [runtime EXCEPT !.configured = TRUE]
    [] OTHER -> [runtime EXCEPT !.attached = c.cap]

Reaches(f) ==
  /\ chain[f].at \in Posted
  /\ chain[f].frame = "current"
  /\ runtime.state = "ready"

\* The chain goes on with the runtime's answer.
Answered(f) ==
  LET c == chain[f] IN
  /\ Reaches(f)
  /\ Accepts(c)
  /\ runtime' = Effect(c)
  /\ Run(f, CASE c.at = "start" ->
                   HandleWizardResult([page EXCEPT !.session = "live"], c,
                                      runtime'.wizard)
              [] c.at = "next" -> HandleWizardResult(page, c, c.step + 1)
              [] c.at = "attach" -> CredentialAttached(page, c)
              [] c.at = "reattach" ->
                   StartWizard([page EXCEPT !.attached = TRUE], c)
              [] c.at = "configure" -> Both(ShowDone(page), Idle))
  /\ UNCHANGED <<worker, mishaps>>

\* The chain's catch clause.  Only answerWizard replaces the runtime, and only
\* for an error that says the Gateway is out of reach.
Failed(f, unavailable) ==
  LET c == chain[f] IN
  IF c.at = "next" /\ unavailable /\ MayRecover(page)
  THEN /\ page' = RecoverDisconnectedRuntime(page)
       /\ chain' = [g \in AllChains |->
                      IF g = f THEN Idle
                      ELSE IF chain[g].at \notin Posted THEN chain[g]
                      ELSE [chain[g] EXCEPT
                              !.frame = IF @ = "current" THEN "gone" ELSE @,
                              !.session = IF chain[g].at = "next"
                                          THEN "dead" ELSE @]]
       /\ runtime' = Booting
  ELSE /\ Run(f, CASE c.at = "start" ->
                        Both([ShowError(page) EXCEPT !.started = FALSE], Idle)
                   [] c.at = "next" ->
                        Both(ShowError(RenderWizardStep(page, c.step)), Idle)
                   [] c.at = "attach" -> Both(page, [c EXCEPT !.at = "discard"])
                   [] c.at = "reattach" -> Both(ShowError(page), Idle)
                   [] c.at = "configure" ->
                        Both([ShowError(page) EXCEPT !.finishing = FALSE,
                                !.view = IF @ \in Adapter THEN @ ELSE "retry"],
                             Idle))
       /\ runtime' \in {runtime} \cup
                       (IF Reaches(f) /\ Accepts(c) /\ unavailable
                        THEN {Effect(c)} ELSE {})

\* A refusal: of what the runtime cannot accept, or for a reason of its own.
Refused(f) ==
  /\ Reaches(f)
  /\ IF Accepts(chain[f])
     THEN mishaps < MaxMishaps /\ mishaps' = mishaps + 1
     ELSE UNCHANGED mishaps
  /\ Failed(f, FALSE)
  /\ UNCHANGED worker

\* The request's own timer fires: its answer was lost, or nobody was there.
TimesOut(f) ==
  /\ chain[f].at \in Posted /\ chain[f].frame # "later"
  /\ IF chain[f].frame = "current" /\ runtime.state # "failed"
     THEN mishaps < MaxMishaps /\ mishaps' = mishaps + 1
     ELSE UNCHANGED mishaps
  /\ Failed(f, TRUE)
  /\ UNCHANGED worker

\* rpc: "gateway not connected" is tried again for a while.
NotConnected(f) ==
  /\ Reaches(f)
  /\ chain[f].at \in {"start", "next"}
  /\ mishaps < MaxMishaps
  /\ mishaps' = mishaps + 1
  /\ Run(f, Both(SetWizardBusy(page), [chain[f] EXCEPT !.frame = "later"]))
  /\ UNCHANGED <<runtime, worker>>

Reconnect(f) ==
  /\ chain[f].at \in {"start", "next"} /\ chain[f].frame = "later"
  /\ Run(f, Both(page, Post(chain[f], chain[f].at)))
  /\ UNCHANGED <<runtime, worker, mishaps>>

-----------------------------------------------------------------------------
(* The Worker's answers.                                                    *)

Awaits(f, at) == chain[f].at = at

\* issueApiKeyCapability: every issue is a new Durable Object.
Issued(f) ==
  /\ Awaits(f, "issue")
  /\ worker.issued < MaxCapabilities
  /\ worker' = [worker EXCEPT !.issued = NewCapability]
  /\ Run(f, FinishCredential(page, chain[f], NewCapability))
  /\ UNCHANGED <<runtime, mishaps>>

\* startDeviceAuthorization: the session exists before the user approves.
DeviceStarted(f) ==
  /\ Awaits(f, "device")
  /\ worker.issued < MaxCapabilities
  /\ worker' = [worker EXCEPT !.issued = NewCapability]
  /\ Run(f, Both([page EXCEPT !.oauthAdmin = NewCapability],
                 [chain[f] EXCEPT !.at = "poll", !.cap = NewCapability]))
  /\ UNCHANGED <<runtime, mishaps>>

\* pollDeviceAuthorization: an attempt the user backed out of ends.
PollStops(f) ==
  /\ Awaits(f, "poll")
  /\ ~chain[f].live
  /\ Run(f, Both(page, Idle))
  /\ UNCHANGED <<runtime, worker, mishaps>>

Approved(f) ==
  /\ Awaits(f, "poll")
  /\ chain[f].live
  /\ chain[f].cap \notin worker.revoked
  /\ Run(f, Both(page, [chain[f] EXCEPT !.at = "body"]))
  /\ UNCHANGED <<runtime, worker, mishaps>>

\* The attempt is not compared again after response.json().
PollBody(f) ==
  /\ Awaits(f, "body")
  /\ Run(f, FinishCredential(page, chain[f], chain[f].cap))
  /\ UNCHANGED <<runtime, worker, mishaps>>

\* A refused key, or an authorization that failed or expired.
CredentialRefused(f) ==
  /\ \/ Awaits(f, "issue")
     \/ Awaits(f, "device")
     \/ Awaits(f, "poll") /\ chain[f].live
  /\ Run(f, Throw(page, chain[f]))
  /\ UNCHANGED <<runtime, worker, mishaps>>

\* The revocation of a capability that could not be attached, or of an
\* authorization that failed, was answered or was not.
Discarded(f) ==
  /\ Awaits(f, "discard") \/ Awaits(f, "abandon")
  /\ worker' = RevokedBy({chain[f].cap})
  /\ Run(f, IF chain[f].at = "discard"
            THEN Throw([page EXCEPT !.capability = None], chain[f])
            ELSE Both([ShowError(page) EXCEPT !.view = "methods"], Idle))
  /\ UNCHANGED <<runtime, mishaps>>

Revoked(f) ==
  /\ Awaits(f, "revoke")
  /\ \/ /\ worker' = RevokedBy({chain[f].cap})
        /\ Run(f, Both([page EXCEPT !.capability = None, !.oauthAdmin = None],
                       Idle))
     \/ /\ Run(f, Both(ShowError(page), Idle))
        /\ UNCHANGED worker
  /\ UNCHANGED <<runtime, mishaps>>

-----------------------------------------------------------------------------
RequestSettles(f) ==
  \/ Answered(f) \/ Refused(f) \/ TimesOut(f)
  \/ Reconnect(f)

WorkerAnswers(f) ==
  \/ Issued(f) \/ DeviceStarted(f)
  \/ PollStops(f) \/ Approved(f) \/ PollBody(f)
  \/ CredentialRefused(f)
  \/ Discarded(f)
  \/ Revoked(f)

BootSettles == GatewayReady \/ BootFails

User ==
  \/ Answer
  \/ SubmitApiKey
  \/ StartDeviceAuthorization
  \/ ShowCredentialMethods
  \/ RetryFinish
  \/ Revoke
  \/ PageHide

Next ==
  \/ User
  \/ BootSettles
  \/ GatewayReplaced
  \/ \E f \in AllChains :
       RequestSettles(f) \/ WorkerAnswers(f) \/ NotConnected(f)

(***************************************************************************)
(* The page sets a timer for every request it posts to the runtime.  It     *)
(* sets none for a boot or for the Worker's answer to a fetch, and the user *)
(* owes nothing.                                                            *)
(***************************************************************************)
Fairness == \A f \in AllChains : WF_vars(RequestSettles(f))

Spec == Init /\ [][Next]_vars /\ Fairness

-----------------------------------------------------------------------------
(* Properties.                                                              *)

\* A page that holds a capability starts a Wizard only in a runtime that has
\* a model attached, also when the page replaced the runtime the capability
\* was attached, or was being attached, to.  It does so without one only where
\* another tab replaced, in turn, the runtime this page had rotated to.
WizardStartsWithModel ==
  [][\A f \in AllChains :
       /\ chain'[f].at = "start" /\ chain[f].at # "start"
       /\ page'.capability # None
       => \/ runtime'.attached # None
          \/ page'.recoveries # 0 /\ runtime'.replaced]_vars

\* The page reports a finished setup with a capability only when the runtime
\* it talks to has the model configured.
DoneIsConfigured ==
  [][page'.view = "done" /\ page.view # "done" /\ page'.capability # None
     => runtime'.configured]_vars

\* The user is left with something to act on or an error to read.
AtRest ==
  \/ page.view = "closed" \/ page.ready
  \/ page.boot = "failed"
  \/ page.boot = "ready" /\ (page.view # "busy" \/ page.failed)

\* Whatever is lost or replaced, the page stops showing only a spinner: the
\* channel primer it skips on its own and the runtimes it replaces included.
\* While a boot hangs, of an owner that crashed say, the spinner stays.
BootsEnd == []<>(runtime.state # "booting")
PageComesToRest == BootsEnd => []<>AtRest
=============================================================================
