-------------------------- MODULE OnboardingProofs --------------------------
(***************************************************************************)
(* Theorems about the onboarding page, for any script of the Wizard and any *)
(* number of chains, capabilities, recoveries and mishaps.                  *)
(***************************************************************************)
EXTENDS Onboarding, TLAPS

\* A call that answers the Wizard names a step, and a session that is live
\* only while the page's is.
CallsAreOfSession ==
  \A f \in AllChains : chain[f].at = "next" =>
    /\ chain[f].step # None
    /\ chain[f].session = "live" => page.session = "live"

\* In the first runtime only one chain, of the Gateway's readiness, starts a
\* Wizard; what is attached for a start is a capability.
MainStarts ==
  \A f \in AllChains :
    /\ chain[f].at \in {"start", "reattach"} => f = Main \/ page.recoveries # 0
    /\ chain[f].at = "reattach" => chain[f].cap # None

\* Until the Wizard of the first runtime has started there is no step, so no
\* credential can have been entered; whatever stops answering before the page
\* replaced its runtime has not brought that back.
NothingShown ==
  /\ page.step = None /\ page.capability = None
  /\ \A f \in AllChains : chain[f].at \notin {"next", "attach"}
FirstRuntime ==
  page.recoveries = 0 =>
    /\ ~page.recovering /\ chain[Main].at # "reattach"
    /\ chain[Main].at = "start" => page.started
    /\ ~page.started => chain[Main].at = "idle"
    /\ ~page.started \/ chain[Main].at = "start" => NothingShown

\* The runtime the page rotated to boots under the flag that makes the page
\* attach its capability first; one that takes its place does not.
LaterRuntimes ==
  page.recoveries # 0 /\ runtime.state = "booting" /\ ~runtime.replaced
    => page.recovering

OnboardingInv ==
  /\ TypeOK
  /\ CallsAreOfSession /\ MainStarts /\ FirstRuntime /\ LaterRuntimes

-----------------------------------------------------------------------------
(***************************************************************************)
(* What the page's synchronous functions leave alone.                      *)
(***************************************************************************)
\* The fields that decide when a Wizard starts.
Same(q, p) ==
  /\ q.session = p.session /\ q.started = p.started
  /\ q.recoveries = p.recoveries /\ q.recovering = p.recovering

LEMMA IdleType == Idle \in Waits /\ Idle.at = "idle"
BY DEF Idle, Waits, Awaited, None

LEMMA PostType ==
  ASSUME NEW c \in Waits, NEW at \in Awaited
  PROVE  /\ Post(c, at) \in Waits /\ Post(c, at).at = at
         /\ Post(c, at).cap = c.cap /\ Post(c, at).session = c.session
         /\ Post(c, at).step = c.step
BY DEF Post, Waits

LEMMA BusyPage ==
  ASSUME NEW p \in Page
  PROVE  /\ SetWizardBusy(p) \in Page /\ Same(SetWizardBusy(p), p)
         /\ SetWizardBusy(p).step = p.step
         /\ SetWizardBusy(p).capability = p.capability
         /\ SetWizardBusy(p).finishing = p.finishing
         /\ SetWizardBusy(p).view = "done" => p.view = "done"
BY DEF SetWizardBusy, Same, Page, Adapter

LEMMA ErrorPage ==
  ASSUME NEW p \in Page
  PROVE  /\ ShowError(p) \in Page /\ Same(ShowError(p), p)
         /\ ShowError(p).step = p.step
         /\ ShowError(p).capability = p.capability
         /\ ShowError(p).view = p.view
BY DEF ShowError, Same, Page

LEMMA StepPage ==
  ASSUME NEW p \in Page, NEW s \in Step
  PROVE  /\ RenderWizardStep(p, s) \in Page /\ Same(RenderWizardStep(p, s), p)
         /\ RenderWizardStep(p, s).step = s
         /\ RenderWizardStep(p, s).capability = p.capability
         /\ RenderWizardStep(p, s).view # "done"
<1> DEFINE v == IF Script[s] = "auth" THEN CredentialView(p) ELSE "step"
<1>1. v \in {"resume", "methods", "step"}
  BY DEF CredentialView
<1>2. RenderWizardStep(p, s)
        = [p EXCEPT !.step = s, !.failed = FALSE, !.view = v]
  BY DEF RenderWizardStep
<1> HIDE DEF v
<1> QED
  BY <1>1, <1>2 DEF Same, Page, Adapter

LEMMA SkipPage ==
  ASSUME NEW p \in Page
  PROVE  /\ ShowInitialChannelSkipProgress(p) \in Page
         /\ Same(ShowInitialChannelSkipProgress(p), p)
         /\ ShowInitialChannelSkipProgress(p).step = None
         /\ ShowInitialChannelSkipProgress(p).capability = p.capability
         /\ ShowInitialChannelSkipProgress(p).view = "busy"
BY DEF ShowInitialChannelSkipProgress, Same, Page, None

\* What a step shows and awaits.
IsBoth(b) == b.page \in Page /\ b.chain \in Waits

LEMMA AnswerOutcome ==
  ASSUME NEW p \in Page, p.session # "none", NEW c \in Waits, NEW s \in Step,
         NEW b, b = AnswerWizard(p, c, s)
  PROVE  /\ IsBoth(b) /\ Same(b.page, p)
         /\ b.page.step = p.step /\ b.page.capability = p.capability
         /\ b.page.view = "done" => p.view = "done"
         /\ b.chain.at = "next" /\ b.chain.step # None
         /\ b.chain.session = p.session
<1> DEFINE q == SetWizardBusy(p)
           d == Post(c, "next")
<1>1. /\ q \in Page /\ Same(q, p)
      /\ q.step = p.step /\ q.capability = p.capability
      /\ q.view = "done" => p.view = "done"
  BY BusyPage
<1>2. d \in Waits /\ d.at = "next"
  BY PostType DEF Awaited, Posted
<1>3. /\ b.page = [q EXCEPT !.failed = FALSE]
      /\ b.chain = [d EXCEPT !.step = s, !.session = p.session]
  BY DEF AnswerWizard, Both
<1>4. p.session \in {"live", "dead"} /\ s # None
  BY DEF Page, Step, None
<1> HIDE DEF q, d
<1>5. /\ b.page \in Page /\ Same(b.page, q)
      /\ b.page.step = q.step /\ b.page.capability = q.capability
      /\ b.page.view = q.view
  BY <1>1, <1>3 DEF Page, Same
<1>6. /\ b.chain \in Waits /\ b.chain.at = d.at
      /\ b.chain.step = s /\ b.chain.session = p.session
  BY <1>2, <1>3, <1>4 DEF Waits
<1> QED
  BY <1>1, <1>2, <1>4, <1>5, <1>6 DEF IsBoth, Same

LEMMA FinishOutcome ==
  ASSUME NEW p \in Page, NEW c \in Waits, NEW b, b = FinishWizard(p, c)
  PROVE  /\ IsBoth(b) /\ Same(b.page, p)
         /\ b.page.step = p.step /\ b.page.capability = p.capability
         /\ b.page.view = "done" => p.view = "done" \/ b.page.capability = None
         /\ b.chain.at \in {"idle", "configure"}
<1> DEFINE w == SetWizardBusy(p)
           q == [w EXCEPT !.finishing = TRUE, !.failed = FALSE]
           d == Post(c, "configure")
<1>1. /\ w \in Page /\ Same(w, p)
      /\ w.step = p.step /\ w.capability = p.capability
      /\ w.view = "done" => p.view = "done"
  BY BusyPage
<1>2. d \in Waits /\ d.at = "configure"
  BY PostType DEF Awaited, Posted
<1>3. \/ b = Both(p, Idle)
      \/ b = Both(ShowDone(q), Idle) /\ p.capability = None
      \/ b = Both(q, d)
  BY DEF FinishWizard
<1> HIDE DEF w, d
<1>4. /\ q \in Page /\ Same(q, w) /\ q.view = w.view
      /\ q.step = w.step /\ q.capability = w.capability
  BY ZenonT(40), <1>1 DEF Page, Same
<1> HIDE DEF q
<1>5. /\ ShowDone(q) \in Page /\ Same(ShowDone(q), q)
      /\ ShowDone(q).step = q.step /\ ShowDone(q).capability = q.capability
  BY <1>4 DEF ShowDone, Page, Same
<1>6. CASE b = Both(p, Idle)
  BY <1>6, IdleType DEF Both, IsBoth, Same
<1>7. CASE b = Both(ShowDone(q), Idle) /\ p.capability = None
  BY <1>1, <1>4, <1>5, <1>7, IdleType DEF Both, IsBoth, Same
<1>8. CASE b = Both(q, d)
  BY <1>1, <1>2, <1>4, <1>8 DEF Both, IsBoth, Same
<1> QED
  BY <1>3, <1>6, <1>7, <1>8

LEMMA ResultOutcome ==
  ASSUME NEW p \in Page, p.session # "none", NEW c \in Waits,
         NEW s \in 1 .. Done,
         NEW b, b = HandleWizardResult(p, c, s)
  PROVE  /\ IsBoth(b) /\ Same(b.page, p) /\ b.page.capability = p.capability
         /\ b.page.view = "done" => p.view = "done" \/ b.page.capability = None
         /\ b.chain.at \in {"idle", "configure", "next"}
         /\ b.chain.at = "next" =>
              b.chain.step # None /\ b.chain.session = p.session
<1>1. CASE s = Done
  <2>1. b = FinishWizard(p, c)
    BY <1>1 DEF HandleWizardResult
  <2> QED
    BY <2>1, FinishOutcome
<1>2. CASE s # Done
  <2> DEFINE r == [p EXCEPT !.skipping = TRUE]
             n == [p EXCEPT !.skipping = FALSE]
  <2>1. s \in Step
    BY <1>2, OnboardingAssumption DEF Done, Step
  <2>2. /\ r \in Page /\ Same(r, p) /\ r.capability = p.capability
        /\ n \in Page /\ Same(n, p) /\ n.capability = p.capability
    BY DEF Page, Same
  <2>3. \/ b = AnswerWizard(ShowInitialChannelSkipProgress(r), c, s)
        \/ b = AnswerWizard(ShowInitialChannelSkipProgress(p), c, s)
        \/ b = Both(RenderWizardStep(n, s), Idle)
    BY <1>2 DEF HandleWizardResult
  <2> HIDE DEF r, n
  <2>4. ASSUME NEW q \in Page, Same(q, p), q.capability = p.capability,
               b = AnswerWizard(ShowInitialChannelSkipProgress(q), c, s)
        PROVE  /\ IsBoth(b) /\ Same(b.page, p) /\ b.page.capability = p.capability
               /\ b.page.view # "done"
               /\ b.chain.at = "next" /\ b.chain.step # None
               /\ b.chain.session = p.session
    <3> DEFINE w == ShowInitialChannelSkipProgress(q)
    <3>1. /\ w \in Page /\ Same(w, p) /\ w.capability = p.capability
          /\ w.view = "busy"
      BY <2>4, SkipPage DEF Same
    <3>2. w.session = p.session
      BY <3>1 DEF Same
    <3> HIDE DEF w
    <3>3. b = AnswerWizard(w, c, s)
      BY <2>4 DEF w
    <3> QED
      BY <2>1, <3>1, <3>2, <3>3, AnswerOutcome DEF Same
  <2>5. CASE b = Both(RenderWizardStep(n, s), Idle)
    BY <2>1, <2>2, <2>5, StepPage, IdleType DEF Both, IsBoth, Same
  <2>6. p \in Page /\ Same(p, p) /\ p.capability = p.capability
    BY DEF Same
  <2> QED
    BY <2>2, <2>3, <2>4, <2>5, <2>6
<1> QED
  BY <1>1, <1>2

LEMMA StartOutcome ==
  ASSUME NEW p \in Page, NEW c \in Waits, NEW b, b = StartWizard(p, c)
  PROVE  /\ IsBoth(b)
         /\ b.page.session = p.session /\ b.page.recoveries = p.recoveries
         /\ b.page.recovering = p.recovering
         /\ b.page.step = p.step /\ b.page.capability = p.capability
         /\ b.page.view = "done" => p.view = "done"
         /\ b.page.started
         /\ \/ b.chain = Idle /\ p.started
            \/ b.chain.at = "start" /\ ~p.started
<1> DEFINE w == SetWizardBusy(p)
           q == [w EXCEPT !.started = TRUE, !.failed = FALSE]
           d == Post(c, "start")
<1>1. /\ w \in Page /\ Same(w, p)
      /\ w.step = p.step /\ w.capability = p.capability
      /\ w.view = "done" => p.view = "done"
  BY BusyPage
<1>2. d \in Waits /\ d.at = "start"
  BY PostType DEF Awaited, Posted
<1>3. p.started \in BOOLEAN
  BY DEF Page
<1>4. b = IF p.started THEN Both(p, Idle) ELSE Both(q, d)
  BY DEF StartWizard
<1> HIDE DEF w, d
<1>5. /\ q \in Page /\ q.started /\ q.view = w.view /\ q.session = w.session
      /\ q.recoveries = w.recoveries /\ q.recovering = w.recovering
      /\ q.step = w.step /\ q.capability = w.capability
  BY ZenonT(40), <1>1 DEF Page
<1> HIDE DEF q
<1>6. CASE p.started
  <2>1. b.page = p /\ b.chain = Idle
    BY <1>4, <1>6 DEF Both
  <2> QED
    BY <1>6, <2>1, IdleType DEF IsBoth
<1>7. CASE ~p.started
  <2>1. b.page = q /\ b.chain = d
    BY <1>4, <1>7 DEF Both
  <2> QED
    BY <1>1, <1>2, <1>5, <1>7, <2>1 DEF IsBoth, Same
<1> QED
  BY <1>6, <1>7

LEMMA ThrowOutcome ==
  ASSUME NEW p \in Page, NEW c \in Waits, NEW b, b = Throw(p, c)
  PROVE  /\ IsBoth(b) /\ Same(b.page, p)
         /\ b.page.step = p.step /\ b.page.capability = p.capability
         /\ b.page.view = "done" => p.view = "done"
         /\ b.chain.at \in {"idle", "abandon"}
<1> DEFINE v == IF c.kind = "oauth" THEN "methods" ELSE ShowError(p).view
           q == [p EXCEPT !.oauthAdmin = None]
           d == [c EXCEPT !.at = "abandon", !.cap = p.oauthAdmin]
           e == [ShowError(p) EXCEPT !.view = v]
<1>1. b = Both(p, Idle) \/ b = Both(q, d) \/ b = Both(e, Idle)
  BY DEF Throw
<1>2. /\ q \in Page /\ Same(q, p) /\ q.step = p.step
      /\ q.capability = p.capability /\ q.view = p.view
  BY DEF Page, Same, None
<1>3. d \in Waits /\ d.at = "abandon"
  BY DEF Waits, Awaited, Page
<1>4. /\ e \in Page /\ Same(e, p) /\ e.step = p.step
      /\ e.capability = p.capability
      /\ e.view = "done" => p.view = "done"
  <2>1. v \in {"methods", ShowError(p).view} /\ ShowError(p).view = p.view
    BY ErrorPage
  <2> HIDE DEF v
  <2>2. ShowError(p) \in Page /\ Same(ShowError(p), p)
    BY ErrorPage
  <2>3. /\ e \in Page /\ Same(e, ShowError(p)) /\ e.step = ShowError(p).step
        /\ e.capability = ShowError(p).capability /\ e.view = v
    BY <2>1, <2>2 DEF Page, Same, Adapter
  <2> QED
    BY <2>1, <2>2, <2>3, ErrorPage DEF Same
<1> HIDE DEF q, d, e
<1>5. CASE b = Both(p, Idle)
  BY <1>5, IdleType DEF Both, IsBoth, Same
<1>6. CASE b = Both(q, d)
  BY <1>2, <1>3, <1>6 DEF Both, IsBoth
<1>7. CASE b = Both(e, Idle)
  BY <1>4, <1>7, IdleType DEF Both, IsBoth
<1> QED
  BY <1>1, <1>5, <1>6, <1>7

LEMMA CredentialOutcome ==
  ASSUME NEW p \in Page, NEW c \in Waits, NEW cap \in Capability \cup {None},
         NEW b, b = FinishCredential(p, c, cap)
  PROVE  /\ IsBoth(b) /\ Same(b.page, p) /\ b.page.step = p.step
         /\ b.page.view = "done" => p.view = "done"
         /\ b.chain.at \in {"idle", "abandon", "attach"}
         /\ b.page.capability # p.capability \/ b.chain.at = "attach"
              => p.step # None
<1>1. CASE p.step = None
  <2>1. b = Throw(p, c)
    BY <1>1 DEF FinishCredential
  <2> QED
    BY <2>1, ThrowOutcome
<1>2. CASE p.step # None
  <2> DEFINE q == [p EXCEPT !.capability = cap]
             d == [Post(c, "attach") EXCEPT !.cap = cap]
  <2>1. b.page = q /\ b.chain = d
    BY <1>2 DEF FinishCredential, Both
  <2>2. /\ q \in Page /\ Same(q, p) /\ q.step = p.step /\ q.view = p.view
    BY DEF Page, Same
  <2>3. Post(c, "attach") \in Waits /\ Post(c, "attach").at = "attach"
    BY PostType DEF Awaited, Posted
  <2>4. d \in Waits /\ d.at = "attach"
    BY <2>3 DEF Waits
  <2> HIDE DEF q, d
  <2> QED
    BY <1>2, <2>1, <2>2, <2>4 DEF IsBoth
<1> QED
  BY <1>1, <1>2

LEMMA AttachedOutcome ==
  ASSUME NEW p \in Page, NEW c \in Waits, NEW b, b = CredentialAttached(p, c)
  PROVE  /\ IsBoth(b) /\ Same(b.page, p) /\ b.page.step = p.step
         /\ b.page.capability = p.capability
         /\ b.page.view # "done"
         /\ b.chain.at \in {"idle", "abandon", "next"}
         /\ b.chain.at = "next" =>
              b.chain.step # None /\ b.chain.session = p.session
<1> DEFINE q == [p EXCEPT !.attached = TRUE, !.view = "busy"]
<1>1. /\ q \in Page /\ Same(q, p) /\ q.step = p.step
      /\ q.capability = p.capability /\ q.view = "busy"
  BY DEF Page, Same
<1>2. \/ b = Throw(q, c)
      \/ /\ q.session # "none" /\ q.step # None
         /\ b = AnswerWizard(q, c, q.step)
  BY DEF CredentialAttached
<1> HIDE DEF q
<1>3. CASE b = Throw(q, c)
  BY <1>1, <1>3, ThrowOutcome DEF Same
<1>4. CASE /\ q.session # "none" /\ q.step # None
           /\ b = AnswerWizard(q, c, q.step)
  <2>1. q.step \in Step
    BY <1>1, <1>4 DEF Page
  <2> QED
    BY <1>1, <1>4, <2>1, AnswerOutcome DEF Same
<1> QED
  BY <1>2, <1>3, <1>4

-----------------------------------------------------------------------------
(***************************************************************************)
(* Steps of one chain.                                                     *)
(***************************************************************************)
PageInv ==
  /\ page \in Page /\ chain \in [AllChains -> Waits]
  /\ CallsAreOfSession /\ MainStarts /\ FirstRuntime

\* What a chain may do to the page without starting a Wizard too early.
Harmless(f, b) ==
  /\ b.page.recoveries = page.recoveries
  /\ b.page.recovering => page.recovering
  /\ page.session = "live" => b.page.session = "live"
  /\ b.chain.at = "next" =>
       /\ b.chain.step # None
       /\ b.chain.session = "live" => b.page.session = "live"
  /\ b.chain.at \in {"start", "reattach"} => f = Main \/ page.recoveries # 0
  /\ b.chain.at = "reattach" => b.chain.cap # None /\ page.recoveries # 0
StartsFirst(f, b) ==
  LET starts == b.chain.at = "start" \/ (f # Main /\ chain[Main].at = "start") IN
  page.recoveries = 0 =>
    /\ starts => b.page.started
    /\ ~b.page.started =>
         IF f = Main THEN b.chain.at = "idle" ELSE chain[Main].at = "idle"
    /\ starts \/ ~b.page.started =>
         /\ NothingShown
         /\ b.page.step = None /\ b.page.capability = None
         /\ b.chain.at \notin {"next", "attach"}

LEMMA RunKeeps ==
  ASSUME PageInv, NEW f \in AllChains, NEW b, IsBoth(b), Run(f, b),
         Harmless(f, b), StartsFirst(f, b)
  PROVE  PageInv'
<1>1. /\ page' = b.page /\ chain' = [chain EXCEPT ![f] = b.chain]
      /\ page \in Page /\ chain \in [AllChains -> Waits]
      /\ b.page \in Page /\ b.chain \in Waits
  BY DEF PageInv, IsBoth, Run
<1>2. /\ page' \in Page /\ chain' \in [AllChains -> Waits]
      /\ chain'[f] = b.chain
      /\ \A g \in AllChains : g # f => chain'[g] = chain[g]
  BY <1>1
<1>3. CallsAreOfSession'
  BY <1>1, <1>2 DEF PageInv, CallsAreOfSession, Harmless
<1>4. MainStarts'
  BY <1>1, <1>2 DEF PageInv, MainStarts, Harmless
<1>5. FirstRuntime'
  <2> SUFFICES ASSUME page'.recoveries = 0
               PROVE  /\ ~page'.recovering /\ chain'[Main].at # "reattach"
                      /\ chain'[Main].at = "start" => page'.started
                      /\ ~page'.started => chain'[Main].at = "idle"
                      /\ ~page'.started \/ chain'[Main].at = "start"
                           => NothingShown'
    BY DEF FirstRuntime
  <2>1. /\ page.recoveries = 0 /\ Main \in AllChains
        /\ ~page.recovering /\ chain[Main].at # "reattach"
    BY <1>1 DEF Harmless, PageInv, FirstRuntime, AllChains
  <2>2. ~page'.recovering /\ chain'[Main].at # "reattach"
    BY <1>1, <1>2, <2>1 DEF Harmless
  <2>3. chain'[Main].at = "start" =>
          b.chain.at = "start" \/ (f # Main /\ chain[Main].at = "start")
    BY <1>2, <2>1
  <2>4. chain'[Main].at = "start" => page'.started
    BY <1>1, <2>1, <2>3 DEF StartsFirst
  <2>5. ASSUME ~page'.started \/ chain'[Main].at = "start"
        PROVE  NothingShown'
    <3>1. /\ NothingShown /\ page'.step = None /\ page'.capability = None
          /\ b.chain.at \notin {"next", "attach"}
      BY <1>1, <2>1, <2>3, <2>5 DEF StartsFirst
    <3> QED
      BY <1>2, <3>1 DEF NothingShown
  <2>6. ~page'.started => chain'[Main].at = "idle"
    BY <1>1, <1>2, <2>1 DEF StartsFirst
  <2> QED
    BY <2>2, <2>4, <2>5, <2>6
<1> QED
  BY <1>2, <1>3, <1>4, <1>5 DEF PageInv

\* Most steps neither show a step nor enter a credential.
LEMMA QuietKeeps ==
  ASSUME PageInv, NEW f \in AllChains, NEW b, IsBoth(b), Run(f, b),
         Same(b.page, page), b.page.step = page.step,
         b.page.capability \in {page.capability, None},
         f \in Chain \/ chain[f].at # "idle",
         b.chain.at \notin {"next", "attach", "start", "reattach"}
  PROVE  PageInv'
<1>1. Harmless(f, b)
  BY DEF Harmless, Same
<1>2. f = Main => chain[f].at # "idle"
  BY OnboardingAssumption
<1>3. StartsFirst(f, b)
  BY <1>2 DEF StartsFirst, PageInv, FirstRuntime, NothingShown, Same
<1> QED
  BY <1>1, <1>3, RunKeeps

\* Where no Wizard has started in the first runtime there is nothing to
\* answer and nothing to attach.
LEMMA ShownHasStarted ==
  ASSUME PageInv, page.recoveries = 0,
         \/ page.step # None \/ page.capability # None
         \/ \E f \in AllChains : chain[f].at \in {"next", "attach"}
  PROVE  page.started /\ chain[Main].at # "start"
<1>1. ~NothingShown
  BY DEF NothingShown
<1>2. page.started \in BOOLEAN
  BY DEF PageInv, Page
<1> QED
  BY <1>1, <1>2 DEF PageInv, FirstRuntime

\* A step is shown, or a call of the Wizard or for its model is made, once
\* the Wizard has started.
LEMMA ShowingKeeps ==
  ASSUME PageInv, NEW f \in AllChains, NEW b, IsBoth(b), Run(f, b),
         Same(b.page, page),
         b.chain.at \notin {"start", "reattach"},
         b.chain.at = "next" =>
           b.chain.step # None /\ b.chain.session = page.session,
         \/ page.step # None \/ page.capability # None
         \/ chain[f].at \in {"next", "attach"}
  PROVE  PageInv'
<1>1. Harmless(f, b)
  BY DEF Harmless, Same
<1>2. page.recoveries = 0 => page.started /\ chain[Main].at # "start"
  BY ShownHasStarted
<1>3. StartsFirst(f, b)
  BY <1>2 DEF StartsFirst, Same
<1> QED
  BY <1>1, <1>3, RunKeeps

\* When a step starts a Wizard, and when it reports a finished setup.
StartsWithModel ==
  \A f \in AllChains :
    /\ chain'[f].at = "start" /\ chain[f].at # "start"
    /\ page'.capability # None
    => \/ runtime'.attached # None
       \/ page'.recoveries # 0 /\ runtime'.replaced
DoneConfigured ==
  page'.view = "done" /\ page.view # "done" /\ page'.capability # None
    => runtime'.configured

LEMMA RunIsCareful ==
  ASSUME PageInv, NEW f \in AllChains, NEW b, IsBoth(b), Run(f, b),
         b.chain.at = "start" => chain[f].at = "start",
         b.page.view = "done" => page.view = "done" \/ b.page.capability = None
  PROVE  StartsWithModel /\ DoneConfigured
<1>1. /\ page' = b.page /\ chain'[f] = b.chain
      /\ \A g \in AllChains : g # f => chain'[g] = chain[g]
  BY DEF PageInv, Run
<1> QED
  BY <1>1 DEF StartsWithModel, DoneConfigured

LEMMA FreeChain ==
  ASSUME NEW kind, Begins(kind)
  PROVE  Free \in Chain /\ Free \in AllChains
BY DEF Begins, Free, AllChains

LEMMA UserKeeps ==
  ASSUME OnboardingInv, User
  PROVE  PageInv' /\ StartsWithModel /\ DoneConfigured
<1>1. /\ PageInv /\ page \in Page /\ chain \in [AllChains -> Waits]
      /\ Same(page, page)
  BY DEF OnboardingInv, TypeOK, PageInv, Same
<1>2. CASE Answer
  <2> DEFINE b == AnswerWizard(page, Idle, page.step)
  <2>1. /\ Free \in AllChains /\ page.session # "none" /\ page.step # None
        /\ page.step \in Step /\ Run(Free, b)
    BY <1>1, <1>2, FreeChain DEF Answer, Page
  <2>2. /\ IsBoth(b) /\ Same(b.page, page)
        /\ b.chain.at = "next" /\ b.chain.step # None
        /\ b.chain.session = page.session
        /\ b.page.view = "done" => page.view = "done"
    BY <1>1, <2>1, IdleType, AnswerOutcome
  <2> HIDE DEF b
  <2> QED
    BY <1>1, <2>1, <2>2, ShowingKeeps, RunIsCareful
<1>3. CASE SubmitApiKey
  <2> DEFINE b == Both([page EXCEPT !.view = "key", !.failed = FALSE],
                       [Idle EXCEPT !.at = "issue", !.kind = "key"])
  <2>1. Free \in Chain /\ Free \in AllChains /\ Run(Free, b)
    BY <1>3, FreeChain DEF SubmitApiKey
  <2>2. /\ b.page \in Page /\ Same(b.page, page) /\ b.page.step = page.step
        /\ b.page.capability = page.capability /\ b.page.view # "done"
    BY <1>1 DEF Both, Page, Same, Adapter
  <2>3. b.chain \in Waits /\ b.chain.at = "issue"
    BY IdleType DEF Both, Waits, Awaited
  <2> HIDE DEF b
  <2> QED
    BY <1>1, <2>1, <2>2, <2>3, QuietKeeps, RunIsCareful DEF IsBoth
<1>4. CASE StartDeviceAuthorization
  <2> DEFINE b == Both([page EXCEPT !.view = "oauth", !.failed = FALSE],
                       [Idle EXCEPT !.at = "device", !.kind = "oauth"])
  <2>1. Free \in Chain /\ Free \in AllChains /\ Run(Free, b)
    BY <1>4, FreeChain DEF StartDeviceAuthorization
  <2>2. /\ b.page \in Page /\ Same(b.page, page) /\ b.page.step = page.step
        /\ b.page.capability = page.capability /\ b.page.view # "done"
    BY <1>1 DEF Both, Page, Same, Adapter
  <2>3. b.chain \in Waits /\ b.chain.at = "device"
    BY IdleType DEF Both, Waits, Awaited
  <2> HIDE DEF b
  <2> QED
    BY <1>1, <2>1, <2>2, <2>3, QuietKeeps, RunIsCareful DEF IsBoth
<1>5. CASE ShowCredentialMethods
  <2>1. /\ page' \in Page /\ Same(page', page) /\ page'.step = page.step
        /\ page'.capability = page.capability /\ page'.view # "done"
    BY <1>1, <1>5 DEF ShowCredentialMethods, Page, Same, Adapter, None
  <2>2. ASSUME NEW f \in AllChains
        PROVE  [chain[f] EXCEPT !.live = FALSE] \in Waits
    BY ZenonT(40), <1>1 DEF Waits
  <2>3. chain' \in [AllChains -> Waits]
    BY <1>1, <1>5, <2>2 DEF ShowCredentialMethods
  <2>4. ASSUME NEW f \in AllChains
        PROVE  /\ chain'[f].at = chain[f].at /\ chain'[f].step = chain[f].step
               /\ chain'[f].session = chain[f].session
               /\ chain'[f].cap = chain[f].cap
    <3>1. chain[f] \in Waits
      BY <1>1
    <3>2. chain'[f] = chain[f] \/ chain'[f] = [chain[f] EXCEPT !.live = FALSE]
      BY <1>5 DEF ShowCredentialMethods
    <3> QED
      BY <3>1, <3>2 DEF Waits
  <2>5. CallsAreOfSession' /\ MainStarts'
    BY <1>1, <2>1, <2>4 DEF PageInv, CallsAreOfSession, MainStarts, Same
  <2>6. FirstRuntime'
    <3>1. Main \in AllChains
      BY DEF AllChains
    <3>2. NothingShown => NothingShown'
      BY <2>1, <2>4 DEF NothingShown
    <3> QED
      BY <1>1, <2>1, <2>4, <3>1, <3>2 DEF PageInv, FirstRuntime, Same
  <2>7. StartsWithModel /\ DoneConfigured
    BY <2>1, <2>4 DEF StartsWithModel, DoneConfigured
  <2> QED
    BY <2>1, <2>3, <2>5, <2>6, <2>7 DEF PageInv
<1>6. CASE RetryFinish
  <2> DEFINE b == FinishWizard(page, Idle)
  <2>1. Free \in Chain /\ Free \in AllChains /\ Run(Free, b)
    BY <1>6, FreeChain DEF RetryFinish
  <2>2. /\ IsBoth(b) /\ Same(b.page, page) /\ b.page.step = page.step
        /\ b.page.capability = page.capability
        /\ b.chain.at \in {"idle", "configure"}
        /\ b.page.view = "done" => page.view = "done" \/ b.page.capability = None
    BY <1>1, IdleType, FinishOutcome
  <2> HIDE DEF b
  <2> QED
    BY <1>1, <2>1, <2>2, QuietKeeps, RunIsCareful
<1>7. CASE Revoke
  <2> DEFINE b == Both(page, [Idle EXCEPT !.at = "revoke", !.cap = Admin(page)])
  <2>1. Free \in Chain /\ Free \in AllChains /\ Run(Free, b)
    BY <1>7, FreeChain DEF Revoke
  <2>2. b.chain \in Waits /\ b.chain.at = "revoke"
    BY <1>1, IdleType DEF Both, Waits, Awaited, Admin, Page
  <2>3. b.page = page
    BY DEF Both
  <2> HIDE DEF b
  <2> QED
    BY <1>1, <2>1, <2>2, <2>3, QuietKeeps, RunIsCareful DEF IsBoth
<1>8. CASE PageHide
  <2>1. /\ page' \in Page /\ Same(page', page) /\ page'.step = page.step
        /\ page'.capability = None
    BY <1>1, <1>8 DEF PageHide, Page, Same, None
  <2>2. chain' = [f \in AllChains |-> Idle]
    BY <1>8 DEF PageHide
  <2>3. \A f \in AllChains : chain'[f] \in Waits /\ chain'[f].at = "idle"
    BY <2>2, IdleType
  <2>4. chain' \in [AllChains -> Waits]
    BY <2>2, IdleType
  <2>5. CallsAreOfSession' /\ MainStarts'
    BY <2>3 DEF CallsAreOfSession, MainStarts
  <2>6. FirstRuntime'
    <3>1. Main \in AllChains
      BY DEF AllChains
    <3>2. page.recoveries = 0 /\ ~page.started => page.step = None
      BY <1>1 DEF PageInv, FirstRuntime, NothingShown
    <3> QED
      BY <1>1, <2>1, <2>3, <3>1, <3>2
      DEF PageInv, FirstRuntime, NothingShown, Same
  <2>7. StartsWithModel /\ DoneConfigured
    BY <2>1, <2>3 DEF StartsWithModel, DoneConfigured
  <2> QED
    BY <2>1, <2>4, <2>5, <2>6, <2>7 DEF PageInv
<1> QED
  BY <1>2, <1>3, <1>4, <1>5, <1>6, <1>7, <1>8 DEF User

\* The Gateway is ready: the page reattaches its capability, or starts the
\* Wizard; in the first runtime there is no capability yet.
LEMMA ReadyKeeps ==
  ASSUME OnboardingInv, GatewayReady
  PROVE  /\ PageInv'
         /\ \A f \in AllChains :
              chain'[f].at = "start" /\ chain[f].at # "start" =>
                \/ page'.capability = None
                \/ page'.recoveries # 0 /\ runtime'.replaced
         /\ page'.view = "done" => page.view = "done"
<1> DEFINE p == [page EXCEPT !.boot = "ready"]
           q == [p EXCEPT !.recovering = FALSE]
           n == ResumeWizardAfterGatewayReady(p)
           r == [Post(Idle, "reattach") EXCEPT !.cap = p.capability]
<1>1. /\ PageInv /\ page \in Page /\ chain \in [AllChains -> Waits]
      /\ Main \in AllChains /\ runtime.state = "booting"
  BY DEF OnboardingInv, TypeOK, PageInv, GatewayReady, AllChains
<1>2. /\ page' = n.page /\ runtime'.replaced = runtime.replaced
      /\ n.chain = Idle => chain' = chain
      /\ n.chain # Idle =>
           \E f \in AllChains : Resumes(f) /\ chain' = [chain EXCEPT ![f] = n.chain]
  <2>1. runtime' = [runtime EXCEPT !.state = "ready"] /\ runtime \in Runtime
    BY DEF GatewayReady, OnboardingInv, TypeOK
  <2>2. runtime'.replaced = runtime.replaced
    BY <2>1 DEF Runtime
  <2> QED
    BY <2>2 DEF GatewayReady
<1>3. /\ p \in Page /\ p.capability = page.capability
      /\ p.recovering = page.recovering /\ q \in Page
      /\ q.session = page.session /\ q.started = page.started
      /\ q.recoveries = page.recoveries /\ ~q.recovering
      /\ q.step = page.step /\ q.capability = page.capability
      /\ q.view = page.view
  BY <1>1 DEF Page
<1>4. n = IF page.recovering /\ page.capability # None
          THEN Both(q, r) ELSE StartWizard(q, Idle)
  BY <1>3 DEF ResumeWizardAfterGatewayReady
<1>5. r \in Waits /\ r.at = "reattach" /\ r.cap = page.capability
  <2>1. Post(Idle, "reattach") \in Waits /\ Post(Idle, "reattach").at = "reattach"
    BY IdleType, PostType DEF Awaited, Posted
  <2>2. page.capability \in Capability \cup {None}
    BY <1>1 DEF Page
  <2> QED
    BY <1>3, <2>1, <2>2 DEF Waits
<1> HIDE DEF p, q, n, r
<1>6. PICK f \in AllChains :
        IF n.chain = Idle THEN f = Main /\ chain' = chain
        ELSE Resumes(f) /\ chain' = [chain EXCEPT ![f] = n.chain]
  BY <1>1, <1>2
<1> DEFINE b == Both(n.page, chain'[f])
<1>61. Run(f, b) /\ \A g \in AllChains : g # f => chain'[g] = chain[g]
  BY <1>1, <1>2, <1>6 DEF Run, Both
<1>7. page.recoveries # 0 => page.recovering \/ runtime'.replaced
  BY <1>1, <1>2 DEF OnboardingInv, LaterRuntimes
<1>8. page.recoveries = 0 => ~page.recovering /\ chain[Main].at # "reattach"
  BY <1>1 DEF PageInv, FirstRuntime
<1>9. CASE page.recovering /\ page.capability # None
  <2>1. n.page = q /\ n.chain = r /\ r # Idle
    BY <1>4, <1>5, <1>9, IdleType DEF Both
  <2>2. b.page = q /\ b.chain = r
    BY <1>1, <1>6, <2>1 DEF Both
  <2> HIDE DEF b
  <2>3. IsBoth(b) /\ chain'[f] = r
    BY <1>1, <1>6, <1>3, <1>5, <2>1, <2>2 DEF IsBoth
  <2>4. Harmless(f, b)
    BY <1>3, <1>5, <1>8, <1>9, <2>2 DEF Harmless
  <2>5. StartsFirst(f, b)
    BY <1>3, <1>8, <1>9, <2>2 DEF StartsFirst
  <2>6. PageInv'
    BY <1>1, <1>61, <2>3, <2>4, <2>5, RunKeeps
  <2> QED
    BY <1>2, <1>3, <1>5, <1>61, <2>1, <2>3, <2>6
<1>10. CASE ~(page.recovering /\ page.capability # None)
  <2>1. n = StartWizard(q, Idle)
    BY <1>4, <1>10
  <2>2. /\ IsBoth(n) /\ n.page.session = page.session
        /\ n.page.recoveries = page.recoveries /\ ~n.page.recovering
        /\ n.page.step = page.step /\ n.page.capability = page.capability
        /\ n.page.view = "done" => page.view = "done"
    BY <1>3, <2>1, IdleType, StartOutcome
  <2>3. /\ n.page.started
        /\ \/ n.chain = Idle /\ page.started
           \/ n.chain.at = "start" /\ ~page.started
    BY <1>3, <2>1, IdleType, StartOutcome
  <2>4. /\ n.page.view = "done" => page.view = "done"
    BY <1>3, <2>1, IdleType, StartOutcome
  <2>5. page.capability # None =>
          page.started \/ (page.recoveries # 0 /\ runtime'.replaced)
    BY <1>1, <1>7, <1>10, ShownHasStarted
  <2>6. CASE n.chain = Idle
    <3>1. chain' = chain /\ b.page = n.page /\ b.chain = chain[Main] /\ f = Main
      BY <1>6, <2>6 DEF Both
    <3> HIDE DEF b
    <3>2. IsBoth(b)
      BY <1>1, <2>2, <3>1 DEF IsBoth
    <3>3. Harmless(f, b)
      BY <1>1, <1>8, <2>2, <3>1
      DEF Harmless, PageInv, CallsAreOfSession, MainStarts
    <3>4. StartsFirst(f, b)
      BY <1>1, <2>2, <2>3, <3>1
      DEF StartsFirst, PageInv, FirstRuntime, NothingShown
    <3>5. PageInv'
      BY <1>1, <1>61, <3>2, <3>3, <3>4, RunKeeps
    <3> QED
      BY <1>2, <2>4, <3>1, <3>5
  <2>7. CASE n.chain.at = "start" /\ ~page.started
    <3>1. n.chain # Idle
      BY <2>7, IdleType
    <3>2. /\ chain'[f] = n.chain /\ b.page = n.page /\ b.chain = n.chain
          /\ page.recoveries = 0 => f = Main
      <4>1. page.recoveries = 0 => chain[Main].at = "idle"
        BY <1>1, <2>7 DEF PageInv, FirstRuntime
      <4> QED
        BY <1>1, <1>6, <3>1, <4>1 DEF Both, Resumes
    <3> HIDE DEF b
    <3>3. IsBoth(b)
      BY <2>2, <3>2 DEF IsBoth
    <3>4. Harmless(f, b)
      BY <2>2, <2>7, <3>2 DEF Harmless
    <3>5. StartsFirst(f, b)
      BY <1>1, <2>2, <2>3, <2>7, <3>2
      DEF StartsFirst, PageInv, FirstRuntime, NothingShown
    <3>6. PageInv'
      BY <1>1, <1>61, <3>3, <3>4, <3>5, RunKeeps
    <3>7. page.capability = None \/ (page.recoveries # 0 /\ runtime'.replaced)
      BY <2>5, <2>7
    <3> QED
      BY <1>2, <1>61, <2>2, <2>4, <3>6, <3>7
  <2> QED
    BY <2>3, <2>6, <2>7
<1> QED
  BY <1>9, <1>10

LEMMA BootFailsKeeps ==
  ASSUME OnboardingInv, BootFails
  PROVE  PageInv'
<1>1. PageInv /\ page \in Page /\ chain \in [AllChains -> Waits] /\ chain' = chain
  BY DEF OnboardingInv, TypeOK, PageInv, BootFails
<1>2. /\ page' \in Page /\ Same(page', page) /\ page'.step = page.step
      /\ page'.capability = page.capability
  <2>1. CASE page.started
    BY <1>1, <2>1 DEF BootFails, Same
  <2>2. CASE ~page.started
    <3> DEFINE e == ShowError(page)
    <3>1. /\ e \in Page /\ Same(e, page) /\ e.step = page.step
          /\ e.capability = page.capability
      BY <1>1, ErrorPage
    <3>2. page' = [e EXCEPT !.boot = "failed"]
      BY <2>2 DEF BootFails
    <3> HIDE DEF e
    <3> QED
      BY <3>1, <3>2 DEF Page, Same
  <2> QED
    BY <2>1, <2>2
<1>3. NothingShown => NothingShown'
  BY <1>1, <1>2 DEF NothingShown
<1> QED
  BY <1>1, <1>2, <1>3
  DEF PageInv, CallsAreOfSession, MainStarts, FirstRuntime, Same

LEMMA ReplacedKeeps ==
  ASSUME OnboardingInv, GatewayReplaced
  PROVE  PageInv'
<1>1. PageInv /\ page \in Page /\ chain \in [AllChains -> Waits]
  BY DEF OnboardingInv, TypeOK, PageInv
<1>2. /\ page' \in Page /\ page'.session # "live"
      /\ page'.started = page.started /\ page'.recovering = page.recovering
      /\ page'.recoveries = page.recoveries
      /\ page'.step = page.step /\ page'.capability = page.capability
  BY <1>1 DEF GatewayReplaced, Page
<1>3. ASSUME NEW f \in AllChains
      PROVE  [chain[f] EXCEPT !.session = "dead"] \in Waits
  BY <1>1 DEF Waits
<1>4. chain' \in [AllChains -> Waits]
  BY <1>1, <1>3 DEF GatewayReplaced
<1>5. ASSUME NEW f \in AllChains
      PROVE  /\ chain'[f].at = chain[f].at /\ chain'[f].step = chain[f].step
             /\ chain'[f].cap = chain[f].cap
             /\ chain'[f].at = "next" => chain'[f].session = "dead"
  <2>1. chain[f] \in Waits
    BY <1>1
  <2>2. chain'[f] = IF chain[f].at = "next"
                    THEN [chain[f] EXCEPT !.session = "dead"] ELSE chain[f]
    BY DEF GatewayReplaced
  <2> QED
    BY <2>1, <2>2 DEF Waits
<1>6. CallsAreOfSession' /\ MainStarts'
  BY <1>1, <1>2, <1>5 DEF PageInv, CallsAreOfSession, MainStarts
<1>7. FirstRuntime'
  <2>1. Main \in AllChains
    BY DEF AllChains
  <2>2. NothingShown => NothingShown'
    BY <1>2, <1>5 DEF NothingShown
  <2> QED
    BY <1>1, <1>2, <1>5, <2>1, <2>2 DEF PageInv, FirstRuntime
<1> QED
  BY <1>2, <1>4, <1>6, <1>7 DEF PageInv

\* The runtime's answer.
LEMMA MaxOfTwo ==
  ASSUME NEW a \in Nat, NEW b \in Nat
  PROVE  Max({a, b}) \in {a, b} /\ Max({a, b}) >= a /\ Max({a, b}) >= b
<1>1. \E x \in {a, b} : \A y \in {a, b} : x >= y
  <2>1. CASE a >= b
    BY <2>1
  <2>2. CASE b >= a
    BY <2>2
  <2> QED
    BY <2>1, <2>2
<1> DEFINE m == CHOOSE x \in {a, b} : \A y \in {a, b} : x >= y
<1>2. m \in {a, b} /\ \A y \in {a, b} : m >= y
  BY <1>1
<1>3. Max({a, b}) = m
  BY DEF Max
<1> QED
  BY <1>2, <1>3

LEMMA Effects ==
  ASSUME TypeOK, NEW c \in Waits, c.at \in Posted,
         c.at = "next" => c.step # None
  PROVE  /\ Effect(c) \in Runtime /\ Effect(c).state = runtime.state
         /\ Effect(c).replaced = runtime.replaced
         /\ c.at = "start" => Effect(c).wizard \in 1 .. Done
         /\ c.at = "reattach" => Effect(c).attached = c.cap
         /\ c.at = "configure" => Effect(c).configured
<1>1. runtime \in Runtime /\ runtime.wizard \in 0 .. Done /\ Len(Script) \in Nat
  BY OnboardingAssumption DEF TypeOK, Runtime
<1>2. CASE c.at = "start"
  <2> DEFINE w == Max({runtime.wizard, 1})
  <2>1. runtime.wizard \in Nat /\ 1 \in Nat /\ Done \in Nat /\ Done >= 1
    BY <1>1 DEF Done
  <2>2. w \in {runtime.wizard, 1} /\ w >= 1
    BY <2>1, MaxOfTwo
  <2>3. Effect(c) = [runtime EXCEPT !.wizard = w]
    BY <1>2 DEF Effect
  <2> HIDE DEF w
  <2>4. w \in 1 .. Done
    BY <1>1, <2>1, <2>2
  <2>5. w \in 0 .. Done
    BY <2>1, <2>4
  <2> QED
    BY <1>1, <1>2, <2>3, <2>4, <2>5 DEF Runtime
<1>3. CASE c.at = "next"
  <2> DEFINE w == Max({runtime.wizard, c.step + 1})
  <2>1. c.step \in Step
    BY <1>3 DEF Waits
  <2>2. runtime.wizard \in Nat /\ c.step + 1 \in 0 .. Done /\ c.step + 1 \in Nat
    BY <1>1, <2>1 DEF Done, Step
  <2>3. w \in {runtime.wizard, c.step + 1}
    BY <2>2, MaxOfTwo
  <2>4. Effect(c) = [runtime EXCEPT !.wizard = w]
    BY <1>3 DEF Effect
  <2> HIDE DEF w
  <2>5. w \in 0 .. Done
    BY <1>1, <2>2, <2>3
  <2> QED
    BY <1>1, <1>3, <2>4, <2>5 DEF Runtime
<1>4. CASE c.at = "configure"
  BY <1>1, <1>4 DEF Effect, Runtime
<1>5. CASE c.at \in {"attach", "reattach"}
  <2>1. Effect(c) = [runtime EXCEPT !.attached = c.cap]
    BY <1>5 DEF Effect
  <2>2. c.cap \in Capability \cup {None}
    BY DEF Waits
  <2> QED
    BY <1>1, <1>5, <2>1, <2>2 DEF Runtime
<1> QED
  BY <1>2, <1>3, <1>4, <1>5 DEF Posted

\* What a chain does with an answer.
GoesOn(f) ==
  LET c == chain[f] IN
  CASE c.at = "start" ->
         HandleWizardResult([page EXCEPT !.session = "live"], c, runtime'.wizard)
    [] c.at = "next" -> HandleWizardResult(page, c, c.step + 1)
    [] c.at = "attach" -> CredentialAttached(page, c)
    [] c.at = "reattach" -> StartWizard([page EXCEPT !.attached = TRUE], c)
    [] c.at = "configure" -> Both(ShowDone(page), Idle)

LEMMA AnsweredKeeps ==
  ASSUME OnboardingInv, NEW f \in AllChains, Answered(f)
  PROVE  /\ PageInv'
         /\ chain'[f].at = "start" /\ chain[f].at # "start" =>
              runtime'.attached # None
         /\ page'.view = "done" =>
              \/ page.view = "done" \/ page'.capability = None
              \/ runtime'.configured
<1> DEFINE c == chain[f]
           b == GoesOn(f)
<1>1. /\ PageInv /\ TypeOK /\ page \in Page /\ chain \in [AllChains -> Waits]
      /\ c \in Waits /\ c.at \in Posted /\ runtime' = Effect(c)
      /\ c.at = "next" => c.step # None
  BY DEF OnboardingInv, TypeOK, PageInv, Answered, Reaches, CallsAreOfSession
<1>2. Run(f, b) /\ page' = b.page /\ chain'[f] = b.chain
  <2>1. Run(f, b)
    BY DEF Answered, GoesOn
  <2> HIDE DEF b
  <2> QED
    BY <1>1, <2>1 DEF Run
<1>3. CASE c.at = "start"
  <2> DEFINE p == [page EXCEPT !.session = "live"]
  <2>1. /\ p \in Page /\ p.session = "live" /\ p.started = page.started
        /\ p.recoveries = page.recoveries /\ p.recovering = page.recovering
        /\ p.view = page.view
    BY <1>1 DEF Page
  <2>2. runtime'.wizard \in 1 .. Done
    BY <1>1, <1>3, Effects
  <2>3. b = HandleWizardResult(p, c, runtime'.wizard)
    BY <1>3 DEF GoesOn
  <2> HIDE DEF p, b, c
  <2>4. /\ IsBoth(b) /\ Same(b.page, p)
        /\ b.page.view = "done" => page.view = "done" \/ b.page.capability = None
        /\ b.chain.at \in {"idle", "configure", "next"}
        /\ b.chain.at = "next" =>
             b.chain.step # None /\ b.chain.session = "live"
    BY <1>1, <2>1, <2>2, <2>3, ResultOutcome
  <2>5. Harmless(f, b)
    BY <2>1, <2>4 DEF Harmless, Same
  <2>6. page.recoveries = 0 => f = Main /\ page.started
    BY <1>1, <1>3 DEF PageInv, MainStarts, FirstRuntime, c
  <2>7. StartsFirst(f, b)
    BY <2>1, <2>4, <2>6 DEF StartsFirst, Same
  <2>8. PageInv'
    BY <1>1, <1>2, <2>4, <2>5, <2>7, RunKeeps
  <2> QED
    BY <1>2, <2>4, <2>8
<1>4. CASE c.at = "next"
  <2>1. c.step + 1 \in 1 .. Done
    BY <1>1, <1>4, OnboardingAssumption DEF Waits, Step, Done
  <2>2. page.session # "none"
    <3>1. c.session = "live"
      BY <1>4 DEF Answered, Accepts
    <3> QED
      BY <1>1, <1>4, <3>1 DEF PageInv, CallsAreOfSession
  <2>3. b = HandleWizardResult(page, c, c.step + 1)
    BY <1>4 DEF GoesOn
  <2> HIDE DEF b
  <2>4. /\ IsBoth(b) /\ Same(b.page, page)
        /\ b.page.view = "done" => page.view = "done" \/ b.page.capability = None
        /\ b.chain.at \in {"idle", "configure", "next"}
        /\ b.chain.at = "next" =>
             b.chain.step # None /\ b.chain.session = page.session
    BY <1>1, <2>1, <2>2, <2>3, ResultOutcome
  <2>5. PageInv'
    BY <1>1, <1>2, <1>4, <2>4, ShowingKeeps
  <2> QED
    BY <1>2, <2>4, <2>5
<1>5. CASE c.at = "attach"
  <2>1. b = CredentialAttached(page, c)
    BY <1>5 DEF GoesOn
  <2> HIDE DEF b
  <2>2. /\ IsBoth(b) /\ Same(b.page, page) /\ b.page.view # "done"
        /\ b.chain.at \in {"idle", "abandon", "next"}
        /\ b.chain.at = "next" =>
             b.chain.step # None /\ b.chain.session = page.session
    BY <1>1, <2>1, AttachedOutcome
  <2>3. PageInv'
    BY <1>1, <1>2, <1>5, <2>2, ShowingKeeps
  <2> QED
    BY <1>2, <2>2, <2>3
<1>6. CASE c.at = "reattach"
  <2> DEFINE p == [page EXCEPT !.attached = TRUE]
  <2>1. /\ p \in Page /\ p.session = page.session /\ p.started = page.started
        /\ p.recoveries = page.recoveries /\ p.recovering = page.recovering
        /\ p.step = page.step /\ p.capability = page.capability
        /\ p.view = page.view
    BY <1>1 DEF Page
  <2>2. b = StartWizard(p, c)
    BY <1>6 DEF GoesOn
  <2>3. c.cap # None /\ page.recoveries # 0
    BY <1>1, <1>6 DEF PageInv, MainStarts, FirstRuntime
  <2>4. runtime'.attached # None
    BY <1>1, <1>6, <2>3, Effects
  <2> HIDE DEF p, b, c
  <2>5. /\ IsBoth(b) /\ b.page.session = page.session
        /\ b.page.recoveries = page.recoveries
        /\ b.page.recovering = page.recovering
        /\ b.page.view = "done" => page.view = "done"
        /\ b.chain.at \in {"idle", "start"}
    BY <1>1, <2>1, <2>2, StartOutcome, IdleType
  <2>6. Harmless(f, b)
    BY <2>3, <2>5 DEF Harmless
  <2>7. StartsFirst(f, b)
    BY <2>3 DEF StartsFirst
  <2>8. PageInv'
    BY <1>1, <1>2, <2>5, <2>6, <2>7, RunKeeps
  <2> QED
    BY <1>2, <2>4, <2>5, <2>8
<1>7. CASE c.at = "configure"
  <2>1. b.page = ShowDone(page) /\ b.chain = Idle
    BY <1>7 DEF GoesOn, Both
  <2> HIDE DEF b
  <2>2. /\ ShowDone(page) \in Page /\ Same(ShowDone(page), page)
        /\ ShowDone(page).step = page.step
        /\ ShowDone(page).capability = page.capability
    BY <1>1 DEF ShowDone, Page, Same
  <2>3. PageInv'
    BY <1>1, <1>2, <1>7, <2>1, <2>2, IdleType, QuietKeeps DEF IsBoth
  <2>4. runtime'.configured
    BY <1>1, <1>7, Effects
  <2> QED
    BY <1>2, <2>1, <2>3, <2>4, IdleType
<1> QED
  BY <1>1, <1>3, <1>4, <1>5, <1>6, <1>7 DEF Posted

LEMMA OneMore ==
  ASSUME NEW n \in 0 .. MaxRecoveries, n < MaxRecoveries
  PROVE  n + 1 \in 0 .. MaxRecoveries /\ n + 1 # 0
BY OnboardingAssumption

\* A recovery: whatever the old runtime was asked is answered by nobody.
LEMMA RecoveryKeeps ==
  ASSUME OnboardingInv, NEW f \in AllChains, MayRecover(page),
         page' = RecoverDisconnectedRuntime(page),
         chain' = [g \in AllChains |->
                     IF g = f THEN Idle
                     ELSE IF chain[g].at \notin Posted THEN chain[g]
                     ELSE [chain[g] EXCEPT
                             !.frame = IF @ = "current" THEN "gone" ELSE @,
                             !.session = IF chain[g].at = "next"
                                         THEN "dead" ELSE @]]
  PROVE  /\ PageInv' /\ page'.recovering /\ page'.view # "done"
         /\ \A g \in AllChains : chain'[g].at \in {"idle", chain[g].at}
<1> DEFINE w == SetWizardBusy(page)
<1>1. PageInv /\ page \in Page /\ chain \in [AllChains -> Waits]
  BY DEF OnboardingInv, TypeOK, PageInv
<1>2. /\ w \in Page /\ w.recoveries = page.recoveries
  BY <1>1, BusyPage DEF Same
<1>3. w.view # "done"
  BY <1>1 DEF SetWizardBusy, Page, Adapter
<1>4. page' = [w EXCEPT
     !.recoveries = w.recoveries + 1, !.recovering = TRUE, !.skipping = FALSE,
     !.started = FALSE, !.session = "none", !.step = None,
     !.finishing = FALSE, !.attached = FALSE, !.failed = FALSE,
     !.boot = "running"]
  BY DEF RecoverDisconnectedRuntime
<1> HIDE DEF w
<1>5. w.recoveries + 1 \in 0 .. MaxRecoveries /\ w.recoveries + 1 # 0
  <2>1. w.recoveries \in 0 .. MaxRecoveries /\ MaxRecoveries \in Nat
    BY <1>2, OnboardingAssumption DEF Page
  <2>2. w.recoveries < MaxRecoveries
    BY <1>2 DEF MayRecover
  <2> QED
    BY <2>1, <2>2, OneMore
<1>6. /\ page' \in Page /\ page'.recovering /\ page'.recoveries # 0
      /\ page'.view # "done"
  <2>1. /\ page'.recovering /\ page'.recoveries = w.recoveries + 1
        /\ page'.view = w.view
    BY <1>2, <1>4 DEF Page
  <2>2. page' \in Page
    BY ZenonT(40), <1>2, <1>4, <1>5 DEF Page, None
  <2> QED
    BY <1>3, <1>5, <2>1, <2>2
<1>7. ASSUME NEW g \in AllChains
      PROVE  /\ chain'[g] \in Waits
             /\ chain'[g].at \in {"idle", chain[g].at}
             /\ chain'[g].at # "idle" =>
                  /\ chain'[g].step = chain[g].step /\ chain'[g].cap = chain[g].cap
                  /\ chain'[g].at = "next" => chain'[g].session = "dead"
  <2> DEFINE c == chain[g]
             fr == IF c.frame = "current" THEN "gone" ELSE c.frame
             se == IF c.at = "next" THEN "dead" ELSE c.session
             d == [c EXCEPT !.frame = fr, !.session = se]
  <2>1. chain'[g] = Idle \/ (chain'[g] = c /\ c.at \notin Posted) \/ chain'[g] = d
    OBVIOUS
  <2>2. c \in Waits
    BY <1>1
  <2>3. /\ fr \in {"current", "gone", "later"} /\ se \in {"live", "dead"}
        /\ c.at = "next" => se = "dead"
    BY <2>2 DEF Waits
  <2> HIDE DEF c, fr, se
  <2>4. /\ d \in Waits /\ d.at = c.at /\ d.step = c.step /\ d.cap = c.cap
        /\ d.session = se
    BY <2>2, <2>3 DEF Waits
  <2> HIDE DEF d
  <2>5. CASE chain'[g] = Idle
    BY <2>5, IdleType
  <2>6. CASE chain'[g] = c /\ c.at \notin Posted
    BY <2>2, <2>6 DEF Posted, c
  <2>7. CASE chain'[g] = d
    BY <2>3, <2>4, <2>7 DEF c
  <2> QED
    BY <2>1, <2>5, <2>6, <2>7
<1>8. chain' \in [AllChains -> Waits]
  <2>1. chain' = [g \in AllChains |-> chain'[g]]
    OBVIOUS
  <2> QED
    BY <1>7, <2>1
<1>9. CallsAreOfSession' /\ MainStarts'
  <2>1. ASSUME NEW g \in AllChains, chain'[g].at = "next"
        PROVE  chain'[g].step # None /\ chain'[g].session = "dead"
    BY ZenonT(40), <1>1, <1>7, <2>1 DEF PageInv, CallsAreOfSession
  <2>2. ASSUME NEW g \in AllChains, chain'[g].at = "reattach"
        PROVE  chain'[g].cap # None
    BY ZenonT(40), <1>1, <1>7, <2>2 DEF PageInv, MainStarts
  <2> QED
    BY <1>6, <2>1, <2>2 DEF CallsAreOfSession, MainStarts
<1>10. FirstRuntime'
  BY <1>6 DEF FirstRuntime
<1> QED
  BY <1>6, <1>7, <1>8, <1>9, <1>10 DEF PageInv

\* What a chain does with a failure that replaces nothing.
GivesUp(f) ==
  CASE chain[f].at = "start" ->
         Both([ShowError(page) EXCEPT !.started = FALSE], Idle)
    [] chain[f].at = "next" ->
         Both(ShowError(RenderWizardStep(page, chain[f].step)), Idle)
    [] chain[f].at = "attach" -> Both(page, [chain[f] EXCEPT !.at = "discard"])
    [] chain[f].at = "reattach" -> Both(ShowError(page), Idle)
    [] chain[f].at = "configure" ->
         Both([ShowError(page) EXCEPT !.finishing = FALSE,
                 !.view = IF @ \in Adapter THEN @ ELSE "retry"],
              Idle)

LEMMA GivesUpKeeps ==
  ASSUME OnboardingInv, NEW f \in AllChains, chain[f].at \in Posted,
         Run(f, GivesUp(f))
  PROVE  /\ PageInv' /\ page'.recovering = page.recovering
         /\ page'.recoveries = page.recoveries
         /\ page'.view = "done" => page.view = "done"
         /\ chain'[f].at # "start"
<1> DEFINE c == chain[f]
           b == GivesUp(f)
           e == ShowError(page)
<1>1. /\ PageInv /\ page \in Page /\ chain \in [AllChains -> Waits] /\ c \in Waits
  BY DEF OnboardingInv, TypeOK, PageInv
<1>2. /\ e \in Page /\ Same(e, page) /\ e.step = page.step
      /\ e.capability = page.capability /\ e.view = page.view
  BY <1>1, ErrorPage
<1>3. Run(f, b) /\ page' = b.page /\ chain'[f] = b.chain
  <2>1. Run(f, b)
    OBVIOUS
  <2> HIDE DEF b
  <2> QED
    BY <1>1, <2>1 DEF Run
<1>4. CASE c.at = "start"
  <2>1. b.page = [e EXCEPT !.started = FALSE] /\ b.chain = Idle
    BY <1>4 DEF GivesUp, Both
  <2>2. page.recoveries = 0 =>
             /\ f = Main /\ NothingShown
             /\ page.step = None /\ page.capability = None
    BY <1>1, <1>4 DEF PageInv, MainStarts, FirstRuntime, NothingShown
  <2> HIDE DEF b, e, c
  <2>3. /\ b.page \in Page /\ b.page.session = page.session /\ ~b.page.started
        /\ b.page.recoveries = page.recoveries
        /\ b.page.recovering = page.recovering
        /\ b.page.step = page.step /\ b.page.capability = page.capability
        /\ b.page.view = page.view
    BY <1>2, <2>1 DEF Page, Same
  <2>4. Harmless(f, b)
    BY <2>1, <2>3, IdleType DEF Harmless
  <2>5. StartsFirst(f, b)
    BY <2>1, <2>2, <2>3, IdleType DEF StartsFirst
  <2>6. IsBoth(b)
    BY <2>1, <2>3, IdleType DEF IsBoth
  <2>7. PageInv'
    BY <1>1, <1>3, <2>4, <2>5, <2>6, RunKeeps
  <2> QED
    BY <1>3, <2>1, <2>3, <2>7, IdleType
<1>5. CASE c.at = "next"
  <2> DEFINE r == RenderWizardStep(page, c.step)
  <2>1. b.page = ShowError(r) /\ b.chain = Idle
    BY <1>5 DEF GivesUp, Both
  <2>2. c.step \in Step
    BY <1>1, <1>5 DEF PageInv, CallsAreOfSession, Waits
  <2>3. r \in Page /\ Same(r, page) /\ r.view # "done"
    BY <1>1, <2>2, StepPage
  <2> HIDE DEF b, r
  <2>4. /\ ShowError(r) \in Page /\ Same(ShowError(r), r)
        /\ ShowError(r).view = r.view
    BY <2>3, ErrorPage
  <2>5. /\ b.page \in Page /\ Same(b.page, page) /\ b.page.view # "done"
        /\ b.chain.at = "idle" /\ b.chain \in Waits
    BY <2>1, <2>3, <2>4, IdleType DEF Same
  <2>6. PageInv'
    BY <1>1, <1>3, <1>5, <2>5, ShowingKeeps DEF IsBoth
  <2> QED
    BY <1>3, <2>5, <2>6 DEF Same
<1>6. CASE c.at = "attach"
  <2>1. b.page = page /\ b.chain = [c EXCEPT !.at = "discard"]
    BY <1>6 DEF GivesUp, Both
  <2>2. b.chain \in Waits /\ b.chain.at = "discard"
    BY <1>1, <2>1 DEF Waits, Awaited
  <2> HIDE DEF b
  <2>3. PageInv'
    BY <1>1, <1>3, <1>6, <2>1, <2>2, QuietKeeps DEF IsBoth, Same
  <2> QED
    BY <1>3, <2>1, <2>2, <2>3
<1>7. CASE c.at = "reattach"
  <2>1. b.page = e /\ b.chain = Idle
    BY <1>7 DEF GivesUp, Both
  <2> HIDE DEF b, e
  <2>2. PageInv'
    BY <1>1, <1>2, <1>3, <1>7, <2>1, IdleType, QuietKeeps DEF IsBoth
  <2> QED
    BY <1>2, <1>3, <2>1, <2>2, IdleType DEF Same
<1>8. CASE c.at = "configure"
  <2> DEFINE v == IF e.view \in Adapter THEN e.view ELSE "retry"
  <2>1. b.page = [e EXCEPT !.finishing = FALSE, !.view = v] /\ b.chain = Idle
    BY <1>8 DEF GivesUp, Both
  <2> HIDE DEF b, e
  <2>2. v \in Adapter \cup {"retry"} /\ v # "done"
    BY DEF Adapter
  <2> HIDE DEF v
  <2>3. /\ b.page \in Page /\ Same(b.page, page) /\ b.page.step = page.step
        /\ b.page.capability = page.capability /\ b.page.view = v
    BY ZenonT(40), <1>2, <2>1, <2>2 DEF Page, Same, Adapter
  <2>4. PageInv'
    BY <1>1, <1>3, <1>8, <2>1, <2>3, IdleType, QuietKeeps DEF IsBoth
  <2> QED
    BY <1>3, <2>1, <2>2, <2>3, <2>4, IdleType DEF Same
<1> QED
  BY <1>4, <1>5, <1>6, <1>7, <1>8 DEF Posted
\* A call that failed, for whatever reason.
LEMMA BootingType == Booting \in Runtime
BY OnboardingAssumption DEF Booting, Runtime, Done, None

LEMMA FailedKeeps ==
  ASSUME OnboardingInv, NEW f \in AllChains, chain[f].at \in Posted,
         NEW unavailable \in BOOLEAN, Failed(f, unavailable)
  PROVE  /\ PageInv' /\ runtime' \in Runtime /\ LaterRuntimes'
         /\ StartsWithModel /\ DoneConfigured
<1> DEFINE c == chain[f]
           e == Effect(c)
           recovers == c.at = "next" /\ unavailable /\ MayRecover(page)
<1>1. /\ TypeOK /\ LaterRuntimes /\ runtime \in Runtime
      /\ chain \in [AllChains -> Waits] /\ c \in Waits /\ CallsAreOfSession
  BY DEF OnboardingInv, TypeOK
<1>2. CASE recovers
  <2>1. page' = RecoverDisconnectedRuntime(page) /\ runtime' = Booting
    BY <1>2 DEF Failed
  <2>2. chain' = [g \in AllChains |->
                    IF g = f THEN Idle
                    ELSE IF chain[g].at \notin Posted THEN chain[g]
                    ELSE [chain[g] EXCEPT
                            !.frame = IF @ = "current" THEN "gone" ELSE @,
                            !.session = IF chain[g].at = "next"
                                        THEN "dead" ELSE @]]
    BY <1>2 DEF Failed
  <2>3. /\ PageInv' /\ page'.recovering /\ page'.view # "done"
        /\ \A g \in AllChains : chain'[g].at \in {"idle", chain[g].at}
    BY ONLY OnboardingInv, f \in AllChains, <1>2, <2>1, <2>2, RecoveryKeeps
  <2>4. LaterRuntimes'
    BY <2>3 DEF LaterRuntimes
  <2> QED
    BY <2>1, <2>3, <2>4, BootingType DEF StartsWithModel, DoneConfigured
<1>3. CASE ~recovers
  <2>1. Run(f, GivesUp(f)) /\ runtime' \in {runtime, e}
    BY <1>3 DEF Failed, GivesUp
  <2>2. e \in Runtime /\ e.state = runtime.state /\ e.replaced = runtime.replaced
    BY <1>1, Effects DEF CallsAreOfSession
  <2> HIDE DEF e, recovers
  <2>3. /\ PageInv' /\ page'.recovering = page.recovering
        /\ page'.recoveries = page.recoveries
        /\ page'.view = "done" => page.view = "done"
        /\ chain'[f].at # "start"
    BY <2>1, GivesUpKeeps
  <2>4. \A g \in AllChains : g # f => chain'[g] = chain[g]
    BY <1>1, <2>1 DEF Run
  <2>5. runtime' \in Runtime /\ runtime'.state = runtime.state
        /\ runtime'.replaced = runtime.replaced
    BY <1>1, <2>1, <2>2
  <2>6. LaterRuntimes'
    BY <1>1, <2>3, <2>5 DEF LaterRuntimes
  <2> QED
    BY <2>3, <2>4, <2>5, <2>6 DEF StartsWithModel, DoneConfigured
<1> QED
  BY <1>2, <1>3

-----------------------------------------------------------------------------
(***************************************************************************)
(* The types of the Worker's capabilities and of the bound on mishaps.     *)
(***************************************************************************)
LEMMA OneMoreMishap ==
  ASSUME mishaps \in 0 .. MaxMishaps, mishaps < MaxMishaps
  PROVE  mishaps + 1 \in 0 .. MaxMishaps
BY OnboardingAssumption

WorkerType == [issued : 0 .. MaxCapabilities, revoked : SUBSET Capability]

LEMMA NextCapability ==
  ASSUME worker \in WorkerType, worker.issued < MaxCapabilities
  PROVE  /\ NewCapability \in Capability
         /\ [worker EXCEPT !.issued = NewCapability] \in WorkerType
<1> DEFINE n == worker.issued
           k == NewCapability
<1>1. n \in 0 .. MaxCapabilities /\ MaxCapabilities \in Nat /\ k = n + 1
      /\ n < MaxCapabilities
  BY OnboardingAssumption DEF WorkerType, NewCapability
<1> HIDE DEF n, k
<1>2. k \in 1 .. MaxCapabilities /\ k \in 0 .. MaxCapabilities
  BY <1>1
<1>3. [worker EXCEPT !.issued = k] \in WorkerType
  BY <1>2 DEF WorkerType
<1> QED
  BY <1>2, <1>3 DEF Capability, k

LEMMA RevokedType ==
  ASSUME worker \in WorkerType, NEW admins \in SUBSET (Capability \cup {None})
  PROVE  RevokedBy(admins) \in WorkerType
<1>1. admins \ {None} \in SUBSET Capability
  OBVIOUS
<1> QED
  BY <1>1 DEF RevokedBy, WorkerType

-----------------------------------------------------------------------------
(***************************************************************************)
(* Steps that leave the runtime alone.                                     *)
(***************************************************************************)
\* What such a step shows besides the page's invariant.
Careful ==
  /\ PageInv' /\ page'.recoveries = page.recoveries
  /\ page'.recovering = page.recovering
  /\ StartsWithModel /\ DoneConfigured

\* A step of a chain that neither shows a step nor enters a credential.
LEMMA QuietStep ==
  ASSUME PageInv, NEW f \in AllChains, NEW b, IsBoth(b), Run(f, b),
         Same(b.page, page), b.page.step = page.step,
         b.page.capability \in {page.capability, None},
         b.page.view = "done" => page.view = "done",
         chain[f].at # "idle",
         b.chain.at \notin {"next", "attach", "start", "reattach"}
  PROVE  Careful
<1>1. PageInv'
  BY QuietKeeps
<1>2. StartsWithModel /\ DoneConfigured
  BY RunIsCareful
<1>3. page' = b.page
  BY DEF Run
<1> QED
  BY <1>1, <1>2, <1>3 DEF Careful, Same

\* A step of a chain while the page shows a step or awaits one.
LEMMA ShowingStep ==
  ASSUME PageInv, NEW f \in AllChains, NEW b, IsBoth(b), Run(f, b),
         Same(b.page, page),
         b.page.view = "done" => page.view = "done",
         b.chain.at \notin {"start", "reattach"},
         b.chain.at = "next" =>
           b.chain.step # None /\ b.chain.session = page.session,
         \/ page.step # None \/ page.capability # None
         \/ chain[f].at \in {"next", "attach"}
  PROVE  Careful
<1>1. PageInv'
  BY ShowingKeeps
<1>2. StartsWithModel /\ DoneConfigured
  BY RunIsCareful
<1>3. page' = b.page
  BY DEF Run
<1> QED
  BY <1>1, <1>2, <1>3 DEF Careful, Same

\* A call that waits to be posted again keeps its place.
LEMMA AgainKeeps ==
  ASSUME PageInv, NEW f \in AllChains, NEW b, IsBoth(b), Run(f, b),
         Same(b.page, page), b.page.step = page.step,
         b.page.capability = page.capability,
         b.page.view = "done" => page.view = "done",
         chain[f].at \in {"start", "next"}, b.chain.at = chain[f].at,
         b.chain.step = chain[f].step, b.chain.session = chain[f].session
  PROVE  Careful
<1>1. Harmless(f, b)
  BY DEF Harmless, Same, PageInv, CallsAreOfSession, MainStarts
<1>2. StartsFirst(f, b)
  <2>1. CASE chain[f].at = "start"
    <3>1. page.recoveries = 0 => f = Main
      BY <2>1 DEF PageInv, MainStarts
    <3> QED
      BY <2>1, <3>1 DEF StartsFirst, PageInv, FirstRuntime, NothingShown, Same
  <2>2. CASE chain[f].at = "next"
    <3>1. page.recoveries = 0 => page.started /\ chain[Main].at # "start"
      BY <2>2, ShownHasStarted
    <3> QED
      BY <2>2, <3>1 DEF StartsFirst, Same
  <2> QED
    BY <2>1, <2>2
<1>3. PageInv'
  BY <1>1, <1>2, RunKeeps
<1>4. StartsWithModel /\ DoneConfigured
  BY RunIsCareful
<1>5. page' = b.page
  BY DEF Run
<1> QED
  BY <1>3, <1>4, <1>5 DEF Careful, Same

LEMMA NotConnectedKeeps ==
  ASSUME OnboardingInv, NEW f \in AllChains, NotConnected(f)
  PROVE  Careful
<1> DEFINE p == SetWizardBusy(page)
           c == chain[f]
           d == [c EXCEPT !.frame = "later"]
           b == Both(p, d)
<1>1. PageInv /\ page \in Page /\ c \in Waits /\ c.at \in {"start", "next"}
  BY DEF OnboardingInv, TypeOK, PageInv, NotConnected
<1>2. /\ p \in Page /\ Same(p, page) /\ p.step = page.step
      /\ p.capability = page.capability
      /\ p.view = "done" => page.view = "done"
  BY <1>1, BusyPage
<1>3. /\ d \in Waits /\ d.at = c.at /\ d.step = c.step
      /\ d.session = c.session
  BY <1>1 DEF Waits
<1>4. Run(f, b)
  BY DEF NotConnected
<1> HIDE DEF p, d
<1>5. b.page = p /\ b.chain = d
  BY DEF Both
<1> HIDE DEF b
<1> QED
  BY <1>1, <1>2, <1>3, <1>4, <1>5, AgainKeeps DEF IsBoth

LEMMA ReconnectKeeps ==
  ASSUME OnboardingInv, NEW f \in AllChains, Reconnect(f)
  PROVE  Careful
<1> DEFINE c == chain[f]
           d == Post(c, c.at)
           b == Both(page, d)
<1>1. PageInv /\ page \in Page /\ c \in Waits /\ c.at \in {"start", "next"}
  BY DEF OnboardingInv, TypeOK, PageInv, Reconnect
<1>2. /\ d \in Waits /\ d.at = c.at /\ d.step = c.step
      /\ d.session = c.session
  BY <1>1, PostType DEF Awaited, Posted
<1>3. Run(f, b)
  BY DEF Reconnect
<1> HIDE DEF d
<1>4. b.page = page /\ b.chain = d
  BY DEF Both
<1> HIDE DEF b
<1> QED
  BY <1>1, <1>2, <1>3, <1>4, AgainKeeps DEF IsBoth, Same

-----------------------------------------------------------------------------
(***************************************************************************)
(* The Worker's answers.                                                   *)
(***************************************************************************)
LEMMA CredentialStep ==
  ASSUME OnboardingInv, NEW f \in AllChains, chain[f].at # "idle",
         NEW cap \in Capability \cup {None},
         Run(f, FinishCredential(page, chain[f], cap))
  PROVE  Careful
<1> DEFINE b == FinishCredential(page, chain[f], cap)
<1>1. PageInv /\ page \in Page /\ chain[f] \in Waits
  BY DEF OnboardingInv, TypeOK, PageInv
<1>2. Run(f, b)
  OBVIOUS
<1>3. /\ IsBoth(b) /\ Same(b.page, page) /\ b.page.step = page.step
      /\ b.page.view = "done" => page.view = "done"
      /\ b.chain.at \in {"idle", "abandon", "attach"}
      /\ b.page.capability # page.capability \/ b.chain.at = "attach"
           => page.step # None
  BY <1>1, CredentialOutcome
<1> HIDE DEF b
<1>4. CASE page.step # None
  BY <1>1, <1>2, <1>3, <1>4, ShowingStep
<1>5. CASE page.step = None
  BY <1>1, <1>2, <1>3, <1>5, QuietStep
<1> QED
  BY <1>4, <1>5

LEMMA ThrowStep ==
  ASSUME OnboardingInv, NEW f \in AllChains, chain[f].at # "idle",
         NEW p \in Page, Same(p, page),
         p.step = page.step, p.view = page.view,
         p.capability \in {page.capability, None},
         Run(f, Throw(p, chain[f]))
  PROVE  Careful
<1> DEFINE b == Throw(p, chain[f])
<1>1. PageInv /\ page \in Page /\ chain[f] \in Waits
  BY DEF OnboardingInv, TypeOK, PageInv
<1>2. Run(f, b)
  OBVIOUS
<1>3. /\ IsBoth(b) /\ Same(b.page, p) /\ b.page.step = p.step
      /\ b.page.capability = p.capability
      /\ b.page.view = "done" => p.view = "done"
      /\ b.chain.at \in {"idle", "abandon"}
  BY <1>1, ThrowOutcome
<1> HIDE DEF b
<1>4. Same(b.page, page)
  BY <1>3 DEF Same
<1> QED
  BY <1>1, <1>2, <1>3, <1>4, QuietStep

\* The page as it is, or with fields that no Wizard depends on.
LEMMA PlainStep ==
  ASSUME OnboardingInv, NEW f \in AllChains, chain[f].at # "idle",
         NEW p \in Page, Same(p, page),
         p.step = page.step, p.view = "done" => page.view = "done",
         p.capability \in {page.capability, None},
         NEW d \in Waits, d.at \notin {"next", "attach", "start", "reattach"},
         Run(f, Both(p, d))
  PROVE  Careful
<1> DEFINE b == Both(p, d)
<1>1. PageInv
  BY DEF OnboardingInv, TypeOK, PageInv
<1>2. Run(f, b) /\ b.page = p /\ b.chain = d
  BY DEF Both
<1> HIDE DEF b
<1> QED
  BY <1>1, <1>2, QuietStep DEF IsBoth

LEMMA IssuedKeeps ==
  ASSUME OnboardingInv, NEW f \in AllChains, Issued(f)
  PROVE  Careful /\ worker' \in WorkerType
<1>1. worker \in WorkerType /\ worker.issued < MaxCapabilities
  BY DEF OnboardingInv, TypeOK, WorkerType, Issued
<1>2. /\ NewCapability \in Capability \cup {None}
      /\ [worker EXCEPT !.issued = NewCapability] \in WorkerType
  BY <1>1, NextCapability
<1>3. chain[f].at # "idle"
  BY DEF Issued, Awaits
<1>4. Careful
  BY <1>2, <1>3, CredentialStep DEF Issued
<1> QED
  BY <1>2, <1>4 DEF Issued

LEMMA DeviceStartedKeeps ==
  ASSUME OnboardingInv, NEW f \in AllChains, DeviceStarted(f)
  PROVE  Careful /\ worker' \in WorkerType
<1> DEFINE k == NewCapability
           p == [page EXCEPT !.oauthAdmin = k]
           d == [chain[f] EXCEPT !.at = "poll", !.cap = k]
<1>1. /\ worker \in WorkerType /\ worker.issued < MaxCapabilities
      /\ page \in Page /\ chain[f] \in Waits /\ chain[f].at # "idle"
  BY DEF OnboardingInv, TypeOK, WorkerType, DeviceStarted, Awaits
<1>2. /\ k \in Capability
      /\ [worker EXCEPT !.issued = k] \in WorkerType
  BY <1>1, NextCapability
<1>3. Run(f, Both(p, d)) /\ worker' = [worker EXCEPT !.issued = k]
  BY DEF DeviceStarted
<1> HIDE DEF k
<1>4. /\ p \in Page /\ Same(p, page) /\ p.step = page.step
      /\ p.view = page.view /\ p.capability = page.capability
  BY <1>1, <1>2 DEF Page, Same
<1>5. d \in Waits /\ d.at = "poll"
  BY <1>1, <1>2 DEF Waits, Awaited
<1> HIDE DEF p, d
<1>6. Careful
  BY <1>1, <1>3, <1>4, <1>5, PlainStep
<1> QED
  BY <1>2, <1>3, <1>6

LEMMA PollKeeps ==
  ASSUME OnboardingInv, NEW f \in AllChains,
         PollStops(f) \/ Approved(f) \/ PollBody(f)
  PROVE  Careful
<1>1. /\ page \in Page /\ chain[f] \in Waits /\ Same(page, page)
      /\ chain[f].at # "idle"
  BY DEF OnboardingInv, TypeOK, Same, PollStops, Approved, PollBody, Awaits
<1>2. CASE PollStops(f)
  BY <1>1, <1>2, IdleType, PlainStep DEF PollStops
<1>3. CASE Approved(f)
  <2> DEFINE d == [chain[f] EXCEPT !.at = "body"]
  <2>1. d \in Waits /\ d.at = "body"
    BY <1>1 DEF Waits, Awaited
  <2>2. Run(f, Both(page, d))
    BY <1>3 DEF Approved
  <2> HIDE DEF d
  <2> QED
    BY <1>1, <2>1, <2>2, PlainStep
<1>4. CASE PollBody(f)
  <2>1. chain[f].cap \in Capability \cup {None}
    BY <1>1 DEF Waits
  <2> QED
    BY <1>1, <1>4, <2>1, CredentialStep DEF PollBody
<1> QED
  BY <1>2, <1>3, <1>4

LEMMA RefusalKeeps ==
  ASSUME OnboardingInv, NEW f \in AllChains, CredentialRefused(f)
  PROVE  Careful
<1>1. /\ page \in Page /\ Same(page, page) /\ Run(f, Throw(page, chain[f]))
      /\ chain[f].at # "idle"
  BY DEF OnboardingInv, TypeOK, Same, CredentialRefused, Awaits
<1> QED
  BY <1>1, ThrowStep

LEMMA DiscardedKeeps ==
  ASSUME OnboardingInv, NEW f \in AllChains, Discarded(f)
  PROVE  Careful /\ worker' \in WorkerType
<1>1. /\ page \in Page /\ chain[f] \in Waits /\ worker \in WorkerType
      /\ chain[f].at # "idle"
  BY DEF OnboardingInv, TypeOK, WorkerType, Discarded, Awaits
<1>2. worker' \in WorkerType
  <2>1. {chain[f].cap} \in SUBSET (Capability \cup {None})
    BY <1>1 DEF Waits
  <2> QED
    BY <1>1, <2>1, RevokedType DEF Discarded
<1>3. CASE chain[f].at = "discard"
  <2> DEFINE p == [page EXCEPT !.capability = None]
  <2>1. Run(f, Throw(p, chain[f]))
    BY <1>3 DEF Discarded
  <2>2. /\ p \in Page /\ Same(p, page) /\ p.step = page.step
        /\ p.view = page.view /\ p.capability = None
    BY <1>1 DEF Page, Same
  <2> HIDE DEF p
  <2> QED
    BY <1>1, <1>2, <2>1, <2>2, ThrowStep
<1>4. CASE chain[f].at # "discard"
  <2> DEFINE e == ShowError(page)
             p == [e EXCEPT !.view = "methods"]
  <2>1. Run(f, Both(p, Idle))
    BY <1>4 DEF Discarded
  <2>2. /\ e \in Page /\ Same(e, page) /\ e.step = page.step
        /\ e.capability = page.capability
    BY <1>1, ErrorPage
  <2> HIDE DEF e
  <2>3. /\ p \in Page /\ Same(p, page) /\ p.step = page.step
        /\ p.view = "methods" /\ p.capability = page.capability
    BY <2>2 DEF Page, Same, Adapter
  <2> HIDE DEF p
  <2> QED
    BY <1>1, <1>2, <2>1, <2>3, IdleType, PlainStep
<1> QED
  BY <1>3, <1>4

LEMMA RevokedKeeps ==
  ASSUME OnboardingInv, NEW f \in AllChains, Revoked(f)
  PROVE  Careful /\ worker' \in WorkerType
<1> DEFINE e == ShowError(page)
           p == [page EXCEPT !.capability = None, !.oauthAdmin = None]
<1>1. /\ page \in Page /\ chain[f] \in Waits /\ worker \in WorkerType
      /\ chain[f].at # "idle"
  BY DEF OnboardingInv, TypeOK, WorkerType, Revoked, Awaits
<1>2. worker' \in WorkerType
  <2>1. {chain[f].cap} \in SUBSET (Capability \cup {None})
    BY <1>1 DEF Waits
  <2> QED
    BY <1>1, <2>1, RevokedType DEF Revoked
<1>3. Run(f, Both(p, Idle)) \/ Run(f, Both(e, Idle))
  BY DEF Revoked
<1>4. /\ e \in Page /\ Same(e, page) /\ e.step = page.step
      /\ e.capability = page.capability /\ e.view = page.view
  BY <1>1, ErrorPage
<1>5. /\ p \in Page /\ Same(p, page) /\ p.step = page.step
      /\ p.view = page.view /\ p.capability = None
  BY <1>1 DEF Page, Same
<1> HIDE DEF e, p
<1> QED
  BY <1>1, <1>2, <1>3, <1>4, <1>5, IdleType, PlainStep

-----------------------------------------------------------------------------
(***************************************************************************)
(* The actions.                                                            *)
(***************************************************************************)
LEMMA UserLeaves ==
  ASSUME OnboardingInv, User
  PROVE  /\ page'.recoveries = page.recoveries
         /\ page'.recovering = page.recovering
         /\ runtime' = runtime /\ mishaps' = mishaps /\ worker' \in WorkerType
<1>1. page \in Page /\ worker \in WorkerType
  BY DEF OnboardingInv, TypeOK, WorkerType
<1>2. CASE Answer
  <2> DEFINE b == AnswerWizard(page, Idle, page.step)
  <2>1. page' = b.page
    BY <1>2 DEF Answer, Run
  <2>2. page.step \in Step /\ page.session # "none"
    BY <1>1, <1>2 DEF Answer, Page
  <2>3. Same(b.page, page)
    BY <1>1, <2>2, IdleType, AnswerOutcome
  <2> HIDE DEF b
  <2> QED
    BY <1>1, <1>2, <2>1, <2>3 DEF Answer, Same
<1>3. CASE SubmitApiKey
  BY <1>1, <1>3 DEF SubmitApiKey, Run, Both, Page
<1>4. CASE StartDeviceAuthorization
  BY <1>1, <1>4 DEF StartDeviceAuthorization, Run, Both, Page
<1>5. CASE ShowCredentialMethods
  <2>1. {page.oauthAdmin} \in SUBSET (Capability \cup {None})
    BY <1>1 DEF Page
  <2>2. worker' \in WorkerType
    BY <1>1, <1>5, <2>1, RevokedType DEF ShowCredentialMethods
  <2> QED
    BY <1>1, <1>5, <2>2 DEF ShowCredentialMethods, Page
<1>6. CASE RetryFinish
  <2> DEFINE b == FinishWizard(page, Idle)
  <2>1. page' = b.page
    BY <1>6 DEF RetryFinish, Run
  <2>2. Same(b.page, page)
    BY <1>1, IdleType, FinishOutcome
  <2> HIDE DEF b
  <2> QED
    BY <1>1, <1>6, <2>1, <2>2 DEF RetryFinish, Same
<1>7. CASE Revoke
  BY <1>1, <1>7 DEF Revoke, Run, Both
<1>8. CASE PageHide
  <2>1. {Admin(page)} \in SUBSET (Capability \cup {None})
    BY <1>1 DEF Page, Admin
  <2>2. worker' \in WorkerType
    BY <1>1, <1>8, <2>1, RevokedType DEF PageHide
  <2> QED
    BY <1>1, <1>8, <2>2 DEF PageHide, Page
<1> QED
  BY <1>2, <1>3, <1>4, <1>5, <1>6, <1>7, <1>8 DEF User

\* What every step preserves and does.
Kept == OnboardingInv' /\ StartsWithModel /\ DoneConfigured

LEMMA CarefulKeeps ==
  ASSUME OnboardingInv, Careful, runtime' = runtime, worker' \in WorkerType,
         mishaps' \in 0 .. MaxMishaps
  PROVE  Kept
<1>1. runtime' \in Runtime /\ LaterRuntimes'
  BY DEF OnboardingInv, TypeOK, LaterRuntimes, Careful
<1> QED
  BY <1>1 DEF Kept, Careful, PageInv, OnboardingInv, TypeOK, WorkerType

LEMMA UserStep ==
  ASSUME OnboardingInv, User
  PROVE  Kept
<1>1. Careful
  BY UserKeeps, UserLeaves DEF Careful
<1>2. mishaps \in 0 .. MaxMishaps
  BY DEF OnboardingInv, TypeOK
<1> QED
  BY <1>1, <1>2, UserLeaves, CarefulKeeps

LEMMA ReadyStep ==
  ASSUME OnboardingInv, GatewayReady
  PROVE  Kept
<1>1. /\ PageInv'
      /\ \A f \in AllChains :
           chain'[f].at = "start" /\ chain[f].at # "start" =>
             \/ page'.capability = None
             \/ page'.recoveries # 0 /\ runtime'.replaced
      /\ page'.view = "done" => page.view = "done"
  BY ReadyKeeps
<1>2. runtime' = [runtime EXCEPT !.state = "ready"] /\ runtime \in Runtime
  BY DEF GatewayReady, OnboardingInv, TypeOK
<1>3. /\ runtime' \in Runtime /\ LaterRuntimes'
  BY <1>2 DEF Runtime, LaterRuntimes
<1>5. StartsWithModel
  BY <1>1 DEF StartsWithModel
<1>6. DoneConfigured
  BY <1>1 DEF DoneConfigured
<1>7. worker' = worker /\ mishaps' = mishaps
  BY DEF GatewayReady
<1> QED
  BY <1>1, <1>3, <1>5, <1>6, <1>7 DEF Kept, PageInv, OnboardingInv, TypeOK

LEMMA BootFailsStep ==
  ASSUME OnboardingInv, BootFails
  PROVE  Kept
<1>1. PageInv'
  BY BootFailsKeeps
<1>2. /\ runtime' = [runtime EXCEPT !.state = "failed"] /\ runtime \in Runtime
      /\ chain' = chain /\ worker' = worker
  BY DEF BootFails, OnboardingInv, TypeOK
<1>3. runtime' \in Runtime /\ LaterRuntimes'
  BY <1>2 DEF Runtime, LaterRuntimes
<1>4. mishaps' \in 0 .. MaxMishaps
  BY OneMoreMishap DEF BootFails, OnboardingInv, TypeOK
<1>5. page'.view = page.view
  BY DEF BootFails, ShowError, OnboardingInv, TypeOK, Page
<1> QED
  BY <1>1, <1>2, <1>3, <1>4, <1>5
  DEF Kept, PageInv, OnboardingInv, TypeOK, StartsWithModel, DoneConfigured

LEMMA ReplacedStep ==
  ASSUME OnboardingInv, GatewayReplaced
  PROVE  Kept
<1>1. PageInv'
  BY ReplacedKeeps
<1>2. /\ runtime' = [Booting EXCEPT !.replaced = TRUE] /\ worker' = worker
      /\ page \in Page /\ chain \in [AllChains -> Waits]
  BY DEF GatewayReplaced, OnboardingInv, TypeOK
<1>3. page'.view = page.view
  BY <1>2 DEF GatewayReplaced, Page
<1>4. runtime' \in Runtime /\ LaterRuntimes'
  BY <1>2, BootingType DEF Runtime, LaterRuntimes
<1>5. mishaps' \in 0 .. MaxMishaps
  BY OneMoreMishap DEF GatewayReplaced, OnboardingInv, TypeOK
<1>6. \A f \in AllChains : chain'[f].at = chain[f].at
  BY <1>2 DEF GatewayReplaced, Waits
<1>7. StartsWithModel /\ DoneConfigured
  BY <1>3, <1>6 DEF StartsWithModel, DoneConfigured
<1> QED
  BY <1>1, <1>2, <1>4, <1>5, <1>7 DEF Kept, PageInv, OnboardingInv, TypeOK

LEMMA AnsweredStep ==
  ASSUME OnboardingInv, NEW f \in AllChains, Answered(f)
  PROVE  Kept
<1>1. /\ PageInv'
      /\ chain'[f].at = "start" /\ chain[f].at # "start" =>
           runtime'.attached # None
      /\ page'.view = "done" =>
           \/ page.view = "done" \/ page'.capability = None
           \/ runtime'.configured
  BY AnsweredKeeps
<1>2. /\ TypeOK /\ CallsAreOfSession /\ chain \in [AllChains -> Waits]
      /\ chain[f] \in Waits /\ chain[f].at \in Posted
      /\ runtime' = Effect(chain[f]) /\ runtime.state = "ready"
      /\ worker' = worker /\ mishaps' = mishaps
  BY DEF OnboardingInv, TypeOK, Answered, Reaches
<1>3. runtime' \in Runtime /\ runtime'.state = "ready"
  BY <1>2, Effects DEF CallsAreOfSession
<1>4. LaterRuntimes'
  BY <1>3 DEF LaterRuntimes
<1>5. \A g \in AllChains : g # f => chain'[g] = chain[g]
  <2>1. \E b : chain' = [chain EXCEPT ![f] = b]
    BY DEF Answered, Run
  <2> QED
    BY <1>2, <2>1
<1>6. StartsWithModel /\ DoneConfigured
  BY <1>1, <1>5 DEF StartsWithModel, DoneConfigured
<1> QED
  BY <1>1, <1>2, <1>3, <1>4, <1>6 DEF Kept, PageInv, OnboardingInv, TypeOK

LEMMA FailureStep ==
  ASSUME OnboardingInv, NEW f \in AllChains, Refused(f) \/ TimesOut(f)
  PROVE  Kept
<1>1. /\ chain[f].at \in Posted /\ worker' = worker
      /\ Failed(f, TRUE) \/ Failed(f, FALSE)
  BY DEF Refused, TimesOut, Reaches
<1>2. /\ PageInv' /\ runtime' \in Runtime /\ LaterRuntimes'
      /\ StartsWithModel /\ DoneConfigured
  BY <1>1, FailedKeeps
<1>3. mishaps \in 0 .. MaxMishaps
  BY DEF OnboardingInv, TypeOK
<1>4. mishaps' = mishaps \/ (mishaps < MaxMishaps /\ mishaps' = mishaps + 1)
  BY DEF Refused, TimesOut
<1>5. mishaps' \in 0 .. MaxMishaps
  BY <1>3, <1>4, OneMoreMishap
<1> QED
  BY <1>1, <1>2, <1>5 DEF Kept, PageInv, OnboardingInv, TypeOK

LEMMA ChainStep ==
  ASSUME OnboardingInv, NEW f \in AllChains,
         RequestSettles(f) \/ WorkerAnswers(f) \/ NotConnected(f)
  PROVE  Kept
<1>1. mishaps \in 0 .. MaxMishaps /\ worker \in WorkerType
  BY DEF OnboardingInv, TypeOK, WorkerType
<1>2. CASE Answered(f)
  BY <1>2, AnsweredStep
<1>3. CASE Refused(f) \/ TimesOut(f)
  BY <1>3, FailureStep
<1>4. CASE Reconnect(f)
  BY <1>1, <1>4, ReconnectKeeps, CarefulKeeps DEF Reconnect
<1>5. CASE Issued(f)
  <2>1. runtime' = runtime /\ mishaps' = mishaps
    BY <1>5 DEF Issued
  <2>2. Careful /\ worker' \in WorkerType
    BY <1>5, IssuedKeeps
  <2> QED
    BY <1>1, <2>1, <2>2, CarefulKeeps
<1>6. CASE DeviceStarted(f)
  <2>1. runtime' = runtime /\ mishaps' = mishaps
    BY <1>6 DEF DeviceStarted
  <2>2. Careful /\ worker' \in WorkerType
    BY <1>6, DeviceStartedKeeps
  <2> QED
    BY <1>1, <2>1, <2>2, CarefulKeeps
<1>7. CASE PollStops(f) \/ Approved(f) \/ PollBody(f)
  <2>1. runtime' = runtime /\ worker' = worker /\ mishaps' = mishaps
    BY <1>7 DEF PollStops, Approved, PollBody
  <2> QED
    BY <1>1, <1>7, <2>1, PollKeeps, CarefulKeeps
<1>8. CASE CredentialRefused(f)
  BY <1>1, <1>8, RefusalKeeps, CarefulKeeps DEF CredentialRefused
<1>9. CASE Discarded(f)
  BY <1>1, <1>9, DiscardedKeeps, CarefulKeeps DEF Discarded
<1>10. CASE Revoked(f)
  BY <1>1, <1>10, RevokedKeeps, CarefulKeeps DEF Revoked
<1>11. CASE NotConnected(f)
  <2>1. mishaps' \in 0 .. MaxMishaps
    BY <1>1, <1>11, OneMoreMishap DEF NotConnected
  <2> QED
    BY <1>1, <1>11, <2>1, NotConnectedKeeps, CarefulKeeps DEF NotConnected
<1> QED
  BY <1>2, <1>3, <1>4, <1>5, <1>6, <1>7, <1>8, <1>9, <1>10, <1>11
  DEF RequestSettles, WorkerAnswers

LEMMA OnboardingInit == Init => OnboardingInv
<1> SUFFICES ASSUME Init
             PROVE  OnboardingInv
  OBVIOUS
<1>1. MaxRecoveries \in Nat /\ MaxCapabilities \in Nat /\ MaxMishaps \in Nat
  BY OnboardingAssumption
<1>2. 0 \in 0 .. MaxRecoveries /\ 0 \in 0 .. MaxCapabilities
      /\ 0 \in 0 .. MaxMishaps
  BY <1>1
<1>3. page \in Page
  BY <1>2 DEF Init, Page, None
<1>4. /\ chain \in [AllChains -> Waits]
      /\ \A f \in AllChains : chain[f].at = "idle"
  BY IdleType DEF Init
<1>5. worker \in WorkerType
  BY <1>2 DEF Init, WorkerType
<1>6. TypeOK
  BY <1>2, <1>3, <1>4, <1>5, BootingType DEF TypeOK, Init, WorkerType
<1>7. CallsAreOfSession /\ MainStarts
  BY <1>4 DEF CallsAreOfSession, MainStarts
<1>8. FirstRuntime
  <2>1. Main \in AllChains
    BY DEF AllChains
  <2> QED
    BY <1>4, <2>1 DEF FirstRuntime, NothingShown, Init
<1>9. LaterRuntimes
  BY DEF LaterRuntimes, Init
<1> QED
  BY <1>6, <1>7, <1>8, <1>9 DEF OnboardingInv

LEMMA OnboardingStep == OnboardingInv /\ Next => Kept
<1> SUFFICES ASSUME OnboardingInv, Next
             PROVE  Kept
  OBVIOUS
<1>1. CASE User
  BY <1>1, UserStep
<1>2. CASE BootSettles
  BY <1>2, ReadyStep, BootFailsStep DEF BootSettles
<1>3. CASE GatewayReplaced
  BY <1>3, ReplacedStep
<1>4. CASE \E f \in AllChains :
             RequestSettles(f) \/ WorkerAnswers(f) \/ NotConnected(f)
  BY <1>4, ChainStep
<1> QED
  BY <1>1, <1>2, <1>3, <1>4 DEF Next

LEMMA OnboardingStutter == OnboardingInv /\ UNCHANGED vars => Kept
<1> SUFFICES ASSUME OnboardingInv, UNCHANGED vars
             PROVE  Kept
  OBVIOUS
<1>1. /\ page' = page /\ chain' = chain /\ runtime' = runtime
      /\ worker' = worker /\ mishaps' = mishaps
  BY DEF vars
<1>2. OnboardingInv'
  BY <1>1 DEF OnboardingInv, TypeOK, CallsAreOfSession, MainStarts,
     FirstRuntime, NothingShown, LaterRuntimes
<1>3. StartsWithModel /\ DoneConfigured
  BY <1>1 DEF StartsWithModel, DoneConfigured
<1> QED
  BY <1>2, <1>3 DEF Kept

\* The page, its chains, the runtime and the capabilities are what they may
\* be, whatever is lost, refused or replaced: byok-onboarding.ts recovers at
\* most maximumAutomaticRuntimeRecoveries times, only a call that names a step
\* and a session is posted as wizard.next, no step is shown or capability held
\* before the first runtime's Wizard has started, and a runtime the page
\* rotated to boots under runtimeRecoveryInProgress, unless another tab's took
\* its place.
THEOREM OnboardingInvariant == Spec => []OnboardingInv
<1>1. OnboardingInv /\ [Next]_vars => OnboardingInv'
  BY OnboardingStep, OnboardingStutter DEF Kept
<1> QED
  BY OnboardingInit, <1>1, PTL DEF Spec

\* Every variable keeps its type, the bound on automatic recoveries included.
THEOREM PageTypeCorrect == Spec => []TypeOK
<1>1. OnboardingInv => TypeOK
  BY DEF OnboardingInv
<1> QED
  BY <1>1, OnboardingInvariant, PTL

\* resumeWizardAfterGatewayReady attaches the capability the page holds before
\* it starts the Wizard of a runtime that replaced another one, for any number
\* of recoveries and with any other calls still under way.
THEOREM WizardNeverStartsBare == Spec => WizardStartsWithModel
<1>1. OnboardingInv /\ [Next]_vars => [StartsWithModel]_vars
  BY OnboardingStep DEF Kept
<1>2. WizardStartsWithModel <=> [][StartsWithModel]_vars
  BY PTL DEF WizardStartsWithModel, StartsWithModel
<1> QED
  BY <1>1, <1>2, OnboardingInvariant, PTL DEF Spec

\* finishWizard shows the finished setup of a page that holds a capability
\* only after configureModelInRuntime has answered from the runtime the page
\* talks to.
THEOREM DoneMeansConfigured == Spec => DoneIsConfigured
<1>1. OnboardingInv /\ [Next]_vars => [DoneConfigured]_vars
  BY OnboardingStep DEF Kept
<1>2. DoneIsConfigured <=> [][DoneConfigured]_vars
  BY PTL DEF DoneIsConfigured, DoneConfigured
<1> QED
  BY <1>1, <1>2, OnboardingInvariant, PTL DEF Spec

=============================================================================
