--------------------------- MODULE SharedRuntime ---------------------------
(***************************************************************************)
(* The shared OpenClaw runtime of one browser origin: the tab coordinator  *)
(* (SharedCoordinator), the runtime iframe of every tab                    *)
(* (src/src/byok-runtime.ts), the operation queue of the runtime the owner  *)
(* boots (src/src/openclaw-gateway-health-probe.ts) and the onboarding page *)
(* that makes the calls (src/src/byok-onboarding.ts), joined by the         *)
(* MessagePorts between them, each a FIFO channel in either direction.      *)
(*                                                                          *)
(* The Gateway inside the runtime is not part of the sources: it is         *)
(* modelled by its wizard as the callers rely on it, one session at a time. *)
(***************************************************************************)
EXTENDS SharedCoordinator, FiniteSets

CONSTANTS
  Methods,      \* the methods the pages call; None is a capability call
  Crashes,      \* whether a tab may die without its pagehide event
  RpcTimeouts   \* whether a call the Gateway served may time out at the host

ASSUME CallAssumption == None \notin Call
ASSUME MethodsAssumption == Methods \subseteq Method \cup {None}
ASSUME EnvironmentAssumption ==
  Crashes \in BOOLEAN /\ RpcTimeouts \in BOOLEAN

VARIABLES
  page,                \* each tab: unopened, open or gone
  started,             \* the iframe forwarded the page's start message
  gatewayReady,        \* the page was told that the Gateway is ready
  pageSession,         \* the page's wizardSessionId
  caller, callOf,      \* who issued each request identifier, for what call
  answered,            \* requests whose response reached their page
  toWorker,            \* messages posted to the worker on each port
  sharedRuntimeOwner,  \* the iframe was told that it is the owner
  runtime,             \* the runtime of the iframe: off, booting, ready, failed
  operationQueue,      \* calls the runtime has accepted and not finished
  wizard,              \* the wizard of the Gateway in each tab
  sessionsUsed,        \* sessions any Gateway has handed out
  applied,             \* how often some Gateway took each answer (history)
  timedOut             \* calls served, yet reported failed (history)

pageVars == <<page, started, gatewayReady, pageSession, caller, callOf, answered>>
runtimeVars == <<sharedRuntimeOwner, runtime, operationQueue>>
gatewayVars == <<wizard, sessionsUsed, applied, timedOut>>
vars == <<coordinatorVars, pageVars, toWorker, runtimeVars, gatewayVars>>

NoWizard == [session |-> None, at |-> None]

Init ==
  /\ CoordinatorInit
  /\ page = [t \in Tab |-> "unopened"]
  /\ started = [t \in Tab |-> FALSE]
  /\ gatewayReady = [t \in Tab |-> FALSE]
  /\ pageSession = [t \in Tab |-> None]
  /\ caller = NoneTracked
  /\ callOf = NoneTracked
  /\ answered = {}
  /\ toWorker = [t \in Tab |-> <<>>]
  /\ sharedRuntimeOwner = [t \in Tab |-> FALSE]
  /\ runtime = [t \in Tab |-> "off"]
  /\ operationQueue = [t \in Tab |-> <<>>]
  /\ wizard = [t \in Tab |-> NoWizard]
  /\ sessionsUsed = {}
  /\ applied = [k \in Key |-> 0]
  /\ timedOut = {}

Submit(t, message) == toWorker' = [toWorker EXCEPT ![t] = Append(@, message)]

-----------------------------------------------------------------------------
(***************************************************************************)
(* Tabs.  A worker lives while some tab that constructed it does: a tab    *)
(* opened after the last one went gets another worker, outside this model. *)
(***************************************************************************)
Open(t) ==
  /\ page[t] = "unopened"
  /\ \/ \A u \in Tab : page[u] = "unopened"
     \/ \E u \in Tab : page[u] = "open"
  /\ page' = [page EXCEPT ![t] = "open"]
  /\ UNCHANGED <<coordinatorVars, started, gatewayReady, pageSession, caller,
                 callOf, answered, toWorker, runtimeVars, gatewayVars>>

StopRuntime(t) ==
  /\ page' = [page EXCEPT ![t] = "gone"]
  /\ sharedRuntimeOwner' = [sharedRuntimeOwner EXCEPT ![t] = FALSE]
  /\ runtime' = [runtime EXCEPT ![t] = "off"]
  /\ operationQueue' = [operationQueue EXCEPT ![t] = <<>>]
  /\ wizard' = [wizard EXCEPT ![t] = NoWizard]
  /\ UNCHANGED <<coordinatorVars, started, gatewayReady, pageSession, caller,
                 callOf, answered, sessionsUsed, applied, timedOut>>

Close(t) ==
  /\ page[t] = "open"
  /\ Submit(t, [type |-> "disconnect"])
  /\ StopRuntime(t)

Crash(t) ==
  /\ Crashes
  /\ page[t] = "open"
  /\ StopRuntime(t)
  /\ UNCHANGED toWorker

StartOnboardingRuntime(t) ==
  /\ page[t] = "open"
  /\ ~started[t]
  /\ started' = [started EXCEPT ![t] = TRUE]
  /\ Submit(t, [type |-> "start"])
  /\ UNCHANGED <<coordinatorVars, page, gatewayReady, pageSession, caller,
                 callOf, answered, runtimeVars, gatewayVars>>

(***************************************************************************)
(* A page calls only once it was told that the Gateway is ready, names the *)
(* session it was last given, and answers a step in every wizard.next.  It  *)
(* attaches a capability from a step of the wizard.                         *)
(* Identifiers are random in the code; which one is drawn makes no         *)
(* difference, so each call takes some unused one.                         *)
(***************************************************************************)
Fresh(S, used) == CHOOSE x \in S \ used : TRUE
Issued == {r \in Request : callOf[r] # None}

MayCall(t, c) ==
  /\ c.method # "wizard.start" => pageSession[t] # None
  /\ c.session = IF c.method \in {"wizard.start", None} THEN None
                 ELSE pageSession[t]
  /\ (c.method = "wizard.next") = (c.answer # None)

PostRuntimeRequest(t) ==
  /\ page[t] = "open"
  /\ gatewayReady[t]
  /\ Issued # Request
  /\ \E c \in [id : {Fresh(Request, Issued)}, method : Methods,
              session : {None, pageSession[t]}, answer : Answer \cup {None}] :
       /\ MayCall(t, c)
       /\ caller' = [caller EXCEPT ![c.id] = t]
       /\ callOf' = [callOf EXCEPT ![c.id] = c]
       /\ Submit(t, [type |-> "operation", call |-> c])
  /\ UNCHANGED <<coordinatorVars, page, started, gatewayReady, pageSession,
                 answered, runtimeVars, gatewayVars>>

-----------------------------------------------------------------------------
(***************************************************************************)
(* The worker takes the next event of a port.                              *)
(***************************************************************************)
WorkerConnect(t) ==
  /\ page[t] # "unopened"
  /\ Connect(t)
  /\ UNCHANGED <<pageVars, toWorker, runtimeVars, gatewayVars>>

WorkerReceive(t) ==
  /\ t \in ports
  /\ toWorker[t] # <<>>
  /\ toWorker' = [toWorker EXCEPT ![t] = Tail(@)]
  /\ LET m == Head(toWorker[t]) IN
     \/ m.type = "disconnect" /\ Disconnect(t)
     \/ m.type = "start" /\ RuntimeStart(t)
     \/ m.type = "operation" /\ Operation(t, m.call)
     \/ m.type = "response" /\ OwnerResponse(t, m)
     \/ m.type = "ready" /\ GatewayReady(t)
     \/ m.type \in {"response", "ready"} /\ IgnoreOutput(t)
  /\ UNCHANGED <<pageVars, runtimeVars, gatewayVars>>

-----------------------------------------------------------------------------
(***************************************************************************)
(* The iframe takes the next message from its port.                        *)
(***************************************************************************)
BecomeOwner(t) ==
  /\ Head(toTab[t]).type = "owner"
  /\ sharedRuntimeOwner' = [sharedRuntimeOwner EXCEPT ![t] = TRUE]
  /\ UNCHANGED <<pageVars, runtime, operationQueue>>

BecomeFollower(t) ==
  /\ Head(toTab[t]).type = "follower"
  /\ sharedRuntimeOwner' = [sharedRuntimeOwner EXCEPT ![t] = FALSE]
  /\ UNCHANGED <<pageVars, runtime, operationQueue>>

StartSharedOwner(t) ==
  /\ Head(toTab[t]).type = "owner-start"
  /\ runtime' = IF sharedRuntimeOwner[t] /\ runtime[t] = "off"
                THEN [runtime EXCEPT ![t] = "booting"]
                ELSE runtime
  /\ UNCHANGED <<pageVars, sharedRuntimeOwner, operationQueue>>

(***************************************************************************)
(* The runtime installs its message listener when its Gateway is ready:    *)
(* until then sharedOwnerMessageListener?.() drops what it is handed.      *)
(***************************************************************************)
OwnerInput(t) ==
  /\ Head(toTab[t]).type = "owner-input"
  /\ operationQueue' =
       IF runtime[t] = "ready"
       THEN [operationQueue EXCEPT ![t] = Append(@, Head(toTab[t]).call)]
       ELSE operationQueue
  /\ UNCHANGED <<pageVars, sharedRuntimeOwner, runtime>>

LearnReady(t) ==
  /\ Head(toTab[t]).type = "ready"
  /\ gatewayReady' = [gatewayReady EXCEPT ![t] = TRUE]
  /\ UNCHANGED <<page, started, pageSession, caller, callOf, answered,
                 runtimeVars>>

TakeResponse(t) ==
  LET m == Head(toTab[t])
      pending == m.type = "response" /\ caller[m.id] = t /\ m.id \notin answered
  IN
  /\ m.type = "response"
  /\ answered' = IF pending THEN answered \cup {m.id} ELSE answered
  /\ pageSession' =
       IF pending /\ m.ok /\ m.result.session # None
       THEN [pageSession EXCEPT ![t] = m.result.session]
       ELSE pageSession
  /\ UNCHANGED <<page, started, gatewayReady, caller, callOf, runtimeVars>>

TabReceive(t) ==
  /\ page[t] = "open"
  /\ Take(t)
  /\ \/ BecomeOwner(t)
     \/ BecomeFollower(t)
     \/ StartSharedOwner(t)
     \/ OwnerInput(t)
     \/ LearnReady(t)
     \/ TakeResponse(t)
  /\ UNCHANGED <<toWorker, gatewayVars>>

-----------------------------------------------------------------------------
(***************************************************************************)
(* The runtime.  Booting ends with the Gateway ready, announced in the     *)
(* same turn that installs the listener, or with a failure that no later   *)
(* owner-start undoes.  The queue then runs one call at a time.            *)
(***************************************************************************)
BootSucceeds(t) ==
  /\ runtime[t] = "booting"
  /\ runtime' = [runtime EXCEPT ![t] = "ready"]
  /\ Submit(t, [type |-> "ready"])
  /\ UNCHANGED <<coordinatorVars, pageVars, sharedRuntimeOwner,
                 operationQueue, gatewayVars>>

BootFails(t) ==
  /\ runtime[t] = "booting"
  /\ runtime' = [runtime EXCEPT ![t] = "failed"]
  /\ UNCHANGED <<coordinatorVars, pageVars, toWorker, sharedRuntimeOwner,
                 operationQueue, gatewayVars>>

(***************************************************************************)
(* What the Gateway makes of a call it accepts: the wizard afterwards, and *)
(* the result it reports.  It rejects a second session while one is live,  *)
(* and a call that names another session than the live one.                *)
(***************************************************************************)
Accepts(w, c) ==
  \/ c.method = None
  \/ c.method = "wizard.start" /\ w.session = None
  \/ /\ c.method \in {"wizard.next", "wizard.status", "wizard.cancel"}
     /\ w.session # None
     /\ w.session = c.session

WizardAfter(w, c, fresh) ==
  CASE c.method = "wizard.start"  -> [session |-> fresh, at |-> None]
    [] c.method = "wizard.cancel" -> NoWizard
    [] c.method = "wizard.next" /\ c.answer # None -> [w EXCEPT !.at = c.answer]
    [] OTHER -> w

Reported(w, c) ==
  IF c.method = None THEN NoWizard
  ELSE [session |-> IF c.method = "wizard.start" THEN w.session ELSE None,
        at |-> w.at]

GatewayServes(t, c) ==
  /\ Accepts(wizard[t], c)
  /\ IF c.method = "wizard.start"
     THEN /\ sessionsUsed # Session
          /\ sessionsUsed' = sessionsUsed \cup {Fresh(Session, sessionsUsed)}
     ELSE UNCHANGED sessionsUsed
  /\ wizard' = [wizard EXCEPT ![t] =
                  WizardAfter(@, c, Fresh(Session, sessionsUsed))]
  /\ applied' = IF WizardNextKey(c) = None THEN applied
                ELSE [applied EXCEPT ![WizardNextKey(c)] = @ + 1]

Failure(c) == [type |-> "response", id |-> c.id, ok |-> FALSE, result |-> None]

RunOperation(t) ==
  /\ runtime[t] = "ready"
  /\ operationQueue[t] # <<>>
  /\ operationQueue' = [operationQueue EXCEPT ![t] = Tail(@)]
  /\ LET c == Head(operationQueue[t]) IN
     \/ /\ GatewayServes(t, c)
        /\ Submit(t, [type |-> "response", id |-> c.id, ok |-> TRUE,
                      result |-> Reported(wizard'[t], c)])
        /\ UNCHANGED timedOut
     \/ /\ RpcTimeouts
        /\ GatewayServes(t, c)
        /\ Submit(t, Failure(c))
        /\ timedOut' = timedOut \cup {c.id}
     \/ /\ UNCHANGED gatewayVars
        /\ Submit(t, Failure(c))
  /\ UNCHANGED <<coordinatorVars, pageVars, sharedRuntimeOwner, runtime>>

-----------------------------------------------------------------------------
Next ==
  \E t \in Tab :
     \/ Open(t)
     \/ Close(t)
     \/ Crash(t)
     \/ StartOnboardingRuntime(t)
     \/ PostRuntimeRequest(t)
     \/ WorkerConnect(t)
     \/ WorkerReceive(t)
     \/ TabReceive(t)
     \/ BootSucceeds(t)
     \/ BootFails(t)
     \/ RunOperation(t)

(***************************************************************************)
(* Event loops deliver, an open page asks for its runtime, and every       *)
(* operation ends (runGatewayRpc gives up at its deadline).  A boot has no *)
(* deadline, and nobody has to open a tab, close one or make a call.       *)
(***************************************************************************)
Fairness ==
  \A t \in Tab :
     /\ WF_vars(StartOnboardingRuntime(t))
     /\ WF_vars(WorkerConnect(t))
     /\ WF_vars(WorkerReceive(t))
     /\ WF_vars(TabReceive(t))
     /\ WF_vars(RunOperation(t))

Spec == Init /\ [][Next]_vars
FairSpec == Spec /\ Fairness

-----------------------------------------------------------------------------
InTransit ==
  [type : {"disconnect", "start", "ready"}]
    \cup [type : {"operation"}, call : Call] \cup Response

TypeOK ==
  /\ CoordinatorTypeOK
  /\ page \in [Tab -> {"unopened", "open", "gone"}]
  /\ started \in [Tab -> BOOLEAN]
  /\ gatewayReady \in [Tab -> BOOLEAN]
  /\ pageSession \in [Tab -> Session \cup {None}]
  /\ caller \in [Request -> Tab \cup {None}]
  /\ callOf \in [Request -> Call \cup {None}]
  /\ answered \subseteq Request
  /\ toWorker \in [Tab -> Seq(InTransit)]
  /\ sharedRuntimeOwner \in [Tab -> BOOLEAN]
  /\ runtime \in [Tab -> {"off", "booting", "ready", "failed"}]
  /\ operationQueue \in [Tab -> Seq(Call)]
  /\ wizard \in [Tab -> Result]
  /\ sessionsUsed \subseteq Session
  /\ applied \in [Key -> Nat]
  /\ timedOut \subseteq Request

OwnerIsReady == owner # None /\ runtime[owner] = "ready"

(***************************************************************************)
(* However tabs open, close and crash, one tab at a time has started the   *)
(* OpenClaw runtime: the promise of docs/architecture.md, "Cross-tab       *)
(* runtime ownership", within one worker.  owner and owner-start travel on  *)
(* a port while the ownership they speak of may already have moved on.     *)
(***************************************************************************)
SingleRuntime ==
  \A t, u \in Tab : runtime[t] # "off" /\ runtime[u] # "off" => t = u

(***************************************************************************)
(* A cancel is a caller's last word about a session: the coordinator       *)
(* forgets the wizard and every answer on its response, whether or not the *)
(* Gateway did cancel.  What it says after one that failed is of a session *)
(* it no longer knows.                                                     *)
(***************************************************************************)
NothingCancelled ==
  \A r \in Request : callOf[r] # None => callOf[r].method # "wizard.cancel"

(***************************************************************************)
(* A wizard response on its way to a tab belongs to a call of that tab,    *)
(* and an answer gets the result of that very answer, whether it was       *)
(* forwarded, joined another tab's, or was answered from the cache; a      *)
(* start gets a session, unless somebody tried to cancel one.              *)
(***************************************************************************)
RepliesMatchCalls ==
  \A t \in Tab : \A i \in 1 .. Len(toTab[t]) :
     LET m == toTab[t][i] IN
     m.type = "response" =>
       LET c == callOf[m.id] IN
       /\ c.method # None => caller[m.id] = t
       /\ m.ok /\ WizardNextKey(c) # None => m.result.at = c.answer
       /\ m.ok /\ c.method = "wizard.start" /\ NothingCancelled
            => m.result.session # None

(***************************************************************************)
(* However many tabs send the same answer, a Gateway takes it once, unless *)
(* the call timed out at the host after the Gateway took it, more than     *)
(* MaxCached answers were taken in the same session, or somebody tried to  *)
(* cancel a session.                                                       *)
(***************************************************************************)
AnswerAppliedOnce ==
  \A k \in Key : applied[k] > 1 =>
     \/ \E r \in timedOut : WizardNextKey(callOf[r]) = k
     \/ Cardinality({j \in Key : j[1] = k[1] /\ applied[j] > 0}) > MaxCached
     \/ ~NothingCancelled

(***************************************************************************)
(* Once the owner's responses are in, the snapshot that a follower's       *)
(* wizard.start is answered with is the live Gateway's wizard, and there   *)
(* is one whenever that Gateway has a session.  A call that timed out at   *)
(* the host, and any attempt to cancel leave the coordinator without that  *)
(* knowledge.                                                              *)
(***************************************************************************)
SnapshotIsCurrent ==
  (/\ timedOut = {}
   /\ NothingCancelled
   /\ OwnerIsReady
   /\ \A i \in 1 .. Len(toWorker[owner]) :
        toWorker[owner][i].type # "response")
  => IF wizardSnapshot = None THEN wizard[owner].session = None
     ELSE wizardSnapshot = wizard[owner]

(***************************************************************************)
(* A tab that is told that the Gateway is ready is told of the Gateway of  *)
(* the coordinator's present owner (docs/architecture.md: only the owner   *)
(* holds the live Runtime and Gateway; readiness is replayed to            *)
(* followers).                                                             *)
(***************************************************************************)
ReadyIsTheOwners ==
  owner # None /\ readyMessage # None => readyMessage = owner

(***************************************************************************)
(* While the first owner's tab stays open, every call of a tab that stays  *)
(* open is answered, whether it was forwarded, joined another or was        *)
(* answered from memory.  The exception is an answer that two calls give   *)
(* while somebody tries to cancel the session: the response to the cancel  *)
(* clears wizardNextWaiters, and the call that joined hears nothing.       *)
(***************************************************************************)
OwnershipMoved == arrivals # <<>> /\ page[arrivals[1]] = "gone"

MayBeForgotten(r) ==
  /\ ~NothingCancelled
  /\ \E s \in Issued \ {r} :
       WizardNextKey(callOf[s]) = WizardNextKey(callOf[r])
  /\ callOf[r].method = "wizard.next"

CallsAreAnswered ==
  \A r \in Request :
     r \in Issued
       ~> \/ r \in answered
          \/ OwnershipMoved
          \/ r \in Issued /\ (page[caller[r]] = "gone" \/ MayBeForgotten(r))

(***************************************************************************)
(* Once some tab has asked for the runtime, the owner of the day starts    *)
(* it: a promotion never leaves the origin without a runtime, or one that  *)
(* boots, while a tab is connected.  Whether a boot ends is not said.      *)
(***************************************************************************)
PromotionRestoresRuntime ==
  (runtimeRequested /\ ports # {})
    ~> (ports = {} \/ (owner # None /\ runtime[owner] # "off"))

(***************************************************************************)
(* Every connected tab learns that the owner's Gateway is ready, whether   *)
(* it connected before or after, unless one of the two closes.             *)
(***************************************************************************)
ReadinessReachesTabs ==
  \A t \in Tab :
     (OwnerIsReady /\ t \in ports)
       ~> (gatewayReady[t] \/ page[t] = "gone" \/ ~OwnerIsReady)

(***************************************************************************)
(* A wizard.start that the coordinator receives while its owner's Gateway  *)
(* is ready is answered unless its tab or the owner goes: the coordinator  *)
(* forwards official Wizard RPC requests to that owner                     *)
(* (docs/architecture.md), after a promotion as before.                    *)
(***************************************************************************)
StartIsAnsweredByReadyOwner ==
  \A t \in Tab, r \in Request :
     (/\ OwnerIsReady
      /\ toWorker[t] # <<>>
      /\ Head(toWorker[t]).type = "operation"
      /\ Head(toWorker[t]).call.id = r
      /\ Head(toWorker[t]).call.method = "wizard.start")
       ~> (r \in answered \/ page[t] = "gone" \/ ~OwnerIsReady)

=============================================================================
