------------------------- MODULE SharedCoordinator -------------------------
(***************************************************************************)
(* The tab coordinator of src/src/openclaw-shared-worker.ts: a SharedWorker *)
(* that elects one tab's runtime iframe as the owner of the live OpenClaw   *)
(* Gateway, forwards the wizard calls of every tab to it, routes each       *)
(* response back, and keeps duplicate calls from reaching the Gateway       *)
(* twice.  One action below is one run of a message handler, which the      *)
(* worker's event loop never interleaves with another.                      *)
(*                                                                          *)
(* Left out: statusMessage and resultMessage (display text that is stored   *)
(* and broadcast unread), messages that byok-runtime.ts never posts         *)
(* (request identifiers and results of the wrong shape), and the catch of   *)
(* send(), which a structured clone of a received message cannot reach.     *)
(***************************************************************************)
EXTENDS Naturals, Sequences

CONSTANTS
  Tab,        \* the tabs, each with the one MessagePort its iframe opens
  Request,    \* request identifiers: crypto.randomUUID(), one per call
  Session,    \* wizard session identifiers the Gateway hands out
  Answer,     \* answers to wizard steps: (stepId, value) pairs
  MaxCached,  \* responses kept for repeated answers (32 in the code)
  None        \* JavaScript's undefined

Method == {"wizard.start", "wizard.next", "wizard.status", "wizard.cancel"}
Key == Session \X Answer

(***************************************************************************)
(* A capability attach or configure call carries no method: method = None. *)
(* A result is the wizard as the Gateway shows it: the last answer it took, *)
(* and the session, which only wizard.start reports.                        *)
(***************************************************************************)
Call == [id : Request, method : Method \cup {None},
         session : Session \cup {None}, answer : Answer \cup {None}]
Result == [session : Session \cup {None}, at : Answer \cup {None}]
Response ==
       [type : {"response"}, id : Request, ok : {TRUE}, result : Result]
  \cup [type : {"response"}, id : Request, ok : {FALSE}, result : {None}]

\* Only the response of an answer that was taken is kept for repeated ones.
Entry == [key : Key, response : {m \in Response : m.ok}]

ASSUME NoneAssumption ==
  None \notin Tab \cup Request \cup Session \cup Answer \cup Method \cup Key
              \cup Result
ASSUME MaxCachedAssumption == MaxCached \in Nat \ {0}

Message ==
       [type : {"owner", "follower", "owner-start"}]
  \cup [type : {"owner-input"}, call : Call]
  \cup [type : {"ready"}, from : Tab, shared : BOOLEAN]
  \cup Response

VARIABLES
  ports,                    \* the connected ports ...
  arrivals,                 \* ... and the order in which ports were added
  owner,                    \* the port of the tab that runs the Gateway
  requestOwners,            \* the port that awaits a forwarded request
  requestMethods,           \* the method of a forwarded request
  requestWizardNextKeys,    \* the key of a forwarded answer
  wizardNextInFlight,       \* keys of the answers the owner is working on
  wizardNextResponseCache,  \* the last responses to answers, oldest first
  wizardNextWaiters,        \* repeated answers, by key, then by port
  wizardStartInFlight,      \* whether the owner is working on wizard.start
  wizardStartWaiters,       \* further wizard.start requests, by port
  wizardSessionId, wizardSnapshot,  \* the live wizard, as last reported
  readyMessage,             \* the tab whose Gateway was last announced
  runtimeRequested,         \* whether some tab asked for the runtime
  toTab                     \* messages posted to each port, in order

dedupVars == <<requestWizardNextKeys, wizardNextInFlight,
               wizardNextResponseCache, wizardNextWaiters>>
startVars == <<wizardStartInFlight, wizardStartWaiters>>
wizardVars == <<wizardSessionId, wizardSnapshot>>
portVars == <<ports, arrivals, owner, readyMessage, runtimeRequested>>
requestVars == <<requestOwners, requestMethods>>
coordinatorVars == <<portVars, requestVars, dedupVars, startVars, wizardVars,
                     toTab>>

NoWaiters == [t \in Tab |-> <<>>]
NoneTracked == [r \in Request |-> None]
CachedKeys == {wizardNextResponseCache[i].key :
                 i \in 1 .. Len(wizardNextResponseCache)}

CoordinatorInit ==
  /\ ports = {} /\ arrivals = <<>> /\ owner = None
  /\ requestOwners = NoneTracked
  /\ requestMethods = NoneTracked
  /\ requestWizardNextKeys = NoneTracked
  /\ wizardNextInFlight = {}
  /\ wizardNextResponseCache = <<>>
  /\ wizardNextWaiters = [k \in Key |-> NoWaiters]
  /\ wizardStartInFlight = FALSE
  /\ wizardStartWaiters = NoWaiters
  /\ wizardSessionId = None /\ wizardSnapshot = None
  /\ readyMessage = None
  /\ runtimeRequested = FALSE
  /\ toTab = [t \in Tab |-> <<>>]

-----------------------------------------------------------------------------
(***************************************************************************)
(* Posting.  What is posted to a port that has disconnected is lost.       *)
(***************************************************************************)
Only(p, messages) == [t \in Tab |-> IF t = p THEN messages ELSE <<>>]
Post(out) ==
  toTab' = [t \in Tab |-> IF t \in ports' THEN toTab[t] \o out[t] ELSE <<>>]

Ready(t) == [type |-> "ready", from |-> readyMessage', shared |-> t # owner']

\* Slip: the copies keep the identifier of the request that was forwarded.
AnsweringUnderLeaderId(m, requests) == [i \in 1 .. Len(requests) |-> m]

Answering(m, requests) ==
  [i \in 1 .. Len(requests) |-> [m EXCEPT !.id = requests[i]]]

ClearWizardNextDeduplication ==
  /\ requestWizardNextKeys' = NoneTracked
  /\ wizardNextInFlight' = {}
  /\ wizardNextResponseCache' = <<>>
  /\ wizardNextWaiters' = [k \in Key |-> NoWaiters]

(***************************************************************************)
(* The key under which an answer is recognised when it is sent again.      *)
(***************************************************************************)
WizardNextKey(c) ==
  IF c.method = "wizard.next" /\ c.session # None /\ c.answer # None
  THEN <<c.session, c.answer>>
  ELSE None

\* Slip: the response is not kept once its waiters are served.
ForgetWizardNextResponse(cache, k, m) == cache

RememberWizardNextResponse(cache, k, m) ==
  LET longer == Append(cache, [key |-> k, response |-> m])
  IN  IF Len(longer) > MaxCached THEN Tail(longer) ELSE longer

-----------------------------------------------------------------------------
\* Slip: the newest tab takes the ownership over.
ConnectAsOwner(p) ==
  /\ \A i \in 1 .. Len(arrivals) : arrivals[i] # p
  /\ ports' = ports \cup {p}
  /\ arrivals' = Append(arrivals, p)
  /\ owner' = p
  /\ UNCHANGED <<readyMessage, runtimeRequested>>
  /\ Post(Only(p, <<[type |-> "owner"]>>))
  /\ UNCHANGED <<requestVars, dedupVars, startVars, wizardVars>>

\* Slip: a joining tab is not told that the Gateway is ready already.
ConnectWithoutReplay(p) ==
  /\ \A i \in 1 .. Len(arrivals) : arrivals[i] # p
  /\ ports' = ports \cup {p}
  /\ arrivals' = Append(arrivals, p)
  /\ owner' = IF owner = None THEN p ELSE owner
  /\ UNCHANGED <<readyMessage, runtimeRequested>>
  /\ Post(Only(p,
       <<[type |-> IF owner = None THEN "owner" ELSE "follower"]>>))
  /\ UNCHANGED <<requestVars, dedupVars, startVars, wizardVars>>

(***************************************************************************)
(* Ports come and go; every port connects once.                            *)
(***************************************************************************)
Connect(p) ==
  /\ \A i \in 1 .. Len(arrivals) : arrivals[i] # p
  /\ ports' = ports \cup {p}
  /\ arrivals' = Append(arrivals, p)
  /\ owner' = IF owner = None THEN p ELSE owner
  /\ UNCHANGED <<readyMessage, runtimeRequested>>
  /\ Post(Only(p,
       <<[type |-> IF owner = None THEN "owner" ELSE "follower"]>>
       \o (IF readyMessage = None THEN <<>> ELSE <<Ready(p)>>)))
  /\ UNCHANGED <<requestVars, dedupVars, startVars, wizardVars>>

(***************************************************************************)
(* The oldest port left becomes the owner.  With no port left the code     *)
(* returns before it resets readyMessage.                                  *)
(***************************************************************************)
Oldest(p, among) ==
  \E i \in 1 .. Len(arrivals) :
     /\ arrivals[i] = p
     /\ \A j \in 1 .. (i - 1) : arrivals[j] \notin among

\* Slip: the promoted tab is not asked to start the runtime.
ChooseOwnerWithoutStart ==
  \/ /\ ports' = {}
     /\ owner' = None
     /\ UNCHANGED readyMessage
     /\ Post(NoWaiters)
  \/ \E next \in ports' :
       /\ Oldest(next, ports')
       /\ owner' = next
       /\ readyMessage' = None
       /\ Post(Only(next, <<[type |-> "owner"]>>))

ChooseOwner ==
  \/ /\ ports' = {}
     /\ owner' = None
     /\ UNCHANGED readyMessage
     /\ Post(NoWaiters)
  \/ \E next \in ports' :
       /\ Oldest(next, ports')
       /\ owner' = next
       /\ readyMessage' = None
       /\ Post(Only(next,
            <<[type |-> "owner"]>>
            \o (IF runtimeRequested THEN <<[type |-> "owner-start"]>>
                ELSE <<>>)))

DisconnectOwner(p) ==
  /\ p = owner
  /\ ports' = ports \ {p}
  /\ requestOwners' = NoneTracked
  /\ requestMethods' = NoneTracked
  /\ ClearWizardNextDeduplication
  /\ wizardSnapshot' = None
  /\ wizardSessionId' = None
  /\ wizardStartInFlight' = FALSE
  /\ wizardStartWaiters' = NoWaiters
  /\ ChooseOwner
  /\ UNCHANGED <<arrivals, runtimeRequested>>

DisconnectFollower(p) ==
  /\ p # owner
  /\ ports' = ports \ {p}
  /\ requestOwners' = [r \in Request |-> IF requestOwners[r] = p THEN None
                                         ELSE requestOwners[r]]
  /\ Post(NoWaiters)
  /\ UNCHANGED <<arrivals, owner, readyMessage, runtimeRequested,
                 requestMethods, dedupVars, startVars, wizardVars>>

Disconnect(p) == p \in ports /\ (DisconnectOwner(p) \/ DisconnectFollower(p))

RuntimeStart(p) ==
  /\ p \in ports
  /\ runtimeRequested' = TRUE
  /\ UNCHANGED <<ports, arrivals, owner, readyMessage>>
  /\ Post(Only(owner, <<[type |-> "owner-start"]>>))
  /\ UNCHANGED <<requestVars, dedupVars, startVars, wizardVars>>

-----------------------------------------------------------------------------
(***************************************************************************)
(* A call arrives: it is answered from what the worker remembers, joins an *)
(* identical call the owner is working on, or is forwarded to the owner.   *)
(***************************************************************************)
AnswerFromCache(p, c) ==
  /\ \E i \in 1 .. Len(wizardNextResponseCache) :
       /\ wizardNextResponseCache[i].key = WizardNextKey(c)
       /\ UNCHANGED portVars
       /\ Post(Only(p, <<[wizardNextResponseCache[i].response
                            EXCEPT !.id = c.id]>>))
  /\ UNCHANGED <<requestVars, dedupVars, startVars, wizardVars>>

JoinWizardNext(p, c) ==
  /\ WizardNextKey(c) \in wizardNextInFlight \ CachedKeys
  /\ wizardNextWaiters' =
       [wizardNextWaiters EXCEPT ![WizardNextKey(c)][p] = Append(@, c.id)]
  /\ UNCHANGED <<portVars, requestVars, requestWizardNextKeys,
                 wizardNextInFlight, wizardNextResponseCache, startVars,
                 wizardVars, toTab>>

AnswerFromSnapshot(p, c) ==
  /\ c.method = "wizard.start"
  /\ wizardSnapshot # None
  /\ UNCHANGED portVars
  /\ Post(Only(p, <<[type |-> "response", id |-> c.id, ok |-> TRUE,
                     result |-> wizardSnapshot]>>))
  /\ UNCHANGED <<requestVars, dedupVars, startVars, wizardVars>>

JoinWizardStart(p, c) ==
  /\ c.method = "wizard.start"
  /\ wizardSnapshot = None
  /\ wizardStartInFlight
  /\ wizardStartWaiters' = [wizardStartWaiters EXCEPT ![p] = Append(@, c.id)]
  /\ UNCHANGED <<portVars, requestVars, dedupVars, wizardStartInFlight,
                 wizardVars, toTab>>

Forward(p, c) ==
  /\ WizardNextKey(c) \notin wizardNextInFlight \cup CachedKeys
  /\ c.method = "wizard.start" => wizardSnapshot = None /\ ~wizardStartInFlight
  /\ requestOwners' = [requestOwners EXCEPT ![c.id] = p]
  /\ requestMethods' = [requestMethods EXCEPT ![c.id] = c.method]
  /\ requestWizardNextKeys' =
       [requestWizardNextKeys EXCEPT ![c.id] = WizardNextKey(c)]
  /\ wizardNextInFlight' =
       wizardNextInFlight \cup ({WizardNextKey(c)} \ {None})
  /\ wizardStartInFlight' = (wizardStartInFlight \/ c.method = "wizard.start")
  /\ UNCHANGED portVars
  /\ Post(Only(owner, <<[type |-> "owner-input", call |-> c]>>))
  /\ UNCHANGED <<wizardNextResponseCache, wizardNextWaiters,
                 wizardStartWaiters, wizardVars>>

Operation(p, c) ==
  /\ p \in ports
  /\ \/ AnswerFromCache(p, c)
     \/ JoinWizardNext(p, c)
     \/ AnswerFromSnapshot(p, c)
     \/ JoinWizardStart(p, c)
     \/ Forward(p, c)

-----------------------------------------------------------------------------
(***************************************************************************)
(* The owner's response to a forwarded call.  The wizard it reports is     *)
(* remembered; a new session or a cancelled one forgets every earlier      *)
(* answer; then the requester and whoever joined the call are answered.    *)
(***************************************************************************)
Tracked(r) == requestOwners[r] # None \/ requestMethods[r] # None

\* Slip: the wizard's progress after its start is not remembered.
ReportsStartOnly(m) == m.ok /\ requestMethods[m.id] = "wizard.start"

Reports(m) ==
  /\ m.ok
  /\ requestMethods[m.id] \in {"wizard.start", "wizard.next", "wizard.status"}
ChangesSession(m) ==
  /\ Reports(m)
  /\ m.result.session \notin {None, wizardSessionId}
  /\ wizardSessionId # None
Cancels(m) == requestMethods[m.id] = "wizard.cancel"

RememberWizardResult(m) ==
  \/ /\ Cancels(m)
     /\ wizardSnapshot' = None
     /\ wizardSessionId' = None
  \/ /\ Reports(m)
     /\ wizardSessionId' = IF m.result.session # None THEN m.result.session
                           ELSE wizardSessionId
     /\ wizardSnapshot' = [m.result EXCEPT !.session = wizardSessionId']
  \/ /\ ~Cancels(m) /\ ~Reports(m)
     /\ UNCHANGED wizardVars

\* Slip: who joined an answer is told of its success only.
JoinedNextOnSuccess(m) ==
  LET k == requestWizardNextKeys[m.id]
  IN  IF k = None \/ ~m.ok \/ ChangesSession(m) \/ Cancels(m) THEN NoWaiters
      ELSE wizardNextWaiters[k]

JoinedNext(m) ==
  LET k == requestWizardNextKeys[m.id]
  IN  IF k = None \/ ChangesSession(m) \/ Cancels(m) THEN NoWaiters
      ELSE wizardNextWaiters[k]
JoinedStart(m) ==
  IF requestMethods[m.id] = "wizard.start" THEN wizardStartWaiters
  ELSE NoWaiters

\* Slip: a failed response is kept for repeated answers as well.
SettleKeepingFailures(m) ==
  LET k == requestWizardNextKeys[m.id]
      forget == ChangesSession(m) \/ Cancels(m)
      cache == IF forget THEN <<>> ELSE wizardNextResponseCache
  IN
  /\ IF forget
     THEN /\ requestWizardNextKeys' = NoneTracked
          /\ wizardNextInFlight' = {}
          /\ wizardNextWaiters' = [j \in Key |-> NoWaiters]
     ELSE /\ requestWizardNextKeys' =
               [requestWizardNextKeys EXCEPT ![m.id] = None]
          /\ wizardNextInFlight' = wizardNextInFlight \ {k}
          /\ wizardNextWaiters' =
               [j \in Key |-> IF j = k THEN NoWaiters ELSE wizardNextWaiters[j]]
  /\ wizardNextResponseCache' =
       IF k # None THEN RememberWizardNextResponse(cache, k, m) ELSE cache

SettleDeduplication(m) ==
  LET k == requestWizardNextKeys[m.id]
      forget == ChangesSession(m) \/ Cancels(m)
      cache == IF forget THEN <<>> ELSE wizardNextResponseCache
  IN
  /\ IF forget
     THEN /\ requestWizardNextKeys' = NoneTracked
          /\ wizardNextInFlight' = {}
          /\ wizardNextWaiters' = [j \in Key |-> NoWaiters]
     ELSE /\ requestWizardNextKeys' =
               [requestWizardNextKeys EXCEPT ![m.id] = None]
          /\ wizardNextInFlight' = wizardNextInFlight \ {k}
          /\ wizardNextWaiters' =
               [j \in Key |-> IF j = k THEN NoWaiters ELSE wizardNextWaiters[j]]
  /\ wizardNextResponseCache' =
       IF k # None /\ m.ok THEN RememberWizardNextResponse(cache, k, m)
       ELSE cache

\* Slip: the flag is left set when the start is answered.
SettleStartKeepingFlag(m) ==
  /\ UNCHANGED wizardStartInFlight
  /\ wizardStartWaiters' = NoWaiters

SettleStart(m) ==
  IF requestMethods[m.id] = "wizard.start"
  THEN /\ wizardStartInFlight' = FALSE
       /\ wizardStartWaiters' = NoWaiters
  ELSE UNCHANGED startVars

RouteResponse(m) ==
  /\ Tracked(m.id)
  /\ requestOwners' = [requestOwners EXCEPT ![m.id] = None]
  /\ requestMethods' = [requestMethods EXCEPT ![m.id] = None]
  /\ RememberWizardResult(m)
  /\ SettleDeduplication(m)
  /\ SettleStart(m)
  /\ UNCHANGED portVars
  /\ Post([t \in Tab |->
       (IF t = requestOwners[m.id] THEN <<m>> ELSE <<>>)
       \o Answering(m, JoinedNext(m)[t])
       \o Answering(m, JoinedStart(m)[t])])

(***************************************************************************)
(* A response nobody waits for any more is broadcast.                      *)
(***************************************************************************)
BroadcastResponse(m) ==
  /\ ~Tracked(m.id)
  /\ UNCHANGED <<portVars, requestVars, dedupVars, startVars, wizardVars>>
  /\ Post([t \in Tab |-> <<m>>])

OwnerResponse(p, m) ==
  /\ p \in ports /\ p = owner
  /\ RouteResponse(m) \/ BroadcastResponse(m)

GatewayReady(p) ==
  /\ p \in ports /\ p = owner
  /\ readyMessage' = p
  /\ UNCHANGED <<ports, arrivals, owner, runtimeRequested>>
  /\ Post([t \in Tab |-> <<Ready(t)>>])
  /\ UNCHANGED <<requestVars, dedupVars, startVars, wizardVars>>

(***************************************************************************)
(* Output of a tab that is not the owner (any more) is ignored.            *)
(***************************************************************************)
IgnoreOutput(p) ==
  /\ p \in ports /\ p # owner
  /\ UNCHANGED coordinatorVars

-----------------------------------------------------------------------------
(***************************************************************************)
(* The coordinator among arbitrary tabs: any port may post any message at  *)
(* any time, and takes what was posted to it.  A request identifier is not *)
(* reused while its request is tracked.                                    *)
(***************************************************************************)
Take(p) ==
  /\ toTab[p] # <<>>
  /\ toTab' = [toTab EXCEPT ![p] = Tail(@)]
  /\ UNCHANGED <<portVars, requestVars, dedupVars, startVars, wizardVars>>

PortStep(p) ==
  \/ Connect(p)
  \/ Disconnect(p)
  \/ RuntimeStart(p)
  \/ \E c \in Call : ~Tracked(c.id) /\ Operation(p, c)
  \/ \E m \in Response : OwnerResponse(p, m)
  \/ GatewayReady(p)
  \/ IgnoreOutput(p)
  \/ Take(p)

CoordinatorNext == \E p \in Tab : PortStep(p)

CoordinatorSpec == CoordinatorInit /\ [][CoordinatorNext]_coordinatorVars

-----------------------------------------------------------------------------
CoordinatorTypeOK ==
  /\ ports \subseteq Tab
  /\ arrivals \in Seq(Tab)
  /\ owner \in Tab \cup {None}
  /\ requestOwners \in [Request -> Tab \cup {None}]
  /\ requestMethods \in [Request -> Method \cup {None}]
  /\ requestWizardNextKeys \in [Request -> Key \cup {None}]
  /\ wizardNextInFlight \subseteq Key
  /\ wizardNextResponseCache \in Seq(Entry)
  /\ wizardNextWaiters \in [Key -> [Tab -> Seq(Request)]]
  /\ wizardStartInFlight \in BOOLEAN
  /\ wizardStartWaiters \in [Tab -> Seq(Request)]
  /\ wizardSessionId \in Session \cup {None}
  /\ wizardSnapshot \in Result \cup {None}
  /\ readyMessage \in Tab \cup {None}
  /\ runtimeRequested \in BOOLEAN
  /\ toTab \in [Tab -> Seq(Message)]

(***************************************************************************)
(* There is an owner exactly while some port is connected, it is one of    *)
(* them, and every tracked requester is still connected.                   *)
(***************************************************************************)
OwnerIsConnected ==
  /\ owner = None <=> ports = {}
  /\ owner # None => owner \in ports
  /\ \A r \in Request : requestOwners[r] # None => requestOwners[r] \in ports

(***************************************************************************)
(* Duplicates are recognised by flags and keys kept apart from the request *)
(* maps.  Each flag or key in flight stands for exactly one request the    *)
(* owner still owes a response, so that the response settles it.  If the   *)
(* two came apart, a wizard.start or an answer would join a call that      *)
(* nobody is working on, and wait for ever.                                *)
(***************************************************************************)
StartInFlightIsTracked ==
  /\ wizardStartInFlight =>
       \E r \in Request : requestMethods[r] = "wizard.start"
  /\ \A r \in Request :
       requestMethods[r] = "wizard.start" => wizardStartInFlight
  /\ \A r, s \in Request :
       requestMethods[r] = "wizard.start" /\ requestMethods[s] = "wizard.start"
         => r = s

NextInFlightIsTracked ==
  /\ \A k \in wizardNextInFlight :
       \E r \in Request : requestWizardNextKeys[r] = k
  /\ \A r \in Request : requestWizardNextKeys[r] # None =>
       /\ requestWizardNextKeys[r] \in wizardNextInFlight
       /\ requestMethods[r] = "wizard.next"
  /\ \A r, s \in Request :
       /\ requestWizardNextKeys[r] # None
       /\ requestWizardNextKeys[r] = requestWizardNextKeys[s]
       => r = s

(***************************************************************************)
(* Whoever joined a call is attached to one that is in flight: no code     *)
(* path removes the leader and leaves its followers behind.                *)
(***************************************************************************)
WaitersHaveALeader ==
  /\ \A k \in Key : wizardNextWaiters[k] # NoWaiters => k \in wizardNextInFlight
  /\ wizardStartWaiters # NoWaiters => wizardStartInFlight

(***************************************************************************)
(* The response cache holds at most MaxCached answers, each once, and none *)
(* that the owner is working on: a repeated answer has one source.         *)
(***************************************************************************)
CacheIsExclusive ==
  /\ Len(wizardNextResponseCache) <= MaxCached
  /\ \A i, j \in 1 .. Len(wizardNextResponseCache) :
       wizardNextResponseCache[i].key = wizardNextResponseCache[j].key => i = j
  /\ CachedKeys \cap wizardNextInFlight = {}

(***************************************************************************)
(* The snapshot a later wizard.start is answered with belongs to the       *)
(* session the coordinator believes to be live, and there is one exactly   *)
(* while a session is live.                                                *)
(***************************************************************************)
SnapshotOfLiveSession ==
  /\ wizardSnapshot # None => wizardSnapshot.session = wizardSessionId
  /\ wizardSessionId # None => wizardSnapshot # None

CoordinatorInv ==
  /\ OwnerIsConnected
  /\ StartInFlightIsTracked
  /\ NextInFlightIsTracked
  /\ WaitersHaveALeader
  /\ CacheIsExclusive
  /\ SnapshotOfLiveSession

=============================================================================
