-------------------------- MODULE SharedWizardProofs --------------------------
(***************************************************************************)
(* Theorems about the wizard of the shared runtime, for any number of       *)
(* tabs, calls, sessions and answers, with crashes and timeouts: whoever   *)
(* made a call gets the response to it, an answer is taken once, and the   *)
(* snapshot is the wizard of the live Gateway.                             *)
(***************************************************************************)
EXTENDS SharedRuntimeProofs, FiniteSetTheorems

\* What the coordinator remembers of a request is what was called.
Recorded ==
  /\ \A p \in ports : \E i \in 1 .. Len(arrivals) : arrivals[i] = p
  /\ \A r \in Request : callOf[r] # None => callOf[r].id = r
  /\ \A t \in Tab : \A i \in 1 .. Len(toWorker[t]) :
       toWorker[t][i].type = "operation" =>
         /\ callOf[toWorker[t][i].call.id] = toWorker[t][i].call
         /\ caller[toWorker[t][i].call.id] = t
  /\ \A r \in Request :
       /\ requestOwners[r] # None => requestOwners[r] = caller[r]
       /\ requestMethods[r] # None => requestMethods[r] = callOf[r].method
       /\ requestWizardNextKeys[r] # None =>
            requestWizardNextKeys[r] = WizardNextKey(callOf[r])

\* Whoever joined a call made the same call.
JoinedIsSame ==
  /\ \A k \in Key, t \in Tab : \A i \in 1 .. Len(wizardNextWaiters[k][t]) :
       LET r == wizardNextWaiters[k][t][i] IN
       callOf[r] # None /\ caller[r] = t /\ WizardNextKey(callOf[r]) = k
  /\ \A t \in Tab : \A i \in 1 .. Len(wizardStartWaiters[t]) :
       LET r == wizardStartWaiters[t][i] IN
       callOf[r] # None /\ caller[r] = t /\ callOf[r].method = "wizard.start"

\* The worker takes, or may some day take, what is on the port's way to it.
Heard(t) == t \in ports \/ \A i \in 1 .. Len(arrivals) : arrivals[i] # t

\* A call is worked on from when the coordinator forwards it until it takes
\* the response: on the port to the owner, in the owner's queue, on the port
\* back.
Inputs(t) == {i \in 1 .. Len(toTab[t]) : toTab[t][i].type = "owner-input"}
Outputs(t) == {i \in 1 .. Len(toWorker[t]) : toWorker[t][i].type = "response"}
Work(t) ==
  {<<"input", i>> : i \in Inputs(t)}
    \cup {<<"queue", i>> : i \in 1 .. Len(operationQueue[t])}
    \cup {<<"output", i>> : i \in {j \in Outputs(t) : Heard(t)}}
Item(t, w) ==
  CASE w[1] = "input" -> toTab[t][w[2]].call
    [] w[1] = "queue" -> operationQueue[t][w[2]]
    [] OTHER -> toWorker[t][w[2]]

OfWizard(r) == callOf[r].method # None
Awaited(r) ==
  /\ callOf[r] # None
  /\ OfWizard(r) => requestMethods[r] = callOf[r].method
Suits(m, c) ==
  m.ok => /\ WizardNextKey(c) # None => m.result.at = c.answer
          /\ c.method = "wizard.start" <=> m.result.session # None
IsOf(t, w) ==
  LET c == callOf[Item(t, w).id] IN
  IF w[1] = "output" THEN Suits(Item(t, w), c) ELSE Item(t, w) = c

\* Calls are worked on for the owner of the day, and the coordinator awaits
\* the response; a call of the wizard is in one place at a time.
WorkIsAwaited ==
  \A t \in Tab : \A w \in Work(t) :
    t = owner /\ Awaited(Item(t, w).id) /\ IsOf(t, w)
WorkIsUnique ==
  \A t \in Tab : \A v, w \in Work(t) :
    OfWizard(Item(t, v).id) /\ Item(t, v).id = Item(t, w).id => v = w

\* A remembered answer is the answer to its key.
CacheIsRight ==
  \A i \in 1 .. Len(wizardNextResponseCache) :
    LET e == wizardNextResponseCache[i] IN
    e.response.ok /\ e.response.result.at = e.key[2]
                  /\ e.response.result.session = None

RepliesAreCalled ==
  \A t \in Tab : \A i \in 1 .. Len(toTab[t]) :
    toTab[t][i].type = "response" => callOf[toTab[t][i].id] # None

\* Sessions are the ones a Gateway handed out.
SessionsAreUsed ==
  LET used == sessionsUsed \cup {None} IN
  /\ wizardSessionId \in used
  /\ \A t \in Tab : wizard[t].session \in used /\ pageSession[t] \in used
  /\ \A r \in Request : callOf[r] # None => callOf[r].session \in used
  /\ \A t \in Tab : \A i \in 1 .. Len(toTab[t]) :
       toTab[t][i].type = "response" /\ toTab[t][i].ok =>
         toTab[t][i].result.session \in used
  /\ \A t \in Tab : \A i \in 1 .. Len(toWorker[t]) :
       toWorker[t][i].type = "response" /\ toWorker[t][i].ok =>
         toWorker[t][i].result.session \in used
  /\ \A k \in Key : applied[k] > 0 => k[1] \in sessionsUsed

\* A Gateway that is not ready has no wizard, and what precedes it left no
\* memory of one.
NothingRemembered ==
  wizardNextResponseCache = <<>> /\ wizardSessionId = None /\ wizardSnapshot = None
StartsAfresh ==
  /\ \A t \in Tab : runtime[t] # "ready" =>
       wizard[t] = NoWizard /\ operationQueue[t] = <<>>
  /\ owner = None => NothingRemembered
  /\ owner # None /\ page[owner] # "gone" /\ runtime[owner] # "ready" =>
       /\ NothingRemembered
       /\ \A i \in 1 .. Len(toWorker[owner]) :
            toWorker[owner][i].type # "response"

\* The responses on their way to the worker that report what the wizard did.
Reporting ==
  IF owner = None THEN {}
  ELSE {i \in Outputs(owner) :
          toWorker[owner][i].ok /\ OfWizard(toWorker[owner][i].id)}
Report(i) == toWorker[owner][i]
CallReported(i) == callOf[toWorker[owner][i].id]

\* Who knows the live session has it from the coordinator, which remembers it.
Live == NothingCancelled /\ OwnerIsReady
LiveSession == wizard[owner].session
SessionIsReported ==
  /\ NothingCancelled =>
       /\ wizardSnapshot # None => wizardSessionId # None
       /\ \A i \in Reporting :
            CallReported(i).method # "wizard.start" => wizardSessionId # None
  /\ Live =>
       /\ wizardSessionId \in {None, LiveSession}
       /\ \A i \in Reporting : CallReported(i).method = "wizard.start" =>
            Report(i).result.session = LiveSession
  /\ Live /\ LiveSession # None /\ wizardSessionId # LiveSession =>
       /\ \A t \in Tab : pageSession[t] # LiveSession
       /\ \A r \in Request : callOf[r] # None => callOf[r].session # LiveSession
       /\ \A t \in Tab : \A i \in 1 .. Len(toTab[t]) :
            toTab[t][i].type = "response" /\ toTab[t][i].ok =>
              toTab[t][i].result.session # LiveSession

\* The last report on its way to the worker, or else the snapshot, is the
\* state of the wizard.
SnapshotFollows ==
  Live /\ timedOut = {} =>
    /\ LiveSession = None => wizardSessionId = None /\ Reporting = {}
    /\ LiveSession # None /\ wizardSessionId = None => Reporting # {}
    /\ wizardSessionId # None => \A i \in Reporting :
         CallReported(i).method # "wizard.start"
    /\ \A i \in Reporting : (\A j \in Reporting : j <= i) =>
         Report(i).result.at = wizard[owner].at
    /\ Reporting = {} /\ wizardSnapshot # None =>
         wizardSnapshot = wizard[owner]

\* An answer that was taken is remembered, or its response is on its way,
\* or it is one of the excepted.
Taken == {k \in Key : applied[k] > 0}
Excepted(k) ==
  \/ \E r \in timedOut : WizardNextKey(callOf[r]) = k
  \/ Cardinality({j \in Key : j[1] = k[1] /\ applied[j] > 0}) > MaxCached
KeysAreKept ==
  NothingCancelled /\ owner # None /\ page[owner] # "gone" =>
    \A w \in Work(owner) :
      LET r == Item(owner, w).id IN
      requestWizardNextKeys[r] = WizardNextKey(callOf[r])
AnswersAreRemembered ==
  /\ IsFiniteSet(Taken)
  /\ \A r \in timedOut : callOf[r] # None
  /\ AnswerAppliedOnce
  /\ Live =>
       /\ \A i \in Reporting :
            LET k == WizardNextKey(CallReported(i)) IN
            k # None => k[1] = LiveSession /\ applied[k] > 0
       /\ \A k \in CachedKeys : k[1] = LiveSession /\ applied[k] > 0
       /\ \A k \in Taken : k[1] = LiveSession =>
            \/ k \in CachedKeys
            \/ \E i \in Reporting : WizardNextKey(CallReported(i)) = k
            \/ Excepted(k)

WizardInv ==
  /\ RuntimeInv
  /\ Recorded /\ JoinedIsSame
  /\ WorkIsAwaited /\ WorkIsUnique
  /\ RepliesMatchCalls /\ CacheIsRight /\ RepliesAreCalled
  /\ SessionsAreUsed /\ StartsAfresh
  /\ SessionIsReported /\ SnapshotFollows
  /\ KeysAreKept /\ AnswersAreRemembered

-----------------------------------------------------------------------------
(***************************************************************************)
(* What a step does to calls and channels.                                 *)
(***************************************************************************)
\* What was called stays so.
LEMMA CallsKept ==
  ASSUME TypeOK, [Next]_vars
  PROVE  /\ \A r \in Request : callOf[r] # None =>
              callOf'[r] = callOf[r] /\ caller'[r] = caller[r]
         /\ (\A t \in Tab : ~PostRuntimeRequest(t)) => UNCHANGED <<callOf, caller>>
         /\ NothingCancelled' => NothingCancelled
<1>1. ASSUME NEW t \in Tab, PostRuntimeRequest(t)
      PROVE  \A r \in Request : callOf[r] # None =>
               callOf'[r] = callOf[r] /\ caller'[r] = caller[r]
  <2>1. PICK c \in Call : /\ callOf[c.id] = None
                          /\ caller' = [caller EXCEPT ![c.id] = t]
                          /\ callOf' = [callOf EXCEPT ![c.id] = c]
    BY <1>1, CallPosted
  <2> QED
    BY <2>1 DEF TypeOK
<1>2. ASSUME NEW t \in Tab,
             \/ Open(t) \/ Close(t) \/ Crash(t) \/ StartOnboardingRuntime(t)
             \/ WorkerConnect(t) \/ WorkerReceive(t) \/ TabReceive(t)
             \/ BootSucceeds(t) \/ BootFails(t) \/ RunOperation(t)
      PROVE  UNCHANGED <<callOf, caller>>
  BY <1>2
  DEF Open, Close, Crash, StopRuntime, StartOnboardingRuntime, WorkerConnect,
      WorkerReceive, TabReceive, BecomeOwner, BecomeFollower, StartSharedOwner,
      OwnerInput, LearnReady, TakeResponse, BootSucceeds, BootFails,
      RunOperation, pageVars
<1>3. UNCHANGED vars => UNCHANGED <<callOf, caller>>
  BY DEF vars, pageVars
<1>4. /\ \A r \in Request : callOf[r] # None =>
           callOf'[r] = callOf[r] /\ caller'[r] = caller[r]
      /\ (\A t \in Tab : ~PostRuntimeRequest(t)) => UNCHANGED <<callOf, caller>>
  BY <1>1, <1>2, <1>3 DEF Next
<1> QED
  BY <1>4 DEF NothingCancelled

\* The worker's way of taking a message.
LEMMA Heads ==
  ASSUME TypeOK, NEW t \in Tab, WorkerReceive(t)
  PROVE  /\ Head(toWorker[t]) = toWorker[t][1] /\ 1 \in 1 .. Len(toWorker[t])
         /\ Head(toWorker[t]) \in InTransit
         /\ t \in ports
         /\ toWorker[t] \in Seq(InTransit) /\ toWorker[t] # <<>>
         /\ toWorker' = [toWorker EXCEPT ![t] = Tail(@)]
         /\ UNCHANGED <<pageVars, runtimeVars, gatewayVars>>
BY Received DEF WorkerReceive, TypeOK

\* What a list holds without its first element, and with another one.
LEMMA TailElements ==
  ASSUME NEW X, NEW s \in Seq(X), s # <<>>
  PROVE  /\ Len(s) \in Nat \ {0} /\ Len(Tail(s)) = Len(s) - 1
         /\ Head(s) = s[1] /\ Head(s) \in X /\ Tail(s) \in Seq(X)
         /\ \A i \in 1 .. Len(Tail(s)) :
              i + 1 \in 1 .. Len(s) /\ Tail(s)[i] = s[i + 1]
         /\ \A i \in 1 .. Len(s) : i # 1 =>
              i - 1 \in 1 .. Len(Tail(s)) /\ Tail(s)[i - 1] = s[i]
<1>1. /\ Tail(s) \in Seq(X) /\ Len(Tail(s)) = Len(s) - 1 /\ Head(s) \in X
      /\ \A i \in 1 .. Len(Tail(s)) : Tail(s)[i] = s[i + 1]
  BY HeadTailProperties
<1>2. Len(s) \in Nat \ {0} /\ Head(s) = s[1]
  BY EmptySeq
<1> QED
  BY <1>1, <1>2

LEMMA AppendElements ==
  ASSUME NEW X, NEW s \in Seq(X), NEW e \in X
  PROVE  /\ Append(s, e) \in Seq(X) /\ Len(s) \in Nat
         /\ Len(Append(s, e)) = Len(s) + 1
         /\ \A i \in 1 .. Len(s) :
              i \in 1 .. Len(Append(s, e)) /\ Append(s, e)[i] = s[i]
         /\ Append(s, e)[Len(s) + 1] = e
         /\ \A i \in 1 .. Len(Append(s, e)) :
              \/ i \in 1 .. Len(s) /\ Append(s, e)[i] = s[i]
              \/ i = Len(s) + 1 /\ Append(s, e)[i] = e
<1>1. /\ Append(s, e) \in Seq(X)
      /\ Len(Append(s, e)) = Len(s) + 1
      /\ \A i \in 1 .. Len(s) : Append(s, e)[i] = s[i]
      /\ Append(s, e)[Len(s) + 1] = e
  BY AppendProperties
<1>2. Len(s) \in Nat
  BY LenProperties
<1> QED
  BY <1>1, <1>2

LEMMA ConcatElements ==
  ASSUME NEW X, NEW s \in Seq(X), NEW e \in Seq(X), NEW i \in 1 .. Len(s \o e)
  PROVE  \/ \E k \in 1 .. Len(s) : (s \o e)[i] = s[k]
         \/ \E k \in 1 .. Len(e) : (s \o e)[i] = e[k]
<1>1. /\ Len(s \o e) = Len(s) + Len(e)
      /\ \A k \in 1 .. Len(s) + Len(e) :
           (s \o e)[k] = IF k <= Len(s) THEN s[k] ELSE e[k - Len(s)]
      /\ Len(s) \in Nat /\ Len(e) \in Nat
  BY ConcatProperties, LenProperties
<1>2. i > Len(s) => i - Len(s) \in 1 .. Len(e)
  BY <1>1
<1> QED
  BY <1>1, <1>2

-----------------------------------------------------------------------------
(***************************************************************************)
(* What the coordinator remembers of a request is what was called.         *)
(***************************************************************************)
\* The worker learns of a request only by taking the call.
LEMMA RecordsAfter ==
  ASSUME CoordinatorTypeOK, NEW t \in Tab, NEW m \in InTransit,
         m = Head(toWorker[t]), WorkerReceive(t), NEW r \in Request
  PROVE  \/ /\ requestOwners'[r] \in {None, requestOwners[r]}
            /\ requestMethods'[r] \in {None, requestMethods[r]}
            /\ requestWizardNextKeys'[r] \in {None, requestWizardNextKeys[r]}
         \/ /\ m.type = "operation" /\ m.call.id = r
            /\ requestOwners'[r] = t
            /\ requestMethods'[r] = m.call.method
            /\ requestWizardNextKeys'[r] = WizardNextKey(m.call)
<1> USE DEF requestVars, dedupVars, coordinatorVars
<1>1. CASE Disconnect(t)
  BY <1>1
  DEF Disconnect, DisconnectOwner, DisconnectFollower, NoneTracked,
      ClearWizardNextDeduplication, CoordinatorTypeOK
<1>2. CASE RuntimeStart(t) \/ GatewayReady(t) \/ IgnoreOutput(t)
  BY <1>2 DEF RuntimeStart, GatewayReady, IgnoreOutput
<1>3. CASE m.type = "operation" /\ Operation(t, m.call)
  <2>1. CASE Forward(t, m.call)
    BY <1>3, <2>1 DEF Forward, CoordinatorTypeOK
  <2>2. CASE ~Forward(t, m.call)
    BY <1>3, <2>2
    DEF Operation, AnswerFromCache, JoinWizardNext, AnswerFromSnapshot,
        JoinWizardStart
  <2> QED
    BY <2>1, <2>2
<1>4. CASE OwnerResponse(t, m)
  <2>1. CASE RouteResponse(m)
    BY <2>1
    DEF RouteResponse, SettleDeduplication, NoneTracked, CoordinatorTypeOK
  <2>2. CASE BroadcastResponse(m)
    BY <2>2 DEF BroadcastResponse
  <2> QED
    BY <1>4, <2>1, <2>2 DEF OwnerResponse
<1> QED
  BY <1>1, <1>2, <1>3, <1>4 DEF WorkerReceive

\* Ports that are connected have arrived.
LEMMA ArrivalsKept ==
  ASSUME TypeOK, OperationsAreNew, Recorded, [Next]_vars
  PROVE  /\ \A p \in ports' : \E i \in 1 .. Len(arrivals') : arrivals'[i] = p
         /\ \A i \in 1 .. Len(arrivals) :
              i \in 1 .. Len(arrivals') /\ arrivals'[i] = arrivals[i]
<1> USE DEF portVars, coordinatorVars
<1>1. [CoordinatorNext]_coordinatorVars
  BY StepIsCoordinators
<1>2. ASSUME NEW p \in Tab, Connect(p)
      PROVE  /\ \A q \in ports' : \E i \in 1 .. Len(arrivals') : arrivals'[i] = q
             /\ \A i \in 1 .. Len(arrivals) :
                  i \in 1 .. Len(arrivals') /\ arrivals'[i] = arrivals[i]
  <2>1. ports' = ports \cup {p} /\ arrivals' = Append(arrivals, p)
    BY <1>2 DEF Connect
  <2>2. arrivals \in Seq(Tab)
    BY DEF TypeOK, CoordinatorTypeOK
  <2>3. /\ Len(arrivals') = Len(arrivals) + 1 /\ Len(arrivals) \in Nat
        /\ arrivals'[Len(arrivals) + 1] = p
        /\ \A i \in 1 .. Len(arrivals) :
             i \in 1 .. Len(arrivals') /\ arrivals'[i] = arrivals[i]
    BY <2>1, <2>2, AppendElements
  <2>4. Len(arrivals) + 1 \in 1 .. Len(arrivals')
    BY <2>3
  <2> QED
    BY <2>1, <2>3, <2>4 DEF Recorded
<1>3. ASSUME NEW p \in Tab, PortStep(p), ~Connect(p)
      PROVE  ports' \subseteq ports /\ arrivals' = arrivals
  BY <1>3
  DEF PortStep, Disconnect, DisconnectOwner, DisconnectFollower, RuntimeStart,
      Operation, AnswerFromCache, JoinWizardNext, AnswerFromSnapshot,
      JoinWizardStart, Forward, OwnerResponse, RouteResponse, BroadcastResponse,
      GatewayReady, IgnoreOutput, Take
<1>4. UNCHANGED coordinatorVars => ports' = ports /\ arrivals' = arrivals
  OBVIOUS
<1> QED
  BY <1>1, <1>2, <1>3, <1>4 DEF CoordinatorNext, Recorded

\* Only by taking a message does the worker change its memory of the wizard.
LEMMA NothingRecorded ==
  ASSUME [Next]_vars, \A t \in Tab : ~WorkerReceive(t)
  PROVE  UNCHANGED <<requestVars, dedupVars, startVars, wizardVars>>
<1> USE DEF coordinatorVars
<1>1. ASSUME NEW t \in Tab,
             \/ Open(t) \/ Close(t) \/ Crash(t) \/ StartOnboardingRuntime(t)
             \/ PostRuntimeRequest(t) \/ BootSucceeds(t) \/ BootFails(t)
             \/ RunOperation(t)
      PROVE  UNCHANGED <<requestVars, dedupVars, startVars, wizardVars>>
  BY <1>1
  DEF Open, Close, Crash, StopRuntime, StartOnboardingRuntime,
      PostRuntimeRequest, BootSucceeds, BootFails, RunOperation
<1>2. ASSUME NEW t \in Tab, WorkerConnect(t) \/ TabReceive(t)
      PROVE  UNCHANGED <<requestVars, dedupVars, startVars, wizardVars>>
  BY <1>2 DEF WorkerConnect, Connect, TabReceive, Take
<1>3. UNCHANGED vars =>
        UNCHANGED <<requestVars, dedupVars, startVars, wizardVars>>
  BY DEF vars
<1> QED
  BY <1>1, <1>2, <1>3 DEF Next

\* What is new on the way to the worker.
LEMMA WorkerChannel ==
  ASSUME TypeOK, [Next]_vars
  PROVE  \A u \in Tab : \A i \in 1 .. Len(toWorker'[u]) :
           \/ \E k \in 1 .. Len(toWorker[u]) : toWorker'[u][i] = toWorker[u][k]
           \/ \E c \in Call :
                /\ toWorker'[u][i] = [type |-> "operation", call |-> c]
                /\ callOf[c.id] = None /\ callOf'[c.id] = c /\ caller'[c.id] = u
           \/ RunOperation(u) /\ toWorker'[u][i] \in Response
           \/ toWorker'[u][i].type \in {"disconnect", "start", "ready"}
<1> SUFFICES ASSUME NEW u \in Tab, NEW i \in 1 .. Len(toWorker'[u]),
                    ~ \E k \in 1 .. Len(toWorker[u]) :
                        toWorker'[u][i] = toWorker[u][k]
             PROVE  \/ \E c \in Call :
                         /\ toWorker'[u][i] = [type |-> "operation", call |-> c]
                         /\ callOf[c.id] = None
                         /\ callOf'[c.id] = c /\ caller'[c.id] = u
                    \/ RunOperation(u) /\ toWorker'[u][i] \in Response
                    \/ toWorker'[u][i].type \in {"disconnect", "start", "ready"}
  OBVIOUS
<1>1. ASSUME NEW t \in Tab, NEW m \in InTransit, Submit(t, m)
      PROVE  t = u /\ toWorker'[u][i] = m
  <2>1. \/ i \in 1 .. Len(toWorker[u]) /\ toWorker'[u][i] = toWorker[u][i]
        \/ u = t /\ i = Len(toWorker[t]) + 1 /\ toWorker'[u][i] = m
    BY <1>1, Submitted DEF TypeOK
  <2> QED
    BY <2>1
<1>2. ASSUME NEW t \in Tab,
             Close(t) \/ StartOnboardingRuntime(t) \/ BootSucceeds(t)
      PROVE  toWorker'[u][i].type \in {"disconnect", "start", "ready"}
  <2>1. PICK type \in {"disconnect", "start", "ready"} :
          Submit(t, [type |-> type])
    BY <1>2 DEF Close, StartOnboardingRuntime, BootSucceeds
  <2> QED
    BY <1>1, <2>1, InTransitMessages
<1>3. ASSUME NEW t \in Tab, PostRuntimeRequest(t)
      PROVE  \E c \in Call :
               /\ toWorker'[u][i] = [type |-> "operation", call |-> c]
               /\ callOf[c.id] = None /\ callOf'[c.id] = c /\ caller'[c.id] = u
  <2>1. PICK c \in Call :
          /\ callOf[c.id] = None
          /\ caller' = [caller EXCEPT ![c.id] = t]
          /\ callOf' = [callOf EXCEPT ![c.id] = c]
          /\ Submit(t, [type |-> "operation", call |-> c])
    BY <1>3, CallPosted
  <2>2. c.id \in Request /\ callOf \in [Request -> Call \cup {None}]
        /\ caller \in [Request -> Tab \cup {None}]
    BY DEF Call, TypeOK
  <2>3. callOf'[c.id] = c /\ caller'[c.id] = t
    BY <2>1, <2>2
  <2>4. t = u /\ toWorker'[u][i] = [type |-> "operation", call |-> c]
    BY <1>1, <2>1, InTransitMessages
  <2> QED
    BY <2>1, <2>3, <2>4
<1>4. ASSUME NEW t \in Tab, RunOperation(t)
      PROVE  RunOperation(u) /\ toWorker'[u][i] \in Response
  <2>1. PICK m \in Response : Submit(t, m)
    BY <1>4, OperationResponds
  <2> QED
    BY <1>1, <1>4, <2>1, InTransitMessages
<1>5. ASSUME NEW t \in Tab, WorkerReceive(t)
      PROVE  FALSE
  <2>1. \/ /\ u # t /\ i \in 1 .. Len(toWorker[u])
           /\ toWorker'[u][i] = toWorker[u][i]
        \/ /\ u = t /\ i + 1 \in 1 .. Len(toWorker[t]) /\ i \in Nat \ {0}
           /\ toWorker'[u][i] = toWorker[t][i + 1]
    BY <1>5, Received DEF TypeOK, WorkerReceive
  <2> QED
    BY <2>1
<1>6. ASSUME NEW t \in Tab,
             Open(t) \/ Crash(t) \/ WorkerConnect(t) \/ TabReceive(t)
             \/ BootFails(t)
      PROVE  toWorker' = toWorker
  BY <1>6 DEF Open, Crash, WorkerConnect, TabReceive, BootFails
<1>7. UNCHANGED vars => toWorker' = toWorker
  BY DEF vars
<1> QED
  BY <1>2, <1>3, <1>4, <1>5, <1>6, <1>7 DEF Next

\* What the coordinator remembers of a request stays what was called.
LEMMA RecordedStays ==
  ASSUME RuntimeInv, Recorded, [Next]_vars
  PROVE  Recorded'
<1>1. TypeOK /\ OperationsAreNew /\ CoordinatorTypeOK
  BY DEF RuntimeInv, TypeOK
<1>2. \A p \in ports' : \E i \in 1 .. Len(arrivals') : arrivals'[i] = p
  BY <1>1, ArrivalsKept
<1>3. \A r \in Request : callOf[r] # None =>
        callOf'[r] = callOf[r] /\ caller'[r] = caller[r]
  BY <1>1, CallsKept
<1>4. ASSUME NEW r \in Request, callOf'[r] # None
      PROVE  callOf'[r].id = r
  <2>1. CASE callOf'[r] = callOf[r]
    BY <1>4, <2>1 DEF Recorded
  <2>2. CASE callOf'[r] # callOf[r]
    <3>1. PICK t \in Tab : PostRuntimeRequest(t)
      BY <1>1, <2>2, CallsKept
    <3>2. PICK c \in Call : callOf' = [callOf EXCEPT ![c.id] = c]
      BY <1>1, <3>1, CallPosted
    <3> QED
      BY <1>1, <2>2, <3>2 DEF TypeOK, Call
  <2> QED
    BY <2>1, <2>2
<1>5. ASSUME NEW u \in Tab, NEW i \in 1 .. Len(toWorker'[u]),
             toWorker'[u][i].type = "operation"
      PROVE  /\ callOf'[toWorker'[u][i].call.id] = toWorker'[u][i].call
             /\ caller'[toWorker'[u][i].call.id] = u
  <2>1. CASE \E k \in 1 .. Len(toWorker[u]) : toWorker'[u][i] = toWorker[u][k]
    <3>1. PICK k \in 1 .. Len(toWorker[u]) : toWorker'[u][i] = toWorker[u][k]
      BY <2>1
    <3> DEFINE c == toWorker[u][k].call
    <3>2. toWorker[u][k] \in InTransit
      BY <1>1, ElementOfSeq DEF TypeOK
    <3>3. c.id \in Request /\ callOf[c.id] # None
      BY <1>1, <1>5, <3>1, <3>2, InTransitMessages
      DEF Call, OperationsAreNew, TransitIsUntracked
    <3>4. callOf[c.id] = c /\ caller[c.id] = u
      BY <1>5, <3>1 DEF Recorded
    <3> QED
      BY <1>3, <3>1, <3>3, <3>4
  <2>2. CASE \E c \in Call :
               /\ toWorker'[u][i] = [type |-> "operation", call |-> c]
               /\ callOf[c.id] = None /\ callOf'[c.id] = c /\ caller'[c.id] = u
    BY <2>2
  <2> QED
    BY <1>1, <1>5, <2>1, <2>2, WorkerChannel DEF Response
<1>6. ASSUME NEW r \in Request
      PROVE  /\ requestOwners'[r] # None => requestOwners'[r] = caller'[r]
             /\ requestMethods'[r] # None =>
                  requestMethods'[r] = callOf'[r].method
             /\ requestWizardNextKeys'[r] # None =>
                  requestWizardNextKeys'[r] = WizardNextKey(callOf'[r])
  <2>1. /\ requestOwners[r] # None => callOf[r] # None
        /\ requestMethods[r] # None => callOf[r] # None
        /\ requestWizardNextKeys[r] # None => requestMethods[r] # None
    <3>1. requestWizardNextKeys[r] # None => requestMethods[r] = "wizard.next"
      BY DEF RuntimeInv, CoordinatorInv, NextInFlightIsTracked
    <3>2. "wizard.next" # None
      BY NoneIsNoKey DEF Method
    <3> QED
      BY <1>1, <3>1, <3>2 DEF OperationsAreNew, TrackedIsIssued, Tracked
  <2>2. CASE /\ requestOwners'[r] \in {None, requestOwners[r]}
             /\ requestMethods'[r] \in {None, requestMethods[r]}
             /\ requestWizardNextKeys'[r] \in {None, requestWizardNextKeys[r]}
    BY <1>3, <2>1, <2>2 DEF Recorded
  <2>3. ASSUME NEW t \in Tab, WorkerReceive(t),
               Head(toWorker[t]).type = "operation",
               Head(toWorker[t]).call.id = r,
               requestOwners'[r] = t,
               requestMethods'[r] = Head(toWorker[t]).call.method,
               requestWizardNextKeys'[r] = WizardNextKey(Head(toWorker[t]).call)
        PROVE  /\ requestOwners'[r] = caller'[r]
               /\ requestMethods'[r] = callOf'[r].method
               /\ requestWizardNextKeys'[r] = WizardNextKey(callOf'[r])
    <3>1. /\ Head(toWorker[t]) = toWorker[t][1] /\ 1 \in 1 .. Len(toWorker[t])
          /\ UNCHANGED pageVars
      BY <1>1, <2>3, Heads
    <3>2. callOf[r] = Head(toWorker[t]).call /\ caller[r] = t
      BY <2>3, <3>1 DEF Recorded
    <3> QED
      BY <2>3, <3>1, <3>2 DEF pageVars
  <2>4. ASSUME NEW t \in Tab, WorkerReceive(t)
        PROVE  \/ /\ requestOwners'[r] \in {None, requestOwners[r]}
                  /\ requestMethods'[r] \in {None, requestMethods[r]}
                  /\ requestWizardNextKeys'[r]
                       \in {None, requestWizardNextKeys[r]}
               \/ /\ Head(toWorker[t]).type = "operation"
                  /\ Head(toWorker[t]).call.id = r
                  /\ requestOwners'[r] = t
                  /\ requestMethods'[r] = Head(toWorker[t]).call.method
                  /\ requestWizardNextKeys'[r]
                       = WizardNextKey(Head(toWorker[t]).call)
    BY <1>1, <2>4, Heads, RecordsAfter
  <2>5. (\A t \in Tab : ~WorkerReceive(t)) =>
          /\ requestOwners' = requestOwners
          /\ requestMethods' = requestMethods
          /\ requestWizardNextKeys' = requestWizardNextKeys
    BY NothingRecorded DEF requestVars, dedupVars
  <2> QED
    BY <2>2, <2>3, <2>4, <2>5
<1> QED
  BY <1>2, <1>4, <1>5, <1>6 DEF Recorded

\* Whoever waits was waiting already or has just made the same call.
LEMMA WaitersAfter ==
  ASSUME CoordinatorTypeOK, NEW t \in Tab, NEW m \in InTransit,
         m = Head(toWorker[t]), WorkerReceive(t)
  PROVE  /\ \A k \in Key, u \in Tab :
              \/ wizardNextWaiters'[k][u] \in {<<>>, wizardNextWaiters[k][u]}
              \/ /\ m.type = "operation" /\ WizardNextKey(m.call) = k /\ u = t
                 /\ wizardNextWaiters'[k][u]
                      = Append(wizardNextWaiters[k][u], m.call.id)
         /\ \A u \in Tab :
              \/ wizardStartWaiters'[u] \in {<<>>, wizardStartWaiters[u]}
              \/ /\ m.type = "operation" /\ m.call.method = "wizard.start"
                 /\ u = t
                 /\ wizardStartWaiters'[u]
                      = Append(wizardStartWaiters[u], m.call.id)
<1> USE DEF dedupVars, startVars, coordinatorVars, NoWaiters
<1>1. CASE Disconnect(t)
  BY <1>1
  DEF Disconnect, DisconnectOwner, DisconnectFollower,
      ClearWizardNextDeduplication, CoordinatorTypeOK
<1>2. CASE RuntimeStart(t) \/ GatewayReady(t) \/ IgnoreOutput(t)
  BY <1>2 DEF RuntimeStart, GatewayReady, IgnoreOutput
<1>3. CASE m.type = "operation" /\ Operation(t, m.call)
  <2>1. CASE JoinWizardNext(t, m.call)
    BY <1>3, <2>1 DEF JoinWizardNext, CoordinatorTypeOK
  <2>2. CASE JoinWizardStart(t, m.call)
    BY <1>3, <2>2 DEF JoinWizardStart, CoordinatorTypeOK
  <2>3. CASE ~JoinWizardNext(t, m.call) /\ ~JoinWizardStart(t, m.call)
    BY <1>3, <2>3
    DEF Operation, AnswerFromCache, Forward, AnswerFromSnapshot
  <2> QED
    BY <2>1, <2>2, <2>3
<1>4. CASE OwnerResponse(t, m)
  <2>1. CASE RouteResponse(m)
    <3>1. \A k \in Key, u \in Tab :
            wizardNextWaiters'[k][u] \in {<<>>, wizardNextWaiters[k][u]}
      <4>1. /\ wizardNextWaiters \in [Key -> [Tab -> Seq(Request)]]
            /\ \/ wizardNextWaiters' = [j \in Key |-> NoWaiters]
               \/ wizardNextWaiters' =
                    [j \in Key |-> IF j = requestWizardNextKeys[m.id]
                                   THEN NoWaiters ELSE wizardNextWaiters[j]]
        BY <2>1 DEF RouteResponse, SettleDeduplication, CoordinatorTypeOK
      <4> QED
        BY <4>1
    <3>2. \A u \in Tab :
            wizardStartWaiters'[u] \in {<<>>, wizardStartWaiters[u]}
      BY <2>1 DEF RouteResponse, SettleStart, CoordinatorTypeOK
    <3> QED
      BY <3>1, <3>2
  <2>2. CASE BroadcastResponse(m)
    BY <2>2 DEF BroadcastResponse
  <2> QED
    BY <1>4, <2>1, <2>2 DEF OwnerResponse
<1> QED
  BY <1>1, <1>2, <1>3, <1>4 DEF WorkerReceive

LEMMA JoinedStays ==
  ASSUME RuntimeInv, Recorded, JoinedIsSame, [Next]_vars
  PROVE  JoinedIsSame'
<1>1. TypeOK /\ CoordinatorTypeOK
  BY DEF RuntimeInv, TypeOK
<1>2. \A r \in Request : callOf[r] # None =>
        callOf'[r] = callOf[r] /\ caller'[r] = caller[r]
  BY <1>1, CallsKept
<1>3. /\ \A k \in Key, u \in Tab : wizardNextWaiters[k][u] \in Seq(Request)
      /\ \A u \in Tab : wizardStartWaiters[u] \in Seq(Request)
  BY <1>1 DEF CoordinatorTypeOK
<1>4. \A k \in Key, u \in Tab : \A i \in 1 .. Len(wizardNextWaiters[k][u]) :
        LET r == wizardNextWaiters[k][u][i] IN
        callOf'[r] # None /\ caller'[r] = u /\ WizardNextKey(callOf'[r]) = k
  BY <1>2, <1>3, ElementOfSeq DEF JoinedIsSame
<1>5. \A u \in Tab : \A i \in 1 .. Len(wizardStartWaiters[u]) :
        LET r == wizardStartWaiters[u][i] IN
        callOf'[r] # None /\ caller'[r] = u /\ callOf'[r].method = "wizard.start"
  BY <1>2, <1>3, ElementOfSeq DEF JoinedIsSame
<1>6. CASE \A t \in Tab : ~WorkerReceive(t)
  BY <1>4, <1>5, <1>6, NothingRecorded DEF JoinedIsSame, dedupVars, startVars
<1>7. ASSUME NEW t \in Tab, WorkerReceive(t)
      PROVE  JoinedIsSame'
  <2> DEFINE m == Head(toWorker[t])
  <2>1. /\ m = toWorker[t][1] /\ 1 \in 1 .. Len(toWorker[t])
        /\ m \in InTransit /\ UNCHANGED pageVars
    BY <1>1, <1>7, Heads
  <2>2. m.type = "operation" =>
          /\ m.call.id \in Request /\ m.call # None
          /\ callOf'[m.call.id] = m.call /\ caller'[m.call.id] = t
    BY <2>1, InTransitMessages, CallAssumption DEF Recorded, pageVars, Call
  <2>3. /\ \A k \in Key, u \in Tab :
             \/ wizardNextWaiters'[k][u] \in {<<>>, wizardNextWaiters[k][u]}
             \/ /\ m.type = "operation" /\ WizardNextKey(m.call) = k /\ u = t
                /\ wizardNextWaiters'[k][u]
                     = Append(wizardNextWaiters[k][u], m.call.id)
        /\ \A u \in Tab :
             \/ wizardStartWaiters'[u] \in {<<>>, wizardStartWaiters[u]}
             \/ /\ m.type = "operation" /\ m.call.method = "wizard.start"
                /\ u = t
                /\ wizardStartWaiters'[u]
                     = Append(wizardStartWaiters[u], m.call.id)
    BY <1>1, <1>7, <2>1, WaitersAfter
  <2> HIDE DEF m
  <2>4. ASSUME NEW k \in Key, NEW u \in Tab,
               NEW i \in 1 .. Len(wizardNextWaiters'[k][u])
        PROVE  LET r == wizardNextWaiters'[k][u][i] IN
               callOf'[r] # None /\ caller'[r] = u /\ WizardNextKey(callOf'[r]) = k
    <3>1. CASE wizardNextWaiters'[k][u] = <<>>
      BY <2>4, <3>1, EmptySeq
    <3>2. CASE wizardNextWaiters'[k][u] = wizardNextWaiters[k][u]
      BY <1>4, <2>4, <3>2
    <3>3. CASE /\ m.type = "operation" /\ WizardNextKey(m.call) = k /\ u = t
               /\ wizardNextWaiters'[k][u]
                    = Append(wizardNextWaiters[k][u], m.call.id)
      <4>1. \/ /\ i \in 1 .. Len(wizardNextWaiters[k][u])
               /\ wizardNextWaiters'[k][u][i] = wizardNextWaiters[k][u][i]
            \/ wizardNextWaiters'[k][u][i] = m.call.id
        BY <1>3, <2>2, <2>4, <3>3, AppendElements
      <4> QED
        BY <1>4, <2>2, <3>3, <4>1
    <3> QED
      BY <2>3, <3>1, <3>2, <3>3
  <2>5. ASSUME NEW u \in Tab, NEW i \in 1 .. Len(wizardStartWaiters'[u])
        PROVE  LET r == wizardStartWaiters'[u][i] IN
               /\ callOf'[r] # None /\ caller'[r] = u
               /\ callOf'[r].method = "wizard.start"
    <3>1. CASE wizardStartWaiters'[u] = <<>>
      BY <2>5, <3>1, EmptySeq
    <3>2. CASE wizardStartWaiters'[u] = wizardStartWaiters[u]
      BY <1>5, <2>5, <3>2
    <3>3. CASE /\ m.type = "operation" /\ m.call.method = "wizard.start"
               /\ u = t
               /\ wizardStartWaiters'[u]
                    = Append(wizardStartWaiters[u], m.call.id)
      <4>1. \/ /\ i \in 1 .. Len(wizardStartWaiters[u])
               /\ wizardStartWaiters'[u][i] = wizardStartWaiters[u][i]
            \/ wizardStartWaiters'[u][i] = m.call.id
        BY <1>3, <2>2, <2>5, <3>3, AppendElements
      <4> QED
        BY <1>5, <2>2, <3>3, <4>1
    <3> QED
      BY <2>3, <3>1, <3>2, <3>3
  <2> QED
    BY <2>4, <2>5 DEF JoinedIsSame
<1> QED
  BY <1>6, <1>7

-----------------------------------------------------------------------------
(***************************************************************************)
(* What the worker posts.                                                  *)
(***************************************************************************)
\* A reply the worker gives from its memory, and one of the owner's that it
\* passes on.
FromMemory(c, x) ==
  /\ x \in Response /\ x.id = c.id /\ x.ok
  /\ \/ \E i \in 1 .. Len(wizardNextResponseCache) :
          /\ wizardNextResponseCache[i].key = WizardNextKey(c)
          /\ x.result = wizardNextResponseCache[i].response.result
     \/ /\ c.method = "wizard.start" /\ wizardSnapshot # None
        /\ x.result = wizardSnapshot

PassedOn(m, u, x) ==
  /\ x \in Response /\ x.ok = m.ok /\ x.result = m.result
  /\ \/ x.id = m.id /\ u = requestOwners[m.id]
     \/ /\ requestWizardNextKeys[m.id] # None
        /\ \E i \in 1 .. Len(wizardNextWaiters[requestWizardNextKeys[m.id]][u]) :
             x.id = wizardNextWaiters[requestWizardNextKeys[m.id]][u][i]
     \/ /\ requestMethods[m.id] = "wizard.start"
        /\ \E i \in 1 .. Len(wizardStartWaiters[u]) :
             x.id = wizardStartWaiters[u][i]
     \/ ~Tracked(m.id) /\ x.id = m.id

\* What is new on a port, after a step of the worker.
Told(t, u, x) ==
  LET m == Head(toWorker[t]) IN
  \/ x.type \in {"owner", "follower", "owner-start", "ready"}
  \/ /\ WorkerReceive(t) /\ m.type = "operation" /\ Forward(t, m.call)
     /\ u = owner /\ x = [type |-> "owner-input", call |-> m.call]
  \/ /\ WorkerReceive(t) /\ m.type = "operation"
     /\ u = t /\ FromMemory(m.call, x)
  \/ /\ WorkerReceive(t) /\ m.type = "response" /\ OwnerResponse(t, m)
     /\ t = owner /\ PassedOn(m, u, x)

\* One message is posted at the end of its port.
LEMMA PostedOne ==
  ASSUME CoordinatorTypeOK, NEW p, NEW x \in Message, Post(Only(p, <<x>>)),
         NEW u \in Tab, NEW i \in 1 .. Len(toTab'[u])
  PROVE  /\ u \in ports'
         /\ \/ i \in 1 .. Len(toTab[u]) /\ toTab'[u][i] = toTab[u][i]
            \/ u = p /\ i = Len(toTab[u]) + 1 /\ toTab'[u][i] = x
<1>1. toTab[u] \in Seq(Message)
  BY DEF CoordinatorTypeOK
<1>2. CASE u \notin ports'
  BY <1>2, EmptySeq DEF Post
<1>3. CASE u \in ports' /\ u = p
  <2>1. toTab'[u] = toTab[u] \o <<x>>
    BY <1>3 DEF Post, Only
  <2>2. toTab'[u] = Append(toTab[u], x)
    BY <1>1, <2>1
  <2> QED
    BY <1>1, <1>3, <2>2, AppendElements
<1>4. CASE u \in ports' /\ u # p
  <2>1. toTab'[u] = toTab[u] \o <<>>
    BY <1>4 DEF Post, Only
  <2>2. toTab'[u] = toTab[u]
    BY <1>1, <2>1
  <2> QED
    BY <1>4, <2>2
<1> QED
  BY <1>2, <1>3, <1>4

\* A message that is passed on is the owner's response or a copy of it.
LEMMA RoutedElements ==
  ASSUME CoordinatorTypeOK, NEW m \in Response, RouteResponse(m),
         NEW u \in Tab, NEW i \in 1 .. Len(toTab'[u])
  PROVE  \/ i \in 1 .. Len(toTab[u]) /\ toTab'[u][i] = toTab[u][i]
         \/ PassedOn(m, u, toTab'[u][i])
<1> DEFINE first == IF u = requestOwners[m.id] THEN <<m>> ELSE <<>>
           next == JoinedNext(m)[u]
           start == JoinedStart(m)[u]
           out == [t \in Tab |->
             (IF t = requestOwners[m.id] THEN <<m>> ELSE <<>>)
             \o Answering(m, JoinedNext(m)[t])
             \o Answering(m, JoinedStart(m)[t])]
<1>1. /\ \A t \in Tab : JoinedNext(m)[t] \in Seq(Request)
      /\ \A t \in Tab : JoinedStart(m)[t] \in Seq(Request)
  BY JoinedType
<1>2. \A t \in Tab : /\ Answering(m, JoinedNext(m)[t]) \in Seq(Message)
                     /\ Answering(m, JoinedStart(m)[t]) \in Seq(Message)
  BY <1>1, AnsweringType
<1>3. m \in Message /\ <<m>> \in Seq(Message) /\ <<>> \in Seq(Message)
  BY ResponseMessage, EmptySeq
<1>4. out \in [Tab -> Seq(Message)]
  BY <1>2, <1>3, ConcatProperties
<1>5. Post(out)
  BY DEF RouteResponse
<1>6. out[u] = first \o Answering(m, next) \o Answering(m, start)
  OBVIOUS
<1> HIDE DEF out
<1>7. \/ i \in 1 .. Len(toTab[u]) /\ toTab'[u][i] = toTab[u][i]
      \/ \E j \in 1 .. Len(out[u]) : toTab'[u][i] = out[u][j]
  BY <1>4, <1>5, Posted
<1>8. next \in Seq(Request) /\ start \in Seq(Request) /\ first \in Seq(Message)
      /\ Answering(m, next) \in Seq(Message)
      /\ Answering(m, start) \in Seq(Message)
  BY <1>1, <1>2, <1>3
<1>9. /\ Len(Answering(m, next)) = Len(next)
      /\ Len(Answering(m, start)) = Len(start)
      /\ \A j \in 1 .. Len(next) :
           Answering(m, next)[j] = [m EXCEPT !.id = next[j]]
      /\ \A j \in 1 .. Len(start) :
           Answering(m, start)[j] = [m EXCEPT !.id = start[j]]
      /\ Len(next) \in Nat /\ Len(start) \in Nat /\ Len(first) \in Nat
  BY <1>8, LenProperties DEF Answering
<1> HIDE DEF first, next, start
<1>10. ASSUME NEW j \in 1 .. Len(out[u])
       PROVE  \/ \E k \in 1 .. Len(first) : out[u][j] = first[k]
              \/ \E k \in 1 .. Len(next) : out[u][j] = [m EXCEPT !.id = next[k]]
              \/ \E k \in 1 .. Len(start) :
                   out[u][j] = [m EXCEPT !.id = start[k]]
  <2> DEFINE N == Answering(m, next)
             S == Answering(m, start)
  <2>1. N \in Seq(Message) /\ S \in Seq(Message) /\ first \o N \in Seq(Message)
    BY <1>8, ConcatProperties
  <2>2. j \in 1 .. Len((first \o N) \o S) /\ out[u][j] = ((first \o N) \o S)[j]
    BY <1>6
  <2>3. /\ \A k \in 1 .. Len(N) : N[k] = [m EXCEPT !.id = next[k]]
        /\ \A k \in 1 .. Len(S) : S[k] = [m EXCEPT !.id = start[k]]
        /\ Len(N) = Len(next) /\ Len(S) = Len(start)
    BY <1>9
  <2> HIDE DEF N, S
  <2>4. \/ \E k \in 1 .. Len(first \o N) : out[u][j] = (first \o N)[k]
        \/ \E k \in 1 .. Len(S) : out[u][j] = S[k]
    BY <2>1, <2>2, ConcatElements
  <2>5. ASSUME NEW k \in 1 .. Len(first \o N)
        PROVE  \/ \E l \in 1 .. Len(first) : (first \o N)[k] = first[l]
               \/ \E l \in 1 .. Len(N) : (first \o N)[k] = N[l]
    <3>1. first \in Seq(Message) /\ N \in Seq(Message)
      BY <1>8, <2>1
    <3> HIDE DEF out
    <3> QED
      BY <3>1, ConcatElements
  <2>6. CASE \E k \in 1 .. Len(S) : out[u][j] = S[k]
    BY <2>3, <2>6
  <2>7. ASSUME NEW k \in 1 .. Len(first \o N), out[u][j] = (first \o N)[k]
        PROVE  \/ \E l \in 1 .. Len(first) : out[u][j] = first[l]
               \/ \E l \in 1 .. Len(next) : out[u][j] = [m EXCEPT !.id = next[l]]
    <3>1. CASE \E l \in 1 .. Len(first) : (first \o N)[k] = first[l]
      BY <2>7, <3>1
    <3>2. CASE \E l \in 1 .. Len(N) : (first \o N)[k] = N[l]
      BY <2>3, <2>7, <3>2
    <3> QED
      BY <2>5, <3>1, <3>2
  <2> QED
    BY <2>4, <2>6, <2>7
<1>11. ASSUME NEW r \in Request, NEW x, x = [m EXCEPT !.id = r]
       PROVE  x \in Response /\ x.ok = m.ok /\ x.result = m.result /\ x.id = r
  BY <1>11, Readdressed DEF Response
<1>12. ASSUME NEW x, \E k \in 1 .. Len(first) : x = first[k]
       PROVE  PassedOn(m, u, x)
  BY <1>12, EmptySeq DEF first, PassedOn
<1>13. ASSUME NEW x, NEW k \in 1 .. Len(next), x = [m EXCEPT !.id = next[k]]
       PROVE  PassedOn(m, u, x)
  <2>1. next[k] \in Request
    BY <1>8, ElementOfSeq
  <2>2. /\ requestWizardNextKeys[m.id] # None
        /\ next = wizardNextWaiters[requestWizardNextKeys[m.id]][u]
    BY <1>13, EmptySeq DEF next, JoinedNext, NoWaiters
  <2> QED
    BY <1>11, <1>13, <2>1, <2>2 DEF PassedOn
<1>14. ASSUME NEW x, NEW k \in 1 .. Len(start), x = [m EXCEPT !.id = start[k]]
       PROVE  PassedOn(m, u, x)
  <2>1. start[k] \in Request
    BY <1>8, ElementOfSeq
  <2>2. /\ requestMethods[m.id] = "wizard.start"
        /\ start = wizardStartWaiters[u]
    BY <1>14, EmptySeq DEF start, JoinedStart, NoWaiters
  <2> QED
    BY <1>11, <1>14, <2>1, <2>2 DEF PassedOn
<1> QED
  BY <1>7, <1>10, <1>12, <1>13, <1>14

\* What the worker posts, handler by handler.
LEMMA PostsAfter ==
  ASSUME TypeOK, CacheIsRight, NEW t \in Tab,
         WorkerConnect(t) \/ WorkerReceive(t),
         NEW u \in Tab, NEW i \in 1 .. Len(toTab'[u])
  PROVE  \/ i \in 1 .. Len(toTab[u]) /\ toTab'[u][i] = toTab[u][i]
         \/ /\ Told(t, u, toTab'[u][i])
            /\ toTab'[u][i].type = "owner-input" => i = Len(toTab[u]) + 1
<1> DEFINE m == Head(toWorker[t])
           kept == i \in 1 .. Len(toTab[u]) /\ toTab'[u][i] = toTab[u][i]
           role == {x \in Message :
                      x.type \in {"owner", "follower", "owner-start", "ready"}}
<1>1. CoordinatorTypeOK /\ Response \subseteq Message
  BY ResponseMessage DEF TypeOK
<1>2. ASSUME NEW out \in [Tab -> Seq(role)], Post(out)
      PROVE  kept \/ /\ Told(t, u, toTab'[u][i])
                     /\ toTab'[u][i].type # "owner-input"
  <2>1. out \in [Tab -> Seq(Message)]
    BY <1>2, SeqMonotonic
  <2>2. kept \/ \E j \in 1 .. Len(out[u]) : toTab'[u][i] = out[u][j]
    BY <1>1, <1>2, <2>1, Posted
  <2>3. out[u] \in Seq(role)
    BY <1>2
  <2>4. \A j \in 1 .. Len(out[u]) : out[u][j] \in role
    BY <2>3, ElementOfSeq
  <2>5. kept \/ toTab'[u][i] \in role
    BY <2>2, <2>4
  <2>6. toTab'[u][i] \in role =>
          toTab'[u][i].type \in {"owner", "follower", "owner-start", "ready"}
    OBVIOUS
  <2> HIDE DEF kept, role
  <2> QED
    BY <2>5, <2>6 DEF Told
<1>3. ASSUME NEW p, NEW x \in Message, Post(Only(p, <<x>>)),
             p \in Tab => Told(t, p, x)
      PROVE  kept \/ /\ Told(t, u, toTab'[u][i]) /\ i = Len(toTab[u]) + 1
                     /\ toTab'[u][i] = x
  BY <1>1, <1>3, PostedOne
<1>4. CASE WorkerConnect(t)
  <2> DEFINE told == <<[type |-> IF owner = None THEN "owner" ELSE "follower"]>>
                     \o (IF readyMessage = None THEN <<>> ELSE <<Ready(t)>>)
  <2>1. readyMessage # None => Ready(t) \in role
    BY <1>1, <1>4 DEF WorkerConnect, Connect, Ready, Message, CoordinatorTypeOK
  <2>2. [type |-> IF owner = None THEN "owner" ELSE "follower"] \in role
    BY RoleMessages
  <2> HIDE DEF role
  <2>3. told \in Seq(role)
    BY <2>1, <2>2
  <2>4. Post(Only(t, told))
    BY <1>4 DEF WorkerConnect, Connect
  <2> HIDE DEF told
  <2>5. Only(t, told) \in [Tab -> Seq(role)]
    BY <2>3, EmptySeq DEF Only
  <2> QED
    BY <1>2, <2>4, <2>5
<1>5. CASE WorkerReceive(t) /\ Disconnect(t)
  <2> DEFINE told == <<[type |-> "owner"]>>
                     \o (IF runtimeRequested THEN <<[type |-> "owner-start"]>>
                         ELSE <<>>)
  <2>1. told \in Seq(role)
    <3>1. [type |-> "owner"] \in role /\ [type |-> "owner-start"] \in role
      BY RoleMessages
    <3> HIDE DEF role
    <3> QED
      BY <3>1
  <2>2. Post(NoWaiters) \/ \E next \in ports' : Post(Only(next, told))
    BY <1>5 DEF Disconnect, DisconnectOwner, DisconnectFollower, ChooseOwner
  <2> HIDE DEF told, role
  <2>3. NoWaiters \in [Tab -> Seq(role)]
        /\ \A next : Only(next, told) \in [Tab -> Seq(role)]
    BY <2>1, EmptySeq DEF NoWaiters, Only
  <2> QED
    BY <1>2, <2>2, <2>3
<1>6. CASE WorkerReceive(t) /\ RuntimeStart(t)
  <2>1. [type |-> "owner-start"] \in Message
    BY RoleMessages
  <2>2. \A p : Told(t, p, [type |-> "owner-start"])
    BY DEF Told
  <2>3. Post(Only(owner, <<[type |-> "owner-start"]>>))
    BY <1>6 DEF RuntimeStart
  <2> QED
    BY <1>3, <2>1, <2>2, <2>3
<1>7. CASE WorkerReceive(t) /\ GatewayReady(t)
  <2>1. \A v \in Tab : Ready(v) \in role
    BY <1>7 DEF GatewayReady, Ready, Message
  <2> HIDE DEF role
  <2>2. [v \in Tab |-> <<Ready(v)>>] \in [Tab -> Seq(role)]
    BY <2>1
  <2>3. Post([v \in Tab |-> <<Ready(v)>>])
    BY <1>7 DEF GatewayReady
  <2> QED
    BY <1>2, <2>2, <2>3
<1>8. CASE WorkerReceive(t) /\ IgnoreOutput(t)
  BY <1>8 DEF IgnoreOutput, coordinatorVars
<1>9. CASE WorkerReceive(t) /\ m.type = "operation" /\ Operation(t, m.call)
  <2> DEFINE c == m.call
  <2>1. c \in Call /\ c.id \in Request
    <3>1. m \in InTransit
      BY <1>9, Heads
    <3> QED
      BY <1>9, <3>1, InTransitMessages DEF Call
  <2> HIDE DEF c, m, kept
  <2>2. CASE AnswerFromCache(t, c)
    <3>1. PICK k \in 1 .. Len(wizardNextResponseCache) :
            /\ wizardNextResponseCache[k].key = WizardNextKey(c)
            /\ Post(Only(t, <<[wizardNextResponseCache[k].response
                                 EXCEPT !.id = c.id]>>))
      BY <2>2 DEF AnswerFromCache
    <3> DEFINE x == [wizardNextResponseCache[k].response EXCEPT !.id = c.id]
    <3>2. wizardNextResponseCache[k] \in [key : Key, response : Response]
      BY <1>1, <3>1, ElementOfSeq, EntryType DEF CoordinatorTypeOK
    <3>3. /\ x \in Response /\ x.id = c.id
          /\ x.ok = wizardNextResponseCache[k].response.ok
          /\ x.result = wizardNextResponseCache[k].response.result
      BY <2>1, <3>2, Readdressed DEF Response
    <3>4. x.ok
      BY <3>3 DEF CacheIsRight
    <3> HIDE DEF x
    <3>5. Told(t, t, x)
      BY <1>9, <3>1, <3>3, <3>4 DEF Told, FromMemory, m, c
    <3> QED
      BY <1>1, <1>3, <3>1, <3>3, <3>5 DEF x, kept
  <2>3. CASE AnswerFromSnapshot(t, c)
    <3> DEFINE x == [type |-> "response", id |-> c.id, ok |-> TRUE,
                     result |-> wizardSnapshot]
    <3>1. x \in Response
      BY <1>1, <2>1, <2>3 DEF AnswerFromSnapshot, CoordinatorTypeOK, Response
    <3>2. Post(Only(t, <<x>>)) /\ c.method = "wizard.start" /\ wizardSnapshot # None
      BY <2>3 DEF AnswerFromSnapshot
    <3>3. Told(t, t, x)
      BY <1>9, <3>1, <3>2 DEF Told, FromMemory, m, c
    <3> HIDE DEF x
    <3> QED
      BY <1>1, <1>3, <3>1, <3>2, <3>3 DEF kept
  <2>4. CASE Forward(t, c)
    <3> DEFINE x == [type |-> "owner-input", call |-> c]
    <3>1. x \in Message
      BY <2>1, InputMessage
    <3>2. Post(Only(owner, <<x>>))
      BY <2>4 DEF Forward
    <3>3. Told(t, owner, x)
      BY <1>9, <2>4 DEF Told, m, c
    <3> HIDE DEF x
    <3> QED
      BY <1>3, <3>1, <3>2, <3>3 DEF kept
  <2>5. CASE JoinWizardNext(t, c) \/ JoinWizardStart(t, c)
    BY <2>5 DEF JoinWizardNext, JoinWizardStart, kept
  <2> QED
    BY <1>9, <2>2, <2>3, <2>4, <2>5 DEF Operation, c, kept
<1>10. CASE WorkerReceive(t) /\ m.type = "response" /\ OwnerResponse(t, m)
  <2>1. m \in Response
    BY <1>10, Heads, InTransitMessages
  <2>2. t = owner
    BY <1>10 DEF OwnerResponse
  <2> HIDE DEF m
  <2>3. CASE BroadcastResponse(m)
    <3>1. [v \in Tab |-> <<m>>] \in [Tab -> Seq(Message)]
      BY <1>1, <2>1
    <3>2. Post([v \in Tab |-> <<m>>]) /\ ~Tracked(m.id)
      BY <2>3 DEF BroadcastResponse
    <3>3. kept \/ \E j \in 1 .. Len([v \in Tab |-> <<m>>][u]) :
                    toTab'[u][i] = [v \in Tab |-> <<m>>][u][j]
      BY <1>1, <3>1, <3>2, Posted
    <3>4. kept \/ toTab'[u][i] = m
      BY <3>3
    <3>5. PassedOn(m, u, m) /\ m.type = "response"
      BY <2>1, <3>2 DEF PassedOn, Response
    <3> QED
      BY <1>10, <2>2, <3>4, <3>5 DEF Told, m
  <2>4. CASE RouteResponse(m)
    <3>1. kept \/ PassedOn(m, u, toTab'[u][i])
      BY <1>1, <2>1, <2>4, RoutedElements
    <3>2. PassedOn(m, u, toTab'[u][i]) => toTab'[u][i].type = "response"
      BY DEF PassedOn, Response
    <3> QED
      BY <1>10, <2>2, <3>1, <3>2 DEF Told, m
  <2> QED
    BY <1>10, <2>3, <2>4 DEF OwnerResponse, m
<1> HIDE DEF kept, m
<1> QED
  BY <1>4, <1>5, <1>6, <1>7, <1>8, <1>9, <1>10 DEF WorkerReceive, m, kept

-----------------------------------------------------------------------------
(***************************************************************************)
(* Where the work goes.                                                    *)
(***************************************************************************)
\* The worker hands a call to the owner; the owner ends one.
HandedOver(u, c) ==
  /\ u = owner
  /\ \E t \in Tab : /\ WorkerReceive(t) /\ Forward(t, c)
                    /\ Head(toWorker[t]).type = "operation"
                    /\ Head(toWorker[t]).call = c
Ended(u, c, m) ==
  /\ RunOperation(u) /\ c = Head(operationQueue[u])
  /\ m \in Response /\ m.id = c.id /\ Suits(m, c) /\ Submit(u, m)

\* What is worked on in w was worked on in v, or is new.
New == <<"new", 0>>
ComesFrom(u, v, w) ==
  \/ /\ v \in Work(u) /\ Item(u, w)' = Item(u, v)
     /\ w[1] = "output" <=> v[1] = "output"
  \/ /\ v \in Work(u) /\ v[1] = "queue" /\ w[1] = "output"
     /\ Ended(u, Item(u, v), Item(u, w)')
  \/ v = New /\ w[1] = "input" /\ HandedOver(u, Item(u, w)')

LEMMA WorkIs ==
  ASSUME NEW t \in Tab
  PROVE  /\ \A w \in Work(t) :
              \/ \E i \in Inputs(t) : w = <<"input", i>>
              \/ \E i \in 1 .. Len(operationQueue[t]) : w = <<"queue", i>>
              \/ Heard(t) /\ \E i \in Outputs(t) : w = <<"output", i>>
         /\ \A i \in Inputs(t) : <<"input", i>> \in Work(t)
         /\ \A i \in 1 .. Len(operationQueue[t]) : <<"queue", i>> \in Work(t)
         /\ \A i \in Outputs(t) : Heard(t) => <<"output", i>> \in Work(t)
         /\ \A i : /\ Item(t, <<"input", i>>) = toTab[t][i].call
                   /\ Item(t, <<"queue", i>>) = operationQueue[t][i]
                   /\ Item(t, <<"output", i>>) = toWorker[t][i]
BY DEF Work, Item

LEMMA WorkWillBe ==
  ASSUME NEW t \in Tab
  PROVE  /\ \A w \in Work(t)' :
              \/ \E i \in Inputs(t)' : w = <<"input", i>>
              \/ \E i \in 1 .. Len(operationQueue'[t]) : w = <<"queue", i>>
              \/ Heard(t)' /\ \E i \in Outputs(t)' : w = <<"output", i>>
         /\ \A i : /\ Item(t, <<"input", i>>)' = toTab'[t][i].call
                   /\ Item(t, <<"queue", i>>)' = operationQueue'[t][i]
                   /\ Item(t, <<"output", i>>)' = toWorker'[t][i]
BY DEF Work, Item

\* The places are apart, and moving along one keeps its items apart.
LEMMA Places ==
  /\ \A i, j : /\ <<"input", i>> # <<"queue", j>>
               /\ <<"input", i>> # <<"output", j>>
               /\ <<"queue", i>> # <<"output", j>>
               /\ <<"input", i>> # New /\ <<"queue", i>> # New
               /\ <<"output", i>> # New
BY DEF New

LEMMA MovedApart ==
  ASSUME NEW p, NEW z, NEW a \in {0, 1}, NEW n \in Nat,
         NEW i \in Nat \ {0}, NEW j \in Nat \ {0}, NEW x,
         \A k : <<p, k>> # z,
         x = <<p, i + a>> \/ (x = z /\ i = n + 1),
         x = <<p, j + a>> \/ (x = z /\ j = n + 1)
  PROVE  i = j
<1>1. CASE x = <<p, i + a>> /\ x = <<p, j + a>>
  <2>1. i + a = j + a
    BY <1>1
  <2> QED
    BY <2>1
<1>2. CASE x = z
  BY <1>2
<1> QED
  BY <1>1, <1>2

\* A list is moved along by so many places, and its last element may be new.
InputsMove(u, a) ==
  \A i \in Inputs(u)' :
    \/ i + a \in Inputs(u) /\ toTab'[u][i].call = toTab[u][i + a].call
    \/ i = Len(toTab[u]) + 1 /\ HandedOver(u, toTab'[u][i].call)
QueueMoves(u, a, q) ==
  \A i \in 1 .. Len(operationQueue'[u]) :
    \/ /\ i + q \in 1 .. Len(operationQueue[u])
       /\ operationQueue'[u][i] = operationQueue[u][i + q]
    \/ /\ i = Len(operationQueue[u]) + 1 /\ a = 1 /\ 1 \in Inputs(u)
       /\ operationQueue'[u][i] = toTab[u][1].call
OutputsMove(u, q, o) ==
  Heard(u)' => \A i \in Outputs(u)' :
    \/ /\ i + o \in Outputs(u) /\ Heard(u)
       /\ toWorker'[u][i] = toWorker[u][i + o]
    \/ /\ i = Len(toWorker[u]) + 1 /\ q = 1
       /\ 1 \in 1 .. Len(operationQueue[u])
       /\ Ended(u, operationQueue[u][1], toWorker'[u][i])

LEMMA WorkMoves ==
  ASSUME TypeOK, NEW u \in Tab,
         NEW a \in {0, 1}, NEW q \in {0, 1}, NEW o \in {0, 1},
         InputsMove(u, a), QueueMoves(u, a, q), OutputsMove(u, q, o)
  PROVE  \E f : /\ \A w \in Work(u)' : ComesFrom(u, f[w], w)
                /\ \A v, w \in Work(u)' : f[v] = f[w] => v = w
                /\ o = 1 => \A w \in Work(u)' : f[w] # <<"output", 1>>
<1> DEFINE
      in(i) == IF i + a <= Len(toTab[u]) THEN <<"input", i + a>> ELSE New
      qu(i) == IF i + q <= Len(operationQueue[u]) THEN <<"queue", i + q>>
               ELSE <<"input", 1>>
      out(i) == IF i + o <= Len(toWorker[u]) THEN <<"output", i + o>>
                ELSE <<"queue", 1>>
      from(w) == CASE w[1] = "input" -> in(w[2])
                   [] w[1] = "queue" -> qu(w[2])
                   [] OTHER -> out(w[2])
      f == [w \in Work(u)' |-> from(w)]
<1>1. \A w \in Work(u)' : f[w] = from(w)
  OBVIOUS
<1>2. \A i : /\ from(<<"input", i>>) = in(i)
             /\ from(<<"queue", i>>) = qu(i)
             /\ from(<<"output", i>>) = out(i)
  OBVIOUS
<1> HIDE DEF from, f
<1>3. /\ Len(toTab[u]) \in Nat /\ Len(operationQueue[u]) \in Nat
      /\ Len(toWorker[u]) \in Nat
      /\ Inputs(u)' \subseteq Nat \ {0} /\ Outputs(u)' \subseteq Nat \ {0}
      /\ 1 .. Len(operationQueue'[u]) \subseteq Nat \ {0}
  <2>1. /\ toTab[u] \in Seq(Message) /\ toWorker[u] \in Seq(InTransit)
        /\ operationQueue[u] \in Seq(Call)
    BY DEF TypeOK, CoordinatorTypeOK
  <2>2. Inputs(u)' \subseteq Nat \ {0} /\ Outputs(u)' \subseteq Nat \ {0}
    BY DEF Inputs, Outputs
  <2> QED
    BY <2>1, <2>2, LenProperties
<1>4. ASSUME NEW i \in Inputs(u)'
      PROVE  /\ ComesFrom(u, in(i), <<"input", i>>)
             /\ \/ in(i) = <<"input", i + a>>
                \/ in(i) = New /\ i = Len(toTab[u]) + 1
  <2> USE DEF InputsMove
  <2>1. CASE i + a \in Inputs(u) /\ toTab'[u][i].call = toTab[u][i + a].call
    <3>1. /\ <<"input", i + a>> \in Work(u)
          /\ Item(u, <<"input", i + a>>) = Item(u, <<"input", i>>)'
      BY <2>1, WorkIs DEF Item
    <3>2. in(i) = <<"input", i + a>>
      BY <1>3, <2>1 DEF Inputs
    <3> QED
      BY <3>1, <3>2 DEF ComesFrom
  <2>2. CASE i = Len(toTab[u]) + 1 /\ HandedOver(u, toTab'[u][i].call)
    <3>1. HandedOver(u, Item(u, <<"input", i>>)')
      BY <2>2, WorkWillBe
    <3>2. in(i) = New
      BY <1>3, <2>2
    <3> QED
      BY <2>2, <3>1, <3>2 DEF ComesFrom
  <2> QED
    BY <2>1, <2>2
<1>5. ASSUME NEW i \in 1 .. Len(operationQueue'[u])
      PROVE  /\ ComesFrom(u, qu(i), <<"queue", i>>)
             /\ \/ qu(i) = <<"queue", i + q>>
                \/ /\ qu(i) = <<"input", 1>> /\ a = 1
                   /\ i = Len(operationQueue[u]) + 1
  <2> USE DEF QueueMoves
  <2>1. CASE /\ i + q \in 1 .. Len(operationQueue[u])
             /\ operationQueue'[u][i] = operationQueue[u][i + q]
    <3>1. /\ <<"queue", i + q>> \in Work(u)
          /\ Item(u, <<"queue", i + q>>) = Item(u, <<"queue", i>>)'
      BY <2>1, WorkIs DEF Item
    <3>2. qu(i) = <<"queue", i + q>>
      BY <1>3, <2>1
    <3> QED
      BY <3>1, <3>2 DEF ComesFrom
  <2>2. CASE /\ i = Len(operationQueue[u]) + 1 /\ a = 1 /\ 1 \in Inputs(u)
             /\ operationQueue'[u][i] = toTab[u][1].call
    <3>1. /\ <<"input", 1>> \in Work(u)
          /\ Item(u, <<"input", 1>>) = Item(u, <<"queue", i>>)'
      BY <2>2, WorkIs DEF Item
    <3>2. qu(i) = <<"input", 1>>
      BY <1>3, <2>2
    <3> QED
      BY <2>2, <3>1, <3>2 DEF ComesFrom
  <2> QED
    BY <2>1, <2>2
<1>6. ASSUME Heard(u)', NEW i \in Outputs(u)'
      PROVE  /\ ComesFrom(u, out(i), <<"output", i>>)
             /\ \/ out(i) = <<"output", i + o>>
                \/ /\ out(i) = <<"queue", 1>> /\ q = 1
                   /\ i = Len(toWorker[u]) + 1
  <2> USE DEF OutputsMove
  <2>1. CASE /\ i + o \in Outputs(u) /\ Heard(u)
             /\ toWorker'[u][i] = toWorker[u][i + o]
    <3>1. /\ <<"output", i + o>> \in Work(u)
          /\ Item(u, <<"output", i + o>>) = Item(u, <<"output", i>>)'
      BY <2>1, WorkIs DEF Item
    <3>2. out(i) = <<"output", i + o>>
      BY <1>3, <2>1 DEF Outputs
    <3> QED
      BY <3>1, <3>2 DEF ComesFrom
  <2>2. CASE /\ i = Len(toWorker[u]) + 1 /\ q = 1
             /\ 1 \in 1 .. Len(operationQueue[u])
             /\ Ended(u, operationQueue[u][1], toWorker'[u][i])
    <3>1. /\ <<"queue", 1>> \in Work(u)
          /\ Ended(u, Item(u, <<"queue", 1>>), Item(u, <<"output", i>>)')
      BY <2>2, WorkIs, WorkWillBe
    <3>2. out(i) = <<"queue", 1>>
      BY <1>3, <2>2
    <3> QED
      BY <2>2, <3>1, <3>2 DEF ComesFrom
  <2> QED
    BY <1>6, <2>1, <2>2
<1> HIDE DEF in, qu, out
<1>7. \A w \in Work(u)' : ComesFrom(u, f[w], w)
  BY <1>1, <1>2, <1>4, <1>5, <1>6, WorkWillBe
<1>8. ASSUME NEW v \in Work(u)', NEW w \in Work(u)', from(v) = from(w)
      PROVE  v = w
  <2>1. \A i, j \in Nat \ {0} :
          /\ i + a = j + a => i = j
          /\ i + q = j + q => i = j
          /\ i + o = j + o => i = j
          /\ a = 1 => i + a # 1
          /\ q = 1 => i + q # 1
    OBVIOUS
  <2>2. ASSUME NEW i \in Inputs(u)', NEW j \in Inputs(u)', in(i) = in(j)
        PROVE  i = j
    <3>1. i \in Nat \ {0} /\ j \in Nat \ {0}
      BY <1>3
    <3>2. /\ \/ in(i) = <<"input", i + a>>
             \/ in(i) = New /\ i = Len(toTab[u]) + 1
          /\ \/ in(i) = <<"input", j + a>>
             \/ in(i) = New /\ j = Len(toTab[u]) + 1
      BY <1>4, <2>2
    <3>3. (\A k : <<"input", k>> # New) /\ Len(toTab[u]) \in Nat
      BY <1>3, Places
    <3> QED
      BY <3>1, <3>2, <3>3, MovedApart
  <2>3. ASSUME NEW i \in 1 .. Len(operationQueue'[u]),
               NEW j \in 1 .. Len(operationQueue'[u]), qu(i) = qu(j)
        PROVE  i = j
    <3>1. i \in Nat \ {0} /\ j \in Nat \ {0}
      BY <1>3
    <3>2. /\ \/ qu(i) = <<"queue", i + q>>
             \/ qu(i) = <<"input", 1>> /\ i = Len(operationQueue[u]) + 1
          /\ \/ qu(i) = <<"queue", j + q>>
             \/ qu(i) = <<"input", 1>> /\ j = Len(operationQueue[u]) + 1
      BY <1>5, <2>3
    <3>3. (\A k : <<"queue", k>> # <<"input", 1>>) /\ Len(operationQueue[u]) \in Nat
      BY <1>3, Places
    <3> QED
      BY <3>1, <3>2, <3>3, MovedApart
  <2>4. ASSUME Heard(u)', NEW i \in Outputs(u)', NEW j \in Outputs(u)',
               out(i) = out(j)
        PROVE  i = j
    <3>1. i \in Nat \ {0} /\ j \in Nat \ {0}
      BY <1>3
    <3>2. /\ \/ out(i) = <<"output", i + o>>
             \/ out(i) = <<"queue", 1>> /\ i = Len(toWorker[u]) + 1
          /\ \/ out(i) = <<"output", j + o>>
             \/ out(i) = <<"queue", 1>> /\ j = Len(toWorker[u]) + 1
      BY <1>6, <2>4
    <3>3. (\A k : <<"output", k>> # <<"queue", 1>>) /\ Len(toWorker[u]) \in Nat
      BY <1>3, Places
    <3> QED
      BY <3>1, <3>2, <3>3, MovedApart
  <2>5. ASSUME NEW i \in Inputs(u)', NEW j \in 1 .. Len(operationQueue'[u])
        PROVE  in(i) # qu(j)
    <3>1. i \in Nat \ {0} /\ j \in Nat \ {0}
      BY <1>3
    <3>2. in(i) = <<"input", i + a>> \/ in(i) = New
      BY <1>4
    <3>4. qu(j) = <<"queue", j + q>> \/ (qu(j) = <<"input", 1>> /\ a = 1)
      BY <1>5
    <3>3. /\ <<"input", i + a>> # <<"queue", j + q>> /\ New # <<"queue", j + q>>
          /\ New # <<"input", 1>>
          /\ <<"input", i + a>> = <<"input", 1>> => i + a = 1
      BY Places
    <3> QED
      BY <2>1, <3>1, <3>2, <3>3, <3>4
  <2>6. ASSUME Heard(u)', NEW i \in Inputs(u)', NEW j \in Outputs(u)'
        PROVE  in(i) # out(j)
    BY <1>4, <1>6, <2>6, Places
  <2>7. ASSUME Heard(u)', NEW i \in 1 .. Len(operationQueue'[u]),
               NEW j \in Outputs(u)'
        PROVE  qu(i) # out(j)
    <3>1. i \in Nat \ {0} /\ j \in Nat \ {0}
      BY <1>3
    <3>2. qu(i) = <<"queue", i + q>> \/ qu(i) = <<"input", 1>>
      BY <1>5
    <3>4. out(j) = <<"output", j + o>> \/ (out(j) = <<"queue", 1>> /\ q = 1)
      BY <1>6, <2>7
    <3>3. /\ <<"queue", i + q>> # <<"output", j + o>>
          /\ <<"input", 1>> # <<"output", j + o>> /\ <<"input", 1>> # <<"queue", 1>>
          /\ <<"queue", i + q>> = <<"queue", 1>> => i + q = 1
      BY Places
    <3> QED
      BY <2>1, <3>1, <3>2, <3>3, <3>4
  <2> QED
    BY <1>2, <1>8, <2>2, <2>3, <2>4, <2>5, <2>6, <2>7, WorkWillBe
<1>9. ASSUME o = 1, NEW w \in Work(u)', from(w) = <<"output", 1>>
      PROVE  FALSE
  <2>1. ASSUME NEW i \in Outputs(u)', Heard(u)', out(i) = <<"output", 1>>
        PROVE  FALSE
    <3>1. out(i) = <<"output", i + 1>> /\ i \in Nat \ {0}
      BY <1>3, <1>6, <1>9, <2>1, Places
    <3> QED
      BY <2>1, <3>1
  <2>2. \A i \in Inputs(u)' : in(i) # <<"output", 1>>
    BY <1>4, Places
  <2>3. \A i \in 1 .. Len(operationQueue'[u]) : qu(i) # <<"output", 1>>
    BY <1>5, Places
  <2> QED
    BY <1>2, <1>9, <2>1, <2>2, <2>3, WorkWillBe
<1> QED
  BY SMTT(30), <1>1, <1>7, <1>8, <1>9

\* What the worker may still hear it could hear before.
LEMMA HeardBefore ==
  ASSUME TypeOK, OperationsAreNew, Recorded, [Next]_vars, NEW u \in Tab, Heard(u)'
  PROVE  Heard(u)
<1> USE DEF portVars, coordinatorVars
<1>1. [CoordinatorNext]_coordinatorVars
  BY StepIsCoordinators
<1>2. \A i \in 1 .. Len(arrivals) :
        i \in 1 .. Len(arrivals') /\ arrivals'[i] = arrivals[i]
  BY ArrivalsKept
<1>3. CASE \A i \in 1 .. Len(arrivals') : arrivals'[i] # u
  BY <1>2, <1>3 DEF Heard
<1>4. CASE u \in ports'
  <2>1. ASSUME NEW p \in Tab, Connect(p)
        PROVE  Heard(u)
    BY <1>4, <2>1 DEF Connect, Heard
  <2>2. ASSUME NEW p \in Tab, PortStep(p), ~Connect(p)
        PROVE  ports' \subseteq ports
    BY <2>2
    DEF PortStep, Disconnect, DisconnectOwner, DisconnectFollower, RuntimeStart,
        Operation, AnswerFromCache, JoinWizardNext, AnswerFromSnapshot,
        JoinWizardStart, Forward, OwnerResponse, RouteResponse,
        BroadcastResponse, GatewayReady, IgnoreOutput, Take
  <2> QED
    BY <1>1, <1>4, <2>1, <2>2 DEF CoordinatorNext, Heard
<1> QED
  BY <1>3, <1>4 DEF Heard

\* The owner ends a call with a response that suits it.
LEMMA OperationEnds ==
  ASSUME TypeOK, NEW t \in Tab, RunOperation(t)
  PROVE  /\ operationQueue[t] # <<>> /\ operationQueue[t] \in Seq(Call)
         /\ Head(operationQueue[t]) = operationQueue[t][1]
         /\ \E m \in Response : Ended(t, Head(operationQueue[t]), m)
<1> DEFINE c == Head(operationQueue[t])
           success == [type |-> "response", id |-> c.id, ok |-> TRUE,
                       result |-> Reported(wizard'[t], c)]
<1>1. operationQueue[t] # <<>> /\ operationQueue[t] \in Seq(Call)
  BY DEF RunOperation, TypeOK
<1>2. c \in Call /\ c.id \in Request /\ c = operationQueue[t][1]
  <2>1. c \in Call /\ c = operationQueue[t][1]
    BY <1>1, TailElements
  <2> HIDE DEF c
  <2> QED
    BY <2>1 DEF Call
<1>3. wizard' \in [Tab -> Result]
  BY OperationResponds
<1>4. wizard'[t].session \in Session \cup {None} /\ wizard'[t].at \in Answer \cup {None}
  BY <1>3 DEF Result
<1>5. success \in Response
  BY <1>2, <1>4 DEF Response, Reported, Result, NoWizard
<1>6. Failure(c) \in Response /\ Failure(c).id = c.id /\ Suits(Failure(c), c)
  BY <1>2 DEF Failure, Response, Suits
<1>7. ASSUME GatewayServes(t, c)
      PROVE  Suits(success, c)
  <2>1. wizard'[t] = WizardAfter(wizard[t], c, Fresh(Session, sessionsUsed))
    BY <1>7 DEF GatewayServes, TypeOK
  <2>2. success.result = Reported(wizard'[t], c)
    OBVIOUS
  <2>3. WizardNextKey(c) # None => success.result.at = c.answer
    <3>1. SUFFICES ASSUME c.method = "wizard.next", c.answer # None
                   PROVE  success.result.at = c.answer
      BY DEF WizardNextKey
    <3>2. wizard[t] \in Result
      BY DEF TypeOK
    <3>3. wizard'[t].at = c.answer
      BY <2>1, <3>1, <3>2 DEF WizardAfter, Result
    <3>4. c.method # None
      BY <3>1, NoneIsNoKey DEF Method
    <3> QED
      BY <2>2, <3>3, <3>4 DEF Reported
  <2>4. CASE c.method = "wizard.start"
    <3>1. wizard'[t].session \in Session
      BY <1>7, <2>1, <2>4, FreshIsUnused DEF GatewayServes, WizardAfter, TypeOK
    <3>2. c.method # None
      BY <2>4, NoneIsNoKey DEF Method
    <3>3. success.result.session # None
      BY <2>2, <2>4, <3>1, <3>2, NoneAssumption DEF Reported
    <3> QED
      BY <2>3, <2>4, <3>3 DEF Suits
  <2>5. CASE c.method # "wizard.start"
    BY <2>2, <2>3, <2>5 DEF Suits, Reported, NoWizard
  <2> QED
    BY <2>4, <2>5
<1>8. success.id = c.id
  OBVIOUS
<1>9. \/ GatewayServes(t, c) /\ Submit(t, success)
      \/ Submit(t, Failure(c))
  BY DEF RunOperation
<1>10. \E m \in Response : m.id = c.id /\ Suits(m, c) /\ Submit(t, m)
  <2> HIDE DEF success, c
  <2> QED
    BY <1>5, <1>6, <1>7, <1>8, <1>9
<1> QED
  BY <1>1, <1>2, <1>10 DEF Ended

LEMMA InputsAfterWorker ==
  ASSUME TypeOK, CacheIsRight, NEW t \in Tab,
         WorkerConnect(t) \/ WorkerReceive(t), NEW u \in Tab
  PROVE  InputsMove(u, 0)
<1> SUFFICES ASSUME NEW i \in Inputs(u)'
             PROVE  \/ i \in Inputs(u) /\ toTab'[u][i].call = toTab[u][i].call
                    \/ /\ i = Len(toTab[u]) + 1
                       /\ HandedOver(u, toTab'[u][i].call)
  <2>1. \A i \in Inputs(u)' : i + 0 = i
    BY DEF Inputs
  <2> QED
    BY <2>1 DEF InputsMove
<1>1. i \in 1 .. Len(toTab'[u]) /\ toTab'[u][i].type = "owner-input"
  BY DEF Inputs
<1>2. CASE i \in 1 .. Len(toTab[u]) /\ toTab'[u][i] = toTab[u][i]
  BY <1>1, <1>2 DEF Inputs
<1>3. CASE Told(t, u, toTab'[u][i]) /\ i = Len(toTab[u]) + 1
  <2> DEFINE m == Head(toWorker[t])
  <2>1. \A x \in Response : x.type # "owner-input"
    BY DEF Response
  <2>2. /\ WorkerReceive(t) /\ m.type = "operation" /\ Forward(t, m.call)
        /\ u = owner /\ toTab'[u][i] = [type |-> "owner-input", call |-> m.call]
    BY <1>1, <1>3, <2>1 DEF Told, FromMemory, PassedOn
  <2> QED
    BY <1>3, <2>2 DEF HandedOver
<1> QED
  BY <1>1, <1>2, <1>3, PostsAfter

LEMMA ListsStay ==
  ASSUME TypeOK, NEW u \in Tab
  PROVE  /\ toTab'[u] = toTab[u] => InputsMove(u, 0)
         /\ operationQueue'[u] \in {operationQueue[u], <<>>} => QueueMoves(u, 0, 0)
         /\ /\ Heard(u)' => Heard(u)
            /\ \A i \in Outputs(u)' :
                 i \in Outputs(u) /\ toWorker'[u][i] = toWorker[u][i]
            => OutputsMove(u, 0, 0)
<1>1. toTab'[u] = toTab[u] => InputsMove(u, 0)
  <2>1. \A i \in Inputs(u) : i + 0 = i
    BY DEF Inputs
  <2> QED
    BY <2>1 DEF Inputs, InputsMove
<1>2. operationQueue'[u] \in {operationQueue[u], <<>>} => QueueMoves(u, 0, 0)
  <2>1. operationQueue[u] \in Seq(Call)
    BY DEF TypeOK
  <2> QED
    BY <2>1, EmptySeq DEF QueueMoves
<1>3. \A i \in Outputs(u) : i + 0 = i
  BY DEF Outputs
<1> QED
  BY <1>1, <1>2, <1>3 DEF OutputsMove

LEMMA OutputsAfterSubmit ==
  ASSUME TypeOK, NEW t \in Tab, NEW m \in InTransit, Submit(t, m), NEW u \in Tab,
         m.type = "response" => t # u
  PROVE  \A i \in Outputs(u)' :
           i \in Outputs(u) /\ toWorker'[u][i] = toWorker[u][i]
BY Submitted DEF Outputs, TypeOK

\* One step moves what is worked on along, and adds what is handed over.
LEMMA WorkAfter ==
  ASSUME RuntimeInv, Recorded, CacheIsRight, [Next]_vars, NEW u \in Tab
  PROVE  \E f : /\ \A w \in Work(u)' : ComesFrom(u, f[w], w)
                /\ \A v, w \in Work(u)' : f[v] = f[w] => v = w
                /\ WorkerReceive(u) =>
                     \A w \in Work(u)' : f[w] # <<"output", 1>>
<1> USE DEF coordinatorVars
<1>1. TypeOK /\ CoordinatorTypeOK /\ OperationsAreNew /\ (Heard(u)' => Heard(u))
  BY HeardBefore DEF RuntimeInv, TypeOK
<1> DEFINE Same == \A i \in Outputs(u)' :
                     i \in Outputs(u) /\ toWorker'[u][i] = toWorker[u][i]
           Moves(a, q, o) ==
             InputsMove(u, a) /\ QueueMoves(u, a, q) /\ OutputsMove(u, q, o)
<1>2. ASSUME NEW t \in Tab,
             \/ Open(t) \/ Close(t) \/ Crash(t) \/ StartOnboardingRuntime(t)
             \/ PostRuntimeRequest(t) \/ BootSucceeds(t) \/ BootFails(t)
             \/ RunOperation(t) /\ t # u
      PROVE  Moves(0, 0, 0)
  <2>1. toTab' = toTab /\ operationQueue'[u] \in {operationQueue[u], <<>>}
    BY <1>1, <1>2
    DEF Open, Close, Crash, StopRuntime, StartOnboardingRuntime, TypeOK,
        PostRuntimeRequest, BootSucceeds, BootFails, RunOperation, runtimeVars
  <2>2. Same
    <3>1. \/ UNCHANGED toWorker
          \/ \E m \in InTransit : Submit(t, m) /\ m.type # "response"
          \/ t # u /\ \E m \in InTransit : Submit(t, m)
      <4>1. CASE Open(t) \/ Crash(t) \/ BootFails(t)
        BY <4>1 DEF Open, Crash, BootFails
      <4>2. CASE Close(t) \/ StartOnboardingRuntime(t) \/ BootSucceeds(t)
        <5>1. PICK type \in {"disconnect", "start", "ready"} :
                Submit(t, [type |-> type])
          BY <4>2 DEF Close, StartOnboardingRuntime, BootSucceeds
        <5> QED
          BY <5>1, InTransitMessages
      <4>3. CASE PostRuntimeRequest(t)
        <5>1. PICK c \in Call : Submit(t, [type |-> "operation", call |-> c])
          BY <1>1, <4>3, CallPosted
        <5> QED
          BY <5>1, InTransitMessages
      <4>4. CASE RunOperation(t) /\ t # u
        BY <1>1, <4>4, OperationResponds, InTransitMessages
      <4> QED
        BY <1>2, <4>1, <4>2, <4>3, <4>4
    <3>2. CASE UNCHANGED toWorker
      BY <3>2 DEF Outputs
    <3> QED
      BY <1>1, <3>1, <3>2, OutputsAfterSubmit
  <2> QED
    BY <1>1, <2>1, <2>2, ListsStay
<1>3. ASSUME NEW t \in Tab, WorkerConnect(t)
      PROVE  Moves(0, 0, 0)
  <2>1. InputsMove(u, 0)
    BY <1>1, <1>3, InputsAfterWorker
  <2>2. operationQueue' = operationQueue /\ toWorker' = toWorker
    BY <1>3 DEF WorkerConnect, runtimeVars
  <2> QED
    BY <1>1, <2>1, <2>2, ListsStay DEF Outputs
<1>4. ASSUME NEW t \in Tab, WorkerReceive(t)
      PROVE  IF t = u THEN Moves(0, 0, 1) ELSE Moves(0, 0, 0)
  <2>1. InputsMove(u, 0)
    BY <1>1, <1>4, InputsAfterWorker
  <2>2. operationQueue' = operationQueue
    BY <1>4 DEF WorkerReceive, runtimeVars
  <2>3. CASE t # u
    <3>1. Same
      BY <1>1, <1>4, <2>3, Heads DEF Outputs, TypeOK
    <3>2. Moves(0, 0, 0)
      BY <1>1, <2>1, <2>2, <3>1, ListsStay
    <3> QED
      BY <2>3, <3>2
  <2>4. CASE t = u
    <3>1. \A i \in 1 .. Len(toWorker'[u]) :
            i + 1 \in 1 .. Len(toWorker[u]) /\ toWorker'[u][i] = toWorker[u][i + 1]
      BY <1>1, <1>4, <2>4, Received DEF TypeOK, WorkerReceive
    <3>2. OutputsMove(u, 0, 1)
      BY <1>1, <3>1 DEF Outputs, OutputsMove
    <3>3. Moves(0, 0, 1)
      BY <1>1, <2>1, <2>2, <3>2, ListsStay
    <3> QED
      BY <2>4, <3>3
  <2> QED
    BY <2>3, <2>4
<1>5. ASSUME NEW t \in Tab, TabReceive(t)
      PROVE  Moves(0, 0, 0) \/ Moves(1, 0, 0)
  <2>1. /\ toTab[t] # <<>> /\ toTab[t] \in Seq(Message)
        /\ toTab' = [toTab EXCEPT ![t] = Tail(@)] /\ toWorker' = toWorker
    BY <1>1, <1>5 DEF TabReceive, Take, CoordinatorTypeOK
  <2>2. OutputsMove(u, 0, 0)
    BY <1>1, <2>1, ListsStay DEF Outputs
  <2>3. CASE t # u
    <3>1. toTab'[u] = toTab[u] /\ operationQueue'[u] = operationQueue[u]
      BY <1>1, <1>5, <2>1, <2>3
      DEF TabReceive, BecomeOwner, BecomeFollower, StartSharedOwner, OwnerInput,
          LearnReady, TakeResponse, runtimeVars, TypeOK, CoordinatorTypeOK
    <3> QED
      BY <1>1, <2>2, <3>1, ListsStay
  <2>4. CASE t = u
    <3>1. /\ Head(toTab[u]) = toTab[u][1] /\ 1 \in 1 .. Len(toTab[u])
          /\ \A i \in 1 .. Len(toTab'[u]) :
               i + 1 \in 1 .. Len(toTab[u]) /\ toTab'[u][i] = toTab[u][i + 1]
      <4>1. toTab'[u] = Tail(toTab[u])
        BY <1>1, <2>1, <2>4 DEF CoordinatorTypeOK
      <4>2. toTab[u] # <<>> /\ toTab[u] \in Seq(Message)
        BY <2>1, <2>4
      <4> QED
        BY <4>1, <4>2, TailElements
    <3>2. InputsMove(u, 1)
      BY <3>1 DEF Inputs, InputsMove
    <3>3. QueueMoves(u, 1, 0)
      <4>1. operationQueue[u] \in Seq(Call)
        BY <1>1 DEF TypeOK
      <4>2. CASE operationQueue' = operationQueue
        BY <4>1, <4>2, LenProperties DEF QueueMoves
      <4>3. CASE /\ Head(toTab[u]).type = "owner-input"
                 /\ operationQueue' = [operationQueue EXCEPT
                                         ![u] = Append(@, Head(toTab[u]).call)]
        <5>1. Head(toTab[u]).call \in Call
          <6>1. toTab[u] \in Seq(Message) /\ Head(toTab[u]) \in Message
            BY <2>1, <2>4, TailElements
          <6> QED
            BY <4>3, <6>1 DEF Message, Response
        <5>2. operationQueue'[u] = Append(operationQueue[u], toTab[u][1].call)
          BY <1>1, <3>1, <4>3 DEF TypeOK
        <5>3. \A i \in 1 .. Len(operationQueue'[u]) :
                \/ /\ i \in 1 .. Len(operationQueue[u])
                   /\ operationQueue'[u][i] = operationQueue[u][i]
                \/ /\ i = Len(operationQueue[u]) + 1
                   /\ operationQueue'[u][i] = toTab[u][1].call
          BY <3>1, <4>1, <5>1, <5>2, AppendElements
        <5>4. 1 \in Inputs(u)
          BY <3>1, <4>3 DEF Inputs
        <5> QED
          BY <5>3, <5>4 DEF QueueMoves
      <4> QED
        BY <1>5, <2>4, <4>2, <4>3
        DEF TabReceive, BecomeOwner, BecomeFollower, StartSharedOwner, OwnerInput,
            LearnReady, TakeResponse, runtimeVars
    <3> QED
      BY <2>2, <3>2, <3>3
  <2> QED
    BY <2>3, <2>4
<1>6. ASSUME RunOperation(u)
      PROVE  Moves(0, 1, 0)
  <2>1. toTab' = toTab /\ operationQueue' = [operationQueue EXCEPT ![u] = Tail(@)]
    BY <1>6 DEF RunOperation
  <2>2. /\ operationQueue[u] # <<>> /\ operationQueue[u] \in Seq(Call)
        /\ Head(operationQueue[u]) = operationQueue[u][1]
    BY <1>1, <1>6, OperationEnds
  <2>3. PICK m \in Response : Ended(u, operationQueue[u][1], m)
    BY <1>1, <1>6, <2>2, OperationEnds
  <2>4. 1 \in 1 .. Len(operationQueue[u])
    BY <2>2, EmptySeq
  <2>5. QueueMoves(u, 0, 1)
    <3>1. operationQueue'[u] = Tail(operationQueue[u])
      BY <1>1, <2>1 DEF TypeOK
    <3> QED
      BY <2>2, <3>1, TailElements DEF QueueMoves
  <2>6. OutputsMove(u, 1, 0)
    <3>1. Submit(u, m) /\ m \in InTransit
      BY <2>3, InTransitMessages DEF Ended
    <3>2. \A i \in 1 .. Len(toWorker'[u]) :
            \/ i \in 1 .. Len(toWorker[u]) /\ toWorker'[u][i] = toWorker[u][i]
            \/ i = Len(toWorker[u]) + 1 /\ toWorker'[u][i] = m
      BY <1>1, <3>1, Submitted DEF TypeOK
    <3> QED
      BY <1>1, <2>3, <2>4, <3>2 DEF Outputs, OutputsMove
  <2> QED
    BY <1>1, <2>1, <2>5, <2>6, ListsStay DEF QueueMoves
<1>7. ASSUME UNCHANGED vars
      PROVE  Moves(0, 0, 0)
  BY <1>1, <1>7, ListsStay DEF vars, runtimeVars, Outputs
<1>8. CASE WorkerReceive(u)
  BY <1>1, <1>4, <1>8, WorkMoves
<1>9. CASE ~WorkerReceive(u)
  <2>1. Moves(0, 0, 0) \/ Moves(1, 0, 0) \/ Moves(0, 1, 0)
    BY <1>2, <1>3, <1>4, <1>5, <1>6, <1>7, <1>9 DEF Next
  <2> QED
    BY <1>1, <1>9, <2>1, WorkMoves
<1> QED
  BY <1>8, <1>9

-----------------------------------------------------------------------------
(***************************************************************************)
(* What is worked on is awaited.                                           *)
(***************************************************************************)
\* The owner changes when a first port connects or the owner says goodbye.
LEMMA OwnerMoves ==
  ASSUME TypeOK, CoordinatorInv, OwnershipIsKnown, [Next]_vars, owner' # owner
  PROVE  \/ owner = None
         \/ /\ owner \in Tab /\ WorkerReceive(owner) /\ DisconnectOwner(owner)
            /\ page[owner] = "gone" /\ runtime[owner] = "off"
<1> USE DEF coordinatorVars, portVars
<1>1. PICK t \in Tab : WorkerConnect(t) \/ WorkerReceive(t)
  <2>1. ASSUME NEW t \in Tab,
               \/ Open(t) \/ Close(t) \/ Crash(t) \/ StartOnboardingRuntime(t)
               \/ PostRuntimeRequest(t) \/ TabReceive(t) \/ BootSucceeds(t)
               \/ BootFails(t) \/ RunOperation(t)
        PROVE  owner' = owner
    BY <2>1 DEF Open, Close, Crash, StopRuntime, StartOnboardingRuntime,
        PostRuntimeRequest, TabReceive, Take, BootSucceeds, BootFails, RunOperation
  <2> QED
    BY <2>1 DEF Next, vars
<1>2. CASE WorkerConnect(t)
  BY <1>2 DEF WorkerConnect, Connect
<1>3. CASE WorkerReceive(t)
  <2>1. CASE ~Disconnect(t)
    BY <1>3, <2>1, OrdinaryOutput
  <2>2. CASE Disconnect(t)
    <3>1. Head(toWorker[t]).type = "disconnect"
      BY <1>3, <2>2, DisconnectIsAsked DEF TypeOK, CoordinatorInv
    <3>2. page[t] = "gone" /\ runtime[t] = "off"
      BY <1>3, <3>1, Heads DEF OwnershipIsKnown
    <3>3. DisconnectOwner(t) /\ t = owner
      BY <2>2 DEF Disconnect, DisconnectOwner, DisconnectFollower
    <3> QED
      BY <1>3, <3>2, <3>3
  <2> QED
    BY <2>1, <2>2
<1> QED
  BY <1>1, <1>2, <1>3

\* The coordinator takes the call with identifier r, and forwards it.
Forwards(t, r) ==
  /\ WorkerReceive(t) /\ Head(toWorker[t]).type = "operation"
  /\ Head(toWorker[t]).call.id = r /\ Forward(t, Head(toWorker[t]).call)
\* It takes the response to r, and passes it on.
Routes(r) ==
  /\ owner \in Tab /\ owner \in ports
  /\ WorkerReceive(owner) /\ Head(toWorker[owner]).type = "response"
  /\ Head(toWorker[owner]).id = r /\ RouteResponse(Head(toWorker[owner]))

\* A request stays on record until its response is passed on.
LEMMA MethodsKept ==
  ASSUME TypeOK, [Next]_vars, NEW r \in Request
  PROVE  \/ requestMethods'[r] = requestMethods[r]
         \/ owner \in Tab /\ DisconnectOwner(owner)
         \/ Routes(r)
         \/ \E t \in Tab : Forwards(t, r)
<1> USE DEF requestVars
<1>1. CASE \A t \in Tab : ~WorkerReceive(t)
  BY <1>1, NothingRecorded
<1>2. ASSUME NEW t \in Tab, WorkerReceive(t)
      PROVE  \/ requestMethods'[r] = requestMethods[r]
             \/ owner \in Tab /\ DisconnectOwner(owner)
             \/ Routes(r)
             \/ \E u \in Tab : Forwards(u, r)
  <2> DEFINE m == Head(toWorker[t])
  <2>1. m.type = "disconnect" /\ Disconnect(t)
          => \/ requestMethods'[r] = requestMethods[r]
             \/ owner \in Tab /\ DisconnectOwner(owner)
    BY DEF Disconnect, DisconnectOwner, DisconnectFollower
  <2>2. m.type = "start" /\ RuntimeStart(t) => requestMethods' = requestMethods
    BY DEF RuntimeStart
  <2>3. m.type = "ready" /\ GatewayReady(t) => requestMethods' = requestMethods
    BY DEF GatewayReady
  <2>4. IgnoreOutput(t) => requestMethods' = requestMethods
    BY DEF IgnoreOutput, coordinatorVars
  <2>5. ASSUME m.type = "operation", Operation(t, m.call)
        PROVE  requestMethods'[r] = requestMethods[r] \/ Forwards(t, r)
    <3>1. CASE Forward(t, m.call)
      <4>1. m.call \in Call
        BY <1>2, <2>5, Heads, InTransitMessages
      <4> QED
        BY <1>2, <2>5, <3>1, <4>1
        DEF Forward, Forwards, TypeOK, CoordinatorTypeOK, Call
    <3>2. CASE ~Forward(t, m.call)
      BY <2>5, <3>2 DEF Operation, AnswerFromCache, JoinWizardNext,
        AnswerFromSnapshot, JoinWizardStart
    <3> QED
      BY <3>1, <3>2
  <2>6. ASSUME m.type = "response", OwnerResponse(t, m)
        PROVE  requestMethods'[r] = requestMethods[r] \/ Routes(r)
    <3>1. CASE RouteResponse(m)
      BY <1>2, <2>6, <3>1 DEF OwnerResponse, RouteResponse, Routes, TypeOK,
        CoordinatorTypeOK
    <3>2. CASE BroadcastResponse(m)
      BY <3>2 DEF BroadcastResponse
    <3> QED
      BY <2>6, <3>1, <3>2 DEF OwnerResponse
  <2> HIDE DEF m
  <2> QED
    BY <1>2, <2>1, <2>2, <2>3, <2>4, <2>5, <2>6 DEF WorkerReceive, m
<1> QED
  BY <1>1, <1>2

LEMMA ItemId ==
  ASSUME TypeOK, NEW u \in Tab, NEW w \in Work(u)
  PROVE  Item(u, w).id \in Request
<1>1. /\ toTab[u] \in Seq(Message) /\ toWorker[u] \in Seq(InTransit)
      /\ operationQueue[u] \in Seq(Call)
  BY DEF TypeOK, CoordinatorTypeOK
<1>2. ASSUME NEW i \in Inputs(u)
      PROVE  toTab[u][i].call.id \in Request
  <2>1. toTab[u][i] \in Message /\ toTab[u][i].type = "owner-input"
    BY <1>1, <1>2, ElementOfSeq DEF Inputs
  <2> QED
    BY <2>1 DEF Message, Response, Call
<1>3. ASSUME NEW i \in Outputs(u)
      PROVE  toWorker[u][i].id \in Request
  <2>1. toWorker[u][i] \in InTransit /\ toWorker[u][i].type = "response"
    BY <1>1, <1>3, ElementOfSeq DEF Outputs
  <2> QED
    BY <2>1 DEF InTransit, Response
<1>4. ASSUME NEW i \in 1 .. Len(operationQueue[u])
      PROVE  operationQueue[u][i].id \in Request
  <2>1. operationQueue[u][i] \in Call
    BY <1>1, <1>4, ElementOfSeq
  <2> QED
    BY <2>1 DEF Call
<1>5. ASSUME NEW i \in Inputs(u), w = <<"input", i>>
      PROVE  Item(u, w).id \in Request
  <2>1. Item(u, <<"input", i>>) = toTab[u][i].call
    BY WorkIs
  <2> QED
    BY <1>2, <1>5, <2>1
<1>6. ASSUME NEW i \in 1 .. Len(operationQueue[u]), w = <<"queue", i>>
      PROVE  Item(u, w).id \in Request
  <2>1. Item(u, <<"queue", i>>) = operationQueue[u][i]
    BY WorkIs
  <2> QED
    BY <1>4, <1>6, <2>1
<1>7. ASSUME NEW i \in Outputs(u), w = <<"output", i>>
      PROVE  Item(u, w).id \in Request
  <2>1. Item(u, <<"output", i>>) = toWorker[u][i]
    BY WorkIs
  <2> QED
    BY <1>3, <1>7, <2>1
<1> QED
  BY <1>5, <1>6, <1>7, WorkIs

\* A call that is handed over is new to the coordinator, which now awaits it.
LEMMA HandedOverIsNew ==
  ASSUME RuntimeInv, Recorded, NEW u, NEW c, HandedOver(u, c)
  PROVE  /\ u = owner /\ owner' = owner
         /\ c \in Call /\ c.id \in Request /\ callOf[c.id] = c /\ c # None
         /\ ~Tracked(c.id) /\ requestMethods'[c.id] = c.method
         /\ requestWizardNextKeys'[c.id] = WizardNextKey(c)
<1>1. PICK t \in Tab : /\ WorkerReceive(t) /\ Forward(t, c)
                       /\ Head(toWorker[t]).type = "operation"
                       /\ Head(toWorker[t]).call = c
  BY DEF HandedOver
<1>2. TypeOK
  BY DEF RuntimeInv
<1>3. /\ 1 \in 1 .. Len(toWorker[t]) /\ Head(toWorker[t]) = toWorker[t][1]
      /\ c \in Call
  BY <1>1, <1>2, Heads, InTransitMessages
<1>4. callOf[c.id] = c /\ ~Tracked(c.id)
  BY <1>1, <1>3 DEF Recorded, RuntimeInv, OperationsAreNew, TransitIsUntracked
<1>5. c.id \in Request /\ c # None
  BY <1>3, CallAssumption DEF Call
<1> QED
  BY <1>1, <1>2, <1>3, <1>4, <1>5
  DEF HandedOver, Forward, portVars, TypeOK, CoordinatorTypeOK

\* An owner that goes takes all that was worked on with it.
LEMMA WorkIsLost ==
  ASSUME RuntimeInv, Recorded, CacheIsRight, StartsAfresh, WorkIsAwaited,
         [Next]_vars, owner' # owner, NEW u \in Tab
  PROVE  Work(u)' = {}
<1>1. PICK f : \A w \in Work(u)' : ComesFrom(u, f[w], w)
  BY WorkAfter
<1>2. ASSUME NEW w \in Work(u)'
      PROVE  f[w] \in Work(u) /\ u = owner
  <2>1. ComesFrom(u, f[w], w)
    BY <1>1
  <2>2. ~HandedOver(u, Item(u, w)')
    BY HandedOverIsNew
  <2>3. f[w] \in Work(u)
    BY <2>1, <2>2 DEF ComesFrom
  <2> QED
    BY <2>3 DEF WorkIsAwaited
<1>3. CASE owner = None
  <2>1. u # None
    BY NoneAssumption
  <2> QED
    BY <1>2, <1>3, <2>1
<1>4. CASE u = owner /\ owner # None
  <2>1. /\ WorkerReceive(owner) /\ DisconnectOwner(owner)
        /\ page[owner] = "gone" /\ runtime[owner] = "off"
    BY <1>4, OwnerMoves DEF RuntimeInv
  <2>2. toTab'[u] = <<>> /\ u \notin ports'
    <3>1. ports' = ports \ {u}
      BY <1>4, <2>1 DEF DisconnectOwner
    <3> QED
      BY <1>4, <2>1, <3>1 DEF DisconnectOwner, ChooseOwner, Post
  <2>3. operationQueue'[u] = <<>>
    BY <1>4, <2>1 DEF StartsAfresh, WorkerReceive, runtimeVars
  <2>4. ~Heard(u)'
    <3>1. u \in ports /\ arrivals' = arrivals
      BY <1>4, <2>1 DEF WorkerReceive, DisconnectOwner
    <3> QED
      BY <2>2, <3>1 DEF Heard, Recorded
  <2>5. Inputs(u)' = {}
    BY <2>2 DEF Inputs
  <2> QED
    BY <2>3, <2>4, <2>5, WorkWillBe
<1> QED
  BY <1>2, <1>3, <1>4

\* A wizard call that is worked on is on record until its response is taken.
LEMMA WorkIsTracked ==
  ASSUME TypeOK, WorkIsAwaited, NEW u \in Tab, NEW w \in Work(u),
         OfWizard(Item(u, w).id)
  PROVE  Tracked(Item(u, w).id)
<1>1. Item(u, w).id \in Request
  BY ItemId
<1>2. callOf[Item(u, w).id] \in Call
  BY <1>1 DEF WorkIsAwaited, Awaited, TypeOK
<1> QED
  BY <1>1, <1>2, NoneAssumption
  DEF WorkIsAwaited, Awaited, OfWizard, Tracked, Call

LEMMA WorkStays ==
  ASSUME RuntimeInv, Recorded, CacheIsRight, StartsAfresh, WorkIsAwaited,
         WorkIsUnique, [Next]_vars
  PROVE  WorkIsAwaited' /\ WorkIsUnique'
<1>1. TypeOK
  BY DEF RuntimeInv
<1>2. \A r \in Request : callOf[r] # None => callOf'[r] = callOf[r]
  BY <1>1, CallsKept
<1>3. ASSUME NEW u \in Tab, NEW v \in Work(u)
      PROVE  /\ Item(u, v).id \in Request /\ u = owner
             /\ Awaited(Item(u, v).id) /\ IsOf(u, v)
             /\ callOf[Item(u, v).id] # None
             /\ callOf'[Item(u, v).id] = callOf[Item(u, v).id]
  BY <1>1, <1>2, <1>3, ItemId DEF WorkIsAwaited, Awaited
<1>4. ASSUME NEW u \in Tab, NEW v \in Work(u), NEW r, r = Item(u, v).id,
             OfWizard(r), owner' = owner,
             WorkerReceive(u) => v # <<"output", 1>>
      PROVE  requestMethods'[r] = callOf[r].method
  <2>1. /\ u = owner /\ r \in Request /\ requestMethods[r] = callOf[r].method
        /\ Tracked(r)
    BY <1>1, <1>3, <1>4, WorkIsTracked DEF Awaited
  <2>2. ~ \E t \in Tab : Forwards(t, r)
    <3>1. ASSUME NEW t \in Tab, Forwards(t, r)
          PROVE  ~Tracked(r)
      BY <1>1, <3>1, Heads
      DEF Forwards, RuntimeInv, OperationsAreNew, TransitIsUntracked
    <3> QED
      BY <2>1, <3>1
  <2>3. ~(owner \in Tab /\ DisconnectOwner(owner))
    <3>1. ASSUME DisconnectOwner(owner)
          PROVE  owner' # owner
      <4>1. owner \notin ports' /\ ports' \subseteq Tab
        BY <1>1, <3>1 DEF DisconnectOwner, TypeOK, CoordinatorTypeOK
      <4>2. owner' \in ports' \cup {None}
        BY <3>1 DEF DisconnectOwner, ChooseOwner
      <4> QED
        BY <2>1, <4>1, <4>2, NoneAssumption
    <3> QED
      BY <1>4, <3>1
  <2>4. ~Routes(r)
    <3>1. ASSUME Routes(r)
          PROVE  FALSE
      <4>1. /\ WorkerReceive(owner) /\ owner \in ports /\ 1 \in Outputs(owner)
            /\ toWorker[owner][1].id = r
        BY <1>1, <2>1, <3>1, Heads DEF Routes, Outputs
      <4>2. <<"output", 1>> \in Work(u) /\ Item(u, <<"output", 1>>).id = r
        BY ZenonT(40), <2>1, <4>1, WorkIs DEF Heard
      <4>3. v = <<"output", 1>>
        BY <1>4, <4>2 DEF WorkIsUnique
      <4> QED
        BY <1>4, <2>1, <4>1, <4>3
    <3> QED
      BY <3>1
  <2> QED
    BY <1>1, <2>1, <2>2, <2>3, <2>4, MethodsKept
<1>5. ASSUME NEW u \in Tab, NEW w \in Work(u)', NEW v, ComesFrom(u, v, w)
      PROVE  \/ /\ v \in Work(u) /\ Item(u, v).id = Item(u, w)'.id
                /\ IsOf(u, w)'
             \/ /\ v = New /\ HandedOver(u, Item(u, w)') /\ w[1] = "input"
  <2>1. CASE /\ v \in Work(u) /\ Item(u, w)' = Item(u, v)
             /\ w[1] = "output" <=> v[1] = "output"
    BY <1>3, <2>1 DEF IsOf
  <2>2. CASE /\ v \in Work(u) /\ v[1] = "queue" /\ w[1] = "output"
             /\ Ended(u, Item(u, v), Item(u, w)')
    <3>1. /\ Item(u, w)'.id = Item(u, v).id /\ Suits(Item(u, w)', Item(u, v))
      BY <2>2 DEF Ended
    <3>2. Item(u, v) = callOf[Item(u, v).id]
      BY <1>3, <2>2 DEF IsOf
    <3>3. Suits(Item(u, w)', callOf'[Item(u, w)'.id])
      BY <1>3, <2>2, <3>1, <3>2
    <3> QED
      BY <2>2, <3>1, <3>3 DEF IsOf, Suits
  <2> QED
    BY <1>5, <2>1, <2>2 DEF ComesFrom
<1>6. ASSUME NEW u \in Tab, NEW f, \A w \in Work(u)' : ComesFrom(u, f[w], w),
             WorkerReceive(u) => \A w \in Work(u)' : f[w] # <<"output", 1>>,
             NEW w \in Work(u)'
      PROVE  (u = owner /\ Awaited(Item(u, w).id) /\ IsOf(u, w))'
  <2>1. owner' = owner
    BY <1>6, WorkIsLost
  <2>2. CASE f[w] \in Work(u) /\ Item(u, f[w]).id = Item(u, w)'.id /\ IsOf(u, w)'
    <3> DEFINE r == Item(u, f[w]).id
    <3>1. u = owner /\ callOf'[r] = callOf[r] /\ callOf[r] # None
      BY <1>3, <2>2
    <3>2. OfWizard(r) => requestMethods'[r] = callOf[r].method
      BY <1>4, <1>6, <2>1, <2>2
    <3> QED
      BY <2>1, <2>2, <3>1, <3>2 DEF Awaited, OfWizard
  <2>3. CASE HandedOver(u, Item(u, w)') /\ w[1] = "input"
    <3> DEFINE c == Item(u, w)'
    <3>1. /\ u = owner /\ c.id \in Request /\ callOf[c.id] = c /\ c # None
          /\ requestMethods'[c.id] = c.method
      BY <2>3, HandedOverIsNew
    <3>2. callOf'[c.id] = c
      BY <1>2, <3>1
    <3> QED
      BY <2>1, <2>3, <3>1, <3>2 DEF Awaited, IsOf
  <2> QED
    BY <1>5, <1>6, <2>2, <2>3
<1>7. ASSUME NEW u \in Tab, NEW f, \A w \in Work(u)' : ComesFrom(u, f[w], w),
             \A v, w \in Work(u)' : f[v] = f[w] => v = w,
             NEW v \in Work(u)', NEW w \in Work(u)',
             OfWizard(Item(u, v).id)', Item(u, v)'.id = Item(u, w)'.id
      PROVE  v = w
  <2> DEFINE Old(x) == /\ f[x] \in Work(u)
                       /\ Item(u, f[x]).id = Item(u, x)'.id
             Given(x) == f[x] = New /\ HandedOver(u, Item(u, x)')
  <2>1. (Old(v) \/ Given(v)) /\ (Old(w) \/ Given(w))
    BY <1>5, <1>7
  <2>2. ASSUME NEW x \in Work(u)', Old(x), OfWizard(Item(u, x).id)'
        PROVE  /\ OfWizard(Item(u, f[x]).id)
               /\ Tracked(Item(u, x)'.id)
    <3>1. OfWizard(Item(u, f[x]).id)
      BY <1>3, <2>2 DEF OfWizard
    <3> QED
      BY <1>1, <2>2, <3>1, WorkIsTracked
  <2>3. ASSUME NEW x \in Work(u)', Given(x)
        PROVE  ~Tracked(Item(u, x)'.id)
    BY <2>3, HandedOverIsNew
  <2>4. OfWizard(Item(u, w).id)'
    BY <1>7 DEF OfWizard
  <2>5. f[v] = f[w]
    <3>1. CASE Old(v) /\ Old(w)
      BY <1>7, <2>2, <3>1 DEF WorkIsUnique
    <3>2. CASE Given(v) /\ Given(w)
      BY <3>2
    <3>3. CASE Old(v) /\ Given(w)
      BY <1>7, <2>2, <2>3, <3>3
    <3>4. CASE Given(v) /\ Old(w)
      BY <1>7, <2>2, <2>3, <2>4, <3>4
    <3> QED
      BY <2>1, <3>1, <3>2, <3>3, <3>4
  <2> QED
    BY <1>7, <2>5
<1> QED
  <2>1. ASSUME NEW u \in Tab
        PROVE  /\ (\A w \in Work(u) :
                     u = owner /\ Awaited(Item(u, w).id) /\ IsOf(u, w))'
               /\ (\A v, w \in Work(u) :
                     OfWizard(Item(u, v).id) /\ Item(u, v).id = Item(u, w).id
                       => v = w)'
    <3>1. PICK f : /\ \A w \in Work(u)' : ComesFrom(u, f[w], w)
                   /\ \A v, w \in Work(u)' : f[v] = f[w] => v = w
                   /\ WorkerReceive(u) =>
                        \A w \in Work(u)' : f[w] # <<"output", 1>>
      BY WorkAfter
    <3> QED
      BY <1>6, <1>7, <3>1
  <2> QED
    BY <2>1 DEF WorkIsAwaited, WorkIsUnique

-----------------------------------------------------------------------------
(***************************************************************************)
(* What a tab is told fits what it called.                                 *)
(***************************************************************************)
\* What a port holds after a step it held before, or it was posted by the
\* worker.
LEMMA TabChannel ==
  ASSUME TypeOK, CacheIsRight, [Next]_vars, NEW u \in Tab,
         NEW i \in 1 .. Len(toTab'[u])
  PROVE  \/ \E k \in 1 .. Len(toTab[u]) : toTab'[u][i] = toTab[u][k]
         \/ \E t \in Tab : /\ WorkerConnect(t) \/ WorkerReceive(t)
                           /\ Told(t, u, toTab'[u][i])
<1> USE DEF coordinatorVars
<1>1. CASE \E t \in Tab : WorkerConnect(t) \/ WorkerReceive(t)
  BY <1>1, PostsAfter
<1>2. ASSUME NEW t \in Tab, TabReceive(t)
      PROVE  \E k \in 1 .. Len(toTab[u]) : toTab'[u][i] = toTab[u][k]
  <2>1. /\ toTab[t] # <<>> /\ toTab[t] \in Seq(Message)
        /\ toTab' = [toTab EXCEPT ![t] = Tail(@)]
    BY <1>2 DEF TabReceive, Take, TypeOK, CoordinatorTypeOK
  <2>2. CASE t # u
    BY <2>1, <2>2 DEF TypeOK, CoordinatorTypeOK
  <2>3. CASE t = u
    <3>1. toTab'[u] = Tail(toTab[u])
      BY <2>1, <2>3 DEF TypeOK, CoordinatorTypeOK
    <3> QED
      BY <2>1, <2>3, <3>1, TailElements
  <2> QED
    BY <2>2, <2>3
<1>3. ASSUME NEW t \in Tab,
             \/ Open(t) \/ Close(t) \/ Crash(t) \/ StartOnboardingRuntime(t)
             \/ PostRuntimeRequest(t) \/ BootSucceeds(t) \/ BootFails(t)
             \/ RunOperation(t)
      PROVE  toTab' = toTab
  BY <1>3 DEF Open, Close, Crash, StopRuntime, StartOnboardingRuntime,
              PostRuntimeRequest, BootSucceeds, BootFails, RunOperation
<1>4. CASE toTab' = toTab
  BY <1>4
<1> QED
  BY <1>1, <1>2, <1>3, <1>4 DEF Next, vars

\* The response the worker takes from its owner is one it awaits.
LEMMA ResponseTaken ==
  ASSUME RuntimeInv, Recorded, WorkIsAwaited, NEW t \in Tab, WorkerReceive(t),
         NEW m, m = Head(toWorker[t]), m.type = "response", OwnerResponse(t, m)
  PROVE  /\ t = owner /\ m \in Response /\ m.id \in Request
         /\ 1 \in Outputs(t) /\ m = toWorker[t][1]
         /\ <<"output", 1>> \in Work(t) /\ Item(t, <<"output", 1>>) = m
         /\ callOf[m.id] \in Call /\ callOf[m.id] # None
         /\ Suits(m, callOf[m.id])
         /\ requestMethods[m.id] = callOf[m.id].method
         /\ requestOwners[m.id] \in {None, caller[m.id]}
         /\ requestWizardNextKeys[m.id] \in {None, WizardNextKey(callOf[m.id])}
<1>1. TypeOK
  BY DEF RuntimeInv
<1>2. /\ 1 \in Outputs(t) /\ m = toWorker[t][1] /\ t = owner /\ t \in ports
      /\ m \in Response
  BY <1>1, Heads, InTransitMessages DEF Outputs, OwnerResponse
<1>3. <<"output", 1>> \in Work(t) /\ Item(t, <<"output", 1>>) = m
  BY ZenonT(40), <1>2, WorkIs DEF Heard
<1>4. /\ Awaited(m.id) /\ IsOf(t, <<"output", 1>>) /\ m.id \in Request
  BY <1>1, <1>3, ItemId DEF WorkIsAwaited
<1>5. callOf[m.id] \in Call /\ callOf[m.id] # None /\ Suits(m, callOf[m.id])
  <2>1. <<"output", 1>>[1] = "output"
    OBVIOUS
  <2> QED
    BY <1>1, <1>3, <1>4, <2>1 DEF Awaited, IsOf, TypeOK
<1>6. /\ requestOwners[m.id] # None => requestOwners[m.id] = caller[m.id]
      /\ requestMethods[m.id] # None => requestMethods[m.id] = callOf[m.id].method
      /\ requestWizardNextKeys[m.id] # None =>
           requestWizardNextKeys[m.id] = WizardNextKey(callOf[m.id])
  BY <1>4 DEF Recorded
<1>7. requestMethods[m.id] = callOf[m.id].method
  BY <1>4, <1>6 DEF Awaited, OfWizard
<1> QED
  BY <1>2, <1>3, <1>4, <1>5, <1>6, <1>7

\* What RepliesMatchCalls says of one reply.
Matches(u, m) ==
  LET c == callOf[m.id] IN
  /\ c.method # None => caller[m.id] = u
  /\ m.ok /\ WizardNextKey(c) # None => m.result.at = c.answer
  /\ m.ok /\ c.method = "wizard.start" /\ NothingCancelled
       => m.result.session # None

\* The key of an answer names it.
LEMMA KeyNames ==
  ASSUME NEW c \in Call, WizardNextKey(c) # None
  PROVE  /\ c.method = "wizard.next" /\ c.method # None
         /\ WizardNextKey(c) = <<c.session, c.answer>>
         /\ WizardNextKey(c)[1] = c.session /\ WizardNextKey(c)[2] = c.answer
         /\ WizardNextKey(c) \in Key
<1>1. /\ c.method = "wizard.next" /\ c.session # None /\ c.answer # None
      /\ WizardNextKey(c) = <<c.session, c.answer>>
  BY DEF WizardNextKey
<1>2. c.session \in Session /\ c.answer \in Answer
  BY <1>1 DEF Call
<1>3. "wizard.next" # None
  BY NoneAssumption DEF Method
<1> QED
  BY <1>1, <1>2, <1>3 DEF Key

LEMMA MemoryMatches ==
  ASSUME TypeOK, CoordinatorInv, CacheIsRight, SessionIsReported,
         NEW u \in Tab, NEW c \in Call, callOf[c.id] = c, caller[c.id] = u,
         NEW x, FromMemory(c, x)
  PROVE  Matches(u, x) /\ callOf[x.id] # None
<1>1. /\ x.id = c.id /\ callOf[x.id] = c /\ caller[x.id] = u /\ c # None
  BY CallAssumption DEF FromMemory
<1>2. ASSUME NEW i \in 1 .. Len(wizardNextResponseCache),
             wizardNextResponseCache[i].key = WizardNextKey(c),
             x.result = wizardNextResponseCache[i].response.result
      PROVE  Matches(u, x)
  <2>1. /\ wizardNextResponseCache[i].key \in Key
        /\ x.result.at = WizardNextKey(c)[2]
    <3>1. wizardNextResponseCache[i] \in [key : Key, response : Response]
      BY <1>2, ElementOfSeq, EntryType DEF TypeOK, CoordinatorTypeOK
    <3> QED
      BY <1>2, <3>1 DEF CacheIsRight
  <2>2. WizardNextKey(c) # None
    BY <1>2, <2>1, NoneIsNoKey
  <2> QED
    BY <1>1, <2>1, <2>2, KeyNames DEF Matches
<1>3. CASE c.method = "wizard.start" /\ wizardSnapshot # None
           /\ x.result = wizardSnapshot
  <2>1. WizardNextKey(c) = None
    BY <1>3 DEF WizardNextKey
  <2>2. NothingCancelled => x.result.session # None
    BY <1>3 DEF SessionIsReported, CoordinatorInv, SnapshotOfLiveSession
  <2> QED
    BY <1>1, <2>1, <2>2 DEF Matches
<1> QED
  BY <1>1, <1>2, <1>3 DEF FromMemory

LEMMA ResponseMatches ==
  ASSUME RuntimeInv, Recorded, JoinedIsSame, WorkIsAwaited,
         NEW t \in Tab, WorkerReceive(t), NEW m, m = Head(toWorker[t]),
         m.type = "response", OwnerResponse(t, m),
         NEW u \in Tab, NEW x, PassedOn(m, u, x)
  PROVE  Matches(u, x) /\ callOf[x.id] # None
<1> DEFINE c == callOf[m.id]
           k == requestWizardNextKeys[m.id]
<1>1. /\ t = owner /\ m \in Response /\ m.id \in Request
      /\ <<"output", 1>> \in Work(t) /\ Item(t, <<"output", 1>>) = m
      /\ c \in Call /\ c # None /\ Suits(m, c)
      /\ requestMethods[m.id] = c.method
      /\ requestOwners[m.id] \in {None, caller[m.id]}
      /\ k \in {None, WizardNextKey(c)}
  BY ResponseTaken
<1>2. TypeOK /\ u # None
  BY NoneAssumption DEF RuntimeInv
<1>3. x.ok = m.ok /\ x.result = m.result
  BY DEF PassedOn
<1>4. CASE x.id = m.id /\ u = requestOwners[m.id]
  BY <1>1, <1>2, <1>3, <1>4 DEF Matches, Suits
<1>5. CASE ~Tracked(m.id) /\ x.id = m.id
  <2>1. c.method = None
    BY <1>1, <1>5 DEF Tracked
  <2> QED
    BY <1>1, <1>5, <2>1, NoneAssumption DEF Matches, WizardNextKey, Method
<1>6. ASSUME k # None, NEW i \in 1 .. Len(wizardNextWaiters[k][u]),
             x.id = wizardNextWaiters[k][u][i]
      PROVE  Matches(u, x) /\ callOf[x.id] # None
  <2>1. k = WizardNextKey(c) /\ k \in Key /\ k[2] = c.answer
    BY <1>1, <1>6, KeyNames
  <2>2. /\ callOf[x.id] # None /\ caller[x.id] = u
        /\ WizardNextKey(callOf[x.id]) = k
    BY SMTT(60), <1>6, <2>1 DEF JoinedIsSame
  <2>3. x.id \in Request
    <3>1. wizardNextWaiters[k][u] \in Seq(Request)
      BY <1>2, <2>1 DEF TypeOK, CoordinatorTypeOK
    <3> QED
      BY <1>6, <3>1, ElementOfSeq
  <2>4. callOf[x.id] \in Call
    BY <1>2, <2>2, <2>3 DEF TypeOK
  <2>5. /\ callOf[x.id].method = "wizard.next"
        /\ callOf[x.id].answer = c.answer
    BY <1>6, <2>1, <2>2, <2>4, KeyNames
  <2>6. m.ok => m.result.at = c.answer
    BY <1>1, <1>6, <2>1 DEF Suits
  <2> QED
    BY <1>3, <2>2, <2>5, <2>6 DEF Matches
<1>7. ASSUME requestMethods[m.id] = "wizard.start",
             NEW i \in 1 .. Len(wizardStartWaiters[u]),
             x.id = wizardStartWaiters[u][i]
      PROVE  Matches(u, x) /\ callOf[x.id] # None
  <2>1. /\ callOf[x.id] # None /\ caller[x.id] = u
        /\ callOf[x.id].method = "wizard.start"
    BY <1>7 DEF JoinedIsSame
  <2>2. m.ok => m.result.session # None
    BY <1>1, <1>7 DEF Suits
  <2>3. WizardNextKey(callOf[x.id]) = None
    BY <2>1 DEF WizardNextKey
  <2> QED
    BY <1>3, <2>1, <2>2, <2>3 DEF Matches
<1> QED
  BY <1>1, <1>4, <1>5, <1>6, <1>7 DEF PassedOn

LEMMA RepliesStay ==
  ASSUME RuntimeInv, Recorded, JoinedIsSame, WorkIsAwaited, CacheIsRight,
         RepliesMatchCalls, RepliesAreCalled, SessionIsReported, [Next]_vars
  PROVE  RepliesMatchCalls' /\ RepliesAreCalled'
<1>1. TypeOK /\ CoordinatorInv
  BY DEF RuntimeInv
<1>2. ASSUME NEW u \in Tab, NEW i \in 1 .. Len(toTab'[u]),
             toTab'[u][i].type = "response"
      PROVE  Matches(u, toTab'[u][i]) /\ callOf[toTab'[u][i].id] # None
  <2> DEFINE x == toTab'[u][i]
  <2>1. CASE \E k \in 1 .. Len(toTab[u]) : x = toTab[u][k]
    BY <1>2, <2>1 DEF RepliesMatchCalls, RepliesAreCalled, Matches
  <2>2. ASSUME NEW t \in Tab, WorkerConnect(t) \/ WorkerReceive(t), Told(t, u, x)
        PROVE  Matches(u, x) /\ callOf[x.id] # None
    <3> DEFINE m == Head(toWorker[t])
    <3>1. CASE /\ WorkerReceive(t) /\ m.type = "operation"
               /\ u = t /\ FromMemory(m.call, x)
      <4>1. /\ m = toWorker[t][1] /\ 1 \in 1 .. Len(toWorker[t])
            /\ m.call \in Call
        BY <1>1, <3>1, Heads, InTransitMessages
      <4>2. callOf[m.call.id] = m.call /\ caller[m.call.id] = u
        BY <3>1, <4>1 DEF Recorded
      <4> QED
        BY <1>1, <3>1, <4>1, <4>2, MemoryMatches
    <3>2. CASE /\ WorkerReceive(t) /\ m.type = "response"
               /\ OwnerResponse(t, m) /\ PassedOn(m, u, x)
      BY <3>2, ResponseMatches
    <3> HIDE DEF m
    <3> QED
      BY <1>2, <2>2, <3>1, <3>2 DEF Told, m
  <2> HIDE DEF x
  <2> QED
    BY <1>1, <2>1, <2>2, TabChannel DEF x
<1>3. ASSUME NEW u \in Tab, NEW i \in 1 .. Len(toTab'[u]),
             toTab'[u][i].type = "response"
      PROVE  LET m == toTab'[u][i]
                 c == callOf'[m.id] IN
             /\ c # None
             /\ c.method # None => caller'[m.id] = u
             /\ m.ok /\ WizardNextKey(c) # None => m.result.at = c.answer
             /\ m.ok /\ c.method = "wizard.start" /\ NothingCancelled'
                  => m.result.session # None
  <2> DEFINE r == toTab'[u][i].id
  <2>1. TypeOK' /\ toTab'[u][i] \in Response
    <3>1. TypeOK'
      BY RuntimeStep DEF RuntimeInv
    <3>2. toTab'[u][i] \in Message
      BY <3>1, ElementOfSeq DEF TypeOK, CoordinatorTypeOK
    <3> QED
      BY <1>3, <3>1, <3>2 DEF Message
  <2>2. r \in Request /\ callOf[r] # None
    BY <1>2, <1>3, <2>1 DEF Response
  <2>3. callOf'[r] = callOf[r] /\ caller'[r] = caller[r]
    BY <1>1, <2>2, CallsKept
  <2>4. NothingCancelled' => NothingCancelled
    BY <1>1, CallsKept
  <2> QED
    BY <1>2, <1>3, <2>2, <2>3, <2>4 DEF Matches
<1> QED
  BY <1>3 DEF RepliesMatchCalls, RepliesAreCalled

\* What is kept for repeated answers was kept, or is the response just taken.
LEMMA CacheAfter ==
  ASSUME TypeOK, CoordinatorInv, [Next]_vars,
         NEW i \in 1 .. Len(wizardNextResponseCache')
  PROVE  \/ \E j \in 1 .. Len(wizardNextResponseCache) :
              wizardNextResponseCache'[i] = wizardNextResponseCache[j]
         \/ \E t \in Tab :
              LET m == Head(toWorker[t]) IN
              /\ WorkerReceive(t) /\ m.type = "response"
              /\ OwnerResponse(t, m) /\ m.ok
              /\ requestWizardNextKeys[m.id] # None
              /\ wizardNextResponseCache'[i]
                   = [key |-> requestWizardNextKeys[m.id], response |-> m]
<1> USE DEF dedupVars, coordinatorVars
<1>1. CASE \A t \in Tab : ~WorkerReceive(t)
  BY <1>1, NothingRecorded
<1>2. ASSUME NEW t \in Tab, WorkerReceive(t), NEW m, m = Head(toWorker[t])
      PROVE  \/ \E j \in 1 .. Len(wizardNextResponseCache) :
                  wizardNextResponseCache'[i] = wizardNextResponseCache[j]
             \/ /\ m.type = "response" /\ OwnerResponse(t, m) /\ m.ok
                /\ requestWizardNextKeys[m.id] # None
                /\ wizardNextResponseCache'[i]
                     = [key |-> requestWizardNextKeys[m.id], response |-> m]
  <2>1. CASE Disconnect(t)
    <3>1. wizardNextResponseCache' \in {wizardNextResponseCache, <<>>}
      BY <2>1 DEF Disconnect, DisconnectOwner, DisconnectFollower,
                  ClearWizardNextDeduplication
    <3> QED
      BY <3>1, EmptySeq
  <2>2. CASE RuntimeStart(t) \/ GatewayReady(t) \/ IgnoreOutput(t)
    BY <2>2 DEF RuntimeStart, GatewayReady, IgnoreOutput
  <2>3. CASE m.type = "operation" /\ Operation(t, m.call)
    BY <2>3 DEF Operation, AnswerFromCache, JoinWizardNext,
                AnswerFromSnapshot, JoinWizardStart, Forward
  <2>4. CASE m.type = "response" /\ OwnerResponse(t, m)
    <3>1. CASE BroadcastResponse(m)
      BY <3>1 DEF BroadcastResponse
    <3>2. CASE RouteResponse(m)
      <4> DEFINE k == requestWizardNextKeys[m.id]
                 cache == IF ChangesSession(m) \/ Cancels(m) THEN <<>>
                          ELSE wizardNextResponseCache
      <4>1. m \in Response /\ m.id \in Request /\ k \in Key \cup {None}
        <5>1. m \in Response
          BY <1>2, <2>4, Heads, InTransitMessages
        <5>2. m.id \in Request
          BY <5>1 DEF Response
        <5> QED
          BY <5>1, <5>2 DEF TypeOK, CoordinatorTypeOK
      <4>2. cache \in {wizardNextResponseCache, <<>>}
        OBVIOUS
      <4>3. wizardNextResponseCache' =
              IF k # None /\ m.ok THEN RememberWizardNextResponse(cache, k, m)
              ELSE cache
        BY <3>2 DEF RouteResponse, SettleDeduplication
      <4> HIDE DEF cache, k
      <4>4. CASE ~(k # None /\ m.ok)
        BY <4>2, <4>3, <4>4, EmptySeq
      <4>5. CASE k # None /\ m.ok
        <5>1. cache \in Seq(Entry) /\ Len(cache) <= MaxCached /\ k \in Key
          <6>1. /\ wizardNextResponseCache \in Seq(Entry)
                /\ Len(wizardNextResponseCache) <= MaxCached
            BY DEF TypeOK, CoordinatorTypeOK, CoordinatorInv, CacheIsExclusive,
                   Entry
          <6>2. <<>> \in Seq(Entry) /\ Len(<<>>) <= MaxCached
            BY EmptySeq, MaxCachedAssumption
          <6> QED
            BY <4>1, <4>2, <4>5, <6>1, <6>2
        <5>2. /\ wizardNextResponseCache' \in Seq(Entry)
              /\ wizardNextResponseCache'[Len(wizardNextResponseCache')]
                   = [key |-> k, response |-> m]
              /\ ExtendsSuffixOf(wizardNextResponseCache', cache)
          BY <4>1, <4>3, <4>5, <5>1, RememberProperties
        <5>3. CASE i = Len(wizardNextResponseCache')
          BY <2>4, <4>5, <5>2, <5>3 DEF k
        <5>4. CASE i # Len(wizardNextResponseCache')
          <6>1. i \in 1 .. (Len(wizardNextResponseCache') - 1)
            BY <5>2, <5>4, LenProperties
          <6>2. \E j \in 1 .. Len(cache) : wizardNextResponseCache'[i] = cache[j]
            BY <5>2, <6>1 DEF ExtendsSuffixOf
          <6> QED
            BY <4>2, <6>2, EmptySeq
        <5> QED
          BY <5>3, <5>4
      <4> QED
        BY <4>4, <4>5
    <3> QED
      BY <2>4, <3>1, <3>2 DEF OwnerResponse
  <2> QED
    BY <1>2, <2>1, <2>2, <2>3, <2>4 DEF WorkerReceive
<1> QED
  BY <1>1, <1>2

LEMMA CacheStays ==
  ASSUME RuntimeInv, Recorded, WorkIsAwaited, CacheIsRight, [Next]_vars
  PROVE  CacheIsRight'
<1>1. TypeOK /\ CoordinatorInv
  BY DEF RuntimeInv
<1>2. ASSUME NEW t \in Tab, NEW m, m = Head(toWorker[t]), WorkerReceive(t),
             m.type = "response", OwnerResponse(t, m), m.ok,
             requestWizardNextKeys[m.id] # None
      PROVE  /\ m.result.at = requestWizardNextKeys[m.id][2]
             /\ m.result.session = None
  <2>1. /\ callOf[m.id] \in Call /\ Suits(m, callOf[m.id])
        /\ requestWizardNextKeys[m.id] = WizardNextKey(callOf[m.id])
    BY <1>2, ResponseTaken
  <2>2. /\ callOf[m.id].method = "wizard.next"
        /\ WizardNextKey(callOf[m.id])[2] = callOf[m.id].answer
    BY <1>2, <2>1, KeyNames
  <2> QED
    BY <1>2, <2>1, <2>2 DEF Suits
<1>3. ASSUME NEW i \in 1 .. Len(wizardNextResponseCache'),
             NEW e, e = wizardNextResponseCache'[i]
      PROVE  /\ e.response.ok /\ e.response.result.at = e.key[2]
             /\ e.response.result.session = None
  <2>1. CASE \E j \in 1 .. Len(wizardNextResponseCache) :
               wizardNextResponseCache'[i] = wizardNextResponseCache[j]
    BY <1>3, <2>1 DEF CacheIsRight
  <2>2. ASSUME NEW t \in Tab, NEW m, m = Head(toWorker[t]), WorkerReceive(t),
               m.type = "response", OwnerResponse(t, m), m.ok,
               requestWizardNextKeys[m.id] # None,
               e = [key |-> requestWizardNextKeys[m.id], response |-> m]
        PROVE  /\ e.response.ok /\ e.response.result.at = e.key[2]
               /\ e.response.result.session = None
    BY <1>2, <2>2
  <2> QED
    BY <1>1, <1>3, <2>1, <2>2, CacheAfter
<1> QED
  BY <1>3 DEF CacheIsRight

-----------------------------------------------------------------------------
(***************************************************************************)
(* What the Gateway makes of a call.                                       *)
(***************************************************************************)
\* The wizard starts, takes an answer, ends, or is left alone.
Started(t, c) ==
  /\ c.method = "wizard.start" /\ wizard[t].session = None
  /\ wizard'[t].session \in Session \ sessionsUsed
  /\ wizard'[t].at = None
  /\ sessionsUsed' = sessionsUsed \cup {wizard'[t].session}
  /\ applied' = applied
Advanced(t, c) ==
  /\ WizardNextKey(c) # None
  /\ wizard[t].session # None /\ wizard[t].session = c.session
  /\ wizard'[t].session = wizard[t].session /\ wizard'[t].at = c.answer
  /\ sessionsUsed' = sessionsUsed
  /\ applied' = [applied EXCEPT ![WizardNextKey(c)] = @ + 1]
Ceased(t, c) ==
  /\ c.method = "wizard.cancel" /\ wizard'[t] = NoWizard
  /\ sessionsUsed' = sessionsUsed /\ applied' = applied
Shown(t, c) ==
  /\ c.method \notin {"wizard.start", "wizard.cancel"} /\ WizardNextKey(c) = None
  /\ c.method # None => wizard[t].session # None /\ wizard[t].session = c.session
  /\ wizard'[t] = wizard[t] /\ sessionsUsed' = sessionsUsed
  /\ applied' = applied

LEMMA ServedCases ==
  ASSUME TypeOK, NEW t \in Tab, NEW c \in Call, GatewayServes(t, c)
  PROVE  /\ Started(t, c) \/ Advanced(t, c) \/ Ceased(t, c) \/ Shown(t, c)
         /\ \A u \in Tab : u # t => wizard'[u] = wizard[u]
<1> DEFINE fresh == Fresh(Session, sessionsUsed)
<1>1. /\ Accepts(wizard[t], c) /\ wizard[t] \in Result
      /\ wizard' = [wizard EXCEPT ![t] = WizardAfter(@, c, fresh)]
      /\ wizard'[t] = WizardAfter(wizard[t], c, fresh)
  BY DEF GatewayServes, TypeOK
<1>2. c.method = "wizard.start" =>
        /\ fresh \in Session \ sessionsUsed
        /\ sessionsUsed' = sessionsUsed \cup {fresh}
  BY FreshIsUnused DEF GatewayServes, TypeOK
<1>3. c.method # "wizard.start" => sessionsUsed' = sessionsUsed
  BY DEF GatewayServes
<1>4. /\ WizardNextKey(c) = None => applied' = applied
      /\ WizardNextKey(c) # None =>
           applied' = [applied EXCEPT ![WizardNextKey(c)] = @ + 1]
  BY DEF GatewayServes
<1> HIDE DEF fresh
<1>5. None \notin Method
  BY NoneIsNoKey
<1>6. CASE c.method = "wizard.start"
  <2>1. /\ wizard[t].session = None
        /\ wizard'[t] = [session |-> fresh, at |-> None]
        /\ WizardNextKey(c) = None
    BY <1>1, <1>5, <1>6 DEF Accepts, WizardAfter, WizardNextKey, Method
  <2> QED
    BY <1>1, <1>2, <1>4, <1>6, <2>1 DEF Started
<1>7. CASE c.method = "wizard.cancel"
  <2>1. wizard'[t] = NoWizard /\ WizardNextKey(c) = None
    BY <1>1, <1>7 DEF WizardAfter, WizardNextKey
  <2> QED
    BY <1>1, <1>3, <1>4, <1>7, <2>1 DEF Ceased
<1>8. CASE c.method \notin {"wizard.start", "wizard.cancel"}
  <2>1. c.method # None => wizard[t].session # None /\ wizard[t].session = c.session
    BY <1>1, <1>8 DEF Accepts
  <2>2. CASE WizardNextKey(c) # None
    <3>1. c.method = "wizard.next" /\ c.answer # None /\ c.method # None
      BY <2>2, KeyNames, NoneAssumption DEF WizardNextKey
    <3>2. wizard'[t] = [wizard[t] EXCEPT !.at = c.answer]
      BY <1>1, <3>1 DEF WizardAfter
    <3>3. wizard'[t].session = wizard[t].session /\ wizard'[t].at = c.answer
      BY <1>1, <3>2 DEF Result
    <3> QED
      BY <1>1, <1>3, <1>4, <1>8, <2>1, <2>2, <3>1, <3>3 DEF Advanced
  <2>3. CASE WizardNextKey(c) = None
    <3>1. wizard'[t] = wizard[t]
      <4>1. ASSUME c.method = "wizard.next", c.answer # None
            PROVE  FALSE
        <5>1. c.session # None
          BY <1>5, <2>1, <4>1 DEF Method
        <5>2. WizardNextKey(c) = <<c.session, c.answer>>
          BY <4>1, <5>1 DEF WizardNextKey
        <5>3. c.session \in Session /\ c.answer \in Answer
          BY <4>1, <5>1 DEF Call
        <5> QED
          BY <2>3, <5>2, <5>3, NoneIsNoKey DEF Key
      <4> QED
        BY <1>1, <1>8, <4>1 DEF WizardAfter
    <3> QED
      BY <1>1, <1>3, <1>4, <1>8, <2>1, <2>3, <3>1 DEF Shown
  <2> QED
    BY <2>2, <2>3
<1>9. \A u \in Tab : u # t => wizard'[u] = wizard[u]
  BY <1>1 DEF TypeOK
<1> QED
  BY <1>6, <1>7, <1>8, <1>9

\* The owner ends a call: its Gateway serves it or not, and the host reports
\* the result or a failure.
Succeeds(t, c, m) ==
  /\ GatewayServes(t, c) /\ m.ok /\ m.result = Reported(wizard'[t], c)
  /\ timedOut' = timedOut
TimesOut(t, c, m) ==
  GatewayServes(t, c) /\ ~m.ok /\ timedOut' = timedOut \cup {c.id}
Fails(m) == ~m.ok /\ UNCHANGED gatewayVars

LEMMA OperationCases ==
  ASSUME TypeOK, NEW t \in Tab, RunOperation(t)
  PROVE  \E c \in Call, m \in Response :
           /\ c = operationQueue[t][1] /\ 1 \in 1 .. Len(operationQueue[t])
           /\ runtime[t] = "ready"
           /\ m.id = c.id /\ Submit(t, m) /\ m.type = "response"
           /\ Succeeds(t, c, m) \/ TimesOut(t, c, m) \/ Fails(m)
<1> DEFINE c == Head(operationQueue[t])
           success == [type |-> "response", id |-> c.id, ok |-> TRUE,
                       result |-> Reported(wizard'[t], c)]
<1>1. /\ operationQueue[t] # <<>> /\ operationQueue[t] \in Seq(Call)
      /\ runtime[t] = "ready"
  BY DEF RunOperation, TypeOK
<1>2. /\ c \in Call /\ c = operationQueue[t][1] /\ c.id \in Request
      /\ 1 \in 1 .. Len(operationQueue[t])
  <2>1. c \in Call /\ c = operationQueue[t][1]
    BY <1>1, TailElements
  <2>2. 1 \in 1 .. Len(operationQueue[t])
    BY <1>1, EmptySeq
  <2> QED
    BY <2>1, <2>2 DEF Call
<1>3. \/ GatewayServes(t, c) /\ Submit(t, success) /\ timedOut' = timedOut
      \/ /\ GatewayServes(t, c) /\ Submit(t, Failure(c))
         /\ timedOut' = timedOut \cup {c.id}
      \/ UNCHANGED gatewayVars /\ Submit(t, Failure(c))
  BY DEF RunOperation
<1> HIDE DEF c
<1>4. /\ Failure(c) \in Response /\ Failure(c).id = c.id /\ ~Failure(c).ok
      /\ Failure(c).type = "response"
  BY <1>2 DEF Failure, Response
<1>5. GatewayServes(t, c) =>
        /\ success \in Response /\ success.id = c.id /\ success.ok
        /\ success.result = Reported(wizard'[t], c) /\ success.type = "response"
  <2>1. GatewayServes(t, c) => Reported(wizard'[t], c) \in Result
    BY <1>2, GatewayTypes
  <2> QED
    BY <1>2, <2>1 DEF Response
<1> HIDE DEF success
<1> QED
  BY <1>1, <1>2, <1>3, <1>4, <1>5 DEF Succeeds, TimesOut, Fails

-----------------------------------------------------------------------------
(***************************************************************************)
(* The reports on their way to the worker.                                 *)
(***************************************************************************)
\* The outputs of a tab move up by one when the worker takes the first, get
\* one more when an operation ends, and else stay.
OutputsShift(u, d) ==
  \A i \in Nat \ {0} :
    /\ i \in Outputs(u)' <=> i + d \in Outputs(u)
    /\ i + d \in Outputs(u) => toWorker'[u][i] = toWorker[u][i + d]

LEMMA OutputsTaken ==
  ASSUME TypeOK, NEW u \in Tab, WorkerReceive(u)
  PROVE  OutputsShift(u, 1)
<1>1. /\ toWorker[u] \in Seq(InTransit) /\ toWorker[u] # <<>>
      /\ toWorker'[u] = Tail(toWorker[u])
  BY Heads DEF TypeOK
<1>2. /\ Len(toWorker[u]) \in Nat \ {0} /\ Len(toWorker'[u]) = Len(toWorker[u]) - 1
      /\ \A i \in 1 .. Len(toWorker'[u]) :
           i + 1 \in 1 .. Len(toWorker[u]) /\ toWorker'[u][i] = toWorker[u][i + 1]
  BY <1>1, TailElements
<1>3. ASSUME NEW i \in Nat \ {0}
      PROVE  i \in 1 .. Len(toWorker'[u]) <=> i + 1 \in 1 .. Len(toWorker[u])
  BY <1>2
<1> QED
  BY <1>2, <1>3 DEF OutputsShift, Outputs

LEMMA OutputsAppended ==
  ASSUME TypeOK, NEW u \in Tab, NEW t \in Tab, NEW m \in InTransit, Submit(t, m)
  PROVE  /\ Len(toWorker[u]) \in Nat
         /\ \A i \in Outputs(u) :
              i \in Outputs(u)' /\ toWorker'[u][i] = toWorker[u][i]
         /\ \A i \in Outputs(u)' :
              \/ i \in Outputs(u)
              \/ /\ u = t /\ i = Len(toWorker[u]) + 1 /\ toWorker'[u][i] = m
                 /\ m.type = "response"
         /\ u = t /\ m.type = "response" =>
              /\ Len(toWorker[u]) + 1 \in Outputs(u)'
              /\ toWorker'[u][Len(toWorker[u]) + 1] = m
<1>1. toWorker[u] \in Seq(InTransit) /\ Len(toWorker[u]) \in Nat
  BY LenProperties DEF TypeOK
<1>2. CASE u # t
  BY <1>1, <1>2 DEF Submit, Outputs, TypeOK
<1>3. CASE u = t
  <2>1. toWorker'[u] = Append(toWorker[u], m)
    BY <1>3 DEF Submit, TypeOK
  <2>2. /\ Len(toWorker'[u]) = Len(toWorker[u]) + 1
        /\ \A i \in 1 .. Len(toWorker[u]) :
             i \in 1 .. Len(toWorker'[u]) /\ toWorker'[u][i] = toWorker[u][i]
        /\ toWorker'[u][Len(toWorker[u]) + 1] = m
        /\ \A i \in 1 .. Len(toWorker'[u]) :
             \/ i \in 1 .. Len(toWorker[u]) /\ toWorker'[u][i] = toWorker[u][i]
             \/ i = Len(toWorker[u]) + 1 /\ toWorker'[u][i] = m
    BY <1>1, <2>1, AppendElements
  <2>3. Len(toWorker[u]) + 1 \in 1 .. Len(toWorker'[u])
    BY <1>1, <2>2
  <2> QED
    BY <1>1, <1>3, <2>2, <2>3 DEF Outputs
<1> QED
  BY <1>2, <1>3

LEMMA OutputsStay ==
  ASSUME TypeOK, NEW u \in Tab, [Next]_vars, ~WorkerReceive(u), ~RunOperation(u)
  PROVE  OutputsShift(u, 0)
<1>1. ASSUME \A i \in Outputs(u) :
               i \in Outputs(u)' /\ toWorker'[u][i] = toWorker[u][i],
             \A i \in Outputs(u)' : i \in Outputs(u)
      PROVE  OutputsShift(u, 0)
  BY <1>1 DEF OutputsShift
<1>2. CASE UNCHANGED toWorker
  BY <1>1, <1>2 DEF Outputs
<1>3. ASSUME NEW t \in Tab, NEW m \in InTransit, Submit(t, m),
             t # u \/ m.type # "response"
      PROVE  OutputsShift(u, 0)
  BY <1>1, <1>3, OutputsAppended
<1>4. ASSUME NEW t \in Tab,
             Close(t) \/ StartOnboardingRuntime(t) \/ BootSucceeds(t)
      PROVE  OutputsShift(u, 0)
  <2>1. PICK type \in {"disconnect", "start", "ready"} :
          Submit(t, [type |-> type])
    BY <1>4 DEF Close, StartOnboardingRuntime, BootSucceeds
  <2> QED
    BY <1>3, <2>1, InTransitMessages
<1>5. ASSUME NEW t \in Tab, PostRuntimeRequest(t)
      PROVE  OutputsShift(u, 0)
  <2>1. PICK c \in Call : Submit(t, [type |-> "operation", call |-> c])
    BY <1>5, CallPosted
  <2> QED
    BY <1>3, <2>1, InTransitMessages
<1>6. ASSUME NEW t \in Tab, RunOperation(t)
      PROVE  OutputsShift(u, 0)
  BY <1>3, <1>6, OperationResponds, InTransitMessages
<1>7. ASSUME NEW t \in Tab, WorkerReceive(t)
      PROVE  OutputsShift(u, 0)
  <2>1. toWorker'[u] = toWorker[u]
    BY <1>7, Heads DEF TypeOK
  <2> QED
    BY <1>1, <2>1 DEF Outputs
<1>8. ASSUME NEW t \in Tab, \/ Open(t) \/ Crash(t) \/ BootFails(t)
                            \/ WorkerConnect(t) \/ TabReceive(t)
      PROVE  UNCHANGED toWorker
  BY <1>8 DEF Open, Crash, BootFails, WorkerConnect, TabReceive
<1> QED
  BY <1>2, <1>4, <1>5, <1>6, <1>7, <1>8 DEF Next, vars

\* The reports do the same, as long as the owner stays.
ReportsShift(d) ==
  \A i \in Nat \ {0} :
    /\ i \in Reporting' <=> i + d \in Reporting
    /\ i + d \in Reporting =>
         /\ toWorker'[owner][i] = toWorker[owner][i + d]
         /\ callOf'[toWorker[owner][i + d].id] = callOf[toWorker[owner][i + d].id]
ReportAdded(c, m) ==
  LET n == Len(toWorker[owner]) + 1 IN
  /\ \A i \in Reporting :
       /\ i \in Reporting' /\ i < n
       /\ toWorker'[owner][i] = toWorker[owner][i]
       /\ callOf'[toWorker[owner][i].id] = callOf[toWorker[owner][i].id]
  /\ \A i \in Reporting' : i \in Reporting \/ (i = n /\ m.ok /\ c.method # None)
  /\ m.ok /\ c.method # None => n \in Reporting'
  /\ n \in Nat /\ toWorker'[owner][n] = m /\ callOf'[m.id] = c

LEMMA OwnerConnected ==
  ASSUME RuntimeInv, owner # None
  PROVE  owner \in Tab /\ owner \in ports /\ Heard(owner)
BY DEF RuntimeInv, TypeOK, CoordinatorTypeOK, CoordinatorInv, OwnerIsConnected,
       Heard

LEMMA OutputsAwaited ==
  ASSUME RuntimeInv, WorkIsAwaited, owner # None, NEW i \in Outputs(owner)
  PROVE  LET m == toWorker[owner][i] IN
         /\ i \in Nat \ {0} /\ m \in Response /\ m.id \in Request
         /\ callOf[m.id] \in Call /\ callOf[m.id] # None
         /\ Suits(m, callOf[m.id])
         /\ OfWizard(m.id) => requestMethods[m.id] = callOf[m.id].method
<1> DEFINE m == toWorker[owner][i]
<1>1. TypeOK /\ owner \in Tab /\ Heard(owner)
  BY OwnerConnected DEF RuntimeInv
<1>2. <<"output", i>> \in Work(owner) /\ Item(owner, <<"output", i>>) = m
  BY <1>1, WorkIs
<1>3. Awaited(m.id) /\ IsOf(owner, <<"output", i>>) /\ m.id \in Request
  BY <1>1, <1>2, ItemId DEF WorkIsAwaited
<1>4. <<"output", i>>[1] = "output"
  OBVIOUS
<1>5. callOf[m.id] \in Call /\ callOf[m.id] # None /\ Suits(m, callOf[m.id])
  BY <1>1, <1>2, <1>3, <1>4 DEF Awaited, IsOf, TypeOK
<1>6. m \in Response /\ i \in Nat \ {0}
  <2>1. m \in InTransit /\ m.type = "response"
    BY <1>1, ElementOfSeq DEF Outputs, TypeOK
  <2> QED
    BY <2>1, InTransitMessages DEF Outputs
<1> QED
  BY <1>3, <1>5, <1>6 DEF Awaited

LEMMA ReportsAfter ==
  ASSUME RuntimeInv, WorkIsAwaited, [Next]_vars, owner # None, owner' = owner
  PROVE  /\ WorkerReceive(owner) => ReportsShift(1)
         /\ RunOperation(owner) =>
              \E c \in Call, m \in Response :
                /\ c = operationQueue[owner][1] /\ runtime[owner] = "ready"
                /\ c.id \in Request /\ callOf[c.id] = c /\ m.id = c.id
                /\ <<"queue", 1>> \in Work(owner)
                /\ Item(owner, <<"queue", 1>>) = c
                /\ \/ Succeeds(owner, c, m) \/ TimesOut(owner, c, m)
                   \/ Fails(m)
                /\ ReportAdded(c, m)
         /\ ~WorkerReceive(owner) /\ ~RunOperation(owner) => ReportsShift(0)
<1>1. TypeOK /\ owner \in Tab
  BY OwnerConnected DEF RuntimeInv
<1>2. \A i \in Outputs(owner) :
        LET r == toWorker[owner][i].id IN
        i \in Nat \ {0} /\ callOf'[r] = callOf[r]
  <2>1. ASSUME NEW i \in Outputs(owner), NEW r, r = toWorker[owner][i].id
        PROVE  i \in Nat \ {0} /\ callOf'[r] = callOf[r]
    <3>1. i \in Nat \ {0} /\ r \in Request /\ callOf[r] # None
      BY <2>1, OutputsAwaited
    <3> QED
      BY <1>1, <3>1, CallsKept
  <2> QED
    BY <2>1
<1>3. /\ \A i : i \in Reporting <=>
             /\ i \in Outputs(owner) /\ toWorker[owner][i].ok
             /\ callOf[toWorker[owner][i].id].method # None
      /\ \A i : i \in Reporting' <=>
             /\ i \in Outputs(owner)' /\ toWorker'[owner][i].ok
             /\ callOf'[toWorker'[owner][i].id].method # None
  BY <1>1, NoneAssumption DEF Reporting, OfWizard
<1>4. ASSUME NEW d \in {0, 1}, OutputsShift(owner, d)
      PROVE  ReportsShift(d)
  <2>1. ASSUME NEW i \in Nat \ {0}
        PROVE  /\ i \in Reporting' <=> i + d \in Reporting
               /\ i + d \in Reporting =>
                    /\ toWorker'[owner][i] = toWorker[owner][i + d]
                    /\ callOf'[toWorker[owner][i + d].id]
                         = callOf[toWorker[owner][i + d].id]
    <3>1. /\ i \in Outputs(owner)' <=> i + d \in Outputs(owner)
          /\ i + d \in Outputs(owner) =>
               toWorker'[owner][i] = toWorker[owner][i + d]
      BY <1>4 DEF OutputsShift
    <3> QED
      BY <1>2, <1>3, <3>1
  <2> QED
    BY <2>1 DEF ReportsShift
<1>5. WorkerReceive(owner) => ReportsShift(1)
  BY <1>1, <1>4, OutputsTaken
<1>6. ~WorkerReceive(owner) /\ ~RunOperation(owner) => ReportsShift(0)
  BY <1>1, <1>4, OutputsStay
<1>7. ASSUME RunOperation(owner)
      PROVE  \E c \in Call, m \in Response :
               /\ c = operationQueue[owner][1] /\ runtime[owner] = "ready"
               /\ c.id \in Request /\ callOf[c.id] = c /\ m.id = c.id
               /\ <<"queue", 1>> \in Work(owner)
               /\ Item(owner, <<"queue", 1>>) = c
               /\ \/ Succeeds(owner, c, m) \/ TimesOut(owner, c, m)
                  \/ Fails(m)
               /\ ReportAdded(c, m)
  <2>1. PICK c \in Call, m \in Response :
          /\ c = operationQueue[owner][1] /\ 1 \in 1 .. Len(operationQueue[owner])
          /\ runtime[owner] = "ready"
          /\ m.id = c.id /\ Submit(owner, m) /\ m.type = "response"
          /\ Succeeds(owner, c, m) \/ TimesOut(owner, c, m) \/ Fails(m)
    BY <1>1, <1>7, OperationCases
  <2>2. /\ <<"queue", 1>> \in Work(owner)
        /\ Item(owner, <<"queue", 1>>) = c
    BY <1>1, <2>1, WorkIs
  <2>3. <<"queue", 1>>[1] # "output"
    OBVIOUS
  <2>4. callOf[c.id] = c /\ c.id \in Request /\ c # None
    BY <1>1, <2>2, <2>3, CallAssumption DEF WorkIsAwaited, IsOf, Call
  <2>5. callOf'[c.id] = c
    BY <1>1, <2>4, CallsKept
  <2>6. /\ Len(toWorker[owner]) \in Nat
        /\ \A i \in Outputs(owner) :
             i \in Outputs(owner)' /\ toWorker'[owner][i] = toWorker[owner][i]
        /\ \A i \in Outputs(owner)' :
             i \in Outputs(owner) \/ i = Len(toWorker[owner]) + 1
        /\ Len(toWorker[owner]) + 1 \in Outputs(owner)'
        /\ toWorker'[owner][Len(toWorker[owner]) + 1] = m
    BY <1>1, <2>1, OutputsAppended, InTransitMessages
  <2>7. \A i \in Outputs(owner) : i < Len(toWorker[owner]) + 1
    BY <2>6 DEF Outputs
  <2>8. ReportAdded(c, m)
    <3> DEFINE n == Len(toWorker[owner]) + 1
    <3>1. \A i \in Reporting :
            /\ i \in Reporting' /\ i < n
            /\ toWorker'[owner][i] = toWorker[owner][i]
            /\ callOf'[toWorker[owner][i].id] = callOf[toWorker[owner][i].id]
      BY <1>2, <1>3, <2>6, <2>7
    <3>2. \A i \in Reporting' : i \in Reporting \/ (i = n /\ m.ok /\ c.method # None)
      BY SMTT(30), <1>2, <1>3, <2>1, <2>5, <2>6
    <3>3. m.ok /\ c.method # None => n \in Reporting'
      BY <1>3, <2>1, <2>5, <2>6
    <3> QED
      BY <2>1, <2>5, <2>6, <3>1, <3>2, <3>3 DEF ReportAdded
  <2> QED
    BY <2>1, <2>2, <2>4, <2>8
<1> QED
  BY <1>5, <1>6, <1>7

-----------------------------------------------------------------------------
(***************************************************************************)
(* What the coordinator remembers of the wizard.                           *)
(***************************************************************************)
\* The owner's response is taken and passed on.
Takes(m) ==
  /\ owner \in Tab /\ WorkerReceive(owner) /\ m = Head(toWorker[owner])
  /\ m.type = "response" /\ OwnerResponse(owner, m) /\ RouteResponse(m)

\* The memory of the wizard changes when the owner goes or responds.
LEMMA MemoryAfter ==
  ASSUME RuntimeInv, [Next]_vars
  PROVE  \/ UNCHANGED <<wizardVars, wizardNextResponseCache>>
         \/ owner' # owner /\ owner # None /\ NothingRemembered'
         \/ owner' = owner /\ owner # None /\ \E m : Takes(m)
<1> USE DEF dedupVars, coordinatorVars
<1>1. TypeOK /\ CoordinatorInv
  BY DEF RuntimeInv
<1>2. CASE \A t \in Tab : ~WorkerReceive(t)
  BY <1>2, NothingRecorded
<1>3. ASSUME NEW t \in Tab, WorkerReceive(t), NEW m, m = Head(toWorker[t])
      PROVE  \/ UNCHANGED <<wizardVars, wizardNextResponseCache>>
             \/ owner' # owner /\ owner # None /\ NothingRemembered'
             \/ owner' = owner /\ owner # None /\ Takes(m)
  <2>1. CASE DisconnectOwner(t)
    <3>1. NothingRemembered' /\ owner = t /\ t # None
      BY <2>1, NoneAssumption
      DEF DisconnectOwner, ClearWizardNextDeduplication, NothingRemembered
    <3>2. owner' # t
      <4>1. t \notin ports' /\ owner' \in ports' \cup {None}
        BY <2>1 DEF DisconnectOwner, ChooseOwner
      <4> QED
        BY <3>1, <4>1
    <3> QED
      BY <3>1, <3>2
  <2>2. CASE DisconnectFollower(t)
    BY <2>2 DEF DisconnectFollower
  <2>3. CASE RuntimeStart(t) \/ GatewayReady(t) \/ IgnoreOutput(t)
    BY <2>3 DEF RuntimeStart, GatewayReady, IgnoreOutput
  <2>4. CASE m.type = "operation" /\ Operation(t, m.call)
    BY <2>4 DEF Operation, AnswerFromCache, JoinWizardNext,
                AnswerFromSnapshot, JoinWizardStart, Forward
  <2>5. CASE m.type = "response" /\ OwnerResponse(t, m)
    <3>1. CASE BroadcastResponse(m)
      BY <3>1 DEF BroadcastResponse
    <3>2. CASE RouteResponse(m)
      BY <1>3, <2>5, <3>2, NoneAssumption
      DEF OwnerResponse, RouteResponse, portVars, Takes
    <3> QED
      BY <2>5, <3>1, <3>2 DEF OwnerResponse
  <2> QED
    BY <1>3, <2>1, <2>2, <2>3, <2>4, <2>5 DEF WorkerReceive, Disconnect
<1> QED
  BY <1>2, <1>3

\* A report that is taken is remembered.
LEMMA ReportTaken ==
  ASSUME RuntimeInv, Recorded, WorkIsAwaited, NothingCancelled, NEW m, Takes(m)
  PROVE  LET c == callOf[m.id] IN
         /\ 1 \in Outputs(owner) /\ m = toWorker[owner][1] /\ m \in Response
         /\ c \in Call /\ c # None /\ m.id \in Request /\ Suits(m, c)
         /\ requestMethods[m.id] = c.method /\ ~Cancels(m)
         /\ requestWizardNextKeys[m.id] \in {None, WizardNextKey(c)}
         /\ 1 \in Reporting <=> m.ok /\ c.method # None
         /\ 1 \in Reporting =>
              /\ c.method = "wizard.start" <=> m.result.session # None
              /\ wizardSessionId' = IF c.method = "wizard.start"
                                    THEN m.result.session ELSE wizardSessionId
              /\ wizardSnapshot' = [session |-> wizardSessionId',
                                    at |-> m.result.at]
         /\ 1 \notin Reporting => UNCHANGED wizardVars
<1> DEFINE c == callOf[m.id]
<1>1. /\ owner \in Tab /\ WorkerReceive(owner) /\ m = Head(toWorker[owner])
      /\ m.type = "response" /\ OwnerResponse(owner, m) /\ RouteResponse(m)
  BY DEF Takes
<1>2. /\ m \in Response /\ m.id \in Request /\ 1 \in Outputs(owner)
      /\ m = toWorker[owner][1] /\ c \in Call /\ c # None /\ Suits(m, c)
      /\ requestMethods[m.id] = c.method
      /\ requestWizardNextKeys[m.id] \in {None, WizardNextKey(c)}
  BY <1>1, ResponseTaken
<1>3. 1 \in Reporting <=> m.ok /\ c.method # None
  BY <1>1, <1>2, NoneAssumption DEF Reporting, OfWizard
<1>4. ~Cancels(m)
  BY <1>2 DEF Cancels, NothingCancelled
<1>5. RememberWizardResult(m)
  BY <1>1 DEF RouteResponse
<1>6. ASSUME 1 \in Reporting
      PROVE  /\ c.method = "wizard.start" <=> m.result.session # None
             /\ wizardSessionId' = IF c.method = "wizard.start"
                                   THEN m.result.session ELSE wizardSessionId
             /\ wizardSnapshot' = [session |-> wizardSessionId',
                                   at |-> m.result.at]
  <2>1. m.ok /\ c.method # None
    BY <1>3, <1>6
  <2>2. c.method \in {"wizard.start", "wizard.next", "wizard.status"}
    BY <1>2, <1>4, <2>1 DEF Call, Method, Cancels
  <2>3. Reports(m) /\ m.result \in Result
    BY <1>2, <2>1, <2>2, ResultType DEF Reports
  <2>4. c.method = "wizard.start" <=> m.result.session # None
    BY <1>2, <2>1 DEF Suits
  <2>5. /\ wizardSessionId' = IF m.result.session # None THEN m.result.session
                              ELSE wizardSessionId
        /\ wizardSnapshot' = [m.result EXCEPT !.session = wizardSessionId']
    BY <1>4, <1>5, <2>3 DEF RememberWizardResult
  <2>6. wizardSnapshot' = [session |-> wizardSessionId', at |-> m.result.at]
    BY <2>3, <2>5 DEF Result
  <2> QED
    BY <2>4, <2>5, <2>6
<1>7. 1 \notin Reporting => UNCHANGED wizardVars
  <2>1. ASSUME 1 \notin Reporting
        PROVE  ~Reports(m)
    BY <1>2, <1>3, <2>1, NoneAssumption DEF Reports, Method
  <2> QED
    BY <1>4, <1>5, <2>1 DEF RememberWizardResult
<1> QED
  BY <1>2, <1>3, <1>4, <1>6, <1>7

\* A call names the session its page knows.
LEMMA CallKnows ==
  ASSUME TypeOK, NEW t \in Tab, PostRuntimeRequest(t), NEW r \in Request,
         callOf'[r] # None
  PROVE  \/ callOf[r] # None /\ callOf'[r] = callOf[r]
         \/ callOf'[r].session \in {None, pageSession[t]}
<1>1. PICK c \in [id : {Fresh(Request, Issued)}, method : Methods,
                  session : {None, pageSession[t]},
                  answer : Answer \cup {None}] :
        callOf' = [callOf EXCEPT ![c.id] = c]
  BY DEF PostRuntimeRequest
<1>2. c.session \in {None, pageSession[t]}
  OBVIOUS
<1> QED
  BY <1>1, <1>2 DEF TypeOK

\* What a tab is newly told of a session is what the coordinator knows or the
\* owner reports.
LEMMA ToldSession ==
  ASSUME TypeOK, CoordinatorInv, CacheIsRight, NEW t \in Tab, NEW u \in Tab,
         NEW x, Told(t, u, x), x.type = "response", x.ok
  PROVE  \/ x.result.session \in {None, wizardSessionId}
         \/ LET m == Head(toWorker[t]) IN
            /\ t = owner /\ WorkerReceive(t) /\ m.type = "response"
            /\ OwnerResponse(t, m) /\ m.ok /\ x.result = m.result
<1> DEFINE m == Head(toWorker[t])
<1>1. CASE FromMemory(m.call, x)
  <2>1. ASSUME NEW i \in 1 .. Len(wizardNextResponseCache),
               x.result = wizardNextResponseCache[i].response.result
        PROVE  x.result.session = None
    BY <2>1 DEF CacheIsRight
  <2>2. wizardSnapshot # None => wizardSnapshot.session = wizardSessionId
    BY DEF CoordinatorInv, SnapshotOfLiveSession
  <2> QED
    BY <1>1, <2>1, <2>2 DEF FromMemory
<1>2. CASE /\ WorkerReceive(t) /\ m.type = "response" /\ OwnerResponse(t, m)
           /\ t = owner /\ PassedOn(m, u, x)
  BY <1>2 DEF PassedOn
<1> HIDE DEF m
<1> QED
  BY <1>1, <1>2 DEF Told, m
-----------------------------------------------------------------------------
(***************************************************************************)
(* The Gateways and what is known of their sessions.                       *)
(***************************************************************************)
\* A Gateway works on calls, and is gone with its tab.
LEMMA GatewayAfter ==
  ASSUME TypeOK, [Next]_vars
  PROVE  /\ sessionsUsed \subseteq sessionsUsed'
         /\ (\A t \in Tab : ~RunOperation(t)) =>
              UNCHANGED <<sessionsUsed, applied, timedOut>>
         /\ \A u \in Tab : ~RunOperation(u) =>
              \/ wizard'[u] = wizard[u]
              \/ wizard'[u] = NoWizard /\ page'[u] = "gone"
<1>1. ASSUME NEW t \in Tab, Close(t) \/ Crash(t)
      PROVE  /\ UNCHANGED <<sessionsUsed, applied, timedOut>>
             /\ \A u \in Tab : \/ wizard'[u] = wizard[u]
                               \/ wizard'[u] = NoWizard /\ page'[u] = "gone"
  BY <1>1 DEF Close, Crash, StopRuntime, TypeOK
<1>2. ASSUME NEW t \in Tab,
             \/ Open(t) \/ StartOnboardingRuntime(t) \/ PostRuntimeRequest(t)
             \/ WorkerConnect(t) \/ WorkerReceive(t) \/ TabReceive(t)
             \/ BootSucceeds(t) \/ BootFails(t)
      PROVE  UNCHANGED gatewayVars
  BY <1>2
  DEF Open, StartOnboardingRuntime, PostRuntimeRequest, WorkerConnect,
      WorkerReceive, TabReceive, BootSucceeds, BootFails
<1>3. ASSUME NEW t \in Tab, RunOperation(t)
      PROVE  /\ sessionsUsed \subseteq sessionsUsed'
             /\ \A u \in Tab : u # t => wizard'[u] = wizard[u]
  <2>1. PICK c \in Call, m \in Response :
          Succeeds(t, c, m) \/ TimesOut(t, c, m) \/ Fails(m)
    BY <1>3, OperationCases
  <2>2. CASE Fails(m)
    BY <2>2 DEF Fails, gatewayVars
  <2>3. CASE GatewayServes(t, c)
    BY <2>3, ServedCases DEF Started, Advanced, Ceased, Shown
  <2> QED
    BY <2>1, <2>2, <2>3 DEF Succeeds, TimesOut
<1>4. UNCHANGED vars => UNCHANGED gatewayVars
  BY DEF vars
<1> QED
  BY <1>1, <1>2, <1>3, <1>4 DEF Next, gatewayVars

\* The owner's Gateway is the one that works.
LEMMA RunnerIsOwner ==
  ASSUME RuntimeInv, NEW t \in Tab, runtime[t] = "ready" \/ RunOperation(t)
  PROVE  t = owner /\ owner # None
<1>1. runtime[t] = "ready"
  BY DEF RunOperation
<1> QED
  BY <1>1, NoneAssumption DEF RuntimeInv, OwnershipIsKnown

\* A runtime becomes ready by booting, and ceases to be so with its tab.
LEMMA RuntimeAfter ==
  ASSUME TypeOK, [Next]_vars, NEW u \in Tab
  PROVE  /\ runtime'[u] = "ready" => runtime[u] = "ready" \/ BootSucceeds(u)
         /\ runtime[u] = "ready" => runtime'[u] = "ready" \/ page'[u] = "gone"
<1>1. ASSUME NEW t \in Tab, Close(t) \/ Crash(t)
      PROVE  /\ runtime' = [runtime EXCEPT ![t] = "off"]
             /\ page' = [page EXCEPT ![t] = "gone"]
  BY <1>1 DEF Close, Crash, StopRuntime
<1>2. ASSUME NEW t \in Tab, TabReceive(t)
      PROVE  \/ runtime' = runtime
             \/ /\ runtime[t] = "off"
                /\ runtime' = [runtime EXCEPT ![t] = "booting"]
  BY <1>2
  DEF TabReceive, BecomeOwner, BecomeFollower, StartSharedOwner, OwnerInput,
      LearnReady, TakeResponse, runtimeVars
<1>3. ASSUME NEW t \in Tab,
             \/ Open(t) \/ StartOnboardingRuntime(t) \/ PostRuntimeRequest(t)
             \/ WorkerConnect(t) \/ WorkerReceive(t) \/ RunOperation(t)
      PROVE  runtime' = runtime
  BY <1>3
  DEF Open, StartOnboardingRuntime, PostRuntimeRequest, WorkerConnect,
      WorkerReceive, RunOperation, runtimeVars
<1>4. ASSUME NEW t \in Tab, BootFails(t)
      PROVE  runtime[t] = "booting" /\ runtime' = [runtime EXCEPT ![t] = "failed"]
  BY <1>4 DEF BootFails
<1>5. ASSUME NEW t \in Tab, BootSucceeds(t)
      PROVE  runtime[t] = "booting" /\ runtime' = [runtime EXCEPT ![t] = "ready"]
  BY <1>5 DEF BootSucceeds
<1>6. UNCHANGED vars => runtime' = runtime
  BY DEF vars, runtimeVars
<1> QED
  BY <1>1, <1>2, <1>3, <1>4, <1>5, <1>6 DEF Next, TypeOK

\* A live Gateway was live before, or has just become ready.
Awakes ==
  /\ BootSucceeds(owner) /\ wizard'[owner] = NoWizard
  /\ NothingRemembered /\ NothingRemembered' /\ Reporting' = {}

LEMMA LiveBefore ==
  ASSUME RuntimeInv, StartsAfresh, [Next]_vars, Live'
  PROVE  /\ owner' = owner /\ owner \in Tab /\ NothingCancelled
         /\ Live \/ Awakes
<1>1. /\ TypeOK /\ CoordinatorInv /\ OwnershipIsKnown /\ OwnershipIsKnown'
      /\ owner' # None /\ runtime'[owner'] = "ready" /\ NothingCancelled
      /\ owner' \in Tab
  <2>1. RuntimeInv'
    BY RuntimeStep
  <2>2. owner' # None /\ runtime'[owner'] = "ready" /\ NothingCancelled'
    BY DEF Live, OwnerIsReady
  <2> QED
    BY <2>1, <2>2, CallsKept DEF RuntimeInv, TypeOK, CoordinatorTypeOK
<1>2. \A u \in Tab : runtime'[u] = "ready" => runtime[u] = "ready" \/ BootSucceeds(u)
  BY <1>1, RuntimeAfter
<1>3. runtime[owner'] # "off"
  BY <1>1, <1>2 DEF BootSucceeds
<1>4. owner' = owner
  BY <1>1, <1>3 DEF OwnershipIsKnown
<1>5. CASE runtime[owner] = "ready"
  BY <1>1, <1>4, <1>5 DEF Live, OwnerIsReady
<1>6. CASE runtime[owner] # "ready"
  <2>1. BootSucceeds(owner) /\ page[owner] # "gone"
    BY <1>1, <1>2, <1>4, <1>6 DEF OwnershipIsKnown, BootSucceeds
  <2>2. /\ NothingRemembered /\ wizard[owner] = NoWizard
        /\ \A i \in 1 .. Len(toWorker[owner]) :
             toWorker[owner][i].type # "response"
    BY <1>1, <1>4, <1>6, <2>1 DEF StartsAfresh
  <2>3. wizard'[owner] = NoWizard /\ NothingRemembered'
    BY <2>1, <2>2 DEF BootSucceeds, gatewayVars, coordinatorVars, dedupVars,
                      wizardVars, NothingRemembered
  <2>4. Outputs(owner)' = {}
    <3>1. Submit(owner, [type |-> "ready"])
      BY <2>1 DEF BootSucceeds
    <3>2. \A i \in Outputs(owner)' :
            i \in Outputs(owner) \/ [type |-> "ready"].type = "response"
      BY <1>1, <1>4, <3>1, OutputsAppended, InTransitMessages
    <3>3. Outputs(owner) = {}
      BY <2>2 DEF Outputs
    <3> QED
      BY <3>2, <3>3
  <2>5. Reporting' = {}
    BY <1>4, <2>4 DEF Reporting, Outputs
  <2> QED
    BY <1>1, <1>4, <2>1, <2>2, <2>3, <2>5 DEF Awakes
<1> QED
  BY <1>1, <1>4, <1>5, <1>6
-----------------------------------------------------------------------------
(***************************************************************************)
(* Sessions are the ones a Gateway handed out.                             *)
(***************************************************************************)
\* A response that the owner has just sent names the wizard's session or none.
LEMMA ResponseSent ==
  ASSUME TypeOK, [Next]_vars, NEW u \in Tab, NEW i \in 1 .. Len(toWorker'[u]),
         toWorker'[u][i].type = "response"
  PROVE  \/ \E k \in 1 .. Len(toWorker[u]) : toWorker'[u][i] = toWorker[u][k]
         \/ /\ RunOperation(u)
            /\ toWorker'[u][i].ok =>
                 toWorker'[u][i].result.session \in {None, wizard'[u].session}
<1>1. CASE ~RunOperation(u)
  <2>1. \A c \in Call : [type |-> "operation", call |-> c].type # "response"
    OBVIOUS
  <2>2. \/ \E k \in 1 .. Len(toWorker[u]) : toWorker'[u][i] = toWorker[u][k]
        \/ \E c \in Call : toWorker'[u][i] = [type |-> "operation", call |-> c]
        \/ toWorker'[u][i].type \in {"disconnect", "start", "ready"}
    BY <1>1, WorkerChannel
  <2> QED
    BY <2>1, <2>2
<1>2. CASE RunOperation(u)
  <2>1. PICK c \in Call, m \in Response :
          /\ Submit(u, m) /\ m.type = "response"
          /\ Succeeds(u, c, m) \/ TimesOut(u, c, m) \/ Fails(m)
    BY <1>2, OperationCases
  <2>2. i \in Outputs(u)'
    BY DEF Outputs
  <2>3. \/ i \in Outputs(u) /\ toWorker'[u][i] = toWorker[u][i]
        \/ toWorker'[u][i] = m
    BY <2>1, <2>2, OutputsAppended, InTransitMessages
  <2>4. m.ok => m.result.session \in {None, wizard'[u].session}
    <3>1. m.ok => m.result = Reported(wizard'[u], c)
      BY <2>1 DEF Succeeds, TimesOut, Fails
    <3>2. Reported(wizard'[u], c).session \in {None, wizard'[u].session}
      BY DEF Reported, NoWizard
    <3> QED
      BY <3>1, <3>2
  <2> QED
    BY <1>2, <2>3, <2>4 DEF Outputs
<1> QED
  BY <1>1, <1>2

\* A page learns a session from the responses to its calls.
LEMMA PageLearns ==
  ASSUME TypeOK, [Next]_vars, NEW u \in Tab
  PROVE  \/ pageSession'[u] = pageSession[u]
         \/ \E i \in 1 .. Len(toTab[u]) :
              /\ toTab[u][i].type = "response" /\ toTab[u][i].ok
              /\ pageSession'[u] = toTab[u][i].result.session
<1>1. ASSUME NEW t \in Tab, TabReceive(t), TakeResponse(t)
      PROVE  \/ pageSession' = pageSession
             \/ LET m == Head(toTab[t]) IN
                /\ m.type = "response" /\ m.ok
                /\ pageSession' = [pageSession EXCEPT ![t] = m.result.session]
  BY <1>1 DEF TakeResponse
<1>2. ASSUME NEW t \in Tab, TabReceive(t), ~TakeResponse(t)
      PROVE  pageSession' = pageSession
  BY <1>2 DEF TabReceive, BecomeOwner, BecomeFollower, StartSharedOwner,
              OwnerInput, LearnReady, pageVars
<1>3. ASSUME NEW t \in Tab, TabReceive(t)
      PROVE  Head(toTab[t]) = toTab[t][1] /\ 1 \in 1 .. Len(toTab[t])
  BY <1>3, TabMessages DEF TabReceive, Take, TypeOK
<1>4. ASSUME NEW t \in Tab,
             \/ Open(t) \/ Close(t) \/ Crash(t) \/ StartOnboardingRuntime(t)
             \/ PostRuntimeRequest(t) \/ WorkerConnect(t) \/ WorkerReceive(t)
             \/ BootSucceeds(t) \/ BootFails(t) \/ RunOperation(t)
      PROVE  pageSession' = pageSession
  BY <1>4
  DEF Open, Close, Crash, StopRuntime, StartOnboardingRuntime,
      PostRuntimeRequest, WorkerConnect, WorkerReceive, BootSucceeds, BootFails,
      RunOperation, pageVars
<1>5. UNCHANGED vars => pageSession' = pageSession
  BY DEF vars, pageVars
<1>6. ASSUME NEW t \in Tab, TabReceive(t)
      PROVE  \/ pageSession'[u] = pageSession[u]
             \/ \E i \in 1 .. Len(toTab[u]) :
                  /\ toTab[u][i].type = "response" /\ toTab[u][i].ok
                  /\ pageSession'[u] = toTab[u][i].result.session
  <2> DEFINE m == Head(toTab[t])
  <2>1. CASE pageSession' = pageSession
    BY <2>1
  <2>2. CASE /\ m.type = "response" /\ m.ok
             /\ pageSession' = [pageSession EXCEPT ![t] = m.result.session]
    <3>1. CASE u = t
      <4>1. pageSession'[u] = m.result.session
        BY <2>2, <3>1 DEF TypeOK
      <4>2. m = toTab[u][1] /\ 1 \in 1 .. Len(toTab[u])
        BY <1>3, <1>6, <3>1
      <4> QED
        BY <2>2, <4>1, <4>2
    <3>2. CASE u # t
      BY <2>2, <3>2 DEF TypeOK
    <3> QED
      BY <3>1, <3>2
  <2> QED
    BY <1>1, <1>2, <1>6, <2>1, <2>2
<1> QED
  BY <1>4, <1>5, <1>6 DEF Next

\* What is handed to a Gateway it counts in the session it has.
LEMMA UsedByGateways ==
  ASSUME RuntimeInv, SessionsAreUsed, [Next]_vars
  PROVE  /\ \A u \in Tab : wizard'[u].session \in sessionsUsed' \cup {None}
         /\ \A k \in Key : applied'[k] > 0 => k[1] \in sessionsUsed'
<1>1. TypeOK /\ sessionsUsed \subseteq sessionsUsed'
  BY GatewayAfter DEF RuntimeInv
<1>2. /\ \A u \in Tab : wizard[u].session \in sessionsUsed \cup {None}
      /\ \A k \in Key : applied[k] > 0 => k[1] \in sessionsUsed
  BY DEF SessionsAreUsed
<1>3. ASSUME NEW u \in Tab, ~RunOperation(u)
      PROVE  wizard'[u].session \in sessionsUsed' \cup {None}
  BY <1>1, <1>2, <1>3, GatewayAfter DEF NoWizard
<1>4. ASSUME NEW u \in Tab, RunOperation(u)
      PROVE  /\ wizard'[u].session \in sessionsUsed' \cup {None}
             /\ \A k \in Key : applied'[k] > 0 => k[1] \in sessionsUsed'
  <2>1. PICK c \in Call, m \in Response :
          Succeeds(u, c, m) \/ TimesOut(u, c, m) \/ Fails(m)
    BY <1>1, <1>4, OperationCases
  <2>2. CASE Fails(m)
    BY <1>2, <2>2 DEF Fails, gatewayVars
  <2>3. CASE GatewayServes(u, c)
    <3>1. Started(u, c) \/ Advanced(u, c) \/ Ceased(u, c) \/ Shown(u, c)
      BY <1>1, <2>3, ServedCases
    <3>2. CASE Advanced(u, c)
      <4>1. /\ WizardNextKey(c) # None
            /\ wizard[u].session # None /\ wizard[u].session = c.session
            /\ wizard'[u].session = wizard[u].session
            /\ applied' = [applied EXCEPT ![WizardNextKey(c)] = @ + 1]
        BY <3>2 DEF Advanced
      <4>2. WizardNextKey(c)[1] \in sessionsUsed /\ WizardNextKey(c) \in Key
        BY <1>2, <4>1, KeyNames
      <4>3. \A k \in Key : applied'[k] = applied[k] \/ k = WizardNextKey(c)
        BY <1>1, <4>1 DEF TypeOK
      <4> QED
        BY <1>1, <1>2, <4>1, <4>2, <4>3
    <3>3. CASE Started(u, c)
      BY <1>1, <1>2, <3>3 DEF Started
    <3>4. CASE Ceased(u, c) \/ Shown(u, c)
      BY <1>1, <1>2, <3>4 DEF Ceased, Shown, NoWizard
    <3> QED
      BY <3>1, <3>2, <3>3, <3>4
  <2> QED
    BY <2>1, <2>2, <2>3 DEF Succeeds, TimesOut
<1> QED
  BY <1>1, <1>2, <1>3, <1>4, GatewayAfter

LEMMA SessionsStay ==
  ASSUME RuntimeInv, CacheIsRight, SessionsAreUsed, [Next]_vars
  PROVE  SessionsAreUsed'
<1> DEFINE used == sessionsUsed \cup {None}
           usedNext == sessionsUsed' \cup {None}
<1>1. TypeOK /\ CoordinatorInv /\ used \subseteq usedNext
  BY GatewayAfter DEF RuntimeInv
<1>2. /\ wizardSessionId \in used
      /\ \A t \in Tab : pageSession[t] \in used
      /\ \A r \in Request : callOf[r] # None => callOf[r].session \in used
      /\ \A t \in Tab : \A i \in 1 .. Len(toTab[t]) :
           toTab[t][i].type = "response" /\ toTab[t][i].ok =>
             toTab[t][i].result.session \in used
      /\ \A t \in Tab : \A i \in 1 .. Len(toWorker[t]) :
           toWorker[t][i].type = "response" /\ toWorker[t][i].ok =>
             toWorker[t][i].result.session \in used
  BY DEF SessionsAreUsed
<1>3. /\ \A u \in Tab : wizard'[u].session \in usedNext
      /\ \A k \in Key : applied'[k] > 0 => k[1] \in sessionsUsed'
  BY UsedByGateways
<1> HIDE DEF used, usedNext
<1>4. wizardSessionId' \in usedNext
  <2>1. CASE UNCHANGED wizardVars
    BY <1>1, <1>2, <2>1 DEF wizardVars
  <2>2. CASE NothingRemembered'
    BY <2>2 DEF NothingRemembered, usedNext
  <2>3. ASSUME NEW m, Takes(m)
        PROVE  wizardSessionId' \in usedNext
    <3>1. /\ owner \in Tab /\ m = toWorker[owner][1]
          /\ 1 \in 1 .. Len(toWorker[owner]) /\ m.type = "response"
      BY <1>1, <2>3, Heads DEF Takes
    <3>2. m.ok => m.result.session \in used
      BY <1>2, <3>1
    <3>3. \/ wizardSessionId' \in {None, wizardSessionId}
          \/ m.ok /\ wizardSessionId' = m.result.session
      BY <2>3 DEF Takes, RouteResponse, RememberWizardResult, Reports, wizardVars
    <3> QED
      BY <1>1, <1>2, <3>2, <3>3 DEF usedNext
  <2> QED
    BY <2>1, <2>2, <2>3, MemoryAfter
<1>5. ASSUME NEW u \in Tab
      PROVE  pageSession'[u] \in usedNext
  BY <1>1, <1>2, PageLearns
<1>6. ASSUME NEW r \in Request, callOf'[r] # None
      PROVE  callOf'[r].session \in usedNext
  <2>1. CASE \A t \in Tab : ~PostRuntimeRequest(t)
    BY <1>1, <1>2, <1>6, <2>1, CallsKept
  <2>2. ASSUME NEW t \in Tab, PostRuntimeRequest(t)
        PROVE  callOf'[r].session \in usedNext
    <3>1. \/ callOf[r] # None /\ callOf'[r] = callOf[r]
          \/ callOf'[r].session \in {None, pageSession[t]}
      BY <1>1, <1>6, <2>2, CallKnows
    <3> QED
      BY <1>1, <1>2, <3>1 DEF usedNext
  <2> QED
    BY <2>1, <2>2
<1>7. ASSUME NEW u \in Tab, NEW i \in 1 .. Len(toWorker'[u]),
             toWorker'[u][i].type = "response", toWorker'[u][i].ok
      PROVE  toWorker'[u][i].result.session \in usedNext
  BY <1>1, <1>2, <1>3, <1>7, ResponseSent DEF usedNext
<1>8. ASSUME NEW u \in Tab, NEW i \in 1 .. Len(toTab'[u]),
             toTab'[u][i].type = "response", toTab'[u][i].ok
      PROVE  toTab'[u][i].result.session \in usedNext
  <2>1. CASE \E k \in 1 .. Len(toTab[u]) : toTab'[u][i] = toTab[u][k]
    BY <1>1, <1>2, <1>8, <2>1
  <2>2. ASSUME NEW t \in Tab, Told(t, u, toTab'[u][i])
        PROVE  toTab'[u][i].result.session \in usedNext
    <3> DEFINE m == Head(toWorker[t])
    <3>1. \/ toTab'[u][i].result.session \in {None, wizardSessionId}
          \/ /\ WorkerReceive(t) /\ m.type = "response" /\ m.ok
             /\ toTab'[u][i].result = m.result
      BY <1>1, <1>8, <2>2, ToldSession
    <3>2. WorkerReceive(t) => m = toWorker[t][1] /\ 1 \in 1 .. Len(toWorker[t])
      BY <1>1, Heads
    <3> HIDE DEF m
    <3> QED
      BY <1>1, <1>2, <3>1, <3>2 DEF usedNext
  <2> QED
    BY <1>1, <2>1, <2>2, TabChannel
<1> QED
  BY <1>3, <1>4, <1>5, <1>6, <1>7, <1>8 DEF SessionsAreUsed, usedNext
-----------------------------------------------------------------------------
(***************************************************************************)
(* A Gateway that is not ready starts afresh.                              *)
(***************************************************************************)
\* A runtime that is not ready has accepted nothing.
LEMMA IdleStays ==
  ASSUME TypeOK, StartsAfresh, [Next]_vars, NEW u \in Tab, runtime'[u] # "ready"
  PROVE  wizard'[u] = NoWizard /\ operationQueue'[u] = <<>>
<1>1. runtime[u] # "ready" => wizard[u] = NoWizard /\ operationQueue[u] = <<>>
  BY DEF StartsAfresh
<1>2. ASSUME NEW t \in Tab, Close(t) \/ Crash(t)
      PROVE  /\ page' = [page EXCEPT ![t] = "gone"]
             /\ runtime' = [runtime EXCEPT ![t] = "off"]
             /\ wizard' = [wizard EXCEPT ![t] = NoWizard]
             /\ operationQueue' = [operationQueue EXCEPT ![t] = <<>>]
  BY <1>2 DEF Close, Crash, StopRuntime
<1>3. ASSUME NEW t \in Tab,
             \/ Open(t) \/ StartOnboardingRuntime(t) \/ PostRuntimeRequest(t)
             \/ WorkerConnect(t) \/ WorkerReceive(t)
      PROVE  UNCHANGED <<runtime, wizard, operationQueue>>
  BY <1>3
  DEF Open, StartOnboardingRuntime, PostRuntimeRequest, WorkerConnect,
      WorkerReceive, runtimeVars, gatewayVars
<1>4. ASSUME NEW t \in Tab, TabReceive(t)
      PROVE  /\ wizard' = wizard
             /\ \/ operationQueue' = operationQueue
                   /\ \/ runtime' = runtime
                      \/ /\ runtime[t] = "off"
                         /\ runtime' = [runtime EXCEPT ![t] = "booting"]
                \/ /\ runtime' = runtime /\ runtime[t] = "ready"
                   /\ \E c : operationQueue' = [operationQueue EXCEPT ![t] = c]
  BY <1>4
  DEF TabReceive, BecomeOwner, BecomeFollower, StartSharedOwner, OwnerInput,
      LearnReady, TakeResponse, runtimeVars, gatewayVars
<1>5. ASSUME NEW t \in Tab, BootSucceeds(t) \/ BootFails(t)
      PROVE  /\ runtime[t] = "booting" /\ UNCHANGED <<wizard, operationQueue>>
             /\ \E x : runtime' = [runtime EXCEPT ![t] = x]
  BY <1>5 DEF BootSucceeds, BootFails, gatewayVars
<1>6. ASSUME NEW t \in Tab, RunOperation(t)
      PROVE  /\ runtime' = runtime /\ runtime[t] = "ready"
             /\ \E q : operationQueue' = [operationQueue EXCEPT ![t] = q]
             /\ t # u => wizard'[u] = wizard[u]
  <2>1. PICK c \in Call, m \in Response :
          Succeeds(t, c, m) \/ TimesOut(t, c, m) \/ Fails(m)
    BY <1>6, OperationCases
  <2>2. t # u => wizard'[u] = wizard[u]
    BY <2>1, ServedCases DEF Succeeds, TimesOut, Fails, gatewayVars
  <2> QED
    BY <1>6, <2>2 DEF RunOperation
<1>7. UNCHANGED vars => UNCHANGED <<runtime, wizard, operationQueue>>
  BY DEF vars, runtimeVars, gatewayVars
<1>8. ASSUME NEW t \in Tab, TabReceive(t) \/ RunOperation(t)
      PROVE  wizard'[u] = NoWizard /\ operationQueue'[u] = <<>>
  BY <1>1, <1>4, <1>6, <1>8 DEF TypeOK
<1>9. ASSUME NEW t \in Tab, Close(t) \/ Crash(t) \/ BootSucceeds(t) \/ BootFails(t)
      PROVE  wizard'[u] = NoWizard /\ operationQueue'[u] = <<>>
  BY <1>1, <1>2, <1>5, <1>9 DEF TypeOK
<1> QED
  BY <1>1, <1>3, <1>7, <1>8, <1>9 DEF Next

LEMMA StartsAfreshStays ==
  ASSUME RuntimeInv, Recorded, CacheIsRight, StartsAfresh, WorkIsAwaited,
         [Next]_vars
  PROVE  StartsAfresh'
<1>1. /\ TypeOK /\ CoordinatorInv /\ OwnershipIsKnown
      /\ TypeOK' /\ CoordinatorInv'
  BY RuntimeStep DEF RuntimeInv
<1>2. \A u \in Tab : runtime'[u] # "ready" =>
        wizard'[u] = NoWizard /\ operationQueue'[u] = <<>>
  BY <1>1, IdleStays
<1>3. owner' # owner => NothingRemembered'
  <2>1. ASSUME owner' # owner, UNCHANGED <<wizardVars, wizardNextResponseCache>>
        PROVE  NothingRemembered'
    <3>1. CASE owner = None
      BY <2>1, <3>1 DEF StartsAfresh, NothingRemembered, wizardVars
    <3>2. CASE DisconnectOwner(owner)
      BY <3>2 DEF DisconnectOwner, ClearWizardNextDeduplication, NothingRemembered
    <3> QED
      BY <1>1, <2>1, <3>1, <3>2, OwnerMoves
  <2> QED
    BY <2>1, MemoryAfter
<1>4. owner' = None => NothingRemembered'
  <2>1. ASSUME owner' = None, owner' = owner
        PROVE  NothingRemembered'
    <3>1. UNCHANGED <<wizardVars, wizardNextResponseCache>>
      BY <2>1, MemoryAfter
    <3> QED
      BY <2>1, <3>1 DEF StartsAfresh, NothingRemembered, wizardVars
  <2> QED
    BY <1>3, <2>1
<1>5. ASSUME owner' # None, page'[owner'] # "gone", runtime'[owner'] # "ready"
      PROVE  /\ NothingRemembered'
             /\ \A i \in 1 .. Len(toWorker'[owner']) :
                  toWorker'[owner'][i].type # "response"
  <2>1. owner' \in Tab /\ owner' \in ports'
    BY <1>1, <1>5 DEF TypeOK, CoordinatorTypeOK, CoordinatorInv, OwnerIsConnected
  <2>2. CASE owner' = owner
    <3>1. page[owner] # "gone" /\ runtime[owner] # "ready" /\ owner # None
      BY <1>1, <1>5, <2>1, <2>2, GoodbyesAreTrue, RuntimeAfter
    <3>2. /\ NothingRemembered
          /\ \A i \in 1 .. Len(toWorker[owner]) :
               toWorker[owner][i].type # "response"
      BY <3>1 DEF StartsAfresh
    <3>3. \A m : ~Takes(m)
      <4>1. ASSUME NEW m, Takes(m)
            PROVE  FALSE
        <5>1. m = toWorker[owner][1] /\ 1 \in 1 .. Len(toWorker[owner])
          BY <1>1, <4>1, Heads DEF Takes
        <5> QED
          BY <3>2, <4>1, <5>1 DEF Takes
      <4> QED
        BY <4>1
    <3>4. NothingRemembered'
      <4>1. UNCHANGED <<wizardVars, wizardNextResponseCache>>
        BY <2>2, <3>3, MemoryAfter
      <4> QED
        BY <3>2, <4>1 DEF NothingRemembered, wizardVars
    <3>5. ~RunOperation(owner)
      BY <3>1 DEF RunOperation
    <3>6. \A i \in 1 .. Len(toWorker'[owner]) :
            toWorker'[owner][i].type # "response"
      BY <1>1, <2>1, <2>2, <3>2, <3>5, ResponseSent
    <3> QED
      BY <2>2, <3>4, <3>6
  <2>3. CASE owner' # owner
    <3>1. ASSUME NEW u \in Tab, u = owner', NEW i \in 1 .. Len(toWorker'[u]),
                 toWorker'[u][i].type = "response"
          PROVE  FALSE
      <4>1. u \in ports' /\ Work(u)' = {}
        BY <2>1, <2>3, <3>1, WorkIsLost
      <4>2. Heard(u)'
        BY <4>1 DEF Heard
      <4>3. i \in Outputs(u)'
        BY <3>1 DEF Outputs
      <4>4. <<"output", i>> \in Work(u)'
        BY <4>2, <4>3 DEF Work
      <4> QED
        BY <4>1, <4>4
    <3> QED
      BY <1>3, <2>1, <2>3, <3>1
  <2> QED
    BY <2>2, <2>3
<1> QED
  BY <1>2, <1>4, <1>5 DEF StartsAfresh
-----------------------------------------------------------------------------
(***************************************************************************)
(* What is known of the live session.                                      *)
(***************************************************************************)
\* A new owner has reported nothing.
LEMMA NoReports ==
  ASSUME RuntimeInv, Recorded, CacheIsRight, StartsAfresh, WorkIsAwaited,
         [Next]_vars, owner' # owner
  PROVE  Reporting' = {}
<1>1. /\ owner' # None => owner' \in Tab /\ owner' \in ports'
      /\ Reporting' # {} => owner' # None
  BY RuntimeStep
  DEF RuntimeInv, TypeOK, CoordinatorTypeOK, CoordinatorInv, OwnerIsConnected,
      Reporting
<1>2. ASSUME NEW u \in Tab, u = owner', u # None, NEW i \in Reporting'
      PROVE  FALSE
  <2>1. Work(u)' = {} /\ u \in ports'
    BY <1>1, <1>2, WorkIsLost
  <2>2. Heard(u)'
    BY <2>1 DEF Heard
  <2>3. i \in Outputs(u)'
    BY <1>2 DEF Reporting, Outputs
  <2>4. <<"output", i>> \in Work(u)'
    BY <2>2, <2>3 DEF Work
  <2> QED
    BY <2>1, <2>4
<1> QED
  BY <1>1, <1>2

\* The coordinator forgets no session while nothing is cancelled, and learns
\* one from the report of a start.
LearnsSession(m) ==
  /\ Takes(m) /\ 1 \in Reporting /\ m = Report(1)
  /\ CallReported(1).method = "wizard.start"
  /\ m.result.session # None /\ wizardSessionId' = m.result.session

LEMMA SessionKept ==
  ASSUME RuntimeInv, Recorded, WorkIsAwaited, NothingCancelled, [Next]_vars,
         owner' = owner
  PROVE  wizardSessionId' = wizardSessionId \/ \E m : LearnsSession(m)
<1>1. CASE UNCHANGED wizardVars
  BY <1>1 DEF wizardVars
<1>2. ASSUME NEW m, Takes(m)
      PROVE  wizardSessionId' = wizardSessionId \/ LearnsSession(m)
  <2> DEFINE c == callOf[m.id]
  <2>1. /\ m = toWorker[owner][1]
        /\ 1 \in Reporting =>
             /\ c.method = "wizard.start" <=> m.result.session # None
             /\ wizardSessionId' = IF c.method = "wizard.start"
                                   THEN m.result.session ELSE wizardSessionId
        /\ 1 \notin Reporting => UNCHANGED wizardVars
    BY <1>2, ReportTaken
  <2>2. CASE 1 \in Reporting /\ c.method = "wizard.start"
    BY <1>2, <2>1, <2>2 DEF LearnsSession, Report, CallReported
  <2>3. CASE ~(1 \in Reporting /\ c.method = "wizard.start")
    BY <2>1, <2>3 DEF wizardVars
  <2> QED
    BY <2>2, <2>3
<1> QED
  BY <1>1, <1>2, MemoryAfter

\* While it is live a Gateway is left alone, or ends a call.
Runs(c, m) ==
  /\ RunOperation(owner) /\ UNCHANGED <<coordinatorVars, pageVars>>
  /\ c.id \in Request /\ callOf[c.id] = c /\ m.id = c.id
  /\ c.method # "wizard.cancel"
  /\ <<"queue", 1>> \in Work(owner) /\ Item(owner, <<"queue", 1>>) = c
  /\ ReportAdded(c, m)
  /\ \/ Succeeds(owner, c, m) \/ TimesOut(owner, c, m)
     \/ Fails(m)
Rests ==
  /\ ~RunOperation(owner) /\ wizard'[owner] = wizard[owner]
  /\ UNCHANGED <<sessionsUsed, applied, timedOut>>
  /\ ReportsShift(0) \/ (WorkerReceive(owner) /\ ReportsShift(1))

LEMMA LiveStep ==
  ASSUME RuntimeInv, WorkIsAwaited, [Next]_vars, Live, Live', owner' = owner
  PROVE  Rests \/ \E c \in Call, m \in Response : Runs(c, m)
<1>1. /\ TypeOK /\ TypeOK' /\ owner \in Tab /\ owner # None
      /\ OwnershipIsKnown' /\ NothingCancelled
  BY RuntimeStep DEF RuntimeInv, Live, OwnerIsReady, TypeOK, CoordinatorTypeOK
<1>2. CASE ~RunOperation(owner)
  <2>1. page'[owner] # "gone"
    BY <1>1 DEF Live, OwnerIsReady, OwnershipIsKnown
  <2>2. wizard'[owner] = wizard[owner]
    BY <1>1, <1>2, <2>1, GatewayAfter
  <2>3. \A t \in Tab : ~RunOperation(t)
    BY <1>2, RunnerIsOwner
  <2>4. UNCHANGED <<sessionsUsed, applied, timedOut>>
    BY <1>1, <2>3, GatewayAfter
  <2>5. ReportsShift(0) \/ (WorkerReceive(owner) /\ ReportsShift(1))
    BY <1>1, <1>2, ReportsAfter
  <2> QED
    BY <1>2, <2>2, <2>4, <2>5 DEF Rests
<1>3. CASE RunOperation(owner)
  <2>1. PICK c \in Call, m \in Response :
          /\ c.id \in Request /\ callOf[c.id] = c /\ m.id = c.id
          /\ <<"queue", 1>> \in Work(owner)
          /\ Item(owner, <<"queue", 1>>) = c
          /\ \/ Succeeds(owner, c, m) \/ TimesOut(owner, c, m)
             \/ Fails(m)
          /\ ReportAdded(c, m)
    BY <1>1, <1>3, ReportsAfter
  <2>2. c.method # "wizard.cancel"
    BY <1>1, <2>1, CallAssumption DEF NothingCancelled
  <2>3. UNCHANGED <<coordinatorVars, pageVars>>
    BY <1>3 DEF RunOperation
  <2> QED
    BY <1>3, <2>1, <2>2, <2>3 DEF Runs
<1> QED
  BY <1>2, <1>3

\* What a live Gateway makes of a call, when nothing is cancelled.
LEMMA RunCases ==
  ASSUME TypeOK, owner \in Tab, NEW c \in Call, NEW m \in Response, Runs(c, m)
  PROVE  \/ /\ Started(owner, c) \/ Advanced(owner, c) \/ Shown(owner, c)
            /\ m.ok => m.result = Reported(wizard'[owner], c) /\ timedOut' = timedOut
            /\ ~m.ok => timedOut' = timedOut \cup {c.id}
         \/ Fails(m)
<1>1. GatewayServes(owner, c) =>
        Started(owner, c) \/ Advanced(owner, c) \/ Shown(owner, c)
  BY ServedCases DEF Ceased, Runs
<1> QED
  BY <1>1 DEF Runs, Succeeds, TimesOut
\* A snapshot or a later report is of a session the coordinator knows.
LEMMA SnapshotHasSession ==
  ASSUME RuntimeInv, Recorded, WorkIsAwaited, SessionIsReported, [Next]_vars,
         NothingCancelled'
  PROVE  wizardSnapshot' # None => wizardSessionId' # None
<1>1. /\ NothingCancelled
      /\ wizardSnapshot # None => wizardSessionId # None
      /\ \A i \in Reporting :
           CallReported(i).method # "wizard.start" => wizardSessionId # None
  BY CallsKept DEF RuntimeInv, SessionIsReported
<1>2. CASE UNCHANGED wizardVars
  BY <1>1, <1>2 DEF wizardVars
<1>3. CASE NothingRemembered'
  BY <1>3 DEF NothingRemembered
<1>4. ASSUME NEW m, Takes(m)
      PROVE  wizardSnapshot' # None => wizardSessionId' # None
  <2> DEFINE c == callOf[m.id]
  <2>1. /\ m = toWorker[owner][1]
        /\ 1 \in Reporting =>
             /\ c.method = "wizard.start" <=> m.result.session # None
             /\ wizardSessionId' = IF c.method = "wizard.start"
                                   THEN m.result.session ELSE wizardSessionId
        /\ 1 \notin Reporting => UNCHANGED wizardVars
    BY <1>1, <1>4, ReportTaken
  <2>2. 1 \in Reporting /\ c.method # "wizard.start" => wizardSessionId # None
    BY <1>1, <2>1 DEF CallReported
  <2>3. CASE 1 \in Reporting
    BY <2>1, <2>2, <2>3
  <2>4. CASE 1 \notin Reporting
    BY <1>1, <2>1, <2>4 DEF wizardVars
  <2> QED
    BY <2>3, <2>4
<1> QED
  BY <1>2, <1>3, <1>4, MemoryAfter

LEMMA ReportsAreOfSession ==
  ASSUME RuntimeInv, Recorded, CacheIsRight, StartsAfresh, WorkIsAwaited,
         SessionIsReported, [Next]_vars, NothingCancelled', NEW i \in Reporting',
         CallReported(i)'.method # "wizard.start"
  PROVE  wizardSessionId' # None
<1>1. /\ NothingCancelled /\ TypeOK
      /\ \A j \in Reporting :
           CallReported(j).method # "wizard.start" => wizardSessionId # None
  BY CallsKept DEF RuntimeInv, SessionIsReported
<1>2. owner' = owner /\ owner # None /\ owner \in Tab /\ i \in Nat \ {0}
  BY <1>1, NoReports DEF Reporting, Outputs, TypeOK, CoordinatorTypeOK
<1>3. wizardSessionId # None => wizardSessionId' # None
  BY <1>1, <1>2, SessionKept DEF LearnsSession
<1>4. callOf'[toWorker'[owner][i].id].method # "wizard.start"
  BY <1>2 DEF CallReported
<1>5. ASSUME NEW d \in {0, 1}, ReportsShift(d)
      PROVE  wizardSessionId' # None
  <2>1. /\ i + d \in Reporting
        /\ toWorker'[owner][i] = toWorker[owner][i + d]
        /\ callOf'[toWorker[owner][i + d].id] = callOf[toWorker[owner][i + d].id]
    BY <1>2, <1>5 DEF ReportsShift
  <2> QED
    BY <1>1, <1>3, <1>4, <2>1 DEF CallReported
<1>6. CASE RunOperation(owner)
  <2>1. PICK c \in Call, m \in Response :
          /\ c.id \in Request /\ callOf[c.id] = c /\ m.id = c.id
          /\ runtime[owner] = "ready"
          /\ \/ Succeeds(owner, c, m) \/ TimesOut(owner, c, m)
             \/ Fails(m)
          /\ ReportAdded(c, m)
    BY <1>2, <1>6, ReportsAfter
  <2>2. CASE i \in Reporting
    <3>1. /\ toWorker'[owner][i] = toWorker[owner][i]
          /\ callOf'[toWorker[owner][i].id] = callOf[toWorker[owner][i].id]
      BY <2>1, <2>2 DEF ReportAdded
    <3> QED
      BY <1>1, <1>3, <1>4, <2>2, <3>1 DEF CallReported
  <2>3. CASE i \notin Reporting
    <3>1. m.ok /\ c.method # None /\ c.method # "wizard.start"
      BY <1>2, <1>4, <2>1, <2>3 DEF ReportAdded
    <3>2. GatewayServes(owner, c)
      BY <2>1, <3>1 DEF Succeeds, TimesOut, Fails
    <3>3. c.method # "wizard.cancel"
      BY <1>1, <2>1, CallAssumption DEF NothingCancelled
    <3>4. Advanced(owner, c) \/ Shown(owner, c)
      BY <1>1, <1>2, <3>1, <3>2, <3>3, ServedCases DEF Started, Ceased
    <3>5. wizard[owner].session # None /\ wizard[owner].session = c.session
      BY <3>1, <3>4 DEF Advanced, Shown
    <3>6. Live
      BY <1>1, <1>2, <2>1 DEF Live, OwnerIsReady
    <3>7. wizardSessionId = LiveSession
      BY <2>1, <3>5, <3>6, CallAssumption DEF SessionIsReported, LiveSession
    <3> QED
      BY <1>3, <3>5, <3>7 DEF LiveSession
  <2> QED
    BY <2>2, <2>3
<1> QED
  BY <1>2, <1>5, <1>6, ReportsAfter

\* The live session is what the coordinator knows or is told of.
LEMMA LiveIsReported ==
  ASSUME RuntimeInv, Recorded, StartsAfresh, WorkIsAwaited, SessionIsReported,
         [Next]_vars, Live'
  PROVE  /\ wizardSessionId' \in {None, wizard'[owner].session}
         /\ \A i \in Reporting' : CallReported(i)'.method = "wizard.start" =>
              toWorker'[owner][i].result.session = wizard'[owner].session
<1>1. /\ TypeOK /\ owner' = owner /\ owner \in Tab /\ owner # None
      /\ NothingCancelled /\ (Live \/ Awakes)
  BY LiveBefore, NoneAssumption DEF RuntimeInv
<1>2. CASE Awakes
  BY <1>2 DEF Awakes, NothingRemembered
<1>3. ASSUME Live
      PROVE  /\ wizardSessionId \in {None, wizard[owner].session}
             /\ \A i \in Reporting :
                  callOf[toWorker[owner][i].id].method = "wizard.start" =>
                    toWorker[owner][i].result.session = wizard[owner].session
  BY <1>3 DEF SessionIsReported, LiveSession, Report, CallReported
<1>4. \A i \in Reporting' : /\ i \in Nat \ {0}
                           /\ CallReported(i)' = callOf'[toWorker'[owner][i].id]
  BY <1>1 DEF Reporting, Outputs, CallReported
<1>5. ASSUME Live, Rests
      PROVE  /\ wizardSessionId' \in {None, wizard'[owner].session}
             /\ \A i \in Reporting' : CallReported(i)'.method = "wizard.start" =>
                  toWorker'[owner][i].result.session = wizard'[owner].session
  <2>1. wizard'[owner] = wizard[owner]
    BY <1>5 DEF Rests
  <2>2. wizardSessionId' \in {None, wizard[owner].session}
    BY <1>1, <1>3, <1>5, SessionKept DEF LearnsSession, Report, CallReported
  <2>3. ASSUME NEW d \in {0, 1}, ReportsShift(d), NEW i \in Reporting',
               CallReported(i)'.method = "wizard.start"
        PROVE  toWorker'[owner][i].result.session = wizard[owner].session
    <3>1. /\ i + d \in Reporting
          /\ toWorker'[owner][i] = toWorker[owner][i + d]
          /\ callOf'[toWorker[owner][i + d].id] = callOf[toWorker[owner][i + d].id]
      BY <1>4, <2>3 DEF ReportsShift
    <3> QED
      BY <1>3, <1>4, <1>5, <2>3, <3>1
  <2> QED
    BY <1>5, <2>1, <2>2, <2>3 DEF Rests
<1>6. ASSUME Live, NEW c \in Call, NEW m \in Response, Runs(c, m)
      PROVE  /\ wizardSessionId' \in {None, wizard'[owner].session}
             /\ \A i \in Reporting' : CallReported(i)'.method = "wizard.start" =>
                  toWorker'[owner][i].result.session = wizard'[owner].session
  <2>1. wizardSessionId' = wizardSessionId /\ ReportAdded(c, m)
    BY <1>6 DEF Runs, coordinatorVars, wizardVars
  <2>2. \/ /\ Started(owner, c) \/ Advanced(owner, c) \/ Shown(owner, c)
           /\ m.ok => m.result = Reported(wizard'[owner], c)
        \/ ~m.ok /\ wizard' = wizard
    BY <1>1, <1>6, RunCases DEF Fails, gatewayVars
  <2>3. CASE Started(owner, c)
    <3>1. wizard[owner].session = None /\ c.method = "wizard.start"
      BY <2>3 DEF Started
    <3>2. ASSUME NEW i \in Reporting,
                 callOf[toWorker[owner][i].id].method = "wizard.start"
          PROVE  FALSE
      <4>1. i \in Outputs(owner) /\ toWorker[owner][i].ok
        BY <1>1, <3>2 DEF Reporting
      <4>2. toWorker[owner][i].result.session # None
        BY <1>1, <3>2, <4>1, OutputsAwaited DEF Suits
      <4> QED
        BY <1>3, <1>6, <3>1, <3>2, <4>2
    <3>3. m.ok => m.result.session = wizard'[owner].session
      <4>1. m.ok => m.result = Reported(wizard'[owner], c)
        BY <2>2
      <4>2. c.method # None
        BY <3>1, NoneIsNoKey DEF Method
      <4>3. Reported(wizard'[owner], c).session = wizard'[owner].session
        BY <3>1, <4>2 DEF Reported
      <4> QED
        BY <4>1, <4>3
    <3>4. ASSUME NEW i \in Reporting', CallReported(i)'.method = "wizard.start"
          PROVE  toWorker'[owner][i].result.session = wizard'[owner].session
      <4>1. i \notin Reporting
        BY <1>4, <2>1, <3>2, <3>4 DEF ReportAdded
      <4>2. m.ok /\ toWorker'[owner][i] = m
        BY <2>1, <3>4, <4>1 DEF ReportAdded
      <4> QED
        BY <3>3, <4>2
    <3> QED
      BY <1>3, <1>6, <2>1, <3>1, <3>4
  <2>4. CASE ~Started(owner, c)
    <3>1. /\ wizard'[owner].session = wizard[owner].session
          /\ m.ok => c.method # "wizard.start"
      BY <1>1, <2>2, <2>4, KeyNames DEF Advanced, Shown
    <3>2. ASSUME NEW i \in Reporting', CallReported(i)'.method = "wizard.start"
          PROVE  toWorker'[owner][i].result.session = wizard[owner].session
      <4>1. i \in Reporting
        BY <1>4, <1>6, <2>1, <3>1, <3>2 DEF ReportAdded
      <4> QED
        BY <1>3, <1>4, <1>6, <2>1, <3>2, <4>1 DEF ReportAdded
    <3> QED
      BY <1>3, <1>6, <2>1, <3>1, <3>2
  <2> QED
    BY <2>3, <2>4
<1> QED
  BY <1>1, <1>2, <1>5, <1>6, LiveStep
\* Nobody knows session s.
Unknown(s) ==
  /\ \A t \in Tab : pageSession[t] # s
  /\ \A r \in Request : callOf[r] # None => callOf[r].session # s
  /\ \A t \in Tab : \A i \in 1 .. Len(toTab[t]) :
       toTab[t][i].type = "response" /\ toTab[t][i].ok =>
         toTab[t][i].result.session # s

\* Nobody learns it but from the coordinator.
LEMMA UnknownStays ==
  ASSUME RuntimeInv, Recorded, CacheIsRight, WorkIsAwaited, NothingCancelled,
         [Next]_vars, owner' = owner, NEW s, s # None, s # wizardSessionId,
         s # wizardSessionId', Unknown(s)
  PROVE  Unknown(s)'
<1>1. TypeOK /\ CoordinatorInv
  BY DEF RuntimeInv
<1>2. \A u \in Tab : pageSession'[u] # s
  BY <1>1, PageLearns DEF Unknown
<1>3. ASSUME NEW r \in Request, callOf'[r] # None
      PROVE  callOf'[r].session # s
  <2>1. CASE \A t \in Tab : ~PostRuntimeRequest(t)
    BY <1>1, <1>3, <2>1, CallsKept DEF Unknown
  <2>2. ASSUME NEW t \in Tab, PostRuntimeRequest(t)
        PROVE  callOf'[r].session # s
    <3>1. \/ callOf[r] # None /\ callOf'[r] = callOf[r]
          \/ callOf'[r].session \in {None, pageSession[t]}
      BY <1>1, <1>3, <2>2, CallKnows
    <3> QED
      BY <3>1 DEF Unknown
  <2> QED
    BY <2>1, <2>2
<1>4. ASSUME NEW m, m = Head(toWorker[owner]), owner \in Tab,
             WorkerReceive(owner), m.type = "response", OwnerResponse(owner, m),
             m.ok, m.result.session = s
      PROVE  FALSE
  <2> DEFINE c == callOf[m.id]
  <2>1. /\ m \in Response /\ m.id \in Request /\ Suits(m, c)
        /\ requestMethods[m.id] = c.method
    BY <1>4, ResponseTaken
  <2>2. c.method = "wizard.start" /\ c.method # None
    BY <1>4, <2>1, NoneIsNoKey DEF Suits, Method
  <2>3. RouteResponse(m)
    BY <1>4, <2>1, <2>2 DEF OwnerResponse, BroadcastResponse, Tracked
  <2>4. Takes(m)
    BY <1>4, <2>3 DEF Takes
  <2>5. wizardSessionId' = s
    BY <1>4, <2>2, <2>4, ReportTaken
  <2> QED
    BY <2>5
<1>5. ASSUME NEW u \in Tab, NEW i \in 1 .. Len(toTab'[u]),
             toTab'[u][i].type = "response", toTab'[u][i].ok
      PROVE  toTab'[u][i].result.session # s
  <2>1. CASE \E k \in 1 .. Len(toTab[u]) : toTab'[u][i] = toTab[u][k]
    BY <1>5, <2>1 DEF Unknown
  <2>2. ASSUME NEW t \in Tab, Told(t, u, toTab'[u][i])
        PROVE  toTab'[u][i].result.session # s
    <3> DEFINE m == Head(toWorker[t])
    <3>1. \/ toTab'[u][i].result.session \in {None, wizardSessionId}
          \/ /\ t = owner /\ WorkerReceive(t) /\ m.type = "response"
             /\ OwnerResponse(t, m) /\ m.ok /\ toTab'[u][i].result = m.result
      BY <1>1, <1>5, <2>2, ToldSession
    <3> HIDE DEF m
    <3>2. CASE toTab'[u][i].result.session \in {None, wizardSessionId}
      BY <3>2
    <3>3. CASE /\ t = owner /\ WorkerReceive(t) /\ m.type = "response"
               /\ OwnerResponse(t, m) /\ m.ok /\ toTab'[u][i].result = m.result
      BY <1>4, <2>2, <3>3 DEF m
    <3> QED
      BY <3>1, <3>2, <3>3
  <2> QED
    BY <1>1, <2>1, <2>2, TabChannel
<1> QED
  BY <1>2, <1>3, <1>5 DEF Unknown

LEMMA LiveIsUnknown ==
  ASSUME RuntimeInv, Recorded, CacheIsRight, StartsAfresh, WorkIsAwaited,
         SessionsAreUsed, SessionIsReported, [Next]_vars, Live',
         wizard'[owner].session # None,
         wizardSessionId' # wizard'[owner].session
  PROVE  \A s : s = wizard'[owner].session => Unknown(s)'
<1>1. /\ TypeOK /\ owner' = owner /\ owner \in Tab /\ owner # None
      /\ NothingCancelled /\ (Live \/ Awakes)
  BY LiveBefore, NoneAssumption DEF RuntimeInv
<1>2. Live
  BY <1>1 DEF Awakes, NoWizard
<1>3. wizard[owner].session # None /\ wizardSessionId # wizard[owner].session =>
        \A s : s = wizard[owner].session => Unknown(s)
  BY <1>2 DEF SessionIsReported, LiveSession, Unknown
<1>4. CASE Rests
  <2>1. wizard'[owner] = wizard[owner]
    BY <1>4 DEF Rests
  <2>2. wizardSessionId # wizard[owner].session
    <3>1. \A i \in Reporting :
            callOf[toWorker[owner][i].id].method = "wizard.start" =>
              toWorker[owner][i].result.session = wizard[owner].session
      BY <1>2 DEF SessionIsReported, LiveSession, Report, CallReported
    <3>2. wizardSessionId' \in {wizardSessionId, wizard[owner].session}
      BY <1>1, <3>1, SessionKept DEF LearnsSession, Report, CallReported
    <3> QED
      BY <2>1, <3>2
  <2> QED
    BY <1>1, <1>3, <2>1, <2>2, UnknownStays
<1>5. ASSUME NEW c \in Call, NEW m \in Response, Runs(c, m)
      PROVE  \A s : s = wizard'[owner].session => Unknown(s)'
  <2>1. UNCHANGED <<coordinatorVars, pageVars>>
    BY <1>5 DEF Runs
  <2>2. \A s : Unknown(s) => Unknown(s)'
    BY <2>1 DEF Unknown, coordinatorVars, pageVars
  <2>3. Started(owner, c) \/ wizard'[owner].session = wizard[owner].session
    BY <1>1, <1>5, RunCases DEF Advanced, Shown, Fails, gatewayVars
  <2>4. CASE wizard'[owner].session = wizard[owner].session
    BY <1>3, <2>1, <2>2, <2>4 DEF coordinatorVars, wizardVars
  <2>5. CASE Started(owner, c)
    <3>1. ASSUME NEW s, s \notin sessionsUsed, s # None
          PROVE  Unknown(s)
      BY <3>1 DEF SessionsAreUsed, Unknown
    <3>2. wizard'[owner].session \notin sessionsUsed
      BY <2>5 DEF Started
    <3> QED
      BY <2>2, <3>1, <3>2
  <2> QED
    BY <2>3, <2>4, <2>5
<1> QED
  BY <1>1, <1>2, <1>4, <1>5, LiveStep

LEMMA SessionReportStays ==
  ASSUME RuntimeInv, Recorded, CacheIsRight, StartsAfresh, WorkIsAwaited,
         SessionsAreUsed, SessionIsReported, [Next]_vars
  PROVE  SessionIsReported'
<1>1. ASSUME NothingCancelled'
      PROVE  /\ wizardSnapshot' # None => wizardSessionId' # None
             /\ \A i \in Reporting' : CallReported(i)'.method # "wizard.start" =>
                  wizardSessionId' # None
  BY <1>1, SnapshotHasSession, ReportsAreOfSession
<1>2. Live' => owner' = owner
  BY LiveBefore
<1>3. ASSUME Live'
      PROVE  /\ wizardSessionId' \in {None, LiveSession'}
             /\ \A i \in Reporting' : CallReported(i)'.method = "wizard.start" =>
                  Report(i)'.result.session = LiveSession'
  BY <1>2, <1>3, LiveIsReported DEF LiveSession, Report
<1>4. ASSUME Live', LiveSession' # None, wizardSessionId' # LiveSession'
      PROVE  /\ \A t \in Tab : pageSession'[t] # LiveSession'
             /\ \A r \in Request : callOf'[r] # None =>
                  callOf'[r].session # LiveSession'
             /\ \A t \in Tab : \A i \in 1 .. Len(toTab'[t]) :
                  toTab'[t][i].type = "response" /\ toTab'[t][i].ok =>
                    toTab'[t][i].result.session # LiveSession'
  <2>1. LiveSession' = wizard'[owner].session
    BY <1>2, <1>4 DEF LiveSession
  <2>2. \A s : s = wizard'[owner].session => Unknown(s)'
    BY <1>4, <2>1, LiveIsUnknown
  <2>3. ASSUME NEW s, Unknown(s)'
        PROVE  /\ \A t \in Tab : pageSession'[t] # s
               /\ \A r \in Request : callOf'[r] # None => callOf'[r].session # s
               /\ \A t \in Tab : \A i \in 1 .. Len(toTab'[t]) :
                    toTab'[t][i].type = "response" /\ toTab'[t][i].ok =>
                      toTab'[t][i].result.session # s
    BY <2>3 DEF Unknown
  <2> QED
    BY <2>1, <2>2, <2>3
<1> QED
  BY <1>1, <1>3, <1>4 DEF SessionIsReported
-----------------------------------------------------------------------------
(***************************************************************************)
(* The snapshot follows the wizard.                                        *)
(***************************************************************************)
\* A report at the head of the owner's port is taken.
LEMMA ReportsAreTaken ==
  ASSUME RuntimeInv, Recorded, WorkIsAwaited, owner # None, WorkerReceive(owner),
         1 \in Reporting
  PROVE  Takes(Head(toWorker[owner]))
<1> DEFINE m == Head(toWorker[owner])
<1>1. TypeOK /\ owner \in Tab
  BY OwnerConnected DEF RuntimeInv
<1>2. /\ m = toWorker[owner][1] /\ 1 \in Outputs(owner)
      /\ m.type = "response" /\ callOf[m.id].method # None
  <2>1. m = toWorker[owner][1]
    BY <1>1, Heads
  <2> QED
    BY <2>1 DEF Reporting, Outputs, OfWizard
<1>3. requestMethods[m.id] # None
  <2>1. OfWizard(m.id)
    BY <1>2 DEF OfWizard
  <2> HIDE DEF m
  <2>2. requestMethods[m.id] = callOf[m.id].method
    BY <1>2, <2>1, OutputsAwaited
  <2> QED
    BY <1>2, <2>2
<1>4. OwnerResponse(owner, m)
  BY <1>2 DEF WorkerReceive, IgnoreOutput
<1>5. RouteResponse(m)
  BY <1>3, <1>4 DEF OwnerResponse, BroadcastResponse, Tracked
<1> QED
  BY <1>1, <1>2, <1>4, <1>5 DEF Takes

\* What SnapshotFollows says of a live Gateway, spelled out.
Follows ==
  LET w == wizard[owner] IN
  /\ w.session = None => wizardSessionId = None /\ Reporting = {}
  /\ w.session # None /\ wizardSessionId = None => Reporting # {}
  /\ wizardSessionId # None => \A i \in Reporting :
       callOf[toWorker[owner][i].id].method # "wizard.start"
  /\ \A i \in Reporting : (\A j \in Reporting : j <= i) =>
       toWorker[owner][i].result.at = w.at
  /\ Reporting = {} /\ wizardSnapshot # None => wizardSnapshot = w

LEMMA FollowsShifted ==
  ASSUME Follows, owner' = owner, wizard'[owner] = wizard[owner],
         UNCHANGED wizardVars, NEW d \in {0, 1}, ReportsShift(d),
         d = 1 => 1 \notin Reporting,
         Reporting \subseteq Nat \ {0}, Reporting' \subseteq Nat \ {0}
  PROVE  Follows'
<1>1. \A i \in Reporting' :
        /\ i + d \in Reporting /\ toWorker'[owner][i] = toWorker[owner][i + d]
        /\ callOf'[toWorker[owner][i + d].id] = callOf[toWorker[owner][i + d].id]
  BY DEF ReportsShift
<1>2. \A j \in Reporting : j - d \in Reporting'
  <2>1. ASSUME NEW j \in Reporting
        PROVE  j - d \in Reporting'
    <3>1. j - d \in Nat \ {0} /\ (j - d) + d = j
      <4>1. j \in Nat \ {0} /\ (d = 1 => j # 1)
        BY <2>1
      <4> QED
        BY <4>1
    <3> QED
      BY <3>1 DEF ReportsShift
  <2> QED
    BY <2>1
<1>3. Reporting' = {} <=> Reporting = {}
  BY <1>1, <1>2
<1>4. ASSUME NEW i \in Reporting', \A j \in Reporting' : j <= i
      PROVE  \A j \in Reporting : j <= i + d
  <2>1. ASSUME NEW j \in Reporting
        PROVE  j <= i + d
    <3>1. j - d <= i
      BY <1>2, <1>4, <2>1
    <3> QED
      BY <2>1, <1>4, <3>1
  <2> QED
    BY <2>1
<1>5. ASSUME NEW i \in Reporting', \A j \in Reporting' : j <= i
      PROVE  toWorker'[owner][i].result.at = wizard[owner].at
  BY <1>1, <1>4, <1>5 DEF Follows
<1>6. ASSUME wizardSessionId # None, NEW i \in Reporting'
      PROVE  callOf'[toWorker'[owner][i].id].method # "wizard.start"
  BY <1>1, <1>6 DEF Follows
<1>7. UNCHANGED <<wizardSessionId, wizardSnapshot>>
  BY DEF wizardVars
<1> QED
  BY <1>3, <1>5, <1>6, <1>7 DEF Follows

\* A report that is taken becomes the snapshot.
LEMMA FollowsTaken ==
  ASSUME RuntimeInv, Recorded, WorkIsAwaited, WorkIsUnique, SessionIsReported,
         NothingCancelled, Follows, [Next]_vars, owner' = owner,
         owner # None, wizard'[owner] = wizard[owner], NEW m, Takes(m),
         1 \in Reporting, ReportsShift(1),
         wizardSessionId' \in {None, wizard[owner].session},
         wizardSnapshot' # None => wizardSessionId' # None
  PROVE  Follows'
<1> DEFINE c == callOf[m.id]
<1>1. TypeOK /\ CoordinatorInv /\ owner \in Tab
  BY OwnerConnected DEF RuntimeInv
<1>2. /\ m = toWorker[owner][1] /\ 1 \in Outputs(owner) /\ m.id \in Request
      /\ requestMethods[m.id] = c.method
      /\ wizardSessionId' = IF c.method = "wizard.start"
                            THEN m.result.session ELSE wizardSessionId
      /\ wizardSnapshot' = [session |-> wizardSessionId', at |-> m.result.at]
  BY ReportTaken
<1>3. wizardSessionId' # None /\ wizardSessionId' = wizard[owner].session
  <2>1. wizardSnapshot' # None
    <3>1. [session |-> wizardSessionId', at |-> m.result.at] \in Result
      <4>1. TypeOK'
        BY RuntimeStep DEF RuntimeInv
      <4>2. wizardSessionId' \in Session \cup {None}
        BY <4>1 DEF TypeOK, CoordinatorTypeOK
      <4>3. m.ok /\ m \in Response
        BY <1>2, OutputsAwaited DEF Reporting
      <4>4. m.result \in Result
        BY <4>3, ResultType
      <4>5. m.result.at \in Answer \cup {None}
        BY <4>4 DEF Result
      <4> QED
        BY <4>2, <4>5 DEF Result
    <3> QED
      BY <1>2, <3>1, NoneAssumption
  <2> QED
    BY <2>1
<1>4. \A i \in Reporting' :
        /\ i \in Nat \ {0}
        /\ i + 1 \in Reporting /\ toWorker'[owner][i] = toWorker[owner][i + 1]
        /\ callOf'[toWorker[owner][i + 1].id] = callOf[toWorker[owner][i + 1].id]
  BY <1>1 DEF ReportsShift, Reporting, Outputs
<1>5. \A j \in Reporting : j \in Nat \ {0} /\ (j # 1 => j - 1 \in Reporting')
  <2>1. ASSUME NEW j \in Reporting
        PROVE  j \in Nat \ {0} /\ (j # 1 => j - 1 \in Reporting')
    <3>1. j \in Nat \ {0}
      BY <1>1 DEF Reporting, Outputs
    <3>2. j # 1 => j - 1 \in Nat \ {0} /\ (j - 1) + 1 = j
      BY <3>1
    <3> QED
      BY <3>1, <3>2 DEF ReportsShift
  <2> QED
    BY <2>1
<1>6. ASSUME NEW i \in Reporting'
      PROVE  callOf'[toWorker'[owner][i].id].method # "wizard.start"
  <2> DEFINE r == toWorker[owner][i + 1].id
  <2>1. i + 1 \in Reporting /\ i + 1 # 1
    BY <1>4
  <2>2. callOf[r].method # "wizard.start"
    <3>1. CASE c.method # "wizard.start"
      <4>1. wizardSessionId # None
        BY <1>2, <1>3, <3>1
      <4> QED
        BY <2>1, <4>1 DEF Follows
    <3>2. ASSUME c.method = "wizard.start", callOf[r].method = "wizard.start"
          PROVE  FALSE
      <4>1. i + 1 \in Outputs(owner) /\ OfWizard(r) /\ OfWizard(m.id)
        BY <2>1, <3>2, NoneIsNoKey DEF Reporting, OfWizard, Method
      <4>2. requestMethods[r] = "wizard.start" /\ r \in Request
        BY <3>2, <4>1, OutputsAwaited
      <4>3. r = m.id
        BY <1>1, <1>2, <3>2, <4>2 DEF CoordinatorInv, StartInFlightIsTracked
      <4>4. /\ <<"output", 1>> \in Work(owner) /\ <<"output", i + 1>> \in Work(owner)
            /\ Item(owner, <<"output", 1>>) = m
            /\ Item(owner, <<"output", i + 1>>) = toWorker[owner][i + 1]
        BY <1>1, <1>2, <4>1, OwnerConnected, WorkIs
      <4>5. <<"output", 1>> = <<"output", i + 1>>
        BY <1>1, <4>1, <4>3, <4>4 DEF WorkIsUnique
      <4> QED
        BY <2>1, <4>5
    <3> QED
      BY <3>1, <3>2
  <2> QED
    BY <1>4, <2>2
<1>7. ASSUME NEW i \in Reporting', \A j \in Reporting' : j <= i
      PROVE  toWorker'[owner][i].result.at = wizard[owner].at
  <2>1. ASSUME NEW j \in Reporting
        PROVE  j <= i + 1
    <3>1. CASE j = 1
      BY <1>4, <1>7, <3>1
    <3>2. CASE j # 1
      <4>1. j \in Nat \ {0} /\ j - 1 <= i /\ i \in Nat
        BY <1>4, <1>5, <1>7, <2>1, <3>2
      <4> QED
        BY <4>1
    <3> QED
      BY <3>1, <3>2
  <2> QED
    BY <1>4, <1>7, <2>1 DEF Follows
<1>8. ASSUME Reporting' = {}
      PROVE  wizardSnapshot' = wizard[owner]
  <2>1. \A j \in Reporting : j = 1
    BY <1>5, <1>8
  <2>2. m.result.at = wizard[owner].at
    <3>1. \A j \in Reporting : j <= 1
      BY <2>1
    <3> QED
      BY <1>2, <3>1 DEF Follows
  <2>3. wizard[owner] = [session |-> wizard[owner].session, at |-> wizard[owner].at]
    BY <1>1 DEF TypeOK, Result
  <2> QED
    BY <1>2, <1>3, <2>2, <2>3
<1> QED
  BY <1>3, <1>6, <1>7, <1>8 DEF Follows
\* So does what the Gateway makes of a call.
LEMMA FollowsRun ==
  ASSUME RuntimeInv, Follows, owner' = owner, owner \in Tab,
         NEW c \in Call, NEW m \in Response, Runs(c, m), timedOut' = {},
         Reporting \subseteq Nat \ {0}, Reporting' \subseteq Nat \ {0}
  PROVE  Follows'
<1> DEFINE n == Len(toWorker[owner]) + 1
<1>1. TypeOK /\ ReportAdded(c, m)
  BY DEF RuntimeInv, Runs
<1>2. UNCHANGED <<wizardSessionId, wizardSnapshot, wizardVars>>
  BY DEF Runs, coordinatorVars, wizardVars
<1>3. /\ \A i \in Reporting :
           /\ i \in Reporting' /\ i < n
           /\ toWorker'[owner][i] = toWorker[owner][i]
           /\ callOf'[toWorker[owner][i].id] = callOf[toWorker[owner][i].id]
      /\ \A i \in Reporting' : i \in Reporting \/ (i = n /\ m.ok /\ c.method # None)
      /\ m.ok /\ c.method # None => n \in Reporting'
      /\ n \in Nat /\ toWorker'[owner][n] = m /\ callOf'[m.id] = c
  BY <1>1 DEF ReportAdded
<1> HIDE DEF n
<1>4. \/ /\ Started(owner, c) \/ Advanced(owner, c) \/ Shown(owner, c)
         /\ m.ok /\ m.result = Reported(wizard'[owner], c)
      \/ ~m.ok /\ wizard' = wizard
  BY <1>1, RunCases DEF Fails, gatewayVars
<1>5. CASE ~(m.ok /\ c.method # None)
  <2>1. wizard'[owner] = wizard[owner]
    BY <1>4, <1>5, KeyNames, NoneIsNoKey DEF Started, Advanced, Shown, Method
  <2>2. ReportsShift(0)
    <3>1. ASSUME NEW i \in Nat \ {0}
          PROVE  /\ i \in Reporting' <=> i + 0 \in Reporting
                 /\ i + 0 \in Reporting =>
                      /\ toWorker'[owner][i] = toWorker[owner][i + 0]
                      /\ callOf'[toWorker[owner][i + 0].id]
                           = callOf[toWorker[owner][i + 0].id]
      <4>1. i + 0 = i
        OBVIOUS
      <4> QED
        BY <1>3, <1>5, <4>1
    <3> QED
      BY <3>1 DEF ReportsShift
  <2> QED
    BY <1>2, <2>1, <2>2, FollowsShifted
<1>6. CASE m.ok /\ c.method # None
  <2>1. n \in Reporting'
    BY <1>3, <1>6
  <2>2. m.result.at = wizard'[owner].at
    BY <1>4, <1>6 DEF Reported
  <2>3. /\ wizard'[owner].session # None
        /\ wizardSessionId # None => c.method # "wizard.start"
    <3>1. CASE Started(owner, c)
      BY <1>1, <3>1, NoneAssumption DEF Started, Follows
    <3>2. CASE Advanced(owner, c) \/ Shown(owner, c)
      BY <1>6, <3>2, KeyNames DEF Advanced, Shown
    <3> QED
      BY <1>4, <1>6, <3>1, <3>2
  <2>4. ASSUME NEW i \in Reporting', \A j \in Reporting' : j <= i
        PROVE  toWorker'[owner][i].result.at = wizard'[owner].at
    <3>1. i = n
      <4>1. n <= i
        BY <2>1, <2>4
      <4>2. i \in Reporting => i < n
        BY <1>3
      <4>3. i \in Nat /\ n \in Nat
        BY <1>3, <2>4
      <4> QED
        BY <1>3, <4>1, <4>2, <4>3
    <3> QED
      BY <1>3, <2>2, <3>1
  <2>5. ASSUME wizardSessionId # None, NEW i \in Reporting'
        PROVE  callOf'[toWorker'[owner][i].id].method # "wizard.start"
    <3>1. CASE i \in Reporting
      BY <1>3, <2>5, <3>1 DEF Follows
    <3>2. CASE i \notin Reporting
      BY <1>3, <2>3, <2>5, <3>2
    <3> QED
      BY <3>1, <3>2
  <2> QED
    BY <1>2, <2>1, <2>3, <2>4, <2>5 DEF Follows
<1> QED
  BY <1>5, <1>6

LEMMA SnapshotStays ==
  ASSUME RuntimeInv, Recorded, CacheIsRight, StartsAfresh, WorkIsAwaited,
         WorkIsUnique, SessionIsReported, SnapshotFollows, [Next]_vars
  PROVE  SnapshotFollows'
<1> SUFFICES ASSUME Live', timedOut' = {}
             PROVE  Follows'
  BY DEF SnapshotFollows, LiveSession, Report, CallReported, Follows
<1>1. /\ TypeOK /\ owner' = owner /\ owner \in Tab /\ owner # None
      /\ NothingCancelled /\ NothingCancelled' /\ (Live \/ Awakes)
  BY LiveBefore, NoneAssumption DEF RuntimeInv, Live
<1>2. Reporting \subseteq Nat \ {0} /\ Reporting' \subseteq Nat \ {0}
  BY DEF Reporting, Outputs
<1>3. CASE Awakes
  <2>1. /\ Reporting' = {} /\ wizardSessionId' = None /\ wizardSnapshot' = None
        /\ wizard'[owner].session = None
    BY <1>3 DEF Awakes, NothingRemembered, NoWizard
  <2> QED
    BY <1>1, <2>1 DEF Follows
<1>4. timedOut = {} /\ Live => Follows
  BY DEF SnapshotFollows, LiveSession, Report, CallReported, Follows
<1>5. /\ wizardSessionId' \in {None, wizard'[owner].session}
      /\ wizardSnapshot' # None => wizardSessionId' # None
  BY <1>1, LiveIsReported, SnapshotHasSession
<1>6. CASE Live /\ Rests
  <2>1. Follows /\ wizard'[owner] = wizard[owner]
    BY <1>4, <1>6 DEF Rests
  <2>2. ASSUME WorkerReceive(owner), ReportsShift(1), 1 \in Reporting
        PROVE  Follows'
    <3>1. Takes(Head(toWorker[owner]))
      BY <1>1, <2>2, ReportsAreTaken
    <3> QED
      BY <1>1, <1>5, <2>1, <2>2, <3>1, FollowsTaken
  <2>3. ASSUME NEW d \in {0, 1}, ReportsShift(d), d = 1 => 1 \notin Reporting,
               UNCHANGED wizardVars
        PROVE  Follows'
    BY <1>1, <1>2, <2>1, <2>3, FollowsShifted
  <2>4. UNCHANGED wizardVars \/ (WorkerReceive(owner) /\ 1 \in Reporting)
    <3>1. ASSUME NEW m, Takes(m), 1 \notin Reporting
          PROVE  UNCHANGED wizardVars
      BY <1>1, <3>1, ReportTaken
    <3> QED
      BY <1>1, <3>1, MemoryAfter DEF Takes
  <2>5. WorkerReceive(owner) => ReportsShift(1)
    BY <1>1, ReportsAfter
  <2>6. CASE WorkerReceive(owner) /\ 1 \in Reporting
    BY <2>2, <2>5, <2>6
  <2>7. CASE ~(WorkerReceive(owner) /\ 1 \in Reporting)
    BY <1>6, <2>3, <2>4, <2>7 DEF Rests
  <2> QED
    BY <2>6, <2>7
<1>7. ASSUME Live, NEW c \in Call, NEW m \in Response, Runs(c, m)
      PROVE  Follows'
  <2>1. timedOut = {}
    BY <1>1, <1>7, RunCases DEF Fails, gatewayVars
  <2> QED
    BY <1>1, <1>2, <1>4, <1>7, <2>1, FollowsRun
<1> QED
  BY <1>1, <1>3, <1>6, <1>7, LiveStep
-----------------------------------------------------------------------------
(***************************************************************************)
(* A key stays with its request while it is worked on.                     *)
(***************************************************************************)
\* A key is taken from its request with the response, or when all are.
Forgets(m) == ChangesSession(m) \/ Cancels(m)

LEMMA KeysAfter ==
  ASSUME TypeOK, [Next]_vars, NEW r \in Request, requestWizardNextKeys[r] # None
  PROVE  \/ requestWizardNextKeys'[r] = requestWizardNextKeys[r]
         \/ owner \in Tab /\ DisconnectOwner(owner)
         \/ \E m : Takes(m) /\ (m.id = r \/ Forgets(m))
         \/ \E t \in Tab : Forwards(t, r)
<1> USE DEF dedupVars
<1>1. CASE \A t \in Tab : ~WorkerReceive(t)
  BY <1>1, NothingRecorded
<1>2. ASSUME NEW t \in Tab, WorkerReceive(t)
      PROVE  \/ requestWizardNextKeys'[r] = requestWizardNextKeys[r]
             \/ owner \in Tab /\ DisconnectOwner(owner)
             \/ \E m : Takes(m) /\ (m.id = r \/ Forgets(m))
             \/ \E u \in Tab : Forwards(u, r)
  <2> DEFINE m == Head(toWorker[t])
  <2>1. m.type = "disconnect" /\ Disconnect(t)
          => \/ requestWizardNextKeys'[r] = requestWizardNextKeys[r]
             \/ owner \in Tab /\ DisconnectOwner(owner)
    BY DEF Disconnect, DisconnectOwner, DisconnectFollower
  <2>2. m.type = "start" /\ RuntimeStart(t) =>
          requestWizardNextKeys' = requestWizardNextKeys
    BY DEF RuntimeStart
  <2>3. m.type = "ready" /\ GatewayReady(t) =>
          requestWizardNextKeys' = requestWizardNextKeys
    BY DEF GatewayReady
  <2>4. IgnoreOutput(t) => requestWizardNextKeys' = requestWizardNextKeys
    BY DEF IgnoreOutput, coordinatorVars
  <2>5. ASSUME m.type = "operation", Operation(t, m.call)
        PROVE  \/ requestWizardNextKeys'[r] = requestWizardNextKeys[r]
               \/ Forwards(t, r)
    <3>1. CASE Forward(t, m.call)
      <4>1. m.call \in Call
        BY <1>2, <2>5, Heads, InTransitMessages
      <4> QED
        BY <1>2, <2>5, <3>1, <4>1
        DEF Forward, Forwards, TypeOK, CoordinatorTypeOK, Call
    <3>2. CASE ~Forward(t, m.call)
      BY <2>5, <3>2 DEF Operation, AnswerFromCache, JoinWizardNext,
        AnswerFromSnapshot, JoinWizardStart
    <3> QED
      BY <3>1, <3>2
  <2>6. ASSUME m.type = "response", OwnerResponse(t, m)
        PROVE  \/ requestWizardNextKeys'[r] = requestWizardNextKeys[r]
               \/ Takes(m) /\ (m.id = r \/ Forgets(m))
    <3>1. CASE RouteResponse(m)
      <4>1. Takes(m)
        BY <1>2, <2>6, <3>1 DEF Takes, OwnerResponse
      <4>2. CASE ~Forgets(m)
        BY <3>1, <4>1, <4>2
        DEF RouteResponse, SettleDeduplication, Forgets, TypeOK, CoordinatorTypeOK
      <4> QED
        BY <4>1, <4>2
    <3>2. CASE BroadcastResponse(m)
      BY <3>2 DEF BroadcastResponse
    <3> QED
      BY <2>6, <3>1, <3>2 DEF OwnerResponse
  <2> HIDE DEF m
  <2> QED
    BY <1>2, <2>1, <2>2, <2>3, <2>4, <2>5, <2>6 DEF WorkerReceive, m
<1> QED
  BY <1>1, <1>2

\* Nothing is forgotten while the owner's tab stays and nothing is cancelled.
LEMMA NothingForgotten ==
  ASSUME RuntimeInv, Recorded, WorkIsAwaited, StartsAfresh, SessionIsReported,
         NothingCancelled, owner # None, page[owner] # "gone", NEW m, Takes(m)
  PROVE  ~Forgets(m)
<1> DEFINE c == callOf[m.id]
<1>1. /\ 1 \in Outputs(owner) /\ m = toWorker[owner][1]
      /\ requestMethods[m.id] = c.method /\ ~Cancels(m) /\ Suits(m, c)
      /\ 1 \in Reporting <=> m.ok /\ c.method # None
  BY ReportTaken
<1>2. Live
  <2>1. runtime[owner] = "ready"
    BY <1>1 DEF StartsAfresh, Outputs
  <2> QED
    BY <2>1 DEF Live, OwnerIsReady
<1>3. ASSUME ChangesSession(m)
      PROVE  FALSE
  <2>1. /\ m.ok /\ c.method # None /\ m.result.session \notin {None, wizardSessionId}
        /\ wizardSessionId # None
    BY <1>1, <1>3, NoneIsNoKey DEF ChangesSession, Reports, Method
  <2>2. c.method = "wizard.start" /\ 1 \in Reporting
    BY <1>1, <2>1 DEF Suits
  <2>3. m.result.session = LiveSession /\ wizardSessionId = LiveSession
    BY <1>1, <1>2, <2>1, <2>2 DEF SessionIsReported, Report, CallReported
  <2> QED
    BY <2>1, <2>3
<1> QED
  BY <1>1, <1>3 DEF Forgets

LEMMA KeysStay ==
  ASSUME RuntimeInv, Recorded, CacheIsRight, StartsAfresh, WorkIsAwaited,
         WorkIsUnique, SessionIsReported, KeysAreKept, [Next]_vars
  PROVE  KeysAreKept'
<1> SUFFICES ASSUME NothingCancelled', owner' # None, page'[owner'] # "gone",
                    NEW u \in Tab, u = owner', NEW w \in Work(u)'
             PROVE  requestWizardNextKeys'[Item(u, w)'.id]
                      = WizardNextKey(callOf'[Item(u, w)'.id])
  <2>1. owner' # None => owner' \in Tab
    BY RuntimeStep DEF RuntimeInv, TypeOK, CoordinatorTypeOK
  <2>2. \A u \in Tab : u = owner' =>
          /\ Work(owner)' = Work(u)'
          /\ \A w : Item(owner, w)' = Item(u, w)'
    BY DEF Work, Inputs, Outputs, Heard, Item
  <2> QED
    BY <2>1, <2>2 DEF KeysAreKept
<1>1. /\ TypeOK /\ owner' = owner /\ u = owner /\ owner # None
      /\ NothingCancelled /\ page[owner] # "gone"
      /\ Recorded'
  <2>1. owner' = owner
    BY WorkIsLost
  <2> QED
    BY <2>1, CallsKept, RecordedStays, GoodbyesAreTrue DEF RuntimeInv
<1>2. PICK f : /\ \A x \in Work(u)' : ComesFrom(u, f[x], x)
               /\ WorkerReceive(u) => \A x \in Work(u)' : f[x] # <<"output", 1>>
  BY WorkAfter
<1>3. ASSUME HandedOver(u, Item(u, w)'), w[1] = "input"
      PROVE  requestWizardNextKeys'[Item(u, w)'.id]
               = WizardNextKey(callOf'[Item(u, w)'.id])
  <2> DEFINE c == Item(u, w)'
  <2>1. /\ c.id \in Request /\ callOf[c.id] = c /\ c # None
        /\ requestWizardNextKeys'[c.id] = WizardNextKey(c)
    BY <1>3, HandedOverIsNew
  <2>2. callOf'[c.id] = c
    BY <1>1, <2>1, CallsKept
  <2> QED
    BY <2>1, <2>2
<1>4. ASSUME NEW v \in Work(u), v = f[w], NEW r, r = Item(u, v).id,
             r = Item(u, w)'.id
      PROVE  requestWizardNextKeys'[r] = WizardNextKey(callOf'[r])
  <2>1. /\ r \in Request /\ callOf[r] # None /\ callOf[r] \in Call
        /\ requestWizardNextKeys[r] = WizardNextKey(callOf[r])
        /\ Awaited(r)
    <3>1. r \in Request
      BY <1>1, <1>4, ItemId
    <3>2. Awaited(r) /\ callOf[r] # None
      BY <1>4 DEF WorkIsAwaited, Awaited
    <3>3. callOf[r] \in Call
      BY <1>1, <3>1, <3>2 DEF TypeOK
    <3>4. \A x \in Work(owner) :
            requestWizardNextKeys[Item(owner, x).id]
              = WizardNextKey(callOf[Item(owner, x).id])
      BY <1>1 DEF KeysAreKept
    <3>5. requestWizardNextKeys[r] = WizardNextKey(callOf[r])
      BY <1>1, <1>4, <3>4
    <3> QED
      BY <3>1, <3>2, <3>3, <3>5
  <2>2. callOf'[r] = callOf[r]
    BY <1>1, <2>1, CallsKept
  <2>3. CASE WizardNextKey(callOf[r]) = None
    BY <1>1, <2>1, <2>2, <2>3 DEF Recorded
  <2>4. CASE WizardNextKey(callOf[r]) # None
    <3>1. OfWizard(r) /\ Tracked(r)
      BY <1>1, <1>4, <2>1, <2>4, KeyNames, WorkIsTracked DEF OfWizard
    <3>2. ~ \E t \in Tab : Forwards(t, r)
      <4>1. ASSUME NEW t \in Tab, Forwards(t, r)
            PROVE  ~Tracked(r)
        BY <1>1, <4>1, Heads
        DEF Forwards, RuntimeInv, OperationsAreNew, TransitIsUntracked
      <4> QED
        BY <3>1, <4>1
    <3>3. ~(owner \in Tab /\ DisconnectOwner(owner))
      <4>1. ASSUME DisconnectOwner(owner)
            PROVE  owner' # owner
        <5>1. owner \notin ports' /\ owner' \in ports' \cup {None}
          BY <4>1 DEF DisconnectOwner, ChooseOwner
        <5> QED
          BY <1>1, <5>1
      <4> QED
        BY <1>1, <4>1
    <3>4. ASSUME NEW m, Takes(m), m.id = r
          PROVE  FALSE
      <4>1. /\ WorkerReceive(owner) /\ <<"output", 1>> \in Work(owner)
            /\ Item(owner, <<"output", 1>>) = m
        BY <1>1, <3>4, ResponseTaken DEF Takes
      <4>2. v = <<"output", 1>>
        BY <1>1, <1>4, <3>1, <3>4, <4>1 DEF WorkIsUnique
      <4> QED
        BY <1>1, <1>2, <1>4, <4>1, <4>2
    <3>5. ASSUME NEW m, Takes(m)
          PROVE  ~Forgets(m)
      BY <1>1, <3>5, NothingForgotten
    <3>6. requestWizardNextKeys'[r] = requestWizardNextKeys[r]
      BY <1>1, <2>1, <2>4, <3>2, <3>3, <3>4, <3>5, KeysAfter
    <3> QED
      BY <2>1, <2>2, <3>6
  <2> QED
    BY <2>3, <2>4
<1>5. ComesFrom(u, f[w], w)
  BY <1>2
<1>6. CASE f[w] \in Work(u) /\ Item(u, f[w]).id = Item(u, w)'.id
  BY <1>4, <1>6
<1> QED
  BY <1>3, <1>5, <1>6 DEF ComesFrom, Ended
-----------------------------------------------------------------------------
(***************************************************************************)
(* Answers that were taken.                                                *)
(***************************************************************************)
\* What the step of a Gateway does to the counts: nothing, or one answer is
\* taken once more.
Took(k) ==
  /\ k \in Key /\ applied'[k] = applied[k] + 1
  /\ \A j \in Key : j # k => applied'[j] = applied[j]

LEMMA OwnersRun ==
  ASSUME RuntimeInv, WorkIsAwaited, [Next]_vars
  PROVE  \/ UNCHANGED <<applied, timedOut>>
         \/ /\ owner \in Tab /\ runtime[owner] = "ready" /\ owner' = owner
            /\ \E c \in Call, m \in Response :
                 /\ c.id \in Request /\ callOf[c.id] = c /\ m.id = c.id
                 /\ <<"queue", 1>> \in Work(owner)
                 /\ Item(owner, <<"queue", 1>>) = c
                 /\ timedOut' = timedOut \/ (timedOut' = timedOut \cup {c.id} /\ ~m.ok)
                 /\ \/ applied' = applied
                    \/ /\ Took(WizardNextKey(c)) /\ Advanced(owner, c)
                       /\ ~m.ok => timedOut' = timedOut \cup {c.id}
<1>1. TypeOK
  BY DEF RuntimeInv
<1>2. CASE \A t \in Tab : ~RunOperation(t)
  BY <1>1, <1>2, GatewayAfter
<1>3. CASE RunOperation(owner) /\ owner # None /\ owner \in Tab
  <2>1. owner' = owner /\ runtime[owner] = "ready"
    BY <1>3 DEF RunOperation, coordinatorVars, portVars
  <2>2. PICK c \in Call, m \in Response :
          /\ c.id \in Request /\ callOf[c.id] = c /\ m.id = c.id
          /\ <<"queue", 1>> \in Work(owner)
          /\ Item(owner, <<"queue", 1>>) = c
          /\ \/ Succeeds(owner, c, m) \/ TimesOut(owner, c, m)
             \/ Fails(m)
    BY <1>3, <2>1, ReportsAfter
  <2>3. timedOut' = timedOut \/ (timedOut' = timedOut \cup {c.id} /\ ~m.ok)
    BY <2>2 DEF Succeeds, TimesOut, Fails, gatewayVars
  <2>4. \/ applied' = applied
        \/ /\ Took(WizardNextKey(c)) /\ Advanced(owner, c)
           /\ ~m.ok => timedOut' = timedOut \cup {c.id}
    <3>1. CASE Fails(m)
      BY <3>1 DEF Fails, gatewayVars
    <3>2. CASE ~Fails(m)
      <4>1. /\ GatewayServes(owner, c)
            /\ ~m.ok => timedOut' = timedOut \cup {c.id}
        BY <2>2, <3>2 DEF Succeeds, TimesOut
      <4>2. ASSUME Advanced(owner, c)
            PROVE  Took(WizardNextKey(c))
        <5>1. /\ WizardNextKey(c) \in Key
              /\ applied' = [applied EXCEPT ![WizardNextKey(c)] = @ + 1]
          BY <4>2, KeyNames DEF Advanced
        <5> QED
          BY <1>1, <5>1 DEF Took, TypeOK
      <4> QED
        BY <1>1, <1>3, <4>1, <4>2, ServedCases DEF Started, Ceased, Shown
    <3> QED
      BY <3>1, <3>2
  <2> QED
    BY <1>3, <2>1, <2>2, <2>3, <2>4
<1>4. \A t \in Tab : RunOperation(t) => t = owner /\ owner # None
  BY RunnerIsOwner
<1> QED
  BY <1>2, <1>3, <1>4

LEMMA TakenGrows ==
  ASSUME RuntimeInv, WorkIsAwaited, IsFiniteSet(Taken),
         \A r \in timedOut : callOf[r] # None, [Next]_vars
  PROVE  /\ timedOut \subseteq timedOut'
         /\ \A r \in timedOut' : callOf'[r] # None
         /\ \A r \in timedOut : callOf'[r] = callOf[r]
         /\ \A k \in Key : applied[k] \in Nat /\ applied'[k] \in Nat
         /\ \A k \in Key : applied'[k] >= applied[k]
         /\ IsFiniteSet(Taken')
<1>1. TypeOK /\ TypeOK'
  BY RuntimeStep DEF RuntimeInv
<1>2. \A k \in Key : applied[k] \in Nat /\ applied'[k] \in Nat
  BY <1>1 DEF TypeOK
<1>3. \A r \in Request : callOf[r] # None => callOf'[r] = callOf[r]
  BY <1>1, CallsKept
<1>4. timedOut \subseteq Request
  BY <1>1 DEF TypeOK
<1>5. CASE UNCHANGED <<applied, timedOut>>
  BY <1>2, <1>3, <1>4, <1>5 DEF Taken
<1>6. ASSUME NEW c \in Call, c.id \in Request, callOf[c.id] = c,
             timedOut' = timedOut \/ timedOut' = timedOut \cup {c.id},
             applied' = applied \/ Took(WizardNextKey(c))
      PROVE  /\ timedOut \subseteq timedOut'
             /\ \A r \in timedOut' : callOf'[r] # None
             /\ \A k \in Key : applied'[k] >= applied[k]
             /\ IsFiniteSet(Taken')
  <2>1. callOf'[c.id] # None
    BY <1>3, <1>6, CallAssumption
  <2>2. \A k \in Key : applied'[k] >= applied[k]
    BY <1>2, <1>6 DEF Took
  <2>3. Taken' \subseteq Taken \cup {WizardNextKey(c)}
    BY <1>6 DEF Taken, Took
  <2>4. IsFiniteSet(Taken \cup {WizardNextKey(c)})
    BY FS_AddElement
  <2>5. IsFiniteSet(Taken')
    BY <2>3, <2>4, FS_Subset
  <2> QED
    BY <1>3, <1>4, <1>6, <2>1, <2>2, <2>5
<1>7. CASE UNCHANGED <<applied, timedOut>> \/
             \E c \in Call : /\ c.id \in Request /\ callOf[c.id] = c
                             /\ timedOut' = timedOut \/ timedOut' = timedOut \cup {c.id}
                             /\ applied' = applied \/ Took(WizardNextKey(c))
  BY <1>2, <1>3, <1>4, <1>5, <1>6, <1>7
<1> QED
  BY <1>7, OwnersRun

\* An exception stays one.
LEMMA ExceptedStays ==
  ASSUME RuntimeInv, WorkIsAwaited, IsFiniteSet(Taken),
         \A r \in timedOut : callOf[r] # None, [Next]_vars,
         NEW k, Excepted(k)
  PROVE  Excepted(k)'
<1>1. /\ timedOut \subseteq timedOut'
      /\ \A r \in timedOut : callOf'[r] = callOf[r]
      /\ \A j \in Key : applied[j] \in Nat /\ applied'[j] \in Nat
      /\ \A j \in Key : applied'[j] >= applied[j]
      /\ IsFiniteSet(Taken')
  BY TakenGrows
<1>2. CASE \E r \in timedOut : WizardNextKey(callOf[r]) = k
  BY <1>1, <1>2 DEF Excepted
<1> DEFINE before == {j \in Key : j[1] = k[1] /\ applied[j] > 0}
           after == {j \in Key : j[1] = k[1] /\ applied'[j] > 0}
<1>3. CASE Cardinality(before) > MaxCached
  <2>1. before \subseteq after /\ after \subseteq Taken'
    BY <1>1 DEF Taken
  <2> HIDE DEF before, after
  <2>2. IsFiniteSet(after)
    BY <1>1, <2>1, FS_Subset
  <2>3. /\ IsFiniteSet(before) /\ Cardinality(before) <= Cardinality(after)
    BY <2>1, <2>2, FS_Subset
  <2>4. Cardinality(before) \in Nat /\ Cardinality(after) \in Nat
    BY <2>2, <2>3, FS_CardinalityType
  <2>5. Cardinality(after) > MaxCached
    BY <1>3, <2>3, <2>4, MaxCachedAssumption
  <2> QED
    BY <2>5 DEF Excepted, after
<1> QED
  BY <1>2, <1>3 DEF Excepted
\* Keeping a response evicts nothing but from a full cache.
LEMMA RememberKeeps ==
  ASSUME NEW cache \in Seq(Entry), NEW k \in Key,
         NEW m \in Response, m.ok, Len(cache) <= MaxCached,
         NEW kept, kept = RememberWizardNextResponse(cache, k, m),
         NEW i \in 1 .. Len(cache)
  PROVE  (\E j \in 1 .. Len(kept) : kept[j] = cache[i]) \/ Len(kept) = MaxCached
<1> DEFINE longer == Append(cache, [key |-> k, response |-> m])
<1>1. [key |-> k, response |-> m] \in Entry
  BY DEF Entry
<1>2. /\ longer \in Seq(Entry) /\ longer # <<>>
      /\ Len(cache) \in Nat /\ Len(longer) = Len(cache) + 1
      /\ i \in 1 .. Len(longer) /\ longer[i] = cache[i]
  BY <1>1, AppendElements, EmptySeq
<1>3. kept = IF Len(longer) > MaxCached THEN Tail(longer) ELSE longer
  BY DEF RememberWizardNextResponse
<1> HIDE DEF longer
<1>4. CASE Len(longer) > MaxCached
  <2>1. Len(kept) = Len(longer) - 1
    BY <1>2, <1>3, <1>4, TailElements
  <2> QED
    BY <1>2, <1>4, <2>1, MaxCachedAssumption
<1> QED
  BY <1>2, <1>3, <1>4

\* So does the worker.
LEMMA CacheKeeps ==
  ASSUME RuntimeInv, Recorded, WorkIsAwaited, StartsAfresh, SessionIsReported,
         NothingCancelled, owner # None, page[owner] # "gone", owner' = owner,
         [Next]_vars
  PROVE  /\ \A k \in CachedKeys :
              k \in CachedKeys' \/ Len(wizardNextResponseCache') = MaxCached
         /\ \A m : /\ Takes(m) /\ m.ok /\ requestWizardNextKeys[m.id] # None
                   => requestWizardNextKeys[m.id] \in CachedKeys'
<1>1. /\ TypeOK /\ wizardNextResponseCache \in Seq(Entry)
      /\ Len(wizardNextResponseCache) <= MaxCached
  BY DEF RuntimeInv, TypeOK, CoordinatorTypeOK, CoordinatorInv, CacheIsExclusive,
         Entry
<1>2. ASSUME NEW m, Takes(m)
      PROVE  /\ \A k \in CachedKeys :
                  k \in CachedKeys' \/ Len(wizardNextResponseCache') = MaxCached
             /\ m.ok /\ requestWizardNextKeys[m.id] # None
                  => requestWizardNextKeys[m.id] \in CachedKeys'
  <2> DEFINE k == requestWizardNextKeys[m.id]
  <2>1. m \in Response /\ m.id \in Request /\ k \in Key \cup {None}
    <3>1. m \in Response /\ m.id \in Request
      BY <1>2, ReportTaken
    <3> QED
      BY <1>1, <3>1 DEF TypeOK, CoordinatorTypeOK
  <2>2. wizardNextResponseCache' =
          IF k # None /\ m.ok
          THEN RememberWizardNextResponse(wizardNextResponseCache, k, m)
          ELSE wizardNextResponseCache
    BY <1>2, NothingForgotten
    DEF Takes, RouteResponse, SettleDeduplication, Forgets
  <2> HIDE DEF k
  <2>3. CASE ~(k # None /\ m.ok)
    BY <2>2, <2>3 DEF CachedKeys, k
  <2>4. CASE k # None /\ m.ok
    <3>1. /\ wizardNextResponseCache' \in Seq(Entry)
          /\ Len(wizardNextResponseCache') \in 1 .. MaxCached
          /\ wizardNextResponseCache'[Len(wizardNextResponseCache')]
               = [key |-> k, response |-> m]
          /\ \A i \in 1 .. Len(wizardNextResponseCache) :
               \/ \E j \in 1 .. Len(wizardNextResponseCache') :
                    wizardNextResponseCache'[j] = wizardNextResponseCache[i]
               \/ Len(wizardNextResponseCache') = MaxCached
      <4> DEFINE cache == wizardNextResponseCache
                 kept == wizardNextResponseCache'
      <4>1. /\ k \in Key /\ cache \in Seq(Entry) /\ Len(cache) <= MaxCached
            /\ kept = RememberWizardNextResponse(cache, k, m)
        BY <1>1, <2>1, <2>2, <2>4
      <4> HIDE DEF cache, kept
      <4>2. /\ kept \in Seq(Entry) /\ Len(kept) \in 1 .. MaxCached
            /\ kept[Len(kept)] = [key |-> k, response |-> m]
        BY <2>1, <2>4, <4>1, RememberProperties
      <4>3. \A i \in 1 .. Len(cache) :
              (\E j \in 1 .. Len(kept) : kept[j] = cache[i]) \/ Len(kept) = MaxCached
        BY <2>1, <2>4, <4>1, RememberKeeps
      <4> QED
        BY <4>2, <4>3 DEF cache, kept
    <3>2. Len(wizardNextResponseCache') \in 1 .. Len(wizardNextResponseCache')
      BY <3>1, MaxCachedAssumption
    <3>3. k \in CachedKeys'
      BY <3>1, <3>2 DEF CachedKeys
    <3> QED
      BY <3>1, <3>3 DEF CachedKeys, k
  <2> QED
    BY <2>3, <2>4
<1>3. UNCHANGED wizardNextResponseCache \/ \E m : Takes(m)
  BY MemoryAfter
<1>4. UNCHANGED wizardNextResponseCache => \A k \in CachedKeys : k \in CachedKeys'
  BY DEF CachedKeys
<1> QED
  BY <1>2, <1>3, <1>4

\* Keys that are cached, and another one, outnumber a full cache.
LEMMA MoreThanCached ==
  ASSUME NEW cache, NEW n \in Nat, NEW k, NEW S, IsFiniteSet(S), k \in S,
         \A i \in 1 .. n : cache[i].key \in S /\ cache[i].key # k,
         \A i, j \in 1 .. n : cache[i].key = cache[j].key => i = j
  PROVE  Cardinality(S) > n
<1> DEFINE f == [i \in 1 .. (n + 1) |-> IF i = n + 1 THEN k ELSE cache[i].key]
<1>1. f \in [1 .. (n + 1) -> S]
  <2>1. \A i \in 1 .. (n + 1) : i = n + 1 \/ i \in 1 .. n
    OBVIOUS
  <2> QED
    BY <2>1
<1>2. IsFiniteSet(1 .. (n + 1)) /\ Cardinality(1 .. (n + 1)) = n + 1
  BY FS_Interval
<1>3. Cardinality(S) \in Nat
  BY FS_CardinalityType
<1>4. ASSUME NEW i \in 1 .. (n + 1), NEW j \in 1 .. (n + 1), i # j, f[i] = f[j]
      PROVE  FALSE
  <2>1. \A x \in 1 .. (n + 1) : x = n + 1 \/ x \in 1 .. n
    OBVIOUS
  <2> QED
    BY <1>4, <2>1
<1> HIDE DEF f
<1>5. ~(Cardinality(S) < n + 1)
  <2>1. Cardinality(S) < n + 1 => Cardinality(S) < Cardinality(1 .. (n + 1))
    BY <1>2
  <2> QED
    BY <1>1, <1>2, <1>4, <2>1, FS_PigeonHole
<1> QED
  BY <1>3, <1>5
\* An answer the owner still works on is neither cached nor reported.
LEMMA WorkedOnIsNew ==
  ASSUME RuntimeInv, WorkIsAwaited, WorkIsUnique, KeysAreKept, NothingCancelled,
         owner \in Tab, runtime[owner] = "ready",
         NEW c \in Call, callOf[c.id] = c, c.id \in Request,
         <<"queue", 1>> \in Work(owner), Item(owner, <<"queue", 1>>) = c,
         NEW k, k = WizardNextKey(c), k # None
  PROVE  /\ k \notin CachedKeys
         /\ \A i \in Reporting : WizardNextKey(CallReported(i)) # k
<1>1. /\ TypeOK /\ owner # None /\ page[owner] # "gone"
      /\ NextInFlightIsTracked /\ CacheIsExclusive /\ Heard(owner)
  BY NoneAssumption, OwnerConnected
  DEF RuntimeInv, OwnershipIsKnown, CoordinatorInv
<1>2. \A w \in Work(owner) :
        requestWizardNextKeys[Item(owner, w).id]
          = WizardNextKey(callOf[Item(owner, w).id])
  BY <1>1 DEF KeysAreKept
<1>3. requestWizardNextKeys[c.id] = k
  BY <1>2
<1>4. k \notin CachedKeys
  <2>1. k \in wizardNextInFlight
    BY <1>1, <1>3 DEF NextInFlightIsTracked
  <2> QED
    BY <1>1, <2>1 DEF CacheIsExclusive
<1>5. ASSUME NEW i \in Reporting, WizardNextKey(CallReported(i)) = k
      PROVE  FALSE
  <2> DEFINE m == toWorker[owner][i]
             w == <<"output", i>>
  <2>1. i \in Outputs(owner)
    BY <1>1, <1>5 DEF Reporting
  <2>2. m.id \in Request
    BY <1>1, <2>1, OutputsAwaited
  <2>3. w \in Work(owner) /\ Item(owner, w) = m
    BY <1>1, <2>1, WorkIs
  <2>4. requestWizardNextKeys[m.id] = k
    BY <1>2, <1>5, <2>3 DEF CallReported
  <2>5. m.id = c.id
    BY <1>1, <1>3, <2>2, <2>4 DEF NextInFlightIsTracked
  <2>6. OfWizard(c.id)
    BY KeyNames DEF OfWizard
  <2>7. w = <<"queue", 1>>
    BY <2>3, <2>5, <2>6 DEF WorkIsUnique
  <2>8. w # <<"queue", 1>>
    OBVIOUS
  <2> QED
    BY <2>7, <2>8
<1> QED
  BY <1>4, <1>5

LEMMA TakenOnce ==
  ASSUME RuntimeInv, WorkIsAwaited, WorkIsUnique, KeysAreKept,
         AnswersAreRemembered, [Next]_vars
  PROVE  AnswerAppliedOnce'
<1> SUFFICES ASSUME NEW k \in Key, applied'[k] > 1, NothingCancelled'
             PROVE  Excepted(k)'
  BY DEF AnswerAppliedOnce, Excepted
<1>1. /\ TypeOK /\ NothingCancelled /\ IsFiniteSet(Taken)
      /\ \A r \in timedOut : callOf[r] # None
      /\ AnswerAppliedOnce
  BY CallsKept DEF RuntimeInv, AnswersAreRemembered
<1>2. Excepted(k) => Excepted(k)'
  BY <1>1, ExceptedStays
<1>3. applied[k] \in Nat
  BY <1>1 DEF TypeOK
<1>4. CASE applied[k] > 1
  BY <1>1, <1>2, <1>4 DEF AnswerAppliedOnce, Excepted
<1>5. CASE ~(applied[k] > 1)
  <2>1. PICK c \in Call :
          /\ owner \in Tab /\ runtime[owner] = "ready"
          /\ c.id \in Request /\ callOf[c.id] = c
          /\ <<"queue", 1>> \in Work(owner)
          /\ Item(owner, <<"queue", 1>>) = c
          /\ Took(WizardNextKey(c)) /\ Advanced(owner, c)
    BY <1>3, <1>5, OwnersRun
  <2>2. /\ k = WizardNextKey(c) /\ applied'[k] = applied[k] + 1
    BY <1>5, <2>1 DEF Took
  <2>3. /\ k # None /\ k[1] = wizard[owner].session /\ k \in Taken
    <3>1. k # None /\ k[1] = wizard[owner].session
      BY <2>1, <2>2, KeyNames DEF Advanced
    <3>2. applied[k] > 0
      BY <1>3, <2>2
    <3> QED
      BY <3>1, <3>2 DEF Taken
  <2>4. Live
    BY <1>1, <2>1, NoneAssumption DEF Live, OwnerIsReady
  <2>5. /\ k \notin CachedKeys
        /\ \A i \in Reporting : WizardNextKey(CallReported(i)) # k
    BY <1>1, <2>1, <2>2, <2>3, WorkedOnIsNew
  <2>6. Excepted(k)
    BY <2>3, <2>4, <2>5 DEF AnswersAreRemembered, LiveSession
  <2> QED
    BY <1>2, <2>6
<1> QED
  BY <1>4, <1>5
\* A key names a session.
LEMMA KeySession ==
  ASSUME TypeOK
  PROVE  /\ \A k \in Key : k[1] \in Session /\ k[1] # None
         /\ CachedKeys \subseteq Key
<1>1. \A k \in Key : k[1] \in Session /\ k[1] # None
  BY NoneAssumption DEF Key
<1>2. ASSUME NEW i \in 1 .. Len(wizardNextResponseCache)
      PROVE  wizardNextResponseCache[i].key \in Key
  <2>1. wizardNextResponseCache \in Seq(Entry)
    BY DEF TypeOK, CoordinatorTypeOK
  <2>2. wizardNextResponseCache[i] \in [key : Key, response : Response]
    BY <2>1, ElementOfSeq, EntryType
  <2> QED
    BY <2>2
<1> QED
  BY <1>1, <1>2 DEF CachedKeys

\* Of a live session it stays, as long as the Gateway lives.
OfSession(k) == k[1] = wizard[owner].session /\ applied[k] > 0

LEMMA OfSessionStays ==
  ASSUME RuntimeInv, WorkIsAwaited, IsFiniteSet(Taken),
         \A r \in timedOut : callOf[r] # None, [Next]_vars,
         Live, Live', owner' = owner, NEW k \in Key, OfSession(k)
  PROVE  OfSession(k)'
<1>1. TypeOK /\ owner \in Tab
  BY OwnerConnected DEF RuntimeInv, Live, OwnerIsReady
<1>2. applied'[k] > 0
  <2>1. applied[k] \in Nat /\ applied'[k] \in Nat /\ applied'[k] >= applied[k]
    BY TakenGrows
  <2> QED
    BY <2>1 DEF OfSession
<1>3. wizard[owner].session # None
  BY <1>1, KeySession DEF OfSession
<1>4. CASE Rests
  BY <1>2, <1>4 DEF Rests, OfSession
<1>5. ASSUME NEW c \in Call, NEW m \in Response, Runs(c, m)
      PROVE  OfSession(k)'
  <2>1. wizard'[owner].session = wizard[owner].session
    BY <1>1, <1>3, <1>5, RunCases DEF Started, Advanced, Shown, Fails, gatewayVars
  <2> QED
    BY <1>2, <2>1 DEF OfSession
<1> QED
  BY <1>4, <1>5, LiveStep

LEMMA AnswersOfSession ==
  ASSUME RuntimeInv, Recorded, StartsAfresh, WorkIsAwaited,
         AnswersAreRemembered, [Next]_vars, Live'
  PROVE  /\ \A i \in Reporting' : \A k :
              k # None /\ k = WizardNextKey(callOf'[toWorker'[owner][i].id]) =>
                k \in Key /\ k[1] = wizard'[owner].session /\ applied'[k] > 0
         /\ \A k \in CachedKeys' :
              k[1] = wizard'[owner].session /\ applied'[k] > 0
<1>1. /\ TypeOK /\ CoordinatorInv /\ owner' = owner /\ owner \in Tab /\ owner # None
      /\ NothingCancelled /\ (Live \/ Awakes)
      /\ IsFiniteSet(Taken) /\ \A r \in timedOut : callOf[r] # None
  BY LiveBefore, NoneAssumption DEF RuntimeInv, AnswersAreRemembered
<1>2. CASE Awakes
  <2>1. Reporting' = {} /\ wizardNextResponseCache' = <<>>
    BY <1>2 DEF Awakes, NothingRemembered
  <2>2. CachedKeys' = {}
    BY <2>1, EmptySeq DEF CachedKeys
  <2> QED
    BY <2>1, <2>2
<1>3. ASSUME Live
      PROVE  /\ \A i \in Reporting :
                  LET k == WizardNextKey(callOf[toWorker[owner][i].id])
                  IN  k # None => k \in Key /\ OfSession(k)
             /\ \A k \in CachedKeys : k \in Key /\ OfSession(k)
  <2>1. ASSUME NEW i \in Reporting,
               NEW k, k = WizardNextKey(callOf[toWorker[owner][i].id]), k # None
        PROVE  k \in Key /\ OfSession(k)
    <3>1. OfSession(k)
      BY <1>3, <2>1 DEF AnswersAreRemembered, CallReported, LiveSession, OfSession
    <3>2. callOf[toWorker[owner][i].id] \in Call
      BY <1>1, <2>1, OutputsAwaited DEF Reporting
    <3> QED
      BY <2>1, <3>1, <3>2, KeyNames
  <2>2. \A k \in CachedKeys : k \in Key /\ OfSession(k)
    BY <1>1, <1>3, KeySession DEF AnswersAreRemembered, LiveSession, OfSession
  <2> QED
    BY <2>1, <2>2
<1>4. ASSUME Live, NEW k \in Key, OfSession(k)
      PROVE  OfSession(k)'
  BY <1>1, <1>4, OfSessionStays
<1>5. Reporting' \subseteq Nat \ {0}
  BY DEF Reporting, Outputs
<1>6. ASSUME Live, NEW i \in Reporting',
             NEW k, k = WizardNextKey(callOf'[toWorker'[owner][i].id]), k # None
      PROVE  k \in Key /\ OfSession(k)'
  <2>1. ASSUME NEW d \in {0, 1}, ReportsShift(d)
        PROVE  k \in Key /\ OfSession(k)'
    <3>1. /\ i + d \in Reporting
          /\ toWorker'[owner][i] = toWorker[owner][i + d]
          /\ callOf'[toWorker[owner][i + d].id] = callOf[toWorker[owner][i + d].id]
      BY <1>5, <1>6, <2>1 DEF ReportsShift
    <3> QED
      BY <1>3, <1>4, <1>6, <3>1
  <2>2. ASSUME NEW c \in Call, NEW m \in Response, Runs(c, m)
        PROVE  k \in Key /\ OfSession(k)'
    <3>1. ReportAdded(c, m)
      BY <2>2 DEF Runs
    <3>2. CASE i \in Reporting
      <4>1. /\ toWorker'[owner][i] = toWorker[owner][i]
            /\ callOf'[toWorker[owner][i].id] = callOf[toWorker[owner][i].id]
        BY <3>1, <3>2 DEF ReportAdded
      <4> QED
        BY <1>3, <1>4, <1>6, <3>2, <4>1
    <3>3. CASE i \notin Reporting
      <4>1. m.ok /\ k = WizardNextKey(c)
        BY <1>6, <3>1, <3>3 DEF ReportAdded
      <4>2. Advanced(owner, c)
        BY <1>1, <1>6, <2>2, <4>1, RunCases, NoneIsNoKey
        DEF Fails, Started, Shown, WizardNextKey
      <4>3. /\ k \in Key /\ k[1] = wizard'[owner].session
            /\ applied' = [applied EXCEPT ![k] = @ + 1]
        BY <1>6, <4>1, <4>2, KeyNames DEF Advanced
      <4>4. applied'[k] > 0
        BY <1>1, <4>3 DEF TypeOK
      <4> QED
        BY <1>1, <4>3, <4>4 DEF OfSession
    <3> QED
      BY <3>2, <3>3
  <2> QED
    BY <1>1, <1>6, <2>1, <2>2, LiveStep DEF Rests
<1>7. ASSUME Live, NEW k \in CachedKeys'
      PROVE  OfSession(k)'
  <2>1. PICK i \in 1 .. Len(wizardNextResponseCache') :
          wizardNextResponseCache'[i].key = k
    BY <1>7 DEF CachedKeys
  <2>2. CASE \E j \in 1 .. Len(wizardNextResponseCache) :
               wizardNextResponseCache'[i] = wizardNextResponseCache[j]
    <3>1. k \in CachedKeys
      BY <2>1, <2>2 DEF CachedKeys
    <3> QED
      BY <1>3, <1>4, <1>7, <3>1
  <2>3. ASSUME NEW t \in Tab, NEW m, m = Head(toWorker[t]), WorkerReceive(t),
               m.type = "response", OwnerResponse(t, m), m.ok,
               requestWizardNextKeys[m.id] # None,
               wizardNextResponseCache'[i]
                 = [key |-> requestWizardNextKeys[m.id], response |-> m]
        PROVE  OfSession(k)'
    <3>1. /\ t = owner /\ 1 \in Outputs(owner) /\ m = toWorker[owner][1]
          /\ callOf[m.id] \in Call /\ k = WizardNextKey(callOf[m.id]) /\ k # None
      BY <2>1, <2>3, ResponseTaken
    <3>2. callOf[m.id].method # None
      BY <3>1, KeyNames
    <3>3. 1 \in Reporting
      BY <1>1, <2>3, <3>1, <3>2 DEF Reporting, OfWizard
    <3> QED
      BY <1>3, <1>4, <1>7, <3>1, <3>3
  <2> QED
    BY <1>1, <2>2, <2>3, CacheAfter
<1>8. ASSUME NEW i \in Reporting',
             NEW k, k = WizardNextKey(callOf'[toWorker'[owner][i].id]), k # None
      PROVE  k \in Key /\ k[1] = wizard'[owner].session /\ applied'[k] > 0
  <2>1. CASE Awakes
    <3>1. Reporting' = {}
      BY <1>8, <1>2, <2>1 DEF Awakes
    <3> QED
      BY <1>8, <3>1
  <2>2. CASE Live
    BY <1>1, <1>6, <1>8, <2>2 DEF OfSession
  <2> QED
    BY <1>1, <2>1, <2>2
<1>9. ASSUME NEW k \in CachedKeys'
      PROVE  k[1] = wizard'[owner].session /\ applied'[k] > 0
  <2>1. CASE Awakes
    BY <1>2, <1>9, <2>1
  <2>2. CASE Live
    BY <1>1, <1>7, <1>9, <2>2 DEF OfSession
  <2> QED
    BY <1>1, <2>1, <2>2
<1> QED
  BY <1>8, <1>9
\* When the cache has no room for a key, there are too many of its session.
LEMMA EvictedIsExcepted ==
  ASSUME RuntimeInv, Recorded, StartsAfresh, WorkIsAwaited,
         AnswersAreRemembered, [Next]_vars, Live',
         NEW k \in Key, k[1] = wizard'[owner].session, applied'[k] > 0,
         k \notin CachedKeys', Len(wizardNextResponseCache') = MaxCached
  PROVE  Excepted(k)'
<1> DEFINE S == {j \in Key : j[1] = k[1] /\ applied'[j] > 0}
           cache == wizardNextResponseCache'
<1>1. /\ TypeOK' /\ CacheIsExclusive' /\ IsFiniteSet(Taken')
  BY RuntimeStep, TakenGrows
  DEF RuntimeInv, CoordinatorInv, AnswersAreRemembered
<1>2. IsFiniteSet(S)
  <2>1. S \subseteq Taken'
    BY DEF Taken
  <2> HIDE DEF S
  <2> QED
    BY <1>1, <2>1, FS_Subset
<1>3. ASSUME NEW i \in 1 .. MaxCached
      PROVE  cache[i].key \in S /\ cache[i].key # k
  <2>1. cache[i].key \in CachedKeys'
    BY <1>3 DEF CachedKeys
  <2>2. cache[i].key \in Key
    <3>1. cache \in Seq(Entry)
      BY <1>1 DEF TypeOK, CoordinatorTypeOK
    <3>2. cache[i] \in [key : Key, response : Response]
      BY <3>1, ElementOfSeq, EntryType
    <3> QED
      BY <3>2
  <2> HIDE DEF cache
  <2>3. cache[i].key[1] = wizard'[owner].session /\ applied'[cache[i].key] > 0
    BY <2>1, AnswersOfSession
  <2> QED
    BY <2>1, <2>2, <2>3
<1>4. \A i, j \in 1 .. MaxCached : cache[i].key = cache[j].key => i = j
  BY <1>1 DEF CacheIsExclusive
<1>5. k \in S
  OBVIOUS
<1> HIDE DEF S, cache
<1>6. Cardinality(S) > MaxCached
  <2>1. MaxCached \in Nat
    BY MaxCachedAssumption
  <2>2. \A i \in 1 .. MaxCached : cache[i].key \in S /\ cache[i].key # k
    BY <1>3
  <2> QED
    BY ONLY <1>2, <1>4, <1>5, <2>1, <2>2, MoreThanCached, ZenonT(60)
<1> QED
  BY <1>6 DEF S, Excepted

Kept(k) ==
  \/ k \in CachedKeys \/ Excepted(k)
  \/ \E i \in Reporting : WizardNextKey(callOf[toWorker[owner][i].id]) = k
StaysKept(k) ==
  \/ k \in CachedKeys' \/ Excepted(k)'
  \/ \E i \in Reporting' : WizardNextKey(callOf'[toWorker'[owner][i].id]) = k

\* What was taken before stays so while the Gateway rests.
LEMMA KeptAtRest ==
  ASSUME RuntimeInv, Recorded, StartsAfresh, WorkIsAwaited, SessionIsReported,
         KeysAreKept, AnswersAreRemembered, [Next]_vars, Live, Live',
         owner' = owner, Rests,
         NEW k \in Key, k[1] = wizard'[owner].session, applied'[k] > 0, Kept(k)
  PROVE  StaysKept(k)
<1>1. /\ TypeOK /\ owner \in Tab /\ owner # None /\ page[owner] # "gone"
      /\ NothingCancelled /\ k # None
      /\ IsFiniteSet(Taken) /\ \A r \in timedOut : callOf[r] # None
  <2>1. /\ owner # None /\ owner \in Tab /\ runtime[owner] = "ready"
        /\ NothingCancelled /\ TypeOK /\ OwnershipIsKnown
    BY OwnerConnected DEF Live, OwnerIsReady, RuntimeInv
  <2>2. k # None /\ page[owner] # "gone"
    BY <2>1, KeyNames, NoneIsNoKey DEF OwnershipIsKnown
  <2> QED
    BY <2>1, <2>2 DEF AnswersAreRemembered
<1>2. CASE Excepted(k)
  BY <1>1, <1>2, ExceptedStays DEF StaysKept
<1>3. CASE k \in CachedKeys
  <2>1. k \in CachedKeys' \/ Len(wizardNextResponseCache') = MaxCached
    BY <1>1, <1>3, CacheKeeps
  <2> QED
    BY <2>1, EvictedIsExcepted DEF StaysKept
<1>4. ASSUME NEW i \in Reporting,
             WizardNextKey(callOf[toWorker[owner][i].id]) = k
      PROVE  StaysKept(k)
  <2>1. i \in Nat \ {0}
    BY <1>4 DEF Reporting, Outputs
  <2>2. CASE ReportsShift(0)
    <3>1. /\ i + 0 = i /\ i \in Reporting'
          /\ toWorker'[owner][i] = toWorker[owner][i]
          /\ callOf'[toWorker[owner][i].id] = callOf[toWorker[owner][i].id]
      BY <1>4, <2>1, <2>2 DEF ReportsShift
    <3> QED
      BY <1>4, <3>1 DEF StaysKept
  <2>3. CASE ReportsShift(1) /\ i # 1
    <3>1. i - 1 \in Nat \ {0} /\ (i - 1) + 1 = i
      BY <2>1, <2>3
    <3>2. /\ i - 1 \in Reporting'
          /\ toWorker'[owner][i - 1] = toWorker[owner][i]
          /\ callOf'[toWorker[owner][i].id] = callOf[toWorker[owner][i].id]
      BY <1>4, <2>3, <3>1 DEF ReportsShift
    <3> QED
      BY <1>4, <3>2 DEF StaysKept
  <2>4. CASE WorkerReceive(owner) /\ i = 1
    <3> DEFINE m == Head(toWorker[owner])
    <3>1. Takes(m)
      BY <1>1, <1>4, <2>4, ReportsAreTaken
    <3> HIDE DEF m
    <3>2. m = toWorker[owner][1] /\ 1 \in Outputs(owner) /\ m.ok
      BY <1>1, <1>4, <2>4, <3>1, ReportTaken
    <3>3. requestWizardNextKeys[m.id] = k
      <4>1. /\ <<"output", 1>> \in Work(owner)
            /\ Item(owner, <<"output", 1>>) = m
        BY <1>1, <3>2, OwnerConnected, WorkIs
      <4> QED
        BY <1>1, <1>4, <2>4, <3>2, <4>1 DEF KeysAreKept
    <3>4. k \in CachedKeys'
      BY <1>1, <3>1, <3>2, <3>3, CacheKeeps
    <3> QED
      BY <3>4 DEF StaysKept
  <2> QED
    BY <2>2, <2>3, <2>4 DEF Rests
<1> QED
  BY <1>2, <1>3, <1>4 DEF Kept

\* What is taken while the Gateway runs is reported, or timed out.
LEMMA KeptInRun ==
  ASSUME RuntimeInv, Recorded, StartsAfresh, WorkIsAwaited, SessionIsReported,
         SessionsAreUsed, AnswersAreRemembered, [Next]_vars, Live, Live',
         owner' = owner, NEW c \in Call, NEW m \in Response, Runs(c, m),
         NEW k \in Key, k[1] = wizard'[owner].session, applied'[k] > 0,
         applied[k] > 0 /\ k[1] = wizard[owner].session => Kept(k)
  PROVE  StaysKept(k)
<1>1. /\ TypeOK /\ owner \in Tab /\ NothingCancelled /\ k # None
      /\ k[1] # None
      /\ IsFiniteSet(Taken) /\ \A r \in timedOut : callOf[r] # None
      /\ ReportAdded(c, m) /\ UNCHANGED wizardNextResponseCache
      /\ callOf[c.id] = c /\ m.id = c.id /\ c.id \in Request
  <2>1. NothingCancelled /\ TypeOK /\ owner # None
    BY DEF Live, OwnerIsReady, RuntimeInv
  <2>2. k # None
    BY KeyNames, NoneIsNoKey
  <2>3. ReportAdded(c, m) /\ UNCHANGED wizardNextResponseCache
    BY DEF Runs, coordinatorVars, dedupVars
  <2>4. callOf[c.id] = c /\ m.id = c.id /\ c.id \in Request
    BY DEF Runs
  <2> QED
    BY <2>1, <2>2, <2>3, <2>4, OwnerConnected, KeySession
    DEF AnswersAreRemembered
<1>2. ASSUME Kept(k)
      PROVE  StaysKept(k)
  <2>1. CASE Excepted(k)
    BY <1>1, <2>1, ExceptedStays DEF StaysKept
  <2>2. CASE k \in CachedKeys
    BY <1>1, <2>2 DEF StaysKept, CachedKeys
  <2>3. ASSUME NEW i \in Reporting,
               WizardNextKey(callOf[toWorker[owner][i].id]) = k
        PROVE  StaysKept(k)
    <3>1. /\ i \in Reporting' /\ toWorker'[owner][i] = toWorker[owner][i]
          /\ callOf'[toWorker[owner][i].id] = callOf[toWorker[owner][i].id]
      BY <1>1, <2>3 DEF ReportAdded
    <3> QED
      BY <2>3, <3>1 DEF StaysKept
  <2> QED
    BY <1>2, <2>1, <2>2, <2>3 DEF Kept
<1>3. CASE Fails(m)
  BY <1>2, <1>3 DEF Fails, gatewayVars
<1>4. ASSUME Started(owner, c)
      PROVE  FALSE
  <2>1. applied[k] > 0 /\ k[1] \notin sessionsUsed
    BY <1>4 DEF Started
  <2> QED
    BY <2>1 DEF SessionsAreUsed
<1>5. CASE Shown(owner, c)
  BY <1>2, <1>5 DEF Shown
<1>6. CASE Advanced(owner, c) /\ ~Fails(m)
  <2>1. CASE k # WizardNextKey(c)
    <3>1. applied'[k] = applied[k] /\ wizard'[owner].session = wizard[owner].session
      BY <1>1, <1>6, <2>1 DEF Advanced, TypeOK
    <3> QED
      BY <1>2, <3>1
  <2>2. CASE k = WizardNextKey(c) /\ m.ok
    <3>1. c.method # None
      BY <1>1, <2>2, KeyNames
    <3> DEFINE n == Len(toWorker[owner]) + 1
    <3>2. n \in Reporting' /\ toWorker'[owner][n] = m /\ callOf'[m.id] = c
      BY <1>1, <2>2, <3>1 DEF ReportAdded
    <3> HIDE DEF n
    <3> QED
      BY <2>2, <3>2 DEF StaysKept
  <2>3. CASE k = WizardNextKey(c) /\ ~m.ok
    <3>1. c.id \in timedOut'
      BY <1>6, <2>3 DEF Runs, Succeeds, TimesOut
    <3>2. callOf'[c.id] = c
      BY <1>1 DEF ReportAdded
    <3>3. Excepted(k)'
      BY <2>3, <3>1, <3>2 DEF Excepted
    <3> QED
      BY <3>3 DEF StaysKept
  <2> QED
    BY <2>1, <2>2, <2>3
<1> QED
  BY <1>1, <1>3, <1>4, <1>5, <1>6, RunCases
LEMMA TakenIsKept ==
  ASSUME RuntimeInv, Recorded, StartsAfresh, WorkIsAwaited, SessionIsReported,
         SessionsAreUsed, KeysAreKept, AnswersAreRemembered, [Next]_vars, Live',
         NEW k \in Key, k[1] = wizard'[owner].session, applied'[k] > 0
  PROVE  StaysKept(k)
<1>1. /\ TypeOK /\ owner' = owner /\ owner \in Tab /\ (Live \/ Awakes)
      /\ k[1] # None
  BY LiveBefore, KeySession DEF RuntimeInv
<1>2. CASE Awakes
  BY <1>1, <1>2 DEF Awakes, NoWizard
<1>3. CASE Live
  <2>1. applied[k] > 0 /\ k[1] = wizard[owner].session => Kept(k)
    BY <1>3 DEF AnswersAreRemembered, Kept, Taken, LiveSession, CallReported
  <2>2. CASE Rests
    <3>1. applied[k] > 0 /\ k[1] = wizard[owner].session
      BY <2>2 DEF Rests
    <3> QED
      BY <1>1, <1>3, <2>1, <2>2, <3>1, KeptAtRest
  <2>3. ASSUME NEW c \in Call, NEW m \in Response, Runs(c, m)
        PROVE  StaysKept(k)
    BY <1>1, <1>3, <2>1, <2>3, KeptInRun
  <2> QED
    BY <1>1, <1>3, <2>2, <2>3, LiveStep
<1> QED
  BY <1>1, <1>2, <1>3

LEMMA AnswersStay ==
  ASSUME RuntimeInv, Recorded, StartsAfresh, WorkIsAwaited, WorkIsUnique,
         SessionIsReported, SessionsAreUsed, KeysAreKept, AnswersAreRemembered,
         [Next]_vars
  PROVE  AnswersAreRemembered'
<1>1. /\ IsFiniteSet(Taken) /\ \A r \in timedOut : callOf[r] # None
  BY DEF AnswersAreRemembered
<1>2. IsFiniteSet(Taken') /\ \A r \in timedOut' : callOf'[r] # None
  BY <1>1, TakenGrows
<1>3. AnswerAppliedOnce'
  BY TakenOnce
<1>4. ASSUME Live'
      PROVE  /\ \A i \in Reporting' :
                  LET k == WizardNextKey(callOf'[toWorker'[owner'][i].id]) IN
                  k # None => k[1] = wizard'[owner'].session /\ applied'[k] > 0
             /\ \A k \in CachedKeys' :
                  k[1] = wizard'[owner'].session /\ applied'[k] > 0
             /\ \A k \in Taken' : k[1] = wizard'[owner'].session =>
                  \/ k \in CachedKeys'
                  \/ \E i \in Reporting' :
                       WizardNextKey(callOf'[toWorker'[owner'][i].id]) = k
                  \/ Excepted(k)'
  <2>1. owner' = owner
    BY <1>4, LiveBefore
  <2>2. /\ \A i \in Reporting' : \A k :
             k # None /\ k = WizardNextKey(callOf'[toWorker'[owner][i].id]) =>
               k \in Key /\ k[1] = wizard'[owner].session /\ applied'[k] > 0
        /\ \A k \in CachedKeys' :
             k[1] = wizard'[owner].session /\ applied'[k] > 0
    BY <1>4, AnswersOfSession
  <2>3. ASSUME NEW k \in Taken', k[1] = wizard'[owner].session
        PROVE  StaysKept(k)
    <3>1. k \in Key /\ applied'[k] > 0
      BY <2>3 DEF Taken
    <3> QED
      BY <1>4, <2>3, <3>1, TakenIsKept
  <2>4. ASSUME NEW i \in Reporting',
               NEW k, k = WizardNextKey(callOf'[toWorker'[owner'][i].id]), k # None
        PROVE  k[1] = wizard'[owner'].session /\ applied'[k] > 0
    BY <2>1, <2>2, <2>4
  <2>5. ASSUME NEW k \in Taken', k[1] = wizard'[owner'].session
        PROVE  \/ k \in CachedKeys'
               \/ \E i \in Reporting' :
                    WizardNextKey(callOf'[toWorker'[owner'][i].id]) = k
               \/ Excepted(k)'
    BY <2>1, <2>3, <2>5 DEF StaysKept
  <2>6. \A k \in CachedKeys' :
          k[1] = wizard'[owner'].session /\ applied'[k] > 0
    BY <2>1, <2>2
  <2> QED
    BY <2>4, <2>5, <2>6
<1> QED
  BY <1>2, <1>3, <1>4 DEF AnswersAreRemembered, CallReported, LiveSession

-----------------------------------------------------------------------------
(***************************************************************************)
(* The invariant, and what follows.                                        *)
(***************************************************************************)
LEMMA WizardInit == Init => WizardInv
<1> SUFFICES ASSUME Init PROVE WizardInv
  OBVIOUS
<1>1. RuntimeInv /\ NoneAssumption
  BY RuntimeInit, NoneAssumption
<1>2. /\ ports = {} /\ owner = None /\ Len(wizardNextResponseCache) = 0
      /\ NothingRemembered /\ timedOut = {}
      /\ \A r \in Request : callOf[r] = None /\ caller[r] = None
      /\ \A r \in Request : /\ requestOwners[r] = None /\ requestMethods[r] = None
                            /\ requestWizardNextKeys[r] = None
      /\ \A k \in Key : applied[k] = 0
  BY EmptySeq DEF Init, CoordinatorInit, NoneTracked, NothingRemembered
<1>3. \A t \in Tab : /\ Len(toWorker[t]) = 0 /\ Len(toTab[t]) = 0
                     /\ Len(operationQueue[t]) = 0 /\ operationQueue[t] = <<>>
                     /\ Len(wizardStartWaiters[t]) = 0
                     /\ wizard[t] = NoWizard /\ pageSession[t] = None
  BY EmptySeq DEF Init, CoordinatorInit, NoWaiters
<1>4. \A k \in Key, t \in Tab : Len(wizardNextWaiters[k][t]) = 0
  BY EmptySeq DEF Init, CoordinatorInit, NoWaiters
<1>5. \A n : n \notin 1 .. 0
  OBVIOUS
<1>6. Recorded /\ JoinedIsSame
  BY <1>2, <1>3, <1>4, <1>5 DEF Recorded, JoinedIsSame
<1>7. \A t \in Tab : Work(t) = {}
  BY <1>3, <1>5 DEF Work, Inputs, Outputs
<1>8. WorkIsAwaited /\ WorkIsUnique
  BY <1>7 DEF WorkIsAwaited, WorkIsUnique
<1>9. RepliesMatchCalls /\ CacheIsRight /\ RepliesAreCalled
  BY <1>2, <1>3, <1>5 DEF RepliesMatchCalls, CacheIsRight, RepliesAreCalled
<1>10. SessionsAreUsed
  BY <1>2, <1>3, <1>5 DEF SessionsAreUsed, NothingRemembered, NoWizard
<1>11. StartsAfresh
  BY <1>2, <1>3 DEF StartsAfresh
<1>12. Reporting = {} /\ ~Live
  BY <1>2 DEF Reporting, Live, OwnerIsReady
<1>13. SessionIsReported /\ SnapshotFollows /\ KeysAreKept
  BY <1>2, <1>12
  DEF SessionIsReported, SnapshotFollows, KeysAreKept, NothingRemembered
<1>14. AnswersAreRemembered
  <2>1. Taken = {}
    BY <1>2 DEF Taken
  <2>2. AnswerAppliedOnce
    BY <1>2 DEF AnswerAppliedOnce
  <2> QED
    BY <1>2, <1>12, <2>1, <2>2, FS_EmptySet DEF AnswersAreRemembered
<1> QED
  BY <1>1, <1>6, <1>8, <1>9, <1>10, <1>11, <1>13, <1>14 DEF WizardInv

LEMMA WizardStep == WizardInv /\ [Next]_vars => WizardInv'
<1> SUFFICES ASSUME WizardInv, [Next]_vars PROVE WizardInv'
  OBVIOUS
<1>1. /\ RuntimeInv /\ Recorded /\ JoinedIsSame /\ WorkIsAwaited /\ WorkIsUnique
      /\ RepliesMatchCalls /\ CacheIsRight /\ RepliesAreCalled
      /\ SessionsAreUsed /\ StartsAfresh /\ SessionIsReported
      /\ SnapshotFollows /\ KeysAreKept /\ AnswersAreRemembered
  BY DEF WizardInv
<1>2. RuntimeInv'
  BY <1>1, RuntimeStep
<1>3. Recorded' /\ JoinedIsSame'
  BY <1>1, RecordedStays, JoinedStays
<1>4. WorkIsAwaited' /\ WorkIsUnique'
  BY <1>1, WorkStays
<1>5. RepliesMatchCalls' /\ RepliesAreCalled'
  BY <1>1, RepliesStay
<1>6. CacheIsRight' /\ SessionsAreUsed'
  BY <1>1, CacheStays, SessionsStay
<1>7. StartsAfresh'
  BY <1>1, StartsAfreshStays
<1>8. SessionIsReported'
  BY <1>1, SessionReportStays
<1>9. SnapshotFollows'
  BY <1>1, SnapshotStays
<1>10. KeysAreKept'
  BY <1>1, KeysStay
<1>11. AnswersAreRemembered'
  BY <1>1, AnswersStay
<1> QED
  BY <1>2, <1>3, <1>4, <1>5, <1>6, <1>7, <1>8, <1>9, <1>10, <1>11 DEF WizardInv

(***************************************************************************)
(* A forwarded call is at one place between the coordinator and its owner, *)
(* and what the coordinator remembers of requests, answers and sessions is *)
(* what the live Gateway did, or what the owner's responses still report.  *)
(***************************************************************************)
THEOREM WizardInvariant == Spec => []WizardInv
<1>1. Init => WizardInv
  BY WizardInit
<1>2. WizardInv /\ [Next]_vars => WizardInv'
  BY WizardStep
<1> QED
  BY <1>1, <1>2, PTL DEF Spec

(***************************************************************************)
(* Whichever way a call of the wizard is answered (by the owner, from the  *)
(* cache, from the snapshot, or with the call it joined), its caller gets  *)
(* the response, and the response is to that call (routeResponse,          *)
(* settleDeduplication of openclaw-shared-worker.ts).                      *)
(***************************************************************************)
THEOREM RepliesAlwaysMatch == Spec => []RepliesMatchCalls
<1>1. WizardInv => RepliesMatchCalls
  BY DEF WizardInv
<1> QED
  BY <1>1, WizardInvariant, PTL

(***************************************************************************)
(* However many tabs send an answer, and however often the owner crashes,  *)
(* a Gateway takes it once, but for an answer whose call timed out, a      *)
(* session with more answers than the cache holds, and one that somebody   *)
(* tried to cancel (rememberWizardNextResponse of the same file).          *)
(***************************************************************************)
THEOREM AnswersAreTakenOnce == Spec => []AnswerAppliedOnce
<1>1. WizardInv => AnswerAppliedOnce
  BY DEF WizardInv, AnswersAreRemembered
<1> QED
  BY <1>1, WizardInvariant, PTL

LEMMA SnapshotCurrent == WizardInv => SnapshotIsCurrent
<1> SUFFICES ASSUME WizardInv, timedOut = {}, NothingCancelled, OwnerIsReady,
                    \A i \in 1 .. Len(toWorker[owner]) :
                      toWorker[owner][i].type # "response"
             PROVE  IF wizardSnapshot = None THEN wizard[owner].session = None
                    ELSE wizardSnapshot = wizard[owner]
  BY DEF SnapshotIsCurrent
<1>1. SnapshotFollows /\ CoordinatorInv /\ Live
  BY DEF WizardInv, RuntimeInv, Live
<1>2. Reporting = {}
  BY DEF Reporting, Outputs
<1>3. wizardSnapshot = None => wizardSessionId = None
  BY <1>1 DEF CoordinatorInv, SnapshotOfLiveSession
<1> QED
  BY <1>1, <1>2, <1>3 DEF SnapshotFollows, LiveSession

(***************************************************************************)
(* Once the owner's responses are in, the snapshot with which the worker   *)
(* answers a second tab's wizard.start is the wizard of the live Gateway.  *)
(***************************************************************************)
THEOREM SnapshotStaysCurrent == Spec => []SnapshotIsCurrent
<1> QED
  BY SnapshotCurrent, WizardInvariant, PTL

===============================================================================
