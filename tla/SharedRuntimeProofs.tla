------------------------- MODULE SharedRuntimeProofs -------------------------
(***************************************************************************)
(* Theorems about the tab coordinator, for any set of tabs, requests,      *)
(* sessions and answers and any cache size, whatever the tabs post to it;  *)
(* then about the coordinator among the tabs of the program, for any       *)
(* number of tabs and calls, with crashes and timeouts.  CoordinatorSpec    *)
(* leaves its tabs free except that a call does not reuse the identifier   *)
(* of one that is tracked; the real tabs keep to that (OperationsAreNew),   *)
(* so SharedRuntime implements it and inherits what is proved about it.    *)
(***************************************************************************)
EXTENDS SharedRuntime, SequenceTheorems, TLAPS

-----------------------------------------------------------------------------
(***************************************************************************)
(* What handlers post.                                                     *)
(***************************************************************************)
\* The messages that elect an owner are messages.
LEMMA RoleMessages ==
  /\ [type |-> "owner"] \in Message
  /\ [type |-> "follower"] \in Message
  /\ [type |-> "owner-start"] \in Message
BY DEF Message

\* A forwarded call is a message.
LEMMA InputMessage ==
  ASSUME NEW c \in Call
  PROVE  [type |-> "owner-input", call |-> c] \in Message
BY DEF Message

\* Responses are messages.
LEMMA ResponseMessage == Response \subseteq Message
BY DEF Message

\* A response readdressed to another request is still a response.
LEMMA Readdressed ==
  ASSUME NEW m \in Response, NEW r \in Request
  PROVE  [m EXCEPT !.id = r] \in Response
BY DEF Response

\* The answers to a list of joined requests are a list of responses.
LEMMA AnsweringType ==
  ASSUME NEW m \in Response, NEW requests \in Seq(Request)
  PROVE  Answering(m, requests) \in Seq(Message)
<1>1. \A i \in 1 .. Len(requests) : [m EXCEPT !.id = requests[i]] \in Message
  BY Readdressed, ResponseMessage, ElementOfSeq
<1>2. Len(requests) \in Nat
  BY LenProperties
<1> QED
  BY <1>1, <1>2 DEF Answering

\* Posting messages to one port leaves every other port alone.
LEMMA OnlyType ==
  ASSUME NEW p, NEW messages \in Seq(Message)
  PROVE  Only(p, messages) \in [Tab -> Seq(Message)]
BY EmptySeq DEF Only

\* Posting keeps every port's channel a list of messages.
LEMMA PostType ==
  ASSUME toTab \in [Tab -> Seq(Message)],
         NEW out \in [Tab -> Seq(Message)],
         Post(out)
  PROVE  toTab' \in [Tab -> Seq(Message)]
<1>1. \A t \in Tab : toTab[t] \o out[t] \in Seq(Message)
  BY ConcatProperties
<1> QED
  BY <1>1, EmptySeq DEF Post

\* Posting one message to one port.
LEMMA PostOneType ==
  ASSUME toTab \in [Tab -> Seq(Message)],
         NEW p, NEW m \in Message,
         Post(Only(p, <<m>>))
  PROVE  toTab' \in [Tab -> Seq(Message)]
<1>1. <<m>> \in Seq(Message)
  OBVIOUS
<1> QED
  BY <1>1, OnlyType, PostType

-----------------------------------------------------------------------------
(***************************************************************************)
(* Type correctness, handler by handler.                                   *)
(***************************************************************************)
\* An entry of the response cache is a response under its key.
LEMMA EntryType ==
  ASSUME NEW e \in Entry
  PROVE  e \in [key : Key, response : Response] /\ e.response.ok
BY DEF Entry

\* The worker starts with well-typed state.
LEMMA InitType == CoordinatorInit => CoordinatorTypeOK
<1>1. /\ <<>> \in Seq(Tab)
      /\ <<>> \in Seq(Entry)
      /\ <<>> \in Seq(Request)
      /\ <<>> \in Seq(Message)
  BY EmptySeq
<1> QED
  BY <1>1 DEF CoordinatorInit, CoordinatorTypeOK, NoneTracked, NoWaiters

\* A port that connects is told its role, and of the Gateway if it is ready.
LEMMA ConnectType ==
  ASSUME CoordinatorTypeOK, NEW p \in Tab, Connect(p)
  PROVE  CoordinatorTypeOK'
<1> USE DEF CoordinatorTypeOK
<1>1. readyMessage # None => Ready(p) \in Message
  BY DEF Connect, Ready, Message
<1>2. <<[type |-> IF owner = None THEN "owner" ELSE "follower"]>>
        \o (IF readyMessage = None THEN <<>> ELSE <<Ready(p)>>) \in Seq(Message)
  BY <1>1, RoleMessages
<1>3. toTab' \in [Tab -> Seq(Message)]
  BY <1>2, OnlyType, PostType DEF Connect
<1>4. arrivals' \in Seq(Tab)
  BY AppendProperties DEF Connect
<1> QED
  BY <1>3, <1>4
  DEF Connect, requestVars, dedupVars, startVars, wizardVars

\* Electing an owner tells a connected port.
LEMMA ChooseOwnerType ==
  ASSUME CoordinatorTypeOK, ports' \subseteq Tab, ChooseOwner
  PROVE  /\ owner' \in Tab \cup {None}
         /\ readyMessage' \in Tab \cup {None}
         /\ toTab' \in [Tab -> Seq(Message)]
<1> USE DEF CoordinatorTypeOK
<1>1. NoWaiters \in [Tab -> Seq(Message)]
  BY EmptySeq DEF NoWaiters
<1>2. <<[type |-> "owner"]>>
        \o (IF runtimeRequested THEN <<[type |-> "owner-start"]>> ELSE <<>>)
        \in Seq(Message)
  BY RoleMessages
<1>3. toTab' \in [Tab -> Seq(Message)]
  BY <1>1, <1>2, OnlyType, PostType DEF ChooseOwner
<1> QED
  BY <1>3 DEF ChooseOwner

\* A port that disconnects leaves well-typed state, whoever owned the runtime.
LEMMA DisconnectType ==
  ASSUME CoordinatorTypeOK, NEW p \in Tab, Disconnect(p)
  PROVE  CoordinatorTypeOK'
<1> USE DEF CoordinatorTypeOK
<1>1. CASE DisconnectOwner(p)
  <2>1. /\ owner' \in Tab \cup {None}
        /\ readyMessage' \in Tab \cup {None}
        /\ toTab' \in [Tab -> Seq(Message)]
    BY <1>1, ChooseOwnerType DEF DisconnectOwner
  <2> QED
    BY <1>1, <2>1, EmptySeq
    DEF DisconnectOwner, ClearWizardNextDeduplication, NoneTracked, NoWaiters
<1>2. CASE DisconnectFollower(p)
  <2>1. NoWaiters \in [Tab -> Seq(Message)]
    BY EmptySeq DEF NoWaiters
  <2>2. toTab' \in [Tab -> Seq(Message)]
    BY <1>2, <2>1, PostType DEF DisconnectFollower
  <2> QED
    BY <1>2, <2>2 DEF DisconnectFollower, dedupVars, startVars, wizardVars
<1> QED
  BY <1>1, <1>2 DEF Disconnect

\* Asking for the runtime passes the request to the owner.
LEMMA RuntimeStartType ==
  ASSUME CoordinatorTypeOK, NEW p \in Tab, RuntimeStart(p)
  PROVE  CoordinatorTypeOK'
<1> USE DEF CoordinatorTypeOK
<1>1. toTab' \in [Tab -> Seq(Message)]
  BY RoleMessages, PostOneType DEF RuntimeStart
<1> QED
  BY <1>1 DEF RuntimeStart, requestVars, dedupVars, startVars, wizardVars

\* The key of a call is a key or none at all.
LEMMA WizardNextKeyType ==
  ASSUME NEW c \in Call
  PROVE  WizardNextKey(c) \in Key \cup {None}
BY DEF Call, WizardNextKey, Key

\* None is no key, so a call without one is never found among keys.
LEMMA NoneIsNoKey == None \notin Key /\ None \notin Method /\ None \notin Result
BY NoneAssumption

\* A call is answered, joins another or is forwarded with well-typed state.
LEMMA OperationType ==
  ASSUME CoordinatorTypeOK, NEW p \in Tab, NEW c \in Call, Operation(p, c)
  PROVE  CoordinatorTypeOK'
<1> USE DEF CoordinatorTypeOK
<1>1. c.id \in Request /\ c.method \in Method \cup {None}
  BY DEF Call
<1>2. CASE AnswerFromCache(p, c)
  <2>1. PICK i \in 1 .. Len(wizardNextResponseCache) :
          /\ UNCHANGED portVars
          /\ Post(Only(p, <<[wizardNextResponseCache[i].response
                               EXCEPT !.id = c.id]>>))
    BY <1>2 DEF AnswerFromCache
  <2>2. wizardNextResponseCache[i] \in [key : Key, response : Response]
    BY <2>1, ElementOfSeq, EntryType
  <2>3. [wizardNextResponseCache[i].response EXCEPT !.id = c.id] \in Message
    BY <1>1, <2>2, Readdressed, ResponseMessage
  <2>4. toTab' \in [Tab -> Seq(Message)]
    BY <2>1, <2>3, PostOneType
  <2> QED
    BY <1>2, <2>4
    DEF AnswerFromCache, portVars, requestVars, dedupVars, startVars,
        wizardVars
<1>3. CASE JoinWizardNext(p, c)
  <2>1. WizardNextKey(c) \in Key
    BY <1>3 DEF JoinWizardNext
  <2>2. Append(wizardNextWaiters[WizardNextKey(c)][p], c.id) \in Seq(Request)
    BY <1>1, <2>1, AppendProperties
  <2>3. wizardNextWaiters' \in [Key -> [Tab -> Seq(Request)]]
    BY <1>3, <2>1, <2>2 DEF JoinWizardNext
  <2> QED
    BY <1>3, <2>3
    DEF JoinWizardNext, portVars, requestVars, startVars, wizardVars
<1>4. CASE AnswerFromSnapshot(p, c)
  <2>1. [type |-> "response", id |-> c.id, ok |-> TRUE,
         result |-> wizardSnapshot] \in Message
    BY <1>1, <1>4 DEF AnswerFromSnapshot, Message, Response
  <2>2. toTab' \in [Tab -> Seq(Message)]
    BY <1>4, <2>1, PostOneType DEF AnswerFromSnapshot
  <2> QED
    BY <1>4, <2>2
    DEF AnswerFromSnapshot, portVars, requestVars, dedupVars, startVars,
        wizardVars
<1>5. CASE JoinWizardStart(p, c)
  <2>1. Append(wizardStartWaiters[p], c.id) \in Seq(Request)
    BY <1>1, AppendProperties
  <2> QED
    BY <1>5, <2>1
    DEF JoinWizardStart, portVars, requestVars, dedupVars, wizardVars
<1>6. CASE Forward(p, c)
  <2>1. toTab' \in [Tab -> Seq(Message)]
    BY <1>6, InputMessage, PostOneType DEF Forward
  <2>2. WizardNextKey(c) \in Key \cup {None}
    BY WizardNextKeyType
  <2>3. wizardNextInFlight' \subseteq Key
    BY <1>6, <2>2 DEF Forward
  <2> QED
    BY <1>1, <1>6, <2>1, <2>2, <2>3 DEF Forward, portVars, wizardVars
<1> QED
  BY <1>2, <1>3, <1>4, <1>5, <1>6 DEF Operation

\* All but the last entry were in the cache, in this order.
ExtendsSuffixOf(kept, cache) ==
  \E d \in {0, 1} : \A i \in 1 .. (Len(kept) - 1) :
     i + d \in 1 .. Len(cache) /\ kept[i] = cache[i + d]

(***************************************************************************)
(* Keeping a response for repeated answers evicts the oldest one exactly   *)
(* when the cache is full, so the cache never outgrows MaxCached, and it   *)
(* holds nothing but what it held and the new response.                    *)
(***************************************************************************)
LEMMA RememberProperties ==
  ASSUME NEW cache \in Seq(Entry), NEW k \in Key,
         NEW m \in Response, m.ok, Len(cache) <= MaxCached,
         NEW kept, kept = RememberWizardNextResponse(cache, k, m)
  PROVE  /\ kept \in Seq(Entry)
         /\ Len(kept) \in 1 .. MaxCached
         /\ kept[Len(kept)] = [key |-> k, response |-> m]
         /\ ExtendsSuffixOf(kept, cache)
<1> DEFINE longer == Append(cache, [key |-> k, response |-> m])
<1>1. [key |-> k, response |-> m] \in Entry
  BY DEF Entry
<1>2. /\ longer \in Seq(Entry)
      /\ longer # <<>>
      /\ Len(longer) = Len(cache) + 1
      /\ \A i \in 1 .. Len(cache) : longer[i] = cache[i]
      /\ longer[Len(cache) + 1] = [key |-> k, response |-> m]
  BY <1>1, AppendProperties
<1>3. Len(cache) \in Nat /\ MaxCached \in Nat \ {0}
  BY MaxCachedAssumption, LenProperties
<1> HIDE DEF longer
<1>4. CASE Len(longer) > MaxCached
  <2>1. /\ Tail(longer) \in Seq(Entry)
        /\ Len(Tail(longer)) = Len(longer) - 1
        /\ \A i \in 1 .. Len(Tail(longer)) : Tail(longer)[i] = longer[i + 1]
    BY <1>2, HeadTailProperties
  <2>2. kept = Tail(longer)
    BY <1>4 DEF RememberWizardNextResponse, longer
  <2>3. Len(kept) = Len(cache)
    BY <1>2, <1>3, <2>1, <2>2
  <2>4. kept[Len(kept)] = [key |-> k, response |-> m]
    BY <1>2, <1>3, <1>4, <2>1, <2>2, <2>3
  <2>5. \A i \in 1 .. (Len(kept) - 1) :
          i + 1 \in 1 .. Len(cache) /\ kept[i] = cache[i + 1]
    BY <1>2, <1>3, <2>1, <2>2, <2>3
  <2>6. \E d \in {0, 1} : \A i \in 1 .. (Len(kept) - 1) :
          i + d \in 1 .. Len(cache) /\ kept[i] = cache[i + d]
    <3> WITNESS 1 \in {0, 1}
    <3> QED
      BY <2>5
  <2>7. Len(kept) \in 1 .. MaxCached
    BY <1>2, <1>3, <1>4, <2>3
  <2> QED
    BY <2>1, <2>2, <2>4, <2>6, <2>7 DEF ExtendsSuffixOf
<1>5. CASE ~(Len(longer) > MaxCached)
  <2>1. kept = longer
    BY <1>5 DEF RememberWizardNextResponse, longer
  <2>2. \A i \in 1 .. (Len(kept) - 1) :
          i + 0 \in 1 .. Len(cache) /\ kept[i] = cache[i + 0]
    BY <1>2, <1>3, <2>1
  <2>3. \E d \in {0, 1} : \A i \in 1 .. (Len(kept) - 1) :
          i + d \in 1 .. Len(cache) /\ kept[i] = cache[i + d]
    <3> WITNESS 0 \in {0, 1}
    <3> QED
      BY <2>2
  <2> QED
    BY <1>2, <1>3, <1>5, <2>1, <2>3 DEF ExtendsSuffixOf
<1> QED
  BY <1>4, <1>5

\* An accepted call's response carries a result.
LEMMA ResultType ==
  ASSUME NEW m \in Response, m.ok
  PROVE  m.result \in Result
BY DEF Response

\* The snapshot that a response leaves is a wizard of the session it leaves.
LEMMA RememberResultType ==
  ASSUME CoordinatorTypeOK, NEW m \in Response, RememberWizardResult(m)
  PROVE  /\ wizardSessionId' \in Session \cup {None}
         /\ wizardSnapshot' \in Result \cup {None}
<1>1. CASE Reports(m) /\ ~Cancels(m)
  <2>1. m.result \in Result
    BY <1>1, ResultType DEF Reports
  <2>2. wizardSessionId' \in Session \cup {None}
    BY <1>1, <2>1 DEF RememberWizardResult, CoordinatorTypeOK, Result
  <2>3. [m.result EXCEPT !.session = wizardSessionId'] \in Result
    BY <2>1, <2>2 DEF Result
  <2> QED
    BY <1>1, <2>2, <2>3 DEF RememberWizardResult
<1>2. CASE ~Reports(m) \/ Cancels(m)
  <2>1. Reports(m) => ~Cancels(m)
    BY DEF Reports, Cancels
  <2> QED
    BY <1>2, <2>1 DEF RememberWizardResult, CoordinatorTypeOK, wizardVars
<1> QED
  BY <1>1, <1>2

\* Whoever joined the call is a list of requests for each port.
LEMMA JoinedType ==
  ASSUME CoordinatorTypeOK, NEW m \in Response
  PROVE  /\ JoinedNext(m) \in [Tab -> Seq(Request)]
         /\ JoinedStart(m) \in [Tab -> Seq(Request)]
<1>1. NoWaiters \in [Tab -> Seq(Request)]
  BY EmptySeq DEF NoWaiters
<1>2. m.id \in Request
  BY DEF Response
<1> QED
  BY <1>1, <1>2 DEF CoordinatorTypeOK, JoinedNext, JoinedStart

\* Settling a call leaves well-typed keys, responses and waiters.
LEMMA SettleType ==
  ASSUME CoordinatorTypeOK, CacheIsExclusive, NEW m \in Response,
         SettleDeduplication(m), SettleStart(m)
  PROVE  /\ requestWizardNextKeys' \in [Request -> Key \cup {None}]
         /\ wizardNextInFlight' \subseteq Key
         /\ wizardNextResponseCache' \in Seq(Entry)
         /\ wizardNextWaiters' \in [Key -> [Tab -> Seq(Request)]]
         /\ wizardStartInFlight' \in BOOLEAN
         /\ wizardStartWaiters' \in [Tab -> Seq(Request)]
<1> USE DEF CoordinatorTypeOK
<1>1. NoWaiters \in [Tab -> Seq(Request)]
  BY EmptySeq DEF NoWaiters
<1>2. /\ requestWizardNextKeys' \in [Request -> Key \cup {None}]
      /\ wizardNextInFlight' \subseteq Key
  BY DEF SettleDeduplication, NoneTracked
<1>3. wizardNextWaiters' \in [Key -> [Tab -> Seq(Request)]]
  BY <1>1 DEF SettleDeduplication
<1>4. wizardNextResponseCache' \in Seq(Entry)
  <2> DEFINE k == requestWizardNextKeys[m.id]
             cache == IF ChangesSession(m) \/ Cancels(m) THEN <<>>
                      ELSE wizardNextResponseCache
  <2>1. wizardNextResponseCache' =
          IF k # None /\ m.ok THEN RememberWizardNextResponse(cache, k, m)
          ELSE cache
    BY DEF SettleDeduplication
  <2>2. cache \in Seq(Entry) /\ Len(cache) <= MaxCached
    BY EmptySeq, MaxCachedAssumption DEF CacheIsExclusive, Entry
  <2>3. k \in Key \cup {None}
    BY DEF Response
  <2> HIDE DEF k, cache
  <2>4. CASE k # None /\ m.ok
    BY <2>1, <2>2, <2>3, <2>4, RememberProperties
  <2>5. CASE ~ (k # None /\ m.ok)
    BY <2>1, <2>2, <2>5
  <2> QED
    BY <2>4, <2>5
<1>5. wizardStartInFlight' \in BOOLEAN
      /\ wizardStartWaiters' \in [Tab -> Seq(Request)]
  BY <1>1 DEF SettleStart, startVars
<1> QED
  BY <1>2, <1>3, <1>4, <1>5

\* Routing a response answers only with responses.
LEMMA RouteResponseType ==
  ASSUME CoordinatorTypeOK, CacheIsExclusive, NEW m \in Response,
         RouteResponse(m)
  PROVE  CoordinatorTypeOK'
<1> DEFINE out == [t \in Tab |->
             (IF t = requestOwners[m.id] THEN <<m>> ELSE <<>>)
             \o Answering(m, JoinedNext(m)[t])
             \o Answering(m, JoinedStart(m)[t])]
<1>1. Post(out)
  BY DEF RouteResponse
<1>2. out \in [Tab -> Seq(Message)]
  <2> SUFFICES ASSUME NEW t \in Tab
               PROVE  out[t] \in Seq(Message)
    OBVIOUS
  <2>1. (IF t = requestOwners[m.id] THEN <<m>> ELSE <<>>) \in Seq(Message)
    <3>1. m \in Message
      BY ResponseMessage
    <3> QED
      BY <3>1, EmptySeq
  <2>2. /\ Answering(m, JoinedNext(m)[t]) \in Seq(Message)
        /\ Answering(m, JoinedStart(m)[t]) \in Seq(Message)
    BY JoinedType, AnsweringType
  <2> QED
    BY <2>1, <2>2, ConcatProperties
<1>3. toTab' \in [Tab -> Seq(Message)]
  <2> HIDE DEF out
  <2> QED
    BY <1>1, <1>2, PostType DEF CoordinatorTypeOK
<1>4. /\ wizardSessionId' \in Session \cup {None}
      /\ wizardSnapshot' \in Result \cup {None}
  BY RememberResultType DEF RouteResponse
<1>5. /\ requestOwners' \in [Request -> Tab \cup {None}]
      /\ requestMethods' \in [Request -> Method \cup {None}]
  BY DEF RouteResponse, CoordinatorTypeOK
<1>6. SettleDeduplication(m) /\ SettleStart(m) /\ UNCHANGED portVars
  BY DEF RouteResponse
<1> QED
  BY <1>3, <1>4, <1>5, <1>6, SettleType DEF CoordinatorTypeOK, portVars, Entry

\* Output of a tab reaches the others as messages.
LEMMA OutputType ==
  ASSUME CoordinatorTypeOK, NEW p \in Tab,
         \/ \E m \in Response : BroadcastResponse(m)
         \/ GatewayReady(p)
         \/ IgnoreOutput(p)
         \/ Take(p)
  PROVE  CoordinatorTypeOK'
<1> USE DEF CoordinatorTypeOK
<1>1. ASSUME NEW m \in Response, BroadcastResponse(m)
      PROVE  CoordinatorTypeOK'
  <2>1. m \in Message
    BY ResponseMessage
  <2>2. [t \in Tab |-> <<m>>] \in [Tab -> Seq(Message)]
    BY <2>1
  <2>3. toTab' \in [Tab -> Seq(Message)]
    BY <1>1, <2>2, PostType DEF BroadcastResponse
  <2> QED
    BY <1>1, <2>3
    DEF BroadcastResponse, portVars, requestVars, dedupVars, startVars,
        wizardVars
<1>2. CASE GatewayReady(p)
  <2>1. \A t \in Tab : Ready(t) \in Message
    BY <1>2 DEF GatewayReady, Ready, Message
  <2>2. [t \in Tab |-> <<Ready(t)>>] \in [Tab -> Seq(Message)]
    BY <2>1
  <2>3. toTab' \in [Tab -> Seq(Message)]
    BY <1>2, <2>2, PostType DEF GatewayReady
  <2> QED
    BY <1>2, <2>3
    DEF GatewayReady, requestVars, dedupVars, startVars, wizardVars
<1>3. CASE IgnoreOutput(p)
  BY <1>3
  DEF IgnoreOutput, coordinatorVars, portVars, requestVars, dedupVars,
      startVars, wizardVars
<1>4. CASE Take(p)
  <2>1. Tail(toTab[p]) \in Seq(Message)
    BY <1>4, HeadTailProperties DEF Take
  <2>2. toTab' \in [Tab -> Seq(Message)]
    BY <1>4, <2>1 DEF Take
  <2> QED
    BY <1>4, <2>2
    DEF Take, portVars, requestVars, dedupVars, startVars, wizardVars
<1> QED
  BY <1>1, <1>2, <1>3, <1>4

-----------------------------------------------------------------------------
(***************************************************************************)
(* CoordinatorInv, handler by handler.                                     *)
(***************************************************************************)
IInv == CoordinatorTypeOK /\ CoordinatorInv

\* The worker starts with nothing in flight, nobody waiting, nothing kept.
LEMMA InitInv == CoordinatorInit => CoordinatorInv
<1> SUFFICES ASSUME CoordinatorInit PROVE CoordinatorInv
  OBVIOUS
<1>1. Len(wizardNextResponseCache) = 0 /\ CachedKeys = {}
  BY EmptySeq DEF CoordinatorInit, CachedKeys
<1> QED
  BY <1>1, NoneIsNoKey, MaxCachedAssumption
  DEF CoordinatorInit, CoordinatorInv, NoneTracked, NoWaiters, Method,
      OwnerIsConnected, StartInFlightIsTracked, NextInFlightIsTracked,
      WaitersHaveALeader, CacheIsExclusive, SnapshotOfLiveSession

\* A handler that tracks no call only has to keep the owner connected.
LEMMA FrameInv ==
  ASSUME CoordinatorInv, OwnerIsConnected',
         UNCHANGED <<requestMethods, dedupVars, startVars, wizardVars>>
  PROVE  CoordinatorInv'
BY DEF CoordinatorInv, dedupVars, startVars, wizardVars, CachedKeys,
       StartInFlightIsTracked, NextInFlightIsTracked, WaitersHaveALeader,
       CacheIsExclusive, SnapshotOfLiveSession

\* Tabs join, ask for the runtime, and are told of the Gateway.
LEMMA ConnectInv ==
  ASSUME IInv, NEW p \in Tab, Connect(p)
  PROVE  CoordinatorInv'
<1>1. OwnerIsConnected'
  BY NoneAssumption
  DEF IInv, CoordinatorTypeOK, CoordinatorInv, OwnerIsConnected, Connect,
      requestVars
<1> QED
  BY <1>1, FrameInv DEF IInv, Connect, requestVars

\* The election leaves an owner exactly while a port is left.
LEMMA ChooseOwnerConnected ==
  ASSUME ports' \subseteq Tab, ChooseOwner
  PROVE  /\ owner' = None <=> ports' = {}
         /\ owner' # None => owner' \in ports'
BY NoneAssumption DEF ChooseOwner

(***************************************************************************)
(* When the owner goes, everything it was working on is forgotten with it; *)
(* when a follower goes, what it asked for stays in flight.                *)
(***************************************************************************)
LEMMA DisconnectInv ==
  ASSUME IInv, NEW p \in Tab, Disconnect(p)
  PROVE  CoordinatorInv'
<1>1. CASE DisconnectOwner(p)
  <2>1. ports' \subseteq Tab /\ ChooseOwner
    BY <1>1 DEF DisconnectOwner, IInv, CoordinatorTypeOK
  <2>2. OwnerIsConnected'
    BY <1>1, <2>1, ChooseOwnerConnected
    DEF DisconnectOwner, OwnerIsConnected, NoneTracked
  <2>3. StartInFlightIsTracked' /\ NextInFlightIsTracked'
    BY <1>1, NoneIsNoKey
    DEF DisconnectOwner, ClearWizardNextDeduplication, NoneTracked,
        StartInFlightIsTracked, NextInFlightIsTracked, Method
  <2>4. WaitersHaveALeader'
    BY <1>1
    DEF DisconnectOwner, ClearWizardNextDeduplication, WaitersHaveALeader,
        NoWaiters
  <2>5. CacheIsExclusive'
    BY <1>1, EmptySeq, MaxCachedAssumption
    DEF DisconnectOwner, ClearWizardNextDeduplication, CacheIsExclusive,
        CachedKeys
  <2>6. SnapshotOfLiveSession'
    BY <1>1 DEF DisconnectOwner, SnapshotOfLiveSession
  <2> QED
    BY <2>2, <2>3, <2>4, <2>5, <2>6 DEF CoordinatorInv
<1>2. CASE DisconnectFollower(p)
  <2>1. OwnerIsConnected'
    BY <1>2
    DEF DisconnectFollower, Disconnect, OwnerIsConnected, IInv,
        CoordinatorInv, CoordinatorTypeOK
  <2> QED
    BY <1>2, <2>1, FrameInv DEF DisconnectFollower, IInv
<1> QED
  BY <1>1, <1>2 DEF Disconnect

(***************************************************************************)
(* An answer already given is not forwarded again, a call that joins has a *)
(* leader, and a forwarded call is the only one of its kind in flight.     *)
(***************************************************************************)
LEMMA ForwardInv ==
  ASSUME IInv, NEW p \in Tab, p \in ports, NEW c \in Call, ~Tracked(c.id),
         Forward(p, c)
  PROVE  CoordinatorInv'
<1> USE DEF IInv, CoordinatorTypeOK, CoordinatorInv
<1>1. c.id \in Request /\ c.method \in Method \cup {None}
  BY DEF Call
<1>2. requestMethods[c.id] = None /\ requestWizardNextKeys[c.id] = None
  BY <1>1, NoneIsNoKey DEF Tracked, NextInFlightIsTracked, Method
<1>3. WizardNextKey(c) \in Key \cup {None}
  BY WizardNextKeyType
<1>4. WizardNextKey(c) # None => c.method = "wizard.next"
  BY DEF WizardNextKey
<1>5. OwnerIsConnected'
  BY <1>1 DEF Forward, OwnerIsConnected, portVars
<1>6. StartInFlightIsTracked'
  BY <1>1, <1>2, NoneIsNoKey DEF Forward, StartInFlightIsTracked, Method
<1>7. NextInFlightIsTracked'
  <2>1. \A r \in Request :
          /\ r # c.id => /\ requestWizardNextKeys'[r] = requestWizardNextKeys[r]
                         /\ requestMethods'[r] = requestMethods[r]
          /\ r = c.id => /\ requestWizardNextKeys'[r] = WizardNextKey(c)
                         /\ requestMethods'[r] = c.method
    BY DEF Forward
  <2>2. /\ wizardNextInFlight' = wizardNextInFlight
                                   \cup ({WizardNextKey(c)} \ {None})
        /\ WizardNextKey(c) \notin wizardNextInFlight
    BY DEF Forward
  <2>3. NextInFlightIsTracked
    OBVIOUS
  <2>4. ASSUME NEW k \in wizardNextInFlight'
        PROVE  \E r \in Request : requestWizardNextKeys'[r] = k
    <3>1. CASE k = WizardNextKey(c)
      BY <1>1, <2>1, <3>1
    <3>2. CASE k \in wizardNextInFlight
      <4>1. PICK r \in Request : requestWizardNextKeys[r] = k
        BY <2>3, <3>2 DEF NextInFlightIsTracked
      <4>2. r # c.id
        BY <1>2, <3>2, <4>1, NoneIsNoKey
      <4> QED
        BY <2>1, <4>1, <4>2
    <3> QED
      BY <2>2, <3>1, <3>2
  <2>5. ASSUME NEW r \in Request, requestWizardNextKeys'[r] # None
        PROVE  /\ requestWizardNextKeys'[r] \in wizardNextInFlight'
               /\ requestMethods'[r] = "wizard.next"
    BY <1>3, <1>4, <2>1, <2>2, <2>3, <2>5 DEF NextInFlightIsTracked
  <2>6. ASSUME NEW r \in Request, NEW s \in Request,
               requestWizardNextKeys'[r] # None,
               requestWizardNextKeys'[r] = requestWizardNextKeys'[s]
        PROVE  r = s
    <3>1. \A q \in Request : requestWizardNextKeys[q] # None
            => requestWizardNextKeys[q] \in wizardNextInFlight
      BY <2>3 DEF NextInFlightIsTracked
    <3>2. CASE r = c.id \/ s = c.id
      BY <2>1, <2>2, <2>6, <3>1, <3>2
    <3>3. CASE r # c.id /\ s # c.id
      BY <2>1, <2>3, <2>6, <3>3 DEF NextInFlightIsTracked
    <3> QED
      BY <3>2, <3>3
  <2> QED
    BY <2>4, <2>5, <2>6 DEF NextInFlightIsTracked
<1>8. WaitersHaveALeader'
  BY DEF Forward, WaitersHaveALeader
<1>9. CacheIsExclusive'
  BY SMTT(30) DEF Forward, CacheIsExclusive, CachedKeys
<1>10. SnapshotOfLiveSession'
  BY DEF Forward, SnapshotOfLiveSession, wizardVars
<1> QED
  BY <1>5, <1>6, <1>7, <1>8, <1>9, <1>10

\* A call that joins another changes nothing but who waits.
LEMMA MembersUnchanged ==
  ASSUME CoordinatorInv,
         UNCHANGED <<ports, owner, requestOwners, requestMethods,
                     requestWizardNextKeys, wizardNextInFlight,
                     wizardNextResponseCache, wizardStartInFlight,
                     wizardSessionId, wizardSnapshot>>
  PROVE  /\ OwnerIsConnected' /\ StartInFlightIsTracked'
         /\ NextInFlightIsTracked' /\ CacheIsExclusive'
         /\ SnapshotOfLiveSession'
<1>1. OwnerIsConnected' /\ SnapshotOfLiveSession'
  BY DEF CoordinatorInv, OwnerIsConnected, SnapshotOfLiveSession
<1>2. StartInFlightIsTracked' /\ NextInFlightIsTracked'
  BY DEF CoordinatorInv, StartInFlightIsTracked, NextInFlightIsTracked
<1>3. CacheIsExclusive'
  BY DEF CoordinatorInv, CacheIsExclusive, CachedKeys
<1> QED
  BY <1>1, <1>2, <1>3

\* The same for the calls that are not forwarded.
LEMMA OperationInv ==
  ASSUME IInv, NEW p \in Tab, NEW c \in Call, ~Tracked(c.id), Operation(p, c)
  PROVE  CoordinatorInv'
<1>1. CASE AnswerFromCache(p, c) \/ AnswerFromSnapshot(p, c)
  <2>1. UNCHANGED <<portVars, requestVars, dedupVars, startVars, wizardVars>>
    BY <1>1 DEF AnswerFromCache, AnswerFromSnapshot
  <2>2. OwnerIsConnected'
    BY <2>1 DEF IInv, CoordinatorInv, OwnerIsConnected, portVars, requestVars
  <2> QED
    BY <2>1, <2>2, FrameInv DEF IInv, requestVars
<1>2. CASE JoinWizardNext(p, c)
  <2>1. UNCHANGED <<ports, owner, requestOwners, requestMethods,
                    requestWizardNextKeys, wizardNextInFlight,
                    wizardNextResponseCache, wizardStartInFlight,
                    wizardSessionId, wizardSnapshot>>
    BY <1>2 DEF JoinWizardNext, portVars, requestVars, startVars, wizardVars
  <2>2. WaitersHaveALeader'
    BY <1>2 DEF IInv, CoordinatorInv, CoordinatorTypeOK, JoinWizardNext,
       WaitersHaveALeader, startVars
  <2> QED
    BY <2>1, <2>2, MembersUnchanged DEF IInv, CoordinatorInv
<1>3. CASE JoinWizardStart(p, c)
  <2>1. UNCHANGED <<ports, owner, requestOwners, requestMethods,
                    requestWizardNextKeys, wizardNextInFlight,
                    wizardNextResponseCache, wizardStartInFlight,
                    wizardSessionId, wizardSnapshot>>
    BY <1>3 DEF JoinWizardStart, portVars, requestVars, dedupVars, wizardVars
  <2>2. WaitersHaveALeader'
    BY <1>3 DEF IInv, CoordinatorInv, CoordinatorTypeOK, JoinWizardStart,
       WaitersHaveALeader, dedupVars
  <2> QED
    BY <2>1, <2>2, MembersUnchanged DEF IInv, CoordinatorInv
<1>4. CASE Forward(p, c)
  BY <1>4, ForwardInv DEF Operation
<1> QED
  BY <1>1, <1>2, <1>3, <1>4 DEF Operation

(***************************************************************************)
(* A response settles exactly the call it answers: the flag or key of that *)
(* call is cleared, every other stays with the request that stands for it. *)
(***************************************************************************)
LEMMA RouteResponseInv ==
  ASSUME IInv, NEW m \in Response, RouteResponse(m)
  PROVE  CoordinatorInv'
<1> USE DEF IInv, CoordinatorTypeOK, CoordinatorInv
<1> DEFINE k == requestWizardNextKeys[m.id]
           forget == ChangesSession(m) \/ Cancels(m)
           cache == IF forget THEN <<>> ELSE wizardNextResponseCache
<1>1. m.id \in Request
  BY DEF Response
<1>2. \A r \in Request :
        /\ r # m.id => requestMethods'[r] = requestMethods[r]
        /\ r = m.id => requestMethods'[r] = None
        /\ requestOwners'[r] # None => requestOwners'[r] = requestOwners[r]
  BY <1>1 DEF RouteResponse
<1>3. OwnerIsConnected'
  BY <1>2 DEF RouteResponse, OwnerIsConnected, portVars
<1>4. StartInFlightIsTracked'
  BY <1>1, <1>2, NoneIsNoKey
  DEF RouteResponse, SettleStart, StartInFlightIsTracked, startVars, Method
<1>5. k # None => k \in wizardNextInFlight \ CachedKeys
  BY <1>1 DEF NextInFlightIsTracked, CacheIsExclusive
<1>6. NextInFlightIsTracked'
  <2>1. CASE forget
    BY <1>2, <2>1, NoneIsNoKey
    DEF RouteResponse, SettleDeduplication, NoneTracked, NextInFlightIsTracked
  <2>2. CASE ~forget
    <3>1. /\ wizardNextInFlight' = wizardNextInFlight \ {k}
          /\ \A r \in Request :
               /\ r # m.id => requestWizardNextKeys'[r]
                                = requestWizardNextKeys[r]
               /\ r = m.id => requestWizardNextKeys'[r] = None
      BY <1>1, <2>2 DEF RouteResponse, SettleDeduplication
    <3>2. ASSUME NEW j \in wizardNextInFlight'
          PROVE  \E r \in Request : requestWizardNextKeys'[r] = j
      <4>1. PICK r \in Request : requestWizardNextKeys[r] = j
        BY <3>1, <3>2 DEF NextInFlightIsTracked
      <4> QED
        BY <3>1, <3>2, <4>1
    <3>3. ASSUME NEW r \in Request, requestWizardNextKeys'[r] # None
          PROVE  /\ requestWizardNextKeys'[r] \in wizardNextInFlight'
                 /\ requestMethods'[r] = "wizard.next"
      <4>1. r # m.id /\ requestWizardNextKeys[r] # None
        BY <3>1, <3>3
      <4>2. requestWizardNextKeys[r] # k
        BY <1>1, <4>1 DEF NextInFlightIsTracked
      <4> QED
        BY <1>2, <3>1, <4>1, <4>2 DEF NextInFlightIsTracked
    <3>4. ASSUME NEW r \in Request, NEW s \in Request,
                 requestWizardNextKeys'[r] # None,
                 requestWizardNextKeys'[r] = requestWizardNextKeys'[s]
          PROVE  r = s
      BY <3>1, <3>4 DEF NextInFlightIsTracked
    <3> QED
      BY <3>2, <3>3, <3>4 DEF NextInFlightIsTracked
  <2> QED
    BY <2>1, <2>2
<1>7. WaitersHaveALeader'
  <2>1. wizardStartWaiters' # NoWaiters => wizardStartInFlight'
    BY DEF RouteResponse, SettleStart, startVars, WaitersHaveALeader
  <2>2. \A j \in Key : wizardNextWaiters'[j] # NoWaiters
                         => j \in wizardNextInFlight'
    BY DEF RouteResponse, SettleDeduplication, WaitersHaveALeader
  <2> QED
    BY <2>1, <2>2 DEF WaitersHaveALeader
<1>8. CacheIsExclusive'
  <2>1. wizardNextResponseCache' =
          IF k # None /\ m.ok THEN RememberWizardNextResponse(cache, k, m)
          ELSE cache
    BY DEF RouteResponse, SettleDeduplication
  <2>2. /\ cache \in Seq(Entry)
        /\ Len(cache) <= MaxCached
        /\ \A i, j \in 1 .. Len(cache) : cache[i].key = cache[j].key => i = j
        /\ \A i \in 1 .. Len(cache) : /\ cache[i].key \notin wizardNextInFlight
                                      /\ k # None => cache[i].key # k
    <3>1. CASE forget
      BY <3>1, EmptySeq, MaxCachedAssumption
    <3>2. CASE ~forget
      BY <1>5, <3>2 DEF CacheIsExclusive, CachedKeys, Entry
    <3> QED
      BY <3>1, <3>2
  <2>3. wizardNextInFlight' \subseteq wizardNextInFlight \ {k}
    BY DEF RouteResponse, SettleDeduplication
  <2>4. CASE k # None /\ m.ok
    <3>1. k \in Key
      BY <1>1, <2>4
    <3> DEFINE kept == wizardNextResponseCache'
    <3>2. /\ kept \in Seq(Entry)
          /\ Len(kept) \in 1 .. MaxCached
          /\ kept[Len(kept)] = [key |-> k, response |-> m]
          /\ ExtendsSuffixOf(kept, cache)
      <4>1. kept = RememberWizardNextResponse(cache, k, m)
        BY <2>1, <2>4
      <4> HIDE DEF k, cache, kept
      <4> QED
        BY <2>2, <2>4, <3>1, <4>1, RememberProperties
    <3> HIDE DEF k, cache, kept
    <3>3. PICK d \in {0, 1} : \A i \in 1 .. (Len(kept) - 1) :
            i + d \in 1 .. Len(cache) /\ kept[i] = cache[i + d]
      BY <3>2 DEF ExtendsSuffixOf
    <3>4. kept[Len(kept)].key = k
      BY <3>2
    <3>5. \A i \in 1 .. Len(kept) : i # Len(kept) =>
            /\ i + d \in 1 .. Len(cache)
            /\ kept[i] = cache[i + d]
            /\ kept[i].key # k
            /\ kept[i].key \notin wizardNextInFlight
      BY <2>2, <2>4, <3>2, <3>3
    <3>6. \A i, j \in 1 .. Len(kept) : kept[i].key = kept[j].key => i = j
      <4> SUFFICES ASSUME NEW i \in 1 .. Len(kept), NEW j \in 1 .. Len(kept),
                          kept[i].key = kept[j].key
                   PROVE  i = j
        OBVIOUS
      <4>1. CASE i = Len(kept) \/ j = Len(kept)
        BY <3>4, <3>5, <4>1
      <4>2. CASE i # Len(kept) /\ j # Len(kept)
        <5>1. i + d = j + d
          BY <2>2, <3>5, <4>2
        <5> QED
          BY <3>2, <5>1
      <4> QED
        BY <4>1, <4>2
    <3>7. \A i \in 1 .. Len(kept) : kept[i].key \notin wizardNextInFlight'
      BY <2>3, <3>4, <3>5
    <3>8. Len(kept) <= MaxCached
      BY <3>2, MaxCachedAssumption
    <3> QED
      BY <3>6, <3>7, <3>8 DEF CacheIsExclusive, CachedKeys, kept
  <2>5. CASE ~(k # None /\ m.ok)
    <3>1. wizardNextResponseCache' = cache
      BY <2>1, <2>5
    <3> HIDE DEF k, cache
    <3> QED
      BY <2>2, <2>3, <3>1 DEF CacheIsExclusive, CachedKeys
  <2> QED
    BY <2>4, <2>5
<1>9. SnapshotOfLiveSession'
  <2>1. RememberWizardResult(m)
    BY DEF RouteResponse
  <2>2. CASE Reports(m)
    <3>1. m.result \in Result /\ ~Cancels(m)
      BY <2>2, ResultType DEF Reports, Cancels
    <3>2. wizardSessionId' \in Session \cup {None}
      BY <2>1, RememberResultType
    <3>3. wizardSnapshot' = [m.result EXCEPT !.session = wizardSessionId']
      BY <2>1, <2>2, <3>1 DEF RememberWizardResult
    <3>4. wizardSnapshot'.session = wizardSessionId' /\ wizardSnapshot' # None
      BY <3>1, <3>2, <3>3, NoneIsNoKey DEF Result
    <3> QED
      BY <3>4 DEF SnapshotOfLiveSession
  <2>3. CASE ~Reports(m)
    BY <2>1, <2>3
    DEF RememberWizardResult, SnapshotOfLiveSession, wizardVars
  <2> QED
    BY <2>2, <2>3
<1> QED
  BY <1>3, <1>4, <1>6, <1>7, <1>8, <1>9

(***************************************************************************)
(* The remaining output of a tab tracks nothing and settles nothing.       *)
(***************************************************************************)
LEMMA OutputInv ==
  ASSUME IInv, NEW p \in Tab,
         \/ RuntimeStart(p)
         \/ \E m \in Response : BroadcastResponse(m)
         \/ GatewayReady(p)
         \/ IgnoreOutput(p)
         \/ Take(p)
  PROVE  CoordinatorInv'
<1>1. /\ UNCHANGED <<requestVars, dedupVars, startVars, wizardVars>>
      /\ UNCHANGED <<ports, owner>>
  BY DEF RuntimeStart, BroadcastResponse, GatewayReady, IgnoreOutput, Take,
         coordinatorVars, portVars
<1>2. OwnerIsConnected'
  BY <1>1 DEF IInv, CoordinatorInv, OwnerIsConnected, requestVars
<1> QED
  BY <1>1, <1>2, FrameInv DEF IInv, requestVars

-----------------------------------------------------------------------------
(***************************************************************************)
(* The invariant is inductive.  A step by step proof needs the types, the  *)
(* bound of the cache, and the uniqueness of keys and starts in flight:    *)
(* without the last, settling one call would settle another one's flag.    *)
(***************************************************************************)
LEMMA Inductive == IInv /\ [CoordinatorNext]_coordinatorVars => IInv'
<1> SUFFICES ASSUME IInv, [CoordinatorNext]_coordinatorVars
             PROVE  IInv'
  OBVIOUS
<1>1. CoordinatorTypeOK /\ CacheIsExclusive
  BY DEF IInv, CoordinatorInv
<1>2. CASE UNCHANGED coordinatorVars
  BY <1>2
  DEF IInv, CoordinatorTypeOK, CoordinatorInv, OwnerIsConnected,
      StartInFlightIsTracked, NextInFlightIsTracked, WaitersHaveALeader,
      CacheIsExclusive, SnapshotOfLiveSession, CachedKeys, coordinatorVars,
      portVars, requestVars, dedupVars, startVars, wizardVars
<1>3. ASSUME NEW p \in Tab, PortStep(p)
      PROVE  IInv'
  <2>1. CASE Connect(p)
    BY <1>1, <2>1, ConnectType, ConnectInv DEF IInv
  <2>2. CASE Disconnect(p)
    BY <1>1, <2>2, DisconnectType, DisconnectInv DEF IInv
  <2>3. CASE RuntimeStart(p)
    BY <1>1, <2>3, RuntimeStartType, OutputInv DEF IInv
  <2>4. ASSUME NEW c \in Call, ~Tracked(c.id), Operation(p, c)
        PROVE  IInv'
    BY <1>1, <2>4, OperationType, OperationInv DEF IInv
  <2>5. ASSUME NEW m \in Response, OwnerResponse(p, m)
        PROVE  IInv'
    <3>1. CASE RouteResponse(m)
      BY <1>1, <3>1, RouteResponseType, RouteResponseInv DEF IInv
    <3>2. CASE BroadcastResponse(m)
      BY <1>1, <3>2, OutputType, OutputInv DEF IInv
    <3> QED
      BY <2>5, <3>1, <3>2 DEF OwnerResponse
  <2>6. CASE GatewayReady(p) \/ IgnoreOutput(p) \/ Take(p)
    BY <1>1, <2>6, OutputType, OutputInv DEF IInv
  <2> QED
    BY <1>3, <2>1, <2>2, <2>3, <2>4, <2>5, <2>6 DEF PortStep
<1> QED
  BY <1>2, <1>3 DEF CoordinatorNext

(***************************************************************************)
(* Whatever the tabs post to the coordinator, its owner is connected,      *)
(* every call in flight has the one request whose response settles it,     *)
(* nobody waits without a leader, the response cache stays bounded and     *)
(* disjoint from the calls in flight, and the snapshot belongs to the live *)
(* session.                                                                *)
(***************************************************************************)
THEOREM CoordinatorConsistent == CoordinatorSpec => []CoordinatorInv
<1>1. CoordinatorInit => IInv
  BY InitType, InitInv DEF IInv
<1>2. IInv => CoordinatorInv
  BY DEF IInv
<1> QED
  BY <1>1, <1>2, Inductive, PTL DEF CoordinatorSpec

(***************************************************************************)
(* The coordinator's variables keep their types: every port is posted only *)
(* messages, and waiters, keys and responses are what the handlers expect. *)
(***************************************************************************)
THEOREM CoordinatorTypeCorrect == CoordinatorSpec => []CoordinatorTypeOK
<1>1. CoordinatorInit => IInv
  BY InitType, InitInv DEF IInv
<1>2. IInv => CoordinatorTypeOK
  BY DEF IInv
<1> QED
  BY <1>1, <1>2, Inductive, PTL DEF CoordinatorSpec

-----------------------------------------------------------------------------
(***************************************************************************)
(* The coordinator among the tabs.                                         *)
(***************************************************************************)
\* A call on its way to the worker is the only one with its identifier, and
\* the worker does not track it yet.
TrackedIsIssued ==
  \A r \in Request : Tracked(r) => callOf[r] # None

TransitIsUntracked ==
  \A t \in Tab : \A i \in 1 .. Len(toWorker[t]) :
    toWorker[t][i].type = "operation" =>
      /\ callOf[toWorker[t][i].call.id] # None
      /\ ~Tracked(toWorker[t][i].call.id)

TransitIsUnique ==
  \A t, u \in Tab :
    \A i \in 1 .. Len(toWorker[t]), j \in 1 .. Len(toWorker[u]) :
      /\ toWorker[t][i].type = "operation"
      /\ toWorker[u][j].type = "operation"
      /\ toWorker[t][i].call.id = toWorker[u][j].call.id
      => t = u /\ i = j

OperationsAreNew == TrackedIsIssued /\ TransitIsUntracked /\ TransitIsUnique

\* Whoever runs the runtime, knows that it is the owner or is about to be
\* told is the coordinator's owner: a tab says goodbye only when it has
\* stopped its runtime, and ownership moves only then.
OwnershipIsKnown ==
  \A t \in Tab :
    /\ \A i \in 1 .. Len(toWorker[t]) :
         toWorker[t][i].type = "disconnect" => page[t] = "gone"
    /\ page[t] = "gone" => runtime[t] = "off" /\ ~sharedRuntimeOwner[t]
    /\ \A i \in 1 .. Len(toTab[t]) : toTab[t][i].type = "owner" => t = owner
    /\ sharedRuntimeOwner[t] => t = owner
    /\ runtime[t] # "off" => t = owner

RuntimeInv ==
  TypeOK /\ CoordinatorInv /\ OperationsAreNew /\ OwnershipIsKnown

-----------------------------------------------------------------------------
(***************************************************************************)
(* Channels.                                                               *)
(***************************************************************************)
\* What a channel holds after something was posted to it.
LEMMA Submitted ==
  ASSUME toWorker \in [Tab -> Seq(InTransit)], NEW t \in Tab,
         NEW m \in InTransit, Submit(t, m)
  PROVE  /\ toWorker' \in [Tab -> Seq(InTransit)]
         /\ \A u \in Tab : \A i \in 1 .. Len(toWorker'[u]) :
              \/ i \in 1 .. Len(toWorker[u]) /\ toWorker'[u][i] = toWorker[u][i]
              \/ u = t /\ i = Len(toWorker[t]) + 1 /\ toWorker'[u][i] = m
<1>1. /\ toWorker'[t] = Append(toWorker[t], m)
      /\ \A u \in Tab \ {t} : toWorker'[u] = toWorker[u]
      /\ toWorker' \in [Tab -> Seq(InTransit)]
  BY AppendProperties DEF Submit
<1>2. /\ Len(Append(toWorker[t], m)) = Len(toWorker[t]) + 1
      /\ Len(toWorker[t]) \in Nat
      /\ \A i \in 1 .. Len(toWorker[t]) :
           Append(toWorker[t], m)[i] = toWorker[t][i]
      /\ Append(toWorker[t], m)[Len(toWorker[t]) + 1] = m
  BY AppendProperties, LenProperties
<1>3. ASSUME NEW u \in Tab, NEW i \in 1 .. Len(toWorker'[u])
      PROVE  \/ i \in 1 .. Len(toWorker[u]) /\ toWorker'[u][i] = toWorker[u][i]
             \/ u = t /\ i = Len(toWorker[t]) + 1 /\ toWorker'[u][i] = m
  <2>1. CASE u = t
    <3>1. i \in 1 .. Len(toWorker[t]) \/ i = Len(toWorker[t]) + 1
      BY <1>1, <1>2, <1>3, <2>1
    <3> QED
      BY <1>1, <1>2, <2>1, <3>1
  <2>2. CASE u # t
    BY <1>1, <1>3, <2>2
  <2> QED
    BY <2>1, <2>2
<1> QED
  BY <1>1, <1>3

\* What a channel holds after its first message was taken.
LEMMA Received ==
  ASSUME toWorker \in [Tab -> Seq(InTransit)], NEW t \in Tab,
         toWorker[t] # <<>>, toWorker' = [toWorker EXCEPT ![t] = Tail(@)]
  PROVE  /\ toWorker' \in [Tab -> Seq(InTransit)]
         /\ Head(toWorker[t]) = toWorker[t][1] /\ 1 \in 1 .. Len(toWorker[t])
         /\ Head(toWorker[t]) \in InTransit
         /\ \A u \in Tab : \A i \in 1 .. Len(toWorker'[u]) :
              \/ /\ u # t /\ i \in 1 .. Len(toWorker[u])
                 /\ toWorker'[u][i] = toWorker[u][i]
              \/ /\ u = t /\ i + 1 \in 1 .. Len(toWorker[t]) /\ i \in Nat \ {0}
                 /\ toWorker'[u][i] = toWorker[t][i + 1]
<1>1. /\ toWorker'[t] = Tail(toWorker[t])
      /\ \A u \in Tab \ {t} : toWorker'[u] = toWorker[u]
      /\ toWorker[t] \in Seq(InTransit)
  OBVIOUS
<1>2. /\ Head(toWorker[t]) \in InTransit
      /\ Tail(toWorker[t]) \in Seq(InTransit)
      /\ Len(Tail(toWorker[t])) = Len(toWorker[t]) - 1
      /\ \A i \in 1 .. Len(Tail(toWorker[t])) :
           Tail(toWorker[t])[i] = toWorker[t][i + 1]
  BY <1>1, HeadTailProperties
<1>3. Len(toWorker[t]) \in Nat \ {0} /\ Head(toWorker[t]) = toWorker[t][1]
  BY <1>1, EmptySeq
<1>4. toWorker' \in [Tab -> Seq(InTransit)]
  BY <1>1, <1>2
<1> QED
  BY <1>1, <1>2, <1>3, <1>4

\* The messages a tab posts.
LEMMA InTransitMessages ==
  /\ \A type \in {"disconnect", "start", "ready"} : [type |-> type] \in InTransit
  /\ \A c \in Call : [type |-> "operation", call |-> c] \in InTransit
  /\ Response \subseteq InTransit
  /\ \A m \in InTransit : /\ m.type = "operation" => m.call \in Call
                          /\ m.type = "response" => m \in Response
BY DEF InTransit, Response

\* An identifier is drawn among the unused ones.
LEMMA FreshIsUnused ==
  ASSUME NEW S, NEW used \in SUBSET S, used # S
  PROVE  Fresh(S, used) \in S \ used
BY DEF Fresh

-----------------------------------------------------------------------------
(***************************************************************************)
(* Every step is one of the coordinator's or leaves it alone.              *)
(***************************************************************************)
LEMMA StepIsCoordinators ==
  ASSUME TypeOK, OperationsAreNew, [Next]_vars
  PROVE  [CoordinatorNext]_coordinatorVars
<1>1. CASE UNCHANGED vars
  BY <1>1 DEF vars
<1>2. ASSUME NEW t \in Tab,
             \/ Open(t) \/ Close(t) \/ Crash(t) \/ StartOnboardingRuntime(t)
             \/ PostRuntimeRequest(t) \/ BootSucceeds(t) \/ BootFails(t)
             \/ RunOperation(t)
      PROVE  UNCHANGED coordinatorVars
  BY <1>2
  DEF Open, Close, Crash, StopRuntime, StartOnboardingRuntime,
      PostRuntimeRequest, BootSucceeds, BootFails, RunOperation
<1>3. ASSUME NEW t \in Tab, WorkerConnect(t)
      PROVE  CoordinatorNext
  BY <1>3 DEF WorkerConnect, CoordinatorNext, PortStep
<1>4. ASSUME NEW t \in Tab, WorkerReceive(t)
      PROVE  CoordinatorNext
  <2> DEFINE m == Head(toWorker[t])
  <2>1. /\ m \in InTransit /\ m = toWorker[t][1]
        /\ 1 \in 1 .. Len(toWorker[t])
    BY <1>4, Received DEF TypeOK, WorkerReceive
  <2>2. m.type = "operation" => m.call \in Call /\ ~Tracked(m.call.id)
    BY <2>1, InTransitMessages DEF OperationsAreNew, TransitIsUntracked
  <2>3. m.type = "response" => m \in Response
    BY <2>1, InTransitMessages
  <2>4. \/ m.type = "disconnect" /\ Disconnect(t)
        \/ m.type = "start" /\ RuntimeStart(t)
        \/ m.type = "operation" /\ Operation(t, m.call)
        \/ m.type = "response" /\ OwnerResponse(t, m)
        \/ m.type = "ready" /\ GatewayReady(t)
        \/ m.type \in {"response", "ready"} /\ IgnoreOutput(t)
    BY <1>4 DEF WorkerReceive
  <2> HIDE DEF m
  <2>5. PortStep(t)
    BY <2>2, <2>3, <2>4 DEF PortStep
  <2> QED
    BY <2>5 DEF CoordinatorNext
<1>5. ASSUME NEW t \in Tab, TabReceive(t)
      PROVE  CoordinatorNext
  BY <1>5 DEF TabReceive, CoordinatorNext, PortStep
<1> QED
  BY <1>1, <1>2, <1>3, <1>4, <1>5 DEF Next

-----------------------------------------------------------------------------
(***************************************************************************)
(* Types.  What a page, an iframe or a runtime does keeps its own          *)
(* variables' types; the coordinator's are proved above.                   *)
(***************************************************************************)
LEMMA RuntimeTypeInit == Init => TypeOK
<1>1. <<>> \in Seq(InTransit) /\ <<>> \in Seq(Call) /\ NoWizard \in Result
  BY EmptySeq DEF NoWizard, Result
<1> QED
  BY <1>1, InitType DEF Init, TypeOK, NoneTracked

\* A message of a tab's channel.
LEMMA TabMessages ==
  ASSUME CoordinatorTypeOK, NEW t \in Tab, toTab[t] # <<>>
  PROVE  LET m == Head(toTab[t])
         IN  /\ m \in Message
             /\ m = toTab[t][1] /\ 1 \in 1 .. Len(toTab[t])
             /\ m.type = "owner-input" => m.call \in Call
             /\ m.type = "response" => m \in Response
<1>1. toTab[t] \in Seq(Message)
  BY DEF CoordinatorTypeOK
<1>2. Head(toTab[t]) \in Message
  BY <1>1, HeadTailProperties
<1>3. Head(toTab[t]) = toTab[t][1] /\ 1 \in 1 .. Len(toTab[t])
  BY <1>1, EmptySeq
<1> QED
  BY <1>2, <1>3 DEF Message, Response

LEMMA TabTypes ==
  ASSUME TypeOK, NEW t \in Tab,
         Open(t) \/ Close(t) \/ Crash(t) \/ StartOnboardingRuntime(t)
         \/ BootSucceeds(t) \/ BootFails(t),
         CoordinatorTypeOK'
  PROVE  TypeOK'
<1> USE DEF TypeOK, coordinatorVars, pageVars, runtimeVars, gatewayVars
<1>1. \A type \in {"disconnect", "start", "ready"} :
        Submit(t, [type |-> type]) => toWorker' \in [Tab -> Seq(InTransit)]
  BY InTransitMessages, Submitted
<1>2. CASE Open(t)
  BY <1>2 DEF Open
<1>3. CASE Close(t) \/ Crash(t)
  <2>1. toWorker' \in [Tab -> Seq(InTransit)]
    BY <1>1, <1>3 DEF Close, Crash
  <2>2. <<>> \in Seq(Call) /\ NoWizard \in Result
    BY EmptySeq DEF NoWizard, Result
  <2>3. StopRuntime(t)
    BY <1>3 DEF Close, Crash
  <2>4. /\ operationQueue' \in [Tab -> Seq(Call)]
        /\ wizard' \in [Tab -> Result]
    BY <2>2, <2>3 DEF StopRuntime
  <2>5. /\ page' \in [Tab -> {"unopened", "open", "gone"}]
        /\ sharedRuntimeOwner' \in [Tab -> BOOLEAN]
        /\ runtime' \in [Tab -> {"off", "booting", "ready", "failed"}]
    BY <2>3 DEF StopRuntime
  <2> QED
    BY <2>1, <2>3, <2>4, <2>5 DEF StopRuntime
<1>4. CASE StartOnboardingRuntime(t)
  BY <1>1, <1>4 DEF StartOnboardingRuntime
<1>5. CASE BootSucceeds(t)
  BY <1>1, <1>5 DEF BootSucceeds
<1>6. CASE BootFails(t)
  BY <1>6 DEF BootFails
<1> QED
  BY <1>2, <1>3, <1>4, <1>5, <1>6

\* A call is posted under an identifier nobody has used.
LEMMA CallPosted ==
  ASSUME TypeOK, NEW t \in Tab, PostRuntimeRequest(t)
  PROVE  \E c \in Call :
           /\ callOf[c.id] = None
           /\ caller' = [caller EXCEPT ![c.id] = t]
           /\ callOf' = [callOf EXCEPT ![c.id] = c]
           /\ Submit(t, [type |-> "operation", call |-> c])
<1>1. Fresh(Request, Issued) \in Request \ Issued
  BY FreshIsUnused DEF PostRuntimeRequest, Issued
<1>2. PICK c \in [id : {Fresh(Request, Issued)}, method : Methods,
                  session : {None, pageSession[t]},
                  answer : Answer \cup {None}] :
        /\ caller' = [caller EXCEPT ![c.id] = t]
        /\ callOf' = [callOf EXCEPT ![c.id] = c]
        /\ Submit(t, [type |-> "operation", call |-> c])
  BY DEF PostRuntimeRequest
<1>3. c \in Call
  BY <1>1, MethodsAssumption DEF Call, TypeOK
<1>4. callOf[c.id] = None
  BY <1>1 DEF Issued
<1> QED
  BY <1>2, <1>3, <1>4

LEMMA CallTypes ==
  ASSUME TypeOK, NEW t \in Tab, PostRuntimeRequest(t), CoordinatorTypeOK'
  PROVE  TypeOK'
<1>1. PICK c \in Call :
        /\ caller' = [caller EXCEPT ![c.id] = t]
        /\ callOf' = [callOf EXCEPT ![c.id] = c]
        /\ Submit(t, [type |-> "operation", call |-> c])
  BY CallPosted
<1>2. [type |-> "operation", call |-> c] \in InTransit
  BY InTransitMessages
<1>3. toWorker' \in [Tab -> Seq(InTransit)]
  BY <1>1, <1>2, Submitted DEF TypeOK
<1>4. caller' \in [Request -> Tab \cup {None}]
  BY <1>1 DEF TypeOK
<1>5. callOf' \in [Request -> Call \cup {None}]
  BY <1>1 DEF TypeOK
<1> QED
  BY <1>3, <1>4, <1>5
  DEF PostRuntimeRequest, TypeOK, coordinatorVars, runtimeVars, gatewayVars

LEMMA ReceiveTypes ==
  ASSUME TypeOK, NEW t \in Tab,
         WorkerConnect(t) \/ WorkerReceive(t) \/ TabReceive(t),
         CoordinatorTypeOK'
  PROVE  TypeOK'
<1> USE DEF TypeOK, pageVars, runtimeVars, gatewayVars
<1>1. CASE WorkerConnect(t)
  BY <1>1 DEF WorkerConnect
<1>2. CASE WorkerReceive(t)
  <2>1. toWorker' \in [Tab -> Seq(InTransit)]
    BY <1>2, Received DEF WorkerReceive
  <2> QED
    BY <1>2, <2>1 DEF WorkerReceive
<1>3. CASE TabReceive(t)
  <2> DEFINE m == Head(toTab[t])
  <2>1. /\ m.type = "owner-input" => m.call \in Call
        /\ m.type = "response" => m \in Response
    BY <1>3, TabMessages DEF TabReceive, Take
  <2>2. toWorker' = toWorker /\ UNCHANGED gatewayVars
    BY <1>3 DEF TabReceive
  <2>3. CASE BecomeOwner(t) \/ BecomeFollower(t) \/ StartSharedOwner(t)
             \/ LearnReady(t)
    BY <2>2, <2>3
    DEF BecomeOwner, BecomeFollower, StartSharedOwner, LearnReady
  <2>4. CASE OwnerInput(t)
    <3>1. m.call \in Call
      BY <2>1, <2>4 DEF OwnerInput
    <3>2. Append(operationQueue[t], m.call) \in Seq(Call)
      BY <3>1, AppendProperties
    <3> QED
      BY <2>2, <2>4, <3>2 DEF OwnerInput
  <2>5. CASE TakeResponse(t)
    <3>1. m \in Response /\ m.id \in Request
      BY <2>1, <2>5 DEF TakeResponse, Response
    <3>2. m.ok => m.result.session \in Session \cup {None}
      BY <3>1 DEF Response, Result
    <3>3. answered' \subseteq Request
      BY <2>5, <3>1 DEF TakeResponse
    <3>4. pageSession' \in [Tab -> Session \cup {None}]
      BY <2>5, <3>2 DEF TakeResponse
    <3> QED
      BY <2>2, <2>5, <3>3, <3>4 DEF TakeResponse
  <2> QED
    BY <1>3, <2>3, <2>4, <2>5 DEF TabReceive
<1> QED
  BY <1>1, <1>2, <1>3

\* What the Gateway makes of a call keeps its wizard a wizard.
LEMMA GatewayTypes ==
  ASSUME TypeOK, NEW t \in Tab, NEW c \in Call, GatewayServes(t, c)
  PROVE  /\ wizard' \in [Tab -> Result]
         /\ sessionsUsed' \subseteq Session
         /\ applied' \in [Key -> Nat]
         /\ Reported(wizard'[t], c) \in Result
<1>1. c.method = "wizard.start" => Fresh(Session, sessionsUsed) \in Session
  BY FreshIsUnused DEF GatewayServes, TypeOK
<1>2. sessionsUsed' \subseteq Session
  BY <1>1 DEF GatewayServes, TypeOK
<1>3. wizard[t] \in Result /\ NoWizard \in Result
  BY DEF TypeOK, NoWizard, Result
<1>4. WizardAfter(wizard[t], c, Fresh(Session, sessionsUsed)) \in Result
  BY <1>1, <1>3 DEF WizardAfter, Call, Result
<1>5. wizard' \in [Tab -> Result]
  BY <1>4 DEF GatewayServes, TypeOK
<1>6. wizard'[t] \in Result
  BY <1>5
<1>7. Reported(wizard'[t], c) \in Result
  BY <1>3, <1>6 DEF Reported, Result
<1>8. applied' \in [Key -> Nat]
  <2>1. WizardNextKey(c) \in Key \cup {None}
    BY WizardNextKeyType
  <2> QED
    BY <2>1 DEF GatewayServes, TypeOK
<1> QED
  BY <1>2, <1>5, <1>7, <1>8

\* Every operation ends with a response to its call.
LEMMA OperationResponds ==
  ASSUME TypeOK, NEW t \in Tab, RunOperation(t)
  PROVE  /\ \E m \in Response : Submit(t, m)
         /\ wizard' \in [Tab -> Result]
         /\ sessionsUsed' \subseteq Session
         /\ applied' \in [Key -> Nat]
         /\ timedOut' \subseteq Request
         /\ operationQueue' \in [Tab -> Seq(Call)]
<1> DEFINE c == Head(operationQueue[t])
           success == [type |-> "response", id |-> c.id, ok |-> TRUE,
                       result |-> Reported(wizard'[t], c)]
<1>1. c \in Call /\ c.id \in Request /\ Tail(operationQueue[t]) \in Seq(Call)
  <2>1. operationQueue[t] \in Seq(Call) /\ operationQueue[t] # <<>>
    BY DEF RunOperation, TypeOK
  <2>2. c \in Call /\ Tail(operationQueue[t]) \in Seq(Call)
    BY <2>1, HeadTailProperties
  <2> HIDE DEF c
  <2> QED
    BY <2>2 DEF Call
<1>2. Failure(c) \in Response
  BY <1>1 DEF Failure, Response
<1>3. GatewayServes(t, c) =>
        /\ wizard' \in [Tab -> Result]
        /\ sessionsUsed' \subseteq Session
        /\ applied' \in [Key -> Nat]
        /\ success \in Response
  <2>1. SUFFICES ASSUME GatewayServes(t, c)
                 PROVE  /\ wizard' \in [Tab -> Result]
                        /\ sessionsUsed' \subseteq Session
                        /\ applied' \in [Key -> Nat]
                        /\ success \in Response
    OBVIOUS
  <2>2. /\ wizard' \in [Tab -> Result]
        /\ sessionsUsed' \subseteq Session
        /\ applied' \in [Key -> Nat]
        /\ Reported(wizard'[t], c) \in Result
    BY <1>1, <2>1, GatewayTypes
  <2>3. success \in Response
    BY <1>1, <2>2 DEF Response
  <2> QED
    BY <2>2, <2>3
<1>4. \/ /\ GatewayServes(t, c) /\ Submit(t, success) /\ UNCHANGED timedOut
      \/ /\ GatewayServes(t, c) /\ Submit(t, Failure(c))
         /\ timedOut' = timedOut \cup {c.id}
      \/ UNCHANGED gatewayVars /\ Submit(t, Failure(c))
  BY DEF RunOperation
<1>5. operationQueue' = [operationQueue EXCEPT ![t] = Tail(@)]
  BY DEF RunOperation
<1> HIDE DEF c, success
<1>6. \E m \in Response : Submit(t, m)
  BY <1>2, <1>3, <1>4
<1>7. /\ wizard' \in [Tab -> Result]
      /\ sessionsUsed' \subseteq Session
      /\ applied' \in [Key -> Nat]
      /\ timedOut' \subseteq Request
  BY <1>1, <1>3, <1>4 DEF TypeOK, gatewayVars
<1>8. operationQueue' \in [Tab -> Seq(Call)]
  BY <1>1, <1>5 DEF TypeOK
<1> QED
  BY <1>6, <1>7, <1>8

LEMMA OperationTypes ==
  ASSUME TypeOK, NEW t \in Tab, RunOperation(t), CoordinatorTypeOK'
  PROVE  TypeOK'
<1>1. toWorker' \in [Tab -> Seq(InTransit)]
  BY OperationResponds, InTransitMessages, Submitted DEF TypeOK
<1> QED
  BY <1>1, OperationResponds DEF RunOperation, TypeOK, pageVars

LEMMA RuntimeTypeStep ==
  ASSUME TypeOK, [Next]_vars, CoordinatorTypeOK'
  PROVE  TypeOK'
<1>1. CASE UNCHANGED vars
  BY <1>1 DEF TypeOK, vars, pageVars, runtimeVars, gatewayVars
<1> QED
  BY <1>1, TabTypes, CallTypes, ReceiveTypes, OperationTypes DEF Next

-----------------------------------------------------------------------------
(***************************************************************************)
(* Identifiers: a call in transit is new to the worker.                    *)
(***************************************************************************)
\* The worker does not track r after this step.
Untracked(r) == requestOwners'[r] = None /\ requestMethods'[r] = None

\* Steps that post no call and leave the worker's maps alone.
LEMMA NothingCalled ==
  ASSUME OperationsAreNew, UNCHANGED <<requestVars, callOf>>,
         \A u \in Tab : \A i \in 1 .. Len(toWorker'[u]) :
           toWorker'[u][i].type = "operation" =>
             i \in 1 .. Len(toWorker[u]) /\ toWorker'[u][i] = toWorker[u][i]
  PROVE  OperationsAreNew'
<1> USE DEF OperationsAreNew, requestVars, Tracked
<1>1. TrackedIsIssued'
  BY DEF TrackedIsIssued
<1>2. TransitIsUntracked'
  BY DEF TransitIsUntracked
<1>3. TransitIsUnique'
  <2> SUFFICES ASSUME NEW t \in Tab, NEW u \in Tab,
                      NEW i \in 1 .. Len(toWorker'[t]),
                      NEW j \in 1 .. Len(toWorker'[u]),
                      toWorker'[t][i].type = "operation",
                      toWorker'[u][j].type = "operation",
                      toWorker'[t][i].call.id = toWorker'[u][j].call.id
               PROVE  t = u /\ i = j
    BY DEF TransitIsUnique
  <2>1. /\ i \in 1 .. Len(toWorker[t]) /\ toWorker'[t][i] = toWorker[t][i]
        /\ j \in 1 .. Len(toWorker[u]) /\ toWorker'[u][j] = toWorker[u][j]
    OBVIOUS
  <2> QED
    BY <2>1 DEF TransitIsUnique
<1> QED
  BY <1>1, <1>2, <1>3

\* A step that posts something else.
LEMMA OtherSubmitted ==
  ASSUME TypeOK, OperationsAreNew, UNCHANGED <<requestVars, callOf>>,
         NEW t \in Tab, NEW m \in InTransit, m.type # "operation", Submit(t, m)
  PROVE  OperationsAreNew'
<1>1. \A u \in Tab : \A i \in 1 .. Len(toWorker'[u]) :
        toWorker'[u][i].type = "operation" =>
          i \in 1 .. Len(toWorker[u]) /\ toWorker'[u][i] = toWorker[u][i]
  BY Submitted DEF TypeOK
<1> QED
  BY <1>1, NothingCalled

\* PostRuntimeRequest draws an identifier nobody has used.
LEMMA CallIsNew ==
  ASSUME TypeOK, OperationsAreNew, NEW t \in Tab, PostRuntimeRequest(t)
  PROVE  OperationsAreNew'
<1> USE DEF Tracked, Untracked
<1>1. PICK c \in Call :
        /\ callOf[c.id] = None
        /\ callOf' = [callOf EXCEPT ![c.id] = c]
        /\ Submit(t, [type |-> "operation", call |-> c])
  BY CallPosted
<1> DEFINE m == [type |-> "operation", call |-> c]
<1>2. /\ m \in InTransit /\ m.type = "operation" /\ m.call = c
      /\ c.id \in Request /\ c # None
  BY InTransitMessages, CallAssumption DEF Call
<1>3. requestOwners' = requestOwners /\ requestMethods' = requestMethods
  BY DEF PostRuntimeRequest, coordinatorVars, requestVars
<1>4. \A u \in Tab : \A i \in 1 .. Len(toWorker'[u]) :
        \/ i \in 1 .. Len(toWorker[u]) /\ toWorker'[u][i] = toWorker[u][i]
        \/ u = t /\ i = Len(toWorker[t]) + 1 /\ toWorker'[u][i] = m
  BY <1>1, <1>2, Submitted DEF TypeOK
<1> HIDE DEF m
<1>5. \A r \in Request : callOf[r] # None => callOf'[r] # None
  BY <1>1, <1>2 DEF TypeOK
<1>6. callOf'[c.id] # None
  BY <1>1, <1>2 DEF TypeOK
<1>7. ASSUME NEW u \in Tab, NEW i \in 1 .. Len(toWorker'[u]),
             toWorker'[u][i].type = "operation"
      PROVE  LET d == toWorker'[u][i].call.id
             IN  /\ callOf'[d] # None /\ Untracked(d)
                 /\ \/ /\ i \in 1 .. Len(toWorker[u])
                       /\ toWorker'[u][i] = toWorker[u][i] /\ d # c.id
                    \/ u = t /\ i = Len(toWorker[t]) + 1 /\ d = c.id
  <2>1. CASE i \in 1 .. Len(toWorker[u]) /\ toWorker'[u][i] = toWorker[u][i]
    <3>1. toWorker[u][i] \in InTransit
      BY <2>1, ElementOfSeq DEF TypeOK
    <3>2. toWorker[u][i].call.id \in Request
      BY <1>7, <2>1, <3>1, InTransitMessages DEF Call
    <3>3. /\ callOf[toWorker[u][i].call.id] # None
          /\ ~Tracked(toWorker[u][i].call.id)
      BY <1>7, <2>1 DEF OperationsAreNew, TransitIsUntracked
    <3>4. /\ callOf'[toWorker[u][i].call.id] # None
          /\ Untracked(toWorker[u][i].call.id)
          /\ toWorker[u][i].call.id # c.id
      BY <1>1, <1>3, <1>5, <3>2, <3>3
    <3> QED
      BY <2>1, <3>4
  <2>2. CASE u = t /\ i = Len(toWorker[t]) + 1 /\ toWorker'[u][i] = m
    <3>1. ~Tracked(c.id)
      BY <1>1, <1>2 DEF OperationsAreNew, TrackedIsIssued
    <3> QED
      BY <1>2, <1>3, <1>6, <2>2, <3>1
  <2> QED
    BY <1>4, <2>1, <2>2
<1>8. TrackedIsIssued'
  BY <1>3, <1>5 DEF OperationsAreNew, TrackedIsIssued
<1>9. ASSUME NEW u \in Tab, NEW v \in Tab,
             NEW i \in 1 .. Len(toWorker'[u]), NEW j \in 1 .. Len(toWorker'[v]),
             toWorker'[u][i].type = "operation",
             toWorker'[v][j].type = "operation",
             toWorker'[u][i].call.id = toWorker'[v][j].call.id
      PROVE  u = v /\ i = j
  <2>1. CASE toWorker'[u][i].call.id = c.id
    BY <1>7, <1>9, <2>1
  <2>2. CASE toWorker'[u][i].call.id # c.id
    <3>1. /\ i \in 1 .. Len(toWorker[u]) /\ toWorker'[u][i] = toWorker[u][i]
          /\ j \in 1 .. Len(toWorker[v]) /\ toWorker'[v][j] = toWorker[v][j]
      BY <1>7, <1>9, <2>2
    <3> QED
      BY <1>9, <3>1 DEF OperationsAreNew, TransitIsUnique
  <2> QED
    BY <2>1, <2>2
<1>10. TransitIsUntracked'
  BY <1>7 DEF TransitIsUntracked, Untracked
<1>11. TransitIsUnique'
  BY <1>9 DEF TransitIsUnique
<1> QED
  BY <1>8, <1>10, <1>11 DEF OperationsAreNew

\* The worker tracks no call but those it had and the one it takes.
LEMMA TrackedAfter ==
  ASSUME CoordinatorTypeOK, NEW t \in Tab, WorkerReceive(t), NEW r \in Request
  PROVE  Tracked(r)' => \/ Tracked(r)
                        \/ /\ Head(toWorker[t]).type = "operation"
                           /\ Head(toWorker[t]).call.id = r
<1> DEFINE m == Head(toWorker[t])
<1> USE DEF Tracked, requestVars, coordinatorVars
<1>1. CASE Disconnect(t)
  BY <1>1
  DEF Disconnect, DisconnectOwner, DisconnectFollower, NoneTracked,
      CoordinatorTypeOK
<1>2. CASE RuntimeStart(t) \/ GatewayReady(t) \/ IgnoreOutput(t)
  BY <1>2 DEF RuntimeStart, GatewayReady, IgnoreOutput
<1>3. CASE m.type = "operation" /\ Operation(t, m.call)
  <2>1. CASE Forward(t, m.call)
    BY <1>3, <2>1 DEF Forward, CoordinatorTypeOK
  <2>2. CASE ~Forward(t, m.call)
    BY <1>3, <2>2
    DEF Operation, AnswerFromCache, JoinWizardNext, AnswerFromSnapshot,
        JoinWizardStart
  <2> QED
    BY <2>1, <2>2
<1>4. CASE OwnerResponse(t, m)
  <2>1. CASE RouteResponse(m)
    BY <2>1 DEF RouteResponse, CoordinatorTypeOK
  <2>2. CASE BroadcastResponse(m)
    BY <2>2 DEF BroadcastResponse
  <2> QED
    BY <1>4, <2>1, <2>2 DEF OwnerResponse
<1> QED
  BY <1>1, <1>2, <1>3, <1>4 DEF WorkerReceive

\* A call that the worker takes is in no channel any more.
LEMMA TakenIsGone ==
  ASSUME TypeOK, OperationsAreNew, NEW t \in Tab, WorkerReceive(t)
  PROVE  OperationsAreNew'
<1> DEFINE Before(u, i) == IF u = t THEN i + 1 ELSE i
<1> USE DEF Tracked, Untracked
<1>1. callOf' = callOf
  BY DEF WorkerReceive, pageVars
<1>2. /\ Head(toWorker[t]) = toWorker[t][1] /\ 1 \in 1 .. Len(toWorker[t])
      /\ \A u \in Tab : \A i \in 1 .. Len(toWorker'[u]) :
           \/ /\ u # t /\ i \in 1 .. Len(toWorker[u])
              /\ toWorker'[u][i] = toWorker[u][i]
           \/ /\ u = t /\ i + 1 \in 1 .. Len(toWorker[t]) /\ i \in Nat \ {0}
              /\ toWorker'[u][i] = toWorker[t][i + 1]
  BY Received DEF WorkerReceive, TypeOK
<1>3. ASSUME NEW u \in Tab, NEW i \in 1 .. Len(toWorker'[u])
      PROVE  /\ Before(u, i) \in 1 .. Len(toWorker[u])
             /\ toWorker'[u][i] = toWorker[u][Before(u, i)]
             /\ u = t => Before(u, i) # 1
  BY <1>2
<1>4. \A r \in Request :
        Tracked(r)' => \/ Tracked(r)
                       \/ /\ toWorker[t][1].type = "operation"
                          /\ toWorker[t][1].call.id = r
  BY <1>2, TrackedAfter DEF TypeOK
<1>5. TrackedIsIssued'
  BY <1>1, <1>2, <1>4 DEF OperationsAreNew, TrackedIsIssued, TransitIsUntracked
<1>6. ASSUME NEW u \in Tab, NEW i \in 1 .. Len(toWorker'[u]),
             toWorker'[u][i].type = "operation"
      PROVE  /\ callOf'[toWorker'[u][i].call.id] # None
             /\ Untracked(toWorker'[u][i].call.id)
  <2> DEFINE d == toWorker[u][Before(u, i)].call.id
  <2>1. /\ Before(u, i) \in 1 .. Len(toWorker[u])
        /\ toWorker'[u][i] = toWorker[u][Before(u, i)]
        /\ u = t => Before(u, i) # 1
    BY <1>3
  <2>2. toWorker[u][Before(u, i)] \in InTransit
    BY <2>1, ElementOfSeq DEF TypeOK
  <2> HIDE DEF Before
  <2>3. d \in Request
    BY <1>6, <2>1, <2>2, InTransitMessages DEF Call
  <2>4. callOf[d] # None /\ ~Tracked(d)
    BY <1>6, <2>1 DEF OperationsAreNew, TransitIsUntracked
  <2>5. ~(toWorker[t][1].type = "operation" /\ toWorker[t][1].call.id = d)
    BY <1>2, <1>6, <2>1 DEF OperationsAreNew, TransitIsUnique
  <2>6. Untracked(d)
    BY <1>4, <2>3, <2>4, <2>5
  <2> QED
    BY <1>1, <2>1, <2>4, <2>6
<1>7. ASSUME NEW u \in Tab, NEW v \in Tab,
             NEW i \in 1 .. Len(toWorker'[u]), NEW j \in 1 .. Len(toWorker'[v]),
             toWorker'[u][i].type = "operation",
             toWorker'[v][j].type = "operation",
             toWorker'[u][i].call.id = toWorker'[v][j].call.id
      PROVE  u = v /\ i = j
  <2>1. u = v /\ Before(u, i) = Before(v, j)
    <3> DEFINE x == Before(u, i)
               y == Before(v, j)
    <3>1. /\ x \in 1 .. Len(toWorker[u]) /\ toWorker'[u][i] = toWorker[u][x]
          /\ y \in 1 .. Len(toWorker[v]) /\ toWorker'[v][j] = toWorker[v][y]
      BY <1>3
    <3> HIDE DEF x, y
    <3>2. u = v /\ x = y
      BY <1>7, <3>1 DEF OperationsAreNew, TransitIsUnique
    <3> QED
      BY <3>2 DEF x, y
  <2> QED
    BY <1>2, <2>1
<1>8. TransitIsUntracked'
  BY <1>6 DEF TransitIsUntracked, Untracked
<1>9. TransitIsUnique'
  BY <1>7 DEF TransitIsUnique
<1> QED
  BY <1>5, <1>8, <1>9 DEF OperationsAreNew

LEMMA CallsStayNew ==
  ASSUME TypeOK, OperationsAreNew, [Next]_vars
  PROVE  OperationsAreNew'
<1> USE DEF coordinatorVars, pageVars, requestVars
<1>1. CASE UNCHANGED vars
  BY <1>1, NothingCalled DEF vars
<1>2. ASSUME NEW t \in Tab,
             Open(t) \/ Crash(t) \/ BootFails(t) \/ WorkerConnect(t) \/ TabReceive(t)
      PROVE  OperationsAreNew'
  <2>1. UNCHANGED <<requestVars, callOf, toWorker>>
    BY <1>2
    DEF Open, Crash, StopRuntime, BootFails, WorkerConnect, Connect, TabReceive,
        Take, BecomeOwner, BecomeFollower, StartSharedOwner, OwnerInput,
        LearnReady, TakeResponse
  <2> QED
    BY <2>1, NothingCalled
<1>3. ASSUME NEW t \in Tab,
             Close(t) \/ StartOnboardingRuntime(t) \/ BootSucceeds(t)
      PROVE  OperationsAreNew'
  <2>1. UNCHANGED <<requestVars, callOf>>
    BY <1>3
    DEF Close, StopRuntime, StartOnboardingRuntime, BootSucceeds
  <2>2. PICK type \in {"disconnect", "start", "ready"} :
          Submit(t, [type |-> type])
    BY <1>3 DEF Close, StartOnboardingRuntime, BootSucceeds
  <2> QED
    BY <2>1, <2>2, InTransitMessages, OtherSubmitted
<1>4. ASSUME NEW t \in Tab, RunOperation(t)
      PROVE  OperationsAreNew'
  <2>1. UNCHANGED <<requestVars, callOf>>
    BY <1>4 DEF RunOperation
  <2>2. PICK m \in Response : Submit(t, m)
    BY <1>4, OperationResponds
  <2>3. m \in InTransit /\ m.type # "operation"
    BY InTransitMessages DEF Response
  <2> QED
    BY <2>1, <2>2, <2>3, OtherSubmitted
<1> QED
  BY <1>1, <1>2, <1>3, <1>4, CallIsNew, TakenIsGone DEF Next

-----------------------------------------------------------------------------
(***************************************************************************)
(* Ownership.                                                              *)
(***************************************************************************)
Ordinary == {m \in Message : m.type # "owner"}

\* What a port holds after the worker has posted: what it held, unless the
\* port has disconnected, and what was posted.
LEMMA Posted ==
  ASSUME CoordinatorTypeOK, NEW out \in [Tab -> Seq(Message)], Post(out),
         NEW u \in Tab, NEW i \in 1 .. Len(toTab'[u])
  PROVE  /\ u \in ports'
         /\ \/ i \in 1 .. Len(toTab[u]) /\ toTab'[u][i] = toTab[u][i]
            \/ \E j \in 1 .. Len(out[u]) : toTab'[u][i] = out[u][j]
<1>1. toTab[u] \in Seq(Message) /\ out[u] \in Seq(Message)
  BY DEF CoordinatorTypeOK
<1>2. CASE u \in ports'
  <2>1. toTab'[u] = toTab[u] \o out[u]
    BY <1>2 DEF Post
  <2>2. /\ Len(toTab[u]) \in Nat /\ Len(out[u]) \in Nat
        /\ Len(toTab'[u]) = Len(toTab[u]) + Len(out[u])
        /\ \A k \in 1 .. Len(toTab[u]) + Len(out[u]) :
             toTab'[u][k] = IF k <= Len(toTab[u]) THEN toTab[u][k]
                            ELSE out[u][k - Len(toTab[u])]
    BY <1>1, <2>1, ConcatProperties, LenProperties
  <2>3. CASE i <= Len(toTab[u])
    BY <1>2, <2>2, <2>3
  <2>4. CASE i > Len(toTab[u])
    <3>1. i - Len(toTab[u]) \in 1 .. Len(out[u])
      BY <2>2, <2>4
    <3> QED
      BY <1>2, <2>2, <2>4, <3>1
  <2> QED
    BY <2>2, <2>3, <2>4
<1>3. CASE u \notin ports'
  BY <1>3, EmptySeq DEF Post
<1> QED
  BY <1>2, <1>3

\* A handler that names no owner leaves the names it has given.
LEMMA NoneNamed ==
  ASSUME CoordinatorTypeOK, NEW out \in [Tab -> Seq(Ordinary)], Post(out),
         NEW u \in Tab, NEW i \in 1 .. Len(toTab'[u]), toTab'[u][i].type = "owner"
  PROVE  /\ u \in ports'
         /\ \E k \in 1 .. Len(toTab[u]) : toTab[u][k].type = "owner"
<1>1. out \in [Tab -> Seq(Message)]
  BY SeqMonotonic DEF Ordinary
<1>2. \A j \in 1 .. Len(out[u]) : out[u][j].type # "owner"
  <2>1. out[u] \in Seq(Ordinary)
    OBVIOUS
  <2>2. \A j \in 1 .. Len(out[u]) : out[u][j] \in Ordinary
    BY <2>1, ElementOfSeq
  <2> QED
    BY <2>2 DEF Ordinary
<1> QED
  BY <1>1, <1>2, Posted

\* Answers to the requests that joined are ordinary messages.
LEMMA AnsweringOrdinary ==
  /\ Response \subseteq Ordinary
  /\ \A m \in Response, requests \in Seq(Request) :
       Answering(m, requests) \in Seq(Ordinary)
<1>1. Response \subseteq Ordinary
  BY ResponseMessage DEF Ordinary, Response
<1>2. ASSUME NEW m \in Response, NEW requests \in Seq(Request)
      PROVE  Answering(m, requests) \in Seq(Ordinary)
  <2>1. \A i \in 1 .. Len(requests) : [m EXCEPT !.id = requests[i]] \in Ordinary
    BY <1>1, Readdressed, ElementOfSeq
  <2>2. Len(requests) \in Nat
    BY LenProperties
  <2> QED
    BY <2>1, <2>2 DEF Answering
<1> QED
  BY <1>1, <1>2

LEMMA OrdinaryOnly ==
  ASSUME NEW p, NEW m \in Ordinary
  PROVE  Only(p, <<m>>) \in [Tab -> Seq(Ordinary)]
<1>1. <<m>> \in Seq(Ordinary) /\ <<>> \in Seq(Ordinary)
  BY EmptySeq
<1> QED
  BY <1>1 DEF Only

\* Every handler but those of ports that come and go posts ordinary messages.
LEMMA OrdinaryOutput ==
  ASSUME TypeOK, NEW t \in Tab, WorkerReceive(t), ~Disconnect(t)
  PROVE  /\ owner' = owner
         /\ \/ toTab' = toTab
            \/ \E out \in [Tab -> Seq(Ordinary)] : Post(out)
<1> DEFINE m == Head(toWorker[t])
<1> USE DEF portVars, coordinatorVars
<1>1. m \in InTransit
  BY Received DEF WorkerReceive, TypeOK
<1>2. CASE RuntimeStart(t)
  <2>1. [type |-> "owner-start"] \in Ordinary
    BY RoleMessages DEF Ordinary
  <2> QED
    BY <1>2, <2>1, OrdinaryOnly DEF RuntimeStart
<1>3. CASE GatewayReady(t)
  <2>1. \A u \in Tab : Ready(u) \in Ordinary
    BY <1>3 DEF GatewayReady, Ready, Ordinary, Message
  <2>2. [u \in Tab |-> <<Ready(u)>>] \in [Tab -> Seq(Ordinary)]
    BY <2>1
  <2> QED
    BY <1>3, <2>2 DEF GatewayReady
<1>4. CASE IgnoreOutput(t)
  BY <1>4 DEF IgnoreOutput
<1>5. CASE m.type = "operation" /\ Operation(t, m.call)
  <2> DEFINE c == m.call
  <2>1. c \in Call /\ c.id \in Request
    BY <1>1, <1>5, InTransitMessages DEF Call
  <2> HIDE DEF c
  <2>2. CASE AnswerFromCache(t, c)
    <3>1. PICK i \in 1 .. Len(wizardNextResponseCache) :
            Post(Only(t, <<[wizardNextResponseCache[i].response
                              EXCEPT !.id = c.id]>>))
      BY <2>2 DEF AnswerFromCache
    <3>2. wizardNextResponseCache[i] \in [key : Key, response : Response]
      BY <3>1, ElementOfSeq, EntryType DEF TypeOK, CoordinatorTypeOK
    <3>3. [wizardNextResponseCache[i].response EXCEPT !.id = c.id] \in Ordinary
      BY <2>1, <3>2, Readdressed, AnsweringOrdinary
    <3> QED
      BY <2>2, <3>1, <3>3, OrdinaryOnly DEF AnswerFromCache
  <2>3. CASE AnswerFromSnapshot(t, c)
    <3>1. [type |-> "response", id |-> c.id, ok |-> TRUE,
           result |-> wizardSnapshot] \in Response
      BY <2>1, <2>3 DEF AnswerFromSnapshot, TypeOK, CoordinatorTypeOK, Response
    <3> QED
      BY <2>3, <3>1, AnsweringOrdinary, OrdinaryOnly DEF AnswerFromSnapshot
  <2>4. CASE Forward(t, c)
    <3>1. [type |-> "owner-input", call |-> c] \in Ordinary
      BY <2>1, InputMessage DEF Ordinary
    <3> QED
      BY <2>4, <3>1, OrdinaryOnly DEF Forward
  <2>5. CASE JoinWizardNext(t, c) \/ JoinWizardStart(t, c)
    BY <2>5 DEF JoinWizardNext, JoinWizardStart
  <2> QED
    BY <1>5, <2>2, <2>3, <2>4, <2>5 DEF Operation, c
<1>6. CASE m.type = "response" /\ OwnerResponse(t, m)
  <2>1. m \in Response
    BY <1>1, <1>6, InTransitMessages
  <2> HIDE DEF m
  <2>2. CASE BroadcastResponse(m)
    <3>1. [u \in Tab |-> <<m>>] \in [Tab -> Seq(Ordinary)]
      BY <2>1, AnsweringOrdinary
    <3> QED
      BY <2>2, <3>1 DEF BroadcastResponse
  <2>3. CASE RouteResponse(m)
    <3> DEFINE first(u) == IF u = requestOwners[m.id] THEN <<m>> ELSE <<>>
               second(u) == Answering(m, JoinedNext(m)[u])
               third(u) == Answering(m, JoinedStart(m)[u])
    <3>1. ASSUME NEW u \in Tab
          PROVE  first(u) \o second(u) \o third(u) \in Seq(Ordinary)
      <4>1. JoinedNext(m)[u] \in Seq(Request) /\ JoinedStart(m)[u] \in Seq(Request)
        BY <2>1, JoinedType DEF TypeOK
      <4>2. second(u) \in Seq(Ordinary) /\ third(u) \in Seq(Ordinary)
        BY <2>1, <4>1, AnsweringOrdinary
      <4>3. first(u) \in Seq(Ordinary)
        BY <2>1, AnsweringOrdinary, EmptySeq
      <4> HIDE DEF first, second, third
      <4> QED
        BY <4>2, <4>3, ConcatProperties
    <3>2. [u \in Tab |-> first(u) \o second(u) \o third(u)]
            \in [Tab -> Seq(Ordinary)]
      <4> HIDE DEF first, second, third
      <4> QED
        BY <3>1
    <3>3. Post([u \in Tab |-> first(u) \o second(u) \o third(u)])
      BY <2>3 DEF RouteResponse
    <3>4. owner' = owner
      BY <2>3 DEF RouteResponse
    <3> QED
      BY <3>2, <3>3, <3>4
  <2> QED
    BY <1>6, <2>2, <2>3 DEF OwnerResponse
<1> QED
  BY <1>2, <1>3, <1>4, <1>5, <1>6 DEF WorkerReceive

\* What a step leaves for the worker to hear of tabs that are gone.
LEMMA GoodbyesAreTrue ==
  ASSUME TypeOK, OwnershipIsKnown, [Next]_vars
  PROVE  \A t \in Tab :
           /\ page[t] = "gone" => page'[t] = "gone"
           /\ \A i \in 1 .. Len(toWorker'[t]) :
                toWorker'[t][i].type = "disconnect" => page'[t] = "gone"
<1>1. \A t \in Tab : page[t] = "gone" => page'[t] = "gone"
  BY DEF Next, vars, pageVars, TypeOK, Open, Close, Crash, StopRuntime,
         StartOnboardingRuntime, PostRuntimeRequest, WorkerConnect,
         WorkerReceive, TabReceive, BecomeOwner, BecomeFollower,
         StartSharedOwner, OwnerInput, LearnReady, TakeResponse,
         BootSucceeds, BootFails, RunOperation
<1>2. ASSUME NEW u \in Tab, NEW m \in InTransit, Submit(u, m),
             m.type = "disconnect" => page'[u] = "gone"
      PROVE  \A t \in Tab : \A i \in 1 .. Len(toWorker'[t]) :
               toWorker'[t][i].type = "disconnect" => page'[t] = "gone"
  <2>1. \A t \in Tab : \A i \in 1 .. Len(toWorker'[t]) :
          \/ i \in 1 .. Len(toWorker[t]) /\ toWorker'[t][i] = toWorker[t][i]
          \/ t = u /\ i = Len(toWorker[u]) + 1 /\ toWorker'[t][i] = m
    BY <1>2, Submitted DEF TypeOK
  <2> QED
    BY <1>1, <1>2, <2>1 DEF OwnershipIsKnown
<1>3. CASE toWorker' = toWorker
  BY <1>1, <1>3 DEF OwnershipIsKnown
<1>4. ASSUME NEW u \in Tab, Close(u)
      PROVE  \A t \in Tab : \A i \in 1 .. Len(toWorker'[t]) :
               toWorker'[t][i].type = "disconnect" => page'[t] = "gone"
  <2>1. page'[u] = "gone" /\ Submit(u, [type |-> "disconnect"])
    BY <1>4 DEF Close, StopRuntime, TypeOK
  <2> QED
    BY <1>2, <2>1, InTransitMessages
<1>5. ASSUME NEW u \in Tab,
             StartOnboardingRuntime(u) \/ PostRuntimeRequest(u)
             \/ BootSucceeds(u) \/ RunOperation(u)
      PROVE  \A t \in Tab : \A i \in 1 .. Len(toWorker'[t]) :
               toWorker'[t][i].type = "disconnect" => page'[t] = "gone"
  <2>1. \E m \in InTransit : Submit(u, m) /\ m.type # "disconnect"
    <3>1. CASE StartOnboardingRuntime(u)
      BY <3>1, InTransitMessages DEF StartOnboardingRuntime
    <3>2. CASE BootSucceeds(u)
      BY <3>2, InTransitMessages DEF BootSucceeds
    <3>3. CASE PostRuntimeRequest(u)
      <4>1. PICK c \in Call : Submit(u, [type |-> "operation", call |-> c])
        BY <3>3, CallPosted
      <4> DEFINE m == [type |-> "operation", call |-> c]
      <4>2. m \in InTransit /\ m.type # "disconnect"
        BY InTransitMessages
      <4> QED
        BY <4>1, <4>2
    <3>4. CASE RunOperation(u)
      <4>1. PICK m \in Response : Submit(u, m)
        BY <3>4, OperationResponds
      <4>2. m \in InTransit /\ m.type # "disconnect"
        BY InTransitMessages DEF Response
      <4> QED
        BY <4>1, <4>2
    <3> QED
      BY <1>5, <3>1, <3>2, <3>3, <3>4
  <2> QED
    BY <1>2, <2>1
<1>6. ASSUME NEW u \in Tab, WorkerReceive(u)
      PROVE  \A t \in Tab : \A i \in 1 .. Len(toWorker'[t]) :
               toWorker'[t][i].type = "disconnect" => page'[t] = "gone"
  <2>1. \A t \in Tab : \A i \in 1 .. Len(toWorker'[t]) :
          \E k \in 1 .. Len(toWorker[t]) : toWorker'[t][i] = toWorker[t][k]
    <3>1. \A t \in Tab : \A i \in 1 .. Len(toWorker'[t]) :
            \/ /\ t # u /\ i \in 1 .. Len(toWorker[t])
               /\ toWorker'[t][i] = toWorker[t][i]
            \/ /\ t = u /\ i + 1 \in 1 .. Len(toWorker[u]) /\ i \in Nat \ {0}
               /\ toWorker'[t][i] = toWorker[u][i + 1]
      BY <1>6, Received DEF TypeOK, WorkerReceive
    <3> QED
      BY <3>1
  <2> QED
    BY <1>1, <2>1 DEF OwnershipIsKnown
<1>7. ASSUME NEW u \in Tab,
             Open(u) \/ Crash(u) \/ WorkerConnect(u) \/ TabReceive(u)
             \/ BootFails(u)
      PROVE  toWorker' = toWorker
  BY <1>7 DEF Open, Crash, WorkerConnect, TabReceive, BootFails
<1>8. \A t \in Tab : \A i \in 1 .. Len(toWorker'[t]) :
        toWorker'[t][i].type = "disconnect" => page'[t] = "gone"
  BY <1>3, <1>4, <1>5, <1>6, <1>7 DEF Next, vars
<1> QED
  BY <1>1, <1>8

\* Only a tab's goodbye disconnects its port.
LEMMA DisconnectIsAsked ==
  ASSUME CoordinatorTypeOK, OwnerIsConnected, NEW t \in Tab,
         WorkerConnect(t) \/ WorkerReceive(t), Disconnect(t)
  PROVE  WorkerReceive(t) /\ Head(toWorker[t]).type = "disconnect"
<1>1. t \in ports /\ t \notin ports'
  BY DEF Disconnect, DisconnectOwner, DisconnectFollower
<1>2. ~WorkerConnect(t)
  BY <1>1 DEF WorkerConnect, Connect
<1>3. WorkerReceive(t)
  BY <1>2
<1> DEFINE m == Head(toWorker[t])
<1>4. ~RuntimeStart(t) /\ ~GatewayReady(t) /\ ~IgnoreOutput(t)
  BY <1>1
  DEF RuntimeStart, GatewayReady, IgnoreOutput, coordinatorVars, portVars
<1>5. ~Operation(t, m.call)
  BY <1>1
  DEF Operation, AnswerFromCache, JoinWizardNext, AnswerFromSnapshot,
      JoinWizardStart, Forward, portVars
<1>6. ~OwnerResponse(t, m)
  BY <1>1 DEF OwnerResponse, RouteResponse, BroadcastResponse, portVars
<1> QED
  BY <1>3, <1>4, <1>5, <1>6 DEF WorkerReceive

\* What the worker does with its owner and says of it.
LEMMA OwnerAfter ==
  ASSUME TypeOK, OwnerIsConnected, OwnershipIsKnown, NEW t \in Tab,
         WorkerConnect(t) \/ WorkerReceive(t)
  PROVE  /\ owner' = owner \/ \A u \in Tab :
                                runtime[u] = "off" /\ ~sharedRuntimeOwner[u]
         /\ \A u \in Tab : \A i \in 1 .. Len(toTab'[u]) :
              toTab'[u][i].type = "owner" => u = owner'
<1> DEFINE Named(u) == \E k \in 1 .. Len(toTab[u]) : toTab[u][k].type = "owner"
<1>1. \A u \in Tab : Named(u) => u = owner
  BY DEF OwnershipIsKnown
<1>2. CoordinatorTypeOK /\ None \notin Tab
  BY NoneAssumption DEF TypeOK
<1>3. CASE Disconnect(t)
  <2>1. CASE DisconnectOwner(t)
    <3>1. Head(toWorker[t]).type = "disconnect" /\ WorkerReceive(t)
      BY <1>2, <1>3, DisconnectIsAsked
    <3>2. page[t] = "gone"
      BY <3>1, Received DEF OwnershipIsKnown, WorkerReceive, TypeOK
    <3>3. t = owner /\ t \notin ports' /\ ChooseOwner
      BY <2>1 DEF DisconnectOwner
    <3>4. \A u \in Tab : runtime[u] = "off" /\ ~sharedRuntimeOwner[u]
      BY <3>2, <3>3 DEF OwnershipIsKnown
    <3>5. ASSUME NEW u \in Tab, NEW i \in 1 .. Len(toTab'[u]),
                 toTab'[u][i].type = "owner"
          PROVE  u = owner'
      <4>1. CASE ports' = {}
        <5>1. toTab'[u] = <<>>
          BY <3>3, <4>1 DEF ChooseOwner, Post
        <5> QED
          BY <3>5, <5>1, EmptySeq
      <4>2. ASSUME NEW next \in ports', owner' = next,
                   Post(Only(next,
                     <<[type |-> "owner"]>>
                     \o (IF runtimeRequested THEN <<[type |-> "owner-start"]>>
                         ELSE <<>>)))
            PROVE  u = next
        <5> DEFINE told == <<[type |-> "owner"]>>
                     \o (IF runtimeRequested THEN <<[type |-> "owner-start"]>>
                         ELSE <<>>)
        <5>1. told \in Seq(Message)
          BY RoleMessages
        <5>2. Only(next, told) \in [Tab -> Seq(Message)]
          BY <5>1, OnlyType
        <5> HIDE DEF told
        <5>3. /\ u \in ports'
              /\ \/ Named(u)
                 \/ \E j \in 1 .. Len(Only(next, told)[u]) :
                      toTab'[u][i] = Only(next, told)[u][j]
          BY <1>2, <3>5, <4>2, <5>2, Posted DEF told
        <5>4. CASE Named(u)
          BY <1>1, <3>3, <5>3, <5>4
        <5>5. CASE u # next
          BY <5>3, <5>4, <5>5, EmptySeq DEF Only
        <5> QED
          BY <5>4, <5>5
      <4> QED
        BY <3>3, <4>1, <4>2 DEF ChooseOwner
    <3> QED
      BY <3>4, <3>5
  <2>2. CASE DisconnectFollower(t)
    <3>1. owner' = owner /\ Post(NoWaiters)
      BY <2>2 DEF DisconnectFollower
    <3>2. NoWaiters \in [Tab -> Seq(Ordinary)]
      BY EmptySeq DEF NoWaiters
    <3>3. \A u \in Tab : \A i \in 1 .. Len(toTab'[u]) :
            toTab'[u][i].type = "owner" => Named(u)
      BY <1>2, <3>1, <3>2, NoneNamed
    <3> QED
      BY <1>1, <3>1, <3>3
  <2> QED
    BY <1>3, <2>1, <2>2 DEF Disconnect
<1>4. CASE WorkerReceive(t) /\ ~Disconnect(t)
  <2>1. \A u \in Tab : \A i \in 1 .. Len(toTab'[u]) :
          toTab'[u][i].type = "owner" => Named(u)
    BY <1>2, <1>4, OrdinaryOutput, NoneNamed
  <2> QED
    BY <1>1, <1>4, <2>1, OrdinaryOutput
<1>5. CASE WorkerConnect(t)
  <2> DEFINE role == <<[type |-> IF owner = None THEN "owner" ELSE "follower"]>>
             replay == IF readyMessage = None THEN <<>> ELSE <<Ready(t)>>
             told == role \o replay
  <2>1. /\ Post(Only(t, told))
        /\ owner' = IF owner = None THEN t ELSE owner
    BY <1>5 DEF WorkerConnect, Connect
  <2>2. readyMessage # None => Ready(t) \in Ordinary
    BY <1>2, <1>5 DEF WorkerConnect, Connect, Ready, Message, Ordinary,
                      CoordinatorTypeOK
  <2>3. /\ told \in Seq(Message)
        /\ owner # None => told \in Seq(Ordinary)
    <3>1. role \in Seq(Message) /\ replay \in Seq(Message)
      BY <2>2, RoleMessages DEF Ordinary
    <3>2. owner # None => role \in Seq(Ordinary) /\ replay \in Seq(Ordinary)
      BY <2>2, RoleMessages DEF Ordinary
    <3> HIDE DEF role, replay
    <3> QED
      BY <3>1, <3>2, ConcatProperties
  <2> HIDE DEF role, replay, told
  <2>4. CASE owner # None
    <3>1. Only(t, told) \in [Tab -> Seq(Ordinary)]
      BY <2>3, <2>4, EmptySeq DEF Only
    <3>2. \A u \in Tab : \A i \in 1 .. Len(toTab'[u]) :
            toTab'[u][i].type = "owner" => Named(u)
      BY <1>2, <2>1, <3>1, NoneNamed
    <3> QED
      BY <1>1, <2>1, <2>4, <3>2
  <2>5. CASE owner = None
    <3>1. \A u \in Tab :
            ~Named(u) /\ runtime[u] = "off" /\ ~sharedRuntimeOwner[u]
      BY <1>1, <1>2, <2>5 DEF OwnershipIsKnown
    <3>2. ASSUME NEW u \in Tab, NEW i \in 1 .. Len(toTab'[u]),
                 toTab'[u][i].type = "owner"
          PROVE  u = t
      <4>1. Only(t, told) \in [Tab -> Seq(Message)]
        BY <2>3, OnlyType
      <4>2. \/ Named(u)
            \/ \E j \in 1 .. Len(Only(t, told)[u]) :
                 toTab'[u][i] = Only(t, told)[u][j]
        BY <1>2, <2>1, <3>2, <4>1, Posted
      <4> QED
        BY <3>1, <4>2, EmptySeq DEF Only
    <3> QED
      BY <2>1, <2>5, <3>1, <3>2
  <2> QED
    BY <2>4, <2>5
<1> QED
  BY <1>3, <1>4, <1>5

\* What a tab does by itself, with nothing said to it or to the worker's owner.
LEMMA AloneOwnership ==
  ASSUME TypeOK, OwnershipIsKnown, NEW t \in Tab,
         \/ Open(t) \/ Close(t) \/ Crash(t)
         \/ StartOnboardingRuntime(t) \/ PostRuntimeRequest(t)
         \/ BootSucceeds(t) \/ BootFails(t) \/ RunOperation(t)
  PROVE  /\ UNCHANGED coordinatorVars
         /\ \A u \in Tab :
              /\ page'[u] = "gone" =>
                   runtime'[u] = "off" /\ ~sharedRuntimeOwner'[u]
              /\ sharedRuntimeOwner'[u] => sharedRuntimeOwner[u]
              /\ runtime'[u] # "off" => runtime[u] # "off"
<1> USE DEF TypeOK, OwnershipIsKnown
<1>1. CASE Open(t)
  BY <1>1 DEF Open, runtimeVars
<1>2. CASE Close(t) \/ Crash(t)
  BY <1>2 DEF Close, Crash, StopRuntime
<1>3. CASE StartOnboardingRuntime(t) \/ PostRuntimeRequest(t)
  BY <1>3 DEF StartOnboardingRuntime, PostRuntimeRequest, runtimeVars
<1>4. CASE BootSucceeds(t) \/ BootFails(t)
  BY <1>4 DEF BootSucceeds, BootFails, pageVars
<1>5. CASE RunOperation(t)
  BY <1>5 DEF RunOperation, pageVars
<1> QED
  BY <1>1, <1>2, <1>3, <1>4, <1>5

\* A tab that takes a message learns only what the coordinator has decided.
LEMMA TakenOwnership ==
  ASSUME TypeOK, OwnershipIsKnown, NEW t \in Tab, TabReceive(t)
  PROVE  \A u \in Tab :
           /\ page'[u] = "gone" =>
                runtime'[u] = "off" /\ ~sharedRuntimeOwner'[u]
           /\ \A i \in 1 .. Len(toTab'[u]) :
                toTab'[u][i].type = "owner" => u = owner'
           /\ sharedRuntimeOwner'[u] => u = owner'
           /\ runtime'[u] # "off" => u = owner'
<1>1. /\ page[t] = "open" /\ toTab[t] # <<>> /\ owner' = owner
      /\ toTab' = [toTab EXCEPT ![t] = Tail(@)]
  BY DEF TabReceive, Take, portVars
<1>2. /\ toTab \in [Tab -> Seq(Message)]
      /\ Head(toTab[t]) = toTab[t][1] /\ 1 \in 1 .. Len(toTab[t])
  BY <1>1, TabMessages DEF TypeOK, CoordinatorTypeOK
<1>3. ASSUME NEW u \in Tab, NEW i \in 1 .. Len(toTab'[u]),
             toTab'[u][i].type = "owner"
      PROVE  u = owner'
  <2>1. CASE u = t
    <3>1. /\ toTab'[u] = Tail(toTab[u]) /\ toTab[u] \in Seq(Message)
          /\ toTab[u] # <<>> /\ Len(toTab[u]) \in Nat \ {0}
      BY <1>1, <1>2, <2>1, EmptySeq
    <3>2. /\ Len(toTab'[u]) = Len(toTab[u]) - 1
          /\ \A j \in 1 .. Len(toTab'[u]) : toTab'[u][j] = toTab[u][j + 1]
      BY <3>1, HeadTailProperties
    <3>3. i + 1 \in 1 .. Len(toTab[u]) /\ toTab'[u][i] = toTab[u][i + 1]
      BY <1>3, <3>1, <3>2
    <3> QED
      BY <1>1, <1>3, <3>3 DEF OwnershipIsKnown
  <2>2. CASE u # t
    BY <1>1, <1>2, <1>3, <2>2 DEF OwnershipIsKnown
  <2> QED
    BY <2>1, <2>2
<1>4. /\ page' = page
      /\ \A u \in Tab : sharedRuntimeOwner'[u] => sharedRuntimeOwner[u] \/ u = owner
      /\ \A u \in Tab : sharedRuntimeOwner'[u] # sharedRuntimeOwner[u] => u = t
  <2>1. CASE BecomeOwner(t)
    BY <1>2, <2>1 DEF BecomeOwner, pageVars, TypeOK, OwnershipIsKnown
  <2>2. CASE BecomeFollower(t)
    BY <2>2 DEF BecomeFollower, pageVars, TypeOK
  <2>3. CASE StartSharedOwner(t) \/ OwnerInput(t)
    BY <2>3 DEF StartSharedOwner, OwnerInput, pageVars
  <2>4. CASE LearnReady(t) \/ TakeResponse(t)
    BY <2>4 DEF LearnReady, TakeResponse, runtimeVars
  <2> QED
    BY <2>1, <2>2, <2>3, <2>4 DEF TabReceive
<1>5. \/ runtime' = runtime
      \/ /\ sharedRuntimeOwner[t]
         /\ runtime' = [runtime EXCEPT ![t] = "booting"]
  BY DEF TabReceive, BecomeOwner, BecomeFollower, StartSharedOwner, OwnerInput,
         LearnReady, TakeResponse, runtimeVars
<1>6. ASSUME NEW u \in Tab
      PROVE  /\ page'[u] = "gone" =>
                  runtime'[u] = "off" /\ ~sharedRuntimeOwner'[u]
             /\ sharedRuntimeOwner'[u] => u = owner'
             /\ runtime'[u] # "off" => u = owner'
  BY <1>1, <1>4, <1>5 DEF OwnershipIsKnown, TypeOK
<1> QED
  BY <1>3, <1>6

\* Every step keeps the tabs' knowledge of their owner true.
LEMMA OwnershipStays ==
  ASSUME TypeOK, OwnerIsConnected, OwnershipIsKnown, [Next]_vars
  PROVE  OwnershipIsKnown'
<1>1. ASSUME NEW t \in Tab,
             \/ Open(t) \/ Close(t) \/ Crash(t)
             \/ StartOnboardingRuntime(t) \/ PostRuntimeRequest(t)
             \/ BootSucceeds(t) \/ BootFails(t) \/ RunOperation(t)
      PROVE  OwnershipIsKnown'
  <2>1. owner' = owner /\ toTab' = toTab
    BY <1>1, AloneOwnership DEF coordinatorVars, portVars
  <2> QED
    BY <1>1, <2>1, AloneOwnership, GoodbyesAreTrue DEF OwnershipIsKnown
<1>2. ASSUME NEW t \in Tab, TabReceive(t)
      PROVE  OwnershipIsKnown'
  BY <1>2, TakenOwnership, GoodbyesAreTrue DEF OwnershipIsKnown
<1>3. ASSUME NEW t \in Tab, WorkerConnect(t) \/ WorkerReceive(t)
      PROVE  OwnershipIsKnown'
  <2>1. UNCHANGED <<page, runtime, sharedRuntimeOwner>>
    BY <1>3 DEF WorkerConnect, WorkerReceive, pageVars, runtimeVars
  <2> QED
    BY <1>3, <2>1, OwnerAfter, GoodbyesAreTrue DEF OwnershipIsKnown
<1>4. CASE UNCHANGED vars
  BY <1>4 DEF vars, coordinatorVars, portVars, pageVars, runtimeVars,
              OwnershipIsKnown
<1> QED
  BY <1>1, <1>2, <1>3, <1>4 DEF Next

-----------------------------------------------------------------------------
(***************************************************************************)
(* The invariant, and what it shows.                                       *)
(***************************************************************************)
\* At the beginning nothing was posted, issued or started.
LEMMA RuntimeInit == Init => RuntimeInv
<1> SUFFICES ASSUME Init PROVE RuntimeInv
  OBVIOUS
<1>1. TypeOK /\ CoordinatorInv
  BY RuntimeTypeInit, InitInv DEF Init
<1>2. /\ \A t \in Tab : Len(toWorker[t]) = 0 /\ Len(toTab[t]) = 0
      /\ \A r \in Request : requestOwners[r] = None /\ requestMethods[r] = None
  BY EmptySeq DEF Init, CoordinatorInit, NoneTracked
<1>3. OperationsAreNew
  BY <1>2 DEF OperationsAreNew, TrackedIsIssued, TransitIsUntracked,
              TransitIsUnique, Tracked
<1>4. \A t \in Tab : /\ page[t] = "unopened" /\ runtime[t] = "off"
                    /\ ~sharedRuntimeOwner[t]
  BY DEF Init
<1>5. \A t \in Tab : 1 .. Len(toWorker[t]) = {} /\ 1 .. Len(toTab[t]) = {}
  <2>1. 1 .. 0 = {}
    OBVIOUS
  <2> QED
    BY <1>2, <2>1, Zenon
<1>6. OwnershipIsKnown
  BY <1>4, <1>5, Zenon DEF OwnershipIsKnown
<1> QED
  BY <1>1, <1>3, <1>6 DEF RuntimeInv

\* Every step of tabs, worker and runtimes keeps the invariant.
LEMMA RuntimeStep == RuntimeInv /\ [Next]_vars => RuntimeInv'
<1> SUFFICES ASSUME RuntimeInv, [Next]_vars
             PROVE  RuntimeInv'
  OBVIOUS
<1>1. TypeOK /\ CoordinatorInv /\ OperationsAreNew /\ OwnershipIsKnown
  BY DEF RuntimeInv
<1>2. CoordinatorTypeOK' /\ CoordinatorInv'
  <2>1. [CoordinatorNext]_coordinatorVars
    BY <1>1, StepIsCoordinators
  <2>2. IInv
    BY <1>1 DEF IInv, TypeOK
  <2> QED
    BY <2>1, <2>2, Inductive DEF IInv
<1>3. TypeOK'
  BY <1>1, <1>2, RuntimeTypeStep
<1>4. OperationsAreNew'
  BY <1>1, CallsStayNew
<1>5. OwnershipIsKnown'
  BY <1>1, OwnershipStays DEF CoordinatorInv
<1> QED
  BY <1>2, <1>3, <1>4, <1>5 DEF RuntimeInv

(***************************************************************************)
(* In every state, every operation on its way to the worker is a new one,  *)
(* and only the coordinator's owner runs the runtime or may be told to:    *)
(* requests are tracked from their forwarding, and a pagehide stops the    *)
(* runtime of its tab before the worker moves the ownership.               *)
(***************************************************************************)
THEOREM RuntimeInvariant == Spec => []RuntimeInv
<1>1. Init => RuntimeInv
  BY RuntimeInit
<1>2. RuntimeInv /\ [Next]_vars => RuntimeInv'
  BY RuntimeStep
<1> QED
  BY <1>1, <1>2, PTL DEF Spec

(***************************************************************************)
(* The variables of tabs, worker and runtimes keep their types.            *)
(***************************************************************************)
THEOREM RuntimeTypeCorrect == Spec => []TypeOK
<1>1. RuntimeInv => TypeOK
  BY DEF RuntimeInv
<1> QED
  BY <1>1, RuntimeInvariant, PTL

(***************************************************************************)
(* Joined with real tabs, the worker of openclaw-shared-worker.ts takes    *)
(* only steps of the coordinator among arbitrary tabs: no tab submits an   *)
(* operation under the identifier of a request that is being tracked.      *)
(***************************************************************************)
THEOREM RuntimeImplementsCoordinator == Spec => CoordinatorSpec
<1>1. Init => CoordinatorInit
  BY DEF Init
<1>2. RuntimeInv /\ [Next]_vars => [CoordinatorNext]_coordinatorVars
  BY StepIsCoordinators DEF RuntimeInv
<1> QED
  BY <1>1, <1>2, RuntimeInvariant, PTL DEF Spec, CoordinatorSpec

(***************************************************************************)
(* So the coordinator's flags, keys, waiters, cache and snapshot stay      *)
(* consistent with its requests while tabs open, close and crash.          *)
(***************************************************************************)
THEOREM CoordinatorStaysConsistent == Spec => []CoordinatorInv
<1>1. RuntimeInv => CoordinatorInv
  BY DEF RuntimeInv
<1> QED
  BY <1>1, RuntimeInvariant, PTL

(***************************************************************************)
(* At any time at most one tab has started the OpenClaw runtime (the       *)
(* cross-tab runtime ownership of docs/architecture.md), however tabs      *)
(* open, close and crash and whatever the ports still carry.               *)
(***************************************************************************)
THEOREM OneRuntime == Spec => []SingleRuntime
<1>1. RuntimeInv => SingleRuntime
  BY DEF RuntimeInv, OwnershipIsKnown, SingleRuntime
<1> QED
  BY <1>1, RuntimeInvariant, PTL

=============================================================================
