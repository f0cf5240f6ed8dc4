------------------------ MODULE GatewayConfigProofs ------------------------
(***************************************************************************)
(* The configuration of a running Gateway, for any operations, any number    *)
(* of probes, settings and mishaps.  None of the properties is inductive:    *)
(* what a tab is told rests on what the files of the mailbox still hold.     *)
(***************************************************************************)
EXTENDS GatewayConfig, TLAPS, FiniteSetTheorems, SequenceTheorems

(***************************************************************************)
(* The mailbox.  A response file belongs to the call in flight; the guest    *)
(* works on a request that is still there; and what the call's file holds is *)
(* what its step asks.                                                       *)
(***************************************************************************)
ResponsesAreAwaited ==
  \A i \in Id : responses[i] # None => call # None /\ call.id = i

JobHasItsRequest == job # None => alive /\ requests[job.id] \in RpcRecord

RequestOfStep == [method |-> MethodOf[step], base |-> baseHash, for |-> current]

CallFitsStep ==
  call # None =>
    /\ step \in DOMAIN MethodOf
    /\ step = "probe" => probes < MaxProbes
    /\ call.at = "writing" => requests[call.id] \in {None, Torn}
    /\ call.at = "polling" => requests[call.id] \in {None, RequestOfStep}

\* A request that was given up, or answered and not removed, costs a mishap: an
\* id is left for the next call.
Awaited(i) == call # None /\ call.id = i /\ responses[i] = None
LeftBehind == {i \in Id : requests[i] # None /\ ~Awaited(i)}
IdsSuffice == Cardinality(LeftBehind) <= mishaps

-----------------------------------------------------------------------------
\* Whose turn it is.
StepFitsOperation ==
  /\ current = None <=> step = "idle"
  /\ step = "booting" => current \in Attach
  /\ step = "calling" => current \in Rpc
  /\ step \notin {"idle", "booting", "calling"} =>
       current \in Configure /\ bridge # None

AskedOnce ==
  /\ \A i \in 1..Len(queue) : queue[i] \in asked /\ queue[i] # current
  /\ \A i, j \in 1..Len(queue) : queue[i] = queue[j] => i = j
  /\ current # None => current \in asked

-----------------------------------------------------------------------------
\* A result is the one its step asks for.
AnswerFits ==
  \A i \in Id : responses[i] # None /\ responses[i].ok =>
    /\ step \in {"inspect", "verify"} => responses[i].result \in ConfigFile
    /\ step = "probe" => responses[i].result \in {None, loaded}
    /\ step = "calling" => executions[current] >= 1

\* Only the attached capability's model is ever configured or loaded.
OneModel ==
  /\ config.model # None => config.model = bridge
  /\ loaded # None => loaded = bridge /\ config.model = bridge

\* A Wizard call is in one place: not sent yet, in one request file, or run;
\* run and in its file only as often as that could not be removed.
Unsent(o) ==
  \/ o \notin asked
  \/ \E i \in 1..Len(queue) : queue[i] = o
  \/ current = o /\ (call = None \/ call.at = "writing")
Asks(i, o) ==
  requests[i] # None /\ requests[i].method = "wizard" /\ requests[i].for = o

CallIsInOnePlace ==
  \A o \in Rpc :
    /\ executions[o] <= 1 + kept[o]
    /\ Unsent(o) => executions[o] = 0 /\ \A i \in Id : ~Asks(i, o)
    /\ \A i \in Id : Asks(i, o) => executions[o] <= kept[o]
    /\ \A i, j \in Id : Asks(i, o) /\ Asks(j, o) => i = j

\* What a patch is made from is the file, unless the Gateway wrote it since.
PreparedIsCurrent ==
  job # None /\ job.prepared # None /\ ~job.raced => job.prepared = config

-----------------------------------------------------------------------------
\* The steps of the page, and those of everything else.
PageMoves == PageStep \/ BootLoopbackGuest \/ \E o \in Operation : Ask(o)

Mailbox == ResponsesAreAwaited /\ JobHasItsRequest /\ CallFitsStep /\ IdsSuffice
Turns == StepFitsOperation /\ AskedOnce

ConfigInv ==
  /\ TypeOK /\ Mailbox /\ Turns
  /\ AnswerFits /\ OneModel /\ ConfiguredIsActive
  /\ CallIsInOnePlace /\ ExecutedOnce /\ PreparedIsCurrent

-----------------------------------------------------------------------------
(***************************************************************************)
(* Values.                                                                  *)
(***************************************************************************)
\* undefined is told apart from what it stands in for.
LEMMA NoneIsOther ==
  /\ None # "ok" /\ None # "error"
  /\ None \notin ConfigFile /\ None \notin RpcRecord /\ None # Torn
  /\ None \notin Response /\ None \notin PageCall /\ None \notin Job
  /\ None \notin Operation /\ None \notin Capability
BY NoneAssumption, ConfigAssumption

\* A half-written request is no request.
LEMMA TornIsNoRecord == Torn \notin RpcRecord
BY DEF Torn, RpcRecord, Method

\* What the guest answers.
LEMMA ResponseValues ==
  /\ \A v \in ConfigFile \cup Capability \cup {None} : Success(v) \in Response
  /\ \A b \in BOOLEAN : Failed(b) \in Response
  /\ \A v : Success(v).ok /\ Success(v).result = v
  /\ \A b : ~Failed(b).ok
BY DEF Success, Failed, Response

\* A failure carries how its text looks.
LEMMA ResponseForms ==
  ASSUME NEW r \in Response
  PROVE  /\ r.ok \in BOOLEAN
         /\ r.ok => r.result \in ConfigFile \cup Capability \cup {None}
         /\ ~r.ok => r.result \in BOOLEAN
BY DEF Response

\* A request that is filled in.
LEMMA RequestType ==
  ASSUME TypeOK, current # None, step \in DOMAIN MethodOf
  PROVE  RequestOfStep \in RpcRecord
BY DEF TypeOK, RequestOfStep, RpcRecord, MethodOf, Method

\* The sets of the mailbox are finite.
LEMMA MailboxIsFinite ==
  /\ IsFiniteSet(Id) /\ Cardinality(Id) = MaxMishaps + 1
  /\ \A S : S \subseteq Id => IsFiniteSet(S) /\ Cardinality(S) \in Nat
<1>1. MaxMishaps + 1 \in Int /\ ~(1 > MaxMishaps + 1)
  BY ConfigAssumption
<1>2. IsFiniteSet(Id) /\ Cardinality(Id) = MaxMishaps + 1
  BY <1>1, ConfigAssumption, FS_Interval DEF Id
<1> QED
  BY <1>2, FS_Subset, FS_CardinalityType

\* There is an id for the next call.
LEMMA IdIsFree ==
  ASSUME TypeOK, Mailbox, call = None
  PROVE  \E k \in Id : Unused(k)
<1>1. LeftBehind # Id
  <2>1. Cardinality(LeftBehind) <= mishaps /\ mishaps <= MaxMishaps
        /\ mishaps \in Nat
    BY ConfigAssumption DEF Mailbox, IdsSuffice, TypeOK
  <2>2. LeftBehind \subseteq Id /\ Cardinality(LeftBehind) \in Nat
    BY MailboxIsFinite DEF LeftBehind
  <2> QED
    BY <2>1, <2>2, MailboxIsFinite, ConfigAssumption
<1>2. PICK k \in Id : requests[k] = None
  BY <1>1 DEF LeftBehind, Awaited
<1>3. responses[k] = None
  BY <1>2 DEF Mailbox, ResponsesAreAwaited
<1>4. job # None => job.id # k
  BY <1>2, NoneIsOther DEF Mailbox, JobHasItsRequest
<1> QED
  BY <1>2, <1>3, <1>4 DEF Unused

\* The request in the guest's hands, when it is the page's present one.
LEMMA JobOfCall ==
  ASSUME TypeOK, Mailbox, job # None, call # None, call.id = job.id
  PROVE  call.at = "polling" /\ requests[job.id] = RequestOfStep
<1>1. requests[job.id] \in RpcRecord /\ call \in PageCall
  BY DEF Mailbox, JobHasItsRequest, TypeOK
<1>2. requests[job.id] # None /\ requests[job.id] # Torn
  BY <1>1, NoneIsOther, TornIsNoRecord
<1> QED
  BY <1>1, <1>2 DEF Mailbox, CallFitsStep, PageCall

-----------------------------------------------------------------------------
(***************************************************************************)
(* What an operation makes of a result or an error.                         *)
(***************************************************************************)
Advances ==
  /\ step \notin {"idle", "booting", "calling"}
  /\ step' \in {"patch", "verify", "restart", "probe"}
  /\ baseHash' \in ConfigFile \cup {None} /\ probes' \in 0..MaxProbes
  /\ UNCHANGED <<asked, queue, current, replies, bridge>>

\* An error ends the operation, except where it is provisional.
LEMMA ErrorsEffect ==
  ASSUME TypeOK, Mailbox, call # None, OnError
  PROVE  Advances \/ Reply("error")
<1>1. step \in DOMAIN MethodOf /\ (step = "probe" => probes < MaxProbes)
  BY DEF Mailbox, CallFitsStep
<1>2. CASE step = "restart"
  BY <1>2 DEF OnError, AfterRestart, Advances, TypeOK
<1>3. CASE step = "probe"
  BY <1>1, <1>3, ConfigAssumption DEF OnError, Advances, TypeOK
<1>4. CASE step \notin {"restart", "probe"}
  BY <1>4 DEF OnError
<1> QED
  BY <1>2, <1>3, <1>4

\* A result takes it on; it succeeds when the Gateway has run the call, or has
\* the attached capability's model loaded.
LEMMA ResultsEffect ==
  ASSUME ConfigInv, call # None,
         responses[call.id] # None, responses[call.id].ok,
         OnResult(responses[call.id].result)
  PROVE  \/ Advances
         \/ Reply("error")
         \/ /\ Reply("ok")
            /\ \/ step = "calling" /\ executions[current] >= 1
               \/ step = "probe" /\ bridge # None /\ loaded = bridge
<1> DEFINE v == responses[call.id].result
<1>1. /\ TypeOK /\ call.id \in Id
      /\ step \in DOMAIN MethodOf /\ (step = "probe" => probes < MaxProbes)
      /\ step \in {"inspect", "verify"} => v \in ConfigFile
      /\ step = "probe" => v \in {None, loaded} /\ bridge # None
      /\ step = "calling" => executions[current] >= 1
  BY DEF ConfigInv, Mailbox, CallFitsStep, AnswerFits, TypeOK, PageCall,
         Turns, StepFitsOperation
<1>2. CASE step = "calling"
  BY <1>1, <1>2 DEF OnResult
<1>3. CASE step = "inspect"
  BY <1>1, <1>3 DEF OnResult, Advances, TypeOK
<1>4. CASE step = "patch"
  BY <1>1, <1>4 DEF OnResult, Advances, TypeOK
<1>5. CASE step = "verify"
  BY <1>1, <1>5 DEF OnResult, Advances, TypeOK
<1>6. CASE step = "restart"
  BY <1>1, <1>6 DEF OnResult, AfterRestart, Advances, TypeOK
<1>7. CASE step = "probe"
  <2>1. CASE v = bridge
    BY <1>1, <1>7, <2>1 DEF OnResult
  <2>2. CASE v # bridge
    BY <1>1, <1>7, <2>2, ConfigAssumption DEF OnResult, Advances, TypeOK
  <2> QED
    BY <2>1, <2>2
<1> QED
  BY <1>1, <1>2, <1>3, <1>4, <1>5, <1>6, <1>7 DEF MethodOf

-----------------------------------------------------------------------------
(***************************************************************************)
(* Types.                                                                   *)
(***************************************************************************)
PageTypes ==
  /\ asked \subseteq Operation /\ queue \in Seq(Operation)
  /\ current \in Operation \cup {None}
  /\ step \in {"idle", "booting", "calling", "inspect", "patch", "verify",
               "restart", "probe"}
  /\ baseHash \in ConfigFile \cup {None} /\ probes \in 0..MaxProbes
  /\ replies \in [Operation -> {None, "ok", "error"}]
  /\ bridge \in Capability \cup {None}
MailTypes ==
  /\ call \in PageCall \cup {None}
  /\ requests \in [Id -> RpcRecord \cup {None, Torn}]
  /\ responses \in [Id -> Response \cup {None}]
  /\ kept \in [Operation -> Nat]
GuestTypes == alive \in BOOLEAN /\ job \in Job \cup {None}
GatewayTypes ==
  /\ connected \in BOOLEAN /\ gateway \in {"up", "restarting"}
  /\ loaded \in Capability \cup {None} /\ config \in ConfigFile
  /\ executions \in [Operation -> Nat]

LEMMA TypeParts ==
  TypeOK <=> /\ PageTypes /\ MailTypes /\ GuestTypes /\ GatewayTypes
             /\ mishaps \in 0..MaxMishaps
BY DEF TypeOK, PageTypes, MailTypes, GuestTypes, GatewayTypes

LEMMA TypeInit == Init => TypeOK
<1> SUFFICES ASSUME Init PROVE TypeOK
  OBVIOUS
<1>1. PageTypes
  BY ConfigAssumption, EmptySeq DEF Init, PageTypes
<1>2. MailTypes /\ GuestTypes
  BY ConfigAssumption DEF Init, MailTypes, GuestTypes
<1>3. GatewayTypes /\ mishaps \in 0..MaxMishaps
  BY ConfigAssumption DEF Init, GatewayTypes, ConfigFile
<1> QED
  BY <1>1, <1>2, <1>3, TypeParts

\* What becomes of an operation keeps the page's types.
LEMMA OutcomeTypes ==
  ASSUME PageTypes, current # None,
         Advances \/ \E o \in {"ok", "error"} : Reply(o)
  PROVE  PageTypes'
<1>1. CASE Advances
  BY <1>1 DEF PageTypes, Advances
<1>2. CASE \E o \in {"ok", "error"} : Reply(o)
  BY <1>2, ConfigAssumption DEF PageTypes, Reply, NextInQueue
<1> QED
  BY <1>1, <1>2

\* The page's steps.
LEMMA PageTypeStep ==
  ASSUME ConfigInv, PageMoves
  PROVE  TypeOK'
<1> USE DEF PageTypes, MailTypes, GuestTypes, GatewayTypes
<1>1. /\ PageTypes /\ MailTypes /\ GuestTypes /\ GatewayTypes
      /\ mishaps \in 0..MaxMishaps
  BY TypeParts DEF ConfigInv
<1>2. call # None => current # None
  BY DEF ConfigInv, Turns, StepFitsOperation, Mailbox, CallFitsStep, MethodOf
<1>3. ASSUME NEW o \in Operation, Ask(o)
      PROVE  TypeOK'
  <2>1. queue' \in Seq(Operation) /\ asked' \subseteq Operation
    BY <1>1, <1>3, AppendProperties DEF Ask
  <2> QED
    BY <1>1, <1>3, <2>1, TypeParts
    DEF Ask, TypeOK, mailVars, guestVars, gatewayVars
<1>4. CASE BeginOperation
  <2>1. Head(queue) \in Operation /\ queue' \in Seq(Operation)
    BY <1>1, <1>4, HeadTailProperties DEF BeginOperation
  <2>2. Head(queue) \in Attach => CapabilityOf[Head(queue)] \in Capability
    BY ConfigAssumption
  <2>3. PageTypes'
    <3>1. CASE Refused(Head(queue))
      BY <1>1, <1>4, <2>1, <3>1 DEF BeginOperation
    <3>2. CASE ~Refused(Head(queue))
      BY <1>1, <1>4, <2>1, <2>2, <3>2 DEF BeginOperation, FirstStep
    <3> QED
      BY <3>1, <3>2
  <2> QED
    BY <1>1, <1>4, <2>3, TypeParts
    DEF BeginOperation, TypeOK, mailVars, guestVars, gatewayVars
<1>5. CASE BootLoopbackGuest \/ ActiveDeadline
  <2>1. current # None
    BY <1>5 DEF BootLoopbackGuest, ActiveDeadline, ConfigInv, Turns,
                StepFitsOperation
  <2>2. PageTypes'
    BY <1>1, <1>5, <2>1, OutcomeTypes DEF BootLoopbackGuest, ActiveDeadline
  <2> QED
    BY <1>1, <1>5, <2>2, TypeParts
    DEF BootLoopbackGuest, ActiveDeadline, TypeOK, mailVars, guestVars, gatewayVars
<1>6. CASE CreateRequest
  <2>1. PICK i \in Id : /\ call' = [id |-> i, at |-> "writing"]
                        /\ requests' = [requests EXCEPT ![i] = Torn]
    BY <1>6, IdIsFree DEF CreateRequest, ConfigInv
  <2>2. MailTypes'
    <3>1. call' \in PageCall
      BY <2>1 DEF PageCall
    <3>2. requests' \in [Id -> RpcRecord \cup {None, Torn}]
      BY <1>1, <2>1
    <3> QED
      BY <1>1, <1>6, <3>1, <3>2 DEF CreateRequest
  <2> QED
    BY <1>1, <1>6, <2>2, TypeParts
    DEF CreateRequest, TypeOK, pageVars, guestVars, gatewayVars
<1>7. CASE CloseRequest
  <2>1. RequestOfStep \in RpcRecord
    BY <1>2, <1>7, RequestType DEF CloseRequest, ConfigInv, Mailbox, CallFitsStep
  <2>2. call \in PageCall /\ call' \in PageCall
    BY <1>1, <1>7 DEF CloseRequest, PageCall
  <2>3. requests' \in [Id -> RpcRecord \cup {None, Torn}]
    BY <1>1, <1>7, <2>1 DEF CloseRequest, RequestOfStep
  <2> QED
    BY <1>1, <1>7, <2>2, <2>3, TypeParts
    DEF CloseRequest, TypeOK, pageVars, guestVars, gatewayVars
<1>8. CASE TakeResponse
  <2>1. PageTypes' /\ call' \in PageCall \cup {None}
    <3>1. CASE call' = None /\ ~(UNCHANGED pageVars)
      <4>1. Advances \/ \E o \in {"ok", "error"} : Reply(o)
        BY <1>8, <3>1, ResultsEffect, ErrorsEffect DEF TakeResponse, ConfigInv
      <4> QED
        BY <1>1, <1>2, <1>8, <3>1, <4>1, OutcomeTypes DEF TakeResponse
    <3>2. CASE UNCHANGED pageVars
      BY <1>1, <1>8, <3>2 DEF TakeResponse, pageVars
    <3> QED
      BY <1>8, <3>1, <3>2 DEF TakeResponse
  <2>2. responses' \in [Id -> Response \cup {None}]
    BY <1>1, <1>8 DEF TakeResponse
  <2> QED
    BY <1>1, <1>8, <2>1, <2>2, TypeParts
    DEF TakeResponse, TypeOK, guestVars, gatewayVars
<1>9. CASE Deadline \/ FileOperationRejects
  <2>1. Advances \/ \E o \in {"ok", "error"} : Reply(o)
    BY <1>9, ErrorsEffect DEF Deadline, FileOperationRejects, ConfigInv
  <2>2. PageTypes'
    BY <1>1, <1>2, <1>9, <2>1, OutcomeTypes DEF Deadline, FileOperationRejects
  <2>3. mishaps' \in 0..MaxMishaps
    BY <1>1, <1>9, ConfigAssumption DEF Deadline, FileOperationRejects
  <2>4. MailTypes'
    BY <1>1, <1>9 DEF Deadline, FileOperationRejects
  <2> QED
    BY <1>1, <1>9, <2>2, <2>3, <2>4, TypeParts
    DEF Deadline, FileOperationRejects, TypeOK, guestVars, gatewayVars
<1> QED
  BY <1>3, <1>4, <1>5, <1>6, <1>7, <1>8, <1>9 DEF PageMoves, PageStep

\* Answering a request, which is then gone or kept.
LEMMA AnswerTypes ==
  ASSUME MailTypes, mishaps \in 0..MaxMishaps, NEW i \in Id,
         NEW r \in Response, Answer(i, r)
  PROVE  MailTypes' /\ mishaps' \in 0..MaxMishaps
<1>1. CASE Unlink(i)
  BY <1>1 DEF MailTypes, Answer, Unlink
<1>2. CASE Keep(i)
  BY <1>2, ConfigAssumption DEF MailTypes, Answer, Keep
<1> QED
  BY <1>1, <1>2 DEF Answer

\* The guest's steps, and the Gateway's.
LEMMA GuestTypeStep ==
  ASSUME ConfigInv,
         \/ GuestStep
         \/ Connect \/ Disconnect \/ GuestExits
         \/ GatewayReturns \/ GatewayWritesConfig
  PROVE  TypeOK'
<1> USE DEF PageTypes, GuestTypes, GatewayTypes, pageVars, TypeOK
<1>1. /\ PageTypes /\ MailTypes /\ GuestTypes /\ GatewayTypes
      /\ mishaps \in 0..MaxMishaps
  BY TypeParts DEF ConfigInv
<1>2. job # None => job.id \in Id
  BY <1>1 DEF Job
<1>3. ASSUME NEW i \in Id, ReadMailbox(i)
      PROVE  TypeOK'
  <2>1. MailTypes' /\ mishaps' \in 0..MaxMishaps /\ GuestTypes'
    <3>1. CASE requests[i] = Torn
      BY <1>1, <1>3, <3>1, AnswerTypes, ResponseValues DEF ReadMailbox
    <3>2. CASE requests[i] # Torn
      <4>1. job' \in Job
        <5>1. job' = [id |-> i, prepared |-> None, raced |-> FALSE]
          BY <1>3, <3>2, Zenon DEF ReadMailbox
        <5> QED
          BY <5>1 DEF Job
      <4> QED
        BY <1>1, <1>3, <3>2, <4>1 DEF ReadMailbox, mailVars, MailTypes
    <3> QED
      BY <3>1, <3>2
  <2> QED
    BY <1>1, <1>3, <2>1 DEF ReadMailbox, gatewayVars, MailTypes
<1>4. CASE InspectConfig \/ ConfigRejects
  <2>1. MailTypes' /\ mishaps' \in 0..MaxMishaps
    BY <1>1, <1>2, <1>4, AnswerTypes, ResponseValues
    DEF InspectConfig, ConfigRejects, InHand
  <2> QED
    BY <1>1, <1>4, <2>1
    DEF InspectConfig, ConfigRejects, gatewayVars, MailTypes
<1>5. CASE PreparePatch
  <2>1. MailTypes' /\ mishaps' \in 0..MaxMishaps /\ GuestTypes'
    <3>1. CASE config = Request(job.id).base
      <4>1. job' \in Job
        BY <1>1, <1>5, <3>1 DEF PreparePatch, Prepare, InHand, Job
      <4> QED
        BY <1>1, <1>5, <3>1, <4>1 DEF PreparePatch, Prepare, mailVars, MailTypes
    <3>2. CASE config # Request(job.id).base
      BY <1>1, <1>2, <1>5, <3>2, AnswerTypes, ResponseValues
      DEF PreparePatch, Prepare, InHand
    <3> QED
      BY <3>1, <3>2
  <2> QED
    BY <1>1, <1>5, <2>1 DEF PreparePatch, Prepare, gatewayVars, MailTypes
<1>6. CASE WritePatch
  <2>1. MailTypes' /\ mishaps' \in 0..MaxMishaps
    BY <1>1, <1>2, <1>6, AnswerTypes, ResponseValues DEF WritePatch, InHand
  <2>2. config' \in ConfigFile
    <3>1. job.prepared \in ConfigFile
      BY <1>1, <1>6 DEF WritePatch, InHand, Job
    <3> QED
      BY <1>1, <1>6, <3>1 DEF WritePatch, MergePatch, CapabilityPatch, ConfigFile
  <2> QED
    BY <1>1, <1>6, <2>1, <2>2 DEF WritePatch, MailTypes
<1>7. CASE RequestGateway \/ CloseDuringRequest
  <2>1. /\ requests[job.id] \in RpcRecord /\ job # None
    BY <1>7 DEF RequestGateway, CloseDuringRequest, Remote, InHand, ConfigInv,
                Mailbox, JobHasItsRequest
  <2>2. /\ executions' \in [Operation -> Nat]
        /\ gateway' \in {"up", "restarting"} /\ loaded' = loaded
    <3>1. requests[job.id].for \in Operation
      BY <2>1 DEF RpcRecord
    <3>2. Execute(Request(job.id)) \/ UNCHANGED <<executions, gateway, loaded>>
      BY <1>7, Zenon DEF RequestGateway, CloseDuringRequest, gatewayVars
    <3> QED
      BY <1>1, <3>1, <3>2 DEF Execute, Request
  <2>3. MailTypes' /\ mishaps' \in 0..MaxMishaps /\ job' = None
    BY <1>1, <1>2, <1>7, <2>1, AnswerTypes, ResponseValues
    DEF RequestGateway, CloseDuringRequest, Throw, Finish, Results, Remote
  <2>4. connected' \in BOOLEAN
    BY <1>7, Zenon DEF RequestGateway, CloseDuringRequest
  <2> QED
    BY <1>1, <1>7, <2>2, <2>3, <2>4
    DEF RequestGateway, CloseDuringRequest, MailTypes
<1>8. CASE ReconnectTimesOut
  <2>1. MailTypes' /\ mishaps' \in 0..MaxMishaps /\ job' = None
    BY <1>1, <1>2, <1>8, AnswerTypes, ResponseValues
    DEF ReconnectTimesOut, Finish, Remote, InHand
  <2> QED
    BY <1>1, <1>8, <2>1 DEF ReconnectTimesOut, gatewayVars, MailTypes
<1>9. CASE Connect \/ Disconnect
  <2>1. connected' \in BOOLEAN
    BY <1>9, Zenon DEF Connect, Disconnect
  <2>2. mishaps' \in 0..MaxMishaps
    BY <1>1, <1>9, ConfigAssumption DEF Connect, Disconnect
  <2> QED
    BY <1>1, <1>9, <2>1, <2>2
    DEF Connect, Disconnect, mailVars, guestVars, MailTypes
<1>10. CASE GuestExits
  <2>1. alive' \in BOOLEAN /\ connected' \in BOOLEAN
    BY <1>10, Zenon DEF GuestExits
  <2>2. mishaps' \in 0..MaxMishaps
    BY <1>1, <1>10, ConfigAssumption DEF GuestExits
  <2>3. requests' \in [Id -> RpcRecord \cup {None, Torn}]
    BY <1>1, <1>10 DEF GuestExits, MailTypes
  <2> QED
    BY <1>1, <1>10, <2>1, <2>2, <2>3 DEF GuestExits, MailTypes
<1>11. CASE GatewayReturns
  <2>1. loaded' \in Capability \cup {None}
    BY <1>1, <1>11 DEF GatewayReturns, ConfigFile
  <2> QED
    BY <1>1, <1>11, <2>1 DEF GatewayReturns, mailVars, guestVars, MailTypes
<1>12. CASE GatewayWritesConfig
  <2>1. config' \in ConfigFile
    <3>1. /\ config.model \in Capability \cup {None}
          /\ config.other \in 0..MaxWrites /\ config.other < MaxWrites
      BY <1>1, <1>12 DEF GatewayWritesConfig, ConfigFile
    <3>2. config.other + 1 \in 0..MaxWrites
      BY <3>1, ConfigAssumption
    <3> QED
      BY <1>1, <1>12, <3>1, <3>2 DEF GatewayWritesConfig, ConfigFile
  <2>2. job' \in Job \cup {None}
    BY <1>1, <1>12 DEF GatewayWritesConfig, Job
  <2> QED
    BY <1>1, <1>12, <2>1, <2>2 DEF GatewayWritesConfig, mailVars, MailTypes
<1> QED
  BY <1>3, <1>4, <1>5, <1>6, <1>7, <1>8, <1>9, <1>10, <1>11, <1>12 DEF GuestStep

LEMMA ConfigTypeStep ==
  ASSUME ConfigInv, [Next]_vars
  PROVE  TypeOK'
<1>1. CASE UNCHANGED vars
  BY <1>1 DEF ConfigInv, TypeOK, vars, pageVars, mailVars, guestVars, gatewayVars
<1> QED
  BY <1>1, PageTypeStep, GuestTypeStep DEF Next, PageMoves

-----------------------------------------------------------------------------
(***************************************************************************)
(* The mailbox.                                                             *)
(***************************************************************************)
\* Steps beside the page leave the page's variables and its call alone.
LEMMA BesideThePage ==
  ASSUME TypeOK,
         \/ GuestStep
         \/ Connect \/ Disconnect \/ GuestExits
         \/ GatewayReturns \/ GatewayWritesConfig
  PROVE  /\ UNCHANGED <<asked, queue, current, step, baseHash, probes, replies,
                        bridge, call>>
         /\ mishaps' >= mishaps
<1>1. mishaps \in Nat
  BY ConfigAssumption DEF TypeOK
<1>2. UNCHANGED call
  BY DEF GuestStep, ReadMailbox, InspectConfig, PreparePatch, Prepare, WritePatch,
         ConfigRejects, RequestGateway, CloseDuringRequest, ReconnectTimesOut,
         Connect, Disconnect, GuestExits, GatewayReturns, GatewayWritesConfig,
         Answer, Finish, Throw, mailVars, guestVars
<1>3. UNCHANGED pageVars
  BY DEF GuestStep, ReadMailbox, InspectConfig, PreparePatch, Prepare, WritePatch,
         ConfigRejects, RequestGateway, CloseDuringRequest, ReconnectTimesOut,
         Connect, Disconnect, GuestExits, GatewayReturns, GatewayWritesConfig
<1>4. \A i, r : Answer(i, r) => mishaps' = mishaps \/ mishaps' = mishaps + 1
  BY DEF Answer, Unlink, Keep
<1>5. mishaps' = mishaps \/ mishaps' = mishaps + 1
  BY <1>4 DEF GuestStep, ReadMailbox, InspectConfig, PreparePatch, Prepare,
         WritePatch, ConfigRejects, RequestGateway, CloseDuringRequest,
         ReconnectTimesOut, Connect, Disconnect, GuestExits, GatewayReturns,
         GatewayWritesConfig, Finish, Throw
<1> QED
  BY <1>1, <1>2, <1>3, <1>5 DEF pageVars

\* What the guest does with the request in its hands: it answers it, or has
\* prepared the patch.
LEMMA WorkOnJob ==
  ASSUME ConfigInv,
         \/ InspectConfig \/ PreparePatch \/ WritePatch \/ ConfigRejects
         \/ RequestGateway \/ CloseDuringRequest \/ ReconnectTimesOut
  PROVE  /\ job # None /\ alive /\ UNCHANGED alive
         /\ job.id \in Id /\ requests[job.id] \in RpcRecord
         /\ \/ job' = None /\ \E r \in Response : Answer(job.id, r)
            \/ /\ PreparePatch /\ UNCHANGED mailVars
               /\ job' = [job EXCEPT !.prepared = config]
<1>1. /\ job # None /\ alive /\ UNCHANGED alive
      /\ job \in Job /\ requests[job.id] \in RpcRecord
  BY DEF InspectConfig, PreparePatch, Prepare, WritePatch, ConfigRejects, RequestGateway,
         CloseDuringRequest, ReconnectTimesOut, Remote, InHand, ConfigInv,
         Mailbox, JobHasItsRequest, TypeOK
<1>2. config \in ConfigFile /\ loaded \in Capability \cup {None}
  BY DEF ConfigInv, TypeOK
<1> DEFINE Answered == job' = None /\ \E r \in Response : Answer(job.id, r)
           Prepared == /\ PreparePatch /\ UNCHANGED mailVars
                       /\ job' = [job EXCEPT !.prepared = config]
<1> SUFFICES Answered \/ Prepared
  BY <1>1 DEF Job
<1>3. CASE InspectConfig
  <2>1. Success(config) \in Response
    BY <1>2, ResponseValues
  <2> QED
    BY <1>3, <2>1 DEF InspectConfig
<1>4. CASE ConfigRejects
  BY <1>4, ResponseValues DEF ConfigRejects
<1>5. CASE PreparePatch
  BY <1>5, ResponseValues DEF PreparePatch, Prepare
<1>6. CASE WritePatch
  BY <1>6, ResponseValues DEF WritePatch
<1>7. CASE RequestGateway
  <2>1. Results(Request(job.id).method) \subseteq Response
    BY <1>2, <1>7, ResponseValues DEF RequestGateway, Results, Remote
  <2> QED
    BY <1>7, <2>1 DEF RequestGateway, Finish
<1>8. CASE CloseDuringRequest
  BY <1>8, ResponseValues DEF CloseDuringRequest, Throw, Finish
<1>9. CASE ReconnectTimesOut
  BY <1>9, ResponseValues DEF ReconnectTimesOut, Finish
<1> QED
  BY <1>3, <1>4, <1>5, <1>6, <1>7, <1>8, <1>9

\* Requests that are left behind, never more than the mishaps.
LEMMA NoneMoreLeftBehind ==
  ASSUME TypeOK, TypeOK', IdsSuffice, LeftBehind' \subseteq LeftBehind,
         mishaps' >= mishaps
  PROVE  IdsSuffice'
<1>1. LeftBehind \subseteq Id /\ LeftBehind' \subseteq Id /\ Id' = Id
  BY DEF LeftBehind, Awaited, Id
<1>2. Cardinality(LeftBehind') <= Cardinality(LeftBehind)
  BY <1>1, MailboxIsFinite, FS_Subset
<1>3. /\ Cardinality(LeftBehind') \in Nat /\ Cardinality(LeftBehind) \in Nat
      /\ mishaps \in Nat /\ mishaps' \in Nat
  BY <1>1, MailboxIsFinite, ConfigAssumption DEF TypeOK
<1> QED
  BY <1>2, <1>3 DEF IdsSuffice

\* One more, for one mishap.
LEMMA OneMoreLeftBehind ==
  ASSUME TypeOK, TypeOK', IdsSuffice, NEW i \in Id,
         LeftBehind' \subseteq LeftBehind \cup {i}, mishaps' = mishaps + 1
  PROVE  IdsSuffice'
<1> DEFINE Then == LeftBehind'
<1>1. LeftBehind \subseteq Id /\ LeftBehind \cup {i} \subseteq Id
      /\ Then \subseteq Id
  BY DEF LeftBehind, Id
<1>2. Then \subseteq LeftBehind \cup {i}
  OBVIOUS
<1> HIDE DEF Then
<1>3. /\ IsFiniteSet(LeftBehind) /\ IsFiniteSet(LeftBehind \cup {i})
      /\ Cardinality(LeftBehind) \in Nat
      /\ Cardinality(LeftBehind \cup {i}) \in Nat
      /\ Cardinality(Then) \in Nat
  BY <1>1, MailboxIsFinite
<1>4. Cardinality(LeftBehind \cup {i}) <= Cardinality(LeftBehind) + 1
  BY <1>3, FS_AddElement
<1>5. Cardinality(Then) <= Cardinality(LeftBehind \cup {i})
  BY <1>2, <1>3, FS_Subset
<1>6. Cardinality(LeftBehind) <= mishaps /\ mishaps \in Nat
  BY ConfigAssumption DEF IdsSuffice, TypeOK
<1> QED
  BY <1>3, <1>4, <1>5, <1>6 DEF IdsSuffice, Then

\* The guest's answer takes the request with it, or costs a mishap.
LEMMA AnswerKeepsMailbox ==
  ASSUME TypeOK, TypeOK', Mailbox, NEW i \in Id, NEW r,
         requests[i] # None, Answer(i, r), job' = None,
         UNCHANGED <<current, step, baseHash, probes>>
  PROVE  Mailbox'
<1> USE DEF Mailbox
<1>1. /\ call' = call
      /\ requests \in [Id -> RpcRecord \cup {None, Torn}]
      /\ responses \in [Id -> Response \cup {None}]
      /\ call # None => call \in PageCall
      /\ mishaps \in Nat
  BY ConfigAssumption DEF Answer, TypeOK
<1>2. /\ requests' \in {requests, [requests EXCEPT ![i] = None]}
      /\ requests' = [requests EXCEPT ![i] = None] => mishaps' >= mishaps
      /\ requests' = requests => mishaps' = mishaps + 1
    <2>1. CASE Unlink(i)
      <3>1. requests'[i] = None
        BY <1>1, <2>1 DEF Unlink
      <3> QED
        BY <1>1, <2>1, <3>1 DEF Unlink
    <2>2. CASE Keep(i)
      BY <1>1, <2>2 DEF Keep
    <2> QED
      BY <2>1, <2>2 DEF Answer
<1>3. ResponsesAreAwaited'
  BY <1>1 DEF Answer, ResponsesAreAwaited
<1>4. JobHasItsRequest'
  BY DEF JobHasItsRequest
<1>5. CallFitsStep'
  BY <1>1, <1>2, NoneIsOther DEF CallFitsStep, RequestOfStep, PageCall
<1>6. \A k \in Id : k # i => responses'[k] = responses[k]
  BY <1>1 DEF Answer
<1>7. CASE requests' = [requests EXCEPT ![i] = None]
  <2>1. LeftBehind' \subseteq LeftBehind
    BY <1>1, <1>6, <1>7 DEF LeftBehind, Awaited, Id
  <2> QED
    BY <1>2, <1>3, <1>4, <1>5, <1>7, <2>1, NoneMoreLeftBehind
<1>8. CASE requests' = requests
  <2>1. LeftBehind' \subseteq LeftBehind \cup {i}
    BY <1>1, <1>6, <1>8 DEF LeftBehind, Awaited, Id
  <2> QED
    BY <1>2, <1>3, <1>4, <1>5, <1>8, <2>1, OneMoreLeftBehind
<1> QED
  BY <1>2, <1>7, <1>8

\* The page's steps.
LEMMA MailboxPageStep ==
  ASSUME ConfigInv, TypeOK', PageMoves
  PROVE  Mailbox'
<1> USE DEF Mailbox, mailVars, guestVars, gatewayVars
<1>1. /\ TypeOK /\ Mailbox
      /\ requests \in [Id -> RpcRecord \cup {None, Torn}]
      /\ responses \in [Id -> Response \cup {None}]
      /\ call # None => call \in PageCall /\ call.id \in Id
      /\ job # None => job.id \in Id
      /\ mishaps \in Nat
  BY SMTT(30), ConfigAssumption DEF ConfigInv, TypeOK, PageCall, Job
<1>2. ASSUME UNCHANGED <<mailVars, guestVars, mishaps>>,
             \/ call = None
             \/ UNCHANGED <<current, step, baseHash, probes>>
      PROVE  Mailbox'
  <2>1. ResponsesAreAwaited' /\ JobHasItsRequest' /\ CallFitsStep'
    BY <1>1, <1>2
    DEF ResponsesAreAwaited, JobHasItsRequest, CallFitsStep, RequestOfStep
  <2>2. LeftBehind' \subseteq LeftBehind /\ mishaps' >= mishaps
    BY <1>1, <1>2 DEF LeftBehind, Awaited
  <2> QED
    BY <1>1, <2>1, <2>2, NoneMoreLeftBehind
<1>3. ASSUME NEW o \in Operation, Ask(o)
      PROVE  Mailbox'
  BY <1>2, <1>3 DEF Ask
<1>4. CASE BeginOperation \/ BootLoopbackGuest \/ ActiveDeadline
  <2>1. call = None
    BY <1>1, <1>4 DEF BeginOperation, BootLoopbackGuest, ActiveDeadline,
                      ConfigInv, Turns, StepFitsOperation, CallFitsStep, MethodOf
  <2> QED
    BY <1>2, <1>4, <2>1 DEF BeginOperation, BootLoopbackGuest, ActiveDeadline
<1>5. CASE CreateRequest
  <2>1. PICK i \in Id : /\ Unused(i)
                        /\ call' = [id |-> i, at |-> "writing"]
                        /\ requests' = [requests EXCEPT ![i] = Torn]
    BY <1>1, <1>5, IdIsFree DEF CreateRequest
  <2>2. /\ call = None /\ step \in DOMAIN MethodOf
        /\ step = "probe" => probes < MaxProbes
        /\ UNCHANGED <<current, step, baseHash, probes, responses, alive, job,
                       mishaps>>
        /\ call' \in PageCall /\ call'.id = i /\ call'.at = "writing"
        /\ call' # None
    BY <1>5, <2>1, NoneIsOther DEF CreateRequest, MayCall, pageVars, PageCall
  <2>3. ResponsesAreAwaited' /\ JobHasItsRequest'
    BY <1>1, <2>1, <2>2 DEF ResponsesAreAwaited, JobHasItsRequest, Unused
  <2>4. CallFitsStep'
    BY <1>1, <2>1, <2>2 DEF CallFitsStep
  <2>5. IdsSuffice'
    <3>1. LeftBehind' \subseteq LeftBehind
      BY <1>1, <2>1, <2>2 DEF LeftBehind, Awaited, Unused, Id
    <3> QED
      BY <1>1, <2>2, <3>1, NoneMoreLeftBehind
  <2> QED
    BY <2>3, <2>4, <2>5
<1>6. CASE CloseRequest
  <2>1. /\ call # None /\ call.at = "writing" /\ call.id \in Id
        /\ call' \in PageCall /\ call' # None
        /\ call'.id = call.id /\ call'.at = "polling"
        /\ requests' = [requests EXCEPT ![call.id] =
                          IF @ = None THEN None ELSE RequestOfStep]
        /\ UNCHANGED <<current, step, baseHash, probes, responses, alive, job,
                       mishaps>>
    BY <1>1, <1>6, NoneIsOther
    DEF CloseRequest, pageVars, PageCall, RequestOfStep
  <2>2. RequestOfStep \in RpcRecord
    BY <1>1, <2>1, RequestType
    DEF ConfigInv, Turns, StepFitsOperation, CallFitsStep, MethodOf
  <2>3. ResponsesAreAwaited'
    BY <1>1, <2>1 DEF ResponsesAreAwaited
  <2>4. JobHasItsRequest'
    BY <1>1, <2>1, JobOfCall DEF JobHasItsRequest
  <2>5. CallFitsStep'
    <3>1. RequestOfStep' = RequestOfStep
      BY <2>1 DEF RequestOfStep
    <3>2. requests'[call.id] \in {None, RequestOfStep}
      BY <1>1, <2>1
    <3> QED
      BY <1>1, <2>1, <3>1, <3>2 DEF CallFitsStep
  <2>6. IdsSuffice'
    <3>1. LeftBehind' \subseteq LeftBehind
      BY <1>1, <2>1 DEF LeftBehind, Awaited
    <3> QED
      BY <1>1, <2>1, <3>1, NoneMoreLeftBehind
  <2> QED
    BY <2>3, <2>4, <2>5, <2>6
<1>7. CASE TakeResponse
  <2>1. /\ call # None /\ call.id \in Id /\ call.at = "polling"
        /\ responses[call.id] # None
        /\ responses' = [responses EXCEPT ![call.id] = None]
        /\ UNCHANGED <<requests, alive, job, mishaps>>
        /\ \/ call' = None
           \/ UNCHANGED <<current, step, baseHash, probes, call>>
    BY <1>1, <1>7 DEF TakeResponse, pageVars
  <2>2. ResponsesAreAwaited' /\ JobHasItsRequest'
    BY <1>1, <2>1 DEF ResponsesAreAwaited, JobHasItsRequest
  <2>3. CallFitsStep'
    BY <1>1, <2>1, NoneIsOther DEF CallFitsStep, RequestOfStep
  <2>4. IdsSuffice'
    <3>1. LeftBehind' \subseteq LeftBehind
      BY <1>1, <2>1 DEF LeftBehind, Awaited, Id
    <3> QED
      BY <1>1, <2>1, <3>1, NoneMoreLeftBehind
  <2> QED
    BY <2>2, <2>3, <2>4
<1>8. CASE Deadline \/ FileOperationRejects
  <2>1. /\ call # None /\ call.id \in Id /\ call' = None
        /\ responses' \in {responses, [responses EXCEPT ![call.id] = None]}
        /\ responses'[call.id] = None
        /\ UNCHANGED <<alive, job>>
        /\ requests' \in {requests, [requests EXCEPT ![call.id] = None]}
    BY <1>1, <1>8 DEF Deadline, FileOperationRejects
  <2>2. /\ requests'[call.id] = None => mishaps' >= mishaps
        /\ requests'[call.id] # None => mishaps' = mishaps + 1
    BY <1>1, <1>8 DEF Deadline, FileOperationRejects, Unanswerable
  <2>3. ResponsesAreAwaited'
    BY <1>1, <2>1 DEF ResponsesAreAwaited
  <2>4. JobHasItsRequest'
    <3>1. CASE requests' = requests
      BY <1>1, <2>1, <3>1 DEF JobHasItsRequest
    <3>2. CASE requests' # requests
      <4>1. call.at = "writing" \/ ~alive
        BY <1>8, <3>2 DEF Deadline, FileOperationRejects
      <4>2. job # None => job.id # call.id
        BY <1>1, <2>1, <4>1, JobOfCall DEF JobHasItsRequest
      <4> QED
        BY <1>1, <2>1, <4>2 DEF JobHasItsRequest
    <3> QED
      BY <3>1, <3>2
  <2>5. CallFitsStep'
    BY <2>1 DEF CallFitsStep
  <2>6. \A k \in Id : k # call.id =>
          responses'[k] = responses[k] /\ requests'[k] = requests[k]
    BY <1>1, <2>1
  <2>7. IdsSuffice'
    <3>1. CASE requests'[call.id] = None
      <4>1. LeftBehind' \subseteq LeftBehind
        BY <1>1, <2>1, <2>6, <3>1 DEF LeftBehind, Awaited, Id
      <4> QED
        BY <1>1, <2>2, <3>1, <4>1, NoneMoreLeftBehind
    <3>2. CASE requests'[call.id] # None
      <4>1. LeftBehind' \subseteq LeftBehind \cup {call.id}
        BY <1>1, <2>1, <2>6 DEF LeftBehind, Awaited, Id
      <4> QED
        BY <1>1, <2>1, <2>2, <3>2, <4>1, OneMoreLeftBehind
    <3> QED
      BY <3>1, <3>2
  <2> QED
    BY <2>3, <2>4, <2>5, <2>7
<1> QED
  BY <1>3, <1>4, <1>5, <1>6, <1>7, <1>8 DEF PageMoves, PageStep

\* The steps beside it.
LEMMA MailboxGuestStep ==
  ASSUME ConfigInv, TypeOK',
         \/ GuestStep
         \/ Connect \/ Disconnect \/ GuestExits
         \/ GatewayReturns \/ GatewayWritesConfig
  PROVE  Mailbox'
<1> USE DEF Mailbox
<1>1. /\ TypeOK /\ Mailbox
      /\ requests \in [Id -> RpcRecord \cup {None, Torn}]
      /\ responses \in [Id -> Response \cup {None}]
      /\ job # None => job \in Job /\ job.id \in Id
  BY DEF ConfigInv, TypeOK, Job
<1>2. /\ UNCHANGED <<current, step, baseHash, probes, call>>
      /\ mishaps' >= mishaps
  BY <1>1, BesideThePage
<1>3. ASSUME UNCHANGED mailVars, JobHasItsRequest'
      PROVE  Mailbox'
  <2>1. ResponsesAreAwaited' /\ CallFitsStep'
    BY <1>1, <1>2, <1>3
    DEF ResponsesAreAwaited, CallFitsStep, RequestOfStep, mailVars
  <2>2. LeftBehind' \subseteq LeftBehind
    BY <1>2, <1>3 DEF LeftBehind, Awaited, mailVars
  <2> QED
    BY <1>1, <1>2, <1>3, <2>1, <2>2, NoneMoreLeftBehind
<1>4. ASSUME NEW i \in Id, ReadMailbox(i)
      PROVE  Mailbox'
  <2>1. CASE requests[i] = Torn
    <3>1. requests[i] # None /\ job' = None
      BY <1>4, <2>1 DEF ReadMailbox, Idle
    <3> QED
      BY <1>1, <1>2, <1>4, <2>1, <3>1, AnswerKeepsMailbox DEF ReadMailbox
  <2>2. CASE requests[i] # Torn
    BY <1>1, <1>3, <1>4, <2>2 DEF ReadMailbox, JobHasItsRequest, mailVars
  <2> QED
    BY <2>1, <2>2
<1>5. CASE \/ InspectConfig \/ PreparePatch \/ WritePatch \/ ConfigRejects
           \/ RequestGateway \/ CloseDuringRequest \/ ReconnectTimesOut
  <2>1. /\ job # None /\ alive /\ UNCHANGED alive
        /\ job.id \in Id /\ requests[job.id] \in RpcRecord
        /\ \/ job' = None /\ \E r \in Response : Answer(job.id, r)
           \/ /\ UNCHANGED mailVars
              /\ job' = [job EXCEPT !.prepared = config]
    BY <1>5, WorkOnJob
  <2>2. CASE job' = None /\ \E r \in Response : Answer(job.id, r)
    BY <1>1, <1>2, <2>1, <2>2, NoneIsOther, AnswerKeepsMailbox
  <2>3. CASE /\ UNCHANGED mailVars
             /\ job' = [job EXCEPT !.prepared = config]
    <3>1. job'.id = job.id
      BY <1>1, <2>1, <2>3 DEF Job
    <3> QED
      BY <1>3, <2>1, <2>3, <3>1 DEF JobHasItsRequest, mailVars
  <2> QED
    BY <2>1, <2>2, <2>3
<1>6. CASE Connect \/ Disconnect \/ GatewayReturns \/ GatewayWritesConfig
  <2>1. UNCHANGED mailVars /\ UNCHANGED alive
    BY <1>6 DEF Connect, Disconnect, GatewayReturns, GatewayWritesConfig,
                guestVars
  <2>2. (job' # None => job # None) /\ (job # None => job'.id = job.id)
    BY <1>1, <1>6 DEF Connect, Disconnect, GatewayReturns,
                      GatewayWritesConfig, guestVars, Job
  <2> QED
    BY <1>1, <1>3, <2>1, <2>2 DEF mailVars, JobHasItsRequest
<1>7. CASE GuestExits
  <2>1. /\ job' = None /\ UNCHANGED responses
        /\ requests' = [i \in Id |-> IF call # None /\ call.id = i
                                     THEN requests[i] ELSE None]
    BY <1>7 DEF GuestExits
  <2>2. ResponsesAreAwaited' /\ JobHasItsRequest'
    BY <1>1, <1>2, <2>1 DEF ResponsesAreAwaited, JobHasItsRequest
  <2>3. CallFitsStep'
    <3>1. call # None => call.id \in Id
      BY <1>1 DEF TypeOK, PageCall
    <3>2. call # None => requests'[call.id] = requests[call.id]
      BY <2>1, <3>1
    <3>3. \A i \in Id : requests'[i] \in {None, requests[i]}
      BY <2>1
    <3>4. RequestOfStep' = RequestOfStep
      BY <1>2 DEF RequestOfStep
    <3> QED
      BY <1>1, <1>2, <3>1, <3>2, <3>3, <3>4, NoneIsOther DEF CallFitsStep
  <2>4. LeftBehind' \subseteq LeftBehind
    BY <1>2, <2>1 DEF LeftBehind, Awaited
  <2> QED
    BY <1>1, <1>2, <2>2, <2>3, <2>4, NoneMoreLeftBehind
<1> QED
  BY <1>4, <1>5, <1>6, <1>7 DEF GuestStep

-----------------------------------------------------------------------------
(***************************************************************************)
(* Turns, and what a tab is told.                                           *)
(***************************************************************************)
\* How a step of the page leaves the operation in hand; it is told "ok" for the
\* bridge it attached, the call the Gateway ran or the model it has loaded.
Succeeds ==
  \/ current \in Attach
  \/ current \in Rpc /\ executions[current] >= 1
  \/ current \in Configure /\ bridge # None /\ loaded = bridge

LEMMA Outcomes ==
  ASSUME ConfigInv,
         \/ TakeResponse \/ Deadline \/ FileOperationRejects
         \/ ActiveDeadline \/ BootLoopbackGuest
  PROVE  /\ current \in Operation /\ UNCHANGED <<guestVars, gatewayVars>>
         /\ \/ UNCHANGED <<pageVars, call, requests>>
            \/ /\ call' = None
               /\ Advances \/ Reply("error") \/ (Reply("ok") /\ Succeeds)
<1>1. StepFitsOperation /\ TypeOK /\ Mailbox
      /\ (call # None => step \in DOMAIN MethodOf)
  BY DEF ConfigInv, Turns, Mailbox, CallFitsStep
<1>2. CASE BootLoopbackGuest \/ ActiveDeadline
  BY <1>1, <1>2
  DEF BootLoopbackGuest, ActiveDeadline, Succeeds, StepFitsOperation, MethodOf,
      Operation, mailVars
<1>3. CASE Deadline \/ FileOperationRejects
  BY <1>1, <1>3, ErrorsEffect
  DEF Deadline, FileOperationRejects, StepFitsOperation, MethodOf, TypeOK
<1>4. CASE TakeResponse
  <2>1. current \in Operation
    BY <1>1, <1>4 DEF TakeResponse, StepFitsOperation, MethodOf, TypeOK
  <2> DEFINE r == responses[call.id]
  <2>2. CASE r.ok /\ OnResult(r.result) /\ call' = None
    BY <1>1, <1>4, <2>1, <2>2, ResultsEffect
    DEF TakeResponse, Succeeds, StepFitsOperation
  <2>3. CASE ~r.ok /\ ~r.result /\ OnError /\ call' = None
    BY <1>1, <1>4, <2>1, <2>3, ErrorsEffect DEF TakeResponse
  <2>4. CASE ~r.ok /\ r.result /\ UNCHANGED <<pageVars, call>>
    BY <1>4, <2>1, <2>4 DEF TakeResponse
  <2> QED
    BY <1>4, <2>2, <2>3, <2>4 DEF TakeResponse
<1> QED
  BY <1>2, <1>3, <1>4

LEMMA TurnsStep ==
  ASSUME ConfigInv, [Next]_vars
  PROVE  Turns'
<1> USE DEF Turns
<1>1. /\ TypeOK /\ Turns /\ None \notin Operation
      /\ queue \in Seq(Operation)
  BY NoneIsOther DEF ConfigInv, TypeOK
<1>2. \A i \in 1..Len(queue) : queue[i] \in Operation
  BY <1>1, ElementOfSeq
<1>3. ASSUME UNCHANGED pageVars
      PROVE  Turns'
  BY <1>1, <1>3 DEF pageVars, StepFitsOperation, AskedOnce
<1>4. ASSUME NEW o \in Operation, Ask(o)
      PROVE  Turns'
  <2>1. /\ Len(queue') = Len(queue) + 1 /\ Len(queue) \in Nat
        /\ \A i \in 1..Len(queue) : queue'[i] = queue[i]
        /\ queue'[Len(queue) + 1] = o
    BY <1>1, <1>4, AppendProperties DEF Ask
  <2>2. /\ o \notin asked /\ asked' = asked \cup {o}
        /\ UNCHANGED <<current, step, bridge>>
    BY <1>4 DEF Ask
  <2>3. \A i \in 1..Len(queue') : i = Len(queue) + 1 \/ i \in 1..Len(queue)
    BY <2>1
  <2>4. AskedOnce'
    BY <1>1, <2>1, <2>2, <2>3 DEF AskedOnce
  <2> QED
    BY <1>1, <2>2, <2>4 DEF StepFitsOperation
<1>5. CASE BeginOperation
  <2>1. /\ current = None /\ queue # <<>>
        /\ queue' = Tail(queue) /\ asked' = asked
        /\ \/ UNCHANGED <<current, step, bridge>>
           \/ /\ ~Refused(Head(queue)) /\ current' = Head(queue)
              /\ step' = FirstStep(Head(queue))
              /\ bridge' = IF Head(queue) \in Attach
                           THEN CapabilityOf[Head(queue)] ELSE bridge
    BY <1>5 DEF BeginOperation
  <2>2. /\ Len(queue) \in Nat \ {0} /\ Head(queue) = queue[1]
        /\ Len(queue') = Len(queue) - 1
        /\ \A i \in 1..Len(queue') : queue'[i] = queue[i + 1]
    BY <1>1, <2>1, HeadTailProperties, EmptySeq
  <2>3. /\ 1 \in 1..Len(queue)
        /\ \A i \in 1..Len(queue') : i + 1 \in 1..Len(queue) /\ i + 1 # 1
    BY <2>2
  <2>4. Head(queue) \in Operation
    BY <1>2, <2>2, <2>3
  <2>5. AskedOnce'
    BY <1>1, <1>2, <2>1, <2>2, <2>3, <2>4 DEF AskedOnce
  <2>6. StepFitsOperation'
    <3>1. CASE UNCHANGED <<current, step, bridge>>
      BY <1>1, <3>1 DEF StepFitsOperation
    <3>2. CASE current' = Head(queue)
      BY <1>1, <2>1, <2>4, <3>2, ConfigAssumption
      DEF StepFitsOperation, FirstStep, Refused, Operation
    <3> QED
      BY <2>1, <3>1, <3>2
  <2> QED
    BY <2>5, <2>6
<1>6. CASE \/ TakeResponse \/ Deadline \/ FileOperationRejects
           \/ ActiveDeadline \/ BootLoopbackGuest
  <2>1. CASE Advances
    BY <1>1, <2>1 DEF Advances, StepFitsOperation, AskedOnce
  <2>2. CASE \E w \in {"ok", "error"} : Reply(w)
    BY <1>1, <1>2, <2>2 DEF Reply, NextInQueue, StepFitsOperation, AskedOnce
  <2> QED
    BY <1>3, <1>6, <2>1, <2>2, Outcomes
<1>7. CASE CreateRequest \/ CloseRequest
  BY <1>3, <1>7 DEF CreateRequest, CloseRequest
<1>8. CASE \/ GuestStep \/ Connect \/ Disconnect \/ GuestExits
           \/ GatewayReturns \/ GatewayWritesConfig
  BY <1>1, <1>3, <1>8, BesideThePage DEF pageVars
<1>9. CASE UNCHANGED vars
  BY <1>3, <1>9 DEF vars
<1> QED
  BY <1>4, <1>5, <1>6, <1>7, <1>8, <1>9 DEF PageMoves, Next, PageStep

\* The attached capability is the only model the file or the Gateway has.
LEMMA OneModelStep ==
  ASSUME ConfigInv, [Next]_vars
  PROVE  OneModel' /\ ConfiguredIsActive'
<1>1. /\ TypeOK /\ OneModel /\ ConfiguredIsActive
      /\ config \in ConfigFile
      /\ replies \in [Operation -> {None, "ok", "error"}]
  BY DEF ConfigInv, TypeOK
<1>2. ASSUME UNCHANGED <<bridge, replies>>,
             \/ UNCHANGED <<loaded, config>>
             \/ config'.model = config.model /\ UNCHANGED loaded
             \/ config'.model = bridge /\ UNCHANGED loaded
             \/ loaded' = config.model /\ UNCHANGED config
      PROVE  OneModel' /\ ConfiguredIsActive'
  BY <1>1, <1>2 DEF OneModel, ConfiguredIsActive
<1>3. ASSUME NEW o \in Operation, Ask(o)
      PROVE  OneModel' /\ ConfiguredIsActive'
  BY <1>2, <1>3 DEF Ask, gatewayVars
<1>4. CASE BeginOperation
  <2>1. /\ UNCHANGED <<loaded, config>>
        /\ \/ /\ UNCHANGED bridge
              /\ replies' = [replies EXCEPT ![Head(queue)] = "error"]
           \/ /\ UNCHANGED replies
              /\ UNCHANGED bridge \/ bridge = None
    BY <1>4 DEF BeginOperation, Refused, gatewayVars
  <2> QED
    BY <1>1, <2>1, ConfigAssumption DEF OneModel, ConfiguredIsActive, Operation
<1>5. CASE \/ TakeResponse \/ Deadline \/ FileOperationRejects
           \/ ActiveDeadline \/ BootLoopbackGuest
  <2>1. /\ UNCHANGED <<loaded, config>> /\ current \in Operation
        /\ \/ UNCHANGED <<bridge, replies>>
           \/ Reply("error")
           \/ Reply("ok") /\ Succeeds
    BY <1>5, Outcomes DEF gatewayVars, pageVars, Advances
  <2>2. CASE Reply("error")
    BY <1>1, <2>1, <2>2 DEF Reply, OneModel, ConfiguredIsActive, Operation
  <2>3. CASE Reply("ok") /\ Succeeds
    <3>1. /\ replies' = [replies EXCEPT ![current] = "ok"] /\ bridge' = bridge
      BY <2>3 DEF Reply
    <3>2. CASE current \in Configure
      BY <1>1, <2>1, <2>3, <3>1, <3>2, ConfigAssumption
      DEF Succeeds, OneModel, ConfiguredIsActive, Operation
    <3>3. CASE current \notin Configure
      BY <1>1, <2>1, <3>1, <3>3 DEF OneModel, ConfiguredIsActive, Operation
    <3> QED
      BY <3>2, <3>3
  <2> QED
    BY <1>2, <2>1, <2>2, <2>3
<1>6. CASE CreateRequest \/ CloseRequest
  BY <1>2, <1>6 DEF CreateRequest, CloseRequest, pageVars, gatewayVars
<1>7. ASSUME UNCHANGED <<bridge, replies>>,
             \/ GuestStep \/ Connect \/ Disconnect \/ GuestExits
             \/ GatewayReturns \/ GatewayWritesConfig
      PROVE  OneModel' /\ ConfiguredIsActive'
  <2>1. CASE WritePatch
    <3>1. UNCHANGED loaded
      BY <2>1 DEF WritePatch
    <3>2. job.prepared \in ConfigFile
      BY <1>1, <2>1 DEF WritePatch, InHand, TypeOK, Job
    <3>3. config'.model = bridge
      BY <2>1, <3>2 DEF WritePatch, MergePatch, CapabilityPatch, ConfigFile
    <3> QED
      BY <1>2, <1>7, <3>1, <3>3
  <2>2. CASE GatewayReturns
    BY <1>2, <1>7, <2>2 DEF GatewayReturns
  <2>3. CASE GatewayWritesConfig
    BY <1>1, <1>2, <1>7, <2>3 DEF GatewayWritesConfig, ConfigFile
  <2>4. ASSUME NEW i \in Id, ReadMailbox(i)
        PROVE  UNCHANGED <<loaded, config>>
    BY <2>4 DEF ReadMailbox, gatewayVars
  <2>5. CASE InspectConfig \/ PreparePatch \/ ConfigRejects \/ ReconnectTimesOut
    BY <1>2, <1>7, <2>5
    DEF InspectConfig, PreparePatch, Prepare, ConfigRejects, ReconnectTimesOut, gatewayVars
  <2>6. CASE RequestGateway \/ CloseDuringRequest
    BY <1>2, <1>7, <2>6 DEF RequestGateway, CloseDuringRequest, Execute
  <2>7. CASE Connect \/ Disconnect \/ GuestExits
    BY <1>2, <1>7, <2>7 DEF Connect, Disconnect, GuestExits
  <2> QED
    BY <1>2, <1>7, <2>1, <2>2, <2>3, <2>4, <2>5, <2>6, <2>7 DEF GuestStep
<1>8. CASE UNCHANGED vars
  BY <1>2, <1>8 DEF vars, pageVars, gatewayVars
<1> QED
  BY <1>1, <1>3, <1>4, <1>5, <1>6, <1>7, <1>8, BesideThePage DEF PageMoves, Next, PageStep

-----------------------------------------------------------------------------
(***************************************************************************)
(* Wizard calls.                                                            *)
(***************************************************************************)
\* Steps beside the page run a call only with the request that asks for it,
\* which is gone afterwards or counted as kept.
KeptOrGone(k, o) ==
  \/ requests' = [requests EXCEPT ![k] = None] /\ UNCHANGED kept
  \/ /\ UNCHANGED requests
     /\ kept' = [p \in Operation |-> IF p = o THEN kept[p] + 1 ELSE kept[p]]

\* An answer adds to the requests nothing, and takes from the counts nothing.
LEMMA AnswersEffect ==
  ASSUME TypeOK, NEW i \in Id, NEW r, Answer(i, r)
  PROVE  /\ KeptOrGone(i, requests[i].for)
         /\ \A k \in Id : requests'[k] \in {None, requests[k]}
         /\ \A o \in Operation : kept'[o] >= kept[o]
<1>1. CASE Unlink(i)
  BY <1>1 DEF TypeOK, Unlink, KeptOrGone
<1>2. CASE Keep(i)
  BY <1>2 DEF TypeOK, Keep, KeptOrGone
<1> QED
  BY <1>1, <1>2 DEF Answer

LEMMA GuestsEffect ==
  ASSUME ConfigInv,
         \/ GuestStep
         \/ Connect \/ Disconnect \/ GuestExits
         \/ GatewayReturns \/ GatewayWritesConfig
  PROVE  \/ /\ UNCHANGED executions
            /\ \A i \in Id : requests'[i] \in {None, requests[i]}
            /\ \A o \in Operation : kept'[o] >= kept[o]
         \/ \E k \in Id, o \in Operation :
              /\ Asks(k, o) /\ executions' = [executions EXCEPT ![o] = @ + 1]
              /\ KeptOrGone(k, o)
<1>1. /\ requests \in [Id -> RpcRecord \cup {None, Torn}]
      /\ job # None => job.id \in Id /\ requests[job.id] \in RpcRecord
      /\ TypeOK /\ kept \in [Operation -> Nat]
  BY DEF ConfigInv, TypeOK, Mailbox, JobHasItsRequest, Job
<1> DEFINE Harmless == /\ \A i \in Id : requests'[i] \in {None, requests[i]}
                       /\ \A o \in Operation : kept'[o] >= kept[o]
<1>2. ASSUME UNCHANGED <<requests, kept>>
      PROVE  Harmless
  BY <1>1, <1>2
<1>3. ASSUME NEW i \in Id, NEW r, Answer(i, r)
      PROVE  Harmless
  BY <1>1, <1>3, AnswersEffect
<1> HIDE DEF Harmless
<1>4. ASSUME NEW i \in Id, ReadMailbox(i)
      PROVE  UNCHANGED executions /\ Harmless
  BY <1>2, <1>3, <1>4 DEF ReadMailbox, mailVars, gatewayVars
<1>5. CASE InspectConfig \/ PreparePatch \/ WritePatch \/ ConfigRejects
           \/ ReconnectTimesOut
  <2>1. UNCHANGED executions /\ job # None
    BY <1>5 DEF InspectConfig, PreparePatch, Prepare, WritePatch, ConfigRejects,
                ReconnectTimesOut, Remote, InHand, gatewayVars
  <2>2. \/ UNCHANGED <<requests, kept>>
        \/ \E r : Answer(job.id, r)
    BY <1>5 DEF InspectConfig, PreparePatch, Prepare, WritePatch, ConfigRejects,
                ReconnectTimesOut, Finish, mailVars
  <2>3. Harmless
    BY <1>1, <1>2, <1>3, <2>1, <2>2
  <2> QED
    BY <2>1, <2>3 DEF Harmless
<1>6. CASE RequestGateway \/ CloseDuringRequest
  <2>1. /\ job # None /\ \E r : Answer(job.id, r)
        /\ Execute(Request(job.id)) \/ UNCHANGED executions
    BY <1>6 DEF RequestGateway, CloseDuringRequest, Remote, InHand, Throw, Finish
  <2>2. Harmless /\ KeptOrGone(job.id, requests[job.id].for)
    BY <1>1, <1>3, <2>1, AnswersEffect
  <2>3. CASE UNCHANGED executions
    BY <2>2, <2>3 DEF Harmless
  <2>4. CASE Execute(Request(job.id)) /\ requests[job.id].method = "wizard"
    <3>1. /\ requests[job.id].for \in Operation /\ requests[job.id] # None
          /\ executions' =
               [executions EXCEPT ![requests[job.id].for] = @ + 1]
      BY <1>1, <2>1, <2>4, NoneIsOther DEF Execute, Request, RpcRecord
    <3>2. Asks(job.id, requests[job.id].for)
      BY <2>4, <3>1 DEF Asks
    <3> QED
      BY <1>1, <2>1, <2>2, <3>1, <3>2
  <2>5. CASE Execute(Request(job.id)) /\ requests[job.id].method # "wizard"
    BY <2>2, <2>5 DEF Execute, Request, Harmless
  <2> QED
    BY <2>1, <2>3, <2>4, <2>5
<1>7. CASE Connect \/ Disconnect \/ GatewayReturns \/ GatewayWritesConfig
  <2>1. UNCHANGED <<requests, kept, executions>>
    BY <1>7 DEF Connect, Disconnect, GatewayReturns, GatewayWritesConfig,
                mailVars
  <2> QED
    BY <1>2, <2>1 DEF Harmless
<1>8. CASE GuestExits
  BY <1>1, <1>8 DEF GuestExits
<1> QED
  BY <1>4, <1>5, <1>6, <1>7, <1>8 DEF GuestStep, Harmless

\* The page's steps run none, and send the one in hand only.
LEMMA PagesEffect ==
  ASSUME ConfigInv, PageMoves
  PROVE  /\ UNCHANGED <<executions, kept>>
         /\ \A o \in Rpc : Unsent(o)' => Unsent(o)
         /\ \/ \A i \in Id : requests'[i] \in {None, Torn, requests[i]}
            \/ /\ CloseRequest /\ call.id \in Id /\ ~Unsent(current)'
               /\ requests' = [requests EXCEPT ![call.id] = RequestOfStep]
<1>1. /\ TypeOK /\ Mailbox /\ Turns /\ None \notin Operation
      /\ requests \in [Id -> RpcRecord \cup {None, Torn}]
      /\ queue \in Seq(Operation)
      /\ call # None => call \in PageCall /\ call.id \in Id
  BY NoneIsOther DEF ConfigInv, TypeOK, PageCall
<1>2. ASSUME NEW o \in Operation, Ask(o)
      PROVE  /\ UNCHANGED <<executions, kept, requests>>
             /\ \A p \in Rpc : Unsent(p)' => Unsent(p)
  <2>1. /\ Len(queue') = Len(queue) + 1 /\ Len(queue) \in Nat
        /\ \A i \in 1..Len(queue) : queue'[i] = queue[i]
        /\ queue'[Len(queue) + 1] = o
    BY <1>1, <1>2, AppendProperties DEF Ask
  <2>2. \A i \in 1..Len(queue') : i = Len(queue) + 1 \/ i \in 1..Len(queue)
    BY <2>1
  <2>3. /\ o \notin asked /\ asked' = asked \cup {o}
        /\ UNCHANGED <<current, call, executions, kept, requests>>
    BY <1>2 DEF Ask, gatewayVars, mailVars
  <2> QED
    BY <2>1, <2>2, <2>3 DEF Unsent
<1>3. CASE BeginOperation
  <2>1. /\ queue # <<>> /\ queue' = Tail(queue)
        /\ current' \in {current, Head(queue)}
        /\ UNCHANGED <<asked, call, executions, kept, requests>>
    BY <1>3 DEF BeginOperation, gatewayVars, mailVars
  <2>2. /\ Len(queue) \in Nat \ {0} /\ Head(queue) = queue[1]
        /\ Len(queue') = Len(queue) - 1
        /\ \A i \in 1..Len(queue') : queue'[i] = queue[i + 1]
    BY <1>1, <2>1, HeadTailProperties, EmptySeq
  <2>3. /\ 1 \in 1..Len(queue)
        /\ \A i \in 1..Len(queue') : i + 1 \in 1..Len(queue)
    BY <2>2
  <2> QED
    BY <2>1, <2>2, <2>3 DEF Unsent
<1>4. CASE \/ TakeResponse \/ Deadline \/ FileOperationRejects
           \/ ActiveDeadline \/ BootLoopbackGuest
  <2>1. /\ UNCHANGED <<executions, kept>> /\ current \in Operation
        /\ \/ UNCHANGED <<pageVars, call, requests>>
           \/ /\ call' = None
              /\ Advances \/ Reply("error") \/ Reply("ok")
    BY <1>4, Outcomes
    DEF gatewayVars, TakeResponse, Deadline, FileOperationRejects,
        ActiveDeadline, BootLoopbackGuest, mailVars
  <2>2. \A i \in Id : requests'[i] \in {None, requests[i]}
    BY <1>1, <1>4
    DEF TakeResponse, Deadline, FileOperationRejects, ActiveDeadline,
        BootLoopbackGuest, mailVars
  <2>3. CASE Advances
    <3>1. current \in Configure
      BY <1>1, <2>3 DEF Advances, Turns, StepFitsOperation
    <3> QED
      BY <2>1, <2>2, <2>3, <3>1, ConfigAssumption DEF Advances, Unsent
  <2>4. CASE Reply("error") \/ Reply("ok")
    BY <1>1, <2>1, <2>2, <2>4 DEF Reply, NextInQueue, Unsent, Operation
  <2>5. CASE UNCHANGED <<pageVars, call, requests>>
    BY <2>1, <2>5 DEF Unsent, pageVars
  <2> QED
    BY <2>1, <2>3, <2>4, <2>5
<1>5. CASE CreateRequest
  <2>1. call = None /\ UNCHANGED <<asked, queue, current, executions, kept>>
    BY <1>5 DEF CreateRequest, pageVars, gatewayVars
  <2>2. \A i \in Id : requests'[i] \in {Torn, requests[i]}
    BY <1>1, <1>5 DEF CreateRequest
  <2> QED
    BY <2>1, <2>2 DEF Unsent
<1>6. CASE CloseRequest
  <2>1. /\ UNCHANGED <<asked, queue, current, executions, kept>>
        /\ call # None /\ call.at = "writing"
        /\ call' = [call EXCEPT !.at = "polling"]
        /\ requests' = [requests EXCEPT ![call.id] =
                          IF @ = None THEN None ELSE RequestOfStep]
    BY <1>6 DEF CloseRequest, pageVars, gatewayVars, RequestOfStep
  <2>2. \A o \in Rpc : Unsent(o)' => Unsent(o)
    BY <2>1 DEF Unsent
  <2>3. ~Unsent(current)'
    <3>1. call' # None /\ call'.at = "polling"
      BY <1>1, <2>1, NoneIsOther DEF PageCall
    <3>2. current \in asked /\ \A i \in 1..Len(queue) : queue[i] # current
      BY <1>1, <2>1
      DEF Turns, StepFitsOperation, AskedOnce, Mailbox, CallFitsStep, MethodOf
    <3> QED
      BY <2>1, <3>1, <3>2 DEF Unsent
  <2>4. CASE requests[call.id] = None
    BY <1>1, <2>1, <2>2, <2>4
  <2>5. CASE requests[call.id] # None
    BY <1>1, <1>6, <2>1, <2>2, <2>3, <2>5
  <2> QED
    BY <2>4, <2>5
<1> QED
  BY <1>2, <1>3, <1>4, <1>5, <1>6 DEF PageMoves, PageStep

LEMMA CallStep ==
  ASSUME ConfigInv, [Next]_vars
  PROVE  CallIsInOnePlace'
<1>1. /\ CallIsInOnePlace /\ None # Torn
      /\ requests \in [Id -> RpcRecord \cup {None, Torn}]
      /\ executions \in [Operation -> Nat] /\ Rpc \subseteq Operation
      /\ kept \in [Operation -> Nat]
  BY NoneIsOther DEF ConfigInv, TypeOK, Operation
<1>2. \A o \in Rpc : /\ executions[o] \in Nat /\ executions'[o] \in Nat
                     /\ kept[o] \in Nat /\ kept'[o] \in Nat
  <2>1. TypeOK'
    BY ConfigTypeStep
  <2> QED
    BY <2>1 DEF ConfigInv, TypeOK, Operation
<1>3. CASE PageMoves
  <2>1. /\ UNCHANGED <<executions, kept>>
        /\ \A o \in Rpc : Unsent(o)' => Unsent(o)
        /\ \/ \A i \in Id : requests'[i] \in {None, Torn, requests[i]}
           \/ /\ CloseRequest /\ call.id \in Id /\ ~Unsent(current)'
              /\ requests' = [requests EXCEPT ![call.id] = RequestOfStep]
    BY <1>3, PagesEffect
  <2>2. CASE \A i \in Id : requests'[i] \in {None, Torn, requests[i]}
    <3>1. \A i \in Id, o \in Rpc : Asks(i, o)' => Asks(i, o)
      BY <2>2 DEF Asks, Torn
    <3> QED
      BY <1>1, <2>1, <3>1 DEF CallIsInOnePlace
  <2>3. CASE /\ CloseRequest /\ call.id \in Id /\ ~Unsent(current)'
             /\ requests' = [requests EXCEPT ![call.id] = RequestOfStep]
    <3>1. \A i \in Id, o \in Rpc :
            Asks(i, o)' => Asks(i, o) \/ (i = call.id /\ o = current)
      BY <1>1, <2>3 DEF Asks, RequestOfStep
    <3>2. Unsent(current) /\ current' = current
      BY <2>3 DEF CloseRequest, Unsent, pageVars
    <3> QED
      BY <1>1, <2>1, <2>3, <3>1, <3>2 DEF CallIsInOnePlace
  <2> QED
    BY <2>1, <2>2, <2>3
<1>4. CASE \/ GuestStep \/ Connect \/ Disconnect \/ GuestExits
           \/ GatewayReturns \/ GatewayWritesConfig
  <2>1. \A o \in Rpc : Unsent(o)' <=> Unsent(o)
    BY <1>4, BesideThePage DEF ConfigInv, Unsent
  <2>2. CASE /\ UNCHANGED executions
             /\ \A i \in Id : requests'[i] \in {None, requests[i]}
             /\ \A o \in Operation : kept'[o] >= kept[o]
    <3>1. \A i \in Id, o \in Rpc : Asks(i, o)' => Asks(i, o)
      BY <2>2 DEF Asks
    <3> QED
      BY <1>1, <1>2, <2>1, <2>2, <3>1 DEF CallIsInOnePlace
  <2>3. ASSUME NEW k \in Id, NEW p \in Operation, Asks(k, p),
               executions' = [executions EXCEPT ![p] = @ + 1], KeptOrGone(k, p)
        PROVE  CallIsInOnePlace'
    <3>1. /\ \A o \in Rpc : o # p => executions'[o] = executions[o]
          /\ \A o \in Rpc : o # p => kept'[o] = kept[o]
          /\ executions'[p] = executions[p] + 1
      BY <1>1, <2>3 DEF KeptOrGone
    <3>2. p \in Rpc => executions[p] <= kept[p] /\ ~Unsent(p)
      BY <1>1, <2>3 DEF CallIsInOnePlace
    <3>3. CASE requests' = [requests EXCEPT ![k] = None] /\ UNCHANGED kept
      <4>1. \A i \in Id, o \in Rpc : Asks(i, o)' => Asks(i, o) /\ i # k
        BY <1>1, <3>3 DEF Asks
      <4>2. \A i \in Id : p \in Rpc => ~Asks(i, p)'
        BY <1>1, <2>3, <4>1 DEF CallIsInOnePlace
      <4> QED
        BY <1>1, <1>2, <2>1, <3>1, <3>2, <3>3, <4>1, <4>2 DEF CallIsInOnePlace
    <3>4. CASE UNCHANGED requests /\ kept'[p] = kept[p] + 1
      <4>1. \A i \in Id, o \in Rpc : Asks(i, o)' <=> Asks(i, o)
        BY <3>4 DEF Asks
      <4> QED
        BY <1>1, <1>2, <2>1, <3>1, <3>2, <3>4, <4>1 DEF CallIsInOnePlace
    <3> QED
      BY <1>1, <2>3, <3>3, <3>4 DEF KeptOrGone
  <2> QED
    BY <1>4, <2>2, <2>3, GuestsEffect
<1>5. CASE UNCHANGED vars
  BY <1>1, <1>5
  DEF CallIsInOnePlace, Unsent, Asks, vars, pageVars, mailVars, gatewayVars
<1> QED
  BY <1>3, <1>4, <1>5 DEF Next, PageMoves

\* A tab is told of a success only after the call's one run.
LEMMA ExecutedOnceStep ==
  ASSUME ConfigInv, [Next]_vars
  PROVE  ExecutedOnce'
<1>1. /\ CallIsInOnePlace /\ ExecutedOnce
      /\ executions \in [Operation -> Nat] /\ Rpc \subseteq Operation
      /\ replies \in [Operation -> {None, "ok", "error"}]
  BY DEF ConfigInv, TypeOK, Operation
<1>2. CallIsInOnePlace'
  BY CallStep
<1>3. CASE PageMoves
  <2>1. UNCHANGED <<executions, kept>>
    BY <1>3, PagesEffect
  <2>2. \A o \in Rpc : replies'[o] = "ok" =>
          replies[o] = "ok" \/ executions[o] >= 1
    <3>1. CASE (\E o \in Operation : Ask(o)) \/ CreateRequest \/ CloseRequest
      BY <3>1 DEF Ask, CreateRequest, CloseRequest, pageVars
    <3>2. CASE BeginOperation
      <4>1. replies' \in {replies, [replies EXCEPT ![Head(queue)] = "error"]}
        BY <3>2 DEF BeginOperation
      <4> QED
        BY <1>1, <4>1
    <3>3. CASE \/ TakeResponse \/ Deadline \/ FileOperationRejects
           \/ ActiveDeadline \/ BootLoopbackGuest
      <4>1. /\ current \in Operation
            /\ \/ UNCHANGED replies
               \/ Reply("error")
               \/ Reply("ok") /\ Succeeds
        BY <3>3, Outcomes DEF Advances, pageVars
      <4>2. CASE Reply("ok") /\ Succeeds
        BY <1>1, <4>1, <4>2, ConfigAssumption DEF Reply, Succeeds
      <4> QED
        BY <1>1, <4>1, <4>2 DEF Reply
    <3> QED
      BY <1>3, <3>1, <3>2, <3>3 DEF PageMoves, PageStep
  <2> QED
    BY <1>1, <2>1, <2>2 DEF ExecutedOnce
<1>4. CASE \/ GuestStep \/ Connect \/ Disconnect \/ GuestExits
           \/ GatewayReturns \/ GatewayWritesConfig
  <2>1. UNCHANGED replies
    BY <1>4, BesideThePage DEF ConfigInv
  <2>2. \A o \in Rpc : executions[o] >= 1 => executions'[o] >= 1
    BY <1>1, <1>4, GuestsEffect DEF CallIsInOnePlace
  <2> QED
    BY <1>1, <1>2, <2>1, <2>2 DEF ExecutedOnce, CallIsInOnePlace
<1>5. CASE UNCHANGED vars
  BY <1>1, <1>5 DEF ExecutedOnce, vars, pageVars, mailVars, gatewayVars
<1> QED
  BY <1>3, <1>4, <1>5 DEF Next, PageMoves

-----------------------------------------------------------------------------
(***************************************************************************)
(* Answers.                                                                 *)
(***************************************************************************)
\* A response of success that a step of the guest adds is what the page's step
\* asks for.
LEMMA NewAnswerFits ==
  ASSUME ConfigInv, GuestStep, NEW i \in Id,
         responses'[i] # None, responses'[i].ok, responses'[i] # responses[i]
  PROVE  /\ step \in {"inspect", "verify"} => responses'[i].result \in ConfigFile
         /\ step = "probe" => responses'[i].result \in {None, loaded'}
         /\ step = "calling" => executions'[current] >= 1
<1>1. /\ TypeOK /\ Mailbox /\ config \in ConfigFile
      /\ requests \in [Id -> RpcRecord \cup {None, Torn}]
      /\ responses \in [Id -> Response \cup {None}]
      /\ \A v \in ConfigFile \cup Capability \cup {None} : Success(v).result = v
      /\ \A b \in BOOLEAN : ~Failed(b).ok
  BY ResponseValues DEF ConfigInv, TypeOK
<1>2. \A k \in Id : \A r :
        Answer(k, r) /\ responses'[i] # responses[i] =>
        call # None /\ call.id = k /\ k = i /\ responses'[i] = r
  BY <1>1 DEF Answer
<1>3. ASSUME NEW k \in Id, ReadMailbox(k)
      PROVE  FALSE
  BY <1>1, <1>2, <1>3 DEF ReadMailbox, mailVars
<1>4. ASSUME InHand, NEW r, Answer(job.id, r)
      PROVE  /\ responses'[i] = r /\ r.ok
             /\ requests[job.id] = RequestOfStep /\ step \in DOMAIN MethodOf
             /\ requests[job.id].method = MethodOf[step]
  <2>1. job # None /\ job.id \in Id
    BY <1>1, <1>4 DEF InHand, TypeOK, Job
  <2>2. call # None /\ call.id = job.id /\ responses'[i] = r
    BY <1>2, <1>4, <2>1
  <2> QED
    BY <1>1, <2>1, <2>2, JobOfCall DEF Mailbox, CallFitsStep, RequestOfStep
<1>5. CASE InspectConfig
  BY <1>1, <1>4, <1>5 DEF InspectConfig, Request, RequestOfStep, MethodOf
<1>6. CASE PreparePatch \/ ConfigRejects
  BY <1>1, <1>4, <1>6 DEF PreparePatch, Prepare, ConfigRejects, mailVars
<1>7. CASE WritePatch
  <2>1. /\ InHand /\ requests[job.id].method = "patch"
        /\ Answer(job.id, Success(None)) \/ Answer(job.id, Failed(FALSE))
    BY <1>7 DEF WritePatch, Request
  <2>2. MethodOf[step] = "patch" /\ step \in DOMAIN MethodOf
    BY <1>4, <2>1
  <2>3. step = "patch"
    BY <2>2 DEF MethodOf
  <2> QED
    BY <2>3
<1>8. CASE RequestGateway
  <2>1. PICK r \in Results(requests[job.id].method) : Answer(job.id, r)
    BY <1>8 DEF RequestGateway, Finish, Request
  <2>2. /\ responses'[i] = r /\ r.ok
        /\ requests[job.id] = RequestOfStep /\ step \in DOMAIN MethodOf
        /\ requests[job.id].method = MethodOf[step]
    BY <1>4, <1>8, <2>1 DEF RequestGateway, Remote
  <2>3. /\ step \notin {"inspect", "verify"}
        /\ step = "probe" => r = Success(loaded)
    <3>1. MethodOf[step] \in {"active", "restart", "wizard"}
      BY <1>8, <2>2 DEF RequestGateway, Remote, Request
    <3>2. step \notin {"inspect", "verify"}
      BY <3>1 DEF MethodOf
    <3>3. step = "probe" => requests[job.id].method = "active"
      BY <2>2 DEF MethodOf
    <3> QED
      BY <2>1, <3>2, <3>3 DEF Results
  <2>4. loaded' = loaded /\ loaded \in Capability \cup {None}
    BY <1>1, <1>8 DEF RequestGateway, Execute, TypeOK
  <2>5. step = "calling" => executions'[current] >= 1
    <3>1. SUFFICES ASSUME step = "calling"
                   PROVE  executions'[current] >= 1
      OBVIOUS
    <3>2. current \in Rpc /\ current \in Operation
      BY <3>1 DEF ConfigInv, Turns, StepFitsOperation, Operation
    <3>3. /\ requests[job.id].method = "wizard"
          /\ requests[job.id].for = current
          /\ requests[job.id] # None /\ job.id \in Id
      BY <1>1, <1>8, <2>2, <3>1, NoneIsOther
      DEF RequestGateway, Remote, InHand, Mailbox, JobHasItsRequest,
          RequestOfStep, MethodOf, TypeOK, Job
    <3>4. executions[current] \in Nat
      BY <3>2 DEF ConfigInv, TypeOK
    <3> QED
      BY <1>8, <3>2, <3>3, <3>4
      DEF RequestGateway, Execute, Request, ConfigInv, TypeOK
  <2> QED
    BY <1>1, <2>2, <2>3, <2>4, <2>5
<1>9. CASE CloseDuringRequest \/ ReconnectTimesOut
  BY <1>1, <1>4, <1>9
  DEF CloseDuringRequest, ReconnectTimesOut, Throw, Finish, Remote
<1> QED
  BY <1>3, <1>5, <1>6, <1>7, <1>8, <1>9 DEF GuestStep

LEMMA AnswerFitsStep ==
  ASSUME ConfigInv, [Next]_vars
  PROVE  AnswerFits'
<1>1. /\ TypeOK /\ Mailbox /\ Turns /\ AnswerFits /\ OneModel
      /\ responses \in [Id -> Response \cup {None}]
      /\ call # None => call.id \in Id
  BY DEF ConfigInv, TypeOK, PageCall
<1>2. ASSUME \A i \in Id : responses'[i] = None
      PROVE  AnswerFits'
  BY <1>2 DEF AnswerFits
<1>3. ASSUME NEW i \in Id, responses[i] # None
      PROVE  call # None /\ call.id = i
  BY <1>1, <1>3 DEF Mailbox, ResponsesAreAwaited
<1>4. CASE BeginOperation \/ BootLoopbackGuest \/ ActiveDeadline \/ CreateRequest
  <2>1. call = None /\ UNCHANGED responses
    BY <1>1, <1>4
    DEF BeginOperation, BootLoopbackGuest, ActiveDeadline, CreateRequest,
        Turns, StepFitsOperation, Mailbox, CallFitsStep, MethodOf, mailVars
  <2> QED
    BY <1>2, <1>3, <2>1
<1>5. CASE TakeResponse \/ Deadline \/ FileOperationRejects
  <2>1. \A i \in Id : responses'[i] = None
    BY <1>1, <1>3, <1>5 DEF TakeResponse, Deadline, FileOperationRejects
  <2> QED
    BY <1>2, <2>1
<1>6. CASE CloseRequest \/ (\E o \in Operation : Ask(o)) \/ UNCHANGED vars
  BY <1>1, <1>6
  DEF CloseRequest, Ask, AnswerFits, vars, pageVars, mailVars, gatewayVars
<1>7. CASE \/ GuestStep \/ Connect \/ Disconnect \/ GuestExits
           \/ GatewayReturns \/ GatewayWritesConfig
  <2>1. UNCHANGED <<current, step>>
    BY <1>1, <1>7, BesideThePage
  <2>2. loaded' = loaded \/ loaded = None
    <3>1. CASE GatewayReturns
      BY <1>1, <3>1 DEF GatewayReturns, OneModel
    <3>2. CASE GuestStep
      BY <3>2 DEF GuestStep, ReadMailbox, InspectConfig, PreparePatch, Prepare,
                  WritePatch, ConfigRejects, RequestGateway,
                  CloseDuringRequest, ReconnectTimesOut, Execute, gatewayVars
    <3>3. CASE Connect \/ Disconnect \/ GuestExits \/ GatewayWritesConfig
      BY <3>3 DEF Connect, Disconnect, GuestExits, GatewayWritesConfig
    <3> QED
      BY <1>7, <3>1, <3>2, <3>3
  <2>3. step = "calling" /\ executions[current] >= 1 => executions'[current] >= 1
    <3>1. step = "calling" => current \in Rpc
      BY <1>1 DEF Turns, StepFitsOperation
    <3> QED
      BY SMTT(30), <1>7, <3>1, GuestsEffect DEF ConfigInv, CallIsInOnePlace, TypeOK, Operation
  <2>4. ASSUME NEW i \in Id, responses'[i] # None, responses'[i].ok
        PROVE  /\ step \in {"inspect", "verify"} => responses'[i].result \in ConfigFile
               /\ step = "probe" => responses'[i].result \in {None, loaded'}
               /\ step = "calling" => executions'[current] >= 1
    <3>1. CASE responses'[i] = responses[i]
      <4>1. responses[i] # None /\ responses[i].ok
        BY <2>4, <3>1
      <4> QED
        BY <1>1, <2>2, <2>3, <3>1, <4>1 DEF AnswerFits
    <3>2. CASE responses'[i] # responses[i]
      <4>1. GuestStep
        BY <1>7, <3>2
        DEF Connect, Disconnect, GuestExits, GatewayReturns,
            GatewayWritesConfig, mailVars
      <4> QED
        BY <2>4, <3>2, <4>1, NewAnswerFits
    <3> QED
      BY <3>1, <3>2
  <2> QED
    BY <2>1, <2>4 DEF AnswerFits
<1> QED
  BY <1>4, <1>5, <1>6, <1>7 DEF PageMoves, Next, PageStep

-----------------------------------------------------------------------------
(***************************************************************************)
(* The configuration file.                                                  *)
(***************************************************************************)
\* The guest's patch and the Gateway are the only writers.
LEMMA WhoWritesConfig ==
  ASSUME [Next]_vars
  PROVE  WritePatch \/ GatewayWritesConfig \/ UNCHANGED config
BY DEF Next, PageStep, GuestStep, Ask, BeginOperation, BootLoopbackGuest,
       CreateRequest, CloseRequest, TakeResponse, Deadline,
       FileOperationRejects, ActiveDeadline, ReadMailbox, InspectConfig,
       PreparePatch, Prepare, ConfigRejects, RequestGateway,
       CloseDuringRequest, ReconnectTimesOut, Connect, Disconnect, GuestExits,
       GatewayReturns, vars, gatewayVars

\* A patch is made from the file it is written over, or from one the Gateway
\* has since written.
LEMMA PreparedStep ==
  ASSUME ConfigInv, [Next]_vars
  PROVE  PreparedIsCurrent'
<1>1. PreparedIsCurrent /\ job \in Job \cup {None} /\ job' \in Job \cup {None}
  BY ConfigTypeStep DEF ConfigInv, TypeOK
<1>2. CASE UNCHANGED <<job, config>>
  BY <1>1, <1>2 DEF PreparedIsCurrent
<1>3. CASE job' = None
  BY <1>3 DEF PreparedIsCurrent
<1>4. CASE PageMoves \/ Connect \/ Disconnect \/ GatewayReturns
           \/ UNCHANGED vars
  BY <1>2, <1>4
  DEF PageMoves, PageStep, Ask, BeginOperation, BootLoopbackGuest,
      CreateRequest, CloseRequest, TakeResponse, Deadline,
      FileOperationRejects, ActiveDeadline, Connect, Disconnect,
      GatewayReturns, vars, guestVars, gatewayVars
<1>5. ASSUME NEW i \in Id, ReadMailbox(i)
      PROVE  PreparedIsCurrent'
  <2>1. UNCHANGED job \/ job' = [id |-> i, prepared |-> None, raced |-> FALSE]
    BY <1>5, Zenon DEF ReadMailbox
  <2> QED
    BY <1>2, <1>5, <2>1 DEF ReadMailbox, gatewayVars, PreparedIsCurrent
<1>6. CASE PreparePatch
  <2>1. UNCHANGED config
    BY <1>6 DEF PreparePatch, Prepare, gatewayVars
  <2>2. job' = None \/ job' = [job EXCEPT !.prepared = config]
    BY <1>6 DEF PreparePatch, Prepare
  <2>3. job \in Job
    BY <1>1, <1>6 DEF PreparePatch, Prepare, InHand
  <2> QED
    BY <1>3, <2>1, <2>2, <2>3 DEF PreparedIsCurrent, Job
<1>7. CASE \/ InspectConfig \/ WritePatch \/ ConfigRejects \/ RequestGateway
           \/ CloseDuringRequest \/ ReconnectTimesOut \/ GuestExits
  BY <1>3, <1>7 DEF InspectConfig, WritePatch, ConfigRejects, RequestGateway,
                    CloseDuringRequest, ReconnectTimesOut, GuestExits, Finish,
                    Throw
<1>8. CASE GatewayWritesConfig
  BY <1>1, <1>8 DEF GatewayWritesConfig, PreparedIsCurrent, Job
<1> QED
  BY <1>4, <1>5, <1>6, <1>7, <1>8 DEF Next, PageMoves, GuestStep

-----------------------------------------------------------------------------
(***************************************************************************)
(* The theorems.                                                            *)
(***************************************************************************)
LEMMA ConfigInit == Init => ConfigInv
<1> SUFFICES ASSUME Init PROVE ConfigInv
  OBVIOUS
<1>1. TypeOK
  BY TypeInit
<1>2. Mailbox
  <2>1. LeftBehind = {}
    BY DEF Init, LeftBehind, Awaited
  <2>2. IdsSuffice
    BY <2>1, FS_EmptySet DEF Init, IdsSuffice
  <2> QED
    BY <2>2, NoneIsOther
    DEF Init, Mailbox, ResponsesAreAwaited, JobHasItsRequest, CallFitsStep
<1>3. Turns
  <2>1. Len(queue) = 0
    BY DEF Init
  <2> QED
    BY <2>1 DEF Init, Turns, StepFitsOperation, AskedOnce
<1>4. AnswerFits /\ OneModel /\ ConfiguredIsActive
  BY ConfigAssumption, NoneIsOther
  DEF Init, AnswerFits, OneModel, ConfiguredIsActive, Operation
<1>5. CallIsInOnePlace /\ ExecutedOnce
  BY NoneIsOther
  DEF Init, CallIsInOnePlace, ExecutedOnce, Asks, Operation
<1>6. PreparedIsCurrent
  BY DEF Init, PreparedIsCurrent
<1> QED
  BY <1>1, <1>2, <1>3, <1>4, <1>5, <1>6 DEF ConfigInv

LEMMA ConfigStep == ConfigInv /\ [Next]_vars => ConfigInv'
<1> SUFFICES ASSUME ConfigInv, [Next]_vars
             PROVE  ConfigInv'
  OBVIOUS
<1>1. TypeOK' /\ Mailbox'
  <2>1. CASE PageMoves
    BY <2>1, PageTypeStep, MailboxPageStep
  <2>2. CASE \/ GuestStep \/ Connect \/ Disconnect \/ GuestExits
             \/ GatewayReturns \/ GatewayWritesConfig
    BY <2>2, GuestTypeStep, MailboxGuestStep
  <2>3. CASE UNCHANGED vars
    BY <2>3
    DEF ConfigInv, TypeOK, Mailbox, ResponsesAreAwaited, JobHasItsRequest,
        CallFitsStep, RequestOfStep, IdsSuffice, LeftBehind, Awaited,
        vars, pageVars, mailVars, guestVars, gatewayVars
  <2> QED
    BY <2>1, <2>2, <2>3 DEF Next, PageMoves
<1> QED
  BY <1>1, TurnsStep, AnswerFitsStep, OneModelStep, CallStep, ExecutedOnceStep,
     PreparedStep
  DEF ConfigInv

\* The files of the mailbox, the step of the operation in hand and the runs of
\* the Wizard calls agree, whatever the tabs ask and however often the guest's
\* connection, its process or the Gateway's answers fail (runGatewayRpc and
\* processMailbox).
THEOREM ConfigInvariant == Spec => []ConfigInv
BY ConfigInit, ConfigStep, PTL DEF Spec

\* The types of the page's variables, the mailbox and the Gateway.
THEOREM ConfigTypeCorrect == Spec => []TypeOK
<1>1. ConfigInv => TypeOK
  BY DEF ConfigInv
<1> QED
  BY <1>1, ConfigInvariant, PTL

\* A tab that was told "configured" has the attached capability in the file
\* and in the running Gateway (configureOpenClawCapability's last probe).
THEOREM ConfiguredStaysActive == Spec => []ConfiguredIsActive
<1>1. ConfigInv => ConfiguredIsActive
  BY DEF ConfigInv
<1> QED
  BY <1>1, ConfigInvariant, PTL

\* The Gateway runs a Wizard call once at most, and once more for each time its
\* request could not be removed, and has run it when the tab is told of its
\* success: requestGateway repeats only what was never sent.
THEOREM CallsRunOnce == Spec => []ExecutedOnce
<1>1. ConfigInv => ExecutedOnce
  BY DEF ConfigInv
<1> QED
  BY <1>1, ConfigInvariant, PTL

\* A patch takes back no setting the Gateway wrote, except one that was written
\* between patchConfig's read of the file and the library's write.
THEOREM SettingsAreKept == Spec => SettingsSurvive
<1>1. ConfigInv /\ [Next]_vars =>
        [config'.other >= config.other \/ (job # None /\ job.raced)]_config
  <2> SUFFICES ASSUME ConfigInv, [Next]_vars, config' # config,
                      ~(job # None /\ job.raced)
               PROVE  config'.other >= config.other
    OBVIOUS
  <2>1. config \in ConfigFile /\ config.other \in Nat
    BY ConfigAssumption DEF ConfigInv, TypeOK, ConfigFile
  <2>2. CASE WritePatch
    <3>1. config' = MergePatch(config, CapabilityPatch(bridge))
      BY <2>2 DEF WritePatch, InHand, ConfigInv, PreparedIsCurrent
    <3>2. config'.other = config.other
      BY <2>1, <3>1 DEF MergePatch, CapabilityPatch, ConfigFile
    <3> QED
      BY <2>1, <3>2
  <2>3. CASE GatewayWritesConfig
    BY <2>1, <2>3 DEF GatewayWritesConfig, ConfigFile
  <2> QED
    BY <2>2, <2>3, WhoWritesConfig
<1> QED
  BY <1>1, ConfigInvariant, PTL DEF Spec, SettingsSurvive

=============================================================================
