--------------------------- MODULE GatewayConfig ---------------------------
(***************************************************************************)
(* What the runtime document does once its Gateway runs (the last part of   *)
(* runProbe in src/openclaw-gateway-health-probe.ts): requests of the tabs  *)
(* enter one operation queue.  An attach starts the BYOK bridge; a Wizard   *)
(* call is one RPC; a configure is a sequence of RPCs that patches          *)
(* openclaw.json, restarts the Gateway and waits for the model to be        *)
(* active.  An RPC is a request file for the guest's bridge of              *)
(* src/openclaw-wizard-rpc-bridge.ts, which holds the connection to the     *)
(* Gateway, and a response file for the page.                               *)
(*                                                                          *)
(* The Gateway, which also writes openclaw.json, and the configuration      *)
(* library are external: the library's conflict guard is not relied on.     *)
(* Capability and model are one value: createOpenClawCapabilityPatch        *)
(* derives the one from the other.                                          *)
(***************************************************************************)
EXTENDS Naturals, Sequences, FiniteSets, FiniteSetsExt

CONSTANTS
  Attach, Configure, Rpc,   \* the operations tabs ask for, each once
  Capability,               \* what they may attach
  CapabilityOf,             \* the capability of each attach operation
  None,
  MaxProbes,                \* active-model calls within 30 s
  MaxWrites,                \* bound: settings the Gateway writes
  MaxMishaps                \* bound: lost connections, exits, late answers,
                            \* file operations that fail

Operation == Attach \cup Configure \cup Rpc

ASSUME ConfigAssumption ==
  /\ IsFiniteSet(Operation) /\ None \notin Operation \cup Capability
  /\ Attach \cap Configure = {} /\ Attach \cap Rpc = {} /\ Configure \cap Rpc = {}
  /\ CapabilityOf \in [Attach -> Capability]
  /\ MaxProbes \in Nat \ {0} /\ MaxWrites \in Nat /\ MaxMishaps \in Nat

VARIABLES
  asked, queue, current,   \* operations asked for, waiting, and in hand
  step,                    \* where the one in hand stands
  baseHash, probes,        \* its local variables
  replies,                 \* what the tabs were told
  bridge,                  \* capability of byokHttpBridge
  call,                    \* id and stage of the page's RPC in flight
  requests, responses,     \* the files of the mailbox, by id
  alive, job,              \* the guest's process and the request in its hands
  connected, gateway,      \* its connection; the Gateway: up, restarting
  loaded,                  \* the primary model the Gateway runs with
  config,                  \* openclaw.json
  executions,              \* times the Gateway ran each Wizard call
  kept,                    \* history: times its request could not be unlinked
  mishaps

pageVars == <<asked, queue, current, step, baseHash, probes, replies, bridge>>
mailVars == <<call, requests, responses, kept>>
guestVars == <<alive, job>>
gatewayVars == <<connected, gateway, loaded, config, executions>>
vars == <<pageVars, mailVars, guestVars, gatewayVars, mishaps>>

-----------------------------------------------------------------------------
Id == 1..(MaxMishaps + 1)
ConfigFile == [model : Capability \cup {None}, other : 0..MaxWrites]
Method == {"inspect", "patch", "restart", "active", "wizard"}
RpcRecord == [method : Method, base : ConfigFile \cup {None}, for : Operation]
Torn == [method |-> "torn", base |-> None, for |-> None]
Success(v) == [ok |-> TRUE, result |-> v]
\* An error's text either looks like a missing file's or not.
Failed(missing) == [ok |-> FALSE, result |-> missing]
Response == [ok : {TRUE}, result : ConfigFile \cup Capability \cup {None}]
            \cup [ok : {FALSE}, result : BOOLEAN]
PageCall == [id : Id, at : {"writing", "polling"}]
\* The request in the guest's hands, the file its patch is made from, and
\* (history) whether the Gateway has written since that was read.
Job == [id : Id, prepared : ConfigFile \cup {None}, raced : BOOLEAN]

\* undefined is neither a record nor a word.
ASSUME NoneAssumption ==
  None \notin ConfigFile \cup RpcRecord \cup {Torn} \cup Response
             \cup PageCall \cup Job \cup {"ok", "error"}

TypeOK ==
  /\ asked \subseteq Operation /\ queue \in Seq(Operation)
  /\ current \in Operation \cup {None}
  /\ step \in {"idle", "booting", "calling", "inspect", "patch", "verify",
               "restart", "probe"}
  /\ baseHash \in ConfigFile \cup {None} /\ probes \in 0..MaxProbes
  /\ replies \in [Operation -> {None, "ok", "error"}]
  /\ bridge \in Capability \cup {None}
  /\ call \in PageCall \cup {None}
  /\ requests \in [Id -> RpcRecord \cup {None, Torn}]
  /\ responses \in [Id -> Response \cup {None}]
  /\ alive \in BOOLEAN
  /\ job \in Job \cup {None}
  /\ connected \in BOOLEAN /\ gateway \in {"up", "restarting"}
  /\ loaded \in Capability \cup {None} /\ config \in ConfigFile
  /\ executions \in [Operation -> Nat] /\ kept \in [Operation -> Nat]
  /\ mishaps \in 0..MaxMishaps

Init ==
  /\ asked = {} /\ queue = <<>> /\ current = None /\ step = "idle"
  /\ baseHash = None /\ probes = 0
  /\ replies = [o \in Operation |-> None]
  /\ bridge = None /\ call = None
  /\ requests = [i \in Id |-> None] /\ responses = [i \in Id |-> None]
  /\ alive = TRUE /\ job = None
  /\ connected = TRUE /\ gateway = "up" /\ loaded = None
  /\ config = [model |-> None, other |-> 0]
  /\ executions = [o \in Operation |-> 0] /\ kept = [o \in Operation |-> 0]
  /\ mishaps = 0

-----------------------------------------------------------------------------
(***************************************************************************)
(* The operation queue.                                                     *)
(***************************************************************************)
Ask(o) ==
  /\ o \notin asked
  /\ asked' = asked \cup {o} /\ queue' = Append(queue, o)
  /\ UNCHANGED <<current, step, baseHash, probes, replies, bridge, mailVars,
                 guestVars, gatewayVars, mishaps>>

\* operationQueue goes on with the next operation, whatever became of this one.
\* Slip: an operation that throws leaves a rejected promise to chain to.
NextAfterSuccess(outcome) ==
  current' = IF outcome = "ok" THEN None ELSE current
NextInQueue(outcome) == current' = None

Reply(outcome) ==
  /\ replies' = [replies EXCEPT ![current] = outcome]
  /\ NextInQueue(outcome)
  /\ step' = "idle" /\ baseHash' = None /\ probes' = 0
  /\ UNCHANGED <<asked, queue, bridge>>

FirstStep(o) == IF o \in Rpc THEN "calling"
                ELSE IF o \in Configure THEN "inspect" ELSE "booting"

\* attachByokCapability and configureOpenClawCapability begin with a check.
Refused(o) == \/ o \in Attach /\ bridge # None
              \/ o \in Configure /\ bridge = None
BeginOperation ==
  /\ current = None /\ queue # <<>>
  /\ queue' = Tail(queue)
  /\ LET o == Head(queue) IN
       IF Refused(o)
       THEN /\ replies' = [replies EXCEPT ![o] = "error"]
            /\ UNCHANGED <<current, step, bridge>>
       ELSE /\ current' = o /\ step' = FirstStep(o)
            /\ bridge' = IF o \in Attach THEN CapabilityOf[o] ELSE bridge
            /\ UNCHANGED replies
  /\ UNCHANGED <<asked, baseHash, probes, mailVars, guestVars, gatewayVars,
                 mishaps>>

\* The loopback guest prints its marker; or exits, or is late, and the bridge
\* stays attached all the same.  Its instance is awaited without a deadline.
BootLoopbackGuest ==
  /\ step = "booting"
  /\ Reply("ok") \/ Reply("error")
  /\ UNCHANGED <<mailVars, guestVars, gatewayVars, mishaps>>

-----------------------------------------------------------------------------
(***************************************************************************)
(* runGatewayRpc.  The request is written under its final name.             *)
(***************************************************************************)
Unused(i) == /\ requests[i] = None /\ responses[i] = None
             /\ job # None => job.id # i

MethodOf ==
  [calling |-> "wizard", inspect |-> "inspect", patch |-> "patch",
   verify |-> "inspect", restart |-> "restart", probe |-> "active"]

\* Slip: one probe after the deadline.
MayCallLate == step = "probe" => probes <= MaxProbes
MayCall == step = "probe" => probes < MaxProbes

CreateRequest ==
  /\ call = None /\ step \in DOMAIN MethodOf
  /\ MayCall
  /\ LET i == CHOOSE k \in Id : Unused(k) IN
       /\ call' = [id |-> i, at |-> "writing"]
       /\ requests' = [requests EXCEPT ![i] = Torn]
  /\ UNCHANGED <<pageVars, responses, kept, guestVars, gatewayVars, mishaps>>

\* The guest may have answered the half-written request and unlinked it.
CloseRequest ==
  /\ call # None /\ call.at = "writing"
  /\ call' = [call EXCEPT !.at = "polling"]
  /\ requests' =
       [requests EXCEPT ![call.id] =
          IF @ = None THEN None
          ELSE [method |-> MethodOf[step], base |-> baseHash, for |-> current]]
  /\ UNCHANGED <<pageVars, responses, kept, guestVars, gatewayVars, mishaps>>

\* What the operation does with a result ...
\* Slip: the restart's acceptance counts as activation.
AcceptRestart(v) == Reply("ok")
AfterRestart(v) == /\ step' = "probe"
                   /\ UNCHANGED <<asked, queue, current, baseHash, probes,
                                  replies, bridge>>
OnResult(v) ==
  CASE step = "calling" -> Reply("ok")
    [] step = "inspect" ->
         /\ step' = "patch" /\ baseHash' = v
         /\ UNCHANGED <<asked, queue, current, probes, replies, bridge>>
    [] step = "patch" ->
         /\ step' = "verify" /\ baseHash' = None
         /\ UNCHANGED <<asked, queue, current, probes, replies, bridge>>
    [] step = "verify" ->
         IF v.model = bridge
         THEN /\ step' = "restart"
              /\ UNCHANGED <<asked, queue, current, baseHash, probes, replies,
                             bridge>>
         ELSE Reply("error")
    [] step = "restart" -> AfterRestart(v)
    [] step = "probe" ->
         IF v = bridge
         THEN Reply("ok")
         ELSE /\ probes' = probes + 1
              /\ UNCHANGED <<asked, queue, current, step, baseHash, replies,
                             bridge>>

\* ... and with an error: a restart's is provisional, a probe's tried again.
OnError ==
  CASE step = "restart" -> AfterRestart(None)
    [] step = "probe" -> /\ probes' = probes + 1
                         /\ UNCHANGED <<asked, queue, current, step, baseHash,
                                        replies, bridge>>
    [] OTHER -> Reply("error")

\* The response's file is removed before it is parsed; an error that looks like
\* a missing file's is taken for one, and the page polls on without its file.
TakeResponse ==
  /\ call # None /\ call.at = "polling" /\ responses[call.id] # None
  /\ responses' = [responses EXCEPT ![call.id] = None]
  /\ LET r == responses[call.id] IN
       \/ /\ r.ok /\ OnResult(r.result) /\ call' = None
       \/ /\ ~r.ok /\ ~r.result /\ OnError /\ call' = None
       \/ /\ ~r.ok /\ r.result /\ UNCHANGED <<pageVars, call>>
  /\ UNCHANGED <<requests, kept, guestVars, gatewayVars, mishaps>>

\* Nothing will answer: the error was swallowed or the guest is gone.
Unanswerable(i) == responses[i] = None /\ (requests[i] = None \/ ~alive)

\* 130 s have passed, for a living guest's answer one of the mishaps.
Deadline ==
  /\ call # None /\ call.at = "polling" /\ responses[call.id] = None
  /\ IF Unanswerable(call.id)
     THEN UNCHANGED mishaps
     ELSE mishaps < MaxMishaps /\ mishaps' = mishaps + 1
  /\ OnError /\ call' = None
  /\ requests' = IF alive THEN requests
                 ELSE [requests EXCEPT ![call.id] = None]
  /\ UNCHANGED <<responses, kept, guestVars, gatewayVars>>

\* The write, a read or the removal rejects with another error: the call fails,
\* its request stays torn or is not there, its response is never read.
FileOperationRejects ==
  /\ call # None /\ mishaps < MaxMishaps
  /\ mishaps' = mishaps + 1
  /\ OnError /\ call' = None
  /\ \/ UNCHANGED requests
     \/ /\ call.at = "writing"
        /\ requests' = [requests EXCEPT ![call.id] = None]
  /\ responses' = [responses EXCEPT ![call.id] = None]
  /\ UNCHANGED <<kept, guestVars, gatewayVars>>

ActiveDeadline ==
  /\ step = "probe" /\ call = None /\ probes > 0
  /\ Reply("error")
  /\ UNCHANGED <<mailVars, guestVars, gatewayVars, mishaps>>

PageStep == \/ BeginOperation \/ CreateRequest \/ CloseRequest
            \/ TakeResponse \/ Deadline \/ FileOperationRejects
            \/ ActiveDeadline

-----------------------------------------------------------------------------
(***************************************************************************)
(* The guest's bridge: processMailbox, one request at a time.               *)
(***************************************************************************)
Request(i) == requests[i]
InHand == job # None /\ alive

Idle == job = None

\* A failed unlink is swallowed: the next poll finds the request again.
Keep(i) ==
  /\ mishaps < MaxMishaps /\ mishaps' = mishaps + 1
  /\ kept' = [o \in Operation |->
                IF o = requests[i].for THEN kept[o] + 1 ELSE kept[o]]
  /\ UNCHANGED requests
Unlink(i) ==
  /\ requests' = [requests EXCEPT ![i] = None]
  /\ UNCHANGED <<kept, mishaps>>

\* The response, by way of a temporary file, then the request's unlink.
\* Nobody reads the response of a call that was given up.
Answer(i, r) ==
  /\ Unlink(i) \/ Keep(i)
  /\ responses' = IF call # None /\ call.id = i
                  THEN [responses EXCEPT ![i] = r] ELSE responses
  /\ UNCHANGED call

ReadMailbox(i) ==
  /\ alive /\ Idle /\ requests[i] # None
  /\ IF requests[i] = Torn
     THEN Answer(i, Failed(FALSE)) /\ UNCHANGED job
     ELSE /\ job' = [id |-> i, prepared |-> None, raced |-> FALSE]
          /\ UNCHANGED <<mailVars, mishaps>>
  /\ UNCHANGED <<pageVars, alive, gatewayVars>>

InspectConfig ==
  /\ InHand /\ Request(job.id).method = "inspect"
  /\ Answer(job.id, Success(config)) /\ job' = None
  /\ UNCHANGED <<pageVars, alive, gatewayVars>>

Prepare(file) ==
  /\ InHand /\ Request(job.id).method = "patch" /\ job.prepared = None
  /\ IF file = Request(job.id).base
     THEN /\ job' = [job EXCEPT !.prepared = file]
          /\ UNCHANGED <<mailVars, mishaps>>
     ELSE Answer(job.id, Failed(FALSE)) /\ job' = None
  /\ UNCHANGED <<pageVars, alive, gatewayVars>>

\* Slip: the patch is made from the file the page inspected.
PrepareInspected == Prepare(Request(job.id).base)
\* patchConfig reads the file it will write, unless it is another than the
\* inspected one ...
PreparePatch == Prepare(config)

CapabilityPatch(k) == [model |-> k]

MergePatch(file, patch) ==
  [f \in DOMAIN file |-> IF f \in DOMAIN patch THEN patch[f] ELSE file[f]]

\* ... and hands what it made of that to the library, which writes it over
\* whatever the file holds by then (or rejects, below).
WritePatch ==
  /\ InHand /\ Request(job.id).method = "patch" /\ job.prepared # None
  /\ config' = MergePatch(job.prepared, CapabilityPatch(bridge))
  /\ Answer(job.id, Success(None))
  /\ job' = None
  /\ UNCHANGED <<pageVars, alive, connected, gateway, loaded, executions>>

\* The library rejects: a file that is missing or changed, or anything else.
ConfigRejects ==
  /\ InHand /\ Request(job.id).method \in {"inspect", "patch"}
  /\ \E missing \in BOOLEAN : Answer(job.id, Failed(missing))
  /\ job' = None
  /\ UNCHANGED <<pageVars, alive, gatewayVars>>

-----------------------------------------------------------------------------
(***************************************************************************)
(* requestGateway, and the Gateway's part of the answer.                    *)
(***************************************************************************)
Remote == InHand /\ Request(job.id).method \in {"active", "restart", "wizard"}

Finish(r) == Answer(job.id, r) /\ job' = None

\* What the Gateway does with a call it receives.
Execute(request) ==
  /\ executions' = IF request.method = "wizard"
                   THEN [executions EXCEPT ![request.for] = @ + 1]
                   ELSE executions
  /\ gateway' = IF request.method = "restart" THEN "restarting" ELSE gateway
  /\ UNCHANGED loaded

Results(method) == CASE method = "active" -> {Success(loaded)}
                     [] method = "restart" -> {Success(None), Failed(FALSE)}
                     [] method = "wizard" -> {Success(None), Failed(FALSE),
                                              Failed(TRUE)}

\* The answer arrives; a Wizard's may be an error, of either look.  A restart
\* closes the socket, before or after its answer.
RequestGateway ==
  /\ Remote /\ connected /\ gateway = "up"
  /\ Execute(Request(job.id))
  /\ \E r \in Results(Request(job.id).method) : Finish(r)
  /\ connected' = (gateway' = "up")
  /\ UNCHANGED <<pageVars, alive, config>>

\* Slip: every error of a closed connection is tried again.
TryAgain == UNCHANGED <<mailVars, job, mishaps>>
\* Only "gateway not connected", of a call that was never sent, is tried again.
Throw == Finish(Failed(FALSE))

\* The socket closes before or after the Gateway took the call from it.
CloseDuringRequest ==
  /\ Remote /\ connected /\ gateway = "up"
  /\ \/ Execute(Request(job.id))
     \/ UNCHANGED <<gateway, loaded, executions>>
  /\ Throw
  /\ connected' = FALSE
  /\ UNCHANGED <<pageVars, alive, config>>

\* 30 s without a connection: "gateway reconnect timed out".
ReconnectTimesOut ==
  /\ Remote /\ ~(connected /\ gateway = "up")
  /\ Finish(Failed(FALSE))
  /\ UNCHANGED <<pageVars, alive, gatewayVars>>

GuestStep ==
  \/ \E i \in Id : ReadMailbox(i)
  \/ InspectConfig \/ PreparePatch \/ WritePatch \/ ConfigRejects
  \/ RequestGateway \/ CloseDuringRequest \/ ReconnectTimesOut

Connect ==
  /\ alive /\ ~connected /\ gateway = "up"
  /\ connected' = TRUE
  /\ UNCHANGED <<pageVars, mailVars, guestVars, gateway, loaded, config,
                 executions, mishaps>>

Disconnect ==
  /\ connected /\ mishaps < MaxMishaps
  /\ connected' = FALSE /\ mishaps' = mishaps + 1
  /\ UNCHANGED <<pageVars, mailVars, guestVars, gateway, loaded, config,
                 executions>>

\* The guest's process exits, or hangs for good.
GuestExits ==
  /\ alive /\ mishaps < MaxMishaps
  /\ alive' = FALSE /\ job' = None /\ connected' = FALSE
  /\ requests' = [i \in Id |-> IF call # None /\ call.id = i
                               THEN requests[i] ELSE None]
  /\ mishaps' = mishaps + 1
  /\ UNCHANGED <<pageVars, call, responses, kept, gateway, loaded, config,
                 executions>>

\* A restarted Gateway loads its configuration; it may never come back.
GatewayReturns ==
  /\ gateway = "restarting"
  /\ gateway' = "up" /\ loaded' = config.model
  /\ UNCHANGED <<pageVars, mailVars, guestVars, connected, config, executions,
                 mishaps>>

GatewayWritesConfig ==
  /\ gateway = "up" /\ config.other < MaxWrites
  /\ config' = [config EXCEPT !.other = @ + 1]
  /\ job' = IF job # None /\ job.prepared # None
            THEN [job EXCEPT !.raced = TRUE] ELSE job
  /\ UNCHANGED <<pageVars, mailVars, alive, connected, gateway, loaded,
                 executions, mishaps>>

Next ==
  \/ \E o \in Operation : Ask(o)
  \/ PageStep \/ BootLoopbackGuest \/ GuestStep
  \/ Connect \/ Disconnect \/ GuestExits
  \/ GatewayReturns \/ GatewayWritesConfig

\* The page's timers run and its file operations settle, and so does what the
\* guest does by itself unless it hangs; neither the Gateway nor the instance
\* of a loopback guest owes anybody an answer.
Fairness == WF_vars(PageStep) /\ WF_vars(GuestStep)

Spec == Init /\ [][Next]_vars /\ Fairness

-----------------------------------------------------------------------------
\* A tab that was told "configured" has the attached capability in the file
\* and in the running Gateway, whatever restarts, retries and other tabs' calls
\* came between (docs/byok-onboarding.md: success only after agents.list
\* exposes the selected primary model).
ConfiguredIsActive ==
  (\E o \in Configure : replies[o] = "ok") =>
    bridge # None /\ config.model = bridge /\ loaded = bridge

\* The Gateway runs a Wizard call once at most, and once more for each time the
\* guest could not remove its request, however connections fail; and it has run
\* it when the tab is told so (requestGateway, processMailbox's finally).
ExecutedOnce ==
  \A o \in Rpc :
    /\ executions[o] <= 1 + kept[o]
    /\ replies[o] = "ok" => executions[o] >= 1

\* A patch takes back no setting the Gateway wrote, before the inspection,
\* between inspection and patch or after it: only one that is written while
\* writeConfigFile is on its way can be lost (patchConfig).
SettingsSurvive ==
  [][config'.other >= config.other \/ (job # None /\ job.raced)]_config

\* Every operation is answered in the end, also behind one that fails, one
\* whose error is swallowed and one whose guest or Gateway is gone; unless a
\* loopback guest is never instantiated (operationQueue).
EveryOperationAnswered ==
  []<>(step # "booting") =>
    \A o \in Operation : o \in asked ~> replies[o] # None
=============================================================================
