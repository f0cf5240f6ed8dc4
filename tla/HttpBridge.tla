----------------------------- MODULE HttpBridge -----------------------------
(***************************************************************************)
(* The mailbox between the Gateway's model calls and the page that holds    *)
(* the capability: the guest's loopback server of src/byok-loopback-        *)
(* broker.ts turns an HTTP call into a request file and waits for its       *)
(* response file; the poll loop of src/byok-http-bridge.ts forwards one     *)
(* request after the other to the capability's endpoint.  Both sides work   *)
(* on one shared Directory, step by step, and the page's operations on it   *)
(* may reject.                                                              *)
(*                                                                          *)
(* Left out: headers and limits (a call is Good when parseRequest and the   *)
(* authorization accept it), calls the guest answers itself (404, 413),     *)
(* and Date.now() in a request's id, which two calls may share.             *)
(***************************************************************************)
EXTENDS Naturals, FiniteSets

CONSTANTS
  Call,           \* HTTP calls of the guest's programs
  Good,           \* those the capability grants
  None, Torn,     \* no file; a file that is still being written
  MaxFailures     \* bound: operations on the Directory that reject

ASSUME BridgeAssumption ==
  /\ IsFiniteSet(Call)
  /\ Good \subseteq Call
  /\ None \notin Call /\ Torn \notin Call
  /\ MaxFailures \in Nat

VARIABLES
  sequence,    \* ids the guest has handed out
  guest,       \* where the guest stands with each call
  idOf,        \* the id of each call's files
  answer,      \* what the guest answered
  requests,    \* the files of /requests, by id
  responses,   \* the files of /responses, by id
  host,        \* where the page's poll loop stands
  pending,     \* entries it has listed and not handled
  current,     \* id of the entry in hand
  reply,       \* bridgeResponse
  stopped,     \* stop() was called
  forwards,    \* times each call reached the provider
  rejected     \* operations of the page that rejected, by kind

guestVars == <<sequence, guest, idOf, answer>>
hostVars == <<host, pending, current, reply, stopped, forwards, rejected>>
vars == <<guestVars, hostVars, requests, responses>>

Id == 1..Cardinality(Call)
Request == [call : Call, name : {"temporary", "request"}]
Reply == [call : Call, kind : {"forwarded", "refused"}]
Failure == [call |-> None, kind |-> "failed"]
Answer == Reply \cup {Failure}
Operation == {"read", "write", "remove"}

\* The absence of a file, or of a value, is none, nor is a half-written one.
ASSUME NoneAssumption ==
  /\ None \notin Id \cup Request \cup Answer \cup {Torn}
  /\ Torn \notin Reply

TypeOK ==
  /\ sequence \in 0..Cardinality(Call)
  /\ guest \in [Call -> {"idle", "writing", "waiting", "answered"}]
  /\ idOf \in [Call -> Id \cup {None}]
  /\ answer \in [Call -> Answer \cup {None}]
  /\ requests \in [Id -> Request \cup {None}]
  /\ responses \in [Id -> Reply \cup {None, Torn}]
  /\ host \in {"listing", "next", "reading", "fetching", "writing", "closing",
               "removing", "done"}
  /\ pending \subseteq Id
  /\ current \in Id \cup {None}
  /\ reply \in Reply \cup {None}
  /\ stopped \in BOOLEAN
  /\ forwards \in [Call -> Nat]
  /\ rejected \in [Operation -> 0..MaxFailures]

Init ==
  /\ sequence = 0
  /\ guest = [c \in Call |-> "idle"]
  /\ idOf = [c \in Call |-> None]
  /\ answer = [c \in Call |-> None]
  /\ requests = [i \in Id |-> None]
  /\ responses = [i \in Id |-> None]
  /\ host = "listing" /\ pending = {} /\ current = None /\ reply = None
  /\ stopped = FALSE
  /\ forwards = [c \in Call |-> 0]
  /\ rejected = [o \in Operation |-> 0]

-----------------------------------------------------------------------------
(***************************************************************************)
(* The guest's loopback server: one thread, whose synchronous file calls    *)
(* the page can observe half done.                                          *)
(***************************************************************************)
Busy == \E c \in Call : guest[c] = "writing"

\* Slip: the id is Date.now() alone, which two calls can share.
IdOfTheClock == 1
\* Slip: ++sequence in the record's id and again in the file's name.
IdOfTheName == sequence + 2
NewId == sequence + 1

Respond(c, a) ==
  /\ guest' = [guest EXCEPT ![c] = "answered"]
  /\ answer' = [answer EXCEPT ![c] = a]
  /\ UNCHANGED <<sequence, idOf>>

\* Slip: the request is written under its final name.
WriteInPlace(c) ==
  requests' = [requests EXCEPT ![NewId] = [call |-> c, name |-> "request"]]
WriteTemporary(c) ==
  requests' = [requests EXCEPT ![NewId] = [call |-> c, name |-> "temporary"]]

EndOfBody(c) ==
  /\ guest[c] = "idle" /\ ~Busy
  /\ WriteTemporary(c)
  /\ sequence' = sequence + 1
  /\ idOf' = [idOf EXCEPT ![c] = NewId]
  /\ guest' = [guest EXCEPT ![c] = "writing"]
  /\ UNCHANGED <<answer, hostVars, responses>>

RenameRequest(c) ==
  /\ guest[c] = "writing"
  /\ requests' = [requests EXCEPT ![idOf[c]] = [call |-> c, name |-> "request"]]
  /\ guest' = [guest EXCEPT ![c] = "waiting"]
  /\ UNCHANGED <<sequence, idOf, answer, hostVars, responses>>

\* A response that cannot be parsed is answered with 502, and its file stays.
\* Slip: the file is left for the next reader.
KeepResponse(i) == UNCHANGED responses
Unlink(i) == responses' = [responses EXCEPT ![i] = None]

PollResponse(c) ==
  /\ guest[c] = "waiting" /\ ~Busy
  /\ responses[idOf[c]] # None
  /\ IF responses[idOf[c]] = Torn
     THEN Respond(c, Failure) /\ UNCHANGED responses
     ELSE Respond(c, responses[idOf[c]]) /\ Unlink(idOf[c])
  /\ UNCHANGED <<hostVars, requests>>

\* 504: timeoutMs have passed since the rename; both files stay behind.
Deadline(c) ==
  /\ guest[c] = "waiting" /\ ~Busy
  /\ Respond(c, Failure)
  /\ UNCHANGED <<hostVars, requests, responses>>

GuestStep(c) ==
  \/ EndOfBody(c) \/ RenameRequest(c)
  \/ PollResponse(c) \/ Deadline(c)

-----------------------------------------------------------------------------
(***************************************************************************)
(* The page's poll loop.                                                    *)
(***************************************************************************)
Goto(p) == host' = p
Files == <<requests, responses>>
Requested(i) == requests[i] # None /\ requests[i].name = "request"
CallOf(i) == requests[i].call
Whole(i) == guest[CallOf(i)] # "writing"

\* Slip: while (true).
PollForever == TRUE
Polling == ~stopped

ListRequests ==
  /\ host = "listing" /\ Polling
  /\ pending' = {i \in Id : Requested(i)}
  /\ Goto("next")
  /\ UNCHANGED <<guestVars, Files, current, reply, stopped, forwards, rejected>>

\* The for loop looks at stopped before each entry.
NextEntry ==
  /\ host = "next"
  /\ IF stopped \/ pending = {}
     THEN Goto("listing") /\ pending' = {} /\ UNCHANGED current
     ELSE \E i \in pending :
            /\ Goto("reading")
            /\ pending' = pending \ {i} /\ current' = i
  /\ UNCHANGED <<guestVars, Files, reply, stopped, forwards, rejected>>

Refuse(i) == reply' = [call |-> CallOf(i), kind |-> "refused"]

\* parseRequest and the authorization.
ReadRequest ==
  /\ host = "reading"
  /\ IF Whole(current) /\ CallOf(current) \in Good
     THEN Goto("fetching") /\ UNCHANGED reply
     ELSE Goto("writing") /\ Refuse(current)
  /\ UNCHANGED <<guestVars, Files, pending, current, stopped, forwards, rejected>>

\* The fetch settles with the provider's response, whatever its status, or
\* with the 502 that stands for none, or for one that is too large.
Forward ==
  /\ host = "fetching"
  /\ forwards' = [forwards EXCEPT ![CallOf(current)] = @ + 1]
  /\ reply' = [call |-> CallOf(current), kind |-> "forwarded"]
  /\ Goto("writing")
  /\ UNCHANGED <<guestVars, Files, pending, current, stopped, rejected>>

\* directory.writeFile creates the file before it holds the response.
CreateResponse ==
  /\ host = "writing"
  /\ responses' = [responses EXCEPT ![current] = Torn]
  /\ Goto("closing")
  /\ UNCHANGED <<guestVars, requests, pending, current, reply, stopped,
                 forwards, rejected>>

CloseResponse ==
  /\ host = "closing"
  /\ responses' = [responses EXCEPT ![current] = reply]
  /\ Goto("removing")
  /\ UNCHANGED <<guestVars, requests, pending, current, reply, stopped,
                 forwards, rejected>>

\* Slip: only refused requests are removed.
ForgetToRemove(i) ==
  requests' = IF reply.kind = "refused"
              THEN [requests EXCEPT ![i] = None] ELSE requests
RemoveFile(i) == requests' = [requests EXCEPT ![i] = None]

RemoveRequest ==
  /\ host = "removing"
  /\ RemoveFile(current)
  /\ Goto("next") /\ current' = None /\ reply' = None
  /\ UNCHANGED <<guestVars, responses, pending, stopped, forwards, rejected>>

\* Slip: the loop's promise rejects and nobody polls again.
EndLoop == Goto("done")
NextPoll == Goto("listing")

\* An operation rejects.  A request that cannot be read is refused; any other
\* rejection ends this poll, and the next one lists what is left.  (A listing
\* that rejects is only tried again.)
OperationOf == [reading |-> "read", writing |-> "write",
                closing |-> "write", removing |-> "remove"]
OperationRejects ==
  /\ host \in DOMAIN OperationOf
  /\ rejected["read"] + rejected["write"] + rejected["remove"] < MaxFailures
  /\ rejected' = [rejected EXCEPT ![OperationOf[host]] = @ + 1]
  /\ IF host = "reading"
     THEN Goto("writing") /\ Refuse(current) /\ UNCHANGED <<pending, current>>
     ELSE NextPoll /\ pending' = {} /\ current' = None /\ reply' = None
  /\ UNCHANGED <<guestVars, Files, stopped, forwards>>

EndPolling ==
  /\ host = "listing" /\ ~Polling
  /\ Goto("done")
  /\ UNCHANGED <<guestVars, Files, pending, current, reply, stopped, forwards,
                 rejected>>

DirectoryStep ==
  \/ ListRequests \/ NextEntry \/ ReadRequest
  \/ CreateResponse \/ CloseResponse \/ RemoveRequest \/ OperationRejects
  \/ EndPolling
HostStep == DirectoryStep \/ Forward

Stop ==
  /\ ~stopped /\ stopped' = TRUE
  /\ UNCHANGED <<guestVars, Files, host, pending, current, reply, forwards,
                 rejected>>

Next == HostStep \/ Stop \/ \E c \in Call : GuestStep(c)

\* The guest's interval timer runs, and the page's operations on the Directory,
\* which is in memory, settle.  Nothing makes a program call, nobody has to call
\* stop(), and a fetch, which has no deadline, need never settle.
Spec ==
  /\ Init /\ [][Next]_vars
  /\ WF_vars(DirectoryStep)
  /\ \A c \in Call :
       WF_vars(RenameRequest(c) \/ PollResponse(c) \/ Deadline(c))

-----------------------------------------------------------------------------
\* A call is answered with the provider's, or the bridge's, reply to that call
\* and to no other, however late and however often replies are written.
AnswerIsOwn ==
  \A c \in Call : answer[c] # None => answer[c].call \in {c, None}

\* A call the capability does not grant never reaches the provider, and one it
\* grants is refused only when its request could not be read.
RefusalsAreRight ==
  /\ \A c \in Call : forwards[c] > 0 => c \in Good
  /\ Cardinality({c \in Good : answer[c] # None /\ answer[c].kind = "refused"})
       <= rejected["read"]

\* The provider is charged twice for a call only when the page could not write
\* the response or remove the request, and once for each such failure.
Forwardings == UNION {{<<c, n>> : n \in 1..forwards[c]} : c \in Call}
Sent == {c \in Good : idOf[c] # None}
RepeatedOnlyAfterFailure ==
  Cardinality(Forwardings)
    <= Cardinality(Sent) + rejected["write"] + rejected["remove"]

\* What a call is told is right, whether it is the provider's reply, a refusal
\* of the bridge or a failure.
AnswersAreRight == AnswerIsOwn /\ RefusalsAreRight

\* A response file outlives its call only when the call was given up, or when
\* it was answered and then forwarded again.
ResponsesAreCollected ==
  Cardinality({c \in Call :
      /\ guest[c] = "answered" /\ idOf[c] # None
      /\ answer[c].call # None
      /\ responses[idOf[c]] # None})
    <= rejected["write"] + rejected["remove"]

\* The loop awaits the fetch of one request before it looks at the next: a fetch
\* that hangs keeps every later request, and stop(), waiting.
FetchesSettle == []<>(host # "fetching")

\* While fetches settle, every request file is handled, whatever happens to the
\* ones before it, until the bridge is stopped; and stop() returns.
MailboxDrains ==
  FetchesSettle => \A i \in Id : Requested(i) ~> (~Requested(i) \/ stopped)
StopReturns == FetchesSettle => stopped ~> host = "done"
=============================================================================
