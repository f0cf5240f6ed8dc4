-------------------------- MODULE HttpBridgeProofs --------------------------
(***************************************************************************)
(* The mailbox between the model calls and the page, for any calls, grants   *)
(* and failures.  What a call is told, and how often it is forwarded, rests  *)
(* on whose files the page and the guest have in hand; and each of the three *)
(* counts is bounded together with what may still come to be counted.        *)
(***************************************************************************)
EXTENDS HttpBridge, TLAPS, FiniteSetTheorems

\* Every call has an id of its own, and no file has another's.
Numbered == {c \in Call : guest[c] # "idle"}
IdsAreOwn ==
  /\ sequence = Cardinality(Numbered)
  /\ \A c \in Call : guest[c] = "idle" <=> idOf[c] = None
  /\ \A c \in Call : idOf[c] # None => idOf[c] <= sequence
  /\ \A c, d \in Call : idOf[c] # None /\ idOf[c] = idOf[d] => c = d

FilesAreOwn ==
  /\ \A c \in Call : guest[c] = "writing" =>
       requests[idOf[c]] = [call |-> c, name |-> "temporary"]
  /\ \A i \in Id : requests[i] # None =>
       /\ idOf[requests[i].call] = i
       /\ requests[i].name = "request" => guest[requests[i].call] # "writing"
  /\ \A i \in Id : responses[i] # None =>
       /\ i <= sequence
       /\ responses[i] # Torn => idOf[responses[i].call] = i

AnswersAreOwn ==
  \A c \in Call :
    /\ answer[c] # None <=> guest[c] = "answered"
    /\ answer[c] # None => answer[c] = Failure \/ answer[c].call = c

\* What the page has listed and in hand.
Handling == host \in {"reading", "fetching", "writing", "closing", "removing"}
InHand ==
  /\ \A i \in pending : Requested(i) /\ i # current
  /\ current # None <=> Handling
  /\ current # None => Requested(current)
  /\ reply # None <=> host \in {"writing", "closing", "removing"}
  /\ reply # None => reply.call = CallOf(current)
  /\ reply # None /\ reply.kind = "forwarded" => reply.call \in Good
  /\ host = "fetching" => CallOf(current) \in Good

-----------------------------------------------------------------------------
\* Granted calls that are refused, or will be.
Turned(r) == r # None /\ r.kind = "refused"
Refusals ==
  {c \in Good :
     \/ Turned(answer[c])
     \/ \E i \in Id : /\ idOf[c] = i /\ responses[i] # Torn
                      /\ Turned(responses[i])
     \/ Turned(reply) /\ reply.call = c}
RefusalsAreCounted ==
  /\ \A c \in Call : forwards[c] > 0 => c \in Good
  /\ Cardinality(Refusals) <= rejected["read"]

\* Granted calls the page will still forward if nothing fails.
InReply(c) == reply # None /\ reply.kind = "forwarded" /\ reply.call = c
Ahead ==
  {c \in Good : /\ \E i \in Id : idOf[c] = i /\ requests[i] # None
                /\ ~InReply(c)}
ForwardsAreCounted ==
  /\ IsFiniteSet(Forwardings)
  /\ Cardinality(Forwardings) + Cardinality(Ahead)
       <= Cardinality(Sent) + rejected["write"] + rejected["remove"]

\* Calls whose response stays, or will be written again.
Remains(i) == requests[i] # None /\ ~(host = "removing" /\ current = i)
Leftovers ==
  {c \in Call : \E i \in Id :
     /\ idOf[c] = i
     /\ \/ /\ guest[c] = "answered" /\ answer[c].call # None
           /\ responses[i] # None \/ Remains(i)
        \/ /\ responses[i] \notin {None, Torn} /\ Remains(i)}
LeftoversAreCounted ==
  Cardinality(Leftovers) <= rejected["write"] + rejected["remove"]

-----------------------------------------------------------------------------
BridgeInv ==
  /\ TypeOK /\ IdsAreOwn /\ FilesAreOwn /\ AnswersAreOwn /\ InHand
  /\ RefusalsAreCounted /\ ForwardsAreCounted /\ LeftoversAreCounted

-----------------------------------------------------------------------------
(***************************************************************************)
(* Values and types.                                                        *)
(***************************************************************************)
LEMMA Values ==
  /\ None \notin Id /\ None \notin Request /\ None \notin Reply
  /\ None # Failure /\ None # Torn /\ Torn \notin Reply /\ None \notin Call
  /\ Failure.call = None /\ Failure.kind = "failed" /\ Failure \notin Reply
BY NoneAssumption, BridgeAssumption DEF Answer, Failure, Reply

LEMMA CallsAreFinite ==
  /\ IsFiniteSet(Call) /\ Cardinality(Call) \in Nat
  /\ \A S : S \subseteq Call => IsFiniteSet(S) /\ Cardinality(S) \in Nat
BY BridgeAssumption, FS_Subset, FS_CardinalityType

\* There is an id for every call.
LEMMA IdIsLeft ==
  ASSUME TypeOK, IdsAreOwn, NEW c \in Call, guest[c] = "idle"
  PROVE  NewId \in Id /\ NewId \in 1..Cardinality(Call)
<1>1. Numbered \subseteq Call \ {c} /\ Call \ {c} \subseteq Call
  BY DEF Numbered
<1>2. /\ IsFiniteSet(Call \ {c}) /\ Cardinality(Call \ {c}) \in Nat
      /\ Cardinality(Numbered) \in Nat
  BY <1>1, CallsAreFinite
<1>3. Cardinality(Numbered) <= Cardinality(Call \ {c})
  BY <1>1, <1>2, FS_Subset
<1>4. Cardinality(Call \ {c}) = Cardinality(Call) - 1
  BY CallsAreFinite, FS_RemoveElement
<1> QED
  BY <1>2, <1>3, <1>4, CallsAreFinite DEF IdsAreOwn, NewId, Id

\* The entry in hand is a request of one call.
LEMMA EntryInHand ==
  ASSUME BridgeInv, Handling
  PROVE  /\ current \in Id /\ requests[current] \in Request
         /\ CallOf(current) \in Call /\ idOf[CallOf(current)] = current
         /\ Whole(current)
BY Values DEF BridgeInv, InHand, TypeOK, Requested, Request, CallOf, Whole,
              FilesAreOwn

LEMMA TypeInit == Init => TypeOK
<1>1. 0 \in 0..Cardinality(Call) /\ 0 \in 0..MaxFailures
  BY CallsAreFinite, BridgeAssumption
<1>2. Init => stopped \in BOOLEAN
  BY Zenon DEF Init
<1> QED
  BY <1>1, <1>2 DEF Init, TypeOK

LEMMA TypeStep ==
  ASSUME BridgeInv, [Next]_vars
  PROVE  TypeOK'
<1> USE DEF TypeOK, guestVars, hostVars, Files, Goto
<1>1. TypeOK /\ InHand /\ IdsAreOwn
  BY DEF BridgeInv
<1>2. ASSUME NEW c \in Call, EndOfBody(c)
      PROVE  TypeOK'
  <2>1. NewId \in Id /\ NewId \in 1..Cardinality(Call)
    BY <1>1, <1>2, IdIsLeft DEF EndOfBody
  <2>2. sequence' \in 0..Cardinality(Call)
    BY <1>2, <2>1, CallsAreFinite DEF EndOfBody, NewId
  <2>3. requests' \in [Id -> Request \cup {None}]
    BY <1>1, <1>2, <2>1 DEF EndOfBody, WriteTemporary, Request
  <2> QED
    BY <1>1, <1>2, <2>1, <2>2, <2>3 DEF EndOfBody
<1>3. ASSUME NEW c \in Call, RenameRequest(c)
      PROVE  TypeOK'
  <2>1. requests' \in [Id -> Request \cup {None}]
    BY <1>1, <1>3 DEF RenameRequest, Request
  <2> QED
    BY <1>1, <1>3, <2>1 DEF RenameRequest
<1>4. ASSUME NEW c \in Call, PollResponse(c)
      PROVE  TypeOK'
  <2>1. idOf[c] \in Id
    BY <1>1, <1>4 DEF PollResponse, IdsAreOwn
  <2>2. responses' \in [Id -> Reply \cup {None, Torn}]
    BY <1>1, <1>4, <2>1 DEF PollResponse, Unlink
  <2>3. answer' \in [Call -> Answer \cup {None}]
    BY <1>1, <1>4, <2>1 DEF PollResponse, Respond, Answer
  <2> QED
    BY <1>1, <1>4, <2>2, <2>3 DEF PollResponse, Respond
<1>5. ASSUME NEW c \in Call, Deadline(c)
      PROVE  TypeOK'
  BY <1>1, <1>5 DEF Deadline, Respond, Answer
<1>6. CASE ListRequests \/ NextEntry \/ EndPolling \/ Stop
  <2>1. stopped' \in BOOLEAN
    BY <1>1, <1>6, Zenon DEF ListRequests, NextEntry, EndPolling, Stop
  <2> QED
    BY <1>1, <1>6, <2>1 DEF ListRequests, NextEntry, EndPolling, Stop
<1>7. CASE ReadRequest \/ Forward \/ OperationRejects
  <2>1. Handling
    BY <1>7 DEF ReadRequest, Forward, OperationRejects, OperationOf, Handling
  <2>2. /\ current \in Id /\ CallOf(current) \in Call
    BY <2>1, EntryInHand
  <2>3. CASE ReadRequest
    BY <1>1, <2>2, <2>3 DEF ReadRequest, Refuse, Reply
  <2>4. CASE Forward
    BY <1>1, <2>2, <2>4 DEF Forward, Reply
  <2>5. CASE OperationRejects
    <3>1. OperationOf[host] \in Operation
      BY <2>5 DEF OperationRejects, OperationOf, Operation
    <3>2. rejected[OperationOf[host]] + 1 \in 0..MaxFailures
      BY <1>1, <2>5, <3>1, BridgeAssumption DEF OperationRejects, Operation
    <3>3. rejected' \in [Operation -> 0..MaxFailures]
      BY <1>1, <2>5, <3>1, <3>2 DEF OperationRejects
    <3>4. reply' \in Reply \cup {None}
      BY <1>1, <2>2, <2>5 DEF OperationRejects, Refuse, Reply
    <3> QED
      BY <1>1, <2>5, <3>3, <3>4 DEF OperationRejects, NextPoll
  <2> QED
    BY <1>7, <2>3, <2>4, <2>5
<1>8. CASE CreateResponse \/ CloseResponse \/ RemoveRequest
  <2>1. /\ current \in Id /\ (host = "closing" => reply \in Reply)
    BY <1>1, <1>8
    DEF CreateResponse, CloseResponse, RemoveRequest, InHand, Handling
  <2> QED
    BY <1>1, <1>8, <2>1
    DEF CreateResponse, CloseResponse, RemoveRequest, RemoveFile
<1>9. CASE UNCHANGED vars
  BY <1>1, <1>9 DEF vars
<1> QED
  BY <1>2, <1>3, <1>4, <1>5, <1>6, <1>7, <1>8, <1>9
  DEF Next, HostStep, DirectoryStep, GuestStep

-----------------------------------------------------------------------------
(***************************************************************************)
(* Whose files they are, and what the page has in hand.                     *)
(***************************************************************************)
LEMMA IdsStep ==
  ASSUME BridgeInv, [Next]_vars
  PROVE  IdsAreOwn'
<1>1. TypeOK /\ IdsAreOwn
  BY DEF BridgeInv
<1>2. ASSUME UNCHANGED <<sequence, idOf>>,
             \A c \in Call : guest'[c] = "idle" <=> guest[c] = "idle"
      PROVE  IdsAreOwn'
  <2>1. Numbered' = Numbered
    BY <1>2 DEF Numbered
  <2> QED
    BY <1>1, <1>2, <2>1 DEF IdsAreOwn
<1>3. ASSUME NEW c \in Call, EndOfBody(c)
      PROVE  IdsAreOwn'
  <2>1. /\ guest[c] = "idle" /\ sequence' = sequence + 1
        /\ idOf' = [idOf EXCEPT ![c] = sequence + 1]
        /\ guest' = [guest EXCEPT ![c] = "writing"]
        /\ sequence \in Nat /\ None # sequence + 1
    BY <1>1, <1>3, IdIsLeft, Values, CallsAreFinite
    DEF EndOfBody, NewId, TypeOK
  <2>2. Numbered' = Numbered \cup {c} /\ c \notin Numbered
    BY <1>1, <2>1 DEF Numbered, TypeOK
  <2>3. sequence' = Cardinality(Numbered')
    <3>1. IsFiniteSet(Numbered)
      BY CallsAreFinite DEF Numbered
    <3>2. Cardinality(Numbered \cup {c}) = Cardinality(Numbered) + 1
      BY <2>2, <3>1, FS_AddElement
    <3> QED
      BY <1>1, <2>1, <2>2, <3>2 DEF IdsAreOwn
  <2>4. \A d \in Call : idOf[d] # None => idOf[d] \in Nat /\ idOf[d] < sequence + 1
    BY <1>1, <2>1 DEF IdsAreOwn, TypeOK, Id
  <2> QED
    BY <1>1, <2>1, <2>3, <2>4 DEF IdsAreOwn, TypeOK
<1>4. ASSUME NEW c \in Call,
             RenameRequest(c) \/ PollResponse(c) \/ Deadline(c)
      PROVE  IdsAreOwn'
  BY <1>1, <1>2, <1>4
  DEF RenameRequest, PollResponse, Deadline, Respond, TypeOK
<1>5. CASE HostStep \/ Stop \/ UNCHANGED vars
  BY <1>2, <1>5
  DEF HostStep, DirectoryStep, ListRequests, NextEntry, ReadRequest, Forward, CreateResponse,
      CloseResponse, RemoveRequest, OperationRejects, EndPolling, Stop, vars,
      guestVars
<1> QED
  BY <1>3, <1>4, <1>5 DEF Next, GuestStep

\* The guest leaves a request the page may have listed as it is.
LEMMA RequestedStays ==
  ASSUME BridgeInv, NEW c \in Call, GuestStep(c)
  PROVE  /\ UNCHANGED hostVars
         /\ \A i \in Id : requests[i] # None => requests'[i] # None
         /\ \A i \in Id : Requested(i) => requests'[i] = requests[i]
         /\ \A i \in Id : requests'[i] # None =>
              requests[i] # None \/ (EndOfBody(c) /\ i = NewId)
<1>1. /\ TypeOK /\ IdsAreOwn /\ FilesAreOwn
      /\ requests \in [Id -> Request \cup {None}]
      /\ sequence \in Nat
  BY CallsAreFinite DEF BridgeInv, TypeOK
<1>2. CASE EndOfBody(c)
  <2>1. NewId \in Id /\ NewId = sequence + 1
    BY <1>1, <1>2, IdIsLeft DEF EndOfBody, NewId
  <2>2. requests[NewId] = None
    BY <1>1, <2>1, Values DEF FilesAreOwn, IdsAreOwn, Request
  <2> QED
    BY <1>1, <1>2, <2>1, <2>2, Values
    DEF EndOfBody, WriteTemporary, Requested, Request
<1>3. CASE RenameRequest(c)
  <2>1. requests' =
          [requests EXCEPT ![idOf[c]] = [call |-> c, name |-> "request"]]
    BY <1>3 DEF RenameRequest
  <2>2. idOf[c] \in Id /\ [call |-> c, name |-> "request"] # None
    BY <1>1, <1>3, Values DEF RenameRequest, IdsAreOwn, TypeOK, Request
  <2>3. requests[idOf[c]] = [call |-> c, name |-> "temporary"]
    BY <1>1, <1>3 DEF RenameRequest, FilesAreOwn
  <2>4. requests[idOf[c]] # None /\ ~Requested(idOf[c])
    BY <1>1, <2>2, <2>3, Values DEF Requested, Request
  <2> QED
    BY <1>1, <1>3, <2>1, <2>2, <2>4 DEF RenameRequest, Requested
<1>4. CASE PollResponse(c) \/ Deadline(c)
  BY <1>4 DEF PollResponse, Deadline
<1> QED
  BY <1>2, <1>3, <1>4 DEF GuestStep

LEMMA FilesStep ==
  ASSUME BridgeInv, [Next]_vars
  PROVE  FilesAreOwn'
<1>1. /\ TypeOK /\ IdsAreOwn /\ FilesAreOwn /\ InHand
      /\ requests \in [Id -> Request \cup {None}]
      /\ responses \in [Id -> Reply \cup {None, Torn}]
      /\ idOf \in [Call -> Id \cup {None}] /\ sequence \in Nat
      /\ guest \in [Call -> {"idle", "writing", "waiting", "answered"}]
  BY CallsAreFinite DEF BridgeInv, TypeOK
<1>2. /\ \A i \in Id : requests[i] # None =>
           requests[i].call \in Call /\ requests[i].name \in {"temporary", "request"}
      /\ \A i \in Id : responses[i] \notin {None, Torn} => responses[i].call \in Call
      /\ \A i \in Id : i # None
  BY <1>1, Values DEF Request, Reply
<1>3. ASSUME NEW c \in Call, EndOfBody(c)
      PROVE  FilesAreOwn'
  <2>1. /\ NewId \in Id /\ NewId = sequence + 1
        /\ guest[c] = "idle" /\ idOf[c] = None /\ UNCHANGED responses
        /\ sequence' = sequence + 1
        /\ idOf' = [idOf EXCEPT ![c] = NewId]
        /\ guest' = [guest EXCEPT ![c] = "writing"]
        /\ requests' = [requests EXCEPT ![NewId] =
                          [call |-> c, name |-> "temporary"]]
        /\ \A d \in Call : guest[d] # "writing"
    BY <1>1, <1>3, IdIsLeft
    DEF EndOfBody, NewId, WriteTemporary, IdsAreOwn, Busy
  <2>2. \A d \in Call : d # c => idOf'[d] = idOf[d] /\ guest'[d] = guest[d]
    BY <1>1, <2>1
  <2>3. \A d \in Call : guest'[d] = "writing" => d = c
    BY <2>1, <2>2
  <2>4. \A i \in Id : requests'[i] # None =>
          /\ idOf'[requests'[i].call] = i
          /\ requests'[i].name = "request" =>
               guest'[requests'[i].call] # "writing"
    <3> TAKE i \in Id
    <3>1. CASE i = NewId
      BY <1>1, <2>1, <3>1
    <3>2. CASE i # NewId
      BY <1>1, <1>2, <2>1, <2>2, <3>2 DEF FilesAreOwn
    <3> QED
      BY <3>1, <3>2
  <2>5. \A i \in Id : responses'[i] # None =>
          /\ i <= sequence'
          /\ responses'[i] # Torn => idOf'[responses'[i].call] = i
    BY <1>1, <1>2, <2>1, <2>2 DEF FilesAreOwn, Id
  <2>6. \A d \in Call : guest'[d] = "writing" =>
          requests'[idOf'[d]] = [call |-> d, name |-> "temporary"]
    BY <1>1, <2>1, <2>3
  <2> QED
    BY <2>4, <2>5, <2>6 DEF FilesAreOwn
<1>4. ASSUME NEW c \in Call, RenameRequest(c)
      PROVE  FilesAreOwn'
  <2>1. /\ idOf[c] \in Id /\ guest[c] = "writing"
        /\ UNCHANGED <<responses, sequence, idOf>>
        /\ guest' = [guest EXCEPT ![c] = "waiting"]
        /\ requests' = [requests EXCEPT ![idOf[c]] =
                          [call |-> c, name |-> "request"]]
    BY <1>1, <1>4 DEF RenameRequest, IdsAreOwn
  <2>2. \A d \in Call : guest'[d] = "writing" =>
          d # c /\ guest[d] = "writing" /\ idOf[d] # None
    BY <1>1, <2>1 DEF IdsAreOwn
  <2>3. \A d \in Call : guest'[d] = "writing" =>
          requests'[idOf'[d]] = [call |-> d, name |-> "temporary"]
    BY <1>1, <2>1, <2>2 DEF FilesAreOwn, IdsAreOwn
  <2>4. \A i \in Id : requests'[i] # None =>
          /\ idOf'[requests'[i].call] = i
          /\ requests'[i].name = "request" =>
               guest'[requests'[i].call] # "writing"
    <3> TAKE i \in Id
    <3>1. CASE i = idOf[c]
      BY <1>1, <2>1, <3>1
    <3>2. CASE i # idOf[c]
      BY <1>1, <1>2, <2>1, <2>2, <3>2 DEF FilesAreOwn
    <3> QED
      BY <3>1, <3>2
  <2> QED
    BY <1>1, <2>1, <2>3, <2>4 DEF FilesAreOwn
<1>5. ASSUME NEW c \in Call, PollResponse(c) \/ Deadline(c)
      PROVE  FilesAreOwn'
  <2>1. /\ UNCHANGED <<requests, sequence, idOf>>
        /\ guest' = [guest EXCEPT ![c] = "answered"]
        /\ \A i \in Id : responses'[i] \in {None, responses[i]}
    BY <1>1, <1>5 DEF PollResponse, Deadline, Respond, Unlink
  <2>2. \A d \in Call : guest'[d] = "writing" => guest[d] = "writing"
    BY <1>1, <2>1
  <2> QED
    BY <1>1, <1>2, <2>1, <2>2 DEF FilesAreOwn
<1>6. CASE \/ ListRequests \/ NextEntry \/ ReadRequest \/ Forward
           \/ OperationRejects \/ EndPolling \/ Stop \/ UNCHANGED vars
  <2>1. UNCHANGED <<guestVars, requests, responses>>
    BY <1>6
    DEF ListRequests, NextEntry, ReadRequest, Forward, OperationRejects,
        EndPolling, Stop, vars, Files
  <2> QED
    BY <1>1, <2>1 DEF FilesAreOwn, guestVars
<1>7. CASE CreateResponse \/ CloseResponse \/ RemoveRequest
  <2>1. /\ current \in Id /\ requests[current] \in Request
        /\ idOf[CallOf(current)] = current /\ CallOf(current) \in Call
        /\ Requested(current)
    BY <1>1, <1>7, EntryInHand, Values
    DEF CreateResponse, CloseResponse, RemoveRequest, InHand, Handling
  <2>2. UNCHANGED guestVars /\ current <= sequence
    BY <1>1, <1>2, <1>7, <2>1
    DEF CreateResponse, CloseResponse, RemoveRequest, IdsAreOwn
  <2>3. CASE CreateResponse
    BY <1>1, <2>1, <2>2, <2>3 DEF CreateResponse, FilesAreOwn, guestVars
  <2>4. CASE CloseResponse
    <3>1. reply.call = CallOf(current) /\ reply \in Reply
      BY <1>1, <2>4, Values DEF CloseResponse, InHand, TypeOK
    <3> QED
      BY <1>1, <2>1, <2>2, <2>4, <3>1 DEF CloseResponse, FilesAreOwn, guestVars
  <2>5. CASE RemoveRequest
    <3>1. ASSUME NEW d \in Call, guest[d] = "writing", idOf[d] = current
          PROVE  FALSE
      <4>1. requests[current] = [call |-> d, name |-> "temporary"]
        BY <1>1, <3>1 DEF FilesAreOwn
      <4>2. requests[current].name = "request"
        BY <2>1 DEF Requested
      <4> QED
        BY <4>1, <4>2
    <3> QED
      BY <1>1, <2>1, <2>2, <2>5, <3>1
      DEF RemoveRequest, RemoveFile, FilesAreOwn, guestVars
  <2> QED
    BY <1>7, <2>3, <2>4, <2>5
<1> QED
  BY <1>3, <1>4, <1>5, <1>6, <1>7 DEF Next, HostStep, DirectoryStep, GuestStep

LEMMA AnswersStep ==
  ASSUME BridgeInv, [Next]_vars
  PROVE  AnswersAreOwn'
<1>1. /\ TypeOK /\ IdsAreOwn /\ FilesAreOwn /\ AnswersAreOwn
      /\ answer \in [Call -> Answer \cup {None}]
      /\ guest \in [Call -> {"idle", "writing", "waiting", "answered"}]
      /\ responses \in [Id -> Reply \cup {None, Torn}]
      /\ idOf \in [Call -> Id \cup {None}]
  BY DEF BridgeInv, TypeOK
<1>2. ASSUME NEW c \in Call, EndOfBody(c) \/ RenameRequest(c)
      PROVE  AnswersAreOwn'
  <2>1. /\ UNCHANGED answer /\ guest[c] # "answered"
        /\ \E g \in {"writing", "waiting"} : guest' = [guest EXCEPT ![c] = g]
    BY <1>2 DEF EndOfBody, RenameRequest
  <2> QED
    BY <1>1, <2>1 DEF AnswersAreOwn
<1>3. ASSUME NEW c \in Call, PollResponse(c) \/ Deadline(c)
      PROVE  AnswersAreOwn'
  <2>1. PICK a \in {Failure, responses[idOf[c]]} :
          /\ Respond(c, a)
          /\ a = Failure \/ (PollResponse(c) /\ a \notin {None, Torn})
    BY <1>3 DEF PollResponse, Deadline
  <2>2. a # None /\ (a = Failure \/ a.call = c)
    <3>1. CASE a = Failure
      BY <3>1, Values
    <3>2. CASE a # Failure
      <4>1. idOf[c] \in Id /\ a = responses[idOf[c]] /\ a \in Reply
        BY <1>1, <2>1, <3>2 DEF PollResponse, IdsAreOwn
      <4>2. idOf[a.call] = idOf[c] /\ a.call \in Call /\ idOf[c] # None
        BY <1>1, <2>1, <3>2, <4>1, Values DEF FilesAreOwn, Reply
      <4> QED
        BY <1>1, <2>1, <3>2, <4>2 DEF IdsAreOwn
    <3> QED
      BY <3>1, <3>2
  <2> QED
    BY <1>1, <2>1, <2>2 DEF Respond, AnswersAreOwn
<1>4. CASE HostStep \/ Stop \/ UNCHANGED vars
  BY <1>1, <1>4
  DEF HostStep, DirectoryStep, ListRequests, NextEntry, ReadRequest, Forward, CreateResponse,
      CloseResponse, RemoveRequest, OperationRejects, EndPolling, Stop, vars,
      guestVars, AnswersAreOwn
<1> QED
  BY <1>2, <1>3, <1>4 DEF Next, GuestStep

LEMMA InHandStep ==
  ASSUME BridgeInv, [Next]_vars
  PROVE  InHand'
<1> USE DEF Goto, Handling
<1>1. /\ TypeOK /\ InHand /\ pending \subseteq Id /\ None \notin Id
      /\ requests \in [Id -> Request \cup {None}]
      /\ current \in Id \cup {None} /\ reply \in Reply \cup {None}
  BY Values DEF BridgeInv, TypeOK
<1>2. ASSUME NEW c \in Call, GuestStep(c)
      PROVE  InHand'
  <2>1. /\ UNCHANGED hostVars
        /\ \A i \in Id : Requested(i) => requests'[i] = requests[i]
    BY <1>2, RequestedStays
  <2> QED
    BY <1>1, <2>1 DEF InHand, hostVars, Requested, CallOf
<1>3. CASE Stop \/ UNCHANGED vars
  BY <1>1, <1>3 DEF Stop, vars, hostVars, Files, InHand, Requested, CallOf
<1>4. CASE ListRequests \/ EndPolling
  BY <1>1, <1>4 DEF ListRequests, EndPolling, Files, InHand, Requested, CallOf
<1>5. CASE NextEntry
  BY <1>1, <1>5 DEF NextEntry, Files, InHand, Requested, CallOf
<1>6. CASE ReadRequest
  <2>1. [call |-> CallOf(current), kind |-> "refused"] # None
    BY <1>6, EntryInHand, Values DEF ReadRequest, Reply
  <2> QED
    BY <1>1, <1>6, <2>1 DEF ReadRequest, Refuse, Files, InHand, Requested, CallOf
<1>7. CASE Forward
  <2>1. [call |-> CallOf(current), kind |-> "forwarded"] # None
    BY <1>7, EntryInHand, Values DEF Forward, Reply
  <2> QED
    BY <1>1, <1>7, <2>1 DEF Forward, Files, InHand, Requested, CallOf
<1>8. CASE CreateResponse \/ CloseResponse
  BY <1>1, <1>8 DEF CreateResponse, CloseResponse, InHand, Requested, CallOf
<1>9. CASE RemoveRequest
  BY <1>1, <1>9 DEF RemoveRequest, RemoveFile, InHand, Requested, CallOf
<1>10. CASE OperationRejects
  <2>1. CASE host = "reading"
    <3>1. [call |-> CallOf(current), kind |-> "refused"] # None
      BY <2>1, EntryInHand, Values DEF Reply
    <3> QED
      BY <1>1, <1>10, <2>1, <3>1
      DEF OperationRejects, Refuse, Files, InHand, Requested, CallOf
  <2>2. CASE host # "reading"
    BY <1>1, <1>10, <2>2
    DEF OperationRejects, NextPoll, Files, InHand, Requested, CallOf
  <2> QED
    BY <2>1, <2>2
<1> QED
  BY <1>2, <1>3, <1>4, <1>5, <1>6, <1>7, <1>8, <1>9, <1>10 DEF Next, HostStep, DirectoryStep

-----------------------------------------------------------------------------
(***************************************************************************)
(* The counts.                                                              *)
(***************************************************************************)
\* How a set of calls grows and shrinks.
LEMMA NoMore ==
  ASSUME NEW S, NEW T, S \subseteq Call, T \subseteq S
  PROVE  /\ Cardinality(T) <= Cardinality(S)
         /\ Cardinality(T) \in Nat /\ Cardinality(S) \in Nat
<1>1. T \subseteq Call
  OBVIOUS
<1> QED
  BY <1>1, CallsAreFinite, FS_Subset

LEMMA OneMore ==
  ASSUME NEW S, NEW T, NEW c \in Call, S \subseteq Call, T \subseteq S \cup {c}
  PROVE  /\ Cardinality(T) <= Cardinality(S) + 1
         /\ Cardinality(T) \in Nat /\ Cardinality(S) \in Nat
<1>1. S \cup {c} \subseteq Call
  OBVIOUS
<1>2. Cardinality(T) <= Cardinality(S \cup {c}) /\ Cardinality(T) \in Nat
  BY <1>1, NoMore
<1>3. IsFiniteSet(S) /\ Cardinality(S) \in Nat
  BY CallsAreFinite
<1>4. Cardinality(S \cup {c}) \in {Cardinality(S), Cardinality(S) + 1}
  BY <1>3, FS_AddElement
<1> QED
  BY <1>2, <1>3, <1>4

LEMMA OneLess ==
  ASSUME NEW S, NEW T, NEW c \in S, S \subseteq Call, T \subseteq S \ {c}
  PROVE  /\ Cardinality(T) + 1 <= Cardinality(S)
         /\ Cardinality(T) \in Nat /\ Cardinality(S) \in Nat
<1>1. S \ {c} \subseteq Call /\ IsFiniteSet(S)
  BY CallsAreFinite
<1>2. /\ Cardinality(T) <= Cardinality(S \ {c})
      /\ Cardinality(T) \in Nat /\ Cardinality(S \ {c}) \in Nat
  BY <1>1, NoMore
<1>3. Cardinality(S \ {c}) = Cardinality(S) - 1 /\ Cardinality(S) \in Nat
  BY <1>1, FS_RemoveElement, CallsAreFinite
<1> QED
  BY <1>2, <1>3

\* A rejection is a read's, or a write's or removal's.
LEMMA Rejections ==
  ASSUME TypeOK
  PROVE  /\ rejected["read"] \in Nat /\ rejected["write"] \in Nat
         /\ rejected["remove"] \in Nat
         /\ OperationRejects =>
              IF host = "reading"
              THEN /\ rejected'["read"] = rejected["read"] + 1
                   /\ rejected'["write"] = rejected["write"]
                   /\ rejected'["remove"] = rejected["remove"]
              ELSE /\ rejected'["read"] = rejected["read"]
                   /\ rejected'["write"] + rejected'["remove"]
                        = rejected["write"] + rejected["remove"] + 1
                   /\ host \in {"writing", "closing", "removing"}
<1>1. rejected \in [Operation -> Nat]
  BY BridgeAssumption DEF TypeOK
<1>2. /\ rejected["read"] \in Nat /\ rejected["write"] \in Nat
      /\ rejected["remove"] \in Nat
  BY <1>1 DEF Operation
<1>3. ASSUME OperationRejects, NEW o \in Operation, OperationOf[host] = o
      PROVE  rejected' = [rejected EXCEPT ![o] = rejected[o] + 1]
  BY <1>3 DEF OperationRejects
<1>4. CASE OperationRejects /\ host = "reading"
  <2>1. rejected' = [rejected EXCEPT !["read"] = rejected["read"] + 1]
    BY <1>3, <1>4 DEF OperationOf, Operation
  <2> QED
    BY <1>1, <1>2, <1>4, <2>1 DEF Operation
<1>5. CASE OperationRejects /\ host \in {"writing", "closing"}
  <2>1. rejected' = [rejected EXCEPT !["write"] = rejected["write"] + 1]
    BY <1>3, <1>5 DEF OperationOf, Operation
  <2> QED
    BY <1>1, <1>2, <1>5, <2>1 DEF Operation
<1>6. CASE OperationRejects /\ host = "removing"
  <2>1. rejected' = [rejected EXCEPT !["remove"] = rejected["remove"] + 1]
    BY <1>3, <1>6 DEF OperationOf, Operation
  <2> QED
    BY <1>1, <1>2, <1>6, <2>1 DEF Operation
<1>7. OperationRejects => host \in {"reading", "writing", "closing", "removing"}
  BY DEF OperationRejects, OperationOf
<1> QED
  BY <1>2, <1>4, <1>5, <1>6, <1>7

\* Refusals: the page refuses a granted call only when it could not read it.
LEMMA RefusalsStep ==
  ASSUME BridgeInv, [Next]_vars
  PROVE  RefusalsAreCounted'
<1> USE DEF Turned
<1>1. /\ TypeOK /\ IdsAreOwn /\ FilesAreOwn /\ InHand /\ RefusalsAreCounted
      /\ answer \in [Call -> Answer \cup {None}]
      /\ responses \in [Id -> Reply \cup {None, Torn}]
      /\ idOf \in [Call -> Id \cup {None}]
      /\ forwards \in [Call -> Nat] /\ Good \subseteq Call
      /\ Refusals \subseteq Call
  BY BridgeAssumption DEF BridgeInv, TypeOK, Refusals
<1>2. ASSUME Refusals' \subseteq Refusals, UNCHANGED forwards,
             rejected'["read"] = rejected["read"]
      PROVE  RefusalsAreCounted'
  BY <1>1, <1>2, NoMore, Rejections DEF RefusalsAreCounted
<1>3. ASSUME NEW c \in Call, GuestStep(c)
      PROVE  RefusalsAreCounted'
  <2>1. UNCHANGED hostVars
    BY <1>3, RequestedStays
  <2>2. CASE EndOfBody(c)
    <3>1. /\ NewId \in Id /\ NewId = sequence + 1 /\ sequence \in Nat
          /\ idOf' = [idOf EXCEPT ![c] = NewId]
          /\ UNCHANGED <<answer, responses>>
      BY <1>1, <2>2, IdIsLeft, CallsAreFinite DEF EndOfBody, NewId, TypeOK
    <3>2. responses[NewId] = None
      BY <1>1, <3>1 DEF FilesAreOwn
    <3>3. Refusals' \subseteq Refusals
      BY <1>1, <2>1, <3>1, <3>2 DEF Refusals, hostVars
    <3> QED
      BY <1>2, <2>1, <3>3 DEF hostVars
  <2>3. CASE RenameRequest(c)
    BY <1>2, <2>1, <2>3 DEF RenameRequest, Refusals, hostVars
  <2>4. CASE PollResponse(c)
    <3>1. /\ idOf[c] \in Id /\ UNCHANGED idOf
          /\ \A i \in Id : responses'[i] \in {None, responses[i]}
          /\ \/ answer' = [answer EXCEPT ![c] = Failure]
             \/ /\ responses[idOf[c]] # Torn
                /\ answer' = [answer EXCEPT ![c] = responses[idOf[c]]]
      BY <1>1, <2>4 DEF PollResponse, Respond, Unlink, IdsAreOwn
    <3>2. Refusals' \subseteq Refusals
      BY <1>1, <2>1, <3>1, Values DEF Refusals, hostVars
    <3> QED
      BY <1>2, <2>1, <3>2 DEF hostVars
  <2>5. CASE Deadline(c)
    <3>1. Refusals' \subseteq Refusals
      BY <1>1, <2>1, <2>5, Values DEF Deadline, Respond, Refusals, hostVars
    <3> QED
      BY <1>2, <2>1, <3>1 DEF hostVars
  <2> QED
    BY <1>3, <2>2, <2>3, <2>4, <2>5 DEF GuestStep
<1>4. CASE ListRequests \/ NextEntry \/ EndPolling \/ Stop \/ UNCHANGED vars
  <2>1. UNCHANGED <<guestVars, responses, reply, forwards, rejected>>
    BY <1>4 DEF ListRequests, NextEntry, EndPolling, Stop, vars, hostVars, Files
  <2>2. Refusals' \subseteq Refusals
    BY <2>1 DEF Refusals, guestVars
  <2> QED
    BY <1>2, <2>1, <2>2
<1>5. CASE ReadRequest
  <2>1. /\ UNCHANGED <<guestVars, responses, forwards, rejected>>
        /\ Whole(current)
    BY <1>5, EntryInHand DEF ReadRequest, Handling, Files
  <2>2. \/ UNCHANGED reply
        \/ reply'.call = CallOf(current) /\ CallOf(current) \notin Good
    BY <1>5, <2>1 DEF ReadRequest, Refuse
  <2>3. Refusals' \subseteq Refusals
    BY <2>1, <2>2 DEF Refusals, guestVars
  <2> QED
    BY <1>2, <2>1, <2>3
<1>6. CASE Forward
  <2>1. /\ UNCHANGED <<guestVars, responses, rejected>>
        /\ reply'.kind = "forwarded" /\ CallOf(current) \in Good
        /\ forwards' = [forwards EXCEPT ![CallOf(current)] = @ + 1]
    BY <1>1, <1>6 DEF Forward, InHand, Files
  <2>2. Refusals' \subseteq Refusals
    BY <2>1 DEF Refusals, guestVars
  <2>3. \A c \in Call : forwards'[c] > 0 => c \in Good
    BY <1>1, <2>1 DEF RefusalsAreCounted
  <2> QED
    BY <1>1, <2>1, <2>2, <2>3, NoMore, Rejections DEF RefusalsAreCounted
<1>7. CASE CreateResponse \/ CloseResponse
  <2>1. /\ UNCHANGED <<guestVars, reply, forwards, rejected>>
        /\ current \in Id /\ CallOf(current) \in Call
        /\ idOf[CallOf(current)] = current
        /\ reply.call = CallOf(current) /\ reply # None
        /\ \/ responses' = [responses EXCEPT ![current] = Torn]
           \/ responses' = [responses EXCEPT ![current] = reply]
    BY <1>1, <1>7, EntryInHand DEF CreateResponse, CloseResponse, Handling, InHand
  <2>2. \A c \in Call : idOf[c] = current => c = CallOf(current)
    BY <1>1, <2>1, Values DEF IdsAreOwn
  <2>3. Refusals' \subseteq Refusals
    BY <1>1, <2>1, <2>2 DEF Refusals, guestVars
  <2> QED
    BY <1>2, <2>1, <2>3
<1>8. CASE RemoveRequest
  <2>1. Refusals' \subseteq Refusals
    BY <1>8 DEF RemoveRequest, Refusals, guestVars
  <2> QED
    BY <1>2, <1>8, <2>1 DEF RemoveRequest
<1>9. CASE OperationRejects
  <2>1. UNCHANGED <<guestVars, responses, forwards>>
    BY <1>9 DEF OperationRejects, Files
  <2>2. CASE host = "reading"
    <3>1. CallOf(current) \in Call /\ reply'.call = CallOf(current)
      BY <1>9, <2>2, EntryInHand DEF OperationRejects, Refuse, Handling
    <3>2. Refusals' \subseteq Refusals \cup {CallOf(current)}
      BY <1>1, <2>1, <3>1 DEF Refusals, guestVars
    <3>3. /\ Cardinality(Refusals') <= Cardinality(Refusals) + 1
          /\ Cardinality(Refusals') \in Nat /\ Cardinality(Refusals) \in Nat
      BY <1>1, <3>1, <3>2, OneMore
    <3>4. /\ rejected'["read"] = rejected["read"] + 1
          /\ rejected["read"] \in Nat
      BY <1>1, <1>9, <2>2, Rejections
    <3> QED
      BY <1>1, <2>1, <3>3, <3>4 DEF RefusalsAreCounted
  <2>3. CASE host # "reading"
    <3>1. Refusals' \subseteq Refusals
      BY <1>9, <2>1, <2>3 DEF OperationRejects, Refusals, guestVars
    <3> QED
      BY <1>1, <1>2, <1>9, <2>1, <2>3, <3>1, Rejections
  <2> QED
    BY <2>2, <2>3
<1> QED
  BY <1>3, <1>4, <1>5, <1>6, <1>7, <1>8, <1>9 DEF Next, HostStep, DirectoryStep

\* Forwards: a call is forwarded again only after its response could not be
\* written or its request not removed.
LEMMA OneForwardMore ==
  ASSUME TypeOK, ForwardsAreCounted, NEW c \in Call,
         forwards' = [forwards EXCEPT ![c] = @ + 1]
  PROVE  /\ IsFiniteSet(Forwardings')
         /\ Cardinality(Forwardings') \in Nat
         /\ Cardinality(Forwardings') <= Cardinality(Forwardings) + 1
<1>1. forwards \in [Call -> Nat]
  BY DEF TypeOK
<1>2. Forwardings' = Forwardings \cup {<<c, forwards[c] + 1>>}
  <2>1. \A n : n \in 1..forwards'[c] <=> n \in 1..forwards[c] \/ n = forwards[c] + 1
    BY <1>1
  <2>2. \A d \in Call : d # c => forwards'[d] = forwards[d]
    BY <1>1
  <2>3. ASSUME NEW p \in Forwardings'
        PROVE  p \in Forwardings \/ p = <<c, forwards[c] + 1>>
    <3>1. PICK d \in Call : \E n \in 1..forwards'[d] : p = <<d, n>>
      BY <2>3 DEF Forwardings
    <3>2. PICK n \in 1..forwards'[d] : p = <<d, n>>
      BY <3>1
    <3>3. n \in 1..forwards[d] \/ (d = c /\ n = forwards[c] + 1)
      BY <2>1, <2>2, <3>2
    <3> QED
      BY <3>2, <3>3 DEF Forwardings
  <2>4. ASSUME NEW p \in Forwardings \cup {<<c, forwards[c] + 1>>}
        PROVE  p \in Forwardings'
    <3>1. PICK d \in Call, n \in Nat :
            p = <<d, n>> /\ (n \in 1..forwards[d] \/ (d = c /\ n = forwards[c] + 1))
      BY <1>1, <2>4 DEF Forwardings
    <3>2. n \in 1..forwards'[d]
      BY <2>1, <2>2, <3>1
    <3> QED
      BY <3>1, <3>2 DEF Forwardings
  <2> QED
    BY <2>3, <2>4
<1>3. IsFiniteSet(Forwardings)
  BY DEF ForwardsAreCounted
<1>4. /\ IsFiniteSet(Forwardings')
      /\ Cardinality(Forwardings') \in
           {Cardinality(Forwardings), Cardinality(Forwardings) + 1}
  BY <1>2, <1>3, FS_AddElement
<1>5. Cardinality(Forwardings) \in Nat
  BY <1>3, FS_CardinalityType
<1> QED
  BY <1>4, <1>5

LEMMA ForwardsStep ==
  ASSUME BridgeInv, [Next]_vars
  PROVE  ForwardsAreCounted'
<1>1. /\ TypeOK /\ IdsAreOwn /\ FilesAreOwn /\ InHand /\ ForwardsAreCounted
      /\ requests \in [Id -> Request \cup {None}]
      /\ idOf \in [Call -> Id \cup {None}] /\ sequence \in Nat
      /\ Good \subseteq Call /\ Ahead \subseteq Call /\ Sent \subseteq Call
      /\ IsFiniteSet(Forwardings)
      /\ Cardinality(Forwardings) \in Nat
      /\ Cardinality(Ahead) \in Nat /\ Cardinality(Sent) \in Nat
      /\ rejected["write"] \in Nat /\ rejected["remove"] \in Nat
  <2>1. /\ TypeOK /\ IdsAreOwn /\ FilesAreOwn /\ InHand /\ ForwardsAreCounted
        /\ Good \subseteq Call /\ Ahead \subseteq Call /\ Sent \subseteq Call
    BY BridgeAssumption DEF BridgeInv, Ahead, Sent
  <2> QED
    BY SMTT(30), <2>1, CallsAreFinite, FS_CardinalityType, Rejections
    DEF TypeOK, ForwardsAreCounted
<1>2. ASSUME Ahead' \subseteq Ahead, UNCHANGED <<forwards, idOf>>,
             \/ UNCHANGED rejected
             \/ /\ rejected'["write"] = rejected["write"]
                /\ rejected'["remove"] = rejected["remove"]
      PROVE  ForwardsAreCounted'
  <2>1. Forwardings' = Forwardings /\ Sent' = Sent
    BY <1>2 DEF Forwardings, Sent
  <2>2. Cardinality(Ahead') <= Cardinality(Ahead) /\ Cardinality(Ahead') \in Nat
    BY <1>1, <1>2, NoMore
  <2> QED
    BY <1>1, <1>2, <2>1, <2>2 DEF ForwardsAreCounted
<1>3. ASSUME NEW c \in Call, EndOfBody(c)
      PROVE  ForwardsAreCounted'
  <2>1. /\ NewId \in Id /\ NewId = sequence + 1 /\ NewId # None
        /\ idOf[c] = None /\ idOf' = [idOf EXCEPT ![c] = NewId]
        /\ UNCHANGED hostVars
        /\ \A i \in Id : requests'[i] # None => requests[i] # None \/ i = NewId
    BY <1>1, <1>3, IdIsLeft, RequestedStays, Values
    DEF EndOfBody, NewId, IdsAreOwn, GuestStep
  <2>2. \A d \in Call : idOf[d] # None => idOf[d] # NewId
    BY <1>1, <2>1 DEF IdsAreOwn, Id
  <2>3. Forwardings' = Forwardings /\ UNCHANGED rejected
    BY <2>1 DEF Forwardings, hostVars
  <2>4. /\ Ahead' \subseteq Ahead \cup {c}
        /\ c \notin Good => Ahead' \subseteq Ahead
    BY <1>1, <2>1, <2>2, Values DEF Ahead, InReply, hostVars
  <2>5. CASE c \in Good
    <3>1. Sent' = Sent \cup {c} /\ c \notin Sent
      BY <1>1, <2>1, <2>5 DEF Sent
    <3>2. Cardinality(Sent') = Cardinality(Sent) + 1
      BY <1>1, <3>1, CallsAreFinite, FS_AddElement
    <3>3. /\ Cardinality(Ahead') <= Cardinality(Ahead) + 1
          /\ Cardinality(Ahead') \in Nat
      BY <1>1, <2>4, OneMore
    <3> QED
      BY <1>1, <2>3, <3>2, <3>3 DEF ForwardsAreCounted
  <2>6. CASE c \notin Good
    <3>1. Sent' = Sent
      BY <1>1, <2>1, <2>6 DEF Sent
    <3>2. Cardinality(Ahead') <= Cardinality(Ahead) /\ Cardinality(Ahead') \in Nat
      BY <1>1, <2>4, <2>6, NoMore
    <3> QED
      BY <1>1, <2>3, <3>1, <3>2 DEF ForwardsAreCounted
  <2> QED
    BY <2>5, <2>6
<1>4. ASSUME NEW c \in Call,
             RenameRequest(c) \/ PollResponse(c) \/ Deadline(c)
      PROVE  ForwardsAreCounted'
  <2>1. UNCHANGED <<hostVars, idOf>> /\ ~EndOfBody(c)
    BY <1>4, RequestedStays
    DEF GuestStep, RenameRequest, PollResponse, Deadline, Respond, EndOfBody
  <2>2. \A i \in Id : requests'[i] # None => requests[i] # None
    BY <1>4, <2>1, RequestedStays DEF GuestStep
  <2>3. Ahead' \subseteq Ahead
    BY <2>1, <2>2 DEF Ahead, InReply, hostVars
  <2> QED
    BY <1>2, <2>1, <2>3 DEF hostVars
<1>5. CASE \/ ListRequests \/ NextEntry \/ CreateResponse \/ CloseResponse
           \/ EndPolling \/ Stop \/ UNCHANGED vars
  <2>1. UNCHANGED <<guestVars, requests, reply, forwards, rejected>>
    BY <1>5
    DEF ListRequests, NextEntry, CreateResponse, CloseResponse, EndPolling,
        Stop, vars, hostVars, Files
  <2>2. Ahead' \subseteq Ahead
    BY <2>1 DEF Ahead, InReply, guestVars
  <2> QED
    BY <1>2, <2>1, <2>2 DEF guestVars
<1>6. CASE ReadRequest
  <2>1. UNCHANGED <<guestVars, requests, forwards, rejected>> /\ reply = None
    BY <1>1, <1>6 DEF ReadRequest, InHand, Files
  <2>2. Ahead' \subseteq Ahead
    BY <2>1 DEF Ahead, InReply, guestVars
  <2> QED
    BY <1>2, <2>1, <2>2 DEF guestVars
<1>7. CASE Forward
  <2> DEFINE c == CallOf(current)
  <2>1. /\ UNCHANGED <<guestVars, requests, rejected>> /\ reply = None
        /\ forwards' = [forwards EXCEPT ![c] = @ + 1]
        /\ reply' = [call |-> c, kind |-> "forwarded"]
        /\ c \in Good /\ c \in Call /\ idOf[c] = current
        /\ current \in Id /\ requests[current] # None
    BY <1>1, <1>7, EntryInHand, Values
    DEF Forward, InHand, Files, Handling
  <2>2. reply' # None
    BY <2>1, Values DEF Reply
  <2>3. c \in Ahead /\ Ahead' \subseteq Ahead \ {c}
    BY <2>1, <2>2 DEF Ahead, InReply, guestVars
  <2>4. Cardinality(Ahead') + 1 <= Cardinality(Ahead) /\ Cardinality(Ahead') \in Nat
    BY <1>1, <2>3, OneLess
  <2>5. /\ IsFiniteSet(Forwardings') /\ Cardinality(Forwardings') \in Nat
        /\ Cardinality(Forwardings') <= Cardinality(Forwardings) + 1
    BY <1>1, <2>1, OneForwardMore
  <2>6. Sent' = Sent
    BY <2>1 DEF Sent, guestVars
  <2> QED
    BY <1>1, <2>1, <2>4, <2>5, <2>6 DEF ForwardsAreCounted
<1>8. CASE RemoveRequest
  <2>1. /\ UNCHANGED <<guestVars, forwards, rejected>>
        /\ requests' = [requests EXCEPT ![current] = None]
        /\ current \in Id /\ reply.call = CallOf(current)
        /\ idOf[CallOf(current)] = current
    BY <1>1, <1>8, EntryInHand
    DEF RemoveRequest, RemoveFile, InHand, Handling
  <2>2. Ahead' \subseteq Ahead
    BY <1>1, <2>1 DEF Ahead, InReply, guestVars
  <2> QED
    BY <1>2, <2>1, <2>2 DEF guestVars
<1>9. CASE OperationRejects
  <2>1. UNCHANGED <<guestVars, requests, forwards>>
    BY <1>9 DEF OperationRejects, Files
  <2>2. CASE host = "reading"
    <3>1. reply = None
      BY <1>1, <2>2 DEF InHand
    <3>2. Ahead' \subseteq Ahead
      BY <2>1, <3>1 DEF Ahead, InReply, guestVars
    <3> QED
      BY <1>1, <1>2, <1>9, <2>1, <2>2, <3>2, Rejections DEF guestVars
  <2>3. CASE host # "reading"
    <3>1. /\ rejected'["write"] + rejected'["remove"]
               = rejected["write"] + rejected["remove"] + 1
          /\ host \in {"writing", "closing", "removing"}
      BY <1>1, <1>9, <2>3, Rejections
    <3>2. CallOf(current) \in Call /\ reply.call = CallOf(current)
      BY <1>1, <3>1, EntryInHand DEF InHand, Handling
    <3>3. Ahead' \subseteq Ahead \cup {CallOf(current)}
      BY <2>1, <3>2 DEF Ahead, InReply, guestVars
    <3>4. /\ Cardinality(Ahead') <= Cardinality(Ahead) + 1
          /\ Cardinality(Ahead') \in Nat
      BY <1>1, <3>2, <3>3, OneMore
    <3>5. Forwardings' = Forwardings /\ Sent' = Sent
      BY <2>1 DEF Forwardings, Sent, guestVars
    <3>6. rejected'["write"] \in Nat /\ rejected'["remove"] \in Nat
      BY TypeStep, Rejections, BridgeAssumption DEF TypeOK, Operation
    <3> QED
      BY <1>1, <3>1, <3>4, <3>5, <3>6 DEF ForwardsAreCounted
  <2> QED
    BY <2>2, <2>3
<1> QED
  BY <1>3, <1>4, <1>5, <1>6, <1>7, <1>8, <1>9 DEF Next, HostStep, DirectoryStep, GuestStep

\* Leftovers: a response outlives its call only after such a failure.
LEMMA LeftoversStep ==
  ASSUME BridgeInv, [Next]_vars
  PROVE  LeftoversAreCounted'
<1>1. /\ TypeOK /\ IdsAreOwn /\ FilesAreOwn /\ AnswersAreOwn /\ InHand
      /\ LeftoversAreCounted /\ Leftovers \subseteq Call
      /\ requests \in [Id -> Request \cup {None}]
      /\ responses \in [Id -> Reply \cup {None, Torn}]
      /\ answer \in [Call -> Answer \cup {None}]
      /\ guest \in [Call -> {"idle", "writing", "waiting", "answered"}]
      /\ idOf \in [Call -> Id \cup {None}] /\ sequence \in Nat
  BY CallsAreFinite DEF BridgeInv, TypeOK, Leftovers
<1>2. /\ rejected["write"] \in Nat /\ rejected["remove"] \in Nat
  BY <1>1, Rejections
<1>3. ASSUME Leftovers' \subseteq Leftovers,
             \/ UNCHANGED rejected
             \/ /\ rejected'["write"] = rejected["write"]
                /\ rejected'["remove"] = rejected["remove"]
      PROVE  LeftoversAreCounted'
  <2>1. /\ Cardinality(Leftovers') <= Cardinality(Leftovers)
        /\ Cardinality(Leftovers') \in Nat /\ Cardinality(Leftovers) \in Nat
    BY <1>1, <1>3, NoMore
  <2> QED
    BY <1>1, <1>2, <1>3, <2>1 DEF LeftoversAreCounted
<1>4. ASSUME NEW c \in Call, EndOfBody(c)
      PROVE  LeftoversAreCounted'
  <2>1. /\ NewId \in Id /\ NewId = sequence + 1 /\ NewId # None
        /\ idOf[c] = None /\ idOf' = [idOf EXCEPT ![c] = NewId]
        /\ guest' = [guest EXCEPT ![c] = "writing"]
        /\ UNCHANGED <<hostVars, answer, responses>>
        /\ \A i \in Id : requests'[i] # None => requests[i] # None \/ i = NewId
    BY <1>1, <1>4, IdIsLeft, RequestedStays, Values
    DEF EndOfBody, NewId, IdsAreOwn, GuestStep
  <2>2. \A d \in Call : idOf[d] # None => idOf[d] # NewId
    BY <1>1, <2>1 DEF IdsAreOwn, Id
  <2>3. responses[NewId] = None
    BY <1>1, <2>1 DEF FilesAreOwn
  <2>4. Leftovers' \subseteq Leftovers
    BY <1>1, <2>1, <2>2, <2>3, Values DEF Leftovers, Remains, hostVars
  <2> QED
    BY <1>3, <2>1, <2>4 DEF hostVars
<1>5. ASSUME NEW c \in Call, RenameRequest(c) \/ PollResponse(c) \/ Deadline(c)
      PROVE  LeftoversAreCounted'
  <2>1. UNCHANGED <<hostVars, idOf>> /\ ~EndOfBody(c) /\ idOf[c] \in Id
    BY <1>1, <1>5, RequestedStays
    DEF GuestStep, RenameRequest, PollResponse, Deadline, Respond, EndOfBody,
        IdsAreOwn
  <2>2. \A i \in Id : requests'[i] # None => requests[i] # None
    BY <1>5, <2>1, RequestedStays DEF GuestStep
  <2>3. CASE RenameRequest(c)
    <3>1. Leftovers' \subseteq Leftovers
      BY <1>1, <2>1, <2>2, <2>3 DEF RenameRequest, Leftovers, Remains, hostVars
    <3> QED
      BY <1>3, <2>1, <3>1 DEF hostVars
  <2>4. CASE PollResponse(c)
    <3>1. CASE responses[idOf[c]] = Torn
      <4>1. Leftovers' \subseteq Leftovers
        BY <1>1, <2>1, <2>2, <2>4, <3>1, Values
        DEF PollResponse, Respond, Leftovers, Remains, hostVars
      <4> QED
        BY <1>3, <2>1, <4>1 DEF hostVars
    <3>2. CASE responses[idOf[c]] # Torn
      <4>1. /\ guest' = [guest EXCEPT ![c] = "answered"]
            /\ answer' = [answer EXCEPT ![c] = responses[idOf[c]]]
            /\ responses' = [responses EXCEPT ![idOf[c]] = None]
            /\ responses[idOf[c]] # None
        BY <2>4, <3>2 DEF PollResponse, Respond, Unlink
      <4>2. Leftovers' \subseteq Leftovers
        BY <1>1, <2>1, <2>2, <3>2, <4>1 DEF Leftovers, Remains, hostVars
      <4> QED
        BY <1>3, <2>1, <4>2 DEF hostVars
    <3> QED
      BY <3>1, <3>2
  <2>5. CASE Deadline(c)
    <3>1. Leftovers' \subseteq Leftovers
      BY <1>1, <2>1, <2>2, <2>5, Values
      DEF Deadline, Respond, Leftovers, Remains, hostVars
    <3> QED
      BY <1>3, <2>1, <3>1 DEF hostVars
  <2> QED
    BY <1>5, <2>3, <2>4, <2>5
<1>6. CASE \/ ListRequests \/ NextEntry \/ ReadRequest \/ Forward
           \/ EndPolling \/ Stop \/ UNCHANGED vars
  <2>1. /\ UNCHANGED <<guestVars, requests, responses, rejected>>
        /\ host = "removing" => host' = host /\ current' = current
    BY <1>6
    DEF ListRequests, NextEntry, ReadRequest, Forward, EndPolling, Stop, vars,
        hostVars, Files
  <2>2. Leftovers' \subseteq Leftovers
    BY <2>1 DEF Leftovers, Remains, guestVars
  <2> QED
    BY <1>3, <2>1, <2>2
<1>7. CASE CreateResponse \/ CloseResponse \/ RemoveRequest
  <2>1. /\ current \in Id /\ requests[current] # None
        /\ CallOf(current) \in Call /\ idOf[CallOf(current)] = current
        /\ UNCHANGED <<guestVars, rejected>>
    BY <1>7, EntryInHand, Values
    DEF CreateResponse, CloseResponse, RemoveRequest, Handling
  <2>2. Leftovers' \subseteq Leftovers
    <3>1. CASE CreateResponse
      BY <1>1, <2>1, <3>1
      DEF CreateResponse, Goto, Leftovers, Remains, guestVars
    <3>2. CASE CloseResponse
      BY <1>1, <2>1, <3>2
      DEF CloseResponse, Goto, Leftovers, Remains, guestVars
    <3>3. CASE RemoveRequest
      BY <1>1, <2>1, <3>3
      DEF RemoveRequest, RemoveFile, Goto, Leftovers, Remains, guestVars
    <3> QED
      BY <1>7, <3>1, <3>2, <3>3
  <2> QED
    BY <1>3, <2>1, <2>2
<1>8. CASE OperationRejects
  <2>1. UNCHANGED <<guestVars, requests, responses>>
    BY <1>8 DEF OperationRejects, Files
  <2>2. CASE host = "reading"
    <3>1. Leftovers' \subseteq Leftovers
      BY <2>1, <2>2 DEF Leftovers, Remains, guestVars
    <3> QED
      BY <1>1, <1>3, <1>8, <2>2, <3>1, Rejections
  <2>3. CASE host # "reading"
    <3>1. /\ rejected'["write"] + rejected'["remove"]
               = rejected["write"] + rejected["remove"] + 1
          /\ host \in {"writing", "closing", "removing"}
      BY <1>1, <1>8, <2>3, Rejections
    <3>2. /\ CallOf(current) \in Call /\ idOf[CallOf(current)] = current
          /\ current \in Id
      BY <3>1, EntryInHand DEF Handling
    <3>3. \A d \in Call : idOf[d] = current => d = CallOf(current)
      BY <1>1, <3>2, Values DEF IdsAreOwn
    <3>4. Leftovers' \subseteq Leftovers \cup {CallOf(current)}
      BY <2>1, <3>3 DEF Leftovers, Remains, guestVars
    <3>5. /\ Cardinality(Leftovers') <= Cardinality(Leftovers) + 1
          /\ Cardinality(Leftovers') \in Nat /\ Cardinality(Leftovers) \in Nat
      BY <1>1, <3>2, <3>4, OneMore
    <3>6. rejected'["write"] \in Nat /\ rejected'["remove"] \in Nat
      BY TypeStep, BridgeAssumption DEF TypeOK, Operation
    <3> QED
      BY <1>1, <1>2, <3>1, <3>5, <3>6 DEF LeftoversAreCounted
  <2> QED
    BY <2>2, <2>3
<1> QED
  BY <1>4, <1>5, <1>6, <1>7, <1>8 DEF Next, HostStep, DirectoryStep, GuestStep

-----------------------------------------------------------------------------
(***************************************************************************)
(* The theorems.                                                            *)
(***************************************************************************)
LEMMA BridgeInit == Init => BridgeInv
<1> SUFFICES ASSUME Init PROVE BridgeInv
  OBVIOUS
<1>1. TypeOK
  BY TypeInit
<1>2. /\ Numbered = {} /\ Forwardings = {}
      /\ Refusals = {} /\ Ahead = {} /\ Leftovers = {} /\ Sent = {}
  <2>1. /\ Numbered = {} /\ Sent = {}
        /\ \A c \in Call : idOf[c] = None /\ answer[c] = None /\ forwards[c] = 0
        /\ \A i \in Id : responses[i] = None
        /\ reply = None /\ Good \subseteq Call
    BY BridgeAssumption DEF Init, Numbered, Sent
  <2>2. Forwardings = {}
    BY <2>1 DEF Forwardings
  <2>3. Refusals = {}
    BY <2>1 DEF Refusals, Turned
  <2>4. Ahead = {} /\ Leftovers = {}
    BY <2>1, Values DEF Ahead, Leftovers
  <2> QED
    BY <2>1, <2>2, <2>3, <2>4
<1>3. Cardinality({}) = 0 /\ IsFiniteSet({})
  BY FS_EmptySet
<1>4. IdsAreOwn
  BY <1>2, <1>3 DEF Init, IdsAreOwn
<1>5. FilesAreOwn /\ AnswersAreOwn /\ InHand
  BY Values DEF Init, FilesAreOwn, AnswersAreOwn, InHand, Handling
<1>6. RefusalsAreCounted
  BY <1>2, <1>3 DEF Init, RefusalsAreCounted, Operation
<1>7. ForwardsAreCounted /\ LeftoversAreCounted
  BY <1>2, <1>3 DEF Init, ForwardsAreCounted, LeftoversAreCounted, Operation
<1> QED
  BY <1>1, <1>4, <1>5, <1>6, <1>7 DEF BridgeInv

LEMMA BridgeStep == BridgeInv /\ [Next]_vars => BridgeInv'
<1> SUFFICES ASSUME BridgeInv, [Next]_vars
             PROVE  BridgeInv'
  OBVIOUS
<1> QED
  BY TypeStep, IdsStep, FilesStep, AnswersStep, InHandStep, RefusalsStep,
     ForwardsStep, LeftoversStep
  DEF BridgeInv

\* The guest's files and the page's entry in hand agree, and the refusals,
\* forwards and leftovers are counted before they can be seen, whatever is
\* timed out, rejected or repeated (the poll loop of byok-http-bridge.ts).
THEOREM BridgeInvariant == Spec => []BridgeInv
BY BridgeInit, BridgeStep, PTL DEF Spec

\* The types of the files and of both sides' variables.
THEOREM BridgeTypeCorrect == Spec => []TypeOK
<1>1. BridgeInv => TypeOK
  BY DEF BridgeInv
<1> QED
  BY <1>1, BridgeInvariant, PTL

\* A call is answered with its own reply, and refused only when it was not
\* granted or could not be read (parseRequest and handleRequest).
THEOREM AnswersStayRight == Spec => []AnswersAreRight
<1>1. BridgeInv => AnswersAreRight
  <2> SUFFICES ASSUME BridgeInv PROVE AnswersAreRight
    OBVIOUS
  <2>1. AnswerIsOwn
    BY Values DEF BridgeInv, AnswersAreOwn, AnswerIsOwn
  <2> DEFINE Told == {c \in Good : answer[c] # None /\ answer[c].kind = "refused"}
  <2>2. Told \subseteq Refusals /\ Refusals \subseteq Call
    BY BridgeAssumption DEF Refusals, Turned
  <2>3. /\ Cardinality(Told) <= Cardinality(Refusals)
        /\ Cardinality(Told) \in Nat /\ Cardinality(Refusals) \in Nat
    BY <2>2, NoMore
  <2>4. rejected["read"] \in Nat
    BY Rejections DEF BridgeInv
  <2>5. Cardinality(Told) <= rejected["read"]
    BY <2>3, <2>4 DEF BridgeInv, RefusalsAreCounted
  <2>6. RefusalsAreRight
    BY <2>5 DEF BridgeInv, RefusalsAreCounted, RefusalsAreRight
  <2> QED
    BY <2>1, <2>6 DEF AnswersAreRight
<1> QED
  BY <1>1, BridgeInvariant, PTL

\* The provider is charged again for a call only after a write or a removal of
\* the page rejected, once for each.
THEOREM ForwardsAreBounded == Spec => []RepeatedOnlyAfterFailure
<1>1. BridgeInv => RepeatedOnlyAfterFailure
  <2> SUFFICES ASSUME BridgeInv PROVE RepeatedOnlyAfterFailure
    OBVIOUS
  <2>1. Ahead \subseteq Call /\ Sent \subseteq Call
    BY BridgeAssumption DEF Ahead, Sent
  <2>2. Cardinality(Ahead) \in Nat /\ Cardinality(Sent) \in Nat
    BY <2>1, CallsAreFinite
  <2>3. Cardinality(Forwardings) \in Nat
    BY FS_CardinalityType DEF BridgeInv, ForwardsAreCounted
  <2>4. rejected["write"] \in Nat /\ rejected["remove"] \in Nat
    BY Rejections DEF BridgeInv
  <2> QED
    BY <2>2, <2>3, <2>4
    DEF BridgeInv, ForwardsAreCounted, RepeatedOnlyAfterFailure
<1> QED
  BY <1>1, BridgeInvariant, PTL

\* No response file stays behind an answered call but after such a rejection
\* (the guest's unlink of the response it read).
THEOREM ResponsesStayCollected == Spec => []ResponsesAreCollected
<1>1. BridgeInv => ResponsesAreCollected
  <2> SUFFICES ASSUME BridgeInv PROVE ResponsesAreCollected
    OBVIOUS
  <2> DEFINE Left == {c \in Call : /\ guest[c] = "answered" /\ idOf[c] # None
                                   /\ answer[c].call # None
                                   /\ responses[idOf[c]] # None}
  <2>1. Left \subseteq Leftovers /\ Leftovers \subseteq Call
    BY DEF BridgeInv, TypeOK, Leftovers
  <2>2. /\ Cardinality(Left) <= Cardinality(Leftovers)
        /\ Cardinality(Left) \in Nat /\ Cardinality(Leftovers) \in Nat
    BY <2>1, NoMore
  <2>3. rejected["write"] \in Nat /\ rejected["remove"] \in Nat
    BY Rejections DEF BridgeInv
  <2>4. Cardinality(Left) <= rejected["write"] + rejected["remove"]
    BY <2>2, <2>3 DEF BridgeInv, LeftoversAreCounted
  <2> QED
    BY <2>4 DEF ResponsesAreCollected
<1> QED
  BY <1>1, BridgeInvariant, PTL

=============================================================================
