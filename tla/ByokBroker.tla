----------------------------- MODULE ByokBroker -----------------------------
(***************************************************************************)
(* One capability of the hosted broker of src/worker/byok-broker.mjs: a     *)
(* Durable Object that keeps the user's provider credential, hands out one  *)
(* guest token, forwards a bounded number of model calls with it, and       *)
(* forgets the credential on revocation or when its alarm fires.            *)
(*                                                                          *)
(* Handlers interleave at every await except those that the runtime closes  *)
(* to other events: between a storage operation and its answer, and inside  *)
(* blockConcurrencyWhile, whose continuation runs before the next event.    *)
(* So an action is one stretch of a handler between two awaits at which     *)
(* another event may run.  A request the broker refuses without a change of *)
(* state is no step.  Requests carry the secret they were given: what a     *)
(* wrong secret, path or method gets is a refusal.                          *)
(***************************************************************************)
EXTENDS Naturals, FiniteSets

CONSTANTS
  Caller,        \* guests' model calls that may be open at one time
  Poller,        \* device-code polls that may be open at one time
  Revoker,       \* revocations that may be open at one time
  Issuer,        \* the one request that creates the capability
  None,          \* JavaScript's undefined
  MaxRequests,   \* DEFAULT_MAX_REQUESTS (64 in the code)
  SessionTtl,    \* DEFAULT_TTL_SECONDS (30 minutes)
  DeviceTtl,     \* OPENAI_DEVICE_TTL_MS (15 minutes)
  PollInterval,  \* intervalMs of a device authorization
  TokenLives,    \* the lifetimes the authorization server gives to tokens
  Skew,          \* OPENAI_REFRESH_SKEW_MS (one minute)
  Horizon,       \* bound: the last instant of the clock
  MaxEvictions   \* bound: how often the object is evicted or reset

Process == Caller \cup Poller \cup Revoker \cup {Issuer}

ASSUME BrokerAssumption ==
  /\ Caller \cap Poller = {} /\ Caller \cap Revoker = {}
  /\ Poller \cap Revoker = {} /\ Issuer \notin Caller \cup Poller \cup Revoker
  /\ MaxRequests \in Nat /\ SessionTtl \in Nat /\ DeviceTtl \in Nat
  /\ PollInterval \in Nat /\ TokenLives \subseteq Nat /\ Skew \in Nat
  /\ Horizon \in Nat /\ MaxEvictions \in Nat

(***************************************************************************)
(* The record under SESSION_KEY.  "key" says that apiKey or accessToken is  *)
(* set; "refresh" is the generation of refreshToken, 0 for null.            *)
(***************************************************************************)
Session == [auth : {"api-key", "openai-oauth"}, state : {"pending", "ready"},
            revoked : BOOLEAN, key : BOOLEAN, refresh : Nat, count : Nat,
            expiresAt : Nat, nextPollAt : Nat, tokenExpiresAt : Nat]

ASSUME NoneAssumption == None \notin Session \cup Process \cup Nat

VARIABLES
  storage,        \* the durable session record, or None
  alarm,          \* when the object's alarm fires, or None
  gate,           \* the handler that keeps other events out, or None
  pc,             \* where each open request stands
  held,           \* the session a suspended handler still refers to
  clock,          \* Date.now()
  opened,         \* the one creating request has been made
  evictions,      \* times the object lost its memory
  serverRefresh,  \* authorization server: the refresh token it accepts
  rotationLost,   \* the server replaced it and the answer never arrived
  acknowledged,   \* a revocation has been answered
  deleted,        \* the alarm has deleted the record
  guestTokens,    \* guest tokens minted
  served,         \* model calls sent to the provider
  reused          \* a refresh token the server had replaced was presented

object == <<storage, alarm, gate, pc, held, clock, opened, evictions>>
server == <<serverRefresh, rotationLost>>
history == <<acknowledged, deleted, guestTokens, served, reused>>
vars == <<object, server, history>>

TypeOK ==
  /\ storage \in Session \cup {None}
  /\ alarm \in Nat \cup {None}
  /\ gate \in Process \cup {None}
  /\ pc \in [Process -> {"idle", "checked", "reserved", "refreshing",
                         "polling", "arming", "revoking"}]
  /\ held \in [Process -> Session \cup {None}]
  /\ clock \in Nat /\ evictions \in Nat /\ serverRefresh \in Nat
  /\ guestTokens \in Nat /\ served \in Nat
  /\ opened \in BOOLEAN /\ rotationLost \in BOOLEAN
  /\ acknowledged \in BOOLEAN /\ deleted \in BOOLEAN /\ reused \in BOOLEAN

Init ==
  /\ storage = None /\ alarm = None /\ gate = None
  /\ pc = [p \in Process |-> "idle"] /\ held = [p \in Process |-> None]
  /\ clock = 0 /\ opened = FALSE /\ evictions = 0
  /\ serverRefresh = 0 /\ rotationLost = FALSE
  /\ acknowledged = FALSE /\ deleted = FALSE
  /\ guestTokens = 0 /\ served = 0 /\ reused = FALSE

-----------------------------------------------------------------------------
(***************************************************************************)
(* Suspending and finishing a handler.                                      *)
(***************************************************************************)
Suspend(p, at, s) == pc' = [pc EXCEPT ![p] = at]
                     /\ held' = [held EXCEPT ![p] = s]
Finish(p) == Suspend(p, "idle", None)
\* Slip: the refresh, or the poll, leaves the object open to other events.
EnterGateUnlessRefreshing(p) ==
  gate = None /\ gate' = IF p \in Caller THEN None ELSE p
EnterGateUnlessPolling(p) ==
  gate = None /\ gate' = IF p \in Poller THEN None ELSE p

EnterGate(p) == gate = None /\ gate' = p
LeaveGate(p) == gate' = None
Open == gate = None /\ UNCHANGED gate

HasCredential(s) ==
  /\ ~s.revoked
  /\ s.key
  /\ s.auth = "openai-oauth" => s.refresh # 0

\* What a model call is checked for, before its body is read and again after.
Admits(s) ==
  /\ s # None
  /\ HasCredential(s) /\ s.state = "ready"
  /\ clock < s.expiresAt
  /\ s.count < MaxRequests

RefreshDue(s) == s.auth = "openai-oauth" /\ s.tokenExpiresAt <= clock + Skew

NewSession(auth, state, key, ttl) ==
  [auth |-> auth, state |-> state, revoked |-> FALSE, key |-> key,
   refresh |-> 0, count |-> 0, expiresAt |-> clock + ttl,
   nextPollAt |-> clock, tokenExpiresAt |-> 0]

\* Slip: the token exchange does not compute the capability's new expiry.
ReadyWithoutExpiry(s, refresh, life) ==
  [s EXCEPT !.state = "ready", !.key = TRUE, !.refresh = refresh,
            !.expiresAt = None, !.tokenExpiresAt = clock + life]

Ready(s, refresh, life) ==
  [s EXCEPT !.state = "ready", !.key = TRUE, !.refresh = refresh,
            !.expiresAt = clock + SessionTtl, !.tokenExpiresAt = clock + life]

\* Slip: a rotated refresh token is not stored.
RenewedKeepingRefresh(s, refresh, life) ==
  [s EXCEPT !.key = TRUE, !.tokenExpiresAt = clock + life]

Renewed(s, refresh, life) ==
  [s EXCEPT !.key = TRUE, !.refresh = refresh, !.tokenExpiresAt = clock + life]

Revoked(s) == [s EXCEPT !.revoked = TRUE, !.key = FALSE, !.refresh = 0]

-----------------------------------------------------------------------------
(***************************************************************************)
(* Creating the capability.  index.mjs makes a new object for every issue   *)
(* and device-start request, so an object sees one of them.  The record is  *)
(* written first and the alarm set by a second operation.                   *)
(***************************************************************************)
Create(s) ==
  /\ ~opened /\ opened' = TRUE
  /\ storage = None /\ storage' = s
  /\ EnterGate(Issuer) /\ Suspend(Issuer, "arming", s)
  /\ UNCHANGED <<alarm, clock, evictions, server, acknowledged, deleted,
                 served, reused>>

Issue ==
  /\ Create(NewSession("api-key", "ready", TRUE, SessionTtl))
  /\ guestTokens' = guestTokens + 1

StartOpenAiDeviceCode ==
  /\ Create(NewSession("openai-oauth", "pending", FALSE, DeviceTtl))
  /\ UNCHANGED guestTokens

SetAlarm(p) ==
  /\ pc[p] = "arming"
  /\ alarm' = held[p].expiresAt
  /\ LeaveGate(p) /\ Finish(p)
  /\ UNCHANGED <<storage, clock, opened, evictions, server, history>>

-----------------------------------------------------------------------------
(***************************************************************************)
(* Polling for the device authorization, inside blockConcurrencyWhile from  *)
(* the first read to the last write.                                        *)
(***************************************************************************)
BeginPoll(p) ==
  /\ pc[p] = "idle"
  /\ storage # None
  /\ storage.auth = "openai-oauth" /\ storage.state = "pending"
  /\ ~storage.revoked /\ clock < storage.expiresAt
  /\ clock >= storage.nextPollAt
  /\ EnterGate(p) /\ Suspend(p, "polling", storage)
  /\ UNCHANGED <<storage, alarm, clock, opened, evictions, server, history>>

PollPending(p) ==
  /\ pc[p] = "polling"
  /\ storage' = [held[p] EXCEPT !.nextPollAt = clock + PollInterval]
  /\ LeaveGate(p) /\ Finish(p)
  /\ UNCHANGED <<alarm, clock, opened, evictions, server, history>>

\* Either fetch fails, or its answer is unusable: nothing is written.
PollFails(p) ==
  /\ pc[p] = "polling"
  /\ LeaveGate(p) /\ Finish(p)
  /\ UNCHANGED <<storage, alarm, clock, opened, evictions, server, history>>

PollAuthorized(p, life) ==
  LET s == Ready(held[p], serverRefresh + 1, life)
  IN /\ pc[p] = "polling"
     /\ storage' = s
     /\ serverRefresh' = serverRefresh + 1
     /\ guestTokens' = guestTokens + 1
     /\ Suspend(p, "arming", s)
     /\ UNCHANGED <<alarm, gate, clock, opened, evictions, rotationLost,
                    acknowledged, deleted, served, reused>>

-----------------------------------------------------------------------------
(***************************************************************************)
(* A model call: check, read the body, reserve a request inside the gate,   *)
(* refresh the credential inside the gate, forward.                         *)
(***************************************************************************)
CheckCall(p) ==
  /\ pc[p] = "idle" /\ Open
  /\ guestTokens > 0
  /\ Admits(storage)
  /\ Suspend(p, "checked", None)
  /\ UNCHANGED <<storage, alarm, clock, opened, evictions, server, history>>

\* The body is unreadable, too large or outside the capability, or the
\* second check fails.
RefuseCall(p) ==
  /\ pc[p] = "checked" /\ Open
  /\ Finish(p)
  /\ UNCHANGED <<storage, alarm, clock, opened, evictions, server, history>>

\* Slip: the reservation trusts the check made before the body was read.
ReserveWithoutRecheck(p) ==
  /\ pc[p] = "checked" /\ Open
  /\ storage # None
  /\ storage' = [storage EXCEPT !.count = @ + 1]
  /\ Suspend(p, "reserved", storage')
  /\ UNCHANGED <<alarm, clock, opened, evictions, server, history>>

ReserveCall(p) ==
  /\ pc[p] = "checked" /\ Open
  /\ Admits(storage)
  /\ storage' = [storage EXCEPT !.count = @ + 1]
  /\ Suspend(p, "reserved", storage')
  /\ UNCHANGED <<alarm, clock, opened, evictions, server, history>>

\* Slip: the call goes on with the session it reserved.
LatestAsReserved(p) == held[p]

Latest(p) == IF storage = None THEN held[p] ELSE storage

Sent(s) == IF HasCredential(s) THEN served + 1 ELSE served

ForwardDirectly(p) ==
  /\ pc[p] = "reserved" /\ Open
  /\ ~RefreshDue(Latest(p))
  /\ served' = Sent(Latest(p))
  /\ Finish(p)
  /\ UNCHANGED <<storage, alarm, clock, opened, evictions, server,
                 acknowledged, deleted, guestTokens, reused>>

BeginRefresh(p) ==
  /\ pc[p] = "reserved"
  /\ RefreshDue(Latest(p))
  /\ EnterGate(p) /\ Suspend(p, "refreshing", Latest(p))
  /\ reused' = (reused \/ Latest(p).refresh \notin {0, serverRefresh})
  /\ UNCHANGED <<storage, alarm, clock, opened, evictions, server,
                 acknowledged, deleted, guestTokens, served>>

\* The server accepts only the refresh token it issued last.
Accepted(p) == held[p].refresh # 0 /\ held[p].refresh = serverRefresh

RefreshGranted(p, rotates, life) ==
  LET next == IF rotates THEN serverRefresh + 1 ELSE serverRefresh
      s == Renewed(held[p], next, life)
  IN /\ pc[p] = "refreshing" /\ Accepted(p)
     /\ serverRefresh' = next
     /\ storage' = s
     /\ served' = Sent(s)
     /\ LeaveGate(p) /\ Finish(p)
     /\ UNCHANGED <<alarm, clock, opened, evictions, rotationLost,
                    acknowledged, deleted, guestTokens, reused>>

\* The server has refused, or the answer is lost after it rotated the token.
LoseAnswer(p) ==
  \/ UNCHANGED server
  \/ /\ Accepted(p)
     /\ serverRefresh' = serverRefresh + 1 /\ rotationLost' = TRUE

RefreshFails(p) ==
  /\ pc[p] = "refreshing"
  /\ LoseAnswer(p)
  /\ LeaveGate(p) /\ Finish(p)
  /\ UNCHANGED <<storage, alarm, clock, opened, evictions, history>>

-----------------------------------------------------------------------------
(***************************************************************************)
(* Revocation reads the record, awaits the digest of the admin token and    *)
(* writes the record it read back, revoked.                                 *)
(***************************************************************************)
BeginRevoke(p) ==
  /\ pc[p] = "idle" /\ Open
  /\ storage # None
  /\ Suspend(p, "revoking", storage)
  /\ UNCHANGED <<storage, alarm, clock, opened, evictions, server, history>>

EndRevoke(p) ==
  /\ pc[p] = "revoking" /\ Open
  /\ storage' = Revoked(held[p])
  /\ acknowledged' = TRUE
  /\ Finish(p)
  /\ UNCHANGED <<alarm, clock, opened, evictions, server, deleted,
                 guestTokens, served, reused>>

AlarmFires ==
  /\ alarm # None /\ clock >= alarm /\ Open
  /\ storage' = None /\ alarm' = None /\ deleted' = TRUE
  /\ UNCHANGED <<pc, held, clock, opened, evictions, server, acknowledged,
                 guestTokens, served, reused>>

Tick ==
  /\ clock < Horizon /\ clock' = clock + 1
  /\ UNCHANGED <<storage, alarm, gate, pc, held, opened, evictions, server,
                 history>>

\* The object loses its memory: open requests fail, storage and alarm stay.
Evict ==
  /\ evictions < MaxEvictions /\ evictions' = evictions + 1
  /\ pc' = [p \in Process |-> "idle"] /\ held' = [p \in Process |-> None]
  /\ gate' = None
  /\ \/ UNCHANGED server
     \/ \E p \in Caller : pc[p] = "refreshing" /\ LoseAnswer(p)
  /\ UNCHANGED <<storage, alarm, clock, opened, history>>

CallStep(p) ==
  \/ CheckCall(p) \/ RefuseCall(p) \/ ReserveCall(p)
  \/ ForwardDirectly(p) \/ BeginRefresh(p) \/ RefreshFails(p)
  \/ \E rotates \in BOOLEAN, life \in TokenLives :
        RefreshGranted(p, rotates, life)

PollStep(p) ==
  \/ BeginPoll(p) \/ PollPending(p) \/ PollFails(p) \/ SetAlarm(p)
  \/ \E life \in TokenLives : PollAuthorized(p, life)

Next ==
  \/ Issue \/ StartOpenAiDeviceCode \/ SetAlarm(Issuer)
  \/ \E p \in Caller : CallStep(p)
  \/ \E p \in Poller : PollStep(p)
  \/ \E p \in Revoker : BeginRevoke(p) \/ EndRevoke(p)
  \/ AlarmFires \/ Tick \/ Evict

Spec == Init /\ [][Next]_vars

-----------------------------------------------------------------------------
(***************************************************************************)
(* Properties.                                                              *)
(***************************************************************************)
\* The provider is called at most MaxRequests times for one capability,
\* although every call is checked before its body is read and calls, polls,
\* refreshes and revocations write the whole record back (byok-broker.mjs
\* lines 743-776).  A refresh that straddles the alarm writes an older count
\* back, so the claim ends with the record.
BudgetHolds == deleted \/ served <= MaxRequests

\* Once a revocation has been answered no credential is stored again: not by
\* a refresh or a poll that was under way, nor by a second revocation that
\* read the record earlier (lines 845-869).  The record's deletion ends the
\* claim: a call reserved before it continues with its own copy (line 780).
RevocationIsFinal ==
  acknowledged /\ ~deleted =>
    /\ storage # None
    /\ storage.revoked /\ ~storage.key /\ storage.refresh = 0

\* Nor is a model call sent to the provider any more, whatever its handler
\* had checked before the revocation (lines 786-796).
NoCallAfterRevocation == [][acknowledged /\ ~deleted => served' = served]_vars

\* A refresh token the authorization server has replaced is presented again
\* only when the answer that replaced it was lost (lines 778-785): two calls
\* that find the access token expiring do not both spend it.
RefreshTokenUsedOnce == reused => rotationLost \/ deleted

\* However many polls are open, one capability hands out one guest token
\* (lines 286-293 and 473).
OneGuestToken == guestTokens <= 1

\* docs/byok-onboarding.md: "Expiry deletes the whole Durable Object session
\* record."  A stored record then needs an alarm once its creation is over.
RecordExpires == storage # None /\ gate = None => alarm # None

=============================================================================
