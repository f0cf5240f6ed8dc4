---------------------------- MODULE ProviderBroker ----------------------------
(***************************************************************************)
(* The host process that holds the model service's credential when a user   *)
(* hosts the model: src/provider-broker/src/main.rs.  A call of the guest   *)
(* passes the capability check, takes the one permit, is counted and then   *)
(* forwarded; the permit travels with the provider's stream.  Handlers run  *)
(* on several threads, so every access to shared state is a step.           *)
(*                                                                          *)
(* Left out: command line and credential formats, calls without the guest   *)
(* capability (answered 401 before anything is touched), and the stream's   *)
(* bytes: an end, an error, the size limit and a client that goes away are  *)
(* one event, the stream is dropped.                                        *)
(***************************************************************************)
EXTENDS Naturals, FiniteSets

CONSTANTS
  Call,          \* authorized calls of /v1/chat/completions
  WellFormed,    \* those whose body the capability grants
  MaxRequests    \* --max-requests

ASSUME BrokerAssumption ==
  /\ IsFiniteSet(Call)
  /\ WellFormed \subseteq Call
  /\ MaxRequests \in Nat \ {0}

VARIABLES
  at,              \* where the handler of each call stands
  permit,          \* concurrent_request: a Semaphore of one
  requestCount,    \* request_count
  revoked,         \* revoked
  expired,         \* Instant::now() >= capability_expires_at
  late,            \* calls that arrived when the capability had ended
  forwarded        \* calls sent to the model service

brokerVars == <<at, permit, requestCount, revoked, expired, late, forwarded>>

InProgress == {"admitted", "permitted", "executing", "streaming"}
Settled == {"served", "refused"}

BrokerTypeOK ==
  /\ at \in [Call -> {"unsent"} \cup InProgress \cup Settled]
  /\ permit \in BOOLEAN
  /\ requestCount \in Nat
  /\ revoked \in BOOLEAN /\ expired \in BOOLEAN
  /\ late \subseteq Call
  /\ forwarded \subseteq Call

BrokerInit ==
  /\ at = [c \in Call |-> "unsent"]
  /\ permit = TRUE
  /\ requestCount = 0
  /\ revoked = FALSE /\ expired = FALSE
  /\ late = {}
  /\ forwarded = {}

-----------------------------------------------------------------------------
Goto(c, place) == at' = [at EXCEPT ![c] = place]

CapabilityDenial == revoked \/ expired

Arrive(c) ==
  /\ at[c] = "unsent"
  /\ Goto(c, IF CapabilityDenial THEN "refused" ELSE "admitted")
  /\ late' = IF CapabilityDenial THEN late \cup {c} ELSE late
  /\ UNCHANGED <<permit, requestCount, revoked, expired, forwarded>>

\* try_acquire_owned: a second request is refused, not queued.
Acquire(c) ==
  /\ at[c] = "admitted"
  /\ Goto(c, IF permit THEN "permitted" ELSE "refused")
  /\ permit' = FALSE
  /\ UNCHANGED <<requestCount, revoked, expired, late, forwarded>>

Granted(c, number) == number <= MaxRequests /\ c \in WellFormed

\* The count includes requests whose body is then refused; a refusal drops
\* the permit.
Count(c) ==
  LET number == requestCount + 1 IN
  /\ at[c] = "permitted"
  /\ requestCount' = number
  /\ IF Granted(c, number)
     THEN /\ Goto(c, "executing")
          /\ forwarded' = forwarded \cup {c}
          /\ UNCHANGED permit
     ELSE /\ Goto(c, "refused")
          /\ permit' = TRUE
          /\ UNCHANGED forwarded
  /\ UNCHANGED <<revoked, expired, late>>

\* Slip: the permit is dropped when the handler returns its streaming response.
DropPermitEarly(c) ==
  /\ at[c] = "executing"
  /\ Goto(c, "streaming")
  /\ permit' = TRUE
  /\ UNCHANGED <<requestCount, revoked, expired, late, forwarded>>

\* guarded_provider_stream takes the permit along.
UpstreamResponds(c) ==
  /\ at[c] = "executing"
  /\ Goto(c, "streaming")
  /\ UNCHANGED <<permit, requestCount, revoked, expired, late, forwarded>>

\* The provider fails, or the client goes away and its handler is dropped.
UpstreamFails(c) ==
  /\ at[c] = "executing"
  /\ Goto(c, "refused")
  /\ permit' = TRUE
  /\ UNCHANGED <<requestCount, revoked, expired, late, forwarded>>

StreamEnds(c) ==
  /\ at[c] = "streaming"
  /\ Goto(c, "served")
  /\ permit' = TRUE
  /\ UNCHANGED <<requestCount, revoked, expired, late, forwarded>>

RevokeCapability ==
  /\ ~revoked
  /\ revoked' = TRUE
  /\ UNCHANGED <<at, permit, requestCount, expired, late, forwarded>>

Expire ==
  /\ ~expired
  /\ expired' = TRUE
  /\ UNCHANGED <<at, permit, requestCount, revoked, late, forwarded>>

HandleCall(c) ==
  \/ Arrive(c) \/ Acquire(c) \/ Count(c)
  \/ UpstreamResponds(c) \/ UpstreamFails(c)
  \/ StreamEnds(c)

BrokerNext ==
  \/ \E c \in Call : HandleCall(c)
  \/ RevokeCapability
  \/ Expire

BrokerSpec == BrokerInit /\ [][BrokerNext]_brokerVars

-----------------------------------------------------------------------------
\* Calls whose answer is awaited from the model service.
Charging == {c \in Call : at[c] \in {"executing", "streaming"}}

\* The limits of the capability hold under racing calls: one answer of the
\* model service is awaited or read at a time, no more requests are sent to it
\* than were granted, and none that arrived after the revocation was answered
\* or the capability had expired.
BrokerHoldsItsLimits ==
  /\ \A c, d \in Charging : c = d
  /\ Cardinality(forwarded) <= MaxRequests
  /\ late \cap forwarded = {}
=============================================================================
