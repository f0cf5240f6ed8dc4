-------------------------- MODULE ByokBrokerProofs --------------------------
(***************************************************************************)
(* Proofs about ByokBroker, for every number of callers, pollers, revokers, *)
(* evictions, budgets and lifetimes.  The inductive invariant says what a   *)
(* handler that was suspended may still believe about the stored record.    *)
(***************************************************************************)
EXTENDS ByokBroker, FiniteSetTheorems, TLAPS

\* A handler inside blockConcurrencyWhile, or between put and setAlarm, is
\* the one that keeps the others out.
GateHeld ==
  \A p \in Process : pc[p] \in {"refreshing", "polling", "arming"} => gate = p

\* A suspended handler that will write or use a session has one.
HoldsSession ==
  \A p \in Process :
    pc[p] \in {"reserved", "refreshing", "polling", "arming", "revoking"} =>
      held[p] # None

\* Before the capability is created nobody has anything to do with it.
NothingBeforeCreation ==
  /\ ~opened => storage = None /\ ~acknowledged /\ guestTokens = 0
  /\ \A p \in Process : pc[p] # "idle" => opened

\* Only the alarm removes the record.
RecordKept == opened /\ ~deleted => storage # None

\* Inside the gate the copy is the record, unless the alarm has deleted it.
CopyIsCurrent ==
  \A p \in Process :
    /\ pc[p] = "polling" => /\ held[p] = storage
                            /\ ~held[p].revoked /\ held[p].state = "pending"
    /\ pc[p] = "reserved" => ~held[p].revoked /\ held[p].state = "ready"
    /\ pc[p] = "refreshing" =>
         \/ held[p] = storage
         \/ storage = None /\ ~held[p].revoked /\ held[p].state = "ready"

\* A revoked record holds no credential, and an answered revocation has left
\* a revoked record.
RevokedIsEmpty ==
  /\ storage # None => (storage.revoked => ~storage.key /\ storage.refresh = 0)
  /\ acknowledged /\ ~deleted => storage.revoked

\* No guest token exists while a device authorization is still pending.
TokenAfterAuthorization ==
  /\ guestTokens <= 1
  /\ storage # None /\ storage.state = "pending" /\ ~storage.revoked =>
       guestTokens = 0

\* The stored refresh token is the one the server accepts, or none.
RefreshIsCurrent ==
  /\ ~deleted /\ ~rotationLost /\ storage # None =>
       storage.refresh \in {0, serverRefresh}
  /\ reused => rotationLost \/ deleted

BrokerInv ==
  /\ GateHeld /\ HoldsSession /\ NothingBeforeCreation /\ RecordKept
  /\ CopyIsCurrent /\ RevokedIsEmpty /\ TokenAfterAuthorization
  /\ RefreshIsCurrent

-----------------------------------------------------------------------------
\* The records the handlers build are session records.
LEMMA SessionRecords ==
  ASSUME TypeOK, NEW s \in Session, NEW n \in Nat, NEW life \in Nat
  PROVE  /\ Ready(s, n, life) \in Session
         /\ Renewed(s, n, life) \in Session
         /\ Revoked(s) \in Session
         /\ [s EXCEPT !.count = @ + 1] \in Session
         /\ [s EXCEPT !.nextPollAt = clock + n] \in Session
<1>1. /\ clock \in Nat /\ s.count + 1 \in Nat /\ clock + n \in Nat
      /\ clock + SessionTtl \in Nat /\ clock + life \in Nat
  BY BrokerAssumption DEF TypeOK, Session
<1>2. Ready(s, n, life) \in Session
  BY <1>1 DEF Session, Ready
<1>3. Renewed(s, n, life) \in Session
  BY <1>1 DEF Session, Renewed
<1>4. Revoked(s) \in Session
  BY DEF Session, Revoked
<1>5. [s EXCEPT !.count = @ + 1] \in Session
  BY <1>1 DEF Session
<1>6. [s EXCEPT !.nextPollAt = clock + n] \in Session
  BY <1>1 DEF Session
<1>. QED BY <1>2, <1>3, <1>4, <1>5, <1>6

\* A new session is a session record.
LEMMA NewSessionRecord ==
  ASSUME TypeOK, NEW auth \in {"api-key", "openai-oauth"},
         NEW state \in {"pending", "ready"}, NEW key \in BOOLEAN,
         NEW ttl \in Nat
  PROVE  NewSession(auth, state, key, ttl) \in Session
  BY DEF TypeOK, Session, NewSession

\* So are the two a capability starts with.
LEMMA CreatedRecords ==
  ASSUME TypeOK
  PROVE  /\ NewSession("api-key", "ready", TRUE, SessionTtl) \in Session
         /\ NewSession("api-key", "ready", TRUE, SessionTtl) # None
         /\ NewSession("openai-oauth", "pending", FALSE, DeviceTtl) \in Session
         /\ NewSession("openai-oauth", "pending", FALSE, DeviceTtl) # None
<1>1. NewSession("api-key", "ready", TRUE, SessionTtl) \in Session
  BY NewSessionRecord, BrokerAssumption
<1>2. NewSession("openai-oauth", "pending", FALSE, DeviceTtl) \in Session
  BY NewSessionRecord, BrokerAssumption
<1>. QED BY <1>1, <1>2, NoneAssumption

\* What the authorization server does behind a lost answer.
LEMMA AnswerTypes ==
  ASSUME TypeOK, NEW p \in Caller, LoseAnswer(p)
  PROVE  serverRefresh' \in Nat /\ rotationLost' \in BOOLEAN
<1>1. CASE UNCHANGED server
  BY <1>1 DEF TypeOK, server
<1>2. CASE ~ UNCHANGED server
  <2>1. rotationLost' = TRUE
    BY <1>2 DEF LoseAnswer
  <2>2. serverRefresh' = serverRefresh + 1
    BY <1>2 DEF LoseAnswer
  <2>. QED BY <2>1, <2>2 DEF TypeOK
<1>. QED BY <1>1, <1>2

-----------------------------------------------------------------------------
\* Every step keeps the types: one step per action.
LEMMA TypeStep ==
  ASSUME TypeOK, HoldsSession, [Next]_vars
  PROVE  TypeOK'
<1>. USE DEF object, server, history, vars
<1>. Issuer \in Process /\ Caller \subseteq Process /\ Poller \subseteq Process
     /\ Revoker \subseteq Process
  BY DEF Process
<1>1. CASE Issue
  <2>1. guestTokens' \in Nat /\ storage' \in Session
    <3>1. guestTokens' \in Nat
      BY <1>1 DEF TypeOK, Issue
    <3>2. storage' \in Session
      BY <1>1, CreatedRecords DEF Issue, Create
    <3>. QED BY <3>1, <3>2
  <2>. QED
    BY <1>1, <2>1 DEF TypeOK, Issue, Create, EnterGate, Suspend
<1>2. CASE StartOpenAiDeviceCode
  BY <1>2, CreatedRecords
     DEF TypeOK, StartOpenAiDeviceCode, Create, EnterGate, Suspend
<1>3. ASSUME NEW p \in Process, SetAlarm(p)
      PROVE  TypeOK'
  <2>1. held[p] \in Session
    BY <1>3 DEF TypeOK, HoldsSession, SetAlarm
  <2>2. held[p].expiresAt \in Nat
    BY <2>1 DEF Session
  <2>. QED
    BY <1>3, <2>2 DEF TypeOK, SetAlarm, LeaveGate, Finish, Suspend
<1>4. ASSUME NEW p \in Poller, BeginPoll(p)
      PROVE  TypeOK'
  BY <1>4 DEF TypeOK, BeginPoll, EnterGate, Suspend
<1>5. ASSUME NEW p \in Poller, PollPending(p)
      PROVE  TypeOK'
  <2>1. held[p] \in Session
    BY <1>5 DEF TypeOK, HoldsSession, PollPending
  <2>2. storage' \in Session
    BY <1>5, <2>1, SessionRecords, BrokerAssumption DEF PollPending
  <2>. QED
    BY <1>5, <2>2 DEF TypeOK, PollPending, LeaveGate, Finish, Suspend
<1>6. ASSUME NEW p \in Poller, PollFails(p)
      PROVE  TypeOK'
  BY <1>6 DEF TypeOK, PollFails, LeaveGate, Finish, Suspend
<1>7. ASSUME NEW p \in Poller, NEW life \in TokenLives, PollAuthorized(p, life)
      PROVE  TypeOK'
  <2>1. held[p] \in Session /\ serverRefresh + 1 \in Nat /\ life \in Nat
    BY <1>7, BrokerAssumption DEF TypeOK, HoldsSession, PollAuthorized
  <2>2. Ready(held[p], serverRefresh + 1, life) \in Session
    BY <2>1, SessionRecords
  <2>. QED
    BY <1>7, <2>1, <2>2 DEF TypeOK, PollAuthorized, Suspend
<1>8. ASSUME NEW p \in Caller, CheckCall(p)
      PROVE  TypeOK'
  BY <1>8 DEF TypeOK, CheckCall, Open, Suspend
<1>9. ASSUME NEW p \in Caller, RefuseCall(p)
      PROVE  TypeOK'
  BY <1>9 DEF TypeOK, RefuseCall, Open, Finish, Suspend
<1>10. ASSUME NEW p \in Caller, ReserveCall(p)
       PROVE  TypeOK'
  <2>1. storage' \in Session
    BY <1>10, SessionRecords DEF TypeOK, ReserveCall, Admits
  <2>. QED
    BY <1>10, <2>1 DEF TypeOK, ReserveCall, Open, Suspend
<1>11. ASSUME NEW p \in Caller, ForwardDirectly(p)
       PROVE  TypeOK'
  BY <1>11 DEF TypeOK, ForwardDirectly, Open, Finish, Suspend, Sent
<1>12. ASSUME NEW p \in Caller, BeginRefresh(p)
       PROVE  TypeOK'
  <2>1. reused' \in BOOLEAN
    BY <1>12 DEF BeginRefresh
  <2>2. Latest(p) \in Session \cup {None}
    BY DEF TypeOK, Latest
  <2>. QED
    BY <1>12, <2>1, <2>2 DEF TypeOK, BeginRefresh, EnterGate, Suspend
<1>13. ASSUME NEW p \in Caller, NEW rotates \in BOOLEAN,
              NEW life \in TokenLives, RefreshGranted(p, rotates, life)
       PROVE  TypeOK'
  <2>. DEFINE next == IF rotates THEN serverRefresh + 1 ELSE serverRefresh
  <2>1. held[p] \in Session /\ next \in Nat /\ life \in Nat
    BY <1>13, BrokerAssumption DEF TypeOK, HoldsSession, RefreshGranted
  <2>2. Renewed(held[p], next, life) \in Session
    BY <2>1, SessionRecords
  <2>3. served' \in Nat
    BY <1>13 DEF TypeOK, RefreshGranted, Sent
  <2>. QED
    BY <1>13, <2>1, <2>2, <2>3
       DEF TypeOK, RefreshGranted, LeaveGate, Finish, Suspend
<1>14. ASSUME NEW p \in Caller, RefreshFails(p)
       PROVE  TypeOK'
  <2>1. serverRefresh' \in Nat /\ rotationLost' \in BOOLEAN
    BY <1>14, AnswerTypes DEF RefreshFails
  <2>. QED
    BY <1>14, <2>1 DEF TypeOK, RefreshFails, LeaveGate, Finish, Suspend
<1>15. ASSUME NEW p \in Revoker, BeginRevoke(p)
       PROVE  TypeOK'
  BY <1>15 DEF TypeOK, BeginRevoke, Open, Suspend
<1>16. ASSUME NEW p \in Revoker, EndRevoke(p)
       PROVE  TypeOK'
  <2>1. held[p] \in Session
    BY <1>16 DEF TypeOK, HoldsSession, EndRevoke
  <2>2. storage' \in Session
    BY <1>16, <2>1, SessionRecords, BrokerAssumption DEF EndRevoke
  <2>. QED
    BY <1>16, <2>2 DEF TypeOK, EndRevoke, Open, Finish, Suspend
<1>17. CASE AlarmFires
  BY <1>17 DEF TypeOK, AlarmFires, Open
<1>18. CASE Tick
  BY <1>18 DEF TypeOK, Tick
<1>19. CASE Evict
  <2>1. serverRefresh' \in Nat /\ rotationLost' \in BOOLEAN
    <3>1. CASE UNCHANGED server
      BY <3>1 DEF TypeOK
    <3>2. CASE \E p \in Caller : LoseAnswer(p)
      BY <3>2, AnswerTypes
    <3>. QED BY <1>19, <3>1, <3>2 DEF Evict
  <2>2. evictions' \in Nat
    BY <1>19 DEF TypeOK, Evict
  <2>. QED BY <1>19, <2>1, <2>2 DEF TypeOK, Evict
<1>20. CASE UNCHANGED vars
  BY <1>20 DEF TypeOK
<1>. QED
  BY <1>1, <1>2, <1>3, <1>4, <1>5, <1>6, <1>7, <1>8, <1>9, <1>10, <1>11,
     <1>12, <1>13, <1>14, <1>15, <1>16, <1>17, <1>18, <1>19, <1>20
     DEF Next, CallStep, PollStep

-----------------------------------------------------------------------------
\* Every step keeps the gate and the sessions held across it.
LEMMA GateStep ==
  ASSUME TypeOK, GateHeld, HoldsSession, [Next]_vars
  PROVE  GateHeld' /\ HoldsSession'
<1>. USE DEF object, server, history, vars, EnterGate, LeaveGate, Open,
        Suspend, Finish,
             TypeOK, GateHeld, HoldsSession
<1>. Issuer \in Process /\ Caller \subseteq Process /\ Poller \subseteq Process
     /\ Revoker \subseteq Process
  BY DEF Process
<1>1. CASE Issue
  BY <1>1, CreatedRecords, NoneAssumption DEF Issue, Create
<1>2. CASE StartOpenAiDeviceCode
  BY <1>2, CreatedRecords, NoneAssumption DEF StartOpenAiDeviceCode, Create
<1>3. ASSUME NEW p \in Process, SetAlarm(p)
      PROVE  GateHeld' /\ HoldsSession'
  BY <1>3, NoneAssumption DEF SetAlarm
<1>4. ASSUME NEW p \in Poller, BeginPoll(p)
      PROVE  GateHeld' /\ HoldsSession'
  BY <1>4, NoneAssumption DEF BeginPoll
<1>5. ASSUME NEW p \in Poller, PollPending(p)
      PROVE  GateHeld' /\ HoldsSession'
  BY <1>5, NoneAssumption DEF PollPending
<1>6. ASSUME NEW p \in Poller, PollFails(p)
      PROVE  GateHeld' /\ HoldsSession'
  BY <1>6, NoneAssumption DEF PollFails
<1>7. ASSUME NEW p \in Poller, NEW life \in TokenLives, PollAuthorized(p, life)
      PROVE  GateHeld' /\ HoldsSession'
  <2>1. held[p] \in Session /\ serverRefresh + 1 \in Nat /\ life \in Nat
    BY <1>7, BrokerAssumption DEF PollAuthorized
  <2>2. Ready(held[p], serverRefresh + 1, life) \in Session
    BY <2>1, SessionRecords
  <2>. QED BY <1>7, <2>2, NoneAssumption DEF PollAuthorized
<1>8. ASSUME NEW p \in Caller, CheckCall(p)
      PROVE  GateHeld' /\ HoldsSession'
  BY <1>8, NoneAssumption DEF CheckCall
<1>9. ASSUME NEW p \in Caller, RefuseCall(p)
      PROVE  GateHeld' /\ HoldsSession'
  BY <1>9, NoneAssumption DEF RefuseCall
<1>10. ASSUME NEW p \in Caller, ReserveCall(p)
      PROVE  GateHeld' /\ HoldsSession'
  <2>1. storage' \in Session
    BY <1>10, SessionRecords DEF ReserveCall, Admits
  <2>. QED BY <1>10, <2>1, NoneAssumption DEF ReserveCall
<1>11. ASSUME NEW p \in Caller, ForwardDirectly(p)
      PROVE  GateHeld' /\ HoldsSession'
  BY <1>11, NoneAssumption DEF ForwardDirectly
<1>12. ASSUME NEW p \in Caller, BeginRefresh(p)
      PROVE  GateHeld' /\ HoldsSession'
  BY <1>12, NoneAssumption DEF BeginRefresh, Latest
<1>13. ASSUME NEW p \in Caller, NEW rotates \in BOOLEAN, NEW life \in TokenLives,
             RefreshGranted(p, rotates, life)
      PROVE  GateHeld' /\ HoldsSession'
  BY <1>13, NoneAssumption DEF RefreshGranted, Renewed, Accepted
<1>14. ASSUME NEW p \in Caller, RefreshFails(p)
      PROVE  GateHeld' /\ HoldsSession'
  BY <1>14, NoneAssumption DEF RefreshFails
<1>15. ASSUME NEW p \in Revoker, BeginRevoke(p)
      PROVE  GateHeld' /\ HoldsSession'
  BY <1>15, NoneAssumption DEF BeginRevoke
<1>16. ASSUME NEW p \in Revoker, EndRevoke(p)
      PROVE  GateHeld' /\ HoldsSession'
  BY <1>16, NoneAssumption DEF EndRevoke, Revoked
<1>17. CASE AlarmFires
  BY <1>17, NoneAssumption DEF AlarmFires
<1>18. CASE Tick
  BY <1>18, NoneAssumption DEF Tick
<1>19. CASE Evict
  BY <1>19, NoneAssumption DEF Evict
<1>20. CASE UNCHANGED vars
  BY <1>20, NoneAssumption
<1>. QED
  BY <1>1, <1>2, <1>3, <1>4, <1>5, <1>6, <1>7, <1>8, <1>9, <1>10, <1>11,
     <1>12, <1>13, <1>14, <1>15, <1>16, <1>17, <1>18, <1>19, <1>20
     DEF Next, CallStep, PollStep

\* The handlers that write a record write a session record.
LEMMA RecordWritten ==
  ASSUME TypeOK, HoldsSession, NEW p \in Process,
         \/ PollPending(p) \/ ReserveCall(p) \/ EndRevoke(p)
         \/ (\E life \in TokenLives : PollAuthorized(p, life))
         \/ (\E rotates \in BOOLEAN, life \in TokenLives :
               RefreshGranted(p, rotates, life))
  PROVE  storage' \in Session /\ storage' # None
<1>. TokenLives \subseteq Nat /\ PollInterval \in Nat
  BY BrokerAssumption
<1>. serverRefresh + 1 \in Nat /\ serverRefresh \in Nat
  BY DEF TypeOK
<1>1. CASE ReserveCall(p)
  BY <1>1, SessionRecords, NoneAssumption DEF ReserveCall, Admits, TypeOK
<1>2. CASE ~ ReserveCall(p)
  <2>1. held[p] \in Session
    BY <1>2 DEF TypeOK, HoldsSession, PollPending, PollAuthorized,
                RefreshGranted, EndRevoke
  <2>2. storage' \in Session
    BY ZenonT(40), <1>2, <2>1, SessionRecords
       DEF PollPending, PollAuthorized, RefreshGranted, EndRevoke
  <2>. QED BY <2>2, NoneAssumption
<1>. QED BY <1>1, <1>2


\* Only the alarm removes the record, and nothing comes before creation.
LEMMA RecordStep ==
  ASSUME TypeOK, HoldsSession, NothingBeforeCreation, RecordKept, [Next]_vars
  PROVE  NothingBeforeCreation' /\ RecordKept'
<1>. USE DEF object, server, history, vars, EnterGate, LeaveGate, Open,
        Suspend, Finish,
             TypeOK, NothingBeforeCreation, RecordKept
<1>. Issuer \in Process /\ Caller \subseteq Process /\ Poller \subseteq Process
     /\ Revoker \subseteq Process
  BY DEF Process
<1>1. CASE Issue
  BY <1>1, CreatedRecords DEF Issue, Create
<1>2. CASE StartOpenAiDeviceCode
  BY <1>2, CreatedRecords DEF StartOpenAiDeviceCode, Create
<1>3. ASSUME NEW p \in Process, SetAlarm(p)
      PROVE  NothingBeforeCreation' /\ RecordKept'
  BY <1>3 DEF SetAlarm
<1>4. ASSUME NEW p \in Poller, BeginPoll(p)
      PROVE  NothingBeforeCreation' /\ RecordKept'
  BY <1>4 DEF BeginPoll
<1>5. ASSUME NEW p \in Poller, PollPending(p)
      PROVE  NothingBeforeCreation' /\ RecordKept'
  <2>1. storage' # None
    BY <1>5, RecordWritten
  <2>. QED BY <1>5, <2>1 DEF PollPending
<1>6. ASSUME NEW p \in Poller, PollFails(p)
      PROVE  NothingBeforeCreation' /\ RecordKept'
  BY <1>6 DEF PollFails
<1>7. ASSUME NEW p \in Poller, NEW life \in TokenLives, PollAuthorized(p, life)
      PROVE  NothingBeforeCreation' /\ RecordKept'
  <2>1. storage' # None
    BY <1>7, RecordWritten
  <2>. QED BY <1>7, <2>1 DEF PollAuthorized
<1>8. ASSUME NEW p \in Caller, CheckCall(p)
      PROVE  NothingBeforeCreation' /\ RecordKept'
  BY <1>8 DEF CheckCall
<1>9. ASSUME NEW p \in Caller, RefuseCall(p)
      PROVE  NothingBeforeCreation' /\ RecordKept'
  BY <1>9 DEF RefuseCall
<1>10. ASSUME NEW p \in Caller, ReserveCall(p)
      PROVE  NothingBeforeCreation' /\ RecordKept'
  <2>1. storage' # None
    BY <1>10, RecordWritten
  <2>. QED BY <1>10, <2>1 DEF ReserveCall
<1>11. ASSUME NEW p \in Caller, ForwardDirectly(p)
      PROVE  NothingBeforeCreation' /\ RecordKept'
  BY <1>11 DEF ForwardDirectly
<1>12. ASSUME NEW p \in Caller, BeginRefresh(p)
      PROVE  NothingBeforeCreation' /\ RecordKept'
  BY <1>12 DEF BeginRefresh, Latest
<1>13. ASSUME NEW p \in Caller, NEW rotates \in BOOLEAN, NEW life \in TokenLives,
             RefreshGranted(p, rotates, life)
      PROVE  NothingBeforeCreation' /\ RecordKept'
  <2>1. storage' # None
    BY <1>13, RecordWritten
  <2>. QED BY <1>13, <2>1 DEF RefreshGranted
<1>14. ASSUME NEW p \in Caller, RefreshFails(p)
      PROVE  NothingBeforeCreation' /\ RecordKept'
  BY <1>14 DEF RefreshFails
<1>15. ASSUME NEW p \in Revoker, BeginRevoke(p)
      PROVE  NothingBeforeCreation' /\ RecordKept'
  BY <1>15 DEF BeginRevoke
<1>16. ASSUME NEW p \in Revoker, EndRevoke(p)
      PROVE  NothingBeforeCreation' /\ RecordKept'
  <2>1. storage' # None
    BY <1>16, RecordWritten
  <2>. QED BY <1>16, <2>1 DEF EndRevoke
<1>17. CASE AlarmFires
  BY <1>17 DEF AlarmFires
<1>18. CASE Tick
  BY <1>18 DEF Tick
<1>19. CASE Evict
  BY <1>19 DEF Evict
<1>20. CASE UNCHANGED vars
  BY <1>20
<1>. QED
  BY <1>1, <1>2, <1>3, <1>4, <1>5, <1>6, <1>7, <1>8, <1>9, <1>10, <1>11,
     <1>12, <1>13, <1>14, <1>15, <1>16, <1>17, <1>18, <1>19, <1>20
     DEF Next, CallStep, PollStep

\* Every step keeps the copies inside the gate current.
LEMMA CopyStep ==
  ASSUME TypeOK, HoldsSession, GateHeld, NothingBeforeCreation, CopyIsCurrent,
          [Next]_vars
  PROVE  CopyIsCurrent'
<1>. USE DEF object, server, history, vars, EnterGate, LeaveGate, Open,
        Suspend, Finish,
             TypeOK, CopyIsCurrent, GateHeld
<1>. Issuer \in Process /\ Caller \subseteq Process /\ Poller \subseteq Process
     /\ Revoker \subseteq Process
  BY DEF Process
<1>1. CASE Issue
  <2>1. \A q \in Process : pc[q] = "idle" /\ pc'[q] \in {"idle", "arming"}
    BY <1>1 DEF Issue, Create, NothingBeforeCreation
  <2>. QED BY <2>1
<1>2. CASE StartOpenAiDeviceCode
  <2>1. \A q \in Process : pc[q] = "idle" /\ pc'[q] \in {"idle", "arming"}
    BY <1>2 DEF StartOpenAiDeviceCode, Create, NothingBeforeCreation
  <2>. QED BY <2>1
<1>3. ASSUME NEW p \in Process, SetAlarm(p)
      PROVE  CopyIsCurrent'
  BY <1>3 DEF SetAlarm
<1>4. ASSUME NEW p \in Poller, BeginPoll(p)
      PROVE  CopyIsCurrent'
  BY <1>4 DEF BeginPoll
<1>5. ASSUME NEW p \in Poller, PollPending(p)
      PROVE  CopyIsCurrent'
  BY <1>5 DEF PollPending
<1>6. ASSUME NEW p \in Poller, PollFails(p)
      PROVE  CopyIsCurrent'
  BY <1>6 DEF PollFails
<1>7. ASSUME NEW p \in Poller, NEW life \in TokenLives, PollAuthorized(p, life)
      PROVE  CopyIsCurrent'
  BY <1>7 DEF PollAuthorized, Ready
<1>8. ASSUME NEW p \in Caller, CheckCall(p)
      PROVE  CopyIsCurrent'
  BY <1>8 DEF CheckCall
<1>9. ASSUME NEW p \in Caller, RefuseCall(p)
      PROVE  CopyIsCurrent'
  BY <1>9 DEF RefuseCall
<1>10. ASSUME NEW p \in Caller, ReserveCall(p)
      PROVE  CopyIsCurrent'
  <2>1. \A q \in Process : pc[q] \notin {"polling", "refreshing"}
    BY <1>10, NoneAssumption DEF ReserveCall
  <2>2. storage'.state = "ready" /\ ~storage'.revoked
    BY <1>10 DEF ReserveCall, Admits, HasCredential, Session
  <2>. QED BY <1>10, <2>1, <2>2 DEF ReserveCall
<1>11. ASSUME NEW p \in Caller, ForwardDirectly(p)
      PROVE  CopyIsCurrent'
  BY <1>11 DEF ForwardDirectly
<1>12. ASSUME NEW p \in Caller, BeginRefresh(p)
      PROVE  CopyIsCurrent'
  BY <1>12 DEF BeginRefresh, Latest
<1>13. ASSUME NEW p \in Caller, NEW rotates \in BOOLEAN, NEW life \in TokenLives,
             RefreshGranted(p, rotates, life)
      PROVE  CopyIsCurrent'
  BY <1>13 DEF RefreshGranted, Renewed, Accepted
<1>14. ASSUME NEW p \in Caller, RefreshFails(p)
      PROVE  CopyIsCurrent'
  BY <1>14 DEF RefreshFails
<1>15. ASSUME NEW p \in Revoker, BeginRevoke(p)
      PROVE  CopyIsCurrent'
  BY <1>15 DEF BeginRevoke
<1>16. ASSUME NEW p \in Revoker, EndRevoke(p)
      PROVE  CopyIsCurrent'
  <2>1. \A q \in Process : pc[q] \notin {"polling", "refreshing"}
    BY <1>16, NoneAssumption DEF EndRevoke
  <2>. QED BY <1>16, <2>1 DEF EndRevoke
<1>17. CASE AlarmFires
  <2>1. \A q \in Process : pc[q] \notin {"polling", "refreshing"}
    BY <1>17, NoneAssumption DEF AlarmFires
  <2>. QED BY <1>17, <2>1 DEF AlarmFires
<1>18. CASE Tick
  BY <1>18 DEF Tick
<1>19. CASE Evict
  BY <1>19 DEF Evict
<1>20. CASE UNCHANGED vars
  BY <1>20
<1>. QED
  BY <1>1, <1>2, <1>3, <1>4, <1>5, <1>6, <1>7, <1>8, <1>9, <1>10, <1>11,
     <1>12, <1>13, <1>14, <1>15, <1>16, <1>17, <1>18, <1>19, <1>20
     DEF Next, CallStep, PollStep

\* No step stores a credential over a revocation.
LEMMA RevokedStep ==
  ASSUME TypeOK, HoldsSession, NothingBeforeCreation, RecordKept, CopyIsCurrent,
          RevokedIsEmpty, [Next]_vars
  PROVE  RevokedIsEmpty'
<1>. USE DEF object, server, history, vars, EnterGate, LeaveGate, Open,
        Suspend, Finish,
             RevokedIsEmpty
<1>. Issuer \in Process /\ Caller \subseteq Process /\ Poller \subseteq Process
     /\ Revoker \subseteq Process
  BY DEF Process
<1>1. CASE Issue
  <2>1. ~storage'.revoked /\ ~acknowledged'
    BY <1>1 DEF NothingBeforeCreation, TypeOK, Issue, Create, NewSession
  <2>. QED BY <2>1
<1>2. CASE StartOpenAiDeviceCode
  <2>1. ~storage'.revoked /\ ~acknowledged'
    BY <1>2 DEF NothingBeforeCreation, TypeOK, StartOpenAiDeviceCode, Create, NewSession
  <2>. QED BY <2>1
<1>3. ASSUME NEW p \in Process, SetAlarm(p)
      PROVE  RevokedIsEmpty'
  BY <1>3 DEF SetAlarm
<1>4. ASSUME NEW p \in Poller, BeginPoll(p)
      PROVE  RevokedIsEmpty'
  BY <1>4 DEF BeginPoll
<1>5. ASSUME NEW p \in Poller, PollPending(p)
      PROVE  RevokedIsEmpty'
  <2>1. held[p] \in Session
    BY <1>5 DEF TypeOK, HoldsSession, PollPending
  <2>2. ~storage'.revoked /\ held[p] = storage /\ ~held[p].revoked
    BY <1>5, <2>1 DEF PollPending, CopyIsCurrent, Session
  <2>. QED BY <1>5, <2>1, <2>2, NoneAssumption DEF PollPending
<1>6. ASSUME NEW p \in Poller, PollFails(p)
      PROVE  RevokedIsEmpty'
  BY <1>6 DEF PollFails
<1>7. ASSUME NEW p \in Poller, NEW life \in TokenLives, PollAuthorized(p, life)
      PROVE  RevokedIsEmpty'
  <2>1. held[p] \in Session
    BY <1>7 DEF TypeOK, HoldsSession, PollAuthorized
  <2>2. ~storage'.revoked /\ held[p] = storage /\ ~held[p].revoked
    BY <1>7, <2>1 DEF PollAuthorized, Ready, CopyIsCurrent, Session
  <2>. QED BY <1>7, <2>1, <2>2, NoneAssumption DEF PollAuthorized
<1>8. ASSUME NEW p \in Caller, CheckCall(p)
      PROVE  RevokedIsEmpty'
  BY <1>8 DEF CheckCall
<1>9. ASSUME NEW p \in Caller, RefuseCall(p)
      PROVE  RevokedIsEmpty'
  BY <1>9 DEF RefuseCall
<1>10. ASSUME NEW p \in Caller, ReserveCall(p)
      PROVE  RevokedIsEmpty'
  BY <1>10 DEF ReserveCall, Admits
<1>11. ASSUME NEW p \in Caller, ForwardDirectly(p)
      PROVE  RevokedIsEmpty'
  BY <1>11 DEF ForwardDirectly
<1>12. ASSUME NEW p \in Caller, BeginRefresh(p)
      PROVE  RevokedIsEmpty'
  BY <1>12 DEF BeginRefresh, Latest
<1>13. ASSUME NEW p \in Caller, NEW rotates \in BOOLEAN, NEW life \in TokenLives,
             RefreshGranted(p, rotates, life)
      PROVE  RevokedIsEmpty'
  <2>1. held[p] \in Session
    BY <1>13 DEF TypeOK, HoldsSession, RefreshGranted
  <2>2. storage'.revoked = held[p].revoked
    BY <1>13, <2>1 DEF RefreshGranted, Renewed, Session
  <2>3. ~held[p].revoked
    BY <1>13, <2>1, NoneAssumption
       DEF RefreshGranted, Accepted, CopyIsCurrent
  <2>4. acknowledged => deleted
    BY <1>13, <2>1, <2>3, NoneAssumption
       DEF RefreshGranted, CopyIsCurrent, NothingBeforeCreation, RecordKept
  <2>. QED BY <1>13, <2>2, <2>3, <2>4 DEF RefreshGranted
<1>14. ASSUME NEW p \in Caller, RefreshFails(p)
      PROVE  RevokedIsEmpty'
  BY <1>14 DEF RefreshFails
<1>15. ASSUME NEW p \in Revoker, BeginRevoke(p)
      PROVE  RevokedIsEmpty'
  BY <1>15 DEF BeginRevoke
<1>16. ASSUME NEW p \in Revoker, EndRevoke(p)
      PROVE  RevokedIsEmpty'
  BY <1>16 DEF EndRevoke, Revoked
<1>17. CASE AlarmFires
  BY <1>17 DEF AlarmFires
<1>18. CASE Tick
  BY <1>18 DEF Tick
<1>19. CASE Evict
  BY <1>19 DEF Evict
<1>20. CASE UNCHANGED vars
  BY <1>20
<1>. QED
  BY <1>1, <1>2, <1>3, <1>4, <1>5, <1>6, <1>7, <1>8, <1>9, <1>10, <1>11,
     <1>12, <1>13, <1>14, <1>15, <1>16, <1>17, <1>18, <1>19, <1>20
     DEF Next, CallStep, PollStep

\* No step mints a second guest token.
LEMMA TokenStep ==
  ASSUME TypeOK, HoldsSession, NothingBeforeCreation, CopyIsCurrent,
          TokenAfterAuthorization, [Next]_vars
  PROVE  TokenAfterAuthorization'
<1>. USE DEF object, server, history, vars, EnterGate, LeaveGate, Open,
        Suspend, Finish,
             TokenAfterAuthorization
<1>. Issuer \in Process /\ Caller \subseteq Process /\ Poller \subseteq Process
     /\ Revoker \subseteq Process
  BY DEF Process
<1>1. CASE Issue
  <2>1. storage'.state = "ready" /\ guestTokens' = 1
    BY <1>1 DEF NothingBeforeCreation, Issue, Create, NewSession
  <2>. QED BY <2>1
<1>2. CASE StartOpenAiDeviceCode
  <2>1. guestTokens' = 0
    BY <1>2 DEF NothingBeforeCreation, StartOpenAiDeviceCode, Create
  <2>. QED BY <2>1
<1>3. ASSUME NEW p \in Process, SetAlarm(p)
      PROVE  TokenAfterAuthorization'
  BY <1>3 DEF SetAlarm
<1>4. ASSUME NEW p \in Poller, BeginPoll(p)
      PROVE  TokenAfterAuthorization'
  BY <1>4 DEF BeginPoll
<1>5. ASSUME NEW p \in Poller, PollPending(p)
      PROVE  TokenAfterAuthorization'
  <2>1. held[p] \in Session
    BY <1>5 DEF TypeOK, HoldsSession, PollPending
  <2>2. held[p] = storage /\ ~storage.revoked /\ storage.state = "pending"
    BY <1>5 DEF PollPending, CopyIsCurrent
  <2>. QED BY <1>5, <2>1, <2>2, NoneAssumption DEF PollPending
<1>6. ASSUME NEW p \in Poller, PollFails(p)
      PROVE  TokenAfterAuthorization'
  BY <1>6 DEF PollFails
<1>7. ASSUME NEW p \in Poller, NEW life \in TokenLives, PollAuthorized(p, life)
      PROVE  TokenAfterAuthorization'
  <2>1. held[p] \in Session
    BY <1>7 DEF TypeOK, HoldsSession, PollAuthorized
  <2>2. held[p] = storage /\ ~storage.revoked /\ storage.state = "pending"
    BY <1>7 DEF PollAuthorized, CopyIsCurrent
  <2>3. guestTokens = 0
    BY <2>1, <2>2, NoneAssumption
  <2>4. storage'.state = "ready"
    BY <1>7, <2>1 DEF PollAuthorized, Ready, Session
  <2>. QED BY <1>7, <2>3, <2>4 DEF PollAuthorized
<1>8. ASSUME NEW p \in Caller, CheckCall(p)
      PROVE  TokenAfterAuthorization'
  BY <1>8 DEF CheckCall
<1>9. ASSUME NEW p \in Caller, RefuseCall(p)
      PROVE  TokenAfterAuthorization'
  BY <1>9 DEF RefuseCall
<1>10. ASSUME NEW p \in Caller, ReserveCall(p)
      PROVE  TokenAfterAuthorization'
  <2>1. storage'.state = "ready"
    BY <1>10 DEF TypeOK, ReserveCall, Admits, Session
  <2>. QED BY <1>10, <2>1 DEF ReserveCall
<1>11. ASSUME NEW p \in Caller, ForwardDirectly(p)
      PROVE  TokenAfterAuthorization'
  BY <1>11 DEF ForwardDirectly
<1>12. ASSUME NEW p \in Caller, BeginRefresh(p)
      PROVE  TokenAfterAuthorization'
  BY <1>12 DEF BeginRefresh, Latest
<1>13. ASSUME NEW p \in Caller, NEW rotates \in BOOLEAN, NEW life \in TokenLives,
             RefreshGranted(p, rotates, life)
      PROVE  TokenAfterAuthorization'
  <2>1. held[p] \in Session
    BY <1>13 DEF TypeOK, HoldsSession, RefreshGranted
  <2>2. /\ storage'.revoked = held[p].revoked
        /\ storage'.state = held[p].state
    BY <1>13, <2>1 DEF RefreshGranted, Renewed, Session
  <2>3. CASE held[p] = storage
    BY <1>13, <2>1, <2>2, <2>3, NoneAssumption DEF RefreshGranted
  <2>4. CASE held[p].state = "ready"
    BY <1>13, <2>2, <2>4 DEF RefreshGranted
  <2>. QED BY <1>13, <2>3, <2>4 DEF RefreshGranted, CopyIsCurrent
<1>14. ASSUME NEW p \in Caller, RefreshFails(p)
      PROVE  TokenAfterAuthorization'
  BY <1>14 DEF RefreshFails
<1>15. ASSUME NEW p \in Revoker, BeginRevoke(p)
      PROVE  TokenAfterAuthorization'
  BY <1>15 DEF BeginRevoke
<1>16. ASSUME NEW p \in Revoker, EndRevoke(p)
      PROVE  TokenAfterAuthorization'
  <2>1. held[p] \in Session
    BY <1>16 DEF TypeOK, HoldsSession, EndRevoke
  <2>2. storage'.revoked = TRUE
    BY <1>16, <2>1 DEF EndRevoke, Revoked, Session
  <2>. QED BY <1>16, <2>2 DEF EndRevoke
<1>17. CASE AlarmFires
  BY <1>17 DEF AlarmFires
<1>18. CASE Tick
  BY <1>18 DEF Tick
<1>19. CASE Evict
  BY <1>19 DEF Evict
<1>20. CASE UNCHANGED vars
  BY <1>20
<1>. QED
  BY <1>1, <1>2, <1>3, <1>4, <1>5, <1>6, <1>7, <1>8, <1>9, <1>10, <1>11,
     <1>12, <1>13, <1>14, <1>15, <1>16, <1>17, <1>18, <1>19, <1>20
     DEF Next, CallStep, PollStep

\* No step leaves a superseded refresh token in the record.
LEMMA RefreshStep ==
  ASSUME TypeOK, HoldsSession, NothingBeforeCreation, RecordKept, CopyIsCurrent,
          RefreshIsCurrent, [Next]_vars
  PROVE  RefreshIsCurrent'
<1>. USE DEF object, server, history, vars, EnterGate, LeaveGate, Open,
        Suspend, Finish,
             RefreshIsCurrent
<1>. Issuer \in Process /\ Caller \subseteq Process /\ Poller \subseteq Process
     /\ Revoker \subseteq Process
  BY DEF Process
<1>1. CASE Issue
  <2>1. storage'.refresh = 0
    BY <1>1 DEF Issue, Create, NewSession
  <2>. QED BY <1>1, <2>1 DEF Issue, Create
<1>2. CASE StartOpenAiDeviceCode
  <2>1. storage'.refresh = 0
    BY <1>2 DEF StartOpenAiDeviceCode, Create, NewSession
  <2>. QED BY <1>2, <2>1 DEF StartOpenAiDeviceCode, Create
<1>3. ASSUME NEW p \in Process, SetAlarm(p)
      PROVE  RefreshIsCurrent'
  BY <1>3 DEF SetAlarm
<1>4. ASSUME NEW p \in Poller, BeginPoll(p)
      PROVE  RefreshIsCurrent'
  BY <1>4 DEF BeginPoll
<1>5. ASSUME NEW p \in Poller, PollPending(p)
      PROVE  RefreshIsCurrent'
  <2>1. held[p] \in Session
    BY <1>5 DEF TypeOK, HoldsSession, PollPending
  <2>2. storage'.refresh = storage.refresh
    BY <1>5, <2>1 DEF PollPending, CopyIsCurrent, Session
  <2>3. storage # None
    BY <1>5, <2>1, NoneAssumption DEF PollPending, CopyIsCurrent
  <2>. QED BY <1>5, <2>2, <2>3 DEF PollPending
<1>6. ASSUME NEW p \in Poller, PollFails(p)
      PROVE  RefreshIsCurrent'
  BY <1>6 DEF PollFails
<1>7. ASSUME NEW p \in Poller, NEW life \in TokenLives, PollAuthorized(p, life)
      PROVE  RefreshIsCurrent'
  <2>1. held[p] \in Session
    BY <1>7 DEF TypeOK, HoldsSession, PollAuthorized
  <2>2. storage'.refresh = serverRefresh'
    BY <1>7, <2>1 DEF PollAuthorized, Ready, Session
  <2>. QED BY <1>7, <2>2 DEF PollAuthorized
<1>8. ASSUME NEW p \in Caller, CheckCall(p)
      PROVE  RefreshIsCurrent'
  BY <1>8 DEF CheckCall
<1>9. ASSUME NEW p \in Caller, RefuseCall(p)
      PROVE  RefreshIsCurrent'
  BY <1>9 DEF RefuseCall
<1>10. ASSUME NEW p \in Caller, ReserveCall(p)
      PROVE  RefreshIsCurrent'
  <2>1. storage # None /\ storage'.refresh = storage.refresh
    BY <1>10 DEF TypeOK, ReserveCall, Admits, Session
  <2>. QED BY <1>10, <2>1 DEF ReserveCall
<1>11. ASSUME NEW p \in Caller, ForwardDirectly(p)
      PROVE  RefreshIsCurrent'
  BY <1>11 DEF ForwardDirectly
<1>12. ASSUME NEW p \in Caller, BeginRefresh(p)
      PROVE  RefreshIsCurrent'
  <2>1. ~deleted => storage # None
    BY <1>12 DEF BeginRefresh, NothingBeforeCreation, RecordKept
  <2>2. ~deleted /\ ~rotationLost => (reused' <=> reused)
    BY <1>12, <2>1 DEF BeginRefresh, Latest
  <2>. QED BY <1>12, <2>2 DEF BeginRefresh
<1>13. ASSUME NEW p \in Caller, NEW rotates \in BOOLEAN, NEW life \in TokenLives,
             RefreshGranted(p, rotates, life)
      PROVE  RefreshIsCurrent'
  <2>1. held[p] \in Session
    BY <1>13 DEF TypeOK, HoldsSession, RefreshGranted
  <2>2. storage'.refresh = serverRefresh'
    BY <1>13, <2>1 DEF RefreshGranted, Renewed, Session
  <2>. QED BY <1>13, <2>2 DEF RefreshGranted
<1>14. ASSUME NEW p \in Caller, RefreshFails(p)
      PROVE  RefreshIsCurrent'
  <2>1. CASE UNCHANGED server
    BY <1>14, <2>1 DEF RefreshFails
  <2>2. CASE rotationLost'
    BY <1>14, <2>2 DEF RefreshFails
  <2>. QED BY <1>14, <2>1, <2>2 DEF RefreshFails, LoseAnswer
<1>15. ASSUME NEW p \in Revoker, BeginRevoke(p)
      PROVE  RefreshIsCurrent'
  BY <1>15 DEF BeginRevoke
<1>16. ASSUME NEW p \in Revoker, EndRevoke(p)
      PROVE  RefreshIsCurrent'
  <2>1. held[p] \in Session
    BY <1>16 DEF TypeOK, HoldsSession, EndRevoke
  <2>2. storage'.refresh = 0
    BY <1>16, <2>1 DEF EndRevoke, Revoked, Session
  <2>. QED BY <1>16, <2>2 DEF EndRevoke
<1>17. CASE AlarmFires
  <2>1. deleted' /\ storage' = None
    BY <1>17 DEF AlarmFires
  <2>. QED BY <2>1
<1>18. CASE Tick
  BY <1>18 DEF Tick
<1>19. CASE Evict
  <2>1. CASE UNCHANGED server
    BY <1>19, <2>1 DEF Evict
  <2>2. CASE rotationLost'
    BY <1>19, <2>2 DEF Evict
  <2>. QED BY <1>19, <2>1, <2>2 DEF Evict, LoseAnswer
<1>20. CASE UNCHANGED vars
  BY <1>20
<1>. QED
  BY <1>1, <1>2, <1>3, <1>4, <1>5, <1>6, <1>7, <1>8, <1>9, <1>10, <1>11,
     <1>12, <1>13, <1>14, <1>15, <1>16, <1>17, <1>18, <1>19, <1>20
     DEF Next, CallStep, PollStep

-----------------------------------------------------------------------------
\* The invariant holds at the start ...
LEMMA BrokerInitial == Init => TypeOK /\ BrokerInv
<1>. SUFFICES ASSUME Init PROVE TypeOK /\ BrokerInv
  OBVIOUS
<1>1. TypeOK
  BY DEF Init, TypeOK
<1>2. BrokerInv
  BY DEF Init, BrokerInv, GateHeld, HoldsSession, NothingBeforeCreation,
         RecordKept, CopyIsCurrent, RevokedIsEmpty, TokenAfterAuthorization,
         RefreshIsCurrent
<1>. QED BY <1>1, <1>2

\* ... and every step keeps it.
LEMMA BrokerStep == TypeOK /\ BrokerInv /\ [Next]_vars => TypeOK' /\ BrokerInv'
<1>. SUFFICES ASSUME TypeOK, BrokerInv, [Next]_vars
              PROVE  TypeOK' /\ BrokerInv'
  OBVIOUS
<1>. /\ GateHeld /\ HoldsSession /\ NothingBeforeCreation /\ RecordKept
     /\ CopyIsCurrent /\ RevokedIsEmpty /\ TokenAfterAuthorization
     /\ RefreshIsCurrent
  BY DEF BrokerInv
<1>1. TypeOK'
  BY TypeStep
<1>2. GateHeld' /\ HoldsSession'
  BY GateStep
<1>3. NothingBeforeCreation' /\ RecordKept'
  BY RecordStep
<1>4. CopyIsCurrent' /\ RevokedIsEmpty'
  BY CopyStep, RevokedStep
<1>5. TokenAfterAuthorization' /\ RefreshIsCurrent'
  BY TokenStep, RefreshStep
<1>. QED BY <1>1, <1>2, <1>3, <1>4, <1>5 DEF BrokerInv

\* What every suspended handler of the broker may rely on, in every reachable
\* state (byok-broker.mjs lines 282-873).
THEOREM BrokerInvariant == Spec => [](TypeOK /\ BrokerInv)
  BY BrokerInitial, BrokerStep, PTL DEF Spec

\* The record, the copies handlers hold and the object's counters keep their
\* types.
THEOREM BrokerTypeCorrect == Spec => []TypeOK
  BY BrokerInvariant, PTL

\* A revocation that was answered is final: no refresh, poll or second
\* revocation stores a credential again (lines 845-869).
THEOREM RevocationStaysFinal == Spec => []RevocationIsFinal
<1>1. TypeOK /\ BrokerInv => RevocationIsFinal
  BY DEF BrokerInv, NothingBeforeCreation, RecordKept, RevokedIsEmpty,
         RevocationIsFinal, TypeOK
<1>. QED BY BrokerInvariant, <1>1, PTL

\* One capability hands out at most one guest token, however many polls race
\* (lines 286-293, 473 and 524).
THEOREM OneGuestTokenMinted == Spec => []OneGuestToken
<1>1. TypeOK /\ BrokerInv => OneGuestToken
  BY DEF BrokerInv, TokenAfterAuthorization, OneGuestToken
<1>. QED BY BrokerInvariant, <1>1, PTL

\* A replaced refresh token is presented again only after a lost answer or
\* the record's deletion (lines 778-785).
THEOREM RefreshTokenNotReused == Spec => []RefreshTokenUsedOnce
<1>1. TypeOK /\ BrokerInv => RefreshTokenUsedOnce
  BY DEF BrokerInv, RefreshIsCurrent, RefreshTokenUsedOnce
<1>. QED BY BrokerInvariant, <1>1, PTL

\* After an answered revocation no model call reaches the provider, whatever
\* its handler had checked before (lines 786-796).
THEOREM RevokedCallsStop == Spec => NoCallAfterRevocation
<1>1. ASSUME TypeOK, BrokerInv, [Next]_vars
      PROVE  [acknowledged /\ ~deleted => served' = served]_vars
  <2>. SUFFICES ASSUME acknowledged, ~deleted
                PROVE  served' = served
    BY DEF vars, history
  <2>. USE DEF object, server, history, vars
  <2>1. storage # None /\ storage.revoked /\ storage.refresh = 0
    BY <1>1 DEF BrokerInv, NothingBeforeCreation, RecordKept, RevokedIsEmpty,
                TypeOK
  <2>2. ASSUME NEW p \in Caller, ForwardDirectly(p)
        PROVE  served' = served
    BY <2>1, <2>2 DEF ForwardDirectly, Latest, Sent, HasCredential
  <2>3. ASSUME NEW p \in Caller, NEW rotates \in BOOLEAN,
               NEW life \in TokenLives, RefreshGranted(p, rotates, life)
        PROVE  FALSE
    <3>1. p \in Process
      BY DEF Process
    <3>2. held[p] = storage
      BY <1>1, <2>1, <2>3, <3>1 DEF BrokerInv, CopyIsCurrent, RefreshGranted
    <3>. QED BY <2>1, <2>3, <3>2 DEF RefreshGranted, Accepted
  <2>4. ASSUME \A p \in Caller :
                  /\ ~ ForwardDirectly(p)
                  /\ \A rotates \in BOOLEAN, life \in TokenLives :
                        ~ RefreshGranted(p, rotates, life)
        PROVE  served' = served
    BY <1>1, <2>4
       DEF Next, CallStep, PollStep, Issue, StartOpenAiDeviceCode, Create,
           SetAlarm, BeginPoll, PollPending, PollFails, PollAuthorized,
           CheckCall, RefuseCall, ReserveCall, BeginRefresh, RefreshFails,
           BeginRevoke, EndRevoke, AlarmFires, Tick, Evict
  <2>. QED BY <2>2, <2>3, <2>4
<1>. QED BY BrokerInvariant, <1>1, PTL DEF Spec, NoCallAfterRevocation

-----------------------------------------------------------------------------
(***************************************************************************)
(* The budget.  served <= MaxRequests is not inductive: what bounds it is    *)
(* the stored count, of which each call on its way holds one.  A revocation *)
(* writes an older count back, which is harmless because nothing is sent    *)
(* with a revoked record.                                                   *)
(***************************************************************************)
InFlight == {p \in Caller : pc[p] \in {"reserved", "refreshing"}}

BudgetIsReserved ==
  /\ IsFiniteSet(InFlight)
  /\ ~opened => served = 0
  /\ ~deleted => served <= MaxRequests
  /\ ~deleted /\ storage # None /\ ~storage.revoked =>
       /\ served + Cardinality(InFlight) <= storage.count
       /\ storage.count <= MaxRequests

\* A step that sends nothing, reserves nothing and leaves the count alone, or
\* revokes or deletes the record.
LEMMA BudgetUntouched ==
  ASSUME TypeOK, BudgetIsReserved, InFlight' \subseteq InFlight,
         served' = served, opened => opened', deleted => deleted',
         ~deleted' /\ storage' # None /\ ~storage'.revoked =>
           /\ storage # None /\ ~storage.revoked
           /\ storage'.count = storage.count
  PROVE  BudgetIsReserved'
<1>1. IsFiniteSet(InFlight') /\ Cardinality(InFlight') <= Cardinality(InFlight)
  BY FS_Subset DEF BudgetIsReserved
<1>2. Cardinality(InFlight') \in Nat /\ Cardinality(InFlight) \in Nat
  BY <1>1, FS_CardinalityType DEF BudgetIsReserved
<1>3. ~deleted' /\ storage' # None /\ ~storage'.revoked =>
        /\ served' + Cardinality(InFlight') <= storage'.count
        /\ storage'.count <= MaxRequests
  <2>1. storage # None => storage.count \in Nat
    BY DEF TypeOK, Session
  <2>. QED BY <1>1, <1>2, <2>1 DEF BudgetIsReserved, TypeOK
<1>. QED BY <1>1, <1>3 DEF BudgetIsReserved

\* The call that leaves with a request it had reserved.
LEMMA CallLeaves ==
  ASSUME BudgetIsReserved, NEW p \in InFlight, InFlight' = InFlight \ {p}
  PROVE  /\ IsFiniteSet(InFlight')
         /\ Cardinality(InFlight') \in Nat
         /\ Cardinality(InFlight) = Cardinality(InFlight') + 1
<1>1. /\ IsFiniteSet(InFlight)
      /\ IsFiniteSet(InFlight \ {p})
      /\ Cardinality(InFlight \ {p}) = Cardinality(InFlight) - 1
  BY FS_RemoveElement DEF BudgetIsReserved
<1>2. Cardinality(InFlight) \in Nat /\ Cardinality(InFlight \ {p}) \in Nat
  BY <1>1, FS_CardinalityType
<1>. QED BY <1>1, <1>2

\* A call that is sent with the stored record uses up what it reserved.
LEMMA SentIsReserved ==
  ASSUME TypeOK, BudgetIsReserved, NEW p \in InFlight,
         InFlight' = InFlight \ {p}, opened, opened' = opened,
         deleted' = deleted,
         ~deleted => /\ storage # None /\ storage' # None
                     /\ storage'.count = storage.count
                     /\ storage'.revoked = storage.revoked,
         served' = served \/ (served' = served + 1 /\
                              (~deleted => ~storage.revoked))
  PROVE  BudgetIsReserved'
<1>1. /\ IsFiniteSet(InFlight')
      /\ Cardinality(InFlight') \in Nat
      /\ Cardinality(InFlight) = Cardinality(InFlight') + 1
  BY CallLeaves
<1>2. storage # None => storage.count \in Nat
  BY DEF TypeOK, Session
<1>3. served \in Nat /\ MaxRequests \in Nat
  BY BrokerAssumption DEF TypeOK
<1>4. ~deleted' => served' <= MaxRequests
  BY <1>1, <1>2, <1>3 DEF BudgetIsReserved
<1>5. ~deleted' /\ storage' # None /\ ~storage'.revoked =>
        /\ served' + Cardinality(InFlight') <= storage'.count
        /\ storage'.count <= MaxRequests
  BY <1>1, <1>2, <1>3 DEF BudgetIsReserved
<1>. QED BY <1>1, <1>4, <1>5 DEF BudgetIsReserved

\* Every step keeps it.
LEMMA BudgetStep ==
  ASSUME TypeOK, BrokerInv, BudgetIsReserved, [Next]_vars
  PROVE  BudgetIsReserved'
<1>. USE DEF object, server, history, vars, EnterGate, LeaveGate, Open,
        Suspend, Finish
<1>. /\ HoldsSession /\ NothingBeforeCreation /\ RecordKept /\ CopyIsCurrent
     /\ RevokedIsEmpty
  BY DEF BrokerInv
<1>. Issuer \in Process /\ Caller \subseteq Process /\ Poller \subseteq Process
     /\ Revoker \subseteq Process
  BY DEF Process
<1>. Issuer \notin Caller /\ Poller \cap Caller = {} /\ Revoker \cap Caller = {}
  BY BrokerAssumption
<1>1. CASE Issue \/ StartOpenAiDeviceCode
  <2>1. storage'.count = 0 /\ served' = served /\ ~opened /\ opened'
    BY <1>1 DEF Issue, StartOpenAiDeviceCode, Create, NewSession
  <2>2. InFlight' = {}
    BY <1>1, <2>1
       DEF TypeOK, Issue, StartOpenAiDeviceCode, Create, InFlight,
           NothingBeforeCreation
  <2>3. IsFiniteSet(InFlight') /\ Cardinality(InFlight') = 0
    BY <2>2, FS_EmptySet
  <2>. QED BY <2>1, <2>3, BrokerAssumption DEF BudgetIsReserved
<1>2. ASSUME NEW p \in Process, SetAlarm(p)
      PROVE  BudgetIsReserved'
  <2>1. InFlight' \subseteq InFlight
    BY <1>2 DEF TypeOK, SetAlarm, InFlight
  <2>. QED BY <1>2, <2>1, BudgetUntouched DEF SetAlarm
<1>3. ASSUME NEW p \in Poller, BeginPoll(p) \/ PollFails(p)
      PROVE  BudgetIsReserved'
  <2>1. InFlight' \subseteq InFlight
    BY <1>3 DEF TypeOK, BeginPoll, PollFails, InFlight
  <2>. QED BY <1>3, <2>1, BudgetUntouched DEF BeginPoll, PollFails
<1>4. ASSUME NEW p \in Poller, PollPending(p)
      PROVE  BudgetIsReserved'
  <2>1. InFlight' \subseteq InFlight
    BY <1>4 DEF TypeOK, PollPending, InFlight
  <2>2. held[p] \in Session /\ held[p] = storage
    BY <1>4 DEF TypeOK, HoldsSession, CopyIsCurrent, PollPending
  <2>3. storage'.count = storage.count /\ storage'.revoked = storage.revoked
    BY <1>4, <2>2 DEF PollPending, Session
  <2>. QED
    BY <1>4, <2>1, <2>2, <2>3, NoneAssumption, BudgetUntouched DEF PollPending
<1>5. ASSUME NEW p \in Poller, NEW life \in TokenLives, PollAuthorized(p, life)
      PROVE  BudgetIsReserved'
  <2>1. InFlight' \subseteq InFlight
    BY <1>5 DEF TypeOK, PollAuthorized, InFlight
  <2>2. held[p] \in Session /\ held[p] = storage
    BY <1>5 DEF TypeOK, HoldsSession, CopyIsCurrent, PollAuthorized
  <2>3. storage'.count = storage.count /\ storage'.revoked = storage.revoked
    BY <1>5, <2>2 DEF PollAuthorized, Ready, Session
  <2>. QED
    BY <1>5, <2>1, <2>2, <2>3, NoneAssumption, BudgetUntouched
       DEF PollAuthorized
<1>6. ASSUME NEW p \in Caller, CheckCall(p) \/ RefuseCall(p)
      PROVE  BudgetIsReserved'
  <2>1. InFlight' \subseteq InFlight
    BY <1>6 DEF TypeOK, CheckCall, RefuseCall, InFlight
  <2>. QED BY <1>6, <2>1, BudgetUntouched DEF CheckCall, RefuseCall
<1>7. ASSUME NEW p \in Caller, ReserveCall(p)
      PROVE  BudgetIsReserved'
  <2>1. /\ storage \in Session /\ ~storage.revoked
        /\ storage.count < MaxRequests /\ opened
    BY <1>7 DEF TypeOK, ReserveCall, Admits, HasCredential,
                NothingBeforeCreation
  <2>2. storage'.count = storage.count + 1
    BY <1>7, <2>1 DEF ReserveCall, Session
  <2>3. InFlight' = InFlight \cup {p}
    BY <1>7 DEF TypeOK, ReserveCall, InFlight
  <2>4. /\ IsFiniteSet(InFlight')
        /\ Cardinality(InFlight') <= Cardinality(InFlight) + 1
        /\ Cardinality(InFlight) \in Nat /\ Cardinality(InFlight') \in Nat
    <3>1. IsFiniteSet(InFlight)
      BY DEF BudgetIsReserved
    <3>2. /\ IsFiniteSet(InFlight \cup {p})
          /\ Cardinality(InFlight \cup {p})
               \in {Cardinality(InFlight), Cardinality(InFlight) + 1}
      BY <3>1, FS_AddElement
    <3>3. /\ Cardinality(InFlight) \in Nat
          /\ Cardinality(InFlight \cup {p}) \in Nat
      BY <3>1, <3>2, FS_CardinalityType
    <3>. QED BY <2>3, <3>2, <3>3
  <2>5. storage # None /\ storage.count \in Nat /\ served \in Nat
    BY <2>1, NoneAssumption DEF TypeOK, Session
  <2>6. ~deleted => /\ served + Cardinality(InFlight') <= storage'.count
                    /\ storage'.count <= MaxRequests
    BY <2>1, <2>2, <2>4, <2>5, BrokerAssumption DEF BudgetIsReserved
  <2>. QED BY <1>7, <2>1, <2>4, <2>6 DEF ReserveCall, BudgetIsReserved
<1>8. ASSUME NEW p \in Caller, ForwardDirectly(p)
      PROVE  BudgetIsReserved'
  <2>1. p \in InFlight /\ InFlight' = InFlight \ {p}
    BY <1>8 DEF TypeOK, ForwardDirectly, InFlight
  <2>2. opened /\ (~deleted => storage # None)
    BY <1>8 DEF ForwardDirectly, NothingBeforeCreation, RecordKept
  <2>3. \/ served' = served
        \/ served' = served + 1 /\ (~deleted => ~storage.revoked)
    BY <1>8, <2>2 DEF ForwardDirectly, Sent, HasCredential, Latest
  <2>. QED BY <1>8, <2>1, <2>2, <2>3, SentIsReserved DEF ForwardDirectly
<1>9. ASSUME NEW p \in Caller, BeginRefresh(p)
      PROVE  BudgetIsReserved'
  <2>1. InFlight' \subseteq InFlight
    BY <1>9 DEF TypeOK, BeginRefresh, InFlight
  <2>. QED BY <1>9, <2>1, BudgetUntouched DEF BeginRefresh
<1>10. ASSUME NEW p \in Caller, NEW rotates \in BOOLEAN, NEW life \in TokenLives,
              RefreshGranted(p, rotates, life)
       PROVE  BudgetIsReserved'
  <2>1. p \in InFlight /\ InFlight' = InFlight \ {p}
    BY <1>10 DEF TypeOK, RefreshGranted, InFlight
  <2>2. opened /\ (~deleted => storage # None)
    BY <1>10 DEF RefreshGranted, NothingBeforeCreation, RecordKept
  <2>3. held[p] \in Session /\ (~deleted => held[p] = storage)
    BY <1>10, <2>2 DEF TypeOK, HoldsSession, CopyIsCurrent, RefreshGranted
  <2>4. /\ storage' \in Session
        /\ storage'.count = held[p].count
        /\ storage'.revoked = held[p].revoked
    <3>1. storage'.count = held[p].count /\ storage'.revoked = held[p].revoked
      BY <1>10, <2>3 DEF RefreshGranted, Renewed, Session
    <3>2. life \in Nat /\ serverRefresh \in Nat
      BY BrokerAssumption DEF TypeOK
    <3>3. storage' \in Session
      <4>. DEFINE next == IF rotates THEN serverRefresh + 1 ELSE serverRefresh
      <4>1. storage' = Renewed(held[p], next, life)
        BY <1>10 DEF RefreshGranted
      <4>2. next \in Nat
        BY <3>2
      <4>. HIDE DEF next
      <4>. QED BY <2>3, <3>2, <4>1, <4>2, SessionRecords
    <3>. QED BY <3>1, <3>3
  <2>5. \/ served' = served
        \/ served' = served + 1 /\ ~storage'.revoked
    BY <1>10 DEF RefreshGranted, Sent, HasCredential
  <2>. QED
    BY <1>10, <2>1, <2>2, <2>3, <2>4, <2>5, NoneAssumption, SentIsReserved
       DEF RefreshGranted
<1>11. ASSUME NEW p \in Caller, RefreshFails(p)
       PROVE  BudgetIsReserved'
  <2>1. InFlight' \subseteq InFlight
    BY <1>11 DEF TypeOK, RefreshFails, InFlight
  <2>. QED BY <1>11, <2>1, BudgetUntouched DEF RefreshFails
<1>12. ASSUME NEW p \in Revoker, BeginRevoke(p) \/ EndRevoke(p)
       PROVE  BudgetIsReserved'
  <2>1. InFlight' \subseteq InFlight
    BY <1>12 DEF TypeOK, BeginRevoke, EndRevoke, InFlight
  <2>2. CASE BeginRevoke(p)
    BY <2>1, <2>2, BudgetUntouched DEF BeginRevoke
  <2>3. CASE EndRevoke(p)
    <3>1. held[p] \in Session
      BY <2>3 DEF TypeOK, HoldsSession, EndRevoke
    <3>2. storage'.revoked
      BY <2>3, <3>1 DEF EndRevoke, Revoked, Session
    <3>. QED BY <2>1, <2>3, <3>2, BudgetUntouched DEF EndRevoke
  <2>. QED BY <1>12, <2>2, <2>3
<1>13. CASE AlarmFires \/ Tick
  <2>1. InFlight' \subseteq InFlight
    BY <1>13 DEF AlarmFires, Tick, InFlight
  <2>. QED BY <1>13, <2>1, BudgetUntouched DEF AlarmFires, Tick
<1>14. CASE Evict
  <2>1. InFlight' \subseteq InFlight
    BY <1>14 DEF Evict, InFlight
  <2>. QED BY <1>14, <2>1, BudgetUntouched DEF Evict
<1>15. CASE UNCHANGED vars
  <2>1. InFlight' \subseteq InFlight
    BY <1>15 DEF InFlight
  <2>. QED BY <1>15, <2>1, BudgetUntouched
<1>. QED
  BY <1>1, <1>2, <1>3, <1>4, <1>5, <1>6, <1>7, <1>8, <1>9, <1>10, <1>11,
     <1>12, <1>13, <1>14, <1>15
     DEF Next, CallStep, PollStep

\* The provider is called at most MaxRequests times for one capability, for
\* any number of callers: what is checked before a body is read counts for
\* nothing, the reservation inside the gate does (lines 743-776).
THEOREM BudgetIsKept == Spec => []BudgetHolds
<1>1. Init => BudgetIsReserved
  <2>. SUFFICES ASSUME Init PROVE BudgetIsReserved
    OBVIOUS
  <2>1. InFlight = {}
    BY DEF Init, InFlight, Process
  <2>2. IsFiniteSet(InFlight)
    BY <2>1, FS_EmptySet
  <2>. QED BY <2>2, BrokerAssumption DEF Init, BudgetIsReserved
<1>2. BudgetIsReserved => BudgetHolds
  BY DEF BudgetIsReserved, BudgetHolds
<1>. QED BY BrokerInvariant, BudgetStep, <1>1, <1>2, PTL DEF Spec

=============================================================================
