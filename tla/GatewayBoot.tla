---------------------------- MODULE GatewayBoot ----------------------------
(***************************************************************************)
(* How a document brings up OpenClaw (runProbe of src/openclaw-gateway-     *)
(* health-probe.ts, the lock around it in src/byok-runtime.ts, and the OPFS *)
(* persistence probe): it restores the state directory from the store of    *)
(* OpfsStore or installs a fresh one, writes openclaw.json, saves a fresh   *)
(* state for later boots, and only then starts the Gateway, which writes    *)
(* to the directory from then on.                                           *)
(*                                                                          *)
(* A document's launch is its URL: "automatic" is the onboarding runtime    *)
(* with its boot cache, "restore" a proof with restoreStore, "write" and    *)
(* "read" the two phases of the persistence probe.  launch.lock says that   *)
(* it boots under the Web Lock: it has no SharedWorker but navigator.locks. *)
(***************************************************************************)
EXTENDS OpfsStore, Sequences

CONSTANTS
  Launches,           \* the ways the documents may have been opened together
  Installed,          \* files the install lifecycle writes, the database too
  Database,           \* state/openclaw.sqlite
  Config,             \* openclaw.json
  Installation,       \* what an install can leave in its files
  Leaves,             \* what an install by each document can leave
  Settings,           \* what the host writes to Config
  Live,               \* what a running Gateway writes
  Scripts,            \* runNodeLifecycleScript calls of one install (3)
  MaxClientAttempts,  \* maxClientAttempts (3 in the code)
  MaxMishaps          \* bound: documents that close or crash, and damages

Launch == [kind : {"automatic", "restore", "write", "read"}, lock : BOOLEAN]

ASSUME BootAssumption ==
  /\ Launches \subseteq [Client -> Launch]
  /\ Leaves \in [Client -> SUBSET Installation]
  /\ Database \in Installed /\ Config \notin Installed
  /\ File = Installed \cup {Config}
  /\ Content = Installation \cup {Settings, Live}
  /\ Live \notin Installation \cup {Settings}
  /\ Scripts \in Nat \ {0} /\ MaxClientAttempts \in Nat \ {0} /\ MaxMishaps \in Nat

VARIABLES
  launch,    \* how each document was opened
  pc,        \* where its boot stands
  mode,      \* bootMode
  script,    \* lifecycle scripts that have run
  attempt,   \* client attempts that ended in a transport error
  lock,      \* the document that holds the bootstrap lock, or None
  queue,     \* documents that wait for it
  closes     \* documents that went away

bootVars == <<launch, pc, mode, script, attempt, lock, queue, closes>>
vars == <<opfsVars, bootVars>>

Terminal == {"ready", "passed", "blocked", "failed"}
\* Slip: the Gateway is started before its state is saved, or beside the save.
RunningUnsaved == {"snapshot", "saving", "starting", "prewarming", "attaching",
                   "trying", "ready"}
Running == {"starting", "prewarming", "attaching", "trying", "ready"}
Booting == {"lookup", "opening", "restoring", "checking", "installing",
            "inspecting", "configuring", "snapshot", "saving", "starting",
            "prewarming", "attaching", "trying"}

TypeOK ==
  /\ StoreTypeOK
  /\ launch \in [Client -> Launch]
  /\ pc \in [Client -> {"closed", "queued"} \cup Booting \cup Terminal]
  /\ mode \in [Client -> {"cold", "warm"}]
  /\ script \in [Client -> 0..Scripts]
  /\ attempt \in [Client -> 0..(MaxClientAttempts - 1)]
  /\ lock \in Client \cup {None}
  /\ queue \in Seq(Client)
  /\ closes \in 0..MaxMishaps

Init ==
  /\ StoreInit
  /\ launch \in Launches
  /\ pc = [c \in Client |-> "closed"]
  /\ mode = [c \in Client |-> "cold"]
  /\ script = [c \in Client |-> 0]
  /\ attempt = [c \in Client |-> 0]
  /\ lock = None /\ queue = <<>> /\ closes = 0

Kind(c) == launch[c].kind
locals == <<mode, script, attempt>>
Others == <<launch, queue, closes>>

Goto(c, p) == pc' = [pc EXCEPT ![c] = p]
Continue(c, p) == Goto(c, p) /\ UNCHANGED <<lock, locals>>

\* runProbe has returned, and the bootstrap lock is free for the next.
ForgetLocals(c) ==
  /\ mode' = [mode EXCEPT ![c] = "cold"]
  /\ script' = [script EXCEPT ![c] = 0]
  /\ attempt' = [attempt EXCEPT ![c] = 0]
\* Slip: waitForBootTerminal waits for "pass" only.
SettleOnPass(c, p) ==
  /\ Goto(c, p) /\ ForgetLocals(c)
  /\ lock' = IF lock = c /\ p # "failed" THEN None ELSE lock
Settle(c, p) ==
  /\ Goto(c, p) /\ ForgetLocals(c)
  /\ lock' = IF lock = c THEN None ELSE lock

-----------------------------------------------------------------------------
(***************************************************************************)
(* startRuntimeWithBootstrapLock.  The lock is held until the probe's       *)
(* status is pass or fail.                                                  *)
(***************************************************************************)
Start(c) ==
  /\ pc[c] = "closed"
  /\ IF ~launch[c].lock
     THEN Goto(c, "lookup") /\ UNCHANGED <<lock, queue>>
     ELSE IF lock = None /\ queue = <<>>
     THEN Goto(c, "lookup") /\ lock' = c /\ UNCHANGED queue
     ELSE Goto(c, "queued") /\ queue' = Append(queue, c) /\ UNCHANGED lock
  /\ UNCHANGED <<opfsVars, launch, locals, closes>>

GrantLock(c) ==
  /\ pc[c] = "queued"
  /\ lock = None /\ queue # <<>> /\ Head(queue) = c
  /\ Goto(c, "lookup")
  /\ lock' = c /\ queue' = Tail(queue)
  /\ UNCHANGED <<opfsVars, launch, locals, closes>>

(***************************************************************************)
(* The state directory.                                                     *)
(***************************************************************************)
FreshDirectory(c) == ChangeTree(c, NoFiles)
InstallFrom(c) == /\ FreshDirectory(c)
                  /\ Continue(c, "installing")

LookUpSnapshot(c) ==
  /\ pc[c] = "lookup"
  /\ IF \/ Kind(c) \in {"restore", "read"}
        \/ Kind(c) = "automatic" /\ HasDirectoryTreeSnapshot
     THEN FreshDirectory(c) /\ Continue(c, "opening")
     ELSE InstallFrom(c)
  /\ UNCHANGED Others

\* hasDirectoryTreeSnapshot rejects: as if there were none.
LookUpFails(c) ==
  /\ pc[c] = "lookup" /\ Kind(c) = "automatic"
  /\ InstallFrom(c)
  /\ UNCHANGED Others

OpenSnapshot(c) ==
  /\ pc[c] = "opening"
  /\ BeginRestore(c)
  /\ Continue(c, "restoring")
  /\ UNCHANGED Others

RestoreWork(c) ==
  /\ pc[c] = "restoring"
  /\ RestoreStep(c) \/ FailOperation(c)
  /\ UNCHANGED bootVars

\* restoreOrCreateOpenClawBootState: a failed restore means a cold boot.
\* Slip: the boot goes on with what the failed restore left behind.
FallBackInPlace(c) ==
  IF Kind(c) = "automatic"
  THEN Continue(c, "configuring") /\ UNCHANGED opfsVars
  ELSE Settle(c, "failed") /\ UNCHANGED opfsVars
FallBack(c) ==
  IF Kind(c) = "automatic"
  THEN InstallFrom(c)
  ELSE Settle(c, "failed") /\ UNCHANGED opfsVars

EndRestore(c) ==
  /\ pc[c] = "restoring" /\ phase[c] = "idle"
  /\ IF outcome[c] = "restored"
     THEN Continue(c, "checking") /\ UNCHANGED opfsVars
     ELSE FallBack(c)
  /\ UNCHANGED Others

\* restoreBootState: the database must be there; a check may refuse it too.
CheckRestored(c) ==
  /\ pc[c] = "checking" /\ tree[c][Database] # None
  /\ IF Kind(c) = "read"
     THEN Settle(c, "passed")
     ELSE /\ Goto(c, "configuring")
          /\ mode' = [mode EXCEPT ![c] = "warm"]
          /\ UNCHANGED <<lock, script, attempt>>
  /\ UNCHANGED <<opfsVars, Others>>

RefuseRestored(c) ==
  /\ pc[c] = "checking"
  /\ FallBack(c)
  /\ UNCHANGED Others

\* runOpenClawInstallLifecycle: the last script migrates the state directory.
RunLifecycleScript(c) ==
  /\ pc[c] = "installing"
  /\ script' = [script EXCEPT ![c] = @ + 1]
  /\ IF script[c] + 1 < Scripts
     THEN UNCHANGED <<opfsVars, pc>>
     ELSE /\ \E v \in Leaves[c] :
               ChangeTree(c, [f \in File |->
                 IF f \in Installed THEN v ELSE tree[c][f]])
          /\ Goto(c, "inspecting")
  /\ UNCHANGED <<mode, attempt, lock, Others>>

InspectOpenClawInstallState(c) ==
  /\ pc[c] = "inspecting" /\ tree[c][Database] # None
  /\ Continue(c, IF Kind(c) = "write" THEN "snapshot" ELSE "configuring")
  /\ UNCHANGED <<opfsVars, Others>>

\* openclaw.json; a cold onboarding boot saves before it starts the Gateway.
Configure(c) ==
  /\ pc[c] = "configuring"
  /\ ChangeTree(c, [tree[c] EXCEPT ![Config] = Settings])
  /\ Continue(c, IF Kind(c) = "automatic" /\ mode[c] = "cold"
                 THEN "snapshot" ELSE "starting")
  /\ UNCHANGED Others

BeginSave(c) ==
  /\ pc[c] = "snapshot"
  /\ BeginCommit(c)
  /\ Continue(c, "saving")
  /\ UNCHANGED Others

SaveWork(c) ==
  /\ pc[c] = "saving"
  /\ CommitStep(c) \/ FailOperation(c)
  /\ UNCHANGED bootVars

\* A boot goes on without its snapshot; the persistence probe fails.
AfterSave(c, saved) ==
  IF Kind(c) = "automatic"
  THEN Continue(c, "starting")
  ELSE Settle(c, IF saved THEN "passed" ELSE "failed")

EndSave(c) ==
  /\ pc[c] = "saving" /\ phase[c] = "idle"
  /\ AfterSave(c, outcome[c] = "committed")
  /\ UNCHANGED <<opfsVars, Others>>

\* commitDirectoryTreeToOpfs rejects before it has made a generation.
SaveFails(c) ==
  /\ pc[c] = "snapshot"
  /\ AfterSave(c, FALSE)
  /\ UNCHANGED <<opfsVars, Others>>

-----------------------------------------------------------------------------
(***************************************************************************)
(* The Gateway process.  Exit, stream end and deadline race its readiness.  *)
(***************************************************************************)
GatewayReady(c) ==
  /\ pc[c] = "starting"
  /\ Continue(c, "prewarming")
  /\ UNCHANGED <<opfsVars, Others>>

GatewayBlocked(c) ==
  /\ pc[c] = "starting"
  /\ Settle(c, "blocked")
  /\ UNCHANGED <<opfsVars, Others>>

Prewarmed(c) ==
  /\ pc[c] = "prewarming"
  /\ Continue(c, IF Kind(c) = "automatic" THEN "attaching" ELSE "trying")
  /\ UNCHANGED <<opfsVars, Others>>

RpcBridgeReady(c) ==
  /\ pc[c] = "attaching"
  /\ Settle(c, "ready")
  /\ UNCHANGED <<opfsVars, Others>>

\* Slip: attempts are counted from zero.
OneTooMany(c) == attempt[c] < MaxClientAttempts
AttemptsLeft(c) == attempt[c] + 1 < MaxClientAttempts

\* runClientAttempt: only a transport error is tried again.
ClientAttempt(c) ==
  /\ pc[c] = "trying"
  /\ \/ Settle(c, "passed")
     \/ Settle(c, "blocked")
     \/ /\ AttemptsLeft(c)
        /\ attempt' = [attempt EXCEPT ![c] = @ + 1]
        /\ UNCHANGED <<pc, lock, mode, script>>
  /\ UNCHANGED <<opfsVars, Others>>

\* Once it runs, any file may hold its own state.
GatewayWrites(c) ==
  /\ pc[c] \in Running
  /\ ChangeTree(c, [f \in File |-> Live])
  /\ UNCHANGED bootVars

\* An await outside the guarded ones rejects: runProbe reports "fail".
ProbeThrows(c) ==
  /\ pc[c] \in {"lookup", "installing", "inspecting", "configuring",
                "prewarming", "attaching", "trying"}
  /\ Settle(c, "failed")
  /\ UNCHANGED <<opfsVars, Others>>

LeaveQueue(c) ==
  \/ pc[c] # "queued" /\ UNCHANGED queue
  \/ \E i \in 1..Len(queue) :
       /\ queue[i] = c
       /\ queue' = SubSeq(queue, 1, i - 1) \o SubSeq(queue, i + 1, Len(queue))

Close(c) ==
  /\ pc[c] # "closed" /\ closes + damages < MaxMishaps
  /\ closes' = closes + 1
  /\ Vanish(c)
  /\ Settle(c, "closed")
  /\ LeaveQueue(c)
  /\ UNCHANGED launch

StorageEvent ==
  closes + damages < MaxMishaps /\ StorageStep /\ UNCHANGED bootVars

BootStep(c) ==
  \/ GrantLock(c) \/ LookUpSnapshot(c) \/ LookUpFails(c)
  \/ OpenSnapshot(c) \/ RestoreWork(c) \/ EndRestore(c)
  \/ CheckRestored(c) \/ RefuseRestored(c)
  \/ RunLifecycleScript(c) \/ InspectOpenClawInstallState(c) \/ Configure(c)
  \/ BeginSave(c) \/ SaveWork(c) \/ EndSave(c) \/ SaveFails(c)
  \/ GatewayReady(c) \/ GatewayBlocked(c) \/ Prewarmed(c) \/ RpcBridgeReady(c)
  \/ ClientAttempt(c) \/ ProbeThrows(c)

Next ==
  \/ StorageEvent
  \/ \E c \in Client :
       Start(c) \/ BootStep(c) \/ GatewayWrites(c) \/ Close(c)

\* The browser grants a free lock.  Nothing is assumed of a boot: its fetches,
\* its install scripts and the start of a guest process have no deadline.
Fairness == \A c \in Client : WF_vars(GrantLock(c))
Spec == Init /\ [][Next]_vars /\ Fairness

-----------------------------------------------------------------------------
\* A Gateway starts on the files of one installation, never on those a failed
\* restore left behind or on a mixture of two.
GatewayStartsWhole ==
  \A c \in Client : pc[c] = "starting" =>
    /\ \E v \in Installation : \A f \in Installed : tree[c][f] \in {v, Live}
    /\ tree[c][Config] \in {Settings, Live}

\* The boot cache holds what an install and the host wrote, never what a
\* running Gateway wrote: the commit precedes the Gateway's start.
NoLiveStateSaved ==
  \A g \in Generation, f \in File : payload[g][f] # Live

\* A tab that waits for another tab's boot gets its turn, however the boots
\* before it end, if only they do not hang until the tab is closed
\* (src/byok-runtime.ts, waitForBootTerminal).
BootsEnd == \A c \in Client : []<>(pc[c] \notin Booting)
WaitingTabsBoot ==
  BootsEnd => \A c \in Client : pc[c] = "queued" ~> pc[c] # "queued"
=============================================================================
