# Verification of the Clawsembly kernel

Clawsembly runs an unmodified OpenClaw Gateway inside a browser tab: Edge.js and
WASIX in a worker pool, the file tree in OPFS, the network through capability
scoped bridges, and provider credentials behind a broker that the guest never
sees. This directory holds TLA+ modules of the parts whose correctness depends
on the order in which things happen, the TLC configurations that check them,
and proofs that TLAPS checks. Paths below are relative to the repository
(`src/` in `PROJECT.json` is its root).

- [Inventory](#inventory) – the parts of the system
- [What is modelled](#what-is-modelled) – modules and their correspondence to code
- [Runs](#runs) – what each model-checking run shows, bounds and fairness
- [Disagreements found](#disagreements-found)
- [Proofs](#proofs)
- [Not modelled](#not-modelled) – what is left out, and why
- [Plan](#plan) – what comes next

To reproduce: `tlc -config <run>.cfg <MC module>` with the pairs of the table
under "Runs", and `tlapm` on each of the eight `*Proofs.tla`.

## Inventory

| Component | State it keeps | Operations | Hard because | Correct when | Status |
|---|---|---|---|---|---|
| **Tab coordinator** `src/openclaw-shared-worker.ts` | connected ports, owner, pending requests, answers in flight, their waiters and response cache, wizard snapshot, readiness | connect, disconnect, runtime start, operation, response, ready | messages of many tabs interleave; the owner closes with calls in flight; the same call made by two tabs must run once | every flag or key in flight has one request whose response settles it; replies go to their callers; snapshot, cache and readiness describe the live Gateway | modelled, proved |
| **Tab and owner runtime** `src/byok-runtime.ts`, `src/openclaw-gateway-health-probe.ts` (boot and operation queue), calls of `src/byok-onboarding.ts` | owner flag, runtime, operation queue, page's session | open, close, boot, run one operation | promotion while messages are on their way; no signal when a renderer dies | one runtime per worker; every call answered; a promotion restores the runtime | modelled in part, proved |
| **BYOK capability broker** `worker/byok-broker.mjs` (Durable Object) | session record, alarm, requests in flight | issue, device start, poll, model call, refresh, revoke, alarm | handlers interleave at every await; the record is read, awaited upon and written back whole; the object may stop anywhere | budget, single guest token, final revocation, each refresh token presented once, record deleted at expiry | modelled, proved |
| **OPFS directory store** `src/opfs-directory-store.ts`, `src/openclaw-boot-cache.ts` | generations, manifest, HEAD | commit, restore, choose between restore and cold boot | crash between any two writes; two committers; the tree changes while it is read | HEAD names only complete generations; a restore returns one of them or fails; a partial tree is never booted | modelled, proved |
| **Boot of the Gateway document** `runProbe`, `src/byok-runtime.ts` 227-303, `src/openclaw-install-lifecycle.ts`, `src/openclaw-opfs-persistence-probe.ts` | the Directory, local results, the Web Lock | restore or install, configure, save, start | documents of one origin boot at once; one fails or closes at any await | a Gateway starts on one whole state; only what precedes a Gateway is saved; the lock passes on | modelled, proved |
| **Provider broker** `provider-broker/src/main.rs` | revoked flag, request counter, semaphore | model call, revoke | counter and permit taken in separate atomic steps; the permit lives as long as the response stream | budget and one call at a time under races | modelled, proved |
| **BYOK HTTP bridge** `src/byok-http-bridge.ts`, `src/byok-loopback-broker.ts` | request and response files | guest request, host poll, forward, respond, stop | files written while they are polled; removal may fail; the guest times out | each call gets its own answer; charged once unless a file operation failed; mailbox drains | modelled, proved |
| **Gateway RPC mailbox, capability configuration** `runGatewayRpc`, `src/openclaw-wizard-rpc-bridge.ts`, `src/openclaw-capability-config.ts` | operation queue, request and response files, configuration, connection | attach, RPC with deadline, inspect, patch, restart, verify | a late response after the deadline; another writer between inspect and patch; a restart that closes its own connection | at most one execution per call; no lost setting; success means an active model; every caller answered | modelled, proved |
| **Onboarding page** `src/byok-onboarding.ts`, `src/openclaw-runtime-recovery.ts`, `src/byok-capability-handoff.ts` | wizard, credential and capability state, recovery count | answer, skip, issue, poll, attach, configure, revoke, recover | async functions overlap; answers are lost; recovery replaces the runtime under them | a Wizard starts with its model attached; "done" means configured; no eternal spinner | modelled in part, proved |
| **Worker routes** `worker/index.mjs` | none | route requests to a new or named object | – | every creation gets its own object | as far as the page sees them (`Onboarding`) |
| **Release** `scripts/prepare-cloudflare-deploy.mjs`, `scripts/deploy-cloudflare.mjs`, `worker/r2-uploader.mjs`, artifact serving of `worker/index.mjs`, the self-hosted proof | evidence, manifest, plan, `dist/`, R2, live Worker, isolates, edge cache | prove, prepare, upload, publish, serve | two scripts share a working copy and may stop anywhere; a short upload stays under its key; caches outlive a release | only proven bytes are served; a published plan has its objects | modelled in part, proved |
| **Relay** `relay/src/main.rs` | connection slots, bounded channels | connect, dial, pump, close | two bounded channels drained by tasks that await each other | no slot leaked, no mutual wait | not modelled |
| **Loopback sockets, worker pool** `patches/` | socket buffers, wakers, idle workers | read, write, wake, spawn, release | lost wake-ups, release before completion | every waiter woken, no worker used twice | not modelled |
| **SQLite personality** `runtime/edgejs/node-sqlite-personality.mjs`, `src/node-sqlite.ts` | open databases and statements | open, prepare, run, close | closing with statements open | no use after close | not modelled |
| **Package image, pure algorithms** `src/clawsemblyfs.ts`, `src/openclaw-agent-turn-response.ts`, `scripts/build-openclaw-package-image.mjs` | none | validate, sort, match | edge cases | equals a reference definition | not modelled |
| **Probe and proof pages, generated data** | none that outlives a run | gather evidence, display | – | – | not modelled |

How they interact: the onboarding page embeds the runtime iframe and posts
messages to it; each iframe has a `MessagePort` to the coordinator; the
coordinator forwards calls to the owner iframe, whose runtime runs them one at
a time through files read by a bridge inside the guest; the guest reaches the
model through the HTTP bridge's files, which the owner's host side forwards
with a guest token to the broker, which alone holds the provider's credential.
The tree the guest boots from is restored from the OPFS store and committed
after a cold boot, before the Gateway starts. Beside this stands the release: a
proof run against the provider broker yields the evidence from which the
scripts prepare and deploy the artifacts that the Worker serves.

`PROJECT.json` lists under "hazards" each place where this is hard to test, by
line, with the properties that cover it, or the reason why none does.

## What is modelled

### `SharedCoordinator`: the tab coordinator

One variable per `let`, `Map` or `Set` of `openclaw-shared-worker.ts`, one
operator per function, and one action per run of a message handler: the
worker's event loop runs handlers to completion, so nothing interleaves inside
them. `arrivals` is the insertion order of the `ports` set, which decides who
is promoted. `toTab` are the messages posted on each port and not yet taken. A
request identifier is a `crypto.randomUUID()`, so a fresh value. Answers
(`stepId` and value) are members of a set, a response carries the last answer
the wizard took and, for a start, its session: that is what deduplication and
snapshot tell apart. `MaxCached` stands for the 32 of `wizardNextResponseCache`.
Left out: the display-only status and result messages, malformed messages that
the iframe never posts.

`CoordinatorSpec` is the coordinator among arbitrary tabs: any connected port
posts anything at any time. That is the form the proofs are about.

### `SharedRuntime`: coordinator, tabs, owner runtime and page

Composes the coordinator's actions with the two FIFO directions of each port,
the iframe (`byok-runtime.ts`: which message makes it owner or follower, when
it starts a runtime, what `pagehide` posts), the owner runtime's operation
queue, and the page that issues calls and takes answers. The message listener
of the owner's runtime only exists once the Gateway is up, so a call posted
earlier is dropped, as `sharedOwnerMessageListener?.()` does. The Gateway is
external: a wizard with at most one live session, which takes an answer,
refuses a start while a session lives, and forgets the session when it is
cancelled; any call may fail. A wizard that is done keeps its last result, as
the coordinator does: that the Gateway would then take a new start is left out,
because the coordinator answers every later start from its snapshot. `Crashes` lets a tab die
without `pagehide`; `RpcTimeouts` lets a served call be reported as failed,
which is what the 130 s deadline of `runGatewayRpc` does. The page's own 135 s
timeout is not modelled: it fires after the host's and only changes the page's
display.

### `ByokBroker`: one capability of the hosted broker

The Durable Object's storage is one record; `held` is the JavaScript object a
suspended handler still refers to, `pc` where it is suspended, `gate` who keeps
every other event out. An action is one stretch of a handler between two awaits
at which another event may run:

- a storage operation keeps the input gate closed, so reading and writing back
  without a foreign await in between is one step (reservation, first check);
- a poll (lines 286-293) and a credential refresh (lines 778-785) are inside
  `blockConcurrencyWhile`: the gate stays theirs over their fetches, and what
  follows runs before the next event;
- a revocation awaits a digest between reading and writing: other events may
  come between, which the model allows although a digest is usually immediate;
- reservation and refresh are two gates one after the other; the model lets an
  event in between, the alarm included, because the code itself provides for
  the record to be gone then (`latest ?? reserved`, line 780);
- creation writes the record and then sets the alarm, two awaited operations,
  between which the object may stop (`Evict`).

`Evict` stands for an eviction, a deployment or the runtime's reset of an object
whose gate was held too long: memory and open requests are lost, storage and
alarm survive. The clock moves at any time, inside a handler too. The
authorization server accepts only the refresh token it issued last, may replace
it at each refresh, and its answer may be lost. Refused requests change nothing
and are no step. Secrets, validation and header rewriting are abstracted to
accept or refuse; the byte limit of the response stream is left out.

### `SnapshotStore`, `OpfsStore`: the promise of the directory store, and the store

`SnapshotStore` is what the store promises: one saved tree, replaced whole by a
save, delivered whole or not at all by a load. `OpfsStore` is the code: entries
appear empty and get their contents when the writable is closed, the tree is
read entry by entry in sorted order, the manifest follows and HEAD comes last;
a restore reads HEAD, the manifest, then file after file, verifying each. Any
operation may reject, the document may vanish between two, several clients may
be in the middle of commits and restores, entries may be damaged and the whole
store evicted. A hash is the value it is taken of. `StoreIsAtomic` says that
`OpfsStore` implements `SnapshotStore`: the save happens when HEAD is closed,
and the snapshot is the tree that HEAD names. What was damaged below HEAD is
still the snapshot, but no load delivers it. The saved tree is compared with the
client's at that moment, so the refinement also needs that nothing changes the
tree during a commit. The code does not ensure that: a program may write its
tree at any time (`ChangeTree` has no guard), and it is the store's contract
with its callers, in `StoreNext`, that it does not. That `GatewayBoot` keeps the
contract is proved (`BootsUseTheStore`), and a Gateway started beside the save
breaks it.

### `GatewayBoot`: what a document does before and around its Gateway

Extends `OpfsStore` by `runProbe`: one step per await that decides how the boot
goes on, for an onboarding runtime, a proof with `restoreStore`, and both phases
of the persistence probe, with or without the Web Lock. A failed restore falls
back to a fresh Directory, an install is a sequence of scripts that may fail
half way, the state is inspected, configured, saved and only then handed to a
Gateway, which writes to it for ever after, at any moment. What scripts and Gateway do inside
is external, as is which kind of content they write.

### `HttpBridge`: the mailbox of the model calls

Both sides of the Directory: the guest's temporary write, rename, poll and
deadline, and the page's listing, read, forward, write and removal. Files
written by the page are torn between creation and close; operations reject; the
listing is stale while it is worked through; `stop` may come anywhere.

### `GatewayConfig`: the Gateway's operation queue and configuration

What a booted owner does with the operations `SharedRuntime` hands it: the queue,
the files of `runGatewayRpc`, the guest's single-threaded bridge with its
connection, and each await of `configureOpenClawCapability` – inspect, patch,
verify, restart, and the probes for an active model. The page's file operations
may reject, the guest may fail to unlink a request (the bridge swallows that,
line 142, and its next poll runs the request again), and the instance of a
loopback guest need never come up. The Gateway, which writes its own settings
meanwhile and goes away to restart, and the configuration library are external.
Of the library nothing is assumed: a patch is read, merged and then written, and
the Gateway may write in between. The conflict guard that the docs name is
not relied on.

### `Onboarding`: the page

The page's async functions are chains, of which several run at once; a step is
what one does from one await to the next, composed of the page's own functions
(`FinishCredential`, `HandleWizardResult`, `RecoverDisconnectedRuntime`...). The
runtime behind the frame is an abstraction of the two modules above: it accepts
or refuses, may answer late, lose an answer whose effect took place, or be
replaced by another tab's, also after a recovery: the epoch lies in
`localStorage`, where another tab finds it. Each readiness resumes the Wizard in
a chain of its own, beside an earlier one that has not ended. The Worker issues
and revokes capabilities.

### `ProviderBroker`, `Release`, `ReleasePipeline`: from the proof to the visitor

`ProviderBroker` steps through the handlers' accesses to shared state in
`main.rs`, which threads interleave. `Release` has the two scripts step by step
on the files of one working copy, the multipart upload, and the Worker's
serving; a manifest is modelled by the builds whose source commit, run,
evidence and artifacts it names, which a careless operator can mix up. A digest
stands for its build. `RequireEvidence` asks for the nine results that
`requireEvidence` compares, and for the commit and the run of the evidence.
`ReleasePipeline` composes them: the workflow's first job records any of
`BaseReports` (the seven results that other jobs establish), each build's proof
runs a broker of its own, the test sends one more call after the revocation, and
what it saw completes the evidence `prepare` requires.

The `MC*` modules give the constants their values; the operators marked "Slip"
in the modules are faulty forms of the definition that follows them, and nothing
uses them: with one put in its place, the property named in `PROJECT.json`
("mutants") fails.

## Runs

| Run (module) | Shows | Instance |
|---|---|---|
| `shared_dedup` (`MCSharedRuntime`) | every reply matches its call (`RepliesMatchCalls`), an answer reaches a Gateway once (`AnswerAppliedOnce`), followers are answered with the live wizard (`SnapshotIsCurrent`) | 2 tabs, 4 calls (cancels among them), 1 session, 2 answers, a cache of 1 |
| `shared_failures` (`MCSharedRuntime`) | with crashes, host timeouts, cancellation and capability calls: types, consistency of the deduplication state (`CoordinatorInv`), one runtime at a time (`SingleRuntime`) | 2 tabs, 3 calls, 2 sessions |
| `shared_liveness` (`MCSharedRuntime`) | every call is answered while the first owner stays, a promotion ends with a runtime that boots or has booted, readiness reaches every tab | 2 tabs, 4 calls (a start, a repeated next and a cancel), fair |
| `byok_broker` (`MCByokBroker`) | types, budget, final revocation, no call after it, single refresh and guest tokens | 2 callers, 2 pollers, 2 revokers, budget 2, 1 eviction, clock 0..3 |
| `boot_store` (`MCGatewayBoot`) | HEAD never names a half-written generation (`HeadIsComplete`), the store is atomic (`StoreIsAtomic`), Gateways start on one whole installation (`GatewayStartsWhole`), a cache holds no Gateway's writes (`NoLiveStateSaved`), waiting tabs get their turn while boots end (`WaitingTabsBoot`) | 2 documents in 4 pairings, 2 installed files and the configuration, 2 commits, 2 install scripts, 1 damage or closed document |
| `http_bridge` (`MCHttpBridge`) | answers and refusals are the right ones, repetition only after a failure, no response left behind without one; while fetches settle, the mailbox drains and `stop` returns | 2 granted calls and a wrong one, 1 rejecting operation, deadlines and stop anywhere |
| `gateway_config` (`MCGatewayConfig`) | "configured" means active, calls run once but for failed removals, settings survive a patch but for its own write, every operation is answered | an attach, two configures, a Wizard call, 2 probes, 1 setting written, 1 mishap |
| `onboarding` (`MCOnboarding`) | Wizards start with a model, "done" is configured, the page comes to rest while boots end | 2 chains of the user's beside the page's own, a Wizard of 4 steps, 2 capabilities, 2 recoveries, 2 mishaps |
| `release_pipeline` (`MCReleasePipeline`) | broker limits, only proven bytes served, a published plan has its objects | 2 builds, 5 calls per proof, budget 2, any one of seven recorded results missing, 2 parts, 2 isolates, 2 mishaps |
| `shared_stale_ready`, `shared_lost_start` (`MCSharedRuntime`), `byok_unexpired` (`MCByokBroker`) | the disagreements below | smallest that shows them |

Why these bounds are enough.

- *Coordinator.* Two tabs make every role appear: an owner, a follower, a
  joiner, a promoted tab, and a tab that connects while the last one closes.
  Four calls let two answers be sent twice each, which with a cache of one
  reaches the cache's eviction; three calls and two sessions let a call of an
  old session arrive in a new one. For liveness a start, one answer given
  twice and a cancel let the second answer join the first, find it cached, or
  be forgotten with it (`FewCalls`); no call is made once the first owner went.
- *Broker.* Two callers fill a budget of two and, since a caller may call again,
  exceed it if they can; two pollers and two revokers race each other and
  everybody else; with session lifetime 2, device lifetime 1, poll interval 1,
  refresh skew 1 and tokens living 1 or 3 instants, tokens are due at once or
  never, polls are rate limited, and the alarm fires while calls are open.
- *Boot.* Two documents commit, restore and boot in every interleaving; each
  installs contents of its own in two files, so a mixture shows; with the
  configuration three files make a commit and a restore take several steps; two
  commits let a second replace the first
  while it is restored; one mishap may fall between any two steps.
- *HTTP bridge.* Two good calls can be mixed up, a wrong one can slip in, and
  with one failure each file operation fails once, at any point, while the
  loop goes on.
- *Configuration.* The second configure is a retry or another tab's; the setting
  may be written before, in or after the first patch; the mishap is a lost
  connection, an exit, a late answer or a failed file operation in any step.
- *Page.* A key flow and a device flow, or an answer and a revocation, overlap
  with each other and with the resumption after a recovery; the fourth step
  follows the two that are skipped; two mishaps reach a recovery that fails.
- *Release.* Two builds are enough to mix commit, run, evidence and artifacts;
  three calls that would be granted exceed the budget of two; two parts for
  a short completion; two isolates serve different releases at once; two mishaps
  let a prepare and a deploy stop in one history. Builds' proofs come before the
  scripts: they share the evidence only.

Deadlock is not checked in any run, because every one of these systems may stop:
tabs closed, calls answered, documents shut, releases deployed, bounds used up.
Symmetry is used in runs that check safety only.

Some properties carry exceptions, each a behaviour of the code: an answer may be
applied twice after the host gave up on the first call, or after it fell out of
the cache; a snapshot is lost by any attempt to cancel, and after one an answer
may be applied again and a start answered without its session; a broker property ends
with the record's deletion, after which a call that was reserved before goes on
with its own copy; a provider is charged again, and a response left behind,
once for each failed write or removal; a Wizard call runs once more for each
failed removal of its request; a setting written while a patch is being written
may be lost; a Wizard may start bare in a runtime that another tab replaced
after a recovery; and `PublishedIsBacked` speaks of the manifest that belongs to
the plan, see below.

**Fairness.** Always weak fairness of what the code itself drives: event loops,
timers, and operations with a deadline. What has none – a fetch, an install
script, a boot, a program outside the repository – is under no fairness. Where
a promise depends on such a thing ending, the property says so as its premise:

- `SharedRuntime` (`FairSpec`): message delivery on every port, an open page
  asking for its runtime, and every queued operation ending, which is
  `runGatewayRpc`'s deadline. A boot need not end: `PromotionRestoresRuntime`
  says that the promoted owner starts one.
- `GatewayBoot`: the browser grants a free lock. `WaitingTabsBoot` has the premise
  `BootsEnd`: fetches, install scripts (`openclaw-install-lifecycle.ts:93`, `170`)
  and the start of a guest have no deadline, and a boot that hangs in one keeps
  the lock and every tab behind it.
- `HttpBridge`: the page's operations on the Directory, which is in memory,
  settle, and the guest's interval timer fires. `MailboxDrains` and `StopReturns`
  have the premise `FetchesSettle`: the loop awaits a fetch without deadline
  (`byok-http-bridge.ts:192`), and one that hangs keeps later requests and
  `stop` waiting.
- `GatewayConfig`: the page's step, which includes the 130 s deadline, and the
  guest's own steps. The Gateway need never answer or come back.
  `EveryOperationAnswered` has the premise that no loopback guest stays in its
  instantiation for ever, which has no deadline either.
- `Onboarding`: each request posted to the runtime is answered or its timer
  fires, and a reconnect's delay passes. Neither boots nor the Worker's answers
  are fair. `PageComesToRest` has the premise `BootsEnd`: the page has no timer for
  a boot, so behind one that hangs, or behind an owner that crashed and is never
  replaced, it shows its spinner.

## Disagreements found

- `shared_stale_ready`: `chooseOwner` returns before resetting `readyMessage`
  when no port is left (`openclaw-shared-worker.ts:113`). A tab that is already
  connecting becomes the owner and is told that the closed tab's Gateway is
  ready.
- `shared_lost_start`: a `wizard.start` forwarded to a promoted owner that is
  still booting is dropped by the owner, while the coordinator keeps
  `wizardStartInFlight`; every later start joins it and waits for ever, even
  once the new Gateway is ready (`openclaw-shared-worker.ts:326`).
- `byok_unexpired`: the broker stores the record before it sets the alarm. If the
  object stops in between, the record, provider key included, is never deleted,
  although `docs/byok-onboarding.md:78` says that expiry deletes it. Its
  `expiresAt` still keeps it from being used.

Behaviours the models contain that a maintainer may want to know of; properties
are stated around them:

- *Release.* `prepare` copies the new manifest before it writes the plan
  (`prepare-cloudflare-deploy.mjs:306`). If it fails in between, `validatePlan`
  compares the two manifest files with each other only, so with the same SDK
  `deploy` uploads the old plan's objects and publishes the new manifest, whose
  artifacts answer 404 until the next deployment. Without its condition
  `published' = plan`, `PublishedIsBacked` is violated by this history, in which
  the proofs still hold: nothing unproven is served.
- *Release.* The edge cache's key is the release name, not the digest, so two
  builds must not share a name; the model gives every build its own.
- *Coordinator.* The worker forgets snapshot, session and cached answers when a
  `wizard.cancel` is answered, even with an error
  (`openclaw-shared-worker.ts:206`). The Gateway's session is then still live: the
  next accepted answer leaves a snapshot without a session, a later start is
  answered from it without `sessionId`, and a repeated answer may be applied
  again. No page sends `wizard.cancel` today.
- *Configuration.* The poll loop removes a response before it looks at it, and
  swallows an error whose text contains "not found"
  (`openclaw-gateway-health-probe.ts:1404`): its caller waits for the deadline.
- *Page.* Back, pressed while an approval's body is read, revokes a capability
  that is then attached: `oauthAttempt` is not compared again after
  `response.json()`. A second credential flow overwrites `capability`, whose
  first holder is then never revoked by the page.
- *Page.* After a promotion `wizardStarted` and `wizardSessionId` name a dead
  session until an answer fails, and a failed `wizard.start` leaves an error
  without a button to retry.
- *Page.* When another tab joins the epoch a recovery rotated to and its
  runtime is replaced in turn, the second readiness finds
  `runtimeRecoveryInProgress` cleared (`byok-onboarding.ts:1229`): the page starts
  the Wizard without attaching its capability again. Without the second
  disjunct of its conclusion, `WizardStartsWithModel` is violated by this.
- *Liveness.* A boot, an install script or a forwarded fetch that hangs is
  noticed by nobody, see "Fairness".
- *Configuration.* A failed unlink of a request is swallowed
  (`openclaw-wizard-rpc-bridge.ts:142`): the Wizard call runs again at the next
  poll.
- *Page.* Recovery rotates the epoch of its own tab only
  (`byok-onboarding.ts:490`): other tabs keep the old coordinator and its
  Gateway.

## Proofs

The proof modules work for every value of the constants under the named
assumptions of the modules (`NoneAssumption`: `None` is no tab, request or
record; `CallAssumption`: nor a call; `MaxCachedAssumption`; `BrokerAssumption`: process sets are disjoint, or
finite, and the durations and bounds are naturals; `ReleaseAssumption`: `None` is
no build, manifest or object, and there is at least one part;
`PipelineAssumption`: the probe after the revocation is well formed, and the
first job records results of its own only;
`StoreAssumption`, `EntryAssumption`: contents, trees and HEADs are none of the
markers for an absent, torn or damaged entry, and bounds are naturals;
`BootAssumption`: the files are those of an installation, the database among
them, and the configuration; no installation writes what a Gateway writes, nor
does the host; `BridgeAssumption` and `ConfigAssumption`: finitely many
calls and operations, of disjoint kinds, and naturals as bounds;
`OnboardingAssumption`: the page's own chain is none of the user's, of which there
are finitely many, the script has a step, and naturals as bounds; the
`NoneAssumption` of `HttpBridge` and `GatewayConfig`: an absent or torn file is no
request, reply or record, and undefined no result).

**`SharedRuntimeProofs`**: first the coordinator alone: `CoordinatorConsistent`, that
`CoordinatorSpec => []CoordinatorInv`, and `CoordinatorTypeCorrect`. The
inductive invariant is `CoordinatorTypeOK /\ CoordinatorInv`. No part of
`CoordinatorInv` is inductive alone: that a response clears the flag of its call
needs that no second request carries the same key, which needs that a duplicate
is recognised, which needs that the key in flight and the cache are disjoint;
and that no waiter is left behind needs that the flag falls only with the
leader. The environment is open; the one thing assumed of it is that a new call
does not reuse an identifier that is still tracked (`~Tracked(c.id)`). Every
handler is a lemma, with one step per conjunct it can disturb.

Then the coordinator among its tabs: that the composition implements it among
arbitrary tabs (`RuntimeImplementsCoordinator`: `Spec => CoordinatorSpec`), hence
`CoordinatorStaysConsistent`; `OneRuntime`, that at most one tab runs the
runtime; and `RuntimeTypeCorrect`; all from `RuntimeInvariant`. The refinement
maps every variable to itself; what it needs is that each call on its way to the
worker has an identifier that nobody tracks (`OperationsAreNew`): the tracked
ones were issued, no identifier is in two messages, and one is tracked only once
its message was taken. `OneRuntime` needs to know what travels on the ports
(`OwnershipIsKnown`): whoever runs the runtime, knows that it is the owner or has
an `owner` message waiting is the worker's owner, and a goodbye is on its way
only from a page that has stopped its runtime. The worker moves ownership on a
goodbye alone, so a crashed tab's runtime is gone and its ownership stays.

**`SharedWizardProofs`**: `RepliesAlwaysMatch`, `AnswersAreTakenOnce` and
`SnapshotStaysCurrent`, from `WizardInvariant`. They relate the coordinator's
memory to a Gateway it hears of only through responses that are still under way,
so the invariant has to say where each call is. A call that was forwarded is on
the port to the owner, in the owner's queue, or on the port back, in one of them
(`WorkIsAwaited`, `WorkIsUnique`); what the worker remembers of a request is what
was called (`Recorded`, `JoinedIsSame`, `KeysAreKept`). A reply matches its call
because a remembered answer is the answer to its key (`CacheIsRight`) and one that
comes from the owner is that of the call which the joined ones repeat.
An answer is not taken again because each one the live session has taken is in
the cache, or its response is still under way, or it is one of the exceptions
(`AnswersAreRemembered`); an answer evicted from a full cache is an exception by
counting: the cached keys are all of that session, distinct, and without it fill
the cache. The snapshot is what the last report under way will make it, or with none
under way is the wizard itself (`SnapshotFollows`), which needs that whoever names
the live session has it from the coordinator (`SessionIsReported`), so that no
call reaches a wizard whose start the coordinator has not heard of; and that a new
owner's Gateway starts with an empty memory on either side (`StartsAfresh`) and a
session nobody has named (`SessionsAreUsed`). Each part has a lemma that a step
keeps it; the parts need each other, in that order.

**`ByokBrokerProofs`**: `RevocationStaysFinal`, `RevokedCallsStop`,
`OneGuestTokenMinted`, `RefreshTokenNotReused`, `BudgetIsKept` and
`BrokerTypeCorrect`, all from `BrokerInvariant`. `BrokerInv` says what a suspended handler may still believe:
whoever is inside the gate is alone there (`GateHeld`) and its copy is the
stored record, or the alarm has deleted that (`CopyIsCurrent`); only the alarm
removes the record (`RecordKept`); a revoked record is empty and an answered
revocation has left one (`RevokedIsEmpty`); a pending record means no guest
token was minted (`TokenAfterAuthorization`); the stored refresh token is the
one the server accepts unless an answer was lost (`RefreshIsCurrent`).
`CopyIsCurrent` is what makes it work: a refresh and a poll write back the whole
record, and the credential they write survives a revocation unless their copy
is the record of the moment. For `BudgetIsKept` the requests served and the calls
on their way together stay within the stored count while the record is neither
revoked nor deleted (`BudgetIsReserved`); a revocation may write an older count
back, which is harmless because nothing is sent with a revoked record.

**`ReleasePipelineProofs`**: first the provider broker alone (`BrokerInvariant`,
`BrokerLimitsHold`). Its limits are not inductive. That one request is charged
at a time holds because the permit has one owner from before the count until the
stream is dropped (`PermitIsOwned`); the budget holds because whatever is
forwarded was counted before, under the permit (`BudgetIsCounted`, which follows
the cardinality of the set of forwarded calls); and a call refused on arrival
stays so (`LateIsRefused`). Then the pipeline: `ServedIsProven`,
`ProofsKeepTheLimits`, `PublishedStaysBacked` and `PipelineTypeCorrect`, from
`PipelineInvariant`. The
Worker never sees the evidence, so that it serves proven bytes only rests on
what led there: each manifest, in whichever file, script or isolate it is, names
the commit, run and artifacts of one build that shows all nine results
(`ManifestsAreProven`); an object holds bytes
of the build its key names, though perhaps too few (`ObjectsAreTheirKeys`); what
is answered or cached was checked against its size (`AnswersAreProven`); and
nothing is prepared before the proofs have ended (`NothingBeforeTheProofs`), so
evidence that was sufficient stays so. `PublishedStaysBacked` adds how far the
running deployment has come (`DeployInv`): after a step that uploads, the object
is whole, and no later step of the same plan makes it short. The broker's lemmas
are used as they are, which is what the composition is for.

**`GatewayBootProofs`**: first the store alone (`StoreInvariant`,
`HeadStaysComplete` and `StoreRefinesSnapshot`), for any number of documents, files and commits.
`HeadIsComplete` is not inductive: HEAD becomes complete by what its commit did
before. `StoreInv` therefore follows each commit through its steps: what it has
listed is what the tree holds, and each file it has written is on disk unless
damaged (`CommitIsOnDisk`); commits in progress write below different
directories, none of them HEAD's (`CommitsApart`), since a generation's name is
its own; and an unused generation is empty (`UnusedIsEmpty`). A restore's tree
equals its manifest on what it has read (`WorkIsSound`). The refinement then
goes step by step: closing HEAD is the save, reading HEAD begins a load, whose
end is the end of the restore; a failure gives the load up, damage to HEAD and
eviction lose the snapshot, and all else changes nothing the callers see.
Then the boots: a boot uses the store only as `OpfsStore` lets it
(`BootsUseTheStore`: `Spec => StoreSpec`), which includes that it never changes
the Directory while a commit or restore of it is under way, so `BootKeepsHeadComplete` and
`BootSeesAtomicStore` follow from the theorems above without another induction.
`GatewaysStartWhole` and `CachePrecedesGateways` need `BootInv`, which follows an
installation around the whole circle: from the scripts that leave it in a
directory, through inspection and configuration to a commit, into each manifest
HEAD may name (`StoredIsSound`), and by a restore into the next document's
directory (`BootIsSound`). `BootTypeCorrect` adds the types; the scripts and
client attempts of a boot stay within their bounds: the former begin at zero and
are reset where a boot ends (`CountsFitBoot`), the latter go on only while some
are left.

**`HttpBridgeProofs`**: `AnswersStayRight`, `ForwardsAreBounded`,
`ResponsesStayCollected` and `BridgeTypeCorrect`, from `BridgeInvariant`. What a
call is told rests on whose files there are: an identifier has one call
(`IdsAreOwn`), each file is of the call its name says (`FilesAreOwn`), and the
reply in the page's hand is for the entry it works on (`InHand`), however stale
its listing. The three bounds "once for each failed operation" are not
inductive, since the damage shows only later. Each is proved of what has
happened together with what is bound to happen: granted calls refused, or with a
refusal written or in hand (`RefusalsAreCounted`); forwards made, plus the calls
that will be forwarded if nothing fails (`ForwardsAreCounted`); responses left
behind, plus those of calls whose request is still there to be answered again
(`LeftoversAreCounted`).

**`GatewayConfigProofs`**: `CallsRunOnce`, `ConfiguredStaysActive`,
`SettingsAreKept` and `ConfigTypeCorrect`, from `ConfigInvariant`. A response file belongs to the call in flight
(`ResponsesAreAwaited`), and a Wizard call is in one place: not sent, in one
request file, or run (`CallIsInOnePlace`), but for the files that could not be
removed, which are counted; so the guest cannot run a call again whose answer
was late. That a tab told "configured" has its model active needs
what a result may say at each step (`AnswerFits`) and that no other model is ever
written (`OneModel`): once loaded, it is not unloaded but by a restart, which
loads it again. An identifier is left for every call because each request given up
has cost a mishap (`IdsSuffice`).

**`OnboardingProofs`**: `WizardNeverStartsBare`, `DoneMeansConfigured` and
`PageTypeCorrect`, from `OnboardingInvariant`. Each of the page's synchronous
functions has a lemma about the page and the wait it returns; a step of a chain
is one of them. What a step shows depends on which runtime the page is at. In
the first, nothing is shown and no capability held until the Wizard has started
(`FirstRuntime`), so its start, which is the readiness's alone (`MainStarts`), is one without a
capability. A later one boots under `runtimeRecoveryInProgress`
(`LaterRuntimes`), so that readiness attaches the capability first, unless another
tab has replaced such a runtime, which the property exempts. A recovery leaves calls under way that a dead
runtime was asked: those that answer the Wizard name a step, and a live session
only while the page has one (`CallsAreOfSession`), so none is taken by the new
runtime.

Only model-checked, not proved: liveness under fairness
(`CallsAreAnswered`, `PromotionRestoresRuntime`, `ReadinessReachesTabs`,
`WaitingTabsBoot`, `MailboxDrains`, `StopReturns`, `EveryOperationAnswered`,
`PageComesToRest`), and anything with `ENABLED`, which the prover does not do.
Statements by induction over data and `RECURSIVE` operators are out of its reach
as well; no module uses `RECURSIVE`.

## Not modelled

- *Relay.* One loop joins a WebSocket to the driver of virtual-net. What can
  block, and in which order frames are answered, is decided by that driver,
  which is not in the repository.
- *Loopback sockets and worker pool.* The patches are fragments of crates that
  are not in the repository; the scheduling around them would be invented.
- *SQLite personality.* Synchronous calls in one thread; transactions are
  SQLite's.
- *Package image and pure algorithms.* Functions without state, which unit
  tests reach.
- *Probe and proof pages, styles, generated schema.* Evidence gathered in a
  straight line, layout and data.
- *Within modelled parts.* Formats, wording, validation of shapes (accept or
  refuse), byte limits of streams, headers; `--dry-run` and `--skip-upload`;
  `verify-cloudflare-deployment.mjs`, which only reads; two coordinators at
  once, as after a recovery in one of two tabs. The internals of Edge.js, Wasmer
  and OpenClaw are external to this repository.

## Plan

Done: coordinator, shared runtime, hosted broker; store and boot; HTTP bridge;
configuration; page; provider broker and release.

Every safety property that a run checks is a theorem; the liveness properties
remain with TLC.
