------------------------------- MODULE Release -------------------------------
(***************************************************************************)
(* How a build gets from its evidence to the visitors' browsers:             *)
(* scripts/prepare-cloudflare-deploy.mjs writes a manifest, the static       *)
(* bundle and an upload plan, scripts/deploy-cloudflare.mjs uploads the two  *)
(* large artifacts and publishes the Worker, and worker/index.mjs serves     *)
(* them from R2 and the edge cache.  The scripts share the files of one      *)
(* working copy; each may be stopped, or fail, between any two steps.        *)
(*                                                                          *)
(* A build stands for its source commit, its proof run and the digests of    *)
(* everything it produced.  A manifest names the builds whose commit, run,   *)
(* evidence and artifacts it carries: prepare must see that they are one.    *)
(*                                                                          *)
(* Left out: one release name for two builds (the operator gives each build  *)
(* its own), evidence of another schema version, local artifacts changing    *)
(* while they are uploaded, --dry-run and --skip-upload, and the Worker's    *)
(* answers that carry no artifact bytes.                                    *)
(***************************************************************************)
EXTENDS Naturals

CONSTANTS
  Build,
  None,
  Parts,       \* 64 MiB parts of the OpenClaw image, which is above 300 MiB
  Isolate,     \* instances of the Worker
  MaxMishaps   \* failures and interruptions explored

ASSUME ReleaseAssumption ==
  /\ None \notin Build
  /\ None \notin [source : Build, run : Build, proof : Build, artifacts : Build]
  /\ None \notin [of : Build, size : {"whole", "short"}]
  /\ Parts \in Nat \ {0}
  /\ MaxMishaps \in Nat

VARIABLES
  evidence,    \* the gates each build's evidence shows as passed
  manifest,    \* .cloudflare/runtime-manifest.json
  dist,        \* dist/: its copy of the manifest, the Wasmer SDK it bundles
  plan,        \* .cloudflare/upload-plan.json
  script,      \* the script that is running, and what it holds
  object,      \* R2, by digest and file name
  uploader,    \* the temporary R2 uploader Worker is deployed
  published,   \* the manifest among the static assets of the live Worker
  loaded,      \* manifestPromise of each isolate
  cache,       \* the edge cache, by release and file name
  response,    \* the artifact bytes last answered with
  mishaps

releaseVars == <<evidence, manifest, dist, plan, script, object, uploader,
                 published, loaded, cache, response, mishaps>>

File == {"edgejs", "openclaw"}

\* What the evidence of a build must show: the first job of the workflow
\* records BaseGate, the proof with the self-hosted model the other two.
BaseGate == {"edgeReproducibility", "browserExecutorReproducibility",
             "browser", "persistentState", "healthRpc", "agentTurn",
             "workspaceToolTurn"}
Gate == BaseGate \cup {"selfHostedAgentTurn", "revocation"}

Manifest == [source : Build, run : Build, proof : Build, artifacts : Build]

\* What a reader of an object or of the cache gets: the file of a build.
Bytes == [of : Build, size : {"whole", "short"}]

Idle == [step |-> "idle", for |-> None, sdk |-> None, part |-> 0]

ReleaseTypeOK ==
  /\ evidence \in [Build -> SUBSET Gate]
  /\ manifest \in Manifest \cup {None}
  /\ dist \in [manifest : Manifest \cup {None}, sdk : Build \cup {None}]
  /\ plan \in Manifest \cup {None}
  /\ script \in [step : {"idle", "build", "copy", "check", "put", "uploader",
                         "parts", "delete", "abandon", "publish"},
                 for : Manifest \cup {None},
                 sdk : Build \cup {None},
                 part : 0 .. Parts]
  /\ object \in [Build \X File -> Bytes \cup {None}]
  /\ uploader \in BOOLEAN
  /\ published \in Manifest \cup {None}
  /\ loaded \in [Isolate -> Manifest \cup {None}]
  /\ cache \in [Build \X File -> Bytes \cup {None}]
  /\ response \in Bytes \cup {None}
  /\ mishaps \in 0 .. MaxMishaps

ReleaseInit ==
  /\ evidence = [b \in Build |-> {}]
  /\ manifest = None /\ plan = None /\ published = None
  /\ dist = [manifest |-> None, sdk |-> None]
  /\ script = Idle
  /\ object = [k \in Build \X File |-> None]
  /\ uploader = FALSE
  /\ loaded = [w \in Isolate |-> None]
  /\ cache = [k \in Build \X File |-> None]
  /\ response = None
  /\ mishaps = 0

-----------------------------------------------------------------------------
storeVars == <<object, uploader>>
workerVars == <<published, loaded, cache, response>>

Mishap == mishaps < MaxMishaps /\ mishaps' = mishaps + 1

Advance(step) == script' = [script EXCEPT !.step = step]

(***************************************************************************)
(* scripts/prepare-cloudflare-deploy.mjs                                    *)
(***************************************************************************)
\* Slip: the status of the tool turn is left out of the comparison.
RequireSomeEvidence(e, c, u) ==
  Gate \ {"workspaceToolTurn"} \subseteq evidence[e] /\ c = e /\ u = e

RequireEvidence(e, c, u) == evidence[e] = Gate /\ c = e /\ u = e

\* The operator names the evidence e, a source commit c, the URL of a proof run
\* u, and the directory i with the two artifacts and an SDK s.  Wrong evidence
\* or artifacts are refused before anything is written.
Prepare(e, c, u, i, s) ==
  /\ script = Idle
  /\ RequireEvidence(e, c, u)
  /\ i = e
  /\ manifest' = [source |-> c, run |-> u, proof |-> e, artifacts |-> i]
  /\ script' = [step |-> "build", for |-> manifest', sdk |-> s, part |-> 0]
  /\ UNCHANGED <<evidence, dist, plan, mishaps, storeVars, workerVars>>

\* npm run build empties dist and bundles the SDK.
RunBuild ==
  /\ script.step = "build"
  /\ dist' = [manifest |-> None, sdk |-> script.sdk]
  /\ Advance("copy")
  /\ UNCHANGED <<evidence, manifest, plan, mishaps, storeVars, workerVars>>

CopyManifest ==
  /\ script.step = "copy"
  /\ dist' = [dist EXCEPT !.manifest = manifest]
  /\ Advance("check")
  /\ UNCHANGED <<evidence, manifest, plan, mishaps, storeVars, workerVars>>

\* The bundle must hold the Wasmer runtime the evidence names.
BundleIsProven == dist.sdk = script.for.proof

WritePlan ==
  /\ script.step = "check"
  /\ IF BundleIsProven THEN plan' = script.for ELSE UNCHANGED plan
  /\ script' = Idle
  /\ UNCHANGED <<evidence, manifest, dist, mishaps, storeVars, workerVars>>

-----------------------------------------------------------------------------
(***************************************************************************)
(* scripts/deploy-cloudflare.mjs and worker/r2-uploader.mjs                 *)
(***************************************************************************)
ValidatePlan ==
  /\ plan # None
  /\ dist.manifest = manifest
  /\ dist.sdk = plan.proof

Deploy ==
  /\ script = Idle
  /\ ValidatePlan
  /\ script' = [step |-> "put", for |-> plan, sdk |-> None, part |-> 0]
  /\ UNCHANGED <<evidence, manifest, dist, plan, mishaps, storeVars, workerVars>>

Store(f, size) ==
  LET b == script.for.artifacts IN
  object' = [object EXCEPT ![<<b, f>>] = [of |-> b, size |-> size]]

PutRegular ==
  /\ script.step = "put"
  /\ Store("edgejs", "whole")
  /\ Advance("uploader")
  /\ UNCHANGED <<evidence, manifest, dist, plan, uploader, mishaps, workerVars>>

DeployUploader ==
  /\ script.step = "uploader"
  /\ uploader' = TRUE
  /\ Advance("parts")
  /\ UNCHANGED <<evidence, manifest, dist, plan, object, mishaps, workerVars>>

\* Slip: the loop runs for offset <= artifact.bytes.
UploadPartBeyond ==
  /\ script.step = "parts" /\ script.part <= Parts
  /\ script' = [script EXCEPT !.part = @ + 1]
  /\ UNCHANGED <<evidence, manifest, dist, plan, mishaps, storeVars, workerVars>>

UploadPart ==
  /\ script.step = "parts" /\ script.part < Parts
  /\ script' = [script EXCEPT !.part = @ + 1]
  /\ UNCHANGED <<evidence, manifest, dist, plan, mishaps, storeVars, workerVars>>

CanComplete == script.step = "parts" /\ script.part = Parts

\* Slip: the size R2 reports for the completed object is not compared.
CompleteUnchecked ==
  /\ CanComplete
  /\ \/ Store("openclaw", "whole") /\ UNCHANGED mishaps
     \/ Store("openclaw", "short") /\ Mishap
  /\ Advance("delete")
  /\ UNCHANGED <<evidence, manifest, dist, plan, uploader, workerVars>>

\* An object that R2 completes short is under its key all the same: the abort
\* that follows no longer finds the upload.
Complete ==
  /\ CanComplete
  /\ \/ Store("openclaw", "whole") /\ Advance("delete") /\ UNCHANGED mishaps
     \/ Store("openclaw", "short") /\ Advance("abandon") /\ Mishap
  /\ UNCHANGED <<evidence, manifest, dist, plan, uploader, workerVars>>

\* A part or the completion fails: the upload is aborted.
AbortUpload ==
  /\ script.step = "parts"
  /\ Mishap
  /\ Advance("abandon")
  /\ UNCHANGED <<evidence, manifest, dist, plan, storeVars, workerVars>>

\* finally: the uploader is deleted whether the upload succeeded or not.
DeleteUploader ==
  /\ script.step \in {"delete", "abandon"}
  /\ uploader' = FALSE
  /\ script' = IF script.step = "delete"
               THEN [script EXCEPT !.step = "publish"]
               ELSE Idle
  /\ UNCHANGED <<evidence, manifest, dist, plan, object, mishaps, workerVars>>

\* wrangler deploy takes the manifest that is in dist, not the plan's.
Publish ==
  /\ script.step = "publish"
  /\ published' = dist.manifest
  /\ script' = Idle
  /\ UNCHANGED <<evidence, manifest, dist, plan, mishaps, storeVars, loaded,
                 cache, response>>

\* A command of either script fails, or the operator stops it.  "abandon" and
\* "delete" end here when the deletion of the uploader fails.
ScriptStops ==
  /\ script # Idle
  /\ Mishap
  /\ script' = Idle
  /\ UNCHANGED <<evidence, manifest, dist, plan, storeVars, workerVars>>

-----------------------------------------------------------------------------
(***************************************************************************)
(* worker/index.mjs                                                         *)
(***************************************************************************)
LoadRuntimeManifest(w) ==
  /\ loaded[w] = None /\ published # None
  /\ loaded' = [loaded EXCEPT ![w] = published]
  /\ UNCHANGED <<evidence, manifest, dist, plan, script, storeVars, published,
                 cache, response, mishaps>>

RecycleIsolate(w) ==
  /\ loaded[w] # None
  /\ loaded' = [loaded EXCEPT ![w] = None]
  /\ UNCHANGED <<evidence, manifest, dist, plan, script, storeVars, published,
                 cache, response, mishaps>>

ServeFromCache(w, f) ==
  /\ loaded[w] # None
  /\ cache[<<loaded[w].proof, f>>] # None
  /\ response' = cache[<<loaded[w].proof, f>>]
  /\ UNCHANGED <<evidence, manifest, dist, plan, script, storeVars, published,
                 loaded, cache, mishaps>>

\* A missing object is a 404 and one of another size a 500.  A complete answer
\* to a GET is cached, that to a range request is not.
ServeRuntimeArtifact(w, f) ==
  LET m == loaded[w] IN
  /\ m # None
  /\ object[<<m.artifacts, f>>] # None
  /\ object[<<m.artifacts, f>>].size = "whole"
  /\ response' = object[<<m.artifacts, f>>]
  /\ cache' \in {cache, [cache EXCEPT ![<<m.proof, f>>] = response']}
  /\ UNCHANGED <<evidence, manifest, dist, plan, script, storeVars, published,
                 loaded, mishaps>>

CacheForgets(k) ==
  /\ cache[k] # None
  /\ cache' = [cache EXCEPT ![k] = None]
  /\ UNCHANGED <<evidence, manifest, dist, plan, script, storeVars, published,
                 loaded, response, mishaps>>

WorkerStep(w) ==
  \/ LoadRuntimeManifest(w)
  \/ RecycleIsolate(w)
  \/ \E f \in File : ServeFromCache(w, f) \/ ServeRuntimeArtifact(w, f)

PrepareStep ==
  \/ \E e, c, u, i, s \in Build : Prepare(e, c, u, i, s)
  \/ RunBuild \/ CopyManifest \/ WritePlan

DeployStep ==
  \/ Deploy \/ PutRegular \/ DeployUploader
  \/ UploadPart \/ Complete \/ AbortUpload
  \/ DeleteUploader \/ Publish

ReleaseNext ==
  \/ PrepareStep
  \/ DeployStep
  \/ ScriptStops
  \/ \E w \in Isolate : WorkerStep(w)
  \/ \E k \in Build \X File : CacheForgets(k)
=============================================================================
