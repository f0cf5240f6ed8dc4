----------------------- MODULE ReleasePipelineProofs -----------------------
(***************************************************************************)
(* What a visitor gets is proven, for any number of builds, isolates, parts  *)
(* and mishaps.  OnlyProvenIsServed is not inductive: the Worker does not    *)
(* see the evidence.  It holds because every manifest, in whichever file,    *)
(* script or isolate it is, names proven artifacts, because an object in R2  *)
(* holds the bytes its key names, and because nothing is prepared before     *)
(* the proofs have ended.                                                   *)
(***************************************************************************)
EXTENDS ReleasePipeline, TLAPS, FiniteSetTheorems

(***************************************************************************)
(* The provider broker by itself, for any number of racing calls and any     *)
(* --max-requests.  Its three limits are not inductive: the permit is one    *)
(* request's because it is taken before the count and kept by the stream,    *)
(* and the budget holds because every request that is forwarded was counted  *)
(* first.                                                                    *)
(***************************************************************************)
Holding(c) == at[c] \in {"permitted", "executing", "streaming"}

\* The semaphore's permit is free or one handler, or its stream, has it.
PermitIsOwned ==
  /\ \A c, d \in Call : Holding(c) /\ Holding(d) => c = d
  /\ permit => \A c \in Call : ~Holding(c)

BudgetIsCounted ==
  /\ IsFiniteSet(forwarded)
  /\ Cardinality(forwarded) <= requestCount
  /\ Cardinality(forwarded) <= MaxRequests

\* A call refused on arrival stays refused; one that was forwarded has arrived.
LateIsRefused ==
  /\ \A c \in late : at[c] = "refused"
  /\ \A c \in forwarded : at[c] # "unsent"
  /\ late \cap forwarded = {}

IInv == BrokerTypeOK /\ PermitIsOwned /\ BudgetIsCounted /\ LateIsRefused

USE DEF InProgress, Settled

-----------------------------------------------------------------------------
LEMMA TypeInit == BrokerInit => BrokerTypeOK
<1> SUFFICES ASSUME BrokerInit PROVE BrokerTypeOK
  OBVIOUS
<1>1. at \in [Call -> {"unsent"} \cup InProgress \cup Settled]
  BY DEF BrokerInit
<1>2. permit \in BOOLEAN /\ revoked \in BOOLEAN /\ expired \in BOOLEAN
  BY Zenon DEF BrokerInit
<1>3. requestCount \in Nat /\ late \subseteq Call /\ forwarded \subseteq Call
  BY DEF BrokerInit
<1> QED
  BY <1>1, <1>2, <1>3, Zenon DEF BrokerTypeOK

LEMMA InvInit == BrokerInit => IInv
<1> SUFFICES ASSUME BrokerInit PROVE IInv
  OBVIOUS
<1>1. BrokerTypeOK
  BY TypeInit
<1>2. PermitIsOwned
  BY DEF BrokerInit, PermitIsOwned, Holding
<1>3. BudgetIsCounted
  BY FS_EmptySet, BrokerAssumption DEF BrokerInit, BudgetIsCounted
<1>4. LateIsRefused
  BY DEF BrokerInit, LateIsRefused
<1> QED
  BY <1>1, <1>2, <1>3, <1>4 DEF IInv

\* A count that is taken under the permit bounds what is forwarded.
LEMMA OneMore ==
  ASSUME NEW S, NEW x, IsFiniteSet(S), NEW n \in Nat, Cardinality(S) <= n
  PROVE  IsFiniteSet(S \cup {x}) /\ Cardinality(S \cup {x}) <= n + 1
<1>1. Cardinality(S) \in Nat
  BY FS_CardinalityType
<1>2. /\ IsFiniteSet(S \cup {x})
      /\ \/ Cardinality(S \cup {x}) = Cardinality(S)
         \/ Cardinality(S \cup {x}) = Cardinality(S) + 1
  BY FS_AddElement
<1> QED
  BY <1>1, <1>2

-----------------------------------------------------------------------------
LEMMA CallKeepsInv ==
  ASSUME IInv, NEW c \in Call, HandleCall(c)
  PROVE  IInv'
<1> USE DEF IInv, BrokerTypeOK, Goto
<1>1. CASE Arrive(c)
  <2>1. BrokerTypeOK'
    BY <1>1 DEF Arrive
  <2>2. PermitIsOwned'
    BY <1>1 DEF Arrive, PermitIsOwned, Holding
  <2>3. BudgetIsCounted'
    BY <1>1 DEF Arrive, BudgetIsCounted
  <2>4. LateIsRefused'
    BY <1>1 DEF Arrive, LateIsRefused
  <2> QED
    BY <2>1, <2>2, <2>3, <2>4
<1>2. CASE Acquire(c)
  <2>1. BrokerTypeOK'
    BY <1>2 DEF Acquire
  <2>2. PermitIsOwned'
    BY <1>2 DEF Acquire, PermitIsOwned, Holding
  <2>3. BudgetIsCounted'
    BY <1>2 DEF Acquire, BudgetIsCounted
  <2>4. LateIsRefused'
    BY <1>2 DEF Acquire, LateIsRefused
  <2> QED
    BY <2>1, <2>2, <2>3, <2>4
<1>3. CASE Count(c)
  <2>1. BrokerTypeOK'
    <3>1. at' \in [Call -> {"unsent"} \cup InProgress \cup Settled]
      BY <1>3 DEF Count
    <3>2. permit' \in BOOLEAN
      BY <1>3, Zenon DEF Count
    <3>3. revoked' \in BOOLEAN /\ expired' \in BOOLEAN
      BY <1>3, Zenon DEF Count
    <3>4. requestCount' \in Nat
      BY <1>3 DEF Count
    <3>5. late' \subseteq Call /\ forwarded' \subseteq Call
      BY <1>3 DEF Count
    <3> QED
      BY <3>1, <3>2, <3>3, <3>4, <3>5, Zenon DEF BrokerTypeOK
  <2>2. PermitIsOwned'
    BY <1>3 DEF Count, PermitIsOwned, Holding
  <2>3. BudgetIsCounted'
    <3>1. CASE Granted(c, requestCount + 1)
      <4>1. /\ forwarded' = forwarded \cup {c}
            /\ requestCount' = requestCount + 1
            /\ requestCount + 1 <= MaxRequests
        BY <1>3, <3>1 DEF Count, Granted
      <4>2. /\ IsFiniteSet(forwarded \cup {c})
            /\ Cardinality(forwarded \cup {c}) <= requestCount + 1
        BY OneMore DEF BudgetIsCounted
      <4>3. Cardinality(forwarded \cup {c}) \in Nat
        BY <4>2, FS_CardinalityType
      <4> QED
        BY <4>1, <4>2, <4>3, BrokerAssumption DEF BudgetIsCounted
    <3>2. CASE ~Granted(c, requestCount + 1)
      <4>1. forwarded' = forwarded /\ requestCount' = requestCount + 1
        BY <1>3, <3>2 DEF Count
      <4>2. Cardinality(forwarded) \in Nat
        BY FS_CardinalityType DEF BudgetIsCounted
      <4> QED
        BY <4>1, <4>2 DEF BudgetIsCounted
    <3> QED
      BY <3>1, <3>2
  <2>4. LateIsRefused'
    BY <1>3 DEF Count, LateIsRefused
  <2> QED
    BY <2>1, <2>2, <2>3, <2>4
<1>4. CASE UpstreamResponds(c)
  <2>1. BrokerTypeOK'
    BY <1>4 DEF UpstreamResponds
  <2>2. PermitIsOwned'
    BY <1>4 DEF UpstreamResponds, PermitIsOwned, Holding
  <2>3. BudgetIsCounted'
    BY <1>4 DEF UpstreamResponds, BudgetIsCounted
  <2>4. LateIsRefused'
    BY <1>4 DEF UpstreamResponds, LateIsRefused
  <2> QED
    BY <2>1, <2>2, <2>3, <2>4
<1>5. CASE UpstreamFails(c) \/ StreamEnds(c)
  <2>1. BrokerTypeOK'
    BY <1>5 DEF UpstreamFails, StreamEnds
  <2>2. PermitIsOwned'
    BY <1>5 DEF UpstreamFails, StreamEnds, PermitIsOwned, Holding
  <2>3. BudgetIsCounted'
    BY <1>5 DEF UpstreamFails, StreamEnds, BudgetIsCounted
  <2>4. LateIsRefused'
    BY <1>5 DEF UpstreamFails, StreamEnds, LateIsRefused
  <2> QED
    BY <2>1, <2>2, <2>3, <2>4
<1> QED
  BY <1>1, <1>2, <1>3, <1>4, <1>5 DEF HandleCall

LEMMA StepKeepsInv == IInv /\ [BrokerNext]_brokerVars => IInv'
<1> SUFFICES ASSUME IInv, [BrokerNext]_brokerVars PROVE IInv'
  OBVIOUS
<1>1. ASSUME NEW c \in Call, HandleCall(c) PROVE IInv'
  BY <1>1, CallKeepsInv
<1>2. CASE RevokeCapability \/ Expire \/ UNCHANGED brokerVars
  <2> USE <1>2 DEF RevokeCapability, Expire, brokerVars, IInv
  <2>1. BrokerTypeOK'
    BY DEF BrokerTypeOK
  <2>2. PermitIsOwned'
    BY DEF PermitIsOwned, Holding
  <2>3. BudgetIsCounted'
    BY DEF BudgetIsCounted
  <2>4. LateIsRefused'
    BY DEF LateIsRefused
  <2> QED
    BY <2>1, <2>2, <2>3, <2>4
<1> QED
  BY <1>1, <1>2 DEF BrokerNext

LEMMA InvImpliesLimits == IInv => BrokerHoldsItsLimits
BY DEF IInv, PermitIsOwned, Holding, BudgetIsCounted, LateIsRefused,
       BrokerHoldsItsLimits, Charging

-----------------------------------------------------------------------------
\* The permit is owned, the budget counted and a late call refused in every
\* state of the broker.
THEOREM BrokerInvariant == BrokerSpec => []IInv
<1> QED
  BY InvInit, StepKeepsInv, PTL DEF BrokerSpec

\* chat_completions: racing calls exceed neither the permit nor the budget, and
\* none that arrives after the capability has ended is forwarded.
THEOREM BrokerLimitsHold == BrokerSpec => []BrokerHoldsItsLimits
<1> QED
  BY BrokerInvariant, InvImpliesLimits, PTL

-----------------------------------------------------------------------------
(***************************************************************************)
(* The release.                                                             *)
(***************************************************************************)
\* ReleaseTypeOK without its Boolean variable.
ReleaseData ==
  /\ evidence \in [Build -> SUBSET Gate]
  /\ manifest \in Manifest \cup {None}
  /\ dist \in [manifest : Manifest \cup {None}, sdk : Build \cup {None}]
  /\ plan \in Manifest \cup {None}
  /\ script \in [step : {"idle", "build", "copy", "check", "put", "uploader",
                         "parts", "delete", "abandon", "publish"},
                 for : Manifest \cup {None},
                 sdk : Build \cup {None},
                 part : 0 .. Parts]
  /\ object \in [Build \X File -> Bytes \cup {None}]
  /\ published \in Manifest \cup {None}
  /\ loaded \in [Isolate -> Manifest \cup {None}]
  /\ cache \in [Build \X File -> Bytes \cup {None}]
  /\ response \in Bytes \cup {None}
  /\ mishaps \in 0 .. MaxMishaps

Sound(m) ==
  m # None => /\ m.source = m.proof /\ m.run = m.proof /\ m.artifacts = m.proof
              /\ evidence[m.proof] = Gate

ManifestsAreProven ==
  /\ Sound(manifest) /\ Sound(dist.manifest) /\ Sound(plan)
  /\ Sound(script.for) /\ Sound(published)
  /\ \A w \in Isolate : Sound(loaded[w])

ScriptHasItsBuild == script.step # "idle" => script.for # None

ObjectsAreTheirKeys ==
  \A b \in Build, f \in File :
    object[<<b, f>>] # None => object[<<b, f>>].of = b

Proven(bytes) ==
  bytes # None => bytes.size = "whole" /\ evidence[bytes.of] = Gate

AnswersAreProven ==
  /\ Proven(response)
  /\ \A k \in Build \X File : Proven(cache[k])

ReleaseInv ==
  /\ ReleaseData
  /\ ScriptHasItsBuild
  /\ ManifestsAreProven
  /\ ObjectsAreTheirKeys
  /\ AnswersAreProven

NothingBeforeTheProofs ==
  ~ProofsDone =>
    /\ manifest = None /\ dist.manifest = None /\ plan = None
    /\ script.for = None /\ published = None
    /\ \A w \in Isolate : loaded[w] = None
    /\ response = None
    /\ \A k \in Build \X File : cache[k] = None

ProofData == unproven \subseteq Build /\ proving \in Build \cup {None}

-----------------------------------------------------------------------------
LEMMA InitRelease == ReleaseInit => ReleaseInv
<1> SUFFICES ASSUME ReleaseInit PROVE ReleaseInv
  OBVIOUS
<1> USE DEF ReleaseInit
<1>1. ReleaseData
  BY ReleaseAssumption DEF ReleaseData, Idle
<1>2. ManifestsAreProven
  BY DEF ManifestsAreProven, Sound, Idle
<1>3. ObjectsAreTheirKeys
  BY DEF ObjectsAreTheirKeys
<1>4. AnswersAreProven
  BY DEF AnswersAreProven, Proven
<1>5. ScriptHasItsBuild
  BY DEF ScriptHasItsBuild, Idle
<1> QED
  BY <1>1, <1>2, <1>3, <1>4, <1>5 DEF ReleaseInv

-----------------------------------------------------------------------------
\* The scripts.
LEMMA PrepareKeepsData ==
  ASSUME ReleaseData, PrepareStep
  PROVE  ReleaseData'
<1> USE DEF ReleaseData, Manifest, storeVars, workerVars, Advance, Idle
<1>1. ASSUME NEW e \in Build, NEW c \in Build, NEW u \in Build,
             NEW i \in Build, NEW s \in Build, Prepare(e, c, u, i, s)
      PROVE  ReleaseData'
  BY <1>1, ReleaseAssumption DEF Prepare
<1>2. CASE RunBuild
  BY <1>2 DEF RunBuild
<1>3. CASE CopyManifest
  BY <1>3 DEF CopyManifest
<1>4. CASE WritePlan
  BY <1>4, ReleaseAssumption DEF WritePlan
<1> QED
  BY <1>1, <1>2, <1>3, <1>4 DEF PrepareStep

LEMMA PrepareKeepsInv ==
  ASSUME ReleaseInv, PrepareStep
  PROVE  ReleaseInv'
<1> USE DEF ReleaseInv
<1>1. ReleaseData'
  BY PrepareKeepsData
<1>2. UNCHANGED <<evidence, object, published, loaded, cache, response>>
  BY DEF PrepareStep, Prepare, RunBuild, CopyManifest, WritePlan, storeVars,
         workerVars
<1>3. ManifestsAreProven'
  <2> USE <1>2 DEF ManifestsAreProven, Sound
  <2>1. ASSUME NEW e \in Build, NEW c \in Build, NEW u \in Build,
               NEW i \in Build, NEW s \in Build, Prepare(e, c, u, i, s)
        PROVE  ManifestsAreProven'
    BY <2>1 DEF Prepare, RequireEvidence
  <2>2. CASE RunBuild
    BY <2>2 DEF RunBuild, Advance, ReleaseData
  <2>3. CASE CopyManifest
    BY <2>3 DEF CopyManifest, Advance, ReleaseData
  <2>4. CASE WritePlan
    BY <2>4 DEF WritePlan, Idle
  <2> QED
    BY <2>1, <2>2, <2>3, <2>4 DEF PrepareStep
<1>4. ObjectsAreTheirKeys' /\ AnswersAreProven'
  BY <1>2 DEF ObjectsAreTheirKeys, AnswersAreProven, Proven
<1>5. ScriptHasItsBuild'
  <2> USE ReleaseAssumption DEF ScriptHasItsBuild, ReleaseData, Manifest
  <2>1. ASSUME NEW e \in Build, NEW c \in Build, NEW u \in Build,
               NEW i \in Build, NEW s \in Build, Prepare(e, c, u, i, s)
        PROVE  ScriptHasItsBuild'
    BY <2>1 DEF Prepare
  <2>2. CASE RunBuild \/ CopyManifest
    BY <2>2 DEF RunBuild, CopyManifest, Advance
  <2>3. CASE WritePlan
    BY <2>3 DEF WritePlan, Idle
  <2> QED
    BY <2>1, <2>2, <2>3 DEF PrepareStep
<1> QED
  BY <1>1, <1>3, <1>4, <1>5

LEMMA DeployKeepsData ==
  ASSUME ReleaseData, ScriptHasItsBuild, DeployStep
  PROVE  ReleaseData'
<1> USE ReleaseAssumption DEF ReleaseData, Manifest, File, storeVars,
        workerVars, Advance, Idle
<1>1. CASE Deploy
  BY <1>1 DEF Deploy, ValidatePlan
<1>2. ASSUME script.for # None
      PROVE  script.for.artifacts \in Build
  BY <1>2
<1>3. ASSUME NEW f \in File, NEW size \in {"whole", "short"}, Store(f, size),
             script.for # None
      PROVE  object' \in [Build \X File -> Bytes \cup {None}]
  BY <1>2, <1>3 DEF Store, Bytes
<1>4. CASE DeployUploader
  BY <1>4 DEF DeployUploader
<1>5. CASE UploadPart
  BY <1>5 DEF UploadPart
<1>6. CASE AbortUpload
  BY <1>6 DEF AbortUpload, Mishap
<1>7. CASE DeleteUploader
  BY <1>7 DEF DeleteUploader
<1>8. CASE Publish
  BY <1>8 DEF Publish
<1>9. CASE PutRegular /\ script.for # None
  <2>1. object' \in [Build \X File -> Bytes \cup {None}]
    BY <1>3, <1>9 DEF PutRegular
  <2>2. script' \in [step : {"idle", "build", "copy", "check", "put",
                             "uploader", "parts", "delete", "abandon",
                             "publish"},
                     for : Manifest \cup {None},
                     sdk : Build \cup {None},
                     part : 0 .. Parts]
    BY <1>9 DEF PutRegular
  <2> QED
    BY <1>9, <2>1, <2>2 DEF PutRegular
<1>10. CASE Complete /\ script.for # None
  <2>1. object' \in [Build \X File -> Bytes \cup {None}]
    BY <1>3, <1>10 DEF Complete
  <2>2. script' \in [step : {"idle", "build", "copy", "check", "put",
                             "uploader", "parts", "delete", "abandon",
                             "publish"},
                     for : Manifest \cup {None},
                     sdk : Build \cup {None},
                     part : 0 .. Parts]
    BY <1>10 DEF Complete
  <2>3. mishaps' \in 0 .. MaxMishaps
    BY <1>10 DEF Complete, Mishap
  <2> QED
    BY <1>10, <2>1, <2>2, <2>3 DEF Complete
<1>11. PutRegular \/ Complete => script.for # None
  BY DEF ScriptHasItsBuild, PutRegular, Complete, CanComplete
<1> QED
  BY <1>1, <1>4, <1>5, <1>6, <1>7, <1>8, <1>9, <1>10, <1>11 DEF DeployStep

LEMMA DeployKeepsInv ==
  ASSUME ReleaseInv, DeployStep
  PROVE  ReleaseInv'
<1> USE DEF ReleaseInv
<1>1. ReleaseData'
  BY DeployKeepsData
<1>2. UNCHANGED <<evidence, manifest, dist, plan, loaded, cache, response>>
  BY DEF DeployStep, Deploy, PutRegular, DeployUploader, UploadPart, Complete,
         AbortUpload, DeleteUploader, Publish, storeVars, workerVars
<1>3. script'.for \in {script.for, plan, None}
  BY DEF DeployStep, Deploy, PutRegular, DeployUploader, UploadPart, Complete,
         AbortUpload, DeleteUploader, Publish, Advance, Idle, ReleaseData
<1>4. published' \in {published, dist.manifest}
  BY DEF DeployStep, Deploy, PutRegular, DeployUploader, UploadPart, Complete,
         AbortUpload, DeleteUploader, Publish, workerVars
<1>5. ManifestsAreProven'
  BY <1>2, <1>3, <1>4 DEF ManifestsAreProven, Sound
<1>6. AnswersAreProven'
  BY <1>2 DEF AnswersAreProven, Proven
<1>7. ScriptHasItsBuild'
  <2> USE DEF ScriptHasItsBuild, ReleaseData
  <2>1. CASE Deploy
    BY <2>1 DEF Deploy, ValidatePlan
  <2>2. CASE DeleteUploader \/ Publish
    BY <2>2 DEF DeleteUploader, Publish, Idle
  <2>3. CASE PutRegular \/ Complete \/ DeployUploader \/ AbortUpload
    BY <2>3 DEF PutRegular, Complete, CanComplete, DeployUploader, AbortUpload,
                Advance
  <2>4. CASE UploadPart
    BY <2>4 DEF UploadPart
  <2> QED
    BY <2>1, <2>2, <2>3, <2>4 DEF DeployStep
<1>8. ObjectsAreTheirKeys'
  <2>1. ASSUME NEW f \in File, NEW size \in {"whole", "short"}, Store(f, size)
        PROVE  ObjectsAreTheirKeys'
    BY <2>1 DEF Store, ObjectsAreTheirKeys, ReleaseData
  <2>2. CASE PutRegular \/ Complete
    BY <2>1, <2>2 DEF PutRegular, Complete, File
  <2>3. CASE ~PutRegular /\ ~Complete
    BY <2>3 DEF DeployStep, Deploy, DeployUploader, UploadPart, AbortUpload,
                DeleteUploader, Publish, storeVars, ObjectsAreTheirKeys
  <2> QED
    BY <2>2, <2>3
<1> QED
  BY <1>1, <1>5, <1>6, <1>7, <1>8

\* The Worker, the edge cache, and a script that stops.
LEMMA WorkerKeepsInv ==
  ASSUME ReleaseInv, NEW w \in Isolate, WorkerStep(w)
  PROVE  ReleaseInv'
<1> USE DEF ReleaseInv
<1>1. UNCHANGED <<evidence, manifest, dist, plan, script, object, published,
                  mishaps>>
  BY DEF WorkerStep, LoadRuntimeManifest, RecycleIsolate, ServeFromCache,
         ServeRuntimeArtifact, storeVars
<1>2. ObjectsAreTheirKeys' /\ ScriptHasItsBuild'
  BY <1>1 DEF ObjectsAreTheirKeys, ScriptHasItsBuild
<1>3. CASE LoadRuntimeManifest(w) \/ RecycleIsolate(w)
  <2>1. ReleaseData'
    BY <1>1, <1>3 DEF ReleaseData, LoadRuntimeManifest, RecycleIsolate
  <2>2. ManifestsAreProven'
    BY <1>1, <1>3 DEF ReleaseData, ManifestsAreProven, Sound,
                      LoadRuntimeManifest, RecycleIsolate
  <2>3. AnswersAreProven'
    BY <1>1, <1>3 DEF AnswersAreProven, Proven, LoadRuntimeManifest,
                      RecycleIsolate
  <2> QED
    BY <1>2, <2>1, <2>2, <2>3
<1>4. ASSUME NEW f \in File, ServeFromCache(w, f)
      PROVE  ReleaseInv'
  <2>1. <<loaded[w].proof, f>> \in Build \X File
    BY <1>4 DEF ServeFromCache, ReleaseData, Manifest
  <2>2. ReleaseData'
    BY <1>1, <1>4, <2>1 DEF ReleaseData, ServeFromCache
  <2>3. ManifestsAreProven'
    BY <1>1, <1>4 DEF ManifestsAreProven, Sound, ServeFromCache
  <2>4. AnswersAreProven'
    BY <1>1, <1>4, <2>1 DEF AnswersAreProven, Proven, ServeFromCache
  <2> QED
    BY <1>2, <2>2, <2>3, <2>4
<1>5. ASSUME NEW f \in File, ServeRuntimeArtifact(w, f)
      PROVE  ReleaseInv'
  <2> DEFINE b == loaded[w].artifacts
  <2>1. b \in Build /\ loaded[w].proof \in Build
    BY <1>5 DEF ServeRuntimeArtifact, ReleaseData, Manifest
  <2>2. evidence[b] = Gate
    BY <1>5 DEF ServeRuntimeArtifact, ManifestsAreProven, Sound
  <2>3. /\ response' = object[<<b, f>>]
        /\ object[<<b, f>>] # None
        /\ object[<<b, f>>].size = "whole"
        /\ \/ cache' = cache
           \/ cache' = [cache EXCEPT ![<<loaded[w].proof, f>>] = response']
    BY <1>5 DEF ServeRuntimeArtifact
  <2>4. response' \in Bytes \cup {None}
    BY <2>1, <2>3 DEF ReleaseData
  <2>5. Proven(response)'
    BY <1>1, <2>1, <2>2, <2>3 DEF Proven, ObjectsAreTheirKeys
  <2>6. cache' \in [Build \X File -> Bytes \cup {None}]
    BY <2>1, <2>3, <2>4 DEF ReleaseData
  <2>7. ReleaseData'
    BY <1>1, <1>5, <2>4, <2>6 DEF ReleaseData, ServeRuntimeArtifact
  <2>8. ManifestsAreProven'
    BY <1>1, <1>5 DEF ManifestsAreProven, Sound, ServeRuntimeArtifact
  <2>9. AnswersAreProven'
    BY <1>1, <2>3, <2>5 DEF AnswersAreProven, Proven, ReleaseData
  <2> QED
    BY <1>2, <2>7, <2>8, <2>9
<1> QED
  BY <1>3, <1>4, <1>5 DEF WorkerStep

LEMMA ReleaseKeepsInv ==
  ASSUME ReleaseInv, ReleaseNext
  PROVE  ReleaseInv'
<1>1. ASSUME NEW k \in Build \X File, CacheForgets(k)
      PROVE  ReleaseInv'
  <2> USE <1>1 DEF ReleaseInv, CacheForgets, storeVars
  <2>1. ReleaseData'
    BY DEF ReleaseData
  <2>2. ManifestsAreProven' /\ ObjectsAreTheirKeys' /\ ScriptHasItsBuild'
    BY DEF ManifestsAreProven, Sound, ObjectsAreTheirKeys, ScriptHasItsBuild
  <2>3. AnswersAreProven'
    BY DEF AnswersAreProven, Proven, ReleaseData
  <2> QED
    BY <2>1, <2>2, <2>3
<1>2. CASE ScriptStops
  <2> USE <1>2, ReleaseAssumption DEF ReleaseInv, ScriptStops, storeVars,
          workerVars, Idle
  <2>1. ReleaseData'
    BY DEF ReleaseData, Mishap
  <2>2. ManifestsAreProven' /\ ObjectsAreTheirKeys' /\ ScriptHasItsBuild'
    BY DEF ManifestsAreProven, Sound, ObjectsAreTheirKeys, ScriptHasItsBuild
  <2>3. AnswersAreProven'
    BY DEF AnswersAreProven, Proven
  <2> QED
    BY <2>1, <2>2, <2>3
<1> QED
  BY <1>1, <1>2, PrepareKeepsInv, DeployKeepsInv, WorkerKeepsInv
     DEF ReleaseNext

-----------------------------------------------------------------------------
\* The pipeline.
PipelineInv ==
  /\ IInv
  /\ ReleaseInv
  /\ ProofData
  /\ NothingBeforeTheProofs

LEMMA PipelineInit == Init => PipelineInv
<1> SUFFICES ASSUME Init PROVE PipelineInv
  OBVIOUS
<1>1. IInv /\ ReleaseInv
  BY InvInit, InitRelease DEF Init
<1>2. ProofData
  BY DEF Init, ProofData
<1>3. NothingBeforeTheProofs
  BY DEF Init, ReleaseInit, NothingBeforeTheProofs, Idle
<1> QED
  BY <1>1, <1>2, <1>3 DEF PipelineInv

LEMMA ReleaseFrame ==
  ASSUME ReleaseInv, UNCHANGED releaseVars
  PROVE  ReleaseInv'
<1> USE DEF releaseVars, ReleaseInv
<1>1. ReleaseData'
  BY DEF ReleaseData
<1>2. ManifestsAreProven' /\ ObjectsAreTheirKeys' /\ ScriptHasItsBuild'
  BY DEF ManifestsAreProven, Sound, ObjectsAreTheirKeys, ScriptHasItsBuild
<1>3. AnswersAreProven'
  BY DEF AnswersAreProven, Proven
<1> QED
  BY <1>1, <1>2, <1>3

LEMMA EarlyFrame ==
  ASSUME NothingBeforeTheProofs, UNCHANGED releaseVars, ~ProofsDone
  PROVE  NothingBeforeTheProofs'
BY DEF NothingBeforeTheProofs, releaseVars

LEMMA PipelineStep == PipelineInv /\ [Next]_vars => PipelineInv'
<1> SUFFICES ASSUME PipelineInv, [Next]_vars PROVE PipelineInv'
  OBVIOUS
<1> USE DEF PipelineInv
<1>1. ASSUME NEW b \in Build, BeginProof(b)
      PROVE  PipelineInv'
  <2> USE <1>1 DEF BeginProof
  <2>1. IInv'
    BY StepKeepsInv
  <2>2. ReleaseInv'
    BY ReleaseFrame
  <2>3. ProofData'
    BY DEF ProofData
  <2>4. NothingBeforeTheProofs'
    BY EarlyFrame DEF ProofsDone
  <2> QED
    BY <2>1, <2>2, <2>3, <2>4
<1>2. CASE ProofStep
  <2> USE <1>2 DEF ProofStep, pipelineVars
  <2>1. IInv'
    BY StepKeepsInv DEF BrokerNext
  <2>2. ReleaseInv'
    BY ReleaseFrame
  <2>3. ProofData'
    BY DEF ProofData
  <2>4. NothingBeforeTheProofs'
    BY EarlyFrame DEF ProofsDone
  <2> QED
    BY <2>1, <2>2, <2>3, <2>4
<1>3. CASE EndProof
  <2>1. BrokerInit'
    BY <1>3 DEF EndProof, BrokerInit
  <2>2. IInv'
    BY <2>1, InvInit, PTL
  <2>3. proving \in Build /\ ~ProofsDone
    BY <1>3 DEF EndProof, ProofData, ProofsDone
  <2>4. UNCHANGED <<manifest, dist, plan, script, object, uploader, published,
                    loaded, cache, response, mishaps>>
    BY <1>3 DEF EndProof
  <2>5. ReleaseData'
    <3>1. Shown \in SUBSET Gate
      BY DEF Shown, Gate
    <3>2. PICK base \in BaseReports :
            evidence' = [evidence EXCEPT ![proving] = base \cup Shown]
      BY <1>3 DEF EndProof
    <3>3. base \cup Shown \in SUBSET Gate
      <4>1. base \in SUBSET BaseGate
        BY PipelineAssumption
      <4> QED
        BY <3>1, <4>1 DEF Gate
    <3>4. evidence' \in [Build -> SUBSET Gate]
      BY <2>3, <3>2, <3>3 DEF ReleaseInv, ReleaseData
    <3> QED
      BY <2>4, <3>4 DEF ReleaseInv, ReleaseData
  <2>6. NothingBeforeTheProofs'
    BY <2>3, <2>4 DEF NothingBeforeTheProofs
  <2>7. ManifestsAreProven' /\ AnswersAreProven'
    BY <2>3, <2>4 DEF NothingBeforeTheProofs, ManifestsAreProven, Sound,
                      AnswersAreProven, Proven
  <2>8. ObjectsAreTheirKeys' /\ ScriptHasItsBuild'
    BY <2>4 DEF ReleaseInv, ObjectsAreTheirKeys, ScriptHasItsBuild
  <2>9. ProofData'
    BY <1>3 DEF EndProof, ProofData
  <2> QED
    BY <2>2, <2>5, <2>6, <2>7, <2>8, <2>9 DEF ReleaseInv
<1>4. CASE ReleaseStep
  <2> USE <1>4 DEF ReleaseStep, pipelineVars
  <2>1. IInv'
    BY StepKeepsInv
  <2>2. ReleaseInv'
    BY ReleaseKeepsInv
  <2>3. ProofData' /\ ProofsDone'
    BY DEF ProofData, ProofsDone
  <2> QED
    BY <2>1, <2>2, <2>3 DEF NothingBeforeTheProofs
<1>5. CASE UNCHANGED vars
  <2> USE <1>5 DEF vars, pipelineVars
  <2>1. IInv'
    BY StepKeepsInv
  <2>2. ReleaseInv'
    BY ReleaseFrame
  <2>3. ProofData'
    BY DEF ProofData
  <2>4. NothingBeforeTheProofs'
    BY DEF NothingBeforeTheProofs, ProofsDone, releaseVars
  <2> QED
    BY <2>1, <2>2, <2>3, <2>4
<1> QED
  BY <1>1, <1>2, <1>3, <1>4, <1>5 DEF Next

LEMMA ProvenWhenServed == ReleaseInv => OnlyProvenIsServed
<1> SUFFICES ASSUME ReleaseInv PROVE OnlyProvenIsServed
  OBVIOUS
<1>1. \A answer \in {response} \cup {cache[k] : k \in Build \X File} :
        answer # None => answer.size = "whole" /\ evidence[answer.of] = Gate
  BY DEF ReleaseInv, AnswersAreProven, Proven
<1>2. ASSUME published # None
      PROVE  \E b \in Build :
               /\ evidence[b] = Gate
               /\ published = [source |-> b, run |-> b, proof |-> b,
                               artifacts |-> b]
  <2>1. published \in Manifest /\ Sound(published)
    BY <1>2 DEF ReleaseInv, ReleaseData, ManifestsAreProven
  <2>2. published.proof \in Build /\ evidence[published.proof] = Gate
    BY <1>2, <2>1 DEF Manifest, Sound
  <2>3. published = [source |-> published.proof, run |-> published.proof,
                     proof |-> published.proof, artifacts |-> published.proof]
    BY <1>2, <2>1 DEF Manifest, Sound
  <2> QED
    BY <2>2, <2>3
<1> QED
  BY <1>1, <1>2 DEF OnlyProvenIsServed

-----------------------------------------------------------------------------
\* Every manifest names proven artifacts and every object the bytes of its key,
\* in every state of the pipeline.
THEOREM PipelineInvariant == Spec => []PipelineInv
<1> QED
  BY PipelineInit, PipelineStep, PTL DEF Spec

\* worker/index.mjs: whatever was mixed up, interrupted or completed short
\* before, an answer is a whole artifact of a build whose evidence shows every
\* result of requireEvidence, and the live manifest is that of one such build.
THEOREM ServedIsProven == Spec => []OnlyProvenIsServed
<1> QED
  BY PipelineInvariant, ProvenWhenServed, PTL DEF PipelineInv

\* chat_completions: the broker of each proof keeps its limits.
THEOREM ProofsKeepTheLimits == Spec => []BrokerHoldsItsLimits
<1> QED
  BY PipelineInvariant, InvImpliesLimits, PTL DEF PipelineInv

-----------------------------------------------------------------------------
\* What the deployment that is running has done so far.
IsWhole(f) ==
  /\ object[<<plan.artifacts, f>>] # None
  /\ object[<<plan.artifacts, f>>].size = "whole"

Deploying ==
  script.step \in {"put", "uploader", "parts", "delete", "abandon", "publish"}

DeployInv ==
  /\ Deploying => script.for = plan
  /\ script.step \in {"uploader", "parts", "delete", "abandon", "publish"}
       => IsWhole("edgejs")
  /\ script.step \in {"delete", "publish"} => IsWhole("openclaw")
  /\ script.step = "publish" => ~uploader

LEMMA DeployInit == ReleaseInit => DeployInv
BY DEF ReleaseInit, DeployInv, Deploying, Idle

LEMMA StoredIsWhole ==
  ASSUME ReleaseInv, DeployInv, Deploying, NEW f \in File,
         NEW size \in {"whole", "short"}, Store(f, size), UNCHANGED plan
  PROVE  /\ size = "whole" => IsWhole(f)'
         /\ \A g \in File \ {f} : IsWhole(g) => IsWhole(g)'
<1>1. script.for = plan /\ plan # None
  BY DEF DeployInv, Deploying, ReleaseInv, ScriptHasItsBuild
<1>2. plan.artifacts \in Build
  BY <1>1 DEF ReleaseInv, ReleaseData, Manifest
<1>3. object' = [object EXCEPT ![<<plan.artifacts, f>>] =
                   [of |-> plan.artifacts, size |-> size]]
  BY <1>1 DEF Store
<1>4. [of |-> plan.artifacts, size |-> size] # None
  BY <1>2, ReleaseAssumption
<1>5. object'[<<plan.artifacts, f>>] = [of |-> plan.artifacts, size |-> size]
  BY <1>2, <1>3 DEF ReleaseInv, ReleaseData
<1>6. \A g \in File \ {f} :
        object'[<<plan.artifacts, g>>] = object[<<plan.artifacts, g>>]
  BY <1>2, <1>3 DEF ReleaseInv, ReleaseData
<1> QED
  BY <1>4, <1>5, <1>6 DEF IsWhole

LEMMA DeployStepKeeps ==
  ASSUME ReleaseInv, DeployInv, DeployStep
  PROVE  DeployInv'
<1>1. script \in [step : {"idle", "build", "copy", "check", "put", "uploader",
                         "parts", "delete", "abandon", "publish"},
                 for : Manifest \cup {None},
                 sdk : Build \cup {None},
                 part : 0 .. Parts]
  BY DEF ReleaseInv, ReleaseData
<1>2. UNCHANGED plan
  BY DEF DeployStep, Deploy, PutRegular, DeployUploader, UploadPart, Complete,
         AbortUpload, DeleteUploader, Publish
<1>3. CASE Deploy
  BY <1>3 DEF Deploy, DeployInv, Deploying
<1>4. CASE PutRegular
  <2>1. Deploying /\ Store("edgejs", "whole")
    BY <1>4 DEF PutRegular, Deploying
  <2>2. IsWhole("edgejs")'
    BY <1>2, <2>1, StoredIsWhole DEF File
  <2>3. script' = [script EXCEPT !.step = "uploader"]
    BY <1>4 DEF PutRegular, Advance
  <2> QED
    BY <1>1, <1>2, <2>1, <2>2, <2>3 DEF DeployInv, Deploying
<1>5. CASE Complete
  <2>1. Deploying /\ IsWhole("edgejs")
    BY <1>5 DEF Complete, CanComplete, Deploying, DeployInv
  <2>2. CASE Store("openclaw", "whole") /\ Advance("delete")
    <3>1. IsWhole("openclaw")' /\ IsWhole("edgejs")'
      BY <1>2, <2>1, <2>2, StoredIsWhole DEF File
    <3> QED
      BY <1>1, <1>2, <2>1, <2>2, <3>1 DEF DeployInv, Deploying, Advance
  <2>3. CASE Store("openclaw", "short") /\ Advance("abandon")
    <3>1. IsWhole("edgejs")'
      BY <1>2, <2>1, <2>3, StoredIsWhole DEF File
    <3> QED
      BY <1>1, <1>2, <2>1, <2>3, <3>1 DEF DeployInv, Deploying, Advance
  <2> QED
    BY <1>5, <2>2, <2>3 DEF Complete
<1>6. CASE DeployUploader \/ AbortUpload
  BY <1>1, <1>6 DEF DeployUploader, AbortUpload, DeployInv, Deploying, IsWhole,
                    Advance, storeVars
<1>7. CASE UploadPart
  BY <1>1, <1>7 DEF UploadPart, DeployInv, Deploying, IsWhole, storeVars
<1>8. CASE DeleteUploader
  BY <1>1, <1>8 DEF DeleteUploader, DeployInv, Deploying, IsWhole, Idle
<1>9. CASE Publish
  BY <1>9 DEF Publish, DeployInv, Deploying, Idle
<1> QED
  BY <1>3, <1>4, <1>5, <1>6, <1>7, <1>8, <1>9 DEF DeployStep

LEMMA DeployFrame ==
  ASSUME DeployInv, UNCHANGED <<plan, script, object, uploader>>
  PROVE  DeployInv'
BY DEF DeployInv, Deploying, IsWhole

LEMMA DeployInvKept ==
  ASSUME PipelineInv, DeployInv, [Next]_vars
  PROVE  DeployInv'
<1>1. CASE ReleaseStep
  <2>1. CASE PrepareStep
    BY <2>1 DEF PrepareStep, Prepare, RunBuild, CopyManifest, WritePlan,
                Advance, Idle, DeployInv, Deploying, PipelineInv, ReleaseInv,
                ReleaseData
  <2>2. CASE DeployStep
    BY <2>2, DeployStepKeeps DEF PipelineInv
  <2>3. CASE ScriptStops
    BY <2>3 DEF ScriptStops, Idle, DeployInv, Deploying
  <2>4. ASSUME NEW w \in Isolate, WorkerStep(w) PROVE DeployInv'
    BY <2>4, DeployFrame DEF WorkerStep, LoadRuntimeManifest, RecycleIsolate,
       ServeFromCache, ServeRuntimeArtifact, storeVars
  <2>5. ASSUME NEW k \in Build \X File, CacheForgets(k) PROVE DeployInv'
    BY <2>5, DeployFrame DEF CacheForgets, storeVars
  <2> QED
    BY <1>1, <2>1, <2>2, <2>3, <2>4, <2>5 DEF ReleaseStep, ReleaseNext
<1>2. CASE ~ReleaseStep
  <2>1. UNCHANGED <<plan, script, object, uploader>>
    BY <1>2 DEF Next, BeginProof, ProofStep, EndProof, vars, releaseVars
  <2> QED
    BY <2>1, DeployFrame
<1> QED
  BY <1>1, <1>2

LEMMA PublishIsBacked ==
  ASSUME PipelineInv, DeployInv, [Next]_vars, published' # published,
         published' = plan
  PROVE  /\ \A f \in File : IsWhole(f)
         /\ ~uploader
<1>1. Publish
  BY DEF Next, BeginProof, ProofStep, EndProof, ReleaseStep, ReleaseNext,
         PrepareStep, Prepare, RunBuild, CopyManifest, WritePlan,
         DeployStep, Deploy, PutRegular, DeployUploader, UploadPart, Complete,
         AbortUpload, DeleteUploader, ScriptStops, WorkerStep,
         LoadRuntimeManifest, RecycleIsolate, ServeFromCache,
         ServeRuntimeArtifact, CacheForgets, workerVars, vars, releaseVars
<1> QED
  BY <1>1 DEF Publish, DeployInv, File

\* deploy-cloudflare.mjs: what a deployment publishes of its plan is whole in
\* R2, after any earlier runs, and the temporary uploader is gone.
THEOREM PublishedStaysBacked == Spec => PublishedIsBacked
<1>1. Init => DeployInv
  BY DeployInit DEF Init
<1>2. PipelineInv /\ DeployInv /\ [Next]_vars => DeployInv'
  BY DeployInvKept
<1>3. PipelineInv /\ DeployInv /\ [Next]_vars
        => [published' # published /\ published' = plan
              => /\ \A f \in File : /\ object[<<plan.artifacts, f>>] # None
                                    /\ object[<<plan.artifacts, f>>].size = "whole"
                 /\ ~uploader]_vars
  BY PublishIsBacked DEF IsWhole
<1> QED
  BY <1>1, <1>2, <1>3, PipelineInvariant, PTL DEF Spec, PublishedIsBacked

LEMMA UploaderIsBoolean ==
  ASSUME uploader \in BOOLEAN, [Next]_vars
  PROVE  uploader' \in BOOLEAN
<1>1. uploader' \in {uploader, TRUE, FALSE}
  BY DEF Next, BeginProof, ProofStep, EndProof, ReleaseStep, ReleaseNext,
         PrepareStep, Prepare, RunBuild, CopyManifest, WritePlan,
         DeployStep, Deploy, PutRegular, DeployUploader, UploadPart, Complete,
         AbortUpload, DeleteUploader, Publish, ScriptStops, WorkerStep,
         LoadRuntimeManifest, RecycleIsolate, ServeFromCache,
         ServeRuntimeArtifact, CacheForgets, storeVars, vars, releaseVars
<1> QED
  BY <1>1, Zenon

\* The broker, the files, the scripts, R2, the isolates and the cache keep
\* their types.
THEOREM PipelineTypeCorrect == Spec => []TypeOK
<1>1. Init => uploader \in BOOLEAN
  BY Zenon DEF Init, ReleaseInit
<1>2. uploader \in BOOLEAN /\ [Next]_vars => (uploader \in BOOLEAN)'
  BY UploaderIsBoolean
<1>3. PipelineInv /\ uploader \in BOOLEAN => TypeOK
  BY Zenon DEF PipelineInv, IInv, ReleaseInv, ReleaseData, ProofData, TypeOK,
               ReleaseTypeOK
<1> QED
  BY <1>1, <1>2, <1>3, PipelineInvariant, PTL DEF Spec
=============================================================================
