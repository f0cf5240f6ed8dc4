--------------------------- MODULE ReleasePipeline ---------------------------
(***************************************************************************)
(* From the proof of a build to its visitors.  The self-hosted proof         *)
(* (scripts/run-self-hosted-proof.mjs and the browser test it starts) runs   *)
(* a broker for each build: the guest calls the model through it, then the   *)
(* test revokes the capability and sends one more call, which must be        *)
(* refused.  The workflow joins what it saw to what its first job recorded   *)
(* of the build; without all of it prepare writes nothing.                   *)
(*                                                                          *)
(* Bound: a proof runs to its end before the scripts are started; between    *)
(* proofs and scripts nothing is shared but the evidence.                    *)
(***************************************************************************)
EXTENDS ProviderBroker, Release

CONSTANTS
  Probe,         \* the call sent after the revocation was answered
  BaseReports    \* what the workflow's first job may have recorded as passed

ASSUME PipelineAssumption ==
  /\ Probe \in WellFormed
  /\ BaseReports \subseteq SUBSET BaseGate

VARIABLES
  unproven,    \* builds whose proof has not been run
  proving      \* the build whose proof is running

pipelineVars == <<unproven, proving>>
vars == <<brokerVars, releaseVars, pipelineVars>>

TypeOK ==
  /\ BrokerTypeOK
  /\ ReleaseTypeOK
  /\ unproven \subseteq Build
  /\ proving \in Build \cup {None}

Init ==
  /\ BrokerInit
  /\ ReleaseInit
  /\ unproven = Build
  /\ proving = None

-----------------------------------------------------------------------------
BeginProof(b) ==
  /\ proving = None /\ b \in unproven
  /\ proving' = b
  /\ unproven' = unproven \ {b}
  /\ UNCHANGED <<brokerVars, releaseVars>>

\* The test sends its last call when the revocation has been answered.
ProofStep ==
  /\ proving # None
  /\ \/ \E c \in Call : (c = Probe => revoked) /\ HandleCall(c)
     \/ RevokeCapability
     \/ Expire
  /\ UNCHANGED <<releaseVars, pipelineVars>>

Shown ==
  (IF \E c \in Call \ {Probe} : at[c] = "served"
   THEN {"selfHostedAgentTurn"} ELSE {})
  \cup (IF Probe \in late THEN {"revocation"} ELSE {})

\* The test may fail at any point; the broker is then terminated with it.
EndProof ==
  /\ proving # None
  /\ \E base \in BaseReports :
       evidence' = [evidence EXCEPT ![proving] = base \cup Shown]
  /\ proving' = None
  /\ at' = [c \in Call |-> "unsent"]
  /\ permit' = TRUE
  /\ requestCount' = 0
  /\ revoked' = FALSE /\ expired' = FALSE
  /\ late' = {} /\ forwarded' = {}
  /\ UNCHANGED <<manifest, dist, plan, script, object, uploader, published,
                 loaded, cache, response, mishaps, unproven>>

ProofsDone == proving = None /\ unproven = {}

ReleaseStep == ProofsDone /\ ReleaseNext /\ UNCHANGED <<brokerVars, pipelineVars>>

Next ==
  \/ \E b \in Build : BeginProof(b)
  \/ ProofStep
  \/ EndProof
  \/ ReleaseStep

Spec == Init /\ [][Next]_vars

-----------------------------------------------------------------------------
\* Whatever an operator mixes up, a script leaves half done or R2 completes
\* short, the bytes the Worker answers with, now or later out of the edge
\* cache, are a whole artifact of a build whose evidence shows every result
\* that requireEvidence asks for, and the manifest visitors get names the
\* commit, run, evidence and artifacts of one such build.
OnlyProvenIsServed ==
  /\ \A answer \in {response} \cup {cache[k] : k \in Build \X File} :
       answer # None => /\ answer.size = "whole"
                        /\ evidence[answer.of] = Gate
  /\ published # None =>
       \E b \in Build : /\ evidence[b] = Gate
                        /\ published = [source |-> b, run |-> b, proof |-> b,
                                        artifacts |-> b]

\* When wrangler deploy publishes the manifest of the plan it was started with,
\* both artifacts that it names are whole in R2 and the temporary uploader is
\* gone, wherever earlier runs failed or were stopped.  (It can publish another
\* manifest: that of a preparation that failed after copying it to dist.)
PublishedIsBacked ==
  [][published' # published /\ published' = plan
       => /\ \A f \in File : /\ object[<<plan.artifacts, f>>] # None
                             /\ object[<<plan.artifacts, f>>].size = "whole"
          /\ ~uploader]_vars
=============================================================================
