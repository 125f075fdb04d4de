----------------------------- MODULE SandboxPlan -----------------------------
(***************************************************************************)
(* What the sandbox runner decides without touching anything: whether a    *)
(* command may run, what a sandbox profile amounts to on this runner, the  *)
(* launch plan, and the ConfigMap and Job a launch plan becomes.           *)
(***************************************************************************)
EXTENDS ExecutionProfile

CONSTANT
    SandboxConfig   \* AppState: switches, allowed binaries, backends, roots

NoRecord == [kind |-> "absent"]
TornFile == [kind |-> "torn"]

-----------------------------------------------------------------------------
(* Commands.                                                               *)

\* parse_command_value: no words when the value is not a command.
ParseCommand(value) == IF value.valid THEN value.words ELSE <<>>

PolicyActive(policy) == policy.enabled \/ DOMAIN policy.allowed # {}

\* An argument is a word, or a word with a value assigned to it.
MatchesDenied(arg, denied) ==
    /\ arg.word = denied.word
    /\ arg.assigned = denied.assigned \/ (denied.long /\ ~denied.assigned)

\* validate_command_policy; `record` may be missing when a plan asks.
CommandPolicy(record, policy, command) ==
    PolicyActive(policy) =>
        LET binary == command[1].word
            args == {command[k] : k \in 2..Len(command)}
            tool == policy.allowed[binary]
        IN  /\ binary \notin policy.denied
            /\ binary \in DOMAIN policy.allowed
            /\ tool.subcommands # {} =>
                  Len(command) > 1 /\ command[2].word \in tool.subcommands /\ ~command[2].assigned
            /\ \A arg \in args, denied \in tool.deniedArgs : ~MatchesDenied(arg, denied)
            /\ ~(tool.network /\ record.kind = "whole" /\ record.plan.network = "Disabled")

\* validate_allowed_binary
AllowedBinary(command) == command[1].bare /\ command[1].word \in SandboxConfig.binaries

Approved(req) == ~SandboxConfig.commandApproval \/ req.approved

\* command_plan_inner: the status of a plan.
CommandPlanStatus(record, req) ==
    LET command == ParseCommand(req.command) IN
    CASE record.kind # "whole" -> "workspace_not_found"
      [] record.kind = "whole" /\ command = <<>> -> "invalid_command"
      [] record.kind = "whole" /\ command # <<>> ->
            IF ~CommandPolicy(record, req.policy, command) THEN "tool_policy_denied"
            ELSE IF Approved(req) THEN "ready_for_executor" ELSE "waiting_approval"

\* Mutant: the policy is asked without the workspace's record.
CommandRunStatusNoRecord(record, req) ==
    LET command == ParseCommand(req.command) IN
    IF record.kind # "whole" THEN "workspace_not_found"
    ELSE IF command = <<>> THEN "invalid_command"
    ELSE IF ~CommandPolicy(NoRecord, req.policy, command) THEN "tool_policy_denied"
    ELSE IF ~AllowedBinary(command) THEN "binary_not_allowed"
    ELSE "run"

\* command_run_inner, from the record in hand up to the working directory.
CommandRunStatus(record, req) ==
    LET command == ParseCommand(req.command) IN
    IF record.kind # "whole" THEN "workspace_not_found"
    ELSE IF command = <<>> THEN "invalid_command"
    ELSE IF ~CommandPolicy(record, req.policy, command) THEN "tool_policy_denied"
    ELSE IF ~AllowedBinary(command) THEN "binary_not_allowed"
    ELSE "run"

-----------------------------------------------------------------------------
(* Profiles and launch plans.                                              *)

\* sandbox_attestation
Attestation(sandbox) ==
    LET enforceable == sandbox.enforce /\ sandbox.backend \in SandboxConfig.backends
        strong == enforceable /\ StronglyIsolated(sandbox)
    IN  [backend |-> sandbox.backend, enforceable |-> enforceable, strong |-> strong,
         warnings |->
            {w \in {"unsupported", "not_enforced", "not_strong"} :
                \/ w = "unsupported" /\ sandbox.backend \notin SandboxConfig.backends
                \/ w = "not_enforced" /\ sandbox.enforce /\ ~enforceable
                \/ w = "not_strong" /\ ~strong}]

\* object_storage_artifact_manifest_ref, object_storage_upload_status and the
\* warning that goes with it.
ObjectStorage(storage) ==
    IF ~storage.enabled THEN [prefix |-> FALSE, status |-> "disabled", warnings |-> {}]
    ELSE IF storage.store
         THEN [prefix |-> TRUE, status |-> "planned_external_upload", warnings |-> {"external_upload"}]
         ELSE [prefix |-> FALSE, status |-> "missing_store", warnings |-> {"missing_store"}]

\* sandbox_launch_plan
LaunchPlan(req, warnings) ==
    [backend |-> req.sandbox.backend, network |-> req.sandbox.network,
     denyByDefault |-> req.sandbox.network # "Open",
     services |-> req.sandbox.network # "Disabled",
     capabilities |-> SandboxCapabilities(req.sandbox),
     git |-> req.git, object |-> ObjectStorage(req.storage).prefix, warnings |-> warnings]

-----------------------------------------------------------------------------
(* Kubernetes objects.  Labels, annotations and variables are functions;   *)
(* "none" stands for a key a request does not set.                         *)

Over(base, given) ==
    [k \in DOMAIN base |-> IF k \in DOMAIN given /\ given[k] # "none" THEN given[k] ELSE base[k]]

\* request_annotation: the annotation, else the label of the same name.
RequestAnnotation(req, key) ==
    IF req.annotations[key] # "none" THEN req.annotations[key] ELSE req.labels[key]

ProvisionId(req) ==
    IF RequestAnnotation(req, "provision") # "none" THEN RequestAnnotation(req, "provision")
    ELSE "stable"

\* The labels of the plan's network policy and of the request go over the
\* runner's own, except over the id the job is watched by.
JobLabels(req) ==
    [Over(Over([goal |-> "plan", network |-> req.plan.network, provision |-> "none"],
               req.networkLabels), req.labels)
       EXCEPT !.provision = ProvisionId(req)]

\* The environment of the plan goes over the paths, not over what ties the
\* container to its provision request.
JobEnvironment(req) ==
    [Over([home |-> "mount", launchPlan |-> "coat", provision |-> "none"], req.environment)
       EXCEPT !.provision = ProvisionId(req)]

ExecutorJob(req) ==
    [labels |-> JobLabels(req), environment |-> JobEnvironment(req),
     annotation |-> ProvisionId(req), selector |-> ProvisionId(req), plan |-> req.plan]
ExecutorConfigMap(req) ==
    [labels |-> JobLabels(req), plan |-> req.plan, evidence |-> ProvisionId(req)]

\* validate_live_kubernetes_provisioner_evidence
LiveEvidence(req) ==
    /\ \A key \in {"capacity", "template", "ingestion"} : RequestAnnotation(req, key) # "none"
    /\ req.manifestPaths
=============================================================================
