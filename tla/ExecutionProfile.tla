-------------------------- MODULE ExecutionProfile --------------------------
(***************************************************************************)
(* What a task asks of the place it runs in, and how it is answered: the   *)
(* approval gate reads the profile before an attempt, the runner registry  *)
(* matches it with the registrations and picks the best runner, and the    *)
(* model route picks the model on that runner.  Labels are sets of         *)
(* <<key, value>> pairs with one value per key; lists whose order nothing  *)
(* reads are sets; names are model values or strings compared only for     *)
(* equality.                                                               *)
(***************************************************************************)
EXTENDS Integers, FiniteSets, FiniteSetsExt, SequencesExt

\* ApprovalRisk, LocalToolRisk: ordered.
Low == 0
Medium == 1
High == 2
Critical == 3
Risks == Low..Critical

Privileged == {"NetworkOpen", "EphemeralProvisioning", "DockerCli", "HelmCli", "KubernetesCli"}

-----------------------------------------------------------------------------
(* The sandbox a task asks for.                                            *)

Backends == {"LocalWorkspace", "Container", "Gvisor", "Firecracker", "Kata",
             "KubernetesJob", "NamespaceJail", "ProviderSandbox"}

Sandbox == [filesystem : {"ReadOnly", "WorkspaceWrite"},
            network : {"Disabled", "Restricted", "Open"},
            approval : {"Never", "OnRequest", "Always"},
            isolated : BOOLEAN, enforce : BOOLEAN, backend : Backends,
            runtime : {"none", "gvisor", "firecracker", "kata", "other"}]

BackendCapability ==
    [LocalWorkspace |-> "WorkspaceSandbox", Container |-> "ContainerSandbox",
     Gvisor |-> "GvisorSandbox", Firecracker |-> "FirecrackerSandbox",
     Kata |-> "KataSandbox", KubernetesJob |-> "KubernetesJobSandbox",
     NamespaceJail |-> "NamespaceJailSandbox", ProviderSandbox |-> "ProviderSandbox"]

RuntimeCapabilities(runtime) ==
    CASE runtime = "gvisor" -> {"GvisorSandbox"}
      [] runtime = "firecracker" -> {"FirecrackerSandbox"}
      [] runtime = "kata" -> {"KataSandbox"}
      [] OTHER -> {}

SandboxCapabilities(sandbox) ==
    {BackendCapability[sandbox.backend]} \cup RuntimeCapabilities(sandbox.runtime)

StrongRuntime(runtime) == runtime \in {"gvisor", "firecracker", "kata"}

StrongBoundary(sandbox) ==
    /\ sandbox.enforce
    /\ \/ sandbox.backend \in {"Gvisor", "Kata", "Firecracker", "ProviderSandbox"}
       \/ sandbox.backend = "KubernetesJob" /\ StrongRuntime(sandbox.runtime)

StronglyIsolated(sandbox) == sandbox.isolated /\ StrongBoundary(sandbox)

-----------------------------------------------------------------------------
(* Local tools, MCP context and capacity.                                  *)

\* LocalToolPermission.  sensitive: needs the docker socket or the cluster.
Tool == [category : STRING, risk : Risks, network : BOOLEAN, sensitive : BOOLEAN]

ToolsActive(tools) == tools.enabled \/ tools.allowed # {}

CategoryCapabilities(category) ==
    CASE category = "VersionControl" -> {"GitCli"}
      [] category = "ContainerRuntime" -> {"DockerCli"}
      [] category = "Kubernetes" -> {"KubernetesCli"}
      [] category = "Helm" -> {"HelmCli"}
      [] category = "PackageManager" -> {"PackageManagerCli"}
      [] category \in {"BuildTool", "TestRunner"} -> {"BuildTooling"}
      [] category = "FormalMethods" -> {"FormalVerification"}
      [] OTHER -> {}

ToolCapabilities(tools) ==
    IF ~ToolsActive(tools) THEN {}
    ELSE {"LocalCommands"}
         \cup UNION {CategoryCapabilities(t.category) \cup t.capabilities : t \in tools.allowed}

ToolLabels(tools) == UNION {t.labels : t \in tools.allowed}

ToolRisk(tool) ==
    Max({tool.risk}
        \cup (IF tool.sensitive THEN {High} ELSE {})
        \cup (IF tool.network THEN {Medium} ELSE {}))

\* LocalToolPolicy::approval_risk, as the set of risks that ask for approval.
ToolsRisk(tools) ==
    LET declared == IF tools.allowed = {} THEN Medium
                    ELSE Max({ToolRisk(t) : t \in tools.allowed})
    IN  CASE ~ToolsActive(tools) \/ tools.approval = "Never" -> {}
          [] ToolsActive(tools) /\ tools.approval \in {"Always", "Inherit"} ->
                {Max({declared, Medium})}
          [] ToolsActive(tools) /\ tools.approval = "RiskBased" ->
                {declared} \cap {High, Critical}

UsesOidc(mcp) == mcp.multiUser \/ mcp.delegation

OidcLabels(mcp) ==
    (IF UsesOidc(mcp) THEN {<<"auth.oidc.user_delegation", "true">>} ELSE {})
    \cup (IF mcp.delegation THEN mcp.delegationLabels ELSE {})

\* secrets, brokered and dangerous summarise the server list: some server or
\* target needs a secret, a user's consent or broker, or offers a tool whose
\* name looks like a write.
SecretAccess(profile) == profile.mcp.secretRefs \/ profile.mcp.secrets
BrokeredAuth(profile) == profile.mcp.brokered
DangerousTools(profile) == profile.mcp.dangerous

EphemeralApproval(capacity) ==
    capacity.approve /\ capacity.mode \in {"PreferRegisteredThenEphemeral", "EphemeralOnly"}

PrivilegedSelector(selector) ==
    selector.capabilities \cap Privileged # {} \/ selector.sensitiveLabels

NativeSpawn(profile) == profile.nativeSpawn \in {"RequiresApproval", "Allowed"}

-----------------------------------------------------------------------------
(* The approval gate: every reason with its risk.                          *)

Reason(holds, code, risk) == IF holds THEN {[code |-> code, risk |-> risk]} ELSE {}

NeverPolicyReasons(gate, sandbox) ==
    Reason(sandbox.approval = "Never" /\ gate.neverNeedsIsolation /\ ~sandbox.isolated,
           "NeverPolicyOutsideIsolation", Critical)
    \cup Reason(sandbox.approval = "Never" /\ gate.neverNeedsStrong /\ ~StronglyIsolated(sandbox),
                "NeverPolicyWithoutStrongSandbox", Critical)

SandboxReasons(gate, sandbox) ==
    Reason(sandbox.approval = "Always", "SandboxPolicyAlways", Medium)
    \cup NeverPolicyReasons(gate, sandbox)
    \cup Reason(gate.networkOpen /\ sandbox.network = "Open", "NetworkOpen", High)
    \cup Reason(gate.nonIsolated /\ ~sandbox.isolated, "NonIsolatedRunner", High)
    \cup Reason(gate.writeOutside /\ sandbox.filesystem = "WorkspaceWrite" /\ ~sandbox.isolated,
                "WorkspaceWriteOutsideIsolation", High)

ProfileReasons(gate, profile) ==
    Reason(gate.secrets /\ SecretAccess(profile), "SecretAccess", High)
    \cup Reason(gate.brokered /\ BrokeredAuth(profile), "BrokeredUserAuth", Critical)
    \cup Reason(gate.dangerous /\ DangerousTools(profile), "DangerousMcpTool", Medium)
    \cup UNION {Reason(gate.localTools, "LocalToolExecution", r) : r \in ToolsRisk(profile.tools)}
    \cup Reason(gate.privileged /\ PrivilegedSelector(profile.selector),
                "PrivilegedRunnerCapability", High)
    \cup Reason(gate.nativeSpawn /\ NativeSpawn(profile), "NativeSubagentSpawn", High)
    \cup Reason(gate.ephemeral /\ EphemeralApproval(profile.capacity),
                "EphemeralCapacityProvisioning", Medium)

ApprovalReasons(gate, profile) ==
    IF ~gate.enabled THEN {}
    ELSE SandboxReasons(gate, profile.sandbox) \cup ProfileReasons(gate, profile)

ApprovalRisk(gate, profile) == Max({Low} \cup {r.risk : r \in ApprovalReasons(gate, profile)})

ApprovalRequired(gate, profile) == ApprovalReasons(gate, profile) # {}

-----------------------------------------------------------------------------
(* Model routes.  A candidate's cost, latency and quality are the numbers  *)
(* its labels give, or NoLabel; rank orders provider and model names.      *)

NoLabel == 999999999

Local == {"Vllm", "Ollama", "LlamaCpp", "LocalProcess"}

Features(route, candidate) == route.features \subseteq candidate.features

MatchesCandidate(actual, requested) ==
    /\ actual.provider = requested.provider
    /\ actual.model = requested.model
    /\ requested.features \subseteq actual.features
    /\ requested.params \subseteq actual.params
    /\ requested.labels \subseteq actual.labels

CompatibleCandidates(route, models) ==
    LET fitting == {c \in models : Features(route, c)}
        exact == {c \in fitting : \E q \in route.candidates : MatchesCandidate(c, q)}
    IN  IF exact # {} \/ route.fallback = "DisallowFallback" THEN exact
        ELSE IF route.fallback = "AllowFallback" THEN fitting
        ELSE {c \in fitting : c.provider \in Local}

\* candidate_priority_order.
Before(a, b) == a.priority < b.priority \/ (a.priority = b.priority /\ a.rank < b.rank)

ByPriority(candidates) == SetToSortSeq(candidates, Before)

LatencyScore(c) ==
    IF c.latency # NoLabel THEN c.latency
    ELSE CASE c.class = "Fast" -> 50
           [] c.class = "Balanced" -> 500
           [] c.class = "Deep" -> 2000
           [] c.class = "Batch" -> 10000
           [] OTHER -> NoLabel

QualityScore(c) ==
    (CASE c.tier = "frontier" -> 1000000
       [] c.tier = "high" -> 750000
       [] c.tier = "medium" -> 500000
       [] c.tier = "low" -> 250000
       [] OTHER -> 0)
    + Cardinality(c.features) * 10000 + c.context \div 128 - c.priority

Weight(c) == Max({c.weight, 1})

\* select_weighted_candidate: walk the buckets in priority order.
SelectWeighted(candidates, hash) ==
    LET order == ByPriority(candidates)
        upTo[i \in 0..Len(order)] == IF i = 0 THEN 0 ELSE upTo[i - 1] + Weight(order[i])
        bucket == hash % upTo[Len(order)]
    IN  order[Min({i \in 1..Len(order) : bucket < upTo[i]})]

\* The key by which a strategy sorts: the first candidate is taken.
SortKey(strategy, c) ==
    CASE strategy = "LowestLatency" -> LatencyScore(c)
      [] strategy = "LowestCost" -> c.cost
      [] strategy = "HighestQuality" -> 0 - QualityScore(c)
      [] OTHER -> 0

\* ModelRoute::select_candidate on a non-empty set of compatible candidates.
SelectCandidate(route, candidates, task) ==
    CASE route.strategy = "Weighted" -> SelectWeighted(candidates, task.hash)
      [] route.strategy = "StickyPerGoal" -> SelectWeighted(candidates, task.goalHash)
      [] OTHER ->
            LET best == Min({SortKey(route.strategy, c) : c \in candidates})
            IN  ByPriority({c \in candidates : SortKey(route.strategy, c) = best})[1]

\* stable_model_hash: a hash of the ids and the candidate's name.
ModelHash(seed, c) == seed * 31 + c.rank

DispatchScore(route, c, task) ==
    CASE route.strategy = "FirstAvailable" -> 1000000 - c.priority
      [] route.strategy = "LowestLatency" -> 1000000 - Min({LatencyScore(c), 999999})
      [] route.strategy = "LowestCost" ->
            1000000 - (IF c.cost = NoLabel THEN 999999 ELSE c.cost)
      [] route.strategy = "HighestQuality" -> QualityScore(c)
      [] route.strategy = "Weighted" ->
            (ModelHash(task.hash, c) % Weight(c)) + 1000000 - c.priority
      [] route.strategy = "StickyPerGoal" ->
            (ModelHash(task.goalHash, c) % Weight(c)) + 1000000 - c.priority

-----------------------------------------------------------------------------
(* Matching a task with a registered runner.                               *)

LocalityMatches(locality, coordinator, registration) ==
    CASE locality = "AnyNode" -> TRUE
      [] locality \in {"SameNode", "LocalOnly"} -> coordinator = registration.node
      [] locality = "RemoteOnly" -> coordinator \notin {"unset", registration.node}

McpMatches(mcp, registration) ==
    /\ mcp.servers # {} \/ mcp.secretRefs => "McpTools" \in registration.capabilities
    /\ UsesOidc(mcp) => "OidcUserDelegation" \in registration.capabilities
    /\ mcp.authLabels \cup OidcLabels(mcp) \subseteq registration.labels
    /\ registration.servers # {} => mcp.servers \subseteq registration.servers

\* RunnerSelector: the part of the profile that names runners.
SelectorMatches(selector, registration) ==
    /\ selector.runner \in {"any", registration.id}
    /\ selector.worker = "any" \/ selector.worker \in registration.roles
    /\ selector.capabilities \subseteq registration.capabilities
    /\ selector.labels \subseteq registration.labels

\* RunnerRegistration::evaluate_for_task: no reason against the runner.
Matched(task, coordinator, registration) ==
    LET profile == task.profile
    IN  /\ SelectorMatches(profile.selector, registration)
        /\ profile.sandbox.backend # "LocalWorkspace"
             => SandboxCapabilities(profile.sandbox) \subseteq registration.capabilities
        /\ ToolsActive(profile.tools)
             => /\ ToolCapabilities(profile.tools) \subseteq registration.capabilities
                /\ ToolLabels(profile.tools) \subseteq registration.labels
        /\ LocalityMatches(profile.selector.locality, coordinator, registration)
        /\ McpMatches(profile.mcp, registration)
        /\ CompatibleCandidates(profile.route, registration.models) # {}

SelectedModel(task, registration) ==
    LET route == task.profile.route
    IN  SelectCandidate(route, CompatibleCandidates(route, registration.models), task)

Score(task, registration) ==
    LET selector == task.profile.selector
    IN  DispatchScore(task.profile.route, SelectedModel(task, registration), task)
        + 100 * Cardinality(registration.capabilities)
        + 500 * Cardinality(selector.labels)
        + (IF selector.runner = registration.id THEN 10000 ELSE 0)
        + (IF selector.locality \in {"SameNode", "LocalOnly"} THEN 1000 ELSE 0)

\* RunnerDispatchDecision::choose: the matching runner with the best score,
\* the first by id among equals, or {}.
Choose(task, coordinator, registrations) ==
    LET matching == {r \in registrations : Matched(task, coordinator, r)}
        best == {r \in matching : \A s \in matching : Score(task, r) >= Score(task, s)}
    IN  {r \in best : \A s \in best : r.order <= s.order}
=============================================================================
