---------------------------- MODULE MCWorkerServices ----------------------------
(* The services around a worker: the registry that dispatches tasks to it, *)
(* the memory gateway, the workspaces of the sandbox runner, and its tools *)
(* and jobs, which leave the workspace as it is.  They share nothing, so a *)
(* behaviour exercises one of them while the others are idle.              *)
EXTENDS AgentDispatch, MemoryGateway, Workspaces

VARIABLE service

MCMemoryRequests ==
    {[op |-> "write", goal |-> "g", key |-> "a"],
     [op |-> "search", goal |-> "g"],
     [op |-> "join", goal |-> "g", promote |-> {"a"}, invalidate |-> {"a", "b"}],
     [op |-> "retract", goal |-> "g", keys |-> {"a", "c"}],
     [op |-> "edit", goal |-> "g", keys |-> {"a", "b"}, key |-> "b"],
     [op |-> "repair", goal |-> "g", keys |-> {"a", "b"}, includeInvalidated |-> TRUE,
      dryRun |-> FALSE],
     [op |-> "repair", goal |-> "g", keys |-> {"a"}, includeInvalidated |-> FALSE,
      dryRun |-> TRUE]}

MCSandboxConfig ==
    [liveWorktrees |-> TRUE, worktreeApproval |-> TRUE, rootInGit |-> FALSE,
     execution |-> TRUE, commandApproval |-> TRUE, binaries |-> {"git", "make"},
     backends |-> {"LocalWorkspace"}, provisioner |-> TRUE]

MCToolConfig ==
    [token |-> "secret", sandboxUrl |-> TRUE, sandboxRoot |-> TRUE, searchEnabled |-> TRUE,
     searchRoute |-> "RunnerRegistry", registryUrl |-> TRUE]

Profile(network, backend) ==
    [filesystem |-> "WorkspaceWrite", network |-> network, approval |-> "OnRequest",
     isolated |-> TRUE, enforce |-> TRUE, backend |-> backend, runtime |-> "none"]

Word(w) == [word |-> w, assigned |-> FALSE, bare |-> TRUE]

\* A push that needs the network, under the policy of its task.
Push == [valid |-> TRUE, words |-> <<Word("git"), Word("push")>>]
GitPolicy ==
    [enabled |-> TRUE, denied |-> {"docker"},
     allowed |-> [b \in {"git"} |-> [subcommands |-> {"push"}, network |-> TRUE,
                    deniedArgs |-> {[word |-> "--force", assigned |-> FALSE, long |-> TRUE]}]]]
Command(tool, execute, approved, token) ==
    [tool |-> tool, op |-> "run", execute |-> execute, approved |-> approved, token |-> token,
     target |-> TRUE, command |-> Push, policy |-> GitPolicy, cwdInside |-> TRUE]

Refs(provision, capacity) ==
    [goal |-> "none", network |-> "none", provision |-> provision, capacity |-> capacity,
     template |-> capacity, ingestion |-> capacity]
Provision(mode, refs, labels) ==
    [tool |-> "direct", op |-> "provision", mode |-> mode, manifestPaths |-> TRUE,
     plan |-> [backend |-> "KubernetesJob", network |-> "Open"], annotations |-> refs,
     labels |-> labels, networkLabels |-> Refs("theirs", "none"),
     environment |-> [home |-> "theirs", provision |-> "theirs"]]

Create ==
    [tool |-> "direct", op |-> "create", sandbox |-> Profile("Disabled", "LocalWorkspace"),
     git |-> TRUE, live |-> TRUE, worktreeApproved |-> TRUE, repo |-> "approved",
     storage |-> [enabled |-> FALSE, store |-> FALSE]]

Changes ==
    {Create,
     Command("local_command", TRUE, TRUE, "secret"),
     [tool |-> "direct", op |-> "cleanup"]}
Others ==
    {Create,
     [Create EXCEPT !.sandbox = Profile("Open", "Gvisor"), !.git = FALSE,
                    !.storage = [enabled |-> TRUE, store |-> FALSE]],
     Command("direct", TRUE, FALSE, "none"),
     Command("test_command", FALSE, TRUE, "secret"),
     Command("test_command", FALSE, TRUE, "wrong"),
     [tool |-> "direct", op |-> "snapshot"],
     [tool |-> "artifact_manifest", token |-> "secret", by |-> "id"],
     [tool |-> "coat_web_search", token |-> "secret", route |-> "none"],
     Provision("apply", Refs("none", "given"), Refs("mine", "none")),
     Provision("apply", Refs("yours", "given"), Refs("mine", "none")),
     Provision("server_dry_run", Refs("none", "none"), Refs("mine", "none"))}

MCWorkspaceRequests == Changes \cup Others

Model(rank, provider, priority, cost) ==
    [provider |-> provider, model |-> provider, priority |-> priority, weight |-> 1,
     features |-> {"ToolUse"}, params |-> {}, labels |-> {}, rank |-> rank,
     cost |-> cost, latency |-> NoLabel, class |-> "Fast", tier |-> "none", context |-> 0]

Small == Model(1, "Ollama", 20, 10)
Large == Model(2, "Codex", 10, 500)

Runner(id, order, models, capabilities) ==
    [id |-> id, order |-> order, node |-> id, roles |-> {"coder"}, capabilities |-> capabilities,
     models |-> models, labels |-> {}, servers |-> {}, max |-> 1, ttl |-> 0, pool |-> "coder"]

TwoRunners == {"r1", "r2"}
TwoRegistrations ==
    [r1 |-> Runner("r1", 1, {Small}, {"Code", "WorkspaceSandbox"}),
     r2 |-> Runner("r2", 2, {Large}, {"Code", "WorkspaceSandbox", "KubernetesJobSandbox", "GvisorSandbox"})]

Anywhere == [runner |-> "any", worker |-> "coder", capabilities |-> {"Code"}, labels |-> {},
             sensitiveLabels |-> FALSE, locality |-> "AnyNode"]
NoTools == [enabled |-> FALSE, allowed |-> {}, approval |-> "RiskBased"]
NoMcp == [servers |-> {}, secretRefs |-> FALSE, secrets |-> FALSE, brokered |-> FALSE,
          dangerous |-> FALSE, multiUser |-> FALSE, delegation |-> FALSE,
          delegationLabels |-> {}, authLabels |-> {}]
Route(strategy, fallback) ==
    [strategy |-> strategy, features |-> {"ToolUse"}, candidates |-> {Large}, fallback |-> fallback]
LocalSandbox == [filesystem |-> "WorkspaceWrite", network |-> "Restricted", approval |-> "OnRequest",
                 isolated |-> TRUE, enforce |-> FALSE, backend |-> "LocalWorkspace", runtime |-> "none"]

TaskProfile(sandbox, route) ==
    [sandbox |-> sandbox, selector |-> Anywhere, tools |-> NoTools, mcp |-> NoMcp, route |-> route,
     capacity |-> [mode |-> "RegisteredRunnersOnly", approve |-> TRUE], nativeSpawn |-> "Disabled"]

TaskOf(profile, hash) == [profile |-> profile, hash |-> hash, goalHash |-> 5]

OneTask == [flexible |-> TaskOf(TaskProfile(LocalSandbox, Route("LowestCost", "AllowFallback")), 3)]

Init ==
    /\ MemoryInit /\ WorkspaceInit /\ DispatchInit
    /\ service \in {"memory", "workspaces", "tools", "dispatch"}
Next ==
    /\ UNCHANGED service
    /\ \/ service = "memory" /\ MemoryNext /\ UNCHANGED <<workspaceVars, dispatchVars>>
       \/ service = "dispatch" /\ DispatchNext /\ UNCHANGED <<workspaceVars, memoryVars>>
       \/ /\ service \in {"workspaces", "tools"} /\ WorkspaceNext
          /\ UNCHANGED <<memoryVars, dispatchVars>>
          /\ \A h \in workspaceCalls' : h.req \in IF service = "workspaces" THEN Changes ELSE Others
          /\ service = "tools" => workspaceCount' < MaxWorkspaceCalls
Spec == Init /\ [][Next]_<<memoryVars, workspaceVars, dispatchVars, service>>
=============================================================================
