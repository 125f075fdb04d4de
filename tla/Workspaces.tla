------------------------------ MODULE Workspaces ------------------------------
(***************************************************************************)
(* The workspace of one task: the sandbox runner that creates it, plans    *)
(* and runs commands in it, snapshots it, cleans it up and provisions      *)
(* Kubernetes jobs for it, and the tool registry that agents reach it      *)
(* through.  The runner keeps nothing in memory: its state is the registry *)
(* record, the directory, the git repository and the cluster.  The id and  *)
(* the path of a workspace follow from goal and task, so every create of a *)
(* task writes the same files, with no lock, and a retried or concurrent   *)
(* create, a cleanup or a crash meets whatever another one left.           *)
(***************************************************************************)
EXTENDS SandboxPlan

CONSTANTS
    WorkspaceRequests,      \* requests clients may send
    ToolConfig,             \* the tool registry's AppState
    MaxWorkspaceCalls,      \* bound: requests sent
    MaxWorkspaceInFlight,   \* bound: requests handled at a time
    MaxWorkspaceFaults      \* bound: crashes and failed calls of the system

VARIABLES
    registered,     \* the registry record of the workspace: a file
    folder,         \* the workspace directory
    repository,     \* git: the branch, and whether the path is a known worktree
    processes,      \* commands started and still running
    cluster,        \* the applied ConfigMap and Job
    workspaceCalls, \* requests in progress
    workspaceCount, workspaceFaults,
    lastEnded       \* history: the last request that ended

workspaceVars == <<registered, folder, repository, processes, cluster, workspaceCalls,
                   workspaceCount, workspaceFaults, lastEnded>>

Manifests == {"manifest", "plan", "checkpoint", "artifacts"}
Subfolders == {"artifacts", "snapshots", "checkpoints"}

\* The directory a file is written to; the workspace itself for two of them.
Home(name) ==
    CASE name = "artifacts" -> "artifacts" [] name = "checkpoint" -> "checkpoints"
      [] name = "latest" -> "snapshots" [] name \in {"manifest", "plan"} -> "workspace"

NoFolder == [dirs |-> {}, files |-> [f \in Manifests \cup {"latest"} |-> NoRecord],
             evidence |-> {}, worktree |-> FALSE]

Whole(id) == [kind |-> "whole", by |-> id]

\* create_dir_all
MakeDirs(dirs) == [folder EXCEPT !.dirs = @ \cup {"workspace"} \cup dirs]

-----------------------------------------------------------------------------
(* Requests.                                                               *)

\* Mutant: the manifests are written before their directories are made.
CreateStepsFoldersLast ==
    <<"worktree", "record", "manifest", "plan", "checkpoint", "artifacts", "folders">>

CreateSteps == <<"worktree", "folders", "record", "manifest", "plan", "checkpoint", "artifacts">>

\* tool_descriptors, mcp_tools
ToolNames == {"repo_status", "test_command", "local_command", "artifact_manifest",
              "checkpoint_history", "coat_web_search", "subagent_policy"}

\* The tool registry: authorize, then call_tool.  A command is forwarded to
\* the sandbox runner, and planned unless the caller asks to execute it.
Endpoint(req) ==
    CASE req.tool = "direct" -> req.op
      [] req.tool # "direct" /\ ToolConfig.token # "none" /\ req.token # ToolConfig.token
            -> "unauthorized"
      [] req.tool # "direct" /\ ~(ToolConfig.token # "none" /\ req.token # ToolConfig.token) ->
            CASE req.tool \in {"test_command", "local_command"} ->
                    IF ~ToolConfig.sandboxUrl THEN "blocked"
                    ELSE IF req.tool = "local_command" /\ req.execute THEN "run" ELSE "plan"
              [] req.tool \in {"artifact_manifest", "checkpoint_history"} ->
                    IF ToolConfig.sandboxRoot THEN req.tool ELSE "not_configured"
              [] req.tool \in {"repo_status", "coat_web_search", "subagent_policy"} -> req.tool
              [] req.tool \notin ToolNames -> "unknown_tool"

\* coat_web_search: when it is not routed to a runner, the answer carries
\* the child task for the coordinator.
WebSearchRoute(req) == IF req.route = "none" THEN ToolConfig.searchRoute ELSE req.route
WebSearchStatus(req, found) ==
    IF ~ToolConfig.searchEnabled THEN "blocked"
    ELSE IF WebSearchRoute(req) \in {"PlanOnly", "CoordinatorTask"} THEN "planned"
    ELSE IF ToolConfig.registryUrl /\ found THEN "routed" ELSE "blocked"

\* resolve_repo_path
RepoStatus(req) == IF req.inside THEN "answered" ELSE "tool_error"

FirstStep(op) ==
    CASE op = "create" -> CreateSteps[1]
      [] op \in {"plan", "run", "snapshot", "cleanup"} -> "lookup"
      [] op = "provision" -> "check"
      [] op \in {"artifact_manifest", "checkpoint_history"} -> "read"
      [] OTHER -> "answer"

WorkspaceInit ==
    /\ registered = NoRecord
    /\ folder = NoFolder
    /\ repository = [branch |-> FALSE, worktree |-> FALSE]
    /\ processes = {}
    /\ cluster = [config |-> NoRecord, job |-> NoRecord]
    /\ workspaceCalls = {}
    /\ workspaceCount = 0
    /\ workspaceFaults = 0
    /\ lastEnded = [op |-> "none"]

ReceiveWorkspace(req) ==
    /\ workspaceCount < MaxWorkspaceCalls
    /\ Cardinality(workspaceCalls) < MaxWorkspaceInFlight
    /\ workspaceCount' = workspaceCount + 1
    /\ workspaceCalls' = {[h EXCEPT !.alone = FALSE] : h \in workspaceCalls} \cup
          {[id |-> workspaceCount + 1, req |-> req, op |-> Endpoint(req),
            at |-> FirstStep(Endpoint(req)), record |-> NoRecord, tree |-> FALSE,
            success |-> FALSE, alone |-> workspaceCalls = {}]}
    /\ UNCHANGED <<registered, folder, repository, processes, cluster, workspaceFaults, lastEnded>>

Continue(h, next) == workspaceCalls' = (workspaceCalls \ {h}) \cup {next}

End(h, status) ==
    /\ workspaceCalls' = workspaceCalls \ {h}
    /\ lastEnded' = IF h.op = "create"
                    THEN [op |-> h.op, id |-> h.id, status |-> status, alone |-> h.alone]
                    ELSE [op |-> h.op, status |-> status]

WorkspaceFault ==
    /\ workspaceFaults < MaxWorkspaceFaults
    /\ workspaceFaults' = workspaceFaults + 1

-----------------------------------------------------------------------------
(* Create.                                                                 *)

\* create_live_git_worktree up to the call of git.
WorktreeAllowed(req) ==
    /\ SandboxConfig.liveWorktrees
    /\ SandboxConfig.worktreeApproval => req.worktreeApproved
    /\ req.repo = "approved"

\* is_git_worktree, which any directory inside a repository is.
ReusedWorktree ==
    folder.dirs # {} /\ (folder.worktree \/ SandboxConfig.rootInGit)

\* `git worktree add` refuses a path that exists or that it still knows from
\* a worktree removed behind its back; a refusal is a warning.
CreateWorktree(h) ==
    /\ h.at = "worktree"
    /\ LET asked == h.req.git /\ h.req.live /\ WorktreeAllowed(h.req)
           added == asked /\ folder.dirs = {} /\ ~repository.worktree
       IN  /\ repository' = IF added THEN [branch |-> TRUE, worktree |-> TRUE] ELSE repository
           /\ folder' = IF added THEN [MakeDirs({}) EXCEPT !.worktree = TRUE] ELSE folder
           /\ Continue(h, [h EXCEPT !.at = CreateSteps[2],
                                    !.tree = added \/ (asked /\ ReusedWorktree)])
    /\ UNCHANGED <<registered, processes, cluster, workspaceCount, workspaceFaults, lastEnded>>

WorkspaceRecord(h) ==
    LET attestation == Attestation(h.req.sandbox)
        storage == ObjectStorage(h.req.storage)
    IN  [kind |-> "whole", by |-> h.id, attestation |-> attestation, tree |-> h.tree,
         plan |-> LaunchPlan(h.req, attestation.warnings \cup storage.warnings)]

\* The next of CreateSteps, or the answer after the last of them.
AfterStep(h) ==
    LET k == CHOOSE k \in DOMAIN CreateSteps : CreateSteps[k] = h.at
    IN  IF k < Len(CreateSteps) THEN Continue(h, [h EXCEPT !.at = CreateSteps[k + 1]])
                                     /\ UNCHANGED lastEnded
        ELSE End(h, "created")

MakeFolders(h) ==
    /\ h.at = "folders"
    /\ folder' = MakeDirs(Subfolders)
    /\ AfterStep(h)
    /\ UNCHANGED <<registered, repository, processes, cluster, workspaceCount, workspaceFaults>>

\* write_record; the write truncates the file first, so it may fail torn.
WriteRecord(h) ==
    /\ h.op = "create" /\ h.at = "record"
    /\ \/ /\ registered' = WorkspaceRecord(h)
          /\ AfterStep(h)
          /\ UNCHANGED workspaceFaults
       \/ /\ WorkspaceFault
          /\ registered' = TornFile
          /\ End(h, "disk_error")
    /\ UNCHANGED <<folder, repository, processes, cluster, workspaceCount>>

\* write_workspace_manifest, write_launch_plan, write_checkpoint_manifest and
\* write_artifact_manifest: an error when the directory is gone.
WriteManifest(h) ==
    /\ h.op = "create" /\ h.at \in Manifests
    /\ \/ /\ Home(h.at) \in folder.dirs
          /\ folder' = [folder EXCEPT !.files[h.at] = Whole(h.id)]
          /\ AfterStep(h)
          /\ UNCHANGED workspaceFaults
       \/ /\ Home(h.at) \in folder.dirs
          /\ WorkspaceFault
          /\ folder' = [folder EXCEPT !.files[h.at] = TornFile]
          /\ End(h, "disk_error")
       \/ /\ Home(h.at) \notin folder.dirs
          /\ End(h, "failed")
          /\ UNCHANGED <<folder, workspaceFaults>>
    /\ UNCHANGED <<registered, repository, processes, cluster, workspaceCount>>

-----------------------------------------------------------------------------
(* Commands.                                                               *)

\* read_record: a reader may meet the file while a create writes it.
RecordSeen ==
    {registered} \cup
    IF \E h \in workspaceCalls : h.op = "create" /\ h.at = "record" THEN {TornFile} ELSE {}

\* What a run answers before it reads the record.
RunGate(h) ==
    IF ~h.req.target THEN "workspace_not_found"
    ELSE IF ~SandboxConfig.execution THEN "execution_disabled"
    ELSE IF ~Approved(h.req) THEN "waiting_approval" ELSE "open"

\* command_plan_inner
PlanCommand(h) ==
    /\ h.op = "plan" /\ h.at = "lookup"
    /\ \E record \in IF h.req.target THEN RecordSeen ELSE {NoRecord} :
          End(h, CommandPlanStatus(record, h.req))
    /\ UNCHANGED <<registered, folder, repository, processes, cluster, workspaceCount, workspaceFaults>>

RunCommandBlocked(h) ==
    /\ h.op = "run" /\ h.at = "lookup" /\ RunGate(h) # "open"
    /\ End(h, RunGate(h))
    /\ UNCHANGED <<registered, folder, repository, processes, cluster, workspaceCount, workspaceFaults>>

LookUpRun(h) ==
    /\ h.op = "run" /\ h.at = "lookup" /\ RunGate(h) = "open"
    /\ \E record \in RecordSeen : Continue(h, [h EXCEPT !.at = "command", !.record = record])
    /\ UNCHANGED <<registered, folder, repository, processes, cluster, workspaceCount,
                   workspaceFaults, lastEnded>>

\* The rest of the checks, the working directory, and the process.
StartCommand(h) ==
    /\ h.at = "command"
    /\ \/ /\ CommandRunStatus(h.record, h.req) # "run"
          /\ End(h, CommandRunStatus(h.record, h.req))
          /\ UNCHANGED <<processes, workspaceFaults>>
       \/ /\ CommandRunStatus(h.record, h.req) = "run"
          /\ ~("workspace" \in folder.dirs /\ h.req.cwdInside)
          /\ End(h, "invalid_cwd")
          /\ UNCHANGED <<processes, workspaceFaults>>
       \/ /\ CommandRunStatus(h.record, h.req) = "run"
          /\ "workspace" \in folder.dirs /\ h.req.cwdInside
          /\ processes' = processes \cup {[id |-> h.id, req |-> h.req, record |-> h.record]}
          /\ Continue(h, [h EXCEPT !.at = "waiting"])
          /\ UNCHANGED <<workspaceFaults, lastEnded>>
       \/ /\ CommandRunStatus(h.record, h.req) = "run"
          /\ "workspace" \in folder.dirs /\ h.req.cwdInside
          /\ WorkspaceFault
          /\ End(h, "execution_failed")
          /\ UNCHANGED processes
    /\ UNCHANGED <<registered, folder, repository, cluster, workspaceCount>>

\* The process ends; nobody waits for it any more after a timeout or crash.
ProcessEnds(p) ==
    /\ processes' = processes \ {p}
    /\ \E success \in BOOLEAN :
          workspaceCalls' = {IF h.id = p.id /\ h.at = "waiting"
                             THEN [h EXCEPT !.at = "evidence", !.success = success] ELSE h :
                                h \in workspaceCalls}
    /\ UNCHANGED <<registered, folder, repository, cluster, workspaceCount, workspaceFaults, lastEnded>>

\* timeout() drops the future that waits, not the process.
CommandTimesOut(h) ==
    /\ h.at = "waiting"
    /\ End(h, "timed_out")
    /\ UNCHANGED <<registered, folder, repository, processes, cluster, workspaceCount, workspaceFaults>>

\* write_command_evidence makes the directory anew if a cleanup removed it.
WriteEvidence(h) ==
    /\ h.at = "evidence"
    /\ \/ /\ folder' = [MakeDirs({"artifacts"}) EXCEPT !.evidence = @ \cup {h.id}]
          /\ UNCHANGED workspaceFaults
       \/ /\ WorkspaceFault
          /\ UNCHANGED folder
    /\ End(h, IF h.success THEN "completed" ELSE "failed")
    /\ UNCHANGED <<registered, repository, processes, cluster, workspaceCount>>

-----------------------------------------------------------------------------
(* Snapshots, cleanup and lookups.                                         *)

LookUpForChange(h) ==
    /\ h.op \in {"snapshot", "cleanup"} /\ h.at = "lookup"
    /\ \E record \in RecordSeen :
          \/ /\ record.kind = "whole"
             /\ Continue(h, [h EXCEPT !.at = IF h.op = "snapshot" THEN "snapshot" ELSE "remove",
                                      !.record = record])
             /\ UNCHANGED lastEnded
          \/ /\ record.kind # "whole"
             /\ End(h, IF record = NoRecord THEN "not_found" ELSE "failed")
    /\ UNCHANGED <<registered, folder, repository, processes, cluster, workspaceCount, workspaceFaults>>

\* snapshot_inner: a copy under its digest and latest.json
WriteSnapshot(h) ==
    /\ h.at = "snapshot"
    /\ \/ /\ folder' = [MakeDirs({"snapshots"}) EXCEPT !.files["latest"] = Whole(h.id)]
          /\ UNCHANGED workspaceFaults
       \/ /\ WorkspaceFault
          /\ folder' = [MakeDirs({"snapshots"}) EXCEPT !.files["latest"] = TornFile]
    /\ End(h, "snapshot")
    /\ UNCHANGED <<registered, repository, processes, cluster, workspaceCount>>

\* cleanup_inner: the directory goes first.  git is not told, processes are
\* not looked at, and a failed removal, which may leave a part, is only noted.
RemoveFolder(h) ==
    /\ h.at = "remove"
    /\ \/ /\ folder' = NoFolder
          /\ UNCHANGED workspaceFaults
       \/ /\ WorkspaceFault
          /\ \E kept \in SUBSET folder.dirs :
                folder' = [folder EXCEPT
                    !.dirs = kept \cup {"workspace"},
                    !.files = [f \in DOMAIN @ |-> IF Home(f) \in kept THEN @[f] ELSE NoRecord],
                    !.evidence = IF "artifacts" \in kept THEN @ ELSE {}]
    /\ Continue(h, [h EXCEPT !.at = "unregister"])
    /\ UNCHANGED <<registered, repository, processes, cluster, workspaceCount, lastEnded>>

Unregister(h) ==
    /\ h.at = "unregister"
    /\ \/ /\ registered' = NoRecord
          /\ UNCHANGED workspaceFaults
       \/ /\ WorkspaceFault
          /\ UNCHANGED registered
    /\ End(h, "cleaned")
    /\ UNCHANGED <<folder, repository, processes, cluster, workspaceCount>>

\* resolve_artifact_lookup: by goal and task the path is computed, by
\* workspace id it is read from the record, which may be missing or torn.
ArtifactLookup(req, record) ==
    CASE req.by = "task" \/ record.kind = "whole" -> "path"
      [] req.by = "id" /\ record = NoRecord -> "nothing"
      [] req.by = "id" /\ record = TornFile -> "tool_error"

\* read_json_file: a file that is missing or torn counts as missing.
ReadJson(name) == folder.files[name].kind = "whole"

Wanted(op) ==
    IF op = "checkpoint_history" THEN {"checkpoint"} ELSE {"manifest", "plan", "latest", "artifacts"}

ReadManifests(h) ==
    /\ h.at = "read"
    /\ \E record \in RecordSeen :
          LET lookup == ArtifactLookup(h.req, record) IN
          End(h, IF lookup # "path" THEN lookup
                 ELSE IF \E f \in Wanted(h.op) : ReadJson(f) THEN "found" ELSE "nothing")
    /\ UNCHANGED <<registered, folder, repository, processes, cluster, workspaceCount, workspaceFaults>>

\* Answers that need nothing: launch plans, refusals, and the tools that
\* ask others.
AnswerTool(h) ==
    /\ h.at = "answer"
    /\ \E found \in BOOLEAN :
          End(h, CASE h.op = "coat_web_search" -> WebSearchStatus(h.req, found)
                   [] h.op = "repo_status" -> RepoStatus(h.req)
                   [] OTHER -> h.op)
    /\ UNCHANGED <<registered, folder, repository, processes, cluster, workspaceCount, workspaceFaults>>

-----------------------------------------------------------------------------
(* Kubernetes.                                                             *)

\* kubernetes_executor_job_provision_inner, before the cluster is contacted.
ProvisionStatus(req) ==
    IF req.plan.backend # "KubernetesJob" THEN "failed"
    ELSE IF req.mode = "plan_only" \/ ~SandboxConfig.provisioner THEN "planned"
    ELSE IF ~LiveEvidence(req) THEN "failed" ELSE "live"

CheckProvision(h) ==
    /\ h.op = "provision" /\ h.at = "check"
    /\ \/ /\ ProvisionStatus(h.req) # "live"
          /\ End(h, ProvisionStatus(h.req))
       \/ /\ ProvisionStatus(h.req) = "live"
          /\ Continue(h, [h EXCEPT !.at = "config"])
          /\ UNCHANGED lastEnded
    /\ UNCHANGED <<registered, folder, repository, processes, cluster, workspaceCount, workspaceFaults>>

\* apply_kubernetes_executor_job
ApplyOrder == <<"config", "job">>

\* A server-side apply of one object; a dry run changes nothing.
ApplyObject(h) ==
    /\ h.op = "provision" /\ h.at \in {"config", "job"}
    /\ LET object == ApplyOrder[IF h.at = "config" THEN 1 ELSE 2]
           value == [kind |-> "whole", by |-> h.id, req |-> h.req,
                     spec |-> IF object = "config" THEN <<"ConfigMap", ExecutorConfigMap(h.req)>>
                              ELSE <<"Job", ExecutorJob(h.req)>>]
       IN  \/ /\ cluster' = IF h.req.mode = "apply" THEN [cluster EXCEPT ![object] = value] ELSE cluster
              /\ \/ h.at = "config" /\ Continue(h, [h EXCEPT !.at = "job"]) /\ UNCHANGED lastEnded
                 \/ h.at = "job" /\ End(h, IF h.req.mode = "apply" THEN "applied" ELSE "accepted")
              /\ UNCHANGED workspaceFaults
           \/ /\ WorkspaceFault
              /\ End(h, "failed")
              /\ UNCHANGED cluster
    /\ UNCHANGED <<registered, folder, repository, processes, workspaceCount>>

\* The runner stops: requests end where they are, and a file that was being
\* written is torn or as it was.  Commands go on.
SandboxCrash ==
    /\ workspaceCalls # {}
    /\ WorkspaceFault
    /\ \E torn \in SUBSET {h.at : h \in {c \in workspaceCalls : c.op = "create"}} :
          /\ registered' = IF "record" \in torn THEN TornFile ELSE registered
          /\ folder' = [folder EXCEPT !.files = [f \in DOMAIN @ |->
                IF f \in torn /\ Home(f) \in folder.dirs THEN TornFile ELSE @[f]]]
    /\ workspaceCalls' = {}
    /\ lastEnded' = [op |-> "none"]
    /\ UNCHANGED <<repository, processes, cluster, workspaceCount>>

WorkspaceNext ==
    \/ \E req \in WorkspaceRequests : ReceiveWorkspace(req)
    \/ \E h \in workspaceCalls :
          \/ CreateWorktree(h) \/ MakeFolders(h) \/ WriteRecord(h) \/ WriteManifest(h)
          \/ PlanCommand(h) \/ RunCommandBlocked(h) \/ LookUpRun(h) \/ StartCommand(h)
          \/ CommandTimesOut(h) \/ WriteEvidence(h)
          \/ LookUpForChange(h) \/ WriteSnapshot(h) \/ RemoveFolder(h) \/ Unregister(h)
          \/ ReadManifests(h) \/ AnswerTool(h) \/ CheckProvision(h) \/ ApplyObject(h)
    \/ \E p \in processes : ProcessEnds(p)
    \/ SandboxCrash

WorkspaceSpec == WorkspaceInit /\ [][WorkspaceNext]_workspaceVars

-----------------------------------------------------------------------------
(* Properties.                                                             *)

\* A command that runs is one that command planning, asked about the same
\* request and record, calls ready, with an allowed binary and execution
\* switched on: the two handlers check in different orders and must agree,
\* also when the workspace was created anew with another profile meanwhile
\* (command_run_inner against command_plan_inner).
RunningWasPlannable ==
    \A p \in processes :
        /\ SandboxConfig.execution
        /\ CommandPlanStatus(p.record, p.req) = "ready_for_executor"
        /\ AllowedBinary(ParseCommand(p.req.command))

\* A create that nothing disturbed leaves the record and all four manifests
\* complete and its own, whatever crashes, failed creates, cleanups that
\* removed a part, or late command evidence left behind
\* (create_workspace_inner).
CreateHeals ==
    workspaceCalls = {} /\ lastEnded.op = "create" /\ lastEnded.alone
      => \/ lastEnded.status = "disk_error"
         \/ /\ lastEnded.status = "created"
            /\ registered.by = lastEnded.id
            /\ \A f \in Manifests : folder.files[f] = Whole(lastEnded.id)
=============================================================================
