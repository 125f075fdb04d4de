------------------------- MODULE WorkerServices_proofs -------------------------
(***************************************************************************)
(* The services that keep state for a worker.  Workspaces: what runs was   *)
(* plannable, and an undisturbed create heals whatever was left behind.    *)
(* Memory gateway: the journal rebuilds the ledger, an undisturbed repair  *)
(* heals the indexes, and an undisturbed edit replaces.                    *)
(***************************************************************************)
EXTENDS MemoryGateway, Workspaces, FiniteSetTheorems, WellFoundedInduction, TLAPS

-----------------------------------------------------------------------------
(* Workspaces: the invariant.                                               *)

WorkspaceCallOk(h) ==
    /\ h = [id |-> h.id, req |-> h.req, op |-> h.op, at |-> h.at, record |-> h.record,
            tree |-> h.tree, success |-> h.success, alone |-> h.alone]
    /\ h.op = "create" <=> h.at \in {"worktree", "folders", "record"} \cup Manifests
    /\ h.at = "command" => RunGate(h) = "open"

FolderOk ==
    /\ folder = [dirs |-> folder.dirs, files |-> folder.files, evidence |-> folder.evidence,
                 worktree |-> folder.worktree]
    /\ DOMAIN folder.files = Manifests \cup {"latest"}

\* The manifests that a create has written when it comes to a step.
WrittenBefore(at) ==
    CASE at = "plan" -> {"manifest"}
      [] at = "checkpoint" -> {"manifest", "plan"}
      [] at = "artifacts" -> {"manifest", "plan", "checkpoint"}
      [] OTHER -> {}

\* What an undisturbed create has already put in order.
CreateProgress(h) ==
    h.op = "create" /\ h.alone =>
        /\ h.at \in {"record"} \cup Manifests => {"workspace"} \cup Subfolders \subseteq folder.dirs
        /\ h.at \in Manifests => registered.by = h.id
        /\ \A f \in WrittenBefore(h.at) : folder.files[f] = Whole(h.id)

WorkspaceInv ==
    /\ FolderOk
    /\ \A h \in workspaceCalls :
          WorkspaceCallOk(h) /\ CreateProgress(h) /\ (h.alone => workspaceCalls = {h})
    /\ RunningWasPlannable
    /\ CreateHeals

\* The fields of a request that takes a step.
LEMMA CallSteps ==
  ASSUME NEW h, WorkspaceCallOk(h), NEW at, NEW value
  PROVE  /\ [h EXCEPT !.at = at, !.record = value] =
              [id |-> h.id, req |-> h.req, op |-> h.op, at |-> at, record |-> value,
               tree |-> h.tree, success |-> h.success, alone |-> h.alone]
         /\ [h EXCEPT !.at = at, !.tree = value] =
              [id |-> h.id, req |-> h.req, op |-> h.op, at |-> at, record |-> h.record,
               tree |-> value, success |-> h.success, alone |-> h.alone]
         /\ [h EXCEPT !.at = at] =
              [id |-> h.id, req |-> h.req, op |-> h.op, at |-> at, record |-> h.record,
               tree |-> h.tree, success |-> h.success, alone |-> h.alone]
<1>1. PICK g : g = [h EXCEPT !.at = at]
  OBVIOUS
<1>2. g = [id |-> h.id, req |-> h.req, op |-> h.op, at |-> at, record |-> h.record,
           tree |-> h.tree, success |-> h.success, alone |-> h.alone]
  BY <1>1 DEF WorkspaceCallOk
<1>3. /\ [h EXCEPT !.at = at, !.record = value] = [g EXCEPT !.record = value]
      /\ [h EXCEPT !.at = at, !.tree = value] = [g EXCEPT !.tree = value]
  BY <1>1 DEF WorkspaceCallOk
<1>4. [g EXCEPT !.record = value] =
        [id |-> h.id, req |-> h.req, op |-> h.op, at |-> at, record |-> value,
         tree |-> h.tree, success |-> h.success, alone |-> h.alone]
  BY <1>2
<1>5. [g EXCEPT !.tree = value] =
        [id |-> h.id, req |-> h.req, op |-> h.op, at |-> at, record |-> h.record,
         tree |-> value, success |-> h.success, alone |-> h.alone]
  BY <1>2
<1> QED BY <1>1, <1>2, <1>3, <1>4, <1>5

\* A request goes on.
LEMMA ContinueKeeps ==
  ASSUME WorkspaceInv, NEW h \in workspaceCalls, NEW next, Continue(h, next),
         WorkspaceCallOk(next), next.op = h.op, next.alone = h.alone,
         FolderOk', RunningWasPlannable',
         h.op = "create" /\ h.alone => CreateProgress(next)'
  PROVE  WorkspaceInv'
<1>1. \A g \in workspaceCalls \ {h} : WorkspaceCallOk(g) /\ ~g.alone
  BY DEF WorkspaceInv
<1>2. h.alone => workspaceCalls' = {next}
  BY DEF WorkspaceInv, Continue
<1>3. ASSUME NEW g \in workspaceCalls'
      PROVE  (WorkspaceCallOk(g) /\ CreateProgress(g) /\ (g.alone => workspaceCalls = {g}))'
  <2>1. CASE g = next
    BY <1>2, <2>1 DEF CreateProgress, WorkspaceCallOk, RunGate
  <2>2. CASE g # next
    <3>1. g \in workspaceCalls \ {h}
      BY <2>2 DEF Continue
    <3> QED BY <1>1, <3>1 DEF CreateProgress, WorkspaceCallOk, RunGate
  <2> QED BY <2>1, <2>2
<1>4. workspaceCalls' # {}
  BY DEF Continue
<1> QED BY <1>3, <1>4 DEF WorkspaceInv, CreateHeals

\* A request ends.
LEMMA EndKeeps ==
  ASSUME WorkspaceInv, NEW h \in workspaceCalls, NEW status, End(h, status),
         FolderOk', RunningWasPlannable',
         h.op = "create" /\ h.alone =>
            \/ status = "disk_error"
            \/ /\ status = "created" /\ registered'.by = h.id
               /\ \A f \in Manifests : folder'.files[f] = Whole(h.id)
  PROVE  WorkspaceInv'
<1>1. ASSUME NEW g \in workspaceCalls'
      PROVE  (WorkspaceCallOk(g) /\ CreateProgress(g) /\ (g.alone => workspaceCalls = {g}))'
  <2>1. g \in workspaceCalls /\ g # h
    BY DEF End
  <2> QED BY <2>1 DEF WorkspaceInv, CreateProgress, WorkspaceCallOk, RunGate
<1>2. CreateHeals'
  <2>1. CASE h.op = "create"
    BY <2>1 DEF CreateHeals, End
  <2>2. CASE h.op # "create"
    BY <2>2 DEF CreateHeals, End
  <2> QED BY <2>1, <2>2
<1> QED BY <1>1, <1>2 DEF WorkspaceInv

\* The directory keeps its shape.
LEMMA FolderChanges ==
  ASSUME FolderOk
  PROVE  /\ folder' = folder => FolderOk'
         /\ \A dirs : folder' = MakeDirs(dirs) => FolderOk'
         /\ \A f, v : folder' = [folder EXCEPT !.files[f] = v] => FolderOk'
<1>1. ASSUME NEW dirs, folder' = MakeDirs(dirs) PROVE FolderOk'
  BY <1>1 DEF FolderOk, MakeDirs
<1>2. ASSUME NEW f, NEW v, folder' = [folder EXCEPT !.files[f] = v] PROVE FolderOk'
  BY <1>2 DEF FolderOk
<1> QED BY <1>1, <1>2 DEF FolderOk

LEMMA CommandsStay ==
  ASSUME WorkspaceInv, processes' \subseteq processes
  PROVE  RunningWasPlannable'
BY DEF WorkspaceInv, RunningWasPlannable

-----------------------------------------------------------------------------
(* Create.                                                                  *)

\* The step after each of CreateSteps.
LEMMA NextCreateStep ==
  ASSUME NEW h, h.op = "create", h.at \in {"folders", "record"} \cup Manifests, AfterStep(h)
  PROVE  IF h.at = "artifacts" THEN End(h, "created")
         ELSE Continue(h, [h EXCEPT !.at = CASE h.at = "folders" -> "record"
                                             [] h.at = "record" -> "manifest"
                                             [] h.at = "manifest" -> "plan"
                                             [] h.at = "plan" -> "checkpoint"
                                             [] h.at = "checkpoint" -> "artifacts"])
<1> DEFINE k == CHOOSE k \in DOMAIN CreateSteps : CreateSteps[k] = h.at
<1>1. /\ DOMAIN CreateSteps = 1..7 /\ Len(CreateSteps) = 7
      /\ CreateSteps[1] = "worktree" /\ CreateSteps[2] = "folders" /\ CreateSteps[3] = "record"
      /\ CreateSteps[4] = "manifest" /\ CreateSteps[5] = "plan" /\ CreateSteps[6] = "checkpoint"
      /\ CreateSteps[7] = "artifacts"
  BY DEF CreateSteps
<1>2. \E j \in 1..7 : CreateSteps[j] = h.at
  BY <1>1 DEF Manifests
<1>3. k \in 1..7 /\ CreateSteps[k] = h.at
  BY <1>1, <1>2
<1>4. IF k < 7 THEN Continue(h, [h EXCEPT !.at = CreateSteps[k + 1]]) ELSE End(h, "created")
  BY <1>1 DEF AfterStep
<1> HIDE DEF k
<1>5. k = 1 \/ k = 2 \/ k = 3 \/ k = 4 \/ k = 5 \/ k = 6 \/ k = 7
  BY <1>3
<1> QED BY <1>1, <1>3, <1>4, <1>5 DEF Manifests

LEMMA CreateWorktreeKeeps ==
  ASSUME WorkspaceInv, NEW h \in workspaceCalls, CreateWorktree(h)
  PROVE  WorkspaceInv'
<1>1. h.at = "worktree" /\ h.op = "create" /\ WorkspaceCallOk(h)
  BY DEF CreateWorktree, WorkspaceInv, WorkspaceCallOk
<1>2. PICK tree : Continue(h, [h EXCEPT !.at = "folders", !.tree = tree])
  <2>1. CreateSteps[2] = "folders"
    BY DEF CreateSteps
  <2> QED BY <2>1 DEF CreateWorktree
<1> DEFINE next == [h EXCEPT !.at = "folders", !.tree = tree]
<1>3. /\ next.op = "create" /\ next.alone = h.alone /\ next.at = "folders"
      /\ WorkspaceCallOk(next)
  <2>1. next = [id |-> h.id, req |-> h.req, op |-> h.op, at |-> "folders", record |-> h.record,
                tree |-> tree, success |-> h.success, alone |-> h.alone]
    BY <1>1, CallSteps
  <2> HIDE DEF next
  <2> QED BY <1>1, <2>1 DEF WorkspaceCallOk
<1>4. FolderOk'
  <2>1. FolderOk
    BY DEF WorkspaceInv
  <2>2. folder' = folder \/ folder' = [MakeDirs({}) EXCEPT !.worktree = TRUE]
    BY DEF CreateWorktree
  <2> QED BY <2>1, <2>2 DEF FolderOk, MakeDirs
<1>5. CreateProgress(next)'
  BY <1>3 DEF CreateProgress, WrittenBefore, Manifests
<1>6. RunningWasPlannable'
  BY CommandsStay DEF CreateWorktree
<1> HIDE DEF next
<1>7. Continue(h, next)
  BY <1>2 DEF next
<1> QED BY <1>1, <1>3, <1>4, <1>5, <1>6, <1>7, ContinueKeeps

LEMMA MakeFoldersKeeps ==
  ASSUME WorkspaceInv, NEW h \in workspaceCalls, MakeFolders(h)
  PROVE  WorkspaceInv'
<1>1. h.at = "folders" /\ h.op = "create" /\ WorkspaceCallOk(h) /\ FolderOk
  BY DEF MakeFolders, WorkspaceInv, WorkspaceCallOk
<1> DEFINE next == [h EXCEPT !.at = "record"]
<1>2. Continue(h, next)
  BY <1>1, NextCreateStep DEF MakeFolders
<1>3. /\ next.op = "create" /\ next.alone = h.alone /\ next.at = "record"
      /\ WorkspaceCallOk(next)
  BY <1>1 DEF WorkspaceCallOk
<1>4. folder' = MakeDirs(Subfolders) /\ UNCHANGED processes
  BY DEF MakeFolders
<1>5. FolderOk' /\ RunningWasPlannable'
  BY <1>1, <1>4, FolderChanges, CommandsStay
<1>6. {"workspace"} \cup Subfolders \subseteq folder'.dirs
  BY <1>1, <1>4 DEF MakeDirs, FolderOk
<1>7. CreateProgress(next)'
  BY <1>3, <1>6 DEF CreateProgress, WrittenBefore, Manifests
<1> HIDE DEF next
<1> QED BY <1>1, <1>2, <1>3, <1>5, <1>7, ContinueKeeps

LEMMA WriteRecordKeeps ==
  ASSUME WorkspaceInv, NEW h \in workspaceCalls, WriteRecord(h)
  PROVE  WorkspaceInv'
<1>1. /\ h.at = "record" /\ h.op = "create" /\ WorkspaceCallOk(h) /\ FolderOk
      /\ UNCHANGED <<folder, processes>>
  BY DEF WriteRecord, WorkspaceInv, WorkspaceCallOk
<1>2. FolderOk' /\ RunningWasPlannable'
  BY <1>1, FolderChanges, CommandsStay
<1>3. CASE registered' = WorkspaceRecord(h) /\ AfterStep(h)
  <2> DEFINE next == [h EXCEPT !.at = "manifest"]
  <2>1. Continue(h, next)
    BY <1>1, <1>3, NextCreateStep
  <2>2. /\ next.op = "create" /\ next.alone = h.alone /\ next.at = "manifest"
        /\ next.id = h.id /\ WorkspaceCallOk(next)
    BY <1>1 DEF WorkspaceCallOk, Manifests
  <2>3. registered'.by = h.id
    BY <1>3 DEF WorkspaceRecord
  <2>4. h.alone => {"workspace"} \cup Subfolders \subseteq folder.dirs
    BY <1>1 DEF WorkspaceInv, CreateProgress
  <2>5. CreateProgress(next)'
    BY <1>1, <2>2, <2>3, <2>4 DEF CreateProgress, WrittenBefore
  <2> HIDE DEF next
  <2> QED BY <1>1, <1>2, <2>1, <2>2, <2>5, ContinueKeeps
<1>4. CASE End(h, "disk_error")
  BY <1>2, <1>4, EndKeeps
<1> QED BY <1>3, <1>4 DEF WriteRecord

LEMMA WriteManifestKeeps ==
  ASSUME WorkspaceInv, NEW h \in workspaceCalls, WriteManifest(h)
  PROVE  WorkspaceInv'
<1>1. /\ h.at \in Manifests /\ h.op = "create" /\ WorkspaceCallOk(h) /\ FolderOk
      /\ UNCHANGED <<registered, processes>>
  BY DEF WriteManifest, WorkspaceInv, WorkspaceCallOk
<1>2. RunningWasPlannable'
  BY <1>1, CommandsStay
<1>3. h.alone => /\ {"workspace"} \cup Subfolders \subseteq folder.dirs
                 /\ registered.by = h.id
                 /\ \A f \in WrittenBefore(h.at) : folder.files[f] = Whole(h.id)
  BY <1>1 DEF WorkspaceInv, CreateProgress
<1>4. CASE folder' = [folder EXCEPT !.files[h.at] = Whole(h.id)] /\ AfterStep(h)
  <2>1. FolderOk'
    BY <1>1, <1>4, FolderChanges
  <2>2. /\ folder'.dirs = folder.dirs /\ folder'.files[h.at] = Whole(h.id)
        /\ \A f \in Manifests \ {h.at} : folder'.files[f] = folder.files[f]
    BY <1>1, <1>4 DEF FolderOk
  <2>3. CASE h.at = "artifacts"
    <3>1. End(h, "created")
      BY <1>1, <1>4, <2>3, NextCreateStep
    <3>2. h.alone => \A f \in Manifests : folder'.files[f] = Whole(h.id)
      BY <1>3, <2>2, <2>3 DEF WrittenBefore, Manifests
    <3> QED BY <1>1, <1>2, <1>3, <2>1, <3>1, <3>2, EndKeeps
  <2>4. CASE h.at # "artifacts"
    <3> DEFINE at == CASE h.at = "manifest" -> "plan"
                       [] h.at = "plan" -> "checkpoint"
                       [] h.at = "checkpoint" -> "artifacts"
               next == [h EXCEPT !.at = at]
    <3>1. Continue(h, next)
      BY <1>1, <1>4, <2>4, NextCreateStep DEF Manifests
    <3>2. at \in Manifests
      BY <1>1, <2>4 DEF Manifests
    <3>3. h.alone => \A f \in WrittenBefore(at) : folder'.files[f] = Whole(h.id)
      BY <1>1, <1>3, <2>2, <2>4 DEF WrittenBefore, Manifests
    <3> HIDE DEF at
    <3>4. /\ next.op = "create" /\ next.alone = h.alone /\ next.at = at
          /\ next.id = h.id /\ WorkspaceCallOk(next)
      BY <1>1, <3>2 DEF WorkspaceCallOk, Manifests
    <3>5. CreateProgress(next)'
      BY <1>1, <1>3, <2>2, <3>2, <3>3, <3>4 DEF CreateProgress
    <3> HIDE DEF next
    <3> QED BY <1>1, <1>2, <2>1, <3>1, <3>4, <3>5, ContinueKeeps
  <2> QED BY <2>3, <2>4
<1>5. CASE folder' = [folder EXCEPT !.files[h.at] = TornFile] /\ End(h, "disk_error")
  BY <1>1, <1>2, <1>5, FolderChanges, EndKeeps
<1>6. CASE Home(h.at) \notin folder.dirs /\ End(h, "failed") /\ UNCHANGED folder
  <2>1. Home(h.at) \in {"workspace"} \cup Subfolders
    BY <1>1 DEF Home, Manifests, Subfolders
  <2>2. ~h.alone
    BY <1>3, <1>6, <2>1
  <2> QED BY <1>1, <1>2, <1>6, <2>2, FolderChanges, EndKeeps
<1> QED BY <1>4, <1>5, <1>6 DEF WriteManifest

-----------------------------------------------------------------------------
(* Commands.                                                                *)

\* The two handlers agree: what a run starts, a plan of the same request and
\* record calls ready (command_run_inner, command_plan_inner).
LEMMA RunIsPlannable ==
  ASSUME NEW record, NEW req, CommandRunStatus(record, req) = "run", Approved(req)
  PROVE  /\ CommandPlanStatus(record, req) = "ready_for_executor"
         /\ AllowedBinary(ParseCommand(req.command))
<1> DEFINE command == ParseCommand(req.command)
<1>1. /\ record.kind = "whole" /\ command # <<>> /\ CommandPolicy(record, req.policy, command)
      /\ AllowedBinary(command)
  BY DEF CommandRunStatus
<1> QED BY <1>1 DEF CommandPlanStatus

LEMMA LookUpRunKeeps ==
  ASSUME WorkspaceInv, NEW h \in workspaceCalls, LookUpRun(h)
  PROVE  WorkspaceInv'
<1>1. h.op = "run" /\ RunGate(h) = "open" /\ WorkspaceCallOk(h) /\ FolderOk
  BY DEF LookUpRun, WorkspaceInv
<1>2. PICK record : Continue(h, [h EXCEPT !.at = "command", !.record = record])
  BY DEF LookUpRun
<1> DEFINE next == [h EXCEPT !.at = "command", !.record = record]
<1>3. /\ next.op = h.op /\ next.alone = h.alone /\ WorkspaceCallOk(next)
  <2>1. next = [id |-> h.id, req |-> h.req, op |-> h.op, at |-> "command", record |-> record,
                tree |-> h.tree, success |-> h.success, alone |-> h.alone]
    BY <1>1, CallSteps
  <2> HIDE DEF next
  <2> QED BY <1>1, <2>1 DEF WorkspaceCallOk, RunGate, Manifests
<1>4. FolderOk' /\ RunningWasPlannable'
  BY <1>1, FolderChanges, CommandsStay DEF LookUpRun
<1> HIDE DEF next
<1>5. Continue(h, next)
  BY <1>2 DEF next
<1> QED BY <1>1, <1>3, <1>4, <1>5, ContinueKeeps

LEMMA StartCommandKeeps ==
  ASSUME WorkspaceInv, NEW h \in workspaceCalls, StartCommand(h)
  PROVE  WorkspaceInv'
<1>1. /\ h.at = "command" /\ h.op # "create" /\ RunGate(h) = "open" /\ WorkspaceCallOk(h)
      /\ FolderOk /\ UNCHANGED folder
  BY DEF StartCommand, WorkspaceInv, WorkspaceCallOk, Manifests
<1>2. FolderOk'
  BY <1>1, FolderChanges
<1>3. ASSUME NEW status, End(h, status), UNCHANGED processes PROVE WorkspaceInv'
  BY <1>1, <1>2, <1>3, CommandsStay, EndKeeps
<1>4. CASE /\ CommandRunStatus(h.record, h.req) = "run"
           /\ processes' = processes \cup {[id |-> h.id, req |-> h.req, record |-> h.record]}
           /\ Continue(h, [h EXCEPT !.at = "waiting"])
  <2> DEFINE next == [h EXCEPT !.at = "waiting"]
  <2>1. next.op = h.op /\ next.alone = h.alone /\ WorkspaceCallOk(next)
    BY <1>1 DEF WorkspaceCallOk, Manifests
  <2>2. SandboxConfig.execution /\ Approved(h.req)
    BY <1>1 DEF RunGate
  <2>3. /\ CommandPlanStatus(h.record, h.req) = "ready_for_executor"
        /\ AllowedBinary(ParseCommand(h.req.command))
    BY <1>4, <2>2, RunIsPlannable
  <2>4. RunningWasPlannable'
    BY <1>4, <2>2, <2>3 DEF WorkspaceInv, RunningWasPlannable
  <2> HIDE DEF next
  <2>5. Continue(h, next)
    BY <1>4 DEF next
  <2> QED BY <1>1, <1>2, <2>1, <2>4, <2>5, ContinueKeeps
<1> QED BY <1>3, <1>4 DEF StartCommand

\* A process that ends moves the call that waits for it, if there is one.
LEMMA ProcessEndsKeeps ==
  ASSUME WorkspaceInv, NEW p \in processes, ProcessEnds(p)
  PROVE  WorkspaceInv'
<1>1. PICK success \in BOOLEAN :
        workspaceCalls' = {IF h.id = p.id /\ h.at = "waiting"
                           THEN [h EXCEPT !.at = "evidence", !.success = success] ELSE h :
                              h \in workspaceCalls}
  BY DEF ProcessEnds
<1>2. UNCHANGED <<registered, folder, lastEnded>> /\ processes' \subseteq processes
  BY DEF ProcessEnds
<1>3. FolderOk' /\ RunningWasPlannable'
  BY <1>2, FolderChanges, CommandsStay DEF WorkspaceInv
<1>4. ASSUME NEW g \in workspaceCalls'
      PROVE  (WorkspaceCallOk(g) /\ CreateProgress(g) /\ (g.alone => workspaceCalls = {g}))'
  <2>1. PICK h \in workspaceCalls :
          g = IF h.id = p.id /\ h.at = "waiting"
              THEN [h EXCEPT !.at = "evidence", !.success = success] ELSE h
    BY <1>1
  <2>2. WorkspaceCallOk(h) /\ CreateProgress(h) /\ (h.alone => workspaceCalls = {h})
    BY DEF WorkspaceInv
  <2>3. WorkspaceCallOk(g) /\ g.alone = h.alone
    BY <2>1, <2>2 DEF WorkspaceCallOk, RunGate, Manifests
  <2>4. CreateProgress(g)'
    <3>1. CASE g = h
      BY <1>2, <2>2, <3>1 DEF CreateProgress
    <3>2. CASE g # h
      <4>1. g.op = h.op /\ h.at = "waiting"
        BY <2>1, <2>2, <3>2 DEF WorkspaceCallOk
      <4> QED BY <2>2, <4>1 DEF CreateProgress, WorkspaceCallOk, Manifests
    <3> QED BY <3>1, <3>2
  <2>5. g.alone => workspaceCalls' = {g}
    BY <1>1, <2>1, <2>2, <2>3
  <2>6. WorkspaceCallOk(g)'
    BY <2>3 DEF WorkspaceCallOk, RunGate
  <2> QED BY <2>4, <2>5, <2>6
<1>5. CreateHeals'
  <2>1. workspaceCalls' = {} => workspaceCalls = {}
    BY <1>1
  <2> QED BY <1>2, <2>1 DEF WorkspaceInv, CreateHeals
<1> QED BY <1>3, <1>4, <1>5 DEF WorkspaceInv

-----------------------------------------------------------------------------
(* Everything else.                                                         *)

\* A request that is no create may go on or end, whatever it did to a file.
Goes(h) ==
    \/ \E status : End(h, status)
    \/ \E next : /\ Continue(h, next) /\ WorkspaceCallOk(next)
                 /\ next.op = h.op /\ next.alone = h.alone

LEMMA OtherRequestKeeps ==
  ASSUME WorkspaceInv, NEW h \in workspaceCalls, h.op # "create",
         FolderOk', processes' \subseteq processes, Goes(h)
  PROVE  WorkspaceInv'
<1>1. RunningWasPlannable'
  BY CommandsStay
<1> QED BY <1>1, EndKeeps, ContinueKeeps DEF Goes

\* The steps of requests that change no workspace by themselves.
LEMMA MovesOn ==
  ASSUME NEW h, WorkspaceCallOk(h), h.op # "create",
         NEW at \in {"snapshot", "remove", "unregister", "config", "job"}, NEW value,
         \/ Continue(h, [h EXCEPT !.at = at])
         \/ Continue(h, [h EXCEPT !.at = at, !.record = value])
  PROVE  Goes(h)
<1>1. ASSUME NEW next, Continue(h, next),
             next = [h EXCEPT !.at = at] \/ next = [h EXCEPT !.at = at, !.record = value]
      PROVE  Goes(h)
  <2>1. \E record : next = [id |-> h.id, req |-> h.req, op |-> h.op, at |-> at, record |-> record,
                           tree |-> h.tree, success |-> h.success, alone |-> h.alone]
    <3>1. CASE next = [h EXCEPT !.at = at]
      <4>1. next = [id |-> h.id, req |-> h.req, op |-> h.op, at |-> at, record |-> h.record,
                    tree |-> h.tree, success |-> h.success, alone |-> h.alone]
        BY <3>1, CallSteps
      <4> QED BY <4>1
    <3>2. CASE next = [h EXCEPT !.at = at, !.record = value]
      <4>1. next = [id |-> h.id, req |-> h.req, op |-> h.op, at |-> at, record |-> value,
                    tree |-> h.tree, success |-> h.success, alone |-> h.alone]
        BY <3>2, CallSteps
      <4> QED BY <4>1
    <3> QED BY <1>1, <3>1, <3>2
  <2>2. WorkspaceCallOk(next) /\ next.op = h.op /\ next.alone = h.alone
    BY <2>1 DEF WorkspaceCallOk, Manifests
  <2> QED BY <1>1, <2>2 DEF Goes
<1> QED BY <1>1

LEMMA CommandEndKeeps ==
  ASSUME WorkspaceInv, NEW h \in workspaceCalls,
         PlanCommand(h) \/ RunCommandBlocked(h) \/ CommandTimesOut(h) \/ WriteEvidence(h)
  PROVE  WorkspaceInv'
<1>1. /\ \E status : End(h, status)
      /\ h.op # "create" /\ FolderOk /\ UNCHANGED processes
  BY DEF PlanCommand, RunCommandBlocked, CommandTimesOut, WriteEvidence, WorkspaceInv,
         WorkspaceCallOk, Manifests
<1>2. FolderOk'
  <2>1. folder' = folder \/ folder' = [MakeDirs({"artifacts"}) EXCEPT !.evidence = @ \cup {h.id}]
    BY DEF PlanCommand, RunCommandBlocked, CommandTimesOut, WriteEvidence
  <2> QED BY <1>1, <2>1 DEF FolderOk, MakeDirs
<1>3. Goes(h)
  BY <1>1 DEF Goes
<1> QED BY <1>1, <1>2, <1>3, OtherRequestKeeps

LEMMA ReadsKeep ==
  ASSUME WorkspaceInv, NEW h \in workspaceCalls,
         ReadManifests(h) \/ AnswerTool(h) \/ CheckProvision(h) \/ ApplyObject(h)
  PROVE  WorkspaceInv'
<1>1. h.op # "create" /\ FolderOk /\ WorkspaceCallOk(h) /\ UNCHANGED <<folder, processes>>
  BY DEF ReadManifests, AnswerTool, CheckProvision, ApplyObject, WorkspaceInv,
         WorkspaceCallOk, Manifests
<1>2. \/ \E status : End(h, status)
      \/ Continue(h, [h EXCEPT !.at = "config"])
      \/ Continue(h, [h EXCEPT !.at = "job"])
  BY DEF ReadManifests, AnswerTool, CheckProvision, ApplyObject
<1>3. Goes(h)
  BY <1>1, <1>2, MovesOn DEF Goes
<1>4. FolderOk'
  BY <1>1, FolderChanges
<1> QED BY <1>1, <1>3, <1>4, OtherRequestKeeps

LEMMA ChangesKeep ==
  ASSUME WorkspaceInv, NEW h \in workspaceCalls,
         LookUpForChange(h) \/ WriteSnapshot(h) \/ RemoveFolder(h) \/ Unregister(h)
  PROVE  WorkspaceInv'
<1>1. h.op # "create" /\ FolderOk /\ WorkspaceCallOk(h) /\ UNCHANGED processes
  BY DEF LookUpForChange, WriteSnapshot, RemoveFolder, Unregister, WorkspaceInv,
         WorkspaceCallOk, Manifests
<1>3. Goes(h)
  <2>1. CASE LookUpForChange(h)
    <3>1. PICK record : \/ Continue(h, [h EXCEPT !.at = IF h.op = "snapshot" THEN "snapshot" ELSE "remove",
                                               !.record = record])
                        \/ \E status : End(h, status)
      BY <2>1 DEF LookUpForChange
    <3> DEFINE at == IF h.op = "snapshot" THEN "snapshot" ELSE "remove"
    <3>2. at \in {"snapshot", "remove", "unregister", "config", "job"}
      OBVIOUS
    <3> HIDE DEF at
    <3>3. Continue(h, [h EXCEPT !.at = at, !.record = record]) \/ \E status : End(h, status)
      BY <3>1 DEF at
    <3> QED BY <1>1, <3>2, <3>3, MovesOn DEF Goes
  <2>2. CASE WriteSnapshot(h) \/ Unregister(h)
    BY <2>2 DEF WriteSnapshot, Unregister, Goes
  <2>3. CASE RemoveFolder(h)
    <3>1. Continue(h, [h EXCEPT !.at = "unregister"])
      BY <2>3 DEF RemoveFolder
    <3> QED BY <1>1, <3>1, MovesOn
  <2> QED BY <2>1, <2>2, <2>3
<1>4. FolderOk'
  <2>1. CASE LookUpForChange(h) \/ Unregister(h)
    BY <1>1, <2>1, FolderChanges DEF LookUpForChange, Unregister
  <2>2. CASE WriteSnapshot(h)
    <3>1. \E v : folder' = [MakeDirs({"snapshots"}) EXCEPT !.files["latest"] = v]
      BY <2>2 DEF WriteSnapshot
    <3> QED BY <1>1, <3>1 DEF FolderOk, MakeDirs
  <2>3. CASE RemoveFolder(h)
    <3>1. CASE folder' = NoFolder
      BY <3>1 DEF NoFolder, FolderOk
    <3>2. ASSUME NEW dirs, NEW files, NEW evidence, DOMAIN files = DOMAIN folder.files,
                 folder' = [folder EXCEPT !.dirs = dirs, !.files = files, !.evidence = evidence]
          PROVE  FolderOk'
      BY <1>1, <3>2 DEF FolderOk
    <3>3. CASE folder' # NoFolder
      <4>1. PICK kept \in SUBSET folder.dirs :
              folder' = [folder EXCEPT
                    !.dirs = kept \cup {"workspace"},
                    !.files = [f \in DOMAIN @ |-> IF Home(f) \in kept THEN @[f] ELSE NoRecord],
                    !.evidence = IF "artifacts" \in kept THEN @ ELSE {}]
        BY <2>3, <3>3 DEF RemoveFolder
      <4> DEFINE files == [f \in DOMAIN folder.files |->
                             IF Home(f) \in kept THEN folder.files[f] ELSE NoRecord]
                 evidence == IF "artifacts" \in kept THEN folder.evidence ELSE {}
      <4>2. folder' = [folder EXCEPT !.dirs = kept \cup {"workspace"},
                                     !.files = files, !.evidence = evidence]
        BY <4>1
      <4>3. DOMAIN files = DOMAIN folder.files
        OBVIOUS
      <4> HIDE DEF files, evidence
      <4> QED BY <3>2, <4>2, <4>3
    <3> QED BY <3>1, <3>3
  <2> QED BY <2>1, <2>2, <2>3
<1> QED BY <1>1, <1>3, <1>4, OtherRequestKeeps

LEMMA ReceiveWorkspaceKeeps ==
  ASSUME WorkspaceInv, NEW req, ReceiveWorkspace(req)
  PROVE  WorkspaceInv'
<1> DEFINE op == Endpoint(req)
<1>0. PICK new :
        new = [id |-> workspaceCount + 1, req |-> req, op |-> op, at |-> FirstStep(op),
               record |-> NoRecord, tree |-> FALSE, success |-> FALSE,
               alone |-> workspaceCalls = {}]
  OBVIOUS
<1>1. workspaceCalls' = {[h EXCEPT !.alone = FALSE] : h \in workspaceCalls} \cup {new}
  BY <1>0 DEF ReceiveWorkspace
<1>2. UNCHANGED <<folder, registered, processes, lastEnded>>
  BY DEF ReceiveWorkspace
<1>3. FolderOk' /\ RunningWasPlannable'
  BY <1>2, FolderChanges, CommandsStay DEF WorkspaceInv
<1>4. FirstStep(op) \in {"worktree", "lookup", "check", "read", "answer"}
      /\ (op = "create" <=> FirstStep(op) = "worktree")
  BY DEF FirstStep, CreateSteps
<1> HIDE DEF op
<1>5. WorkspaceCallOk(new) /\ CreateProgress(new)'
  BY <1>0, <1>4 DEF WorkspaceCallOk, CreateProgress, WrittenBefore, Manifests
<1>6. ASSUME NEW g \in workspaceCalls', g # new
      PROVE  WorkspaceCallOk(g) /\ ~g.alone
  <2>1. PICK h \in workspaceCalls : g = [h EXCEPT !.alone = FALSE]
    BY <1>1, <1>6
  <2>2. WorkspaceCallOk(h)
    BY DEF WorkspaceInv
  <2> QED BY <2>1, <2>2 DEF WorkspaceCallOk, RunGate
<1>7. new.alone => workspaceCalls' = {new}
  BY <1>0, <1>1
<1>8. ASSUME NEW g \in workspaceCalls'
      PROVE  (WorkspaceCallOk(g) /\ CreateProgress(g) /\ (g.alone => workspaceCalls = {g}))'
  <2>1. CASE g = new
    <3>1. WorkspaceCallOk(g) /\ CreateProgress(g)' /\ (g.alone => workspaceCalls' = {g})
      BY <1>5, <1>7, <2>1
    <3> QED BY <3>1 DEF WorkspaceCallOk, RunGate
  <2>2. CASE g # new
    BY <1>6, <2>2 DEF WorkspaceCallOk, RunGate, CreateProgress
  <2> QED BY <2>1, <2>2
<1>9. workspaceCalls' # {}
  BY <1>1
<1> QED BY <1>3, <1>8, <1>9 DEF WorkspaceInv, CreateHeals

LEMMA SandboxCrashKeeps ==
  ASSUME WorkspaceInv, SandboxCrash
  PROVE  WorkspaceInv'
<1>1. workspaceCalls' = {} /\ lastEnded'.op # "create" /\ UNCHANGED processes
  BY DEF SandboxCrash
<1>2. FolderOk'
  <2>1. PICK torn : folder' = [folder EXCEPT !.files = [f \in DOMAIN @ |->
                       IF f \in torn /\ Home(f) \in folder.dirs THEN TornFile ELSE @[f]]]
    BY DEF SandboxCrash
  <2> DEFINE files == [f \in DOMAIN folder.files |->
                IF f \in torn /\ Home(f) \in folder.dirs THEN TornFile ELSE folder.files[f]]
  <2>2. folder' = [folder EXCEPT !.files = files] /\ DOMAIN files = DOMAIN folder.files
    BY <2>1
  <2> HIDE DEF files
  <2> QED BY <2>2 DEF WorkspaceInv, FolderOk
<1>3. RunningWasPlannable'
  BY <1>1, CommandsStay
<1> QED BY <1>1, <1>2, <1>3 DEF WorkspaceInv, CreateHeals

LEMMA WorkspaceInvInit == WorkspaceInit => WorkspaceInv
BY DEF WorkspaceInit, WorkspaceInv, FolderOk, NoFolder, RunningWasPlannable, CreateHeals

LEMMA WorkspaceInvNext == WorkspaceInv /\ [WorkspaceNext]_workspaceVars => WorkspaceInv'
<1> SUFFICES ASSUME WorkspaceInv, [WorkspaceNext]_workspaceVars PROVE WorkspaceInv'
  OBVIOUS
<1>1. ASSUME NEW req \in WorkspaceRequests, ReceiveWorkspace(req) PROVE WorkspaceInv'
  BY <1>1, ReceiveWorkspaceKeeps
<1>2. ASSUME NEW h \in workspaceCalls,
             CreateWorktree(h) \/ MakeFolders(h) \/ WriteRecord(h) \/ WriteManifest(h)
      PROVE  WorkspaceInv'
  BY <1>2, CreateWorktreeKeeps, MakeFoldersKeeps, WriteRecordKeeps, WriteManifestKeeps
<1>3. ASSUME NEW h \in workspaceCalls,
             \/ PlanCommand(h) \/ RunCommandBlocked(h) \/ LookUpRun(h) \/ StartCommand(h)
             \/ CommandTimesOut(h) \/ WriteEvidence(h)
      PROVE  WorkspaceInv'
  BY <1>3, CommandEndKeeps, LookUpRunKeeps, StartCommandKeeps
<1>4. ASSUME NEW h \in workspaceCalls,
             \/ LookUpForChange(h) \/ WriteSnapshot(h) \/ RemoveFolder(h) \/ Unregister(h)
             \/ ReadManifests(h) \/ AnswerTool(h) \/ CheckProvision(h) \/ ApplyObject(h)
      PROVE  WorkspaceInv'
  BY <1>4, ChangesKeep, ReadsKeep
<1>5. ASSUME NEW p \in processes, ProcessEnds(p) PROVE WorkspaceInv'
  BY <1>5, ProcessEndsKeeps
<1>6. CASE SandboxCrash
  BY <1>6, SandboxCrashKeeps
<1>7. CASE UNCHANGED workspaceVars
  BY <1>7 DEF workspaceVars, WorkspaceInv, FolderOk, WorkspaceCallOk, RunGate, CreateProgress,
              RunningWasPlannable, CreateHeals
<1> QED BY <1>1, <1>2, <1>3, <1>4, <1>5, <1>6, <1>7 DEF WorkspaceNext

LEMMA WorkspaceInvAlways == WorkspaceSpec => []WorkspaceInv
BY WorkspaceInvInit, WorkspaceInvNext, PTL DEF WorkspaceSpec

\* However creates, cleanups, commands and crashes meet in one directory, a
\* command only runs if planning calls it ready (command_run_inner).
THEOREM RunningStaysPlannable == WorkspaceSpec => []RunningWasPlannable
<1>1. WorkspaceInv => RunningWasPlannable
  BY DEF WorkspaceInv
<1> QED BY <1>1, WorkspaceInvAlways, PTL

\* A create that nothing disturbed leaves everything complete and its own,
\* whatever it found (create_workspace_inner).
THEOREM CreateAlwaysHeals == WorkspaceSpec => []CreateHeals
<1>1. WorkspaceInv => CreateHeals
  BY DEF WorkspaceInv
<1> QED BY <1>1, WorkspaceInvAlways, PTL
-----------------------------------------------------------------------------
(* Induction.  The library states it for a predicate that is a parameter;    *)
(* for a set the provers can use it.                                         *)

LEMMA NatSetInduction ==
  ASSUME NEW S, 0 \in S, \A n \in Nat : n \in S => n + 1 \in S
  PROVE  Nat \subseteq S
<1> DEFINE R == OpToRel(<, Nat)
           T == Nat \ S
<1>1. IsWellFoundedOn(R, Nat)
  BY NatLessThanWellFounded
<1> SUFFICES ASSUME T # {} PROVE FALSE
  OBVIOUS
<1>2. PICK x \in T : \A y \in T : ~(<<y, x>> \in R)
  <2> HIDE DEF R, T
  <2>1. T \subseteq Nat
     BY DEF T
  <2> QED BY <1>1, <2>1, WFMin
<1>3. x # 0 /\ x - 1 \in Nat /\ x - 1 < x
  OBVIOUS
<1>4. <<x - 1, x>> \in R
  BY <1>3 DEF OpToRel
<1>5. x - 1 \in S
  BY <1>2, <1>3, <1>4
<1> QED BY <1>3, <1>5
-----------------------------------------------------------------------------
(* Sequences that grow, and what is computed along them.                    *)

IsSeq(s) == \E S : s \in Seq(S)

LEMMA AppendSeq ==
  ASSUME NEW s, IsSeq(s), NEW e
  PROVE  /\ IsSeq(Append(s, e)) /\ Len(s) \in Nat /\ Len(Append(s, e)) = Len(s) + 1
         /\ \A i \in 1..Len(s) : Append(s, e)[i] = s[i]
         /\ Append(s, e)[Len(s) + 1] = e
         /\ s \o <<e>> = Append(s, e)
<1>1. PICK S : s \in Seq(S)
  BY DEF IsSeq
<1>2. s \in Seq(S \cup {e}) /\ e \in S \cup {e}
  BY <1>1
<1>3. /\ Append(s, e) \in Seq(S \cup {e}) /\ Len(s) \in Nat /\ Len(Append(s, e)) = Len(s) + 1
      /\ \A i \in 1..Len(s) : Append(s, e)[i] = s[i]
      /\ Append(s, e)[Len(s) + 1] = e
  BY <1>2
<1>4. s \o <<e>> = Append(s, e)
  BY <1>2
<1> QED BY <1>3, <1>4 DEF IsSeq

\* One line of the file, for LoadJournal.
LoadItem(store, item) == IF IsEntry(item) THEN ApplyJournalEntry(store, item) ELSE store

LoadRun(f, k, s) ==
    f = [n \in 0..k |-> IF n = 0 THEN EmptyLedger ELSE LoadItem(f[n - 1], s[n])]

LEMMA LoadRunExists ==
  ASSUME NEW s, NEW k \in Nat
  PROVE  \E f : LoadRun(f, k, s)
<1> DEFINE S == {m \in Nat : \E f : LoadRun(f, m, s)}
<1>1. 0 \in S
  <2> DEFINE f == [n \in 0..0 |-> EmptyLedger]
  <2>1. LoadRun(f, 0, s)
    BY DEF LoadRun
  <2> QED BY <2>1
<1>2. ASSUME NEW m \in Nat, m \in S PROVE m + 1 \in S
  <2>1. PICK f : LoadRun(f, m, s)
    BY <1>2
  <2> DEFINE g == [n \in 0..m + 1 |-> IF n = m + 1 THEN LoadItem(f[m], s[n]) ELSE f[n]]
             h == [n \in 0..m + 1 |-> IF n = 0 THEN EmptyLedger ELSE LoadItem(g[n - 1], s[n])]
  <2>2. ASSUME NEW n \in 0..m + 1 PROVE g[n] = h[n]
    <3>1. CASE n = 0
      BY <2>1, <3>1 DEF LoadRun
    <3>2. CASE n = m + 1
      BY <3>2
    <3>3. CASE n \in 1..m
      <4>1. g[n] = f[n] /\ g[n - 1] = f[n - 1] /\ n # 0 /\ n \in 0..m
        BY <3>3
      <4>2. f[n] = LoadItem(f[n - 1], s[n])
        BY <2>1, <4>1 DEF LoadRun
      <4> QED BY <3>3, <4>1, <4>2
    <3> QED BY <3>1, <3>2, <3>3
  <2>3. g = h
    BY <2>2
  <2>4. LoadRun(g, m + 1, s)
    BY <2>3 DEF LoadRun
  <2> QED BY <2>4
<1> HIDE DEF S
<1>3. Nat \subseteq S
  BY <1>1, <1>2, NatSetInduction
<1> QED BY <1>3 DEF S

LEMMA LoadIsRun ==
  ASSUME NEW s, Len(s) \in Nat
  PROVE  \E f : LoadRun(f, Len(s), s) /\ LoadJournal(s) = f[Len(s)]
<1> DEFINE f == CHOOSE f : LoadRun(f, Len(s), s)
<1>1. LoadRun(f, Len(s), s)
  <2>1. \E g : LoadRun(g, Len(s), s)
    BY LoadRunExists
  <2> QED BY <2>1, Zenon
<1>2. LoadJournal(s) = f[Len(s)]
  BY DEF LoadJournal, LoadRun, LoadItem
<1> QED BY <1>1, <1>2

LEMMA LoadEmpty == LoadJournal(<<>>) = EmptyLedger
<1>1. Len(<<>>) = 0
  OBVIOUS
<1>2. PICK f : LoadRun(f, 0, <<>>) /\ LoadJournal(<<>>) = f[0]
  BY <1>1, LoadIsRun
<1> QED BY <1>2 DEF LoadRun

LEMMA LoadAppend ==
  ASSUME NEW s, IsSeq(s), NEW e
  PROVE  LoadJournal(Append(s, e)) = LoadItem(LoadJournal(s), e)
<1> DEFINE L == Len(s)
           more == Append(s, e)
<1>1. /\ L \in Nat /\ Len(more) = L + 1 /\ more[L + 1] = e
      /\ \A i \in 1..L : more[i] = s[i]
  BY AppendSeq
<1> HIDE DEF L, more
<1>2. PICK f : LoadRun(f, L, s) /\ LoadJournal(s) = f[L]
  BY <1>1, LoadIsRun DEF L
<1>3. PICK g : LoadRun(g, L + 1, more) /\ LoadJournal(more) = g[L + 1]
  BY <1>1, LoadIsRun
<1> DEFINE S == {n \in Nat : n <= L => g[n] = f[n]}
<1>4. 0 \in S
  BY <1>1, <1>2, <1>3 DEF LoadRun
<1>5. ASSUME NEW n \in Nat, n \in S PROVE n + 1 \in S
  <2> SUFFICES ASSUME n + 1 <= L PROVE g[n + 1] = f[n + 1]
    OBVIOUS
  <2>1. f[n + 1] = LoadItem(f[n], s[n + 1])
    BY <1>1, <1>2 DEF LoadRun
  <2>2. g[n + 1] = LoadItem(g[n], more[n + 1])
    BY <1>1, <1>3 DEF LoadRun
  <2> QED BY <1>1, <1>5, <2>1, <2>2
<1> HIDE DEF S
<1>6. Nat \subseteq S
  BY <1>4, <1>5, NatSetInduction
<1>7. g[L] = f[L]
  BY <1>1, <1>6 DEF S
<1>8. g[L + 1] = LoadItem(g[L], e)
  BY <1>1, <1>3 DEF LoadRun
<1> QED BY <1>2, <1>3, <1>7, <1>8 DEF more

\* One event, for RecordChanges.
KeepChange(kept, event) == IF event.action # "Read" THEN Append(kept, event) ELSE kept

ChangesRun(f, k, s) ==
    f = [n \in 0..k |-> IF n = 0 THEN <<>> ELSE KeepChange(f[n - 1], s[n])]

LEMMA ChangesRunExists ==
  ASSUME NEW s, NEW k \in Nat
  PROVE  \E f : ChangesRun(f, k, s)
<1> DEFINE S == {m \in Nat : \E f : ChangesRun(f, m, s)}
<1>1. 0 \in S
  <2> DEFINE f == [n \in 0..0 |-> <<>>]
  <2>1. ChangesRun(f, 0, s)
    BY DEF ChangesRun
  <2> QED BY <2>1
<1>2. ASSUME NEW m \in Nat, m \in S PROVE m + 1 \in S
  <2>1. PICK f : ChangesRun(f, m, s)
    BY <1>2
  <2> DEFINE g == [n \in 0..m + 1 |-> IF n = m + 1 THEN KeepChange(f[m], s[n]) ELSE f[n]]
             h == [n \in 0..m + 1 |-> IF n = 0 THEN <<>> ELSE KeepChange(g[n - 1], s[n])]
  <2>2. ASSUME NEW n \in 0..m + 1 PROVE g[n] = h[n]
    <3>1. CASE n = 0
      BY <2>1, <3>1 DEF ChangesRun
    <3>2. CASE n = m + 1
      BY <3>2
    <3>3. CASE n \in 1..m
      <4>1. g[n] = f[n] /\ g[n - 1] = f[n - 1] /\ n # 0 /\ n \in 0..m
        BY <3>3
      <4>2. f[n] = KeepChange(f[n - 1], s[n])
        BY <2>1, <4>1 DEF ChangesRun
      <4> QED BY <3>3, <4>1, <4>2
    <3> QED BY <3>1, <3>2, <3>3
  <2>3. g = h
    BY <2>2
  <2>4. ChangesRun(g, m + 1, s)
    BY <2>3 DEF ChangesRun
  <2> QED BY <2>4
<1> HIDE DEF S
<1>3. Nat \subseteq S
  BY <1>1, <1>2, NatSetInduction
<1> QED BY <1>3 DEF S

LEMMA ChangesIsRun ==
  ASSUME NEW s, Len(s) \in Nat
  PROVE  \E f : ChangesRun(f, Len(s), s) /\ RecordChanges(s) = f[Len(s)]
<1> DEFINE f == CHOOSE f : ChangesRun(f, Len(s), s)
<1>1. ChangesRun(f, Len(s), s)
  <2>1. \E g : ChangesRun(g, Len(s), s)
    BY ChangesRunExists
  <2> QED BY <2>1, Zenon
<1>2. RecordChanges(s) = f[Len(s)]
  BY DEF RecordChanges, ChangesRun, KeepChange
<1> QED BY <1>1, <1>2

LEMMA ChangesEmpty == RecordChanges(<<>>) = <<>>
<1>1. Len(<<>>) = 0
  OBVIOUS
<1>2. PICK f : ChangesRun(f, 0, <<>>) /\ RecordChanges(<<>>) = f[0]
  BY <1>1, ChangesIsRun
<1> QED BY <1>2 DEF ChangesRun

LEMMA ChangesAppend ==
  ASSUME NEW s, IsSeq(s), NEW e
  PROVE  RecordChanges(Append(s, e)) = KeepChange(RecordChanges(s), e)
<1> DEFINE L == Len(s)
           more == Append(s, e)
<1>1. /\ L \in Nat /\ Len(more) = L + 1 /\ more[L + 1] = e
      /\ \A i \in 1..L : more[i] = s[i]
  BY AppendSeq
<1> HIDE DEF L, more
<1>2. PICK f : ChangesRun(f, L, s) /\ RecordChanges(s) = f[L]
  BY <1>1, ChangesIsRun DEF L
<1>3. PICK g : ChangesRun(g, L + 1, more) /\ RecordChanges(more) = g[L + 1]
  BY <1>1, ChangesIsRun
<1> DEFINE S == {n \in Nat : n <= L => g[n] = f[n]}
<1>4. 0 \in S
  BY <1>1, <1>2, <1>3 DEF ChangesRun
<1>5. ASSUME NEW n \in Nat, n \in S PROVE n + 1 \in S
  <2> SUFFICES ASSUME n + 1 <= L PROVE g[n + 1] = f[n + 1]
    OBVIOUS
  <2>1. f[n + 1] = KeepChange(f[n], s[n + 1])
    BY <1>1, <1>2 DEF ChangesRun
  <2>2. g[n + 1] = KeepChange(g[n], more[n + 1])
    BY <1>1, <1>3 DEF ChangesRun
  <2> QED BY <1>1, <1>5, <2>1, <2>2
<1> HIDE DEF S
<1>6. Nat \subseteq S
  BY <1>4, <1>5, NatSetInduction
<1>7. g[L] = f[L]
  BY <1>1, <1>6 DEF S
<1>8. g[L + 1] = KeepChange(g[L], e)
  BY <1>1, <1>3 DEF ChangesRun
<1> QED BY <1>2, <1>3, <1>7, <1>8 DEF more
-----------------------------------------------------------------------------
(* Memory gateway: the invariant.                                           *)

IsRecord(r) ==
    r = [key |-> r.key, goal |-> r.goal, content |-> r.content, last |-> r.last,
         promoted |-> r.promoted, invalidated |-> r.invalidated]

\* One record per key.
RecordsOk(records) ==
    /\ \A r \in records : IsRecord(r)
    /\ \A a, b \in records : a.key = b.key => a = b

EntryOk(entry) ==
    /\ entry.kind \in {"Write", "Read", "Join", "Retract"}
    /\ entry.kind = "Write" => IsRecord(entry.record)

LedgerOk(store) ==
    /\ store = [records |-> store.records, events |-> store.events]
    /\ RecordsOk(store.records)
    /\ IsSeq(store.events)

JournalOk ==
    /\ IsSeq(memoryJournal)
    /\ \A i \in 1..Len(memoryJournal) : IsEntry(memoryJournal[i]) => EntryOk(memoryJournal[i])

HoldsLock(h) == h.at \in {"entry", "newline"} /\ Op(h) # "search"

\* Where a request of each kind can be.
MemoryCallOk(h) ==
    /\ h = [req |-> h.req, content |-> h.content, phase |-> h.phase, at |-> h.at,
            entry |-> h.entry, todo |-> h.todo, hits |-> h.hits, failed |-> h.failed,
            ready |-> h.ready, alone |-> h.alone]
    /\ h.req.op \in MemoryTools
    /\ h.content \in 1..memorySent
    /\ h.phase = 1 \/ (h.phase = 2 /\ h.req.op = "edit")
    /\ h.at \in {"clone", "repair", "ledger", "note", "entry", "newline", "graphiti", "qdrant", "done"}
    /\ h.at = "note" => Op(h) = "search"
    /\ h.at = "entry" => EntryOk(h.entry) /\ (h.entry.kind = "Read" <=> Op(h) = "search")
    /\ h.at \in {"clone", "repair"} => h.req.op = "repair"
    /\ h.req.op = "repair" => h.at \in {"clone", "repair", "done"}

CallsOk ==
    /\ memorySent \in Nat
    /\ ~memoryUp => memoryCalls = {}
    /\ \A h \in memoryCalls : MemoryCallOk(h) /\ (h.alone => memoryCalls = {h})
    /\ \A h, k \in memoryCalls : h.content = k.content => h = k
    /\ \A h, k \in memoryCalls : HoldsLock(h) /\ HoldsLock(k) => h = k

\* The searches that changed the ledger and have not journalled it.
Readers == {h \in memoryCalls : h.at = "entry" /\ h.entry.kind = "Read"}
Writers == {h \in memoryCalls : h.at = "entry" /\ h.entry.kind # "Read"}
Notes == {h.content : h \in Readers}

\* One store is the other but for the order and for n of its read events.
Lags(store, ahead, n) ==
    /\ store.records = ahead.records
    /\ RecordChanges(store.events) = RecordChanges(ahead.events)
    /\ Len(store.events) + n = Len(ahead.events)

\* The journal lags behind the ledger by the change of the one that holds the
\* lock and by the read events under way.
JournalFollows ==
    memoryUp /\ memoryIntact =>
        \/ Writers = {} /\ Lags(LoadJournal(memoryJournal), ledger, Cardinality(Notes))
        \/ \E h \in Writers :
              Lags(ApplyJournalEntry(LoadJournal(memoryJournal), h.entry), ledger, Cardinality(Notes))

RestartInv == LedgerOk(ledger) /\ JournalOk /\ CallsOk /\ JournalFollows

InGraph(r) == r.key \in DOMAIN graph /\ graph[r.key] = r.content
InPoints(r) ==
    RecordId(r.key) \in DOMAIN points /\ points[RecordId(r.key)] = RecordPoint(r)

\* What an undisturbed repair has not healed yet is still on its list.
RepairProgress(h) ==
    h.alone /\ h.at \in {"repair", "done"} /\ h.req.op = "repair" /\ ~h.req.dryRun =>
        /\ h.todo \subseteq Selected(h.req, ledger.records) \X {"graphiti", "qdrant"}
        /\ h.at = "done" => h.todo = {}
        /\ ~h.failed => \A r \in Selected(h.req, ledger.records) :
                 /\ <<r, "graphiti">> \in h.todo \/ InGraph(r)
                 /\ <<r, "qdrant">> \in h.todo \/ InPoints(r)

Replaced(h) ==
    \A r \in ledger.records :
        r.key \in h.req.keys \ {h.req.key} /\ r.goal = h.req.goal => r.invalidated
Replacement(h) ==
    /\ \E r \in ledger.records : r.key = h.req.key /\ r.goal = h.req.goal /\ ~r.invalidated
    /\ \A r \in ledger.records : r.key = h.req.key => r.content = h.content

\* What an undisturbed edit has changed when it comes to a step.
EditProgress(h) ==
    h.alone /\ h.req.op = "edit" =>
        /\ h.at = "done" => h.phase = 2
        /\ h.phase = 2 \/ h.at # "ledger" => Replaced(h)
        /\ h.phase = 2 /\ h.at # "ledger" => Replacement(h)

MemoryInv == RestartInv /\ \A h \in memoryCalls : RepairProgress(h) /\ EditProgress(h)
-----------------------------------------------------------------------------
(* Memory gateway: what an entry does to a store.                           *)

RecordsAfter(records, entry) ==
    CASE entry.kind = "Write" -> PutRecord(records, entry.record)
      [] entry.kind = "Read" -> records
      [] entry.kind = "Join" -> Invalidate(Promote(records, entry.promoted), entry.invalidated)
      [] entry.kind = "Retract" -> RetractRecords(records, entry.retracted)

EventsAfter(events, entry) ==
    CASE entry.kind = "Write" -> Append(events, MemoryEvent(entry.goal, "Write", {entry.record.key}))
      [] entry.kind = "Read" -> Append(events, MemoryEvent(entry.goal, "Read", {}))
      [] entry.kind = "Join" ->
            Append(Append(events, MemoryEvent(entry.goal, "Join", entry.promoted)),
                   MemoryEvent(entry.goal, "Invalidate", entry.invalidated))
      [] entry.kind = "Retract" -> Append(events, MemoryEvent(entry.goal, "Retract", entry.retracted))

LEMMA HappenedShape ==
  ASSUME NEW store, LedgerOk(store), NEW records, NEW events
  PROVE  Happened(store, records, events)
           = [records |-> records, events |-> store.events \o events]
<1>1. store = [records |-> store.records, events |-> store.events]
  BY DEF LedgerOk
<1>2. PICK one : one = [store EXCEPT !.records = records]
  OBVIOUS
<1>3. one = [records |-> records, events |-> store.events]
  BY <1>1, <1>2
<1>4. Happened(store, records, events) = [one EXCEPT !.events = store.events \o events]
  BY <1>1, <1>2 DEF Happened
<1> QED BY <1>3, <1>4

LEMMA OneEvent ==
  ASSUME NEW store, LedgerOk(store), NEW records, NEW a
  PROVE  Happened(store, records, <<a>>)
           = [records |-> records, events |-> Append(store.events, a)]
<1>1. store.events \o <<a>> = Append(store.events, a)
  BY AppendSeq DEF LedgerOk
<1> QED BY <1>1, HappenedShape

LEMMA TwoEvents ==
  ASSUME NEW store, LedgerOk(store), NEW records, NEW a, NEW b
  PROVE  Happened(store, records, <<a, b>>)
           = [records |-> records, events |-> Append(Append(store.events, a), b)]
<1>1. PICK S : store.events \in Seq(S)
  BY DEF LedgerOk, IsSeq
<1>2. store.events \in Seq(S \cup {a, b})
  BY <1>1
<1>3. store.events \o <<a, b>> = Append(Append(store.events, a), b)
  BY <1>2
<1> QED BY <1>3, HappenedShape

LEMMA ApplyShape ==
  ASSUME NEW store, LedgerOk(store), NEW entry, EntryOk(entry)
  PROVE  ApplyJournalEntry(store, entry)
           = [records |-> RecordsAfter(store.records, entry),
              events |-> EventsAfter(store.events, entry)]
<1>1. CASE entry.kind = "Write"
  BY <1>1, OneEvent DEF ApplyJournalEntry, RecordsAfter, EventsAfter
<1>2. CASE entry.kind = "Read"
  BY <1>2, OneEvent DEF ApplyJournalEntry, RecordsAfter, EventsAfter
<1>3. CASE entry.kind = "Join"
  BY <1>3, TwoEvents DEF ApplyJournalEntry, RecordsAfter, EventsAfter
<1>4. CASE entry.kind = "Retract"
  BY <1>4, OneEvent DEF ApplyJournalEntry, RecordsAfter, EventsAfter
<1> QED BY <1>1, <1>2, <1>3, <1>4 DEF EntryOk

LEMMA RecordsStayOk ==
  ASSUME NEW records, RecordsOk(records), NEW entry, EntryOk(entry)
  PROVE  RecordsOk(RecordsAfter(records, entry))
<1>1. CASE entry.kind = "Write"
  <2>1. RecordsAfter(records, entry) = PutRecord(records, entry.record)
    BY <1>1 DEF RecordsAfter
  <2>2. IsRecord(entry.record)
    BY <1>1 DEF EntryOk
  <2> QED BY <2>1, <2>2 DEF RecordsOk, PutRecord
<1>2. CASE entry.kind = "Read"
  BY <1>2 DEF RecordsAfter
<1>3. ASSUME NEW some, RecordsOk(some), NEW image, NEW f,
             image = {f[r] : r \in some},
             \A r \in some : IsRecord(f[r]) /\ f[r].key = r.key
      PROVE  RecordsOk(image)
  BY <1>3 DEF RecordsOk
<1>4. ASSUME NEW some, RecordsOk(some), NEW keys PROVE RecordsOk(Promote(some, keys))
  <2> DEFINE f == [r \in some |->
                IF r.key \in keys THEN [r EXCEPT !.promoted = TRUE, !.last = "Join"] ELSE r]
  <2>1. ASSUME NEW r \in some PROVE IsRecord(f[r]) /\ f[r].key = r.key
    <3>1. IsRecord(r)
      BY <1>4 DEF RecordsOk
    <3>2. PICK one : one = [r EXCEPT !.promoted = TRUE]
      OBVIOUS
    <3>3. IsRecord(one) /\ one.key = r.key
      BY <3>1, <3>2 DEF IsRecord
    <3>4. CASE r.key \in keys
      <4>1. f[r] = [one EXCEPT !.last = "Join"]
        BY <3>2, <3>4
      <4> QED BY <3>3, <4>1 DEF IsRecord
    <3> QED BY <3>1, <3>4
  <2>2. Promote(some, keys) = {f[r] : r \in some}
    BY DEF Promote
  <2> HIDE DEF f
  <2> QED BY <1>3, <1>4, <2>1, <2>2
<1>5. ASSUME NEW some, RecordsOk(some), NEW keys PROVE RecordsOk(Invalidate(some, keys))
  <2> DEFINE f == [r \in some |-> IF r.key \in keys THEN [r EXCEPT !.invalidated = TRUE] ELSE r]
  <2>1. ASSUME NEW r \in some PROVE IsRecord(f[r]) /\ f[r].key = r.key
    <3>1. IsRecord(r)
      BY <1>5 DEF RecordsOk
    <3> QED BY <3>1 DEF IsRecord
  <2>2. Invalidate(some, keys) = {f[r] : r \in some}
    BY DEF Invalidate
  <2> HIDE DEF f
  <2> QED BY <1>3, <1>5, <2>1, <2>2
<1>6. ASSUME NEW some, RecordsOk(some), NEW keys PROVE RecordsOk(RetractRecords(some, keys))
  <2> DEFINE f == [r \in some |->
                IF r.key \in keys THEN [r EXCEPT !.invalidated = TRUE, !.last = "Retract"] ELSE r]
  <2>1. ASSUME NEW r \in some PROVE IsRecord(f[r]) /\ f[r].key = r.key
    <3>1. IsRecord(r)
      BY <1>6 DEF RecordsOk
    <3>2. PICK one : one = [r EXCEPT !.invalidated = TRUE]
      OBVIOUS
    <3>3. IsRecord(one) /\ one.key = r.key
      BY <3>1, <3>2 DEF IsRecord
    <3>4. CASE r.key \in keys
      <4>1. f[r] = [one EXCEPT !.last = "Retract"]
        BY <3>2, <3>4
      <4> QED BY <3>3, <4>1 DEF IsRecord
    <3> QED BY <3>1, <3>4
  <2>2. RetractRecords(some, keys) = {f[r] : r \in some}
    BY DEF RetractRecords
  <2> HIDE DEF f
  <2> QED BY <1>3, <1>6, <2>1, <2>2
<1>7. CASE entry.kind = "Join"
  BY <1>4, <1>5, <1>7 DEF RecordsAfter
<1>8. CASE entry.kind = "Retract"
  BY <1>6, <1>8 DEF RecordsAfter
<1> QED BY <1>1, <1>2, <1>7, <1>8 DEF EntryOk

\* An entry adds one event or two, and RecordChanges keeps them unless read.
LEMMA EventsGrow ==
  ASSUME NEW events, IsSeq(events), NEW entry, EntryOk(entry)
  PROVE  /\ IsSeq(EventsAfter(events, entry))
         /\ Len(events) \in Nat
         /\ Len(EventsAfter(events, entry)) = Len(events) + (IF entry.kind = "Join" THEN 2 ELSE 1)
         /\ RecordChanges(EventsAfter(events, entry))
              = IF entry.kind = "Read" THEN RecordChanges(events)
                ELSE EventsAfter(RecordChanges(events), entry)
<1>1. ASSUME NEW seq, IsSeq(seq), NEW event
      PROVE  /\ IsSeq(Append(seq, event)) /\ Len(seq) \in Nat
             /\ Len(Append(seq, event)) = Len(seq) + 1
             /\ event.action # "Read" =>
                   RecordChanges(Append(seq, event)) = Append(RecordChanges(seq), event)
             /\ event.action = "Read" => RecordChanges(Append(seq, event)) = RecordChanges(seq)
  BY <1>1, AppendSeq, ChangesAppend DEF KeepChange
<1>2. CASE entry.kind = "Write"
  <2> DEFINE event == MemoryEvent(entry.goal, "Write", {entry.record.key})
  <2>1. event.action = "Write"
    BY DEF MemoryEvent
  <2>2. /\ EventsAfter(events, entry) = Append(events, event)
        /\ EventsAfter(RecordChanges(events), entry) = Append(RecordChanges(events), event)
    BY <1>2 DEF EventsAfter
  <2> HIDE DEF event
  <2>3. /\ IsSeq(Append(events, event)) /\ Len(events) \in Nat
        /\ Len(Append(events, event)) = Len(events) + 1
        /\ event.action # "Read" =>
              RecordChanges(Append(events, event)) = Append(RecordChanges(events), event)
        /\ event.action = "Read" => RecordChanges(Append(events, event)) = RecordChanges(events)
    BY <1>1
  <2> QED BY <1>2, <2>1, <2>2, <2>3
<1>3. CASE entry.kind = "Read"
  <2> DEFINE event == MemoryEvent(entry.goal, "Read", {})
  <2>1. event.action = "Read"
    BY DEF MemoryEvent
  <2>2. /\ EventsAfter(events, entry) = Append(events, event)
        /\ EventsAfter(RecordChanges(events), entry) = Append(RecordChanges(events), event)
    BY <1>3 DEF EventsAfter
  <2> HIDE DEF event
  <2>3. /\ IsSeq(Append(events, event)) /\ Len(events) \in Nat
        /\ Len(Append(events, event)) = Len(events) + 1
        /\ event.action # "Read" =>
              RecordChanges(Append(events, event)) = Append(RecordChanges(events), event)
        /\ event.action = "Read" => RecordChanges(Append(events, event)) = RecordChanges(events)
    BY <1>1
  <2> QED BY <1>3, <2>1, <2>2, <2>3
<1>5. CASE entry.kind = "Retract"
  <2> DEFINE event == MemoryEvent(entry.goal, "Retract", entry.retracted)
  <2>1. event.action = "Retract"
    BY DEF MemoryEvent
  <2>2. /\ EventsAfter(events, entry) = Append(events, event)
        /\ EventsAfter(RecordChanges(events), entry) = Append(RecordChanges(events), event)
    BY <1>5 DEF EventsAfter
  <2> HIDE DEF event
  <2>3. /\ IsSeq(Append(events, event)) /\ Len(events) \in Nat
        /\ Len(Append(events, event)) = Len(events) + 1
        /\ event.action # "Read" =>
              RecordChanges(Append(events, event)) = Append(RecordChanges(events), event)
        /\ event.action = "Read" => RecordChanges(Append(events, event)) = RecordChanges(events)
    BY <1>1
  <2> QED BY <1>5, <2>1, <2>2, <2>3
<1>4. CASE entry.kind = "Join"
  <2> DEFINE join == MemoryEvent(entry.goal, "Join", entry.promoted)
             invalidate == MemoryEvent(entry.goal, "Invalidate", entry.invalidated)
             one == Append(events, join)
  <2>1. join.action = "Join" /\ invalidate.action = "Invalidate"
    BY DEF MemoryEvent
  <2>2. /\ EventsAfter(events, entry) = Append(one, invalidate)
        /\ EventsAfter(RecordChanges(events), entry)
             = Append(Append(RecordChanges(events), join), invalidate)
    BY <1>4 DEF EventsAfter
  <2> HIDE DEF join, invalidate
  <2>3. IsSeq(one) /\ Len(events) \in Nat /\ Len(one) = Len(events) + 1
        /\ RecordChanges(one) = Append(RecordChanges(events), join)
    BY <1>1, <2>1
  <2> HIDE DEF one
  <2>4. IsSeq(Append(one, invalidate)) /\ Len(Append(one, invalidate)) = Len(one) + 1
        /\ RecordChanges(Append(one, invalidate)) = Append(RecordChanges(one), invalidate)
    BY <1>1, <2>1, <2>3
  <2> QED BY <1>4, <2>2, <2>3, <2>4
<1> QED BY <1>2, <1>3, <1>4, <1>5 DEF EntryOk

LEMMA ApplyOk ==
  ASSUME NEW store, LedgerOk(store), NEW entry, EntryOk(entry)
  PROVE  LedgerOk(ApplyJournalEntry(store, entry))
<1>1. IsSeq(EventsAfter(store.events, entry)) /\ RecordsOk(RecordsAfter(store.records, entry))
  BY EventsGrow, RecordsStayOk DEF LedgerOk
<1> QED BY <1>1, ApplyShape DEF LedgerOk

\* The same entry applied to both keeps one store as far behind the other.
LEMMA ApplyRespects ==
  ASSUME NEW store, LedgerOk(store), NEW ahead, LedgerOk(ahead), NEW n \in Nat,
         Lags(store, ahead, n), NEW entry, EntryOk(entry)
  PROVE  Lags(ApplyJournalEntry(store, entry), ApplyJournalEntry(ahead, entry), n)
<1>1. IsSeq(store.events) /\ IsSeq(ahead.events)
  BY DEF LedgerOk
<1> DEFINE growth == IF entry.kind = "Join" THEN 2 ELSE 1
<1>2. /\ Len(store.events) \in Nat
      /\ Len(EventsAfter(store.events, entry)) = Len(store.events) + growth
      /\ RecordChanges(EventsAfter(store.events, entry))
           = IF entry.kind = "Read" THEN RecordChanges(store.events)
             ELSE EventsAfter(RecordChanges(store.events), entry)
  BY <1>1, EventsGrow
<1>3. /\ Len(ahead.events) \in Nat
      /\ Len(EventsAfter(ahead.events, entry)) = Len(ahead.events) + growth
      /\ RecordChanges(EventsAfter(ahead.events, entry))
           = IF entry.kind = "Read" THEN RecordChanges(ahead.events)
             ELSE EventsAfter(RecordChanges(ahead.events), entry)
  BY <1>1, EventsGrow
<1>4. growth \in Nat
  OBVIOUS
<1> HIDE DEF growth
<1>5. RecordChanges(EventsAfter(store.events, entry)) = RecordChanges(EventsAfter(ahead.events, entry))
  BY <1>2, <1>3 DEF Lags
<1>6. Len(EventsAfter(store.events, entry)) + n = Len(EventsAfter(ahead.events, entry))
  <2>1. PICK x \in Nat, y \in Nat :
          /\ x = Len(store.events) /\ Len(EventsAfter(store.events, entry)) = x + growth
          /\ y = Len(ahead.events) /\ Len(EventsAfter(ahead.events, entry)) = y + growth
    BY <1>2, <1>3
  <2>2. x + n = y
    BY <2>1 DEF Lags
  <2>3. (x + growth) + n = y + growth
    BY <1>4, <2>2
  <2> QED BY <2>1, <2>3
<1> QED BY <1>5, <1>6, ApplyShape DEF Lags

\* A read entry makes one event more, and nothing else.
LEMMA ReadAdds ==
  ASSUME NEW store, LedgerOk(store), NEW entry, EntryOk(entry), entry.kind = "Read"
  PROVE  Lags(store, ApplyJournalEntry(store, entry), 1)
<1>1. IsSeq(store.events)
  BY DEF LedgerOk
<1>2. RecordsAfter(store.records, entry) = store.records
  BY DEF RecordsAfter
<1> QED BY <1>1, <1>2, EventsGrow, ApplyShape DEF Lags

LEMMA LagsAdds ==
  ASSUME NEW a, LedgerOk(a), NEW b, LedgerOk(b), NEW c, LedgerOk(c), NEW n \in Nat
  PROVE  /\ Lags(a, b, n) /\ Lags(b, c, 1) => Lags(a, c, n + 1)
         /\ Lags(a, b, 1) /\ Lags(a, c, n) => Lags(b, c, n - 1)
         /\ Lags(a, a, 0)
<1>1. Len(a.events) \in Nat /\ Len(b.events) \in Nat /\ Len(c.events) \in Nat
  BY AppendSeq DEF LedgerOk
<1>2. Lags(a, a, 0)
  BY <1>1 DEF Lags
<1>3. ASSUME Lags(a, b, n), Lags(b, c, 1) PROVE Lags(a, c, n + 1)
  <2>1. Len(a.events) + n = Len(b.events) /\ Len(b.events) + 1 = Len(c.events)
    BY <1>3 DEF Lags
  <2>2. PICK x \in Nat, y \in Nat, z \in Nat :
          x = Len(a.events) /\ y = Len(b.events) /\ z = Len(c.events)
    BY <1>1
  <2>3. x + n = y /\ y + 1 = z
    BY <2>1, <2>2
  <2>4. x + (n + 1) = z
    BY <2>3
  <2> QED BY <1>3, <2>2, <2>4 DEF Lags
<1>4. Lags(a, b, 1) /\ Lags(a, c, n) => Lags(b, c, n - 1)
  BY <1>1 DEF Lags
<1> QED BY <1>2, <1>3, <1>4

LEMMA LoadOk ==
  ASSUME NEW s, IsSeq(s), \A i \in 1..Len(s) : IsEntry(s[i]) => EntryOk(s[i])
  PROVE  LedgerOk(LoadJournal(s))
<1>1. Len(s) \in Nat
  BY AppendSeq
<1>2. PICK f : LoadRun(f, Len(s), s) /\ LoadJournal(s) = f[Len(s)]
  BY <1>1, LoadIsRun
<1> DEFINE S == {n \in Nat : n <= Len(s) => LedgerOk(f[n])}
<1>3. 0 \in S
  <2>1. f[0] = EmptyLedger
    BY <1>1, <1>2 DEF LoadRun
  <2>2. IsSeq(<<>>)
    BY DEF IsSeq
  <2> QED BY <2>1, <2>2 DEF LedgerOk, EmptyLedger, RecordsOk
<1>4. ASSUME NEW n \in Nat, n \in S PROVE n + 1 \in S
  <2> SUFFICES ASSUME n + 1 <= Len(s) PROVE LedgerOk(f[n + 1])
    OBVIOUS
  <2>1. f[n + 1] = LoadItem(f[n], s[n + 1])
    BY <1>1, <1>2 DEF LoadRun
  <2>2. LedgerOk(f[n]) /\ n + 1 \in 1..Len(s)
    BY <1>1, <1>4
  <2> QED BY <2>1, <2>2, ApplyOk DEF LoadItem
<1> HIDE DEF S
<1>5. Nat \subseteq S
  BY <1>3, <1>4, NatSetInduction
<1> QED BY <1>1, <1>2, <1>5 DEF S
-----------------------------------------------------------------------------
(* Memory gateway: the requests.                                            *)

LEMMA OpsAre ==
  ASSUME NEW h
  PROVE  /\ h.req.op = "edit" => (h.phase = 1 => Op(h) = "retract") /\ (h.phase = 2 => Op(h) = "write")
         /\ h.req.op = "context" /\ h.phase = 1 => Op(h) = "search"
         /\ h.req.op \in {"write", "search", "join", "retract"} /\ h.phase = 1 => Op(h) = h.req.op
         /\ h.req.op = "edit" => Len(Phases(h.req.op)) = 2
         /\ h.req.op \in {"context", "write", "search", "join", "retract"} => Len(Phases(h.req.op)) = 1
BY DEF Op, Phases

\* A request moves on: the others stay as they are.
LEMMA StepCalls ==
  ASSUME CallsOk, NEW h \in memoryCalls, NEW next, Step(h, next), memoryUp,
         UNCHANGED <<memoryUp, memorySent>>,
         MemoryCallOk(next), next.content = h.content, next.alone = h.alone,
         HoldsLock(next) => HoldsLock(h) \/ ~Locked
  PROVE  /\ CallsOk'
         /\ \A k \in memoryCalls' : k = next \/ (k \in memoryCalls /\ k # h /\ ~k.alone)
<1>1. memoryCalls' = (memoryCalls \ {h}) \cup {next}
  BY DEF Step
<1>2. ASSUME NEW k \in memoryCalls', k # next
      PROVE  k \in memoryCalls /\ k # h /\ ~k.alone /\ ~h.alone
  BY <1>1, <1>2 DEF CallsOk
<1>3. next.alone => memoryCalls' = {next}
  BY <1>1, <1>2
<1>4. ASSUME NEW k \in memoryCalls'
      PROVE  MemoryCallOk(k) /\ (k.alone => memoryCalls' = {k})
  BY <1>2, <1>3 DEF CallsOk
<1>5. ASSUME NEW a \in memoryCalls', NEW b \in memoryCalls', a.content = b.content PROVE a = b
  BY <1>2, <1>5 DEF CallsOk
<1>6. ASSUME NEW k \in memoryCalls', k # next, HoldsLock(k), HoldsLock(next) PROVE FALSE
  <2>1. k \in memoryCalls /\ k # h
    BY <1>2, <1>6
  <2>2. HoldsLock(h)
    BY <1>6, <2>1 DEF Locked, HoldsLock
  <2> QED BY <1>6, <2>1, <2>2 DEF CallsOk
<1>7. ASSUME NEW a \in memoryCalls', NEW b \in memoryCalls', HoldsLock(a), HoldsLock(b) PROVE a = b
  <2>1. CASE a = next \/ b = next
    BY <1>6, <1>7, <2>1
  <2>2. CASE a # next /\ b # next
    BY <1>2, <1>7, <2>2 DEF CallsOk
  <2> QED BY <2>1, <2>2
<1>8. MemoryCallOk(next)'
  BY DEF MemoryCallOk, EntryOk, IsRecord, Op
<1>9. ASSUME NEW k \in memoryCalls' PROVE MemoryCallOk(k)'
  BY <1>4 DEF MemoryCallOk, EntryOk, IsRecord, Op
<1> QED BY <1>2, <1>4, <1>5, <1>7, <1>9 DEF CallsOk, HoldsLock, Op

LEMMA NotesFinite ==
  ASSUME CallsOk
  PROVE  IsFiniteSet(Notes) /\ Cardinality(Notes) \in Nat
<1>1. Notes \subseteq 1..memorySent
  BY DEF Notes, Readers, CallsOk, MemoryCallOk
<1>2. IsFiniteSet(1..memorySent)
  BY FS_Interval DEF CallsOk
<1> QED BY <1>1, <1>2, FS_Subset, FS_CardinalityType

\* A request with nothing to journal, before its step and after it.
LEMMA QuietStep ==
  ASSUME NEW h \in memoryCalls, NEW next, Step(h, next), h.at # "entry", next.at # "entry"
  PROVE  Writers' = Writers /\ Notes' = Notes
<1>1. Writers' = Writers
  BY DEF Step, Writers
<1>2. Readers' = Readers
  BY DEF Step, Readers
<1> QED BY <1>1, <1>2 DEF Notes

LEMMA SameJournal ==
  ASSUME JournalFollows, Writers' = Writers, Notes' = Notes,
         LoadJournal(memoryJournal') = LoadJournal(memoryJournal),
         UNCHANGED <<ledger, memoryUp>>, memoryIntact' => memoryIntact
  PROVE  JournalFollows'
BY DEF JournalFollows, Lags

LEMMA SameEntries ==
  ASSUME JournalOk, UNCHANGED memoryJournal
  PROVE  JournalOk' /\ LoadJournal(memoryJournal') = LoadJournal(memoryJournal)
BY DEF JournalOk, EntryOk, IsRecord

\* A step that leaves the ledger alone and neither takes nor pays a debt of
\* the journal: only the request itself has anything to show.
LEMMA OtherStep ==
  ASSUME MemoryInv, NEW h \in memoryCalls, NEW next, Step(h, next), memoryUp,
         h.at # "entry", next.at # "entry",
         UNCHANGED <<ledger, memoryUp, memorySent>>, memoryIntact' => memoryIntact,
         JournalOk', LoadJournal(memoryJournal') = LoadJournal(memoryJournal),
         MemoryCallOk(next), next.content = h.content, next.alone = h.alone,
         HoldsLock(next) => HoldsLock(h) \/ ~Locked,
         RepairProgress(next)', EditProgress(next)'
  PROVE  MemoryInv'
<1>1. /\ CallsOk'
      /\ \A k \in memoryCalls' : k = next \/ (k \in memoryCalls /\ k # h /\ ~k.alone)
  BY StepCalls DEF MemoryInv, RestartInv
<1>2. Writers' = Writers /\ Notes' = Notes
  BY QuietStep
<1>3. JournalFollows'
  BY <1>2, SameJournal DEF MemoryInv, RestartInv
<1>4. LedgerOk(ledger)'
  BY DEF MemoryInv, RestartInv, LedgerOk, RecordsOk, IsRecord
<1>5. ASSUME NEW k \in memoryCalls' PROVE RepairProgress(k)' /\ EditProgress(k)'
  <2>1. CASE k = next
    BY <2>1
  <2>2. CASE ~k.alone
    BY <2>2 DEF RepairProgress, EditProgress
  <2> QED BY <1>1, <2>1, <2>2
<1> QED BY <1>1, <1>3, <1>4, <1>5 DEF MemoryInv, RestartInv

\* What an undisturbed edit has changed stays while the ledger does.
LEMMA EditStays ==
  ASSUME NEW h, EditProgress(h), NEW next, UNCHANGED ledger,
         next.req = h.req, next.content = h.content, next.alone = h.alone,
         h.at # "ledger", next.phase = h.phase \/ next.phase = 2,
         next.at = "ledger" => next.phase = h.phase + 1 /\ h.phase = 1,
         next.at # "ledger" => next.phase = h.phase,
         next.at = "done" => next.phase = 2 \/ next.req.op # "edit"
  PROVE  EditProgress(next)'
BY DEF EditProgress, Replaced, Replacement

\* A search reads the ledger.
LEMMA SearchLedgerKeeps ==
  ASSUME MemoryInv, NEW h \in memoryCalls, SearchLedger(h)
  PROVE  MemoryInv'
<1>0. PICK next : next = [h EXCEPT !.at = "note", !.hits = LedgerHits(h)]
  OBVIOUS
<1>1. PICK one : one = [h EXCEPT !.at = "note"]
  OBVIOUS
<1>2. next = [one EXCEPT !.hits = LedgerHits(h)]
  BY <1>0, <1>1
<1>3. MemoryCallOk(h) /\ RepairProgress(h) /\ EditProgress(h)
  BY DEF MemoryInv, RestartInv, CallsOk
<1>4. MemoryCallOk(one) /\ one.req = h.req /\ one.at = "note" /\ one.phase = h.phase
      /\ one.content = h.content /\ one.alone = h.alone
  BY <1>1, <1>3 DEF MemoryCallOk, SearchLedger, Op
<1>5. MemoryCallOk(next) /\ next.req = h.req /\ next.at = "note" /\ next.phase = h.phase
      /\ next.content = h.content /\ next.alone = h.alone
  BY <1>2, <1>4 DEF MemoryCallOk, Op
<1>6. h.req.op # "edit" /\ h.at = "ledger" /\ Step(h, next)
  BY <1>0, <1>3, OpsAre DEF SearchLedger, MemoryCallOk
<1>7. RepairProgress(next)' /\ EditProgress(next)'
  BY <1>5, <1>6 DEF RepairProgress, EditProgress
<1>8. JournalOk' /\ LoadJournal(memoryJournal') = LoadJournal(memoryJournal)
  BY SameEntries DEF SearchLedger, MemoryInv, RestartInv
<1> QED BY <1>5, <1>6, <1>7, <1>8, OtherStep DEF SearchLedger, HoldsLock

\* A forwarded request goes to its next operation or ends.
LEMMA AfterQdrantOk ==
  ASSUME MemoryInv, NEW h \in memoryCalls, h.at = "qdrant"
  PROVE  /\ MemoryCallOk(AfterQdrant(h))
         /\ AfterQdrant(h).at \in {"ledger", "done"}
         /\ AfterQdrant(h).req = h.req /\ AfterQdrant(h).content = h.content
         /\ AfterQdrant(h).alone = h.alone
         /\ AfterQdrant(h).at = "ledger" => AfterQdrant(h).phase = h.phase + 1 /\ h.phase = 1
         /\ AfterQdrant(h).at = "done" =>
              AfterQdrant(h).phase = h.phase /\ (h.phase = 2 \/ h.req.op # "edit")
<1>1. MemoryCallOk(h)
  BY DEF MemoryInv, RestartInv, CallsOk
<1>2. h.req.op \in {"context", "write", "search", "join", "retract", "edit"}
  BY <1>1 DEF MemoryCallOk, MemoryTools
<1>3. Len(Phases(h.req.op)) = IF h.req.op = "edit" THEN 2 ELSE 1
  BY <1>2, OpsAre
<1>4. h.phase = 1 \/ (h.phase = 2 /\ h.req.op = "edit")
  BY <1>1 DEF MemoryCallOk
<1>5. CASE h.phase < Len(Phases(h.req.op))
  <2>1. h.phase = 1 /\ h.req.op = "edit"
    BY <1>5, <1>3, <1>4
  <2>2. PICK one : one = [h EXCEPT !.phase = 2]
    OBVIOUS
  <2>3. PICK next : next = [one EXCEPT !.at = "ledger"]
    OBVIOUS
  <2>4. AfterQdrant(h) = next
    BY <1>5, <2>1, <2>2, <2>3 DEF AfterQdrant
  <2>5. /\ one = [req |-> h.req, content |-> h.content, phase |-> 2, at |-> h.at,
                  entry |-> h.entry, todo |-> h.todo, hits |-> h.hits, failed |-> h.failed,
                  ready |-> h.ready, alone |-> h.alone]
    BY <1>1, <2>2 DEF MemoryCallOk
  <2>6. next = [req |-> h.req, content |-> h.content, phase |-> 2, at |-> "ledger",
                entry |-> h.entry, todo |-> h.todo, hits |-> h.hits, failed |-> h.failed,
                ready |-> h.ready, alone |-> h.alone]
    BY <2>3, <2>5
  <2>7. MemoryCallOk(next)
    BY <1>1, <2>1, <2>6 DEF MemoryCallOk
  <2> QED BY <2>1, <2>4, <2>6, <2>7
<1>6. CASE ~(h.phase < Len(Phases(h.req.op)))
  <2>1. AfterQdrant(h) = [h EXCEPT !.at = "done"]
    BY <1>6 DEF AfterQdrant
  <2>2. h.phase = 2 \/ h.req.op # "edit"
    BY <1>6, <1>3, <1>4
  <2>3. MemoryCallOk(AfterQdrant(h))
    BY <1>1, <1>2, <2>1 DEF MemoryCallOk
  <2> QED BY <1>1, <2>1, <2>2, <2>3 DEF MemoryCallOk
<1> QED BY <1>5, <1>6

\* The calls of the indexes leave the ledger and the journal as they are.
LEMMA AdapterStep ==
  ASSUME MemoryInv, NEW h \in memoryCalls, NEW next, Step(h, next), memoryUp,
         h.at \in {"graphiti", "qdrant"},
         next.at \in {"qdrant", "ledger", "done"},
         UNCHANGED <<ledger, memoryJournal, memoryUp, memorySent, memoryIntact>>,
         MemoryCallOk(next), next.req = h.req, next.content = h.content, next.alone = h.alone,
         next.at = "ledger" => next.phase = h.phase + 1 /\ h.phase = 1,
         next.at # "ledger" => next.phase = h.phase,
         next.at = "done" => next.phase = 2 \/ next.req.op # "edit"
  PROVE  MemoryInv'
<1>1. MemoryCallOk(h) /\ EditProgress(h)
  BY DEF MemoryInv, RestartInv, CallsOk
<1>2. h.req.op # "repair"
  BY <1>1 DEF MemoryCallOk
<1>3. RepairProgress(next)'
  BY <1>2 DEF RepairProgress
<1>4. next.phase = h.phase \/ next.phase = 2
  BY <1>1 DEF MemoryCallOk
<1>5. EditProgress(next)'
  BY <1>1, <1>4, EditStays
<1>6. JournalOk' /\ LoadJournal(memoryJournal') = LoadJournal(memoryJournal)
  BY SameEntries DEF MemoryInv, RestartInv
<1> QED BY <1>3, <1>5, <1>6, OtherStep DEF HoldsLock

LEMMA ForwardToGraphitiKeeps ==
  ASSUME MemoryInv, NEW h \in memoryCalls, ForwardToGraphiti(h)
  PROVE  MemoryInv'
<1>1. MemoryCallOk(h)
  BY DEF MemoryInv, RestartInv, CallsOk
<1>2. PICK one : one = [h EXCEPT !.at = "qdrant"]
  OBVIOUS
<1>3. PICK two : two = [one EXCEPT !.failed = TRUE]
  OBVIOUS
<1>4. Step(h, one) \/ Step(h, two)
  BY <1>2, <1>3 DEF ForwardToGraphiti
<1>5. MemoryCallOk(one) /\ one.req = h.req /\ one.at = "qdrant" /\ one.phase = h.phase
      /\ one.content = h.content /\ one.alone = h.alone
  BY <1>1, <1>2 DEF MemoryCallOk, ForwardToGraphiti, Op
<1>6. MemoryCallOk(two) /\ two.req = h.req /\ two.at = "qdrant" /\ two.phase = h.phase
      /\ two.content = h.content /\ two.alone = h.alone
  BY <1>3, <1>5 DEF MemoryCallOk, Op
<1> QED BY <1>4, <1>5, <1>6, AdapterStep DEF ForwardToGraphiti

LEMMA QdrantKeeps ==
  ASSUME MemoryInv, NEW h \in memoryCalls, ForwardToQdrant(h) \/ SearchQdrant(h)
  PROVE  MemoryInv'
<1>1. h.at = "qdrant" /\ memoryUp
      /\ UNCHANGED <<ledger, memoryJournal, memoryUp, memorySent, memoryIntact>>
  BY DEF ForwardToQdrant, SearchQdrant
<1>2. PICK one : one = AfterQdrant(h)
  OBVIOUS
<1>3. PICK two : two = [one EXCEPT !.failed = TRUE]
  OBVIOUS
<1>4. PICK three : three = [one EXCEPT !.hits = MergeHits(@, VectorHits(h))]
  OBVIOUS
<1>5. Step(h, one) \/ Step(h, two) \/ Step(h, three)
  BY <1>2, <1>3, <1>4 DEF ForwardToQdrant, SearchQdrant
<1>6. /\ MemoryCallOk(one) /\ one.at \in {"ledger", "done"}
      /\ one.req = h.req /\ one.content = h.content /\ one.alone = h.alone
      /\ one.at = "ledger" => one.phase = h.phase + 1 /\ h.phase = 1
      /\ one.at = "done" => one.phase = h.phase /\ (h.phase = 2 \/ h.req.op # "edit")
  BY <1>1, <1>2, AfterQdrantOk
<1>7. MemoryCallOk(two) /\ two.req = one.req /\ two.at = one.at /\ two.phase = one.phase
      /\ two.content = one.content /\ two.alone = one.alone
  BY <1>3, <1>6 DEF MemoryCallOk, Op
<1>8. MemoryCallOk(three) /\ three.req = one.req /\ three.at = one.at /\ three.phase = one.phase
      /\ three.content = one.content /\ three.alone = one.alone
  BY <1>4, <1>6 DEF MemoryCallOk, Op
<1>9. ASSUME NEW next, Step(h, next),
             MemoryCallOk(next), next.req = one.req, next.at = one.at, next.phase = one.phase,
             next.content = one.content, next.alone = one.alone
      PROVE  MemoryInv'
  BY <1>1, <1>6, <1>9, AdapterStep
<1> QED BY <1>5, <1>6, <1>7, <1>8, <1>9

LEMMA CloneRecordsKeeps ==
  ASSUME MemoryInv, NEW h \in memoryCalls, CloneRecords(h)
  PROVE  MemoryInv'
<1>1. MemoryCallOk(h) /\ h.req.op = "repair" /\ h.at = "clone"
  BY DEF MemoryInv, RestartInv, CallsOk, CloneRecords, MemoryCallOk
<1>2. PICK todo : todo = IF h.req.dryRun THEN {}
                         ELSE Selected(h.req, ledger.records) \X {"graphiti", "qdrant"}
  OBVIOUS
<1>3. PICK one : one = [h EXCEPT !.at = "repair"]
  OBVIOUS
<1>4. PICK next : next = [one EXCEPT !.todo = todo]
  OBVIOUS
<1>5. Step(h, next)
  BY <1>2, <1>3, <1>4 DEF CloneRecords
<1>6. MemoryCallOk(one) /\ one.req = h.req /\ one.at = "repair"
      /\ one.content = h.content /\ one.alone = h.alone
  BY <1>1, <1>3 DEF MemoryCallOk, Op
<1>7. MemoryCallOk(next) /\ next.req = h.req /\ next.at = "repair" /\ next.todo = todo
      /\ next.content = h.content /\ next.alone = h.alone
  BY <1>4, <1>6 DEF MemoryCallOk, Op
<1>8. UNCHANGED ledger
  BY DEF CloneRecords
<1>9. RepairProgress(next)'
  <2> SUFFICES ASSUME ~h.req.dryRun PROVE RepairProgress(next)'
    BY <1>7 DEF RepairProgress
  <2>1. todo = Selected(h.req, ledger.records) \X {"graphiti", "qdrant"}
    BY <1>2
  <2> QED BY <1>7, <1>8, <2>1 DEF RepairProgress
<1>10. EditProgress(next)'
  BY <1>1, <1>7 DEF EditProgress
<1>11. JournalOk' /\ LoadJournal(memoryJournal') = LoadJournal(memoryJournal)
  BY SameEntries DEF CloneRecords, MemoryInv, RestartInv
<1> QED BY <1>1, <1>5, <1>7, <1>9, <1>10, <1>11, OtherStep DEF CloneRecords, HoldsLock

LEMMA RepairEndsKeeps ==
  ASSUME MemoryInv, NEW h \in memoryCalls, RepairEnds(h)
  PROVE  MemoryInv'
<1>1. MemoryCallOk(h) /\ RepairProgress(h) /\ h.at = "repair" /\ h.todo = {} /\ h.req.op = "repair"
  BY DEF MemoryInv, RestartInv, CallsOk, RepairEnds, MemoryCallOk
<1>2. PICK next : next = [h EXCEPT !.at = "done"]
  OBVIOUS
<1>3. Step(h, next)
  BY <1>2 DEF RepairEnds
<1>4. MemoryCallOk(next) /\ next.req = h.req /\ next.at = "done" /\ next.todo = h.todo
      /\ next.content = h.content /\ next.alone = h.alone /\ next.failed = h.failed
  BY <1>1, <1>2 DEF MemoryCallOk, Op
<1>5. UNCHANGED <<ledger, graph, points>>
  BY DEF RepairEnds
<1>6. RepairProgress(next)'
  BY <1>1, <1>4, <1>5 DEF RepairProgress, InGraph, InPoints
<1>7. EditProgress(next)'
  BY <1>1, <1>4 DEF EditProgress
<1>8. JournalOk' /\ LoadJournal(memoryJournal') = LoadJournal(memoryJournal)
  BY SameEntries DEF RepairEnds, MemoryInv, RestartInv
<1> QED BY <1>1, <1>3, <1>4, <1>6, <1>7, <1>8, OtherStep DEF RepairEnds, HoldsLock

LEMMA PutFacts ==
  ASSUME NEW map, NEW key, NEW value
  PROVE  /\ key \in DOMAIN Put(map, key, value) /\ Put(map, key, value)[key] = value
         /\ \A k \in DOMAIN map :
              k # key => k \in DOMAIN Put(map, key, value) /\ Put(map, key, value)[k] = map[k]
BY DEF Put

LEMMA RepairRecordKeeps ==
  ASSUME MemoryInv, NEW h \in memoryCalls, RepairRecord(h)
  PROVE  MemoryInv'
<1>1. /\ MemoryCallOk(h) /\ RepairProgress(h) /\ h.at = "repair" /\ h.req.op = "repair"
      /\ RecordsOk(ledger.records) /\ memoryUp
      /\ UNCHANGED <<ledger, memoryJournal, memoryUp, memorySent, memoryIntact>>
  BY DEF MemoryInv, RestartInv, CallsOk, RepairRecord, MemoryCallOk, LedgerOk
<1>2. PICK job \in h.todo :
          \/ /\ job[2] = "graphiti"
             /\ graph' = Put(graph, job[1].key, job[1].content)
             /\ Step(h, [h EXCEPT !.todo = @ \ {job}])
             /\ UNCHANGED points
          \/ /\ job[2] = "qdrant"
             /\ points' = Put(points, RecordId(job[1].key), RepairPoint(job[1]))
             /\ Step(h, [h EXCEPT !.todo = @ \ {job}])
             /\ UNCHANGED graph
          \/ /\ Step(h, [h EXCEPT !.todo = @ \ {job}, !.failed = TRUE])
             /\ UNCHANGED <<graph, points>>
  BY DEF RepairRecord
<1>3. PICK one : one = [h EXCEPT !.todo = @ \ {job}]
  OBVIOUS
<1>4. PICK two : two = [one EXCEPT !.failed = TRUE]
  OBVIOUS
<1>5. MemoryCallOk(one) /\ one.req = h.req /\ one.at = "repair" /\ one.todo = h.todo \ {job}
      /\ one.content = h.content /\ one.alone = h.alone /\ one.failed = h.failed
  BY <1>1, <1>3 DEF MemoryCallOk, Op
<1>6. MemoryCallOk(two) /\ two.req = h.req /\ two.at = "repair" /\ two.todo = h.todo \ {job}
      /\ two.content = h.content /\ two.alone = h.alone /\ two.failed = TRUE
  BY <1>4, <1>5 DEF MemoryCallOk, Op
<1>7. JournalOk' /\ LoadJournal(memoryJournal') = LoadJournal(memoryJournal)
  BY <1>1, SameEntries DEF MemoryInv, RestartInv
<1>8. ASSUME NEW next, Step(h, next), MemoryCallOk(next), next.req = h.req, next.at = "repair",
             next.content = h.content, next.alone = h.alone, RepairProgress(next)'
      PROVE  MemoryInv'
  <2>1. EditProgress(next)'
    BY <1>1, <1>8 DEF EditProgress
  <2> QED BY <1>1, <1>7, <1>8, <2>1, OtherStep DEF HoldsLock
<1>9. CASE Step(h, two)
  <2>1. RepairProgress(two)'
    BY <1>1, <1>6 DEF RepairProgress
  <2> QED BY <1>6, <1>8, <1>9, <2>1
<1>10. ASSUME Step(h, one),
              \/ /\ job[2] = "graphiti" /\ UNCHANGED points
                 /\ graph' = Put(graph, job[1].key, job[1].content)
              \/ /\ job[2] = "qdrant" /\ UNCHANGED graph
                 /\ points' = Put(points, RecordId(job[1].key), RecordPoint(job[1]))
       PROVE  MemoryInv'
  <2> DEFINE chosen == Selected(h.req, ledger.records)
  <2>1. SUFFICES ASSUME h.alone, ~h.req.dryRun PROVE RepairProgress(one)'
    BY <1>5, <1>8, <1>10 DEF RepairProgress
  <2>2. h.todo \subseteq chosen \X {"graphiti", "qdrant"}
    BY <1>1, <2>1 DEF RepairProgress
  <2>3. job = <<job[1], job[2]>> /\ job[1] \in chosen
    BY <1>2, <2>2
  <2>4. \A r \in chosen : r.key = job[1].key => r = job[1]
    BY <1>1, <2>3 DEF RecordsOk, Selected
  <2>5. ASSUME NEW r \in chosen, ~h.failed
        PROVE  /\ <<r, "graphiti">> \in one.todo \/ InGraph(r)'
               /\ <<r, "qdrant">> \in one.todo \/ InPoints(r)'
    <3>1. /\ <<r, "graphiti">> \in h.todo \/ InGraph(r)
          /\ <<r, "qdrant">> \in h.todo \/ InPoints(r)
      BY <1>1, <2>1, <2>5 DEF RepairProgress
    <3>2. CASE job[2] = "graphiti" /\ UNCHANGED points
               /\ graph' = Put(graph, job[1].key, job[1].content)
      <4>1. <<r, "graphiti">> \in one.todo \/ InGraph(r)'
        <5>1. CASE r.key = job[1].key
          BY <2>4, <2>5, <3>2, <5>1, PutFacts DEF InGraph
        <5>2. CASE r.key # job[1].key
          BY <1>5, <3>1, <3>2, <5>2, PutFacts DEF InGraph
        <5> QED BY <5>1, <5>2
      <4>2. <<r, "qdrant">> \in one.todo \/ InPoints(r)'
        BY <1>5, <2>3, <3>1, <3>2 DEF InPoints
      <4> QED BY <4>1, <4>2
    <3>3. CASE job[2] = "qdrant" /\ UNCHANGED graph
               /\ points' = Put(points, RecordId(job[1].key), RecordPoint(job[1]))
      <4>1. <<r, "qdrant">> \in one.todo \/ InPoints(r)'
        <5>1. CASE r.key = job[1].key
          BY <2>4, <2>5, <3>3, <5>1, PutFacts DEF InPoints
        <5>2. CASE r.key # job[1].key
          <6>1. RecordId(r.key) # RecordId(job[1].key)
            BY <5>2 DEF RecordId
          <6> QED BY <1>5, <3>1, <3>3, <5>2, <6>1, PutFacts DEF InPoints
        <5> QED BY <5>1, <5>2
      <4>2. <<r, "graphiti">> \in one.todo \/ InGraph(r)'
        BY <1>5, <2>3, <3>1, <3>3 DEF InGraph
      <4> QED BY <4>1, <4>2
    <3> QED BY <1>10, <3>2, <3>3
  <2>6. one.todo \subseteq chosen \X {"graphiti", "qdrant"}
    BY <1>5, <2>2
  <2> QED BY <1>1, <1>5, <2>5, <2>6 DEF RepairProgress
<1>11. [h EXCEPT !.todo = @ \ {job}, !.failed = TRUE] = two
  BY <1>3, <1>4
<1> QED BY <1>2, <1>3, <1>9, <1>10, <1>11 DEF RepairPoint

\* A request ends: nothing that is left depends on it.
LEMMA CallsLeft ==
  ASSUME CallsOk, NEW h \in memoryCalls, memoryCalls' = memoryCalls \ {h},
         UNCHANGED <<memoryUp, memorySent>>
  PROVE  CallsOk' /\ \A k \in memoryCalls' : ~k.alone
<1>1. ASSUME NEW k \in memoryCalls' PROVE MemoryCallOk(k)' /\ ~k.alone
  BY <1>1 DEF CallsOk, MemoryCallOk, EntryOk, IsRecord, Op
<1> QED BY <1>1 DEF CallsOk, HoldsLock, Op

LEMMA AnswerMemoryKeeps ==
  ASSUME MemoryInv, NEW h \in memoryCalls, AnswerMemory(h)
  PROVE  MemoryInv'
<1>1. CallsOk' /\ \A k \in memoryCalls' : ~k.alone
  BY CallsLeft DEF AnswerMemory, MemoryInv, RestartInv
<1>2. JournalOk' /\ LoadJournal(memoryJournal') = LoadJournal(memoryJournal)
  BY SameEntries DEF AnswerMemory, MemoryInv, RestartInv
<1>3. Writers' = Writers /\ Readers' = Readers
  BY DEF AnswerMemory, Writers, Readers
<1>4. JournalFollows'
  BY <1>2, <1>3, SameJournal DEF AnswerMemory, MemoryInv, RestartInv, Notes
<1>5. LedgerOk(ledger)'
  BY DEF AnswerMemory, MemoryInv, RestartInv, LedgerOk, RecordsOk, IsRecord
<1> QED BY <1>1, <1>2, <1>4, <1>5 DEF MemoryInv, RestartInv, RepairProgress, EditProgress

\* A failed append: the change stays, and the journal no longer follows.
LEMMA AppendFailsKeeps ==
  ASSUME MemoryInv, NEW h \in memoryCalls, memoryCalls' = memoryCalls \ {h}, ~memoryIntact',
         UNCHANGED <<ledger, memoryJournal, memoryUp, memorySent>>
  PROVE  MemoryInv'
<1>1. CallsOk' /\ \A k \in memoryCalls' : ~k.alone
  BY CallsLeft DEF MemoryInv, RestartInv
<1>2. JournalOk' /\ LedgerOk(ledger)'
  BY SameEntries DEF MemoryInv, RestartInv, LedgerOk, RecordsOk, IsRecord
<1> QED BY <1>1, <1>2 DEF MemoryInv, RestartInv, JournalFollows, RepairProgress, EditProgress

LEMMA JournalGrows ==
  ASSUME JournalOk, NEW item, IsEntry(item) => EntryOk(item),
         memoryJournal' = Append(memoryJournal, item)
  PROVE  /\ JournalOk'
         /\ LoadJournal(memoryJournal') = LoadItem(LoadJournal(memoryJournal), item)
         /\ LedgerOk(LoadJournal(memoryJournal))
<1>1. IsSeq(memoryJournal)
  BY DEF JournalOk
<1>2. /\ IsSeq(memoryJournal') /\ Len(memoryJournal) \in Nat
      /\ Len(memoryJournal') = Len(memoryJournal) + 1
      /\ \A i \in 1..Len(memoryJournal) : memoryJournal'[i] = memoryJournal[i]
      /\ memoryJournal'[Len(memoryJournal) + 1] = item
  BY <1>1, AppendSeq
<1>3. ASSUME NEW i \in 1..Len(memoryJournal'), IsEntry(memoryJournal'[i])
      PROVE  EntryOk(memoryJournal'[i])
  <2>1. CASE i = Len(memoryJournal) + 1
    BY <1>2, <1>3, <2>1
  <2>2. CASE i \in 1..Len(memoryJournal)
    BY <1>2, <1>3, <2>2 DEF JournalOk
  <2> QED BY <1>2, <2>1, <2>2
<1>4. JournalOk'
  BY <1>2, <1>3 DEF JournalOk, EntryOk, IsRecord, IsEntry, IsSeq
<1>5. LedgerOk(LoadJournal(memoryJournal))
  BY <1>1, LoadOk DEF JournalOk
<1> QED BY <1>1, <1>4, <1>5, LoadAppend

LEMMA AppendNewlineKeeps ==
  ASSUME MemoryInv, NEW h \in memoryCalls, memoryUp, h.at = "newline",
         NEW next, next = [h EXCEPT !.at = "graphiti"], Step(h, next),
         memoryJournal' = Append(memoryJournal, Newline),
         UNCHANGED <<ledger, memoryUp, memorySent, memoryIntact>>
  PROVE  MemoryInv'
<1>1. MemoryCallOk(h) /\ EditProgress(h)
  BY DEF MemoryInv, RestartInv, CallsOk
<1>2. MemoryCallOk(next) /\ next.req = h.req /\ next.at = "graphiti" /\ next.phase = h.phase
      /\ next.content = h.content /\ next.alone = h.alone
  BY <1>1 DEF MemoryCallOk, Op
<1>3. h.req.op # "repair"
  BY <1>1 DEF MemoryCallOk
<1>4. RepairProgress(next)' /\ EditProgress(next)'
  BY <1>1, <1>2, <1>3, EditStays DEF RepairProgress
<1>5. ~IsEntry(Newline)
  BY DEF IsEntry, Newline
<1>6. JournalOk' /\ LoadJournal(memoryJournal') = LoadJournal(memoryJournal)
  BY <1>5, JournalGrows DEF MemoryInv, RestartInv, LoadItem
<1> QED BY <1>2, <1>4, <1>6, OtherStep DEF HoldsLock

\* The entry reaches the file: a writer's change is made up for, and a
\* reader's event.
LEMMA AppendEntryKeeps ==
  ASSUME MemoryInv, NEW h \in memoryCalls, memoryUp, h.at = "entry",
         NEW next, next = [h EXCEPT !.at = "newline"], Step(h, next),
         memoryJournal' = Append(memoryJournal, h.entry),
         UNCHANGED <<ledger, memoryUp, memorySent, memoryIntact>>
  PROVE  MemoryInv'
<1>1. MemoryCallOk(h) /\ EditProgress(h) /\ EntryOk(h.entry)
      /\ (h.entry.kind = "Read" <=> Op(h) = "search") /\ h.req.op # "repair"
  BY DEF MemoryInv, RestartInv, CallsOk, MemoryCallOk
<1>2. MemoryCallOk(next) /\ next.req = h.req /\ next.at = "newline" /\ next.phase = h.phase
      /\ next.content = h.content /\ next.alone = h.alone
  BY <1>1 DEF MemoryCallOk, Op
<1>3. Op(next) = Op(h)
  BY <1>2 DEF Op
<1>4. /\ CallsOk'
      /\ \A k \in memoryCalls' : k = next \/ (k \in memoryCalls /\ k # h /\ ~k.alone)
  BY <1>2, <1>3, StepCalls DEF MemoryInv, RestartInv, HoldsLock
<1>5. \A k \in memoryCalls' : RepairProgress(k)' /\ EditProgress(k)'
  <2>1. RepairProgress(next)' /\ EditProgress(next)'
    BY <1>1, <1>2, EditStays DEF RepairProgress
  <2> QED BY <1>4, <2>1 DEF RepairProgress, EditProgress
<1>6. LedgerOk(ledger) /\ LedgerOk(ledger)'
  BY DEF MemoryInv, RestartInv, LedgerOk, RecordsOk, IsRecord
<1>7. IsEntry(h.entry)
  BY <1>1 DEF EntryOk, IsEntry
<1>8. /\ JournalOk' /\ LedgerOk(LoadJournal(memoryJournal))
      /\ LoadJournal(memoryJournal') = ApplyJournalEntry(LoadJournal(memoryJournal), h.entry)
  BY <1>1, <1>7, JournalGrows DEF MemoryInv, RestartInv, LoadItem
<1> DEFINE old == LoadJournal(memoryJournal)
           new == ApplyJournalEntry(old, h.entry)
<1>9. Cardinality(Notes) \in Nat /\ IsFiniteSet(Notes)
  BY NotesFinite DEF MemoryInv, RestartInv
<1>10. JournalFollows'
  <2> SUFFICES ASSUME memoryIntact PROVE JournalFollows'
    BY DEF JournalFollows
  <2>1. \/ Writers = {} /\ Lags(old, ledger, Cardinality(Notes))
        \/ \E w \in Writers : Lags(ApplyJournalEntry(old, w.entry), ledger, Cardinality(Notes))
    BY DEF MemoryInv, RestartInv, JournalFollows
  <2>2. CASE h.entry.kind # "Read"
    <3>1. Writers = {h}
      BY <1>1, <2>2 DEF Writers, MemoryInv, RestartInv, CallsOk, HoldsLock, MemoryCallOk
    <3>2. Writers' = {}
      BY <1>2, <3>1 DEF Step, Writers
    <3>3. Readers' = Readers
      BY <1>2, <2>2 DEF Step, Readers
    <3>4. Lags(new, ledger, Cardinality(Notes))
      BY <2>1, <3>1
    <3> HIDE DEF old
    <3> QED BY <1>8, <3>2, <3>3, <3>4 DEF old, JournalFollows, Notes, Lags
  <2>3. CASE h.entry.kind = "Read"
    <3>1. Writers' = Writers
      BY <1>2, <2>3 DEF Step, Writers
    <3>2. h \in Readers /\ Readers' = Readers \ {h}
      BY <1>2, <2>3 DEF Step, Readers
    <3>3. h.content \in Notes
      BY <3>2 DEF Notes
    <3>4. Notes' = Notes \ {h.content}
      BY <3>2 DEF Notes, Readers, MemoryInv, RestartInv, CallsOk
    <3>5. Cardinality(Notes') = Cardinality(Notes) - 1
      BY <1>9, <3>3, <3>4, FS_RemoveElement
    <3>6. LedgerOk(new) /\ Lags(old, new, 1)
      BY <1>1, <1>8, <2>3, ApplyOk, ReadAdds
    <3>7. CASE Writers = {} /\ Lags(old, ledger, Cardinality(Notes))
      <4>1. Lags(new, ledger, Cardinality(Notes) - 1)
        BY <1>6, <1>8, <1>9, <3>6, <3>7, LagsAdds
      <4> HIDE DEF old
      <4> QED BY <1>8, <3>1, <3>5, <3>7, <4>1 DEF old, JournalFollows, Lags
    <3>8. ASSUME NEW w \in Writers, Lags(ApplyJournalEntry(old, w.entry), ledger, Cardinality(Notes))
          PROVE  JournalFollows'
      <4>1. EntryOk(w.entry)
        BY DEF Writers, MemoryInv, RestartInv, CallsOk, MemoryCallOk
      <4> DEFINE a == ApplyJournalEntry(old, w.entry)
                 b == ApplyJournalEntry(new, w.entry)
      <4>2. LedgerOk(a) /\ LedgerOk(b) /\ Lags(a, b, 1)
        <5> HIDE DEF old, new
        <5> QED BY <1>8, <3>6, <4>1, ApplyOk, ApplyRespects DEF old
      <4>3. Lags(b, ledger, Cardinality(Notes) - 1)
        <5> HIDE DEF old, new, b
        <5> QED BY <1>6, <1>9, <3>8, <4>2, LagsAdds
      <4> HIDE DEF old
      <4>4. w \in Writers'
        BY <3>1
      <4>5. Lags(ApplyJournalEntry(LoadJournal(memoryJournal'), w.entry), ledger', Cardinality(Notes'))
        BY <1>8, <3>5, <4>3 DEF old, Lags
      <4> QED BY <4>4, <4>5 DEF JournalFollows, Lags
    <3> QED BY <2>1, <3>7, <3>8
  <2> QED BY <2>2, <2>3
<1> QED BY <1>4, <1>5, <1>6, <1>8, <1>10 DEF MemoryInv, RestartInv

LEMMA AppendMemoryJournalKeeps ==
  ASSUME MemoryInv, NEW h \in memoryCalls, AppendMemoryJournal(h)
  PROVE  MemoryInv'
<1>1. PICK next : next = [h EXCEPT !.at = IF h.at = "entry" THEN "newline" ELSE "graphiti"]
  OBVIOUS
<1>2. CASE memoryIntact' = FALSE /\ MemoryError(h) /\ UNCHANGED memoryJournal
  BY <1>2, AppendFailsKeeps DEF AppendMemoryJournal, MemoryError
<1>3. CASE /\ Step(h, next) /\ UNCHANGED memoryIntact
           /\ memoryJournal' = Append(memoryJournal, IF h.at = "entry" THEN h.entry ELSE Newline)
  <2>1. CASE h.at = "entry"
    BY <1>1, <1>3, <2>1, AppendEntryKeeps DEF AppendMemoryJournal
  <2>2. CASE h.at = "newline"
    BY <1>1, <1>3, <2>2, AppendNewlineKeeps DEF AppendMemoryJournal
  <2> QED BY <2>1, <2>2 DEF AppendMemoryJournal
<1> QED BY <1>1, <1>2, <1>3 DEF AppendMemoryJournal

\* What the three changes do is what their entries do when replayed.
LEMMA ChangeIsEntry ==
  ASSUME NEW h, NEW store
  PROVE  /\ WriteMemoryInner(store, h) = ApplyJournalEntry(store, WriteEntry(h))
         /\ JoinMemoryInner(store, h) = ApplyJournalEntry(store, JoinEntry(store, h))
         /\ RetractMemoryInner(store, h) = ApplyJournalEntry(store, RetractEntry(store, h))
         /\ EntryOk(WriteEntry(h)) /\ WriteEntry(h).kind = "Write"
         /\ EntryOk(JoinEntry(store, h)) /\ JoinEntry(store, h).kind = "Join"
         /\ EntryOk(RetractEntry(store, h)) /\ RetractEntry(store, h).kind = "Retract"
<1>1. /\ WriteEntry(h).kind = "Write" /\ WriteEntry(h).goal = h.req.goal
      /\ WriteEntry(h).record = MemoryRecord(h.req.key, h.req.goal, h.content)
      /\ IsRecord(WriteEntry(h).record) /\ WriteEntry(h).record.key = h.req.key
  BY DEF WriteEntry, MemoryRecord, IsRecord
<1>2. JoinEntry(store, h).kind = "Join" /\ JoinEntry(store, h).goal = h.req.goal
  BY DEF JoinEntry
<1>3. RetractEntry(store, h).kind = "Retract" /\ RetractEntry(store, h).goal = h.req.goal
  BY DEF RetractEntry
<1>4. WriteMemoryInner(store, h) = ApplyJournalEntry(store, WriteEntry(h))
  BY <1>1 DEF WriteMemoryInner, ApplyJournalEntry
<1>5. JoinMemoryInner(store, h) = ApplyJournalEntry(store, JoinEntry(store, h))
  BY <1>2 DEF JoinMemoryInner, ApplyJournalEntry
<1>6. RetractMemoryInner(store, h) = ApplyJournalEntry(store, RetractEntry(store, h))
  BY <1>3 DEF RetractMemoryInner, ApplyJournalEntry
<1> QED BY <1>1, <1>2, <1>3, <1>4, <1>5, <1>6 DEF EntryOk

\* The first half of an edit invalidates what it replaces.
LEMMA RetractReplaces ==
  ASSUME RecordsOk(ledger.records), LedgerOk(ledger), NEW h, h.req.op = "edit",
         ledger' = RetractMemoryInner(ledger, h)
  PROVE  Replaced(h)'
<1> DEFINE keys == RetractEntry(ledger, h).retracted
<1>1. ledger'.records = RetractRecords(ledger.records, keys)
  <2> DEFINE records == RetractRecords(ledger.records, keys)
             event == MemoryEvent(h.req.goal, "Retract", keys)
  <2>1. ledger' = Happened(ledger, records, <<event>>)
    BY DEF RetractMemoryInner
  <2> HIDE DEF records, event
  <2>2. ledger' = [records |-> records, events |-> Append(ledger.events, event)]
    BY <2>1, OneEvent
  <2> QED BY <2>2 DEF records
<1>2. keys = KnownKeys({r \in ledger.records : r.goal = h.req.goal}, h.req.keys)
  BY DEF RetractEntry
<1>3. ASSUME NEW r \in ledger'.records,
             r.key \in h.req.keys \ {h.req.key}, r.goal = h.req.goal
      PROVE  r.invalidated
  <2>1. PICK old \in ledger.records :
          r = IF old.key \in keys THEN [old EXCEPT !.invalidated = TRUE, !.last = "Retract"] ELSE old
    BY <1>1 DEF RetractRecords
  <2>2. IsRecord(old)
    BY DEF RecordsOk
  <2>3. PICK one : one = [old EXCEPT !.invalidated = TRUE]
    OBVIOUS
  <2>4. one.key = old.key /\ one.goal = old.goal /\ one.invalidated = TRUE /\ IsRecord(one)
    BY <2>2, <2>3 DEF IsRecord
  <2>5. CASE old.key \in keys
    <3>1. r = [one EXCEPT !.last = "Retract"]
      BY <2>1, <2>3, <2>5
    <3> QED BY <2>4, <3>1 DEF IsRecord
  <2>6. CASE old.key \notin keys
    <3>1. r = old
      BY <2>1, <2>6
    <3> QED BY <1>2, <1>3, <2>6, <3>1 DEF KnownKeys
  <2> QED BY <2>5, <2>6
<1> QED BY <1>3 DEF Replaced

\* The second half writes the replacement, under a key it may have replaced.
LEMMA WriteReplaces ==
  ASSUME LedgerOk(ledger), NEW h, Replaced(h), ledger' = WriteMemoryInner(ledger, h)
  PROVE  Replaced(h)' /\ Replacement(h)'
<1> DEFINE record == MemoryRecord(h.req.key, h.req.goal, h.content)
<1>1. ledger'.records = {r \in ledger.records : r.key # record.key} \cup {record}
  <2> DEFINE records == PutRecord(ledger.records, record)
             event == MemoryEvent(h.req.goal, "Write", {h.req.key})
  <2>1. ledger' = Happened(ledger, records, <<event>>)
    BY DEF WriteMemoryInner
  <2> HIDE DEF records, event
  <2>2. ledger' = [records |-> records, events |-> Append(ledger.events, event)]
    BY <2>1, OneEvent
  <2> QED BY <2>2 DEF records, PutRecord
<1>2. /\ record.key = h.req.key /\ record.goal = h.req.goal
      /\ record.content = h.content /\ record.invalidated = FALSE
  BY DEF MemoryRecord
<1> HIDE DEF record
<1>3. Replaced(h)'
  BY <1>1, <1>2 DEF Replaced
<1>4. Replacement(h)'
  BY <1>1, <1>2 DEF Replacement
<1> QED BY <1>3, <1>4

LEMMA ChangeLedgerKeeps ==
  ASSUME MemoryInv, NEW h \in memoryCalls, ChangeLedger(h)
  PROVE  MemoryInv'
<1>1. PICK entry :
        /\ \/ /\ Op(h) = "write" /\ entry = WriteEntry(h)
              /\ ledger' = WriteMemoryInner(ledger, h)
           \/ /\ Op(h) = "join" /\ entry = JoinEntry(ledger, h)
              /\ ledger' = JoinMemoryInner(ledger, h)
           \/ /\ Op(h) = "retract" /\ entry = RetractEntry(ledger, h)
              /\ ledger' = RetractMemoryInner(ledger, h)
        /\ Step(h, [h EXCEPT !.at = "entry", !.entry = entry])
  BY DEF ChangeLedger
<1>2. EntryOk(entry) /\ entry.kind # "Read" /\ ledger' = ApplyJournalEntry(ledger, entry)
  BY <1>1, ChangeIsEntry
<1>3. /\ MemoryCallOk(h) /\ EditProgress(h) /\ h.at = "ledger" /\ ~Locked /\ Op(h) # "search"
      /\ memoryUp /\ LedgerOk(ledger) /\ RecordsOk(ledger.records) /\ h.req.op # "repair"
      /\ UNCHANGED <<memoryJournal, memoryUp, memorySent, memoryIntact>>
  BY DEF ChangeLedger, MemoryInv, RestartInv, CallsOk, LedgerOk, MemoryCallOk
<1>4. PICK one : one = [h EXCEPT !.at = "entry"]
  OBVIOUS
<1>5. PICK next : next = [one EXCEPT !.entry = entry]
  OBVIOUS
<1>6. Step(h, next)
  BY <1>1, <1>4, <1>5
<1>7. one = [req |-> h.req, content |-> h.content, phase |-> h.phase, at |-> "entry",
             entry |-> h.entry, todo |-> h.todo, hits |-> h.hits, failed |-> h.failed,
             ready |-> h.ready, alone |-> h.alone]
  BY <1>3, <1>4 DEF MemoryCallOk
<1>8. next = [req |-> h.req, content |-> h.content, phase |-> h.phase, at |-> "entry",
              entry |-> entry, todo |-> h.todo, hits |-> h.hits, failed |-> h.failed,
              ready |-> h.ready, alone |-> h.alone]
  BY <1>5, <1>7
<1>9. Op(next) = Op(h)
  BY <1>8 DEF Op
<1>10. MemoryCallOk(next) /\ next.req = h.req /\ next.content = h.content /\ next.at = "entry"
       /\ next.alone = h.alone /\ next.entry = entry /\ next.phase = h.phase
  BY <1>2, <1>3, <1>8, <1>9 DEF MemoryCallOk
<1>11. /\ CallsOk'
       /\ \A k \in memoryCalls' : k = next \/ (k \in memoryCalls /\ k # h /\ ~k.alone)
  BY <1>3, <1>6, <1>10, StepCalls DEF MemoryInv, RestartInv
<1>12. LedgerOk(ledger')
  BY <1>2, <1>3, ApplyOk
<1>13. EditProgress(next)'
  <2> SUFFICES ASSUME h.alone, h.req.op = "edit" PROVE EditProgress(next)'
    BY <1>10 DEF EditProgress
  <2>1. CASE h.phase = 1
    <3>1. ledger' = RetractMemoryInner(ledger, h)
      BY <1>1, <2>1, OpsAre
    <3>2. Replaced(h)'
      BY <1>3, <3>1, RetractReplaces
    <3> QED BY <1>10, <2>1, <3>2 DEF EditProgress, Replaced
  <2>2. CASE h.phase = 2
    <3>1. ledger' = WriteMemoryInner(ledger, h)
      BY <1>1, <2>2, OpsAre
    <3>2. Replaced(h)' /\ Replacement(h)'
      BY <1>3, <2>2, <3>1, WriteReplaces DEF EditProgress
    <3> QED BY <1>10, <2>2, <3>2 DEF EditProgress, Replaced, Replacement
  <2> QED BY <1>3, <2>1, <2>2 DEF MemoryCallOk
<1>14. \A k \in memoryCalls' : RepairProgress(k)' /\ EditProgress(k)'
  BY <1>3, <1>10, <1>11, <1>13 DEF RepairProgress, EditProgress
<1>15. JournalOk' /\ LoadJournal(memoryJournal') = LoadJournal(memoryJournal)
  BY <1>3, SameEntries DEF MemoryInv, RestartInv
<1>16. JournalFollows'
  <2> SUFFICES ASSUME memoryIntact PROVE JournalFollows'
    BY <1>3 DEF JournalFollows
  <2>1. Writers = {}
    BY <1>3 DEF Writers, Locked, MemoryInv, RestartInv, CallsOk, MemoryCallOk
  <2>2. Lags(LoadJournal(memoryJournal), ledger, Cardinality(Notes))
    BY <1>3, <2>1 DEF MemoryInv, RestartInv, JournalFollows
  <2>3. LedgerOk(LoadJournal(memoryJournal))
    BY LoadOk DEF MemoryInv, RestartInv, JournalOk
  <2>4. Lags(ApplyJournalEntry(LoadJournal(memoryJournal), entry), ledger', Cardinality(Notes))
    BY <1>2, <1>3, <2>2, <2>3, ApplyRespects, NotesFinite DEF MemoryInv, RestartInv
  <2>5. next \in Writers'
    BY <1>2, <1>6, <1>10 DEF Step, Writers
  <2>6. Readers' = Readers
    BY <1>2, <1>3, <1>6, <1>10 DEF Step, Readers
  <2>7. Lags(ApplyJournalEntry(LoadJournal(memoryJournal'), next.entry), ledger', Cardinality(Notes'))
    BY <1>10, <1>15, <2>4, <2>6 DEF Notes
  <2> QED BY <2>5, <2>7 DEF JournalFollows, Lags
<1>17. LedgerOk(ledger)'
  BY <1>12 DEF LedgerOk, RecordsOk, IsRecord, IsSeq
<1> QED BY <1>11, <1>14, <1>15, <1>16, <1>17 DEF MemoryInv, RestartInv

\* A search notes its read event and owes it to the journal.
LEMMA NoteReadKeeps ==
  ASSUME MemoryInv, NEW h \in memoryCalls, NoteRead(h)
  PROVE  MemoryInv'
<1>1. /\ MemoryCallOk(h) /\ h.at = "note" /\ ~Locked /\ Op(h) = "search" /\ memoryUp
      /\ LedgerOk(ledger) /\ h.req.op # "repair" /\ h.req.op # "edit"
      /\ UNCHANGED <<memoryJournal, memoryUp, memorySent, memoryIntact>>
  BY OpsAre DEF NoteRead, MemoryInv, RestartInv, CallsOk, LedgerOk, MemoryCallOk
<1>2. PICK entry : entry = ReadEntry(h)
  OBVIOUS
<1>3. EntryOk(entry) /\ entry.kind = "Read" /\ ledger' = ApplyJournalEntry(ledger, entry)
  BY <1>2 DEF EntryOk, ReadEntry, NoteRead, ApplyJournalEntry
<1>4. PICK one : one = [h EXCEPT !.at = "entry"]
  OBVIOUS
<1>5. PICK next : next = [one EXCEPT !.entry = entry]
  OBVIOUS
<1>6. Step(h, next)
  BY <1>2, <1>4, <1>5 DEF NoteRead
<1>7. one = [req |-> h.req, content |-> h.content, phase |-> h.phase, at |-> "entry",
             entry |-> h.entry, todo |-> h.todo, hits |-> h.hits, failed |-> h.failed,
             ready |-> h.ready, alone |-> h.alone]
  BY <1>1, <1>4 DEF MemoryCallOk
<1>8. next = [req |-> h.req, content |-> h.content, phase |-> h.phase, at |-> "entry",
              entry |-> entry, todo |-> h.todo, hits |-> h.hits, failed |-> h.failed,
              ready |-> h.ready, alone |-> h.alone]
  BY <1>5, <1>7
<1>9. Op(next) = "search"
  BY <1>1, <1>8 DEF Op
<1>10. MemoryCallOk(next) /\ next.req = h.req /\ next.content = h.content /\ next.at = "entry"
       /\ next.alone = h.alone /\ next.entry = entry
  BY <1>1, <1>3, <1>8, <1>9 DEF MemoryCallOk
<1>11. /\ CallsOk'
       /\ \A k \in memoryCalls' : k = next \/ (k \in memoryCalls /\ k # h /\ ~k.alone)
  BY <1>1, <1>6, <1>10, StepCalls DEF MemoryInv, RestartInv
<1>12. \A k \in memoryCalls' : RepairProgress(k)' /\ EditProgress(k)'
  BY <1>1, <1>10, <1>11 DEF RepairProgress, EditProgress
<1>13. LedgerOk(ledger')
  BY <1>1, <1>3, ApplyOk
<1>14. JournalOk' /\ LoadJournal(memoryJournal') = LoadJournal(memoryJournal)
  BY <1>1, SameEntries DEF MemoryInv, RestartInv
<1>15. JournalFollows'
  <2> SUFFICES ASSUME memoryIntact PROVE JournalFollows'
    BY <1>1 DEF JournalFollows
  <2>1. Writers = {}
    BY <1>1 DEF Writers, Locked, MemoryInv, RestartInv, CallsOk, MemoryCallOk
  <2>2. Lags(LoadJournal(memoryJournal), ledger, Cardinality(Notes))
    BY <1>1, <2>1 DEF MemoryInv, RestartInv, JournalFollows
  <2>3. LedgerOk(LoadJournal(memoryJournal))
    BY LoadOk DEF MemoryInv, RestartInv, JournalOk
  <2>4. IsFiniteSet(Notes) /\ Cardinality(Notes) \in Nat
    BY NotesFinite DEF MemoryInv, RestartInv
  <2>5. Lags(ledger, ledger', 1)
    BY <1>1, <1>3, ReadAdds
  <2>6. Lags(LoadJournal(memoryJournal), ledger', Cardinality(Notes) + 1)
    BY <1>1, <1>13, <2>2, <2>3, <2>4, <2>5, LagsAdds
  <2>7. Writers' = {}
    BY <1>3, <1>6, <1>10, <2>1 DEF Step, Writers
  <2>8. Readers' = Readers \cup {next}
    BY <1>1, <1>3, <1>6, <1>10 DEF Step, Readers
  <2>9. Notes' = Notes \cup {h.content}
    BY <1>10, <2>8 DEF Notes
  <2>10. h.content \notin Notes
    BY <1>1 DEF Notes, Readers, MemoryInv, RestartInv, CallsOk
  <2>11. Cardinality(Notes') = Cardinality(Notes) + 1
    BY <2>4, <2>9, <2>10, FS_AddElement
  <2>12. Lags(LoadJournal(memoryJournal'), ledger', Cardinality(Notes'))
    BY <1>14, <2>6, <2>11
  <2> QED BY <2>7, <2>12 DEF JournalFollows, Lags
<1>16. LedgerOk(ledger)'
  BY <1>13 DEF LedgerOk, RecordsOk, IsRecord, IsSeq
<1> QED BY <1>11, <1>12, <1>14, <1>15, <1>16 DEF MemoryInv, RestartInv

LEMMA ReceiveMemoryKeeps ==
  ASSUME MemoryInv, NEW req, ReceiveMemory(req)
  PROVE  MemoryInv'
<1>1. PICK new :
        new = [req |-> req, content |-> memorySent + 1, phase |-> 1,
               at |-> IF req.op = "repair" THEN "clone" ELSE "ledger",
               entry |-> Newline, todo |-> {}, hits |-> {}, failed |-> FALSE,
               ready |-> req.op = "edit" /\ ReadyToEdit(req), alone |-> memoryCalls = {}]
  OBVIOUS
<1>2. /\ memoryCalls' = {[h EXCEPT !.alone = FALSE] : h \in memoryCalls} \cup {new}
      /\ memoryUp /\ req.op \in MemoryTools /\ memorySent' = memorySent + 1
      /\ UNCHANGED <<ledger, memoryJournal, memoryUp, memoryIntact>>
  BY <1>1 DEF ReceiveMemory
<1>3. CallsOk /\ memorySent \in Nat
  BY DEF MemoryInv, RestartInv, CallsOk
<1>4. /\ new.req = req /\ new.content = memorySent + 1 /\ new.phase = 1
      /\ new.at = IF req.op = "repair" THEN "clone" ELSE "ledger"
      /\ new.alone = (memoryCalls = {})
  BY <1>1
<1>5. MemoryCallOk(new)'
  BY <1>1, <1>2, <1>3 DEF MemoryCallOk
<1> DEFINE Same(h, g) ==
        /\ g.content \in 1..memorySent /\ g.content = h.content /\ g.at = h.at
        /\ g.entry = h.entry /\ g.alone = FALSE /\ Op(g) = Op(h)
<1>6. ASSUME NEW h \in memoryCalls, NEW g, g = [h EXCEPT !.alone = FALSE]
      PROVE  Same(h, g) /\ MemoryCallOk(g)'
  <2>1. MemoryCallOk(h)
    BY <1>3 DEF CallsOk
  <2>2. g = [req |-> h.req, content |-> h.content, phase |-> h.phase, at |-> h.at,
             entry |-> h.entry, todo |-> h.todo, hits |-> h.hits, failed |-> h.failed,
             ready |-> h.ready, alone |-> FALSE]
    BY <1>6, <2>1 DEF MemoryCallOk
  <2>3. Op(g) = Op(h)
    BY <2>2 DEF Op
  <2>4. Same(h, g)
    BY <2>1, <2>2, <2>3 DEF MemoryCallOk
  <2>5. MemoryCallOk(g)
    BY <2>1, <2>2, <2>3 DEF MemoryCallOk
  <2>6. MemoryCallOk(g)'
    BY <1>2, <1>3, <2>5 DEF MemoryCallOk, EntryOk, IsRecord, Op
  <2> QED BY <2>4, <2>6
<1>7. \A g \in memoryCalls' : \/ g = new
                              \/ \E h \in memoryCalls : g = [h EXCEPT !.alone = FALSE] /\ Same(h, g)
  <2> SUFFICES ASSUME NEW g \in memoryCalls', g # new
               PROVE  \E h \in memoryCalls : g = [h EXCEPT !.alone = FALSE] /\ Same(h, g)
    OBVIOUS
  <2>1. PICK h \in memoryCalls : g = [h EXCEPT !.alone = FALSE]
    BY <1>2
  <2> HIDE DEF Same
  <2> QED BY <1>6, <2>1
<1>8. CallsOk'
  <2>1. \A g \in memoryCalls' : MemoryCallOk(g)' /\ (g.alone => memoryCalls' = {g})
    <3>1. new.alone => memoryCalls' = {new}
      BY <1>2, <1>4
    <3> QED BY <1>5, <1>6, <1>7, <3>1
  <2>2. \A g, k \in memoryCalls' : g.content = k.content => g = k
    <3> SUFFICES ASSUME NEW g \in memoryCalls', NEW k \in memoryCalls', g.content = k.content
                 PROVE  g = k
      OBVIOUS
    <3>1. CASE g = new \/ k = new
      BY <1>3, <1>4, <1>7, <3>1
    <3>2. ASSUME NEW h \in memoryCalls, g = [h EXCEPT !.alone = FALSE],
                 NEW i \in memoryCalls, k = [i EXCEPT !.alone = FALSE]
          PROVE  g = k
      <4>1. h.content = i.content
        BY <1>6, <3>2
      <4> QED BY <1>3, <3>2, <4>1 DEF CallsOk
    <3> QED BY <1>7, <3>1, <3>2
  <2>3. \A g, k \in memoryCalls' : HoldsLock(g) /\ HoldsLock(k) => g = k
    <3> SUFFICES ASSUME NEW g \in memoryCalls', NEW k \in memoryCalls', HoldsLock(g), HoldsLock(k)
                 PROVE  g = k
      OBVIOUS
    <3>1. g # new /\ k # new
      BY <1>4 DEF HoldsLock
    <3>2. PICK h \in memoryCalls : g = [h EXCEPT !.alone = FALSE]
      BY <1>7, <3>1
    <3>3. PICK i \in memoryCalls : k = [i EXCEPT !.alone = FALSE]
      BY <1>7, <3>1
    <3>4. HoldsLock(h) /\ HoldsLock(i)
      BY <1>6, <3>2, <3>3 DEF HoldsLock
    <3> QED BY <1>3, <3>2, <3>3, <3>4 DEF CallsOk
  <2> QED BY <1>2, <1>3, <2>1, <2>2, <2>3 DEF CallsOk, HoldsLock, Op
<1>9. \A g \in memoryCalls' : RepairProgress(g)' /\ EditProgress(g)'
  <2>1. RepairProgress(new)' /\ EditProgress(new)'
    BY <1>4 DEF RepairProgress, EditProgress
  <2> QED BY <1>6, <1>7, <2>1 DEF RepairProgress, EditProgress
<1>10. JournalOk' /\ LoadJournal(memoryJournal') = LoadJournal(memoryJournal)
  BY <1>2, SameEntries DEF MemoryInv, RestartInv
<1>11. Notes' = Notes
  <2>1. \A g \in Readers' : \E h \in Readers : g.content = h.content
    BY <1>4, <1>7 DEF Readers
  <2>2. ASSUME NEW h \in Readers PROVE \E g \in Readers' : g.content = h.content
    <3>1. PICK g : g = [h EXCEPT !.alone = FALSE]
      OBVIOUS
    <3>2. h \in memoryCalls /\ h.at = "entry" /\ h.entry.kind = "Read"
      BY DEF Readers
    <3>3. g \in memoryCalls' /\ Same(h, g)
      BY <1>2, <1>6, <3>1, <3>2
    <3> QED BY <3>2, <3>3 DEF Readers
  <2> QED BY <2>1, <2>2 DEF Notes
<1>12. JournalFollows'
  <2> SUFFICES ASSUME memoryIntact PROVE JournalFollows'
    BY <1>2 DEF JournalFollows
  <2>1. CASE Writers = {} /\ Lags(LoadJournal(memoryJournal), ledger, Cardinality(Notes))
    <3>1. Writers' = {}
      BY <1>4, <1>7, <2>1 DEF Writers
    <3> QED BY <1>2, <1>10, <1>11, <2>1, <3>1 DEF JournalFollows, Lags
  <2>2. ASSUME NEW h \in Writers,
               Lags(ApplyJournalEntry(LoadJournal(memoryJournal), h.entry), ledger, Cardinality(Notes))
        PROVE  JournalFollows'
    <3>1. PICK g : g = [h EXCEPT !.alone = FALSE]
      OBVIOUS
    <3>2. g \in Writers' /\ g.entry = h.entry
      BY <1>2, <1>6, <3>1 DEF Writers
    <3>3. Lags(ApplyJournalEntry(LoadJournal(memoryJournal'), g.entry), ledger', Cardinality(Notes'))
      BY <1>2, <1>10, <1>11, <2>2, <3>2
    <3> QED BY <3>2, <3>3 DEF JournalFollows, Lags
  <2> QED BY <1>2, <2>1, <2>2 DEF MemoryInv, RestartInv, JournalFollows
<1>13. LedgerOk(ledger)'
  BY <1>2 DEF MemoryInv, RestartInv, LedgerOk, RecordsOk, IsRecord
<1> QED BY <1>8, <1>9, <1>10, <1>12, <1>13 DEF MemoryInv, RestartInv

LEMMA NoCalls ==
  ASSUME memoryCalls = {}
  PROVE  Writers = {} /\ Notes = {} /\ Cardinality(Notes) = 0
<1>1. Writers = {} /\ Notes = {}
  BY DEF Writers, Readers, Notes
<1> QED BY <1>1, FS_EmptySet

LEMMA MemoryCrashKeeps ==
  ASSUME MemoryInv, MemoryCrash
  PROVE  MemoryInv'
<1>1. IsSeq(<<>>)
  BY DEF IsSeq
<1>2. LedgerOk(ledger)'
  BY <1>1 DEF MemoryCrash, EmptyLedger, LedgerOk, RecordsOk, IsSeq
<1>3. JournalOk'
  BY SameEntries DEF MemoryCrash, MemoryInv, RestartInv
<1> QED BY <1>2, <1>3 DEF MemoryCrash, MemoryInv, RestartInv, CallsOk, JournalFollows

LEMMA MemoryRestartKeeps ==
  ASSUME MemoryInv, MemoryRestart
  PROVE  MemoryInv'
<1>1. memoryCalls' = {} /\ ledger' = LoadJournal(memoryJournal) /\ UNCHANGED memoryJournal
  BY DEF MemoryRestart, MemoryInv, RestartInv, CallsOk
<1>2. LedgerOk(LoadJournal(memoryJournal))
  BY LoadOk DEF MemoryInv, RestartInv, JournalOk
<1>3. LedgerOk(ledger)'
  BY <1>1, <1>2 DEF LedgerOk, RecordsOk, IsRecord, IsSeq
<1>4. JournalOk' /\ LoadJournal(memoryJournal') = LoadJournal(memoryJournal)
  BY <1>1, SameEntries DEF MemoryInv, RestartInv
<1>5. JournalFollows'
  <2>1. Writers' = {} /\ Cardinality(Notes') = 0
    <3>1. Writers' = {} /\ Notes' = {}
      BY <1>1 DEF Writers, Readers, Notes
    <3> QED BY <3>1, FS_EmptySet
  <2>2. Lags(LoadJournal(memoryJournal'), ledger', Cardinality(Notes'))
    BY <1>1, <1>2, <2>1, LagsAdds
  <2> QED BY <2>1, <2>2 DEF JournalFollows, Lags
<1>6. CallsOk'
  BY <1>1 DEF MemoryRestart, MemoryInv, RestartInv, CallsOk
<1> QED BY <1>1, <1>3, <1>4, <1>5, <1>6 DEF MemoryInv, RestartInv

LEMMA MemoryInvInit == MemoryInit => MemoryInv
<1> SUFFICES ASSUME MemoryInit PROVE MemoryInv
  OBVIOUS
<1>1. IsSeq(<<>>)
  BY DEF IsSeq
<1>2. LedgerOk(ledger)
  BY <1>1 DEF MemoryInit, EmptyLedger, LedgerOk, RecordsOk
<1>3. JournalOk
  BY <1>1 DEF MemoryInit, JournalOk
<1>4. JournalFollows
  <2>1. Lags(LoadJournal(memoryJournal), ledger, 0)
    BY <1>2, LoadEmpty, LagsAdds DEF MemoryInit
  <2> QED BY <2>1, NoCalls DEF MemoryInit, JournalFollows
<1> QED BY <1>2, <1>3, <1>4 DEF MemoryInit, MemoryInv, RestartInv, CallsOk

LEMMA MemoryInvNext == MemoryInv /\ [MemoryNext]_memoryVars => MemoryInv'
<1> SUFFICES ASSUME MemoryInv, [MemoryNext]_memoryVars PROVE MemoryInv'
  OBVIOUS
<1>1. ASSUME NEW req \in MemoryRequests, ReceiveMemory(req) PROVE MemoryInv'
  BY <1>1, ReceiveMemoryKeeps
<1>2. ASSUME NEW h \in memoryCalls,
             ChangeLedger(h) \/ SearchLedger(h) \/ NoteRead(h) \/ AppendMemoryJournal(h)
      PROVE  MemoryInv'
  BY <1>2, ChangeLedgerKeeps, SearchLedgerKeeps, NoteReadKeeps, AppendMemoryJournalKeeps
<1>3. ASSUME NEW h \in memoryCalls,
             \/ ForwardToGraphiti(h) \/ ForwardToQdrant(h) \/ SearchQdrant(h)
             \/ CloneRecords(h) \/ RepairRecord(h) \/ RepairEnds(h) \/ AnswerMemory(h)
      PROVE  MemoryInv'
  BY <1>3, ForwardToGraphitiKeeps, QdrantKeeps, CloneRecordsKeeps, RepairRecordKeeps,
     RepairEndsKeeps, AnswerMemoryKeeps
<1>4. CASE MemoryCrash
  BY <1>4, MemoryCrashKeeps
<1>5. CASE MemoryRestart
  BY <1>5, MemoryRestartKeeps
<1>6. CASE UNCHANGED memoryVars
  <2>1. UNCHANGED <<ledger, memoryJournal, graph, points, memoryCalls, memoryUp, memorySent,
                    memoryIntact>>
    BY <1>6 DEF memoryVars
  <2>2. JournalOk' /\ LedgerOk(ledger)'
    BY <2>1, SameEntries DEF MemoryInv, RestartInv, LedgerOk, RecordsOk, IsRecord
  <2>3. JournalFollows'
    <3>1. Writers' = Writers /\ Notes' = Notes
      BY <2>1 DEF Writers, Readers, Notes
    <3> QED BY <2>1, <3>1, SameJournal DEF MemoryInv, RestartInv
  <2>4. \A h \in memoryCalls : RepairProgress(h)' /\ EditProgress(h)'
    BY <2>1 DEF MemoryInv, RepairProgress, EditProgress, Replaced, Replacement, InGraph, InPoints
  <2>5. CallsOk'
    BY <2>1 DEF MemoryInv, RestartInv, CallsOk, MemoryCallOk, EntryOk, IsRecord, HoldsLock, Op
  <2> QED BY <2>1, <2>2, <2>3, <2>4, <2>5 DEF MemoryInv, RestartInv
<1> QED BY <1>1, <1>2, <1>3, <1>4, <1>5, <1>6 DEF MemoryNext

LEMMA MemoryInvAlways == MemorySpec => []MemoryInv
BY MemoryInvInit, MemoryInvNext, PTL DEF MemorySpec

\* Whatever order the requests came in and however often the gateway was
\* restarted, its journal rebuilds its ledger once nothing is half written
\* (apply_journal_entry).
THEOREM MemoryRestartIsFaithful == MemorySpec => []MemoryRestartShowsTheSame
<1>1. ASSUME MemoryInv, memoryUp, memoryIntact, Journalled
      PROVE  Lags(LoadJournal(memoryJournal), ledger, 0)
  <2>1. Writers = {} /\ Notes = {}
    BY <1>1 DEF Journalled, Writers, Readers, Notes
  <2> QED BY <1>1, <2>1, FS_EmptySet DEF MemoryInv, RestartInv, JournalFollows
<1>2. MemoryInv => MemoryRestartShowsTheSame
  <2> SUFFICES ASSUME MemoryInv, memoryUp, memoryIntact, Journalled
               PROVE  LET loaded == LoadJournal(memoryJournal)
                      IN  /\ loaded.records = ledger.records
                          /\ RecordChanges(loaded.events) = RecordChanges(ledger.events)
                          /\ Len(loaded.events) = Len(ledger.events)
    BY DEF MemoryRestartShowsTheSame
  <2>1. Lags(LoadJournal(memoryJournal), ledger, 0)
    BY <1>1
  <2>2. LedgerOk(LoadJournal(memoryJournal))
    BY LoadOk DEF MemoryInv, RestartInv, JournalOk
  <2>3. Len(LoadJournal(memoryJournal).events) \in Nat
    BY <2>2, AppendSeq DEF LedgerOk
  <2> QED BY <2>1, <2>3 DEF Lags
<1> QED BY <1>2, MemoryInvAlways, PTL

\* An undisturbed repair leaves every selected record in both indexes as the
\* ledger has it (repair_memory_with_adapters).
THEOREM RepairAlwaysHeals == MemorySpec => []RepairHeals
<1>1. MemoryInv => RepairHeals
  BY DEF MemoryInv, RepairProgress, RepairHeals, InGraph, InPoints
<1> QED BY <1>1, MemoryInvAlways, PTL

\* An undisturbed edit leaves its replacement valid and what it replaced
\* invalidated (edit_memory_with_adapters).
THEOREM EditAlwaysReplaces == MemorySpec => []EditReplaces
<1>1. MemoryInv => EditReplaces
  BY DEF MemoryInv, EditProgress, EditReplaces, Replaced, Replacement, LedgerHits
<1> QED BY <1>1, MemoryInvAlways, PTL
=============================================================================
