--------------------------- MODULE ScenarioContract ---------------------------
(* The end-to-end scenarios of the command line: how a scenario file is     *)
(* normalised, which projection is derived from it when it brings none,     *)
(* which contract it must meet to be accepted and how a projection is       *)
(* judged against it (crates/cli/src/scenario.rs).                          *)
(*                                                                          *)
(* A status stands for its normalised token.  A text is what the searches   *)
(* tell apart: an action text is "none", "vague", "concrete" or a           *)
(* "recovery", a reference is a number, 0 when absent or not concrete.      *)
(* Worker results, thunks, resumes and thunk nodes are values of one shape. *)
EXTENDS Naturals, Sequences, FiniteSets

ResumableWaits == {"waiting", "waiting_input", "waiting_approval"}
BlockedTokens == ResumableWaits \cup {"blocked"}
ActionNeededTokens == BlockedTokens \cup {"failed", "budget_exhausted"}
CompletedTokens == {"done", "satisfied", "completed"}
CancelledTokens == {"cancelled", "canceled"}

TerminalStateFrom(status) ==
    CASE status = "done" -> "completed"
      [] status \in {"failed", "blocked", "cancelled", "paused", "running"} -> status
      [] status = "waiting_approval" -> "waiting"
      [] OTHER -> ""

NormalTerminal(state) == IF state = "done" THEN "completed" ELSE state

NoRef == 0
NoTaskId == <<>>
NullValue == [status |-> "", task |-> NoTaskId, id |-> NoRef, kind |-> "", action |-> "none",
              continuation |-> NoRef, approval |-> NoRef, artifacts |-> <<>>,
              thunks |-> <<>>, prompts |-> <<>>]

\* delayed_compute_thunks and the approval requests of a worker result
DelayedThunks(v) == v.thunks \o v.prompts
ThunksOf(v) == {DelayedThunks(v)[i] : i \in DOMAIN DelayedThunks(v)}

\* The searches of a value and, below it, of its thunks.
OperatorAction(v) ==
    \/ v.action \in {"concrete", "recovery"}
    \/ \E t \in ThunksOf(v) : t.action \in {"concrete", "recovery"}
RecoveryAction(v) == v.action = "recovery"
ContinuationRef(v) ==
    IF v.continuation # NoRef \/ \A t \in ThunksOf(v) : t.continuation = NoRef
    THEN v.continuation
    ELSE LET l == DelayedThunks(v)
             n == CHOOSE i \in DOMAIN l : /\ l[i].continuation # NoRef
                                          /\ \A j \in 1..(i - 1) : l[j].continuation = NoRef
         IN  l[n].continuation
ApprovalRef(v) ==
    IF v.approval # NoRef \/ \A t \in ThunksOf(v) : t.approval = NoRef
    THEN v.approval
    ELSE LET l == DelayedThunks(v)
             n == CHOOSE i \in DOMAIN l : /\ l[i].approval # NoRef
                                          /\ \A j \in 1..(i - 1) : l[j].approval = NoRef
         IN  l[n].approval

\* The serialised value names a wait; the name of the thunk list is enough.
WaitMarker(v) ==
    \/ v.status \in {"waiting_input", "waiting_approval"}
    \/ v.kind = "delayed_compute_thunk"
    \/ v.thunks # <<>>
RequiredWait(v) == v.status \in ResumableWaits \/ DelayedThunks(v) # <<>> \/ WaitMarker(v)
PlainBlocked(v) == v.status = "blocked" /\ DelayedThunks(v) = <<>> /\ ~WaitMarker(v)
ApprovalWait(v) ==
    \/ v.status = "waiting_approval"
    \/ v.kind = "approval"
    \/ \E t \in ThunksOf(v) : t.kind = "approval"
    \/ v.prompts # <<>>

ResumeKinds == {"ResumeThunk", "ResumeDelayedCompute", "Approve"}

ActionsOf(spec) == {spec.actions[i] : i \in DOMAIN spec.actions}
ResultsOf(action) == {action.results[i] : i \in DOMAIN action.results}
SpecResults(spec) == UNION {ResultsOf(a) : a \in ActionsOf(spec)}
SpecHasRequiredWait(spec) == \E r \in SpecResults(spec) : RequiredWait(r)

(***************************************************************************)
(* Normalisation                                                           *)
(***************************************************************************)

GoalId(goal) ==
    IF goal.id # NoRef THEN goal.id ELSE IF goal.specId # NoRef THEN goal.specId ELSE goal.payloadId

FirstGoalId(spec) == IF spec.goals = <<>> THEN NoRef ELSE GoalId(spec.goals[1])

CountSum(counts) ==
    LET order == CHOOSE s \in [1..Cardinality(DOMAIN counts) -> DOMAIN counts] :
                     \A x \in DOMAIN counts : \E i \in DOMAIN s : s[i] = x
        sum[i \in 0..Cardinality(DOMAIN counts)] ==
            IF i = 0 THEN 0 ELSE sum[i - 1] + counts[order[i]]
    IN  sum[Cardinality(DOMAIN counts)]

\* What the scenario leaves open is taken from its expected terminal state.
Expectations(spec) ==
    LET given == spec.expectations
        status == IF given.goalStatus # "" THEN given.goalStatus ELSE spec.expected.goalStatus
        counts == IF given.taskStatuses # <<>> THEN given.taskStatuses ELSE spec.expected.taskCounts
        events == IF given.events # <<>> THEN given.events ELSE spec.expected.events
        files == IF given.artifacts # <<>> THEN given.artifacts ELSE spec.expected.artifacts
        least == [tasks |-> CountSum(counts), events |-> Len(events), artifacts |-> Len(files),
                  subgoals |-> 0, nodes |-> 0]
    IN  [goalStatus |-> status,
         terminal |-> IF given.terminal # "" THEN given.terminal ELSE TerminalStateFrom(status),
         taskStatuses |-> counts, events |-> events, artifacts |-> files,
         least |-> [k \in DOMAIN least |-> IF given.least[k] # 0 THEN given.least[k] ELSE least[k]],
         exact |-> given.exact, taskPurposes |-> given.taskPurposes,
         transitions |-> given.transitions, blocked |-> given.blocked,
         surfaces |-> {"goal_list", "selected_goal", "task_graph"},
         actionRequired |-> given.actionRequired \/ SpecHasRequiredWait(spec)]

(***************************************************************************)
(* The projection of a scenario that brings none                           *)
(***************************************************************************)

TaskStatusFrom(result) ==
    CASE result.status \in BlockedTokens -> "blocked"
      [] result.status \in CancelledTokens -> "cancelled"
      [] result.status \in {"failed", "needs_validation", "running", "runnable", "pending"} ->
            result.status
      [] OTHER -> "done"

ScenarioTask(id, status, purpose, result) ==
    [id |-> id, status |-> status, purpose |-> purpose, result |-> result]

\* The worker results in the order of the actions, each with its action.
ResultList(spec) ==
    LET upTo[i \in 0..Len(spec.actions)] ==
            IF i = 0 THEN <<>>
            ELSE upTo[i - 1] \o [k \in 1..Len(spec.actions[i].results) |->
                                    [value |-> spec.actions[i].results[k],
                                     action |-> spec.actions[i]]]
    IN  upTo[Len(spec.actions)]

\* Mutant: the first result of a task stays.
PlaceFirst(tasks, entry) ==
    IF \E i \in DOMAIN tasks : tasks[i].id = entry.value.task THEN tasks
    ELSE Append(tasks, ScenarioTask(entry.value.task, TaskStatusFrom(entry.value),
                                    entry.action.purpose, entry.value))

\* A later result for a task takes the place of an earlier one.
PlaceTask(tasks, entry) ==
    LET id == CASE entry.value.task # NoTaskId -> entry.value.task
                [] entry.value.task = NoTaskId /\ entry.action.task # NoTaskId -> entry.action.task
                [] OTHER -> <<"task", Len(tasks) + 1>>
        task == ScenarioTask(id, TaskStatusFrom(entry.value), entry.action.purpose, entry.value)
    IN  IF \E i \in DOMAIN tasks : tasks[i].id = id
        THEN [i \in DOMAIN tasks |-> IF tasks[i].id = id THEN task ELSE tasks[i]]
        ELSE Append(tasks, task)

WithStatus(tasks, status) == {i \in DOMAIN tasks : tasks[i].status = status}

\* Mutant: one task less is added.
MissingAfterOne(tasks, counts) ==
    UNION {{<<"pad", s, n>> : n \in (Cardinality(WithStatus(tasks, s)) + 2)..counts[s]} :
               s \in DOMAIN counts}

\* Tasks are added until each expected count is reached.
MissingTasks(tasks, counts) ==
    UNION {{<<"pad", s, n>> : n \in (Cardinality(WithStatus(tasks, s)) + 1)..counts[s]} :
               s \in DOMAIN counts}
PadTasks(tasks, counts) ==
    LET missing == MissingTasks(tasks, counts)
        order == CHOOSE f \in [1..Cardinality(missing) -> missing] :
                     \A m \in missing : \E i \in DOMAIN f : f[i] = m
        purpose(s) == IF s = "done" THEN "work" ELSE "review"
    IN  tasks \o [i \in 1..Cardinality(missing) |->
                     ScenarioTask(order[i], order[i][2], purpose(order[i][2]), NullValue)]

TasksFromScenario(spec) ==
    LET results == ResultList(spec)
        upTo[i \in 0..Len(results)] ==
            IF i = 0 THEN <<>> ELSE PlaceTask(upTo[i - 1], results[i])
    IN  PadTasks(upTo[Len(results)], spec.expected.taskCounts)

ResumedByAction(spec, id, continuation) ==
    \E a \in ActionsOf(spec) :
        /\ a.kind \in ResumeKinds
        /\ \/ a.resume.id # NoRef /\ a.resume.id = id
           \/ continuation # NoRef /\ ContinuationRef(a.resume) = continuation

\* The node of a thunk; what the thunk does not say is taken from its result.
ThunkNodeOf(spec, thunk, result, fresh) ==
    LET id == IF thunk.id # NoRef THEN thunk.id ELSE 100 + fresh
        continuation == IF ContinuationRef(thunk) # NoRef THEN ContinuationRef(thunk)
                        ELSE ContinuationRef(result)
        approval == IF ApprovalRef(thunk) # NoRef THEN ApprovalRef(thunk) ELSE ApprovalRef(result)
        action == IF OperatorAction(thunk) THEN thunk.action
                  ELSE IF result.action \in {"concrete", "recovery"} THEN result.action
                  ELSE IF OperatorAction(result) THEN "concrete" ELSE "none"
    IN  [NullValue EXCEPT !.id = id, !.kind = "delayed_compute_thunk",
            !.status = IF ResumedByAction(spec, id, continuation) THEN "resumed" ELSE "waiting",
            !.continuation = continuation, !.approval = approval, !.action = action]

DelayedComputeNodes(spec) ==
    LET results == ResultList(spec)
        thunks[i \in 0..Len(results)] ==
            IF i = 0 THEN <<>>
            ELSE LET v == results[i].value
                 IN  thunks[i - 1] \o [k \in 1..Len(DelayedThunks(v)) |->
                                          [thunk |-> DelayedThunks(v)[k], result |-> v]]
        all == thunks[Len(results)]
        nodes[i \in 0..Len(all)] ==
            IF i = 0 THEN <<>>
            ELSE LET before == nodes[i - 1]
                     node == ThunkNodeOf(spec, all[i].thunk, all[i].result, Len(before) + 1)
                 IN  IF \E k \in DOMAIN before : before[k].id = node.id THEN before
                     ELSE Append(before, node)
    IN  nodes[Len(all)]

EventsFromScenario(spec) ==
    spec.expected.events \o [i \in DOMAIN spec.actions |-> spec.actions[i].name]
ArtifactsFromScenario(spec) ==
    LET results == ResultList(spec)
        upTo[i \in 0..Len(results)] ==
            IF i = 0 THEN spec.expected.artifacts \o spec.policyArtifacts
            ELSE upTo[i - 1] \o results[i].value.artifacts
    IN  upTo[Len(results)]
SubgoalsFromScenario(spec, tasks) ==
    IF spec.subgoals > 0 THEN spec.subgoals ELSE IF Len(tasks) > 6 THEN 6 ELSE Len(tasks)

\* The goal and task nodes, the forks and fan-outs and the first three events.
PlainNodes(spec, tasks, events) ==
    1 + Len(tasks) + spec.joins + (IF Len(events) > 3 THEN 3 ELSE Len(events))

RunnerDispatches(spec) ==
    {i \in DOMAIN spec.actions :
        spec.actions[i].kind \in {"InjectWorkerResult", "InjectWorkerResults", "IterationFixture"}}

ProjectionFromScenario(spec) ==
    LET e == spec.expected
        status == IF e.goalStatus # "" THEN e.goalStatus
                  ELSE IF e.status # "" THEN e.status ELSE "done"
        tasks == TasksFromScenario(spec)
        events == EventsFromScenario(spec)
    IN  [goalId |-> FirstGoalId(spec), goalStatus |-> status,
         terminal |-> TerminalStateFrom(status), subgoals |-> SubgoalsFromScenario(spec, tasks),
         tasks |-> tasks, events |-> events, artifacts |-> ArtifactsFromScenario(spec),
         thunks |-> DelayedComputeNodes(spec), nodes |-> PlainNodes(spec, tasks, events),
         dispatches |-> RunnerDispatches(spec),
         surfaces |-> {"goal_list", "selected_goal", "task_graph", "usability_coherence"}
                        \cup (IF SpecHasRequiredWait(spec) THEN {"human_queue"} ELSE {}),
         transitions |-> {a.name : a \in ActionsOf(spec)},
         terms |-> spec.coherence.terms, rationale |-> e.rationale]

NoProjection == [goalId |-> NoRef, goalStatus |-> "", terminal |-> "", subgoals |-> 0,
                 tasks |-> <<>>, events |-> <<>>, artifacts |-> <<>>, thunks |-> <<>>, nodes |-> 0,
                 dispatches |-> {}, transitions |-> {}, surfaces |-> {}, terms |-> {}, rationale |-> FALSE]

FixtureProjection(spec) ==
    IF spec.projection # NoProjection THEN spec.projection ELSE ProjectionFromScenario(spec)

(***************************************************************************)
(* The contract                                                            *)
(***************************************************************************)

TasksIn(p) == {p.tasks[i] : i \in DOMAIN p.tasks}
ThunksIn(p) == {p.thunks[i] : i \in DOMAIN p.thunks}
TaskValue(task) == [NullValue EXCEPT !.status = task.status]
RequirementValues(spec, p) ==
    {a.resume : a \in ActionsOf(spec)} \cup SpecResults(spec)
        \cup {TaskValue(t) : t \in TasksIn(p)} \cup ThunksIn(p)

RecoveryGiven(spec, p) == \E v \in RequirementValues(spec, p) : RecoveryAction(v)
BlockedOperatorAction(spec, p) ==
    \/ \E v \in RequirementValues(spec, p) : OperatorAction(v)
    \/ RecoveryGiven(spec, p)
ContinuationGiven(spec, p) ==
    \E v \in RequirementValues(spec, p) : ContinuationRef(v) # NoRef

RequiredWaitPresent(spec, p) ==
    \/ Expectations(spec).actionRequired
    \/ \E t \in TasksIn(p) : WaitMarker(TaskValue(t)) \/ WaitMarker(t.result)
    \/ \E n \in ThunksIn(p) : WaitMarker(n)
PlainBlockedPresent(spec, p) ==
    \/ \E r \in SpecResults(spec) : PlainBlocked(r)
    \/ \E t \in TasksIn(p) : PlainBlocked(TaskValue(t)) /\ ~WaitMarker(t.result)

\* validate_action_required_contract
RequiredWaitsAnswerable(spec, p) ==
    /\ RequiredWaitPresent(spec, p) => BlockedOperatorAction(spec, p) /\ ContinuationGiven(spec, p)
    /\ PlainBlockedPresent(spec, p) => RecoveryGiven(spec, p)

ActionNeededPresent(spec, p) ==
    \/ p.goalStatus \in ActionNeededTokens \/ p.terminal \in ActionNeededTokens
    \/ \E t \in TasksIn(p) : t.status \in ActionNeededTokens
    \/ \E r \in SpecResults(spec) : r.status \in ActionNeededTokens
ActionNeededCheck(spec, p) == ActionNeededPresent(spec, p) => BlockedOperatorAction(spec, p)

ResumableWaitPresent(spec, p) ==
    RequiredWaitPresent(spec, p) \/ \E t \in TasksIn(p) : t.status \in ResumableWaits
ResumableWaitCheck(spec, p) == ResumableWaitPresent(spec, p) => ContinuationGiven(spec, p)

ApprovalRequestRefs(spec, p) ==
    {ApprovalRef(v) : v \in SpecResults(spec) \cup ThunksIn(p)} \ {NoRef}
ApprovalWaitPresent(spec, p) ==
    \/ \E r \in SpecResults(spec) : ApprovalWait(r)
    \/ \E t \in TasksIn(p) : ApprovalWait(TaskValue(t)) \/ \E x \in ThunksOf(t.result) : x.kind = "approval"
IsApprovalResume(a) ==
    \/ a.kind = "Approve"
    \/ a.kind \in ResumeKinds /\ (ApprovalRef(a.resume) # NoRef \/ a.resume.kind = "approve")
ApprovalResumes(spec) == {a \in ActionsOf(spec) : IsApprovalResume(a)}
ApprovalRefsCheck(spec, p) ==
    /\ ApprovalWaitPresent(spec, p) => ApprovalRequestRefs(spec, p) # {}
    /\ \A a \in ApprovalResumes(spec) : ApprovalRef(a.resume) \in ApprovalRequestRefs(spec, p)

ExpectedGoalStatus(spec, p) ==
    IF spec.expected.goalStatus # "" THEN spec.expected.goalStatus
    ELSE IF spec.expected.status # "" THEN spec.expected.status ELSE p.goalStatus
ExpectedTerminal(spec, p) ==
    IF spec.expected.terminal # "" THEN spec.expected.terminal ELSE p.terminal

\* Only completed and cancelled goals are terminal; failures stay recoverable.
TerminalStateCheck(spec, p) ==
    LET status == ExpectedGoalStatus(spec, p)
        counts == spec.expected.taskCounts
        misused == \/ \E s \in DOMAIN counts : counts[s] > 0 /\ s \in ActionNeededTokens
                   \/ \E t \in TasksIn(p) : t.status \in ActionNeededTokens
    IN  /\ NormalTerminal(ExpectedTerminal(spec, p)) \notin {"failed", "budget_exhausted"}
        /\ status \notin {"failed", "budget_exhausted"}
        /\ ~(status \in CompletedTokens \cup CancelledTokens /\ misused)

StateMachineContract(spec, p) ==
    /\ ActionNeededCheck(spec, p) /\ ResumableWaitCheck(spec, p)
    /\ ApprovalRefsCheck(spec, p) /\ TerminalStateCheck(spec, p)

\* validate_spec
ValidateSpec(spec) ==
    /\ spec.safeId
    /\ RequiredWaitsAnswerable(spec, FixtureProjection(spec))
    /\ StateMachineContract(spec, FixtureProjection(spec))

(***************************************************************************)
(* The verdict                                                             *)
(***************************************************************************)

StatusCount(p, status) == Cardinality({i \in DOMAIN p.tasks : p.tasks[i].status = status})
PurposeCount(p, purpose) == Cardinality({i \in DOMAIN p.tasks : p.tasks[i].purpose = purpose})
SizesOf(p) == [subgoals |-> p.subgoals, tasks |-> Len(p.tasks), events |-> Len(p.events),
               artifacts |-> Len(p.artifacts), nodes |-> p.nodes + Len(p.thunks)]
Listed(list) == {list[i] : i \in DOMAIN list}

ExpectationsMet(spec, p) ==
    LET x == Expectations(spec)
    IN  /\ x.terminal # "" => NormalTerminal(p.terminal) = NormalTerminal(x.terminal)
        /\ x.goalStatus # "" => p.goalStatus = x.goalStatus
        /\ \A k \in DOMAIN x.exact : SizesOf(p)[k] = x.exact[k]
        /\ \A k \in DOMAIN x.least : SizesOf(p)[k] >= x.least[k]
        /\ \A s \in DOMAIN x.taskStatuses : StatusCount(p, s) >= x.taskStatuses[s]
        /\ \A s \in DOMAIN x.taskPurposes : PurposeCount(p, s) >= x.taskPurposes[s]
        /\ Listed(x.events) \subseteq Listed(p.events)
        /\ Listed(x.artifacts) \subseteq Listed(p.artifacts)
        /\ spec.expected.forbidden \cap Listed(p.events) = {}
        /\ spec.forbiddenArtifacts \cap Listed(p.artifacts) = {}
        /\ x.surfaces \subseteq p.surfaces /\ x.transitions \subseteq p.transitions
        /\ x.blocked => \E t \in TasksIn(p) : t.status = "blocked"
        /\ x.actionRequired => p.thunks # <<>>

BlockedPresent(spec, p) ==
    \/ p.goalStatus = "blocked" \/ NormalTerminal(p.terminal) = "blocked"
    \/ \E t \in TasksIn(p) : t.status \in BlockedTokens
    \/ \E r \in SpecResults(spec) : r.status \in BlockedTokens \/ DelayedThunks(r) # <<>>
GoalIsCompleted(p) == p.goalStatus \in CompletedTokens \/ NormalTerminal(p.terminal) = "completed"
HasEvidence(p) == p.artifacts # <<>> \/ \E t \in TasksIn(p) : t.result.artifacts # <<>>

\* usability_coherence_checks
CoherenceMet(spec, p) ==
    LET c == spec.coherence
    IN  /\ c.terms \subseteq p.terms
        /\ c.blocked /\ BlockedPresent(spec, p) => BlockedOperatorAction(spec, p)
        /\ c.evidence /\ GoalIsCompleted(p) => HasEvidence(p)
        /\ c.rationale /\ GoalIsCompleted(p) => spec.expected.rationale \/ p.rationale

\* evaluate: the scenario passed
Evaluate(spec, p) ==
    ExpectationsMet(spec, p) /\ CoherenceMet(spec, p) /\ StateMachineContract(spec, p)

(***************************************************************************)
(* The snapshot a scenario seeds into the goal store                       *)
(***************************************************************************)

SeedGoalStatus(p) ==
    CASE p.goalStatus \in {"done", "completed"} -> "done"
      [] p.goalStatus \in CancelledTokens -> "cancelled"
      [] p.goalStatus \in {"blocked", "failed", "waiting_approval", "paused"} -> p.goalStatus
      [] OTHER -> "running"
SeedTaskStatus(status) ==
    CASE status = "waiting" -> "waiting_input"
      [] status = "completed" -> "done"
      [] status \in CancelledTokens -> "cancelled"
      [] status \in {"runnable", "running", "needs_validation", "waiting_approval",
                     "waiting_input", "done", "blocked", "failed"} -> status
      [] OTHER -> "pending"
SeedNodeStatus(status) ==
    CASE status \in ResumableWaits -> "waiting"
      [] status \in {"done", "completed", "resumed"} -> "done"
      [] status \in CancelledTokens -> "cancelled"
      [] status \in {"runnable", "running", "needs_validation", "blocked", "failed", "paused",
                     "expired"} -> status
      [] OTHER -> "pending"

SeedTasks(p) ==
    [i \in DOMAIN p.tasks |-> [id |-> p.tasks[i].id, status |-> SeedTaskStatus(p.tasks[i].status)]]
SeedNodes(p) ==
    {[kind |-> "goal", id |-> <<"goal", p.goalId>>, status |-> SeedNodeStatus(SeedGoalStatus(p))]}
        \cup {[kind |-> "task", id |-> t.id, status |-> SeedNodeStatus(t.status)] : t \in TasksIn(p)}
        \cup {[kind |-> "thunk", id |-> <<"thunk", n.id>>, status |-> SeedNodeStatus(n.status)] :
                 n \in ThunksIn(p)}
SeedGraph(p) ==
    [nodes |-> SeedNodes(p),
     openThunks |-> Cardinality({n \in SeedNodes(p) : n.kind = "thunk" /\ n.status = "pending"}),
     waiting |-> {t.id : t \in {x \in TasksIn(p) :
                     SeedTaskStatus(x.status) \in {"waiting_input", "waiting_approval", "blocked"}}},
     runnable |-> {t.id : t \in {x \in TasksIn(p) : x.status = "runnable"}}]
SeedApprovals(p) ==
    UNION {{[task |-> t.id, ref |-> x.approval,
             status |-> IF x.status = "pending" THEN "pending" ELSE "approved"] :
               x \in {y \in {t.result.thunks[i] : i \in DOMAIN t.result.thunks} : y.kind = "approval"}} :
           t \in TasksIn(p)}
SeedCount(p, statuses) ==
    Cardinality({i \in DOMAIN p.tasks : SeedTasks(p)[i].status \in statuses})
SeedRequest(p) ==
    [goal |-> [id |-> p.goalId, status |-> SeedGoalStatus(p), total |-> Len(p.tasks),
               open |-> Len(p.tasks) - SeedCount(p, {"done", "cancelled"}),
               blocked |-> SeedCount(p, {"blocked", "waiting_input", "waiting_approval"}),
               failed |-> SeedCount(p, {"failed"}),
               satisfied |-> p.goalStatus = "done" \/ p.terminal = "completed"],
     graph |-> SeedGraph(p), tasks |-> SeedTasks(p), approvals |-> SeedApprovals(p),
     events |-> p.events, artifacts |-> p.artifacts]
=============================================================================
