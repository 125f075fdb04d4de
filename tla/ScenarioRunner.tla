---------------------------- MODULE ScenarioRunner ----------------------------
(* `coat scenario run` and `coat scenario seed`: a scenario file is read,   *)
(* its fixture replayed or the control gateway driven and polled, the       *)
(* projection judged and the evidence written into the run directory.  The  *)
(* process may end at any step; the run directory survives it.              *)
EXTENDS ScenarioContract

CONSTANTS ScenarioFiles, \* the scenario files that may be run
          GatewayGoals,  \* goal ids the gateway may answer a submission with
          MaxRuns        \* how often a scenario is run

\* A scenario lists actions, an action lists results; counts are numbers, one
\* for each member of a JSON object.
ASSUME ScenarioAssumption ==
    \A spec \in ScenarioFiles :
        /\ spec.actions \in Seq(ActionsOf(spec))
        /\ \A a \in ActionsOf(spec) : a.results \in Seq(ResultsOf(a))
        /\ IsFiniteSet(DOMAIN spec.expected.taskCounts)
        /\ \A s \in DOMAIN spec.expected.taskCounts : spec.expected.taskCounts[s] \in Nat

VARIABLES scenario, \* the running command
          disk      \* the run directory: evidence.json and report.json
scenarioVars == <<scenario, disk>>

NoSpec == <<>>
NoReport == [passed |-> FALSE, mode |-> "none", spec |-> NoSpec, projection |-> NoProjection]
IdleRun(runs) == [phase |-> "idle", runs |-> runs, spec |-> NoSpec, at |-> 0, known |-> {},
                  mode |-> "none", projection |-> NoProjection, seeded |-> <<>>]

LeastId(ids) == CHOOSE i \in ids : \A j \in ids : i <= j

\* scenario_goal_ids
ScenarioGoalIds(spec, p) ==
    ({p.goalId} \cup {GoalId(spec.goals[i]) : i \in DOMAIN spec.goals}) \ {NoRef}

\* action_goal_id: the goal an action names, or the first one known
ActionGoalKnown(action, known) == action.goalRef # NoRef \/ known # {}

\* goal_body: the goal a submission names, or the first one
Submittable(spec, action) ==
    IF action.goalRef = NoRef THEN spec.goals # <<>>
    ELSE \E i \in DOMAIN spec.goals : GoalId(spec.goals[i]) = action.goalRef
BodyGoalId(spec, action) ==
    IF action.goalRef = NoRef THEN FirstGoalId(spec) ELSE action.goalRef

Bail == scenario' = [scenario EXCEPT !.phase = "ended"] /\ UNCHANGED disk

\* read_spec: only scenarios that meet the contract are run or seeded.
ReadSpec ==
    /\ scenario.phase = "idle" /\ scenario.runs < MaxRuns
    /\ \E spec \in ScenarioFiles :
        scenario' = [IdleRun(scenario.runs + 1) EXCEPT
                        !.phase = IF ValidateSpec(spec) THEN "ready" ELSE "ended", !.spec = spec]
    /\ UNCHANGED disk

Collected(p, mode) ==
    scenario' = [scenario EXCEPT !.phase = "collected", !.projection = p, !.mode = mode]

\* collect_projection of a scenario that asks for its fixture
ReplayFixture ==
    /\ scenario.phase = "ready" /\ scenario.spec.replay
    /\ IF \A a \in ActionsOf(scenario.spec) : a.kind = "SubmitGoal" => Submittable(scenario.spec, a)
       THEN Collected(FixtureProjection(scenario.spec), "fixture_projection_replay")
            /\ UNCHANGED disk
       ELSE Bail

\* gateway_reachable: the probe may find nobody
ProbeGateway ==
    /\ scenario.phase = "ready" /\ ~scenario.spec.replay
    /\ \/ Collected(FixtureProjection(scenario.spec), "offline_fixture")
       \/ scenario' = [scenario EXCEPT !.phase = "driving", !.at = 1,
              !.known = ScenarioGoalIds(scenario.spec, FixtureProjection(scenario.spec))]
    /\ UNCHANGED disk

LocalKinds == {"Wait", "InjectWorkerResult", "InjectWorkerResults", "ValidateGoal",
               "IterationFixture", "Other"}
GoalPathKinds == {"Approve", "ResumeThunk", "ResumeDelayedCompute", "Steer", "Vote",
                  "BranchSelect"}

\* action_path and action_body: a request can be made at all
RequestPossible(spec, action, known) ==
    CASE action.kind = "SubmitGoal" -> Submittable(spec, action)
      [] action.kind \in GoalPathKinds \cup {"WaitForProjection"} -> ActionGoalKnown(action, known)
      [] action.kind \in {"GetJson", "PostJson"} -> action.path
      [] OTHER -> TRUE

\* What the gateway answers; a submission may come back with a goal id.
GatewayAnswers(action) ==
    [ok : BOOLEAN, goal : IF action.kind = "SubmitGoal" THEN GatewayGoals \cup {NoRef} ELSE {NoRef}]

\* execute_action and what drive_gateway makes of the answer
ExecuteAction ==
    /\ scenario.phase = "driving" /\ scenario.at <= Len(scenario.spec.actions)
    /\ LET a == scenario.spec.actions[scenario.at]
           next == [scenario EXCEPT !.at = @ + 1]
       IN  \/ a.kind \in LocalKinds /\ scenario' = next /\ UNCHANGED disk
           \/ /\ a.kind \notin LocalKinds
              /\ ~RequestPossible(scenario.spec, a, scenario.known) /\ Bail
           \/ /\ a.kind \notin LocalKinds /\ RequestPossible(scenario.spec, a, scenario.known)
              /\ \E answer \in GatewayAnswers(a) :
                   IF answer.ok = a.expectOk
                   THEN /\ scenario' = IF a.kind = "SubmitGoal"
                              THEN [next EXCEPT !.known = @ \cup
                                      {IF answer.goal # NoRef THEN answer.goal
                                       ELSE BodyGoalId(scenario.spec, a)}]
                              ELSE next
                        /\ UNCHANGED disk
                   ELSE Bail

\* What the gateway shows of a goal while it works on it.
GatewayViews(spec) ==
    LET p == ProjectionFromScenario(spec)
    IN  {p, [p EXCEPT !.goalStatus = "running", !.terminal = "running"],
         [p EXCEPT !.goalStatus = "done", !.terminal = "completed",
                   !.tasks = [i \in DOMAIN p.tasks |-> [p.tasks[i] EXCEPT !.status = "failed"]]]}

\* The end of drive_gateway and poll_projection_until: polled until the
\* scenario passes or the deadline; what was fetched last is judged.
PollProjection ==
    /\ scenario.phase = "driving" /\ scenario.at > Len(scenario.spec.actions)
    /\ IF scenario.known = {}
       THEN Collected(FixtureProjection(scenario.spec), "gateway_http_with_fixture_projection")
            /\ UNCHANGED disk
       ELSE \/ Bail
            \/ \E p \in GatewayViews(scenario.spec), late \in BOOLEAN :
                 /\ Evaluate(scenario.spec, p) \/ late
                 /\ Collected([p EXCEPT !.goalId = LeastId(scenario.known)], "gateway_http")
                 /\ UNCHANGED disk

\* run_scenario writes the evidence, and the report last.
WriteEvidence ==
    /\ scenario.phase = "collected"
    /\ scenario' = [scenario EXCEPT !.phase = "evidence"]
    /\ disk' = [disk EXCEPT !.evidence =
                   [passed |-> Evaluate(scenario.spec, scenario.projection), mode |-> scenario.mode,
                    spec |-> scenario.spec, projection |-> scenario.projection]]
WriteReport ==
    /\ scenario.phase = "evidence"
    /\ scenario' = [scenario EXCEPT !.phase = "ended"]
    /\ disk' = [disk EXCEPT !.report = disk.evidence]

\* seed_scenario posts the snapshot of the fixture to the goal store.
SeedScenario ==
    /\ scenario.phase = "ready"
    /\ scenario' = [scenario EXCEPT !.phase = "ended",
                        !.seeded = SeedRequest(FixtureProjection(scenario.spec))]
    /\ UNCHANGED disk

\* The process ends, by itself or killed; the run directory stays.
EndProcess ==
    /\ scenario.phase # "idle"
    /\ scenario' = IdleRun(scenario.runs) /\ UNCHANGED disk

ScenarioInit ==
    scenario = IdleRun(0) /\ disk = [evidence |-> NoReport, report |-> NoReport]

ScenarioNext ==
    \/ ReadSpec \/ ReplayFixture \/ ProbeGateway \/ ExecuteAction \/ PollProjection
    \/ WriteEvidence \/ WriteReport \/ SeedScenario \/ EndProcess

ScenarioSpec == ScenarioInit /\ [][ScenarioNext]_scenarioVars

(***************************************************************************)
(* Properties                                                              *)
(***************************************************************************)

\* A result is placed under the task it names, or the one its action names, or
\* under a generated name, which an author may have used.
Name(entry) == IF entry.value.task # NoTaskId THEN entry.value.task ELSE entry.action.task
MayReplace(later, entry) ==
    LET generated(id) == id = NoTaskId \/ id[1] = "task"
    IN  Name(later) = Name(entry) \/ (generated(Name(later)) /\ generated(Name(entry)))

\* The last result each task got in the scenario, by position.
LastResults(spec) ==
    LET results == ResultList(spec)
    IN  {i \in DOMAIN results :
            \A j \in DOMAIN results : j > i => ~MayReplace(results[j], results[i])}

\* A scenario names its goal's status under expected_terminal_state.status or
\* goal_status and under expectations; an author may contradict himself.
OneStatus(spec) ==
    /\ spec.expected.status = ""
    /\ \/ spec.expected.goalStatus = ""
       \/ spec.expectations.goalStatus \in {"", spec.expected.goalStatus}

\* A scenario reported as passed with a completed or cancelled goal left
\* nobody waiting: no task of the judged projection is blocked, waiting or
\* failed and, when the projection was put together from the scenario, neither
\* is the last result any worker gave for a task, whatever it answered before
\* and whichever way the projection came (evaluate,
\* terminal_state_contract_check, tasks_from_scenario, poll_projection_until).
PassedIsSettled ==
    LET r == disk.report
    IN  r.passed /\ OneStatus(r.spec)
            /\ r.projection.goalStatus \in CompletedTokens \cup CancelledTokens =>
            /\ \A t \in TasksIn(r.projection) : t.status \notin ActionNeededTokens
            /\ r.mode # "gateway_http" /\ r.spec.projection = NoProjection =>
                 \A i \in LastResults(r.spec) :
                     ResultList(r.spec)[i].value.status \notin BlockedTokens \cup {"failed"}

\* An accepted scenario that leaves its expectations to the expected terminal
\* state, and whose waits are backed by thunks, is met by the projection
\* derived from it; and the snapshot it seeds into the goal store never shows
\* a satisfied goal with blocked or failed tasks (validate_spec,
\* projection_from_scenario_spec, evaluate, goal_store_seed_request).
FixtureIsCoherent ==
    /\ scenario.phase = "ready" =>
         LET spec == scenario.spec
             backed == \A r \in SpecResults(spec) : RequiredWait(r) => DelayedThunks(r) # <<>>
             open == spec.expectations.goalStatus = "" /\ spec.expectations.exact = <<>>
         IN  spec.projection = NoProjection /\ open /\ backed =>
                 ExpectationsMet(spec, ProjectionFromScenario(spec))
    /\ scenario.seeded # <<>> =>
         LET g == scenario.seeded.goal
         IN  /\ g.satisfied /\ scenario.spec.expected.status = "" => g.blocked = 0 /\ g.failed = 0
             /\ g.open >= g.blocked + g.failed
=============================================================================
