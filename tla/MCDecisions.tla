----------------------------- MODULE MCDecisions -----------------------------
(* How choices are made: branch competition, deliberation, the validation  *)
(* of results, the capacity plan, the operator's console and the scenario   *)
(* runner.  They share nothing here, so a behaviour exercises one of them   *)
(* while the others stand still.                                           *)
EXTENDS Branches, Deliberation, Verdicts, RunnerPool, Console, ScenarioRunner

VARIABLE topic

Branching(strategy, voting, groups) ==
    [enabled |-> TRUE, maxGroups |-> groups, maxCandidates |-> 2, onRoot |-> TRUE,
     cancelOriginal |-> voting, diversity |-> ~voting, strategy |-> strategy, voting |-> voting,
     minVotes |-> 2, unify |-> voting]
MCBranchPolicies ==
    {Branching("UnifierDecision", TRUE, 1), Branching("HighestScore", FALSE, 1),
     [Branching("VoterQuorum", TRUE, 2) EXCEPT !.minVotes = 1, !.unify = FALSE]}
MCBranchRequests ==
    {[target |-> 1, count |-> 1, strategy |-> "default", models |-> 2],
     [target |-> 2, count |-> 3, strategy |-> "Human", models |-> 2]}

MCRankingPolicy == [enabled |-> TRUE, sources |-> {"Human", "Agent"}, maxWeight |-> 2,
                    minVotes |-> 2, promotion |-> 3, demotion |-> -3]
MCPriorityVotes ==
    {[source |-> "Human", direction |-> "Up", weight |-> 3],
     [source |-> "Agent", direction |-> "Down", weight |-> 0],
     [source |-> "Agent", direction |-> "Down", weight |-> 2],
     [source |-> "System", direction |-> "Up", weight |-> 1]}
MCMechanismPolicy == [enabled |-> TRUE, sources |-> {"Human", "Agent", "Coordinator"},
                      quorum |-> 2, min |-> 1, maxRounds |-> 2, ratify |-> FALSE]
MCRoundRequests ==
    {[mechanism |-> "VickreyAuction", proposals |-> {1, 2}, quorum |-> 0, min |-> 0,
      ratify |-> "unset"],
     [mechanism |-> "RankedChoice", proposals |-> {1, 2}, quorum |-> 1, min |-> 3,
      ratify |-> "yes"]}
Allocation(support, rank, bid) == [support |-> support, rank |-> rank, bid |-> bid]
MCBallots ==
    {[participant |-> a, source |-> "Agent", allocations |-> f] :
        a \in {"a", "b", "c"},
        f \in {[q \in {1} |-> Allocation(400, 0, 5)], [q \in {2} |-> Allocation(1, 2, 9)],
               [q \in {1, 2} |-> Allocation(1, q, 3 - q)], [q \in {2} |-> Allocation(-1, 0, 0)]}}

\* A task that asks for everything, a result that has it, and what may be added.
StrictDoctrine ==
    [enabled |-> TRUE, presets |-> <<"CoreEngineering", "FormalMethods">>,
     objectives |-> {Item("custom", TRUE, NoScore, TRUE)}, gates |-> {},
     requireObjectives |-> TRUE, requireGates |-> TRUE, requireEvidence |-> TRUE,
     allowNotApplicable |-> TRUE, minObjective |-> 8, overrides |-> <<>>]
Changed(action, id, min) ==
    [target |-> "Objective", action |-> action, id |-> id, min |-> min]
Doctrines ==
    {[StrictDoctrine EXCEPT !.enabled = FALSE], StrictDoctrine,
     [StrictDoctrine EXCEPT !.overrides = <<Changed("Disable", "formal.verification", 0),
                                            Changed("Require", "formal.verification", 0),
                                            Changed("SetMinScore", "correctness.behavior", 10),
                                            Changed("MakeOptional", "custom", 0)>>]}
StrictTask(purpose, role, doctrine) ==
    [purpose |-> purpose, role |-> role, doctrine |-> doctrine, artifact |-> TRUE, tests |-> TRUE,
     checkpoints |-> TRUE, gitCheckpoint |-> TRUE, minScore |-> 8, execution |-> "live",
     guardrails |-> TRUE, manifest |-> TRUE, attest |-> TRUE, attestStrong |-> FALSE]
Commit == [kind |-> "GitCommit", branch |-> TRUE]
Patch == [kind |-> "Patch", branch |-> FALSE]
Results(d) ==
    [status : {"Done", "Blocked"}, children : {{}, {[blank |-> FALSE, min |-> 5]}}, thunks : {{}},
     artifacts : {{}, {"manifest"}}, git : {FALSE}, objects : {FALSE},
     checkpoints : {{}, {Commit}}, tests : {{}, {"passed"}}, confidence : {9},
     research : {"none", "full"}, researchConfidence : {9}, marker : {"none", "replay"},
     attestation : {{}, {"enforceable"}}, vote : {"none", "candidate"},
     review : {NoReview, StubReview(d)}]
StrictTasks ==
    {StrictTask("Work", "Codex", d) : d \in Doctrines} \cup
    {StrictTask("BranchUnification", "PatchMerger", d) : d \in Doctrines} \cup
    {StrictTask("Research", "Researcher", d) : d \in Doctrines}

More == [artifacts |-> {"log"}, checkpoints |-> {Patch}, tests |-> {"failed"}, objects |-> TRUE]
MCRequests ==
    UNION {{[task |-> t, result |-> r, more |-> More] : r \in Results(t.doctrine)} : t \in StrictTasks}

MCPoolPolicies ==
    {[DefaultPolicy EXCEPT !.max = 3, !.min = m, !.headroom = h] : m \in {0, 1}, h \in {0, 1}}
MCDemands ==
    {[queued |-> q, running |-> r, unmatched |-> u, events |-> 0, boost |-> 0] :
        q \in {0, 3, 9}, r \in {0, 1}, u \in {0, 1}}

FirstPool == [policy |-> DefaultPolicy, demand |-> CHOOSE d \in MCDemands : TRUE,
              supply |-> NoSupply, last |-> "Steady"]

MCInitialGoals == [i \in {1, 2} |-> i]
MCGoalChanges ==
    {[Quiet EXCEPT !.approval = "pending", !.task = "waiting-approval"],
     [Quiet EXCEPT !.task = "waiting-input", !.node = "waiting-input"]}

\* Scenarios: what workers answer, how it is resumed and what is expected.
Answer(status, n) == [NullValue EXCEPT !.status = status, !.task = <<"authored", n>>]
Thunk(id, kind, continuation, approval, action) ==
    [NullValue EXCEPT !.id = id, !.kind = kind, !.status = "pending",
        !.continuation = continuation, !.approval = approval, !.action = action]
WorkerAnswers ==
    {[Answer("done", 1) EXCEPT !.artifacts = <<"file">>], Answer("failed", 1),
     [Answer("failed", 1) EXCEPT !.action = "recovery"],
     [Answer("blocked", 1) EXCEPT !.action = "concrete"],
     [Answer("waiting_input", 2) EXCEPT !.continuation = 7, !.action = "vague"],
     [Answer("waiting_input", 1) EXCEPT !.thunks = <<Thunk(1, "human", 7, 0, "recovery")>>],
     [Answer("waiting_approval", 1) EXCEPT !.thunks = <<Thunk(1, "approval", 7, 4, "concrete"),
                                                        Thunk(2, "approval", 8, 5, "none")>>],
     [Answer("waiting", 2) EXCEPT !.prompts = <<Thunk(0, "approval", 0, 0, "concrete")>>,
                                  !.continuation = 8],
     [Answer("done", 2) EXCEPT !.task = NoTaskId], Answer("budget_exhausted", 2)}
ScenarioStep(kind, results, resume) ==
    [kind |-> kind, name |-> kind, purpose |-> "work", task |-> NoTaskId, goalRef |-> NoRef,
     path |-> FALSE, expectOk |-> TRUE, results |-> results, resume |-> resume]
SubmitStep == ScenarioStep("SubmitGoal", <<>>, NullValue)
ResumeSteps ==
    {<<>>, <<ScenarioStep("Approve", <<>>, [NullValue EXCEPT !.approval = 5])>>,
     <<ScenarioStep("ResumeThunk", <<>>, [NullValue EXCEPT !.id = 1])>>,
     <<ScenarioStep("GetJson", <<>>, NullValue)>>}
Stories ==
    {<<SubmitStep, ScenarioStep("InjectWorkerResult", <<a>>, NullValue)>> \o r
        \o <<ScenarioStep("InjectWorkerResult", <<b>>, NullValue)>> :
        a \in WorkerAnswers, b \in WorkerAnswers, r \in ResumeSteps}
ExpectedEnds ==
    {[goalStatus |-> g, status |-> s, terminal |-> "", taskCounts |-> c,
      events |-> <<"SubmitGoal">>, artifacts |-> <<>>, forbidden |-> {}, rationale |-> TRUE] :
        g \in {"", "done", "blocked"}, s \in {"", "running"},
        c \in {<<>>, [done |-> 2]}}
NoExpectation ==
    [goalStatus |-> "", terminal |-> "", taskStatuses |-> <<>>, taskPurposes |-> <<>>,
     events |-> <<>>, artifacts |-> <<>>, exact |-> <<>>, transitions |-> {"SubmitGoal"},
     least |-> [tasks |-> 0, events |-> 0, artifacts |-> 0, subgoals |-> 0, nodes |-> 0],
     blocked |-> FALSE, actionRequired |-> FALSE]
ScenarioOf(actions, expected, replay) ==
    [safeId |-> TRUE, goals |-> <<[id |-> 2, specId |-> 0, payloadId |-> 0]>>, actions |-> actions,
     expected |-> expected, expectations |-> NoExpectation, subgoals |-> 0, joins |-> 0,
     policyArtifacts |-> <<>>, forbiddenArtifacts |-> {}, replay |-> replay,
     coherence |-> [terms |-> {"goal"}, blocked |-> TRUE, evidence |-> TRUE, rationale |-> TRUE],
     projection |-> NoProjection]
Plain == ScenarioOf(<<SubmitStep>>, CHOOSE e \in ExpectedEnds : e.goalStatus = "done", TRUE)
Failed == [ProjectionFromScenario(Plain) EXCEPT
              !.tasks = <<ScenarioTask(<<"authored", 1>>, "failed", "work", NullValue)>>]
OtherFiles ==
    {Plain, [Plain EXCEPT !.safeId = FALSE], [Plain EXCEPT !.projection = Failed],
     [Plain EXCEPT !.goals[1].id = NoRef, !.goals[1].specId = 3, !.replay = FALSE],
     [Plain EXCEPT !.actions[1].goalRef = 9], [Plain EXCEPT !.goals = <<>>],
     [Plain EXCEPT !.expectations.goalStatus = "running", !.expectations.exact = [tasks |-> 1]],
     [Plain EXCEPT !.goals = <<>>, !.replay = FALSE, !.actions = <<>>,
                   !.expectations.transitions = {}]}
MCScenarioFiles == {ScenarioOf(a, e, FALSE) : a \in Stories, e \in ExpectedEnds} \cup OtherFiles

vars == <<goal, ranking, rounds, pool, consoleVars, scenarioVars, topic, verdict>>

Init ==
    /\ topic \in {"branches", "ranking", "mechanism", "validation", "capacity", "console", "scenario"}
    /\ BranchInit /\ DeliberationInit /\ verdict = NoVerdict /\ ScenarioInit
    /\ topic # "branches" => goal.policy = Branching("HighestScore", FALSE, 1)
    /\ IF topic = "capacity" THEN PoolInit ELSE pool = FirstPool
    /\ ConsoleInit
    /\ topic # "console" => app = NewApp(NoId)

Next ==
    /\ UNCHANGED topic
    /\ topic # "console" => UNCHANGED consoleVars
    /\ topic # "scenario" => UNCHANGED scenarioVars
    /\ \/ topic = "scenario" /\ ScenarioNext /\ UNCHANGED <<goal, deliberationVars, pool, verdict>>
       \/ topic = "console" /\ ConsoleNext /\ UNCHANGED <<goal, deliberationVars, pool, verdict>>
       \/ topic = "branches" /\ BranchNext /\ UNCHANGED <<deliberationVars, pool, verdict>>
       \/ topic = "ranking" /\ RankingNext /\ UNCHANGED <<goal, pool, verdict>>
       \/ topic = "mechanism" /\ MechanismNext /\ UNCHANGED <<goal, pool, verdict>>
       \/ topic = "validation" /\ Validate /\ UNCHANGED <<goal, deliberationVars, pool>>
       \/ topic = "capacity" /\ PoolNext /\ UNCHANGED <<goal, deliberationVars, verdict>>

Spec == Init /\ [][Next]_vars
=============================================================================
