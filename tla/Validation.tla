----------------------------- MODULE Validation -----------------------------
(***************************************************************************)
(* What the validation service demands of a worker's result: the criteria  *)
(* ValidationReport::from_result finds missing, and the review doctrine    *)
(* they include.  Texts are reduced to whether they are blank or carry a   *)
(* stub or a replay marker; scores are tenths.                             *)
(***************************************************************************)
EXTENDS Naturals, FiniteSets, Sequences

WorkLikePurpose == {"Work", "ActorRetry", "CandidateBranch"}
UnificationPurpose == {"Unification", "BranchUnification"}
VotePurpose == {"BranchVote", "BranchUnification"}
DoctrineSubject == {"Review", "BranchVote"} \cup UnificationPurpose
DoctrineRoles == {"Reviewer", "Tester", "FormalMethods", "Validator", "PatchMerger"}
CodeRoles == {"Codex", "ClaudeCode", "StaffEngineerClaude", "ModelProvider", "RustTool"}

NoScore == 99   \* a minimum or a review that is not there
-----------------------------------------------------------------------------
(* The review doctrine *)

\* An objective or a gate of the doctrine.
Item(id, required, min, blocks) ==
    [id |-> id, required |-> required, min |-> min, blocks |-> blocks]
Ids(items) == {i.id : i \in items}

\* ReviewDoctrinePreset::objectives, by id; ReviewObjective::new asks for 0.8.
PresetObjectives(preset) ==
    LET ids == CASE preset = "CoreEngineering" ->
                        {"correctness.behavior", "quality.maintainability", "abstraction.future_time"}
                 [] preset = "Testing" ->
                        {"testing.regression", "testing.behavioral_end_to_end", "testing.hypothesis"}
                 [] preset = "FormalMethods" -> {"formal.type_soundness", "formal.verification"}
                 [] preset = "FunctionalDomainDrivenDesign" ->
                        {"ddd.ubiquitous_language", "functional.core", "semantics.denotational"}
                 [] preset = "LazinessLost" -> {"simplicity.negative_code"}
                 [] preset = "Security" -> {"security.boundaries"}
                 [] preset = "Performance" -> {"performance.evidence"}
    IN  {Item(id, TRUE, 8, TRUE) : id \in ids}

\* ReviewDoctrinePreset::validation_gates.
PresetGates(preset) ==
    LET required == CASE preset = "CoreEngineering" -> {"gate.compile"}
                      [] preset = "Testing" -> {"gate.tests", "gate.behavioral_coverage"}
                      [] preset = "FormalMethods" -> {"gate.type_soundness"}
                      [] preset = "FunctionalDomainDrivenDesign" -> {"gate.domain_model"}
                      [] preset = "LazinessLost" -> {"gate.simplicity"}
                      [] preset = "Security" -> {"gate.security_boundaries"}
                      [] preset = "Performance" -> {}
        optional == CASE preset = "FormalMethods" -> {"gate.formal_verification"}
                      [] preset = "Performance" -> {"gate.performance"}
                      [] OTHER -> {}
    IN  {Item(id, id \in required, NoScore, TRUE) : id \in required \cup optional}

\* Later entries replace earlier ones with the same id.
Inserted(items, more) == more \cup {i \in items : i.id \notin Ids(more)}

Presets == {"CoreEngineering", "Testing", "FormalMethods", "FunctionalDomainDrivenDesign",
            "LazinessLost", "Security", "Performance"}

\* The presets' items in the order of the list.
FromPresets(presets, items) ==
    LET upTo[k \in 0..Len(presets)] ==
            IF k = 0 THEN {} ELSE Inserted(upTo[k - 1], items[presets[k]])
    IN  upTo[Len(presets)]

AllObjectives(presets) == FromPresets(presets, [p \in Presets |-> PresetObjectives(p)])
AllGates(presets) == FromPresets(presets, [p \in Presets |-> PresetGates(p)])

OverriddenItem(i, o) ==
    CASE o.action = "Require" -> [i EXCEPT !.required = TRUE]
      [] o.action = "MakeOptional" -> [i EXCEPT !.required = FALSE]
      [] o.action = "SetMinScore" -> [i EXCEPT !.min = o.min]

\* One ReviewDoctrineOverride: it changes only an item that is there.
Override(items, o) ==
    IF o.action = "Disable" THEN {i \in items : i.id # o.id}
    ELSE {IF i.id = o.id THEN OverriddenItem(i, o) ELSE i : i \in items}

\* apply_objective_overrides, apply_gate_overrides: in order, by target.
Overridden(items, overrides, target) ==
    LET upTo[k \in 0..Len(overrides)] ==
            IF k = 0 THEN items
            ELSE IF overrides[k].target = target
                 THEN Override(upTo[k - 1], overrides[k]) ELSE upTo[k - 1]
    IN  upTo[Len(overrides)]

ResolvedObjectives(d) ==
    Overridden(Inserted(AllObjectives(d.presets), d.objectives), d.overrides, "Objective")
ResolvedGates(d) ==
    Overridden(Inserted(AllGates(d.presets), d.gates), d.overrides, "ValidationGate")
RequiredIn(items) == {i \in items : i.required}

Floor(min, otherwise) == IF min = NoScore THEN otherwise ELSE min

ObjectiveFailed(d, result) ==
    \/ result.decision \in {"Fail", "NotChecked"}
    \/ result.decision = "NotApplicable" /\ ~d.allowNotApplicable

\* The results a review reports for an item.
ResultsFor(results, i) == {r \in results : r.id = i.id}

\* The objective half of collect_review_doctrine_missing.
ObjectivesMissing(d, results) ==
    {i.id : i \in {i \in RequiredIn(ResolvedObjectives(d)) :
        \/ ResultsFor(results, i) = {}
        \/ \E r \in ResultsFor(results, i) :
            \/ ObjectiveFailed(d, r)
            \/ r.score < Floor(i.min, Floor(d.minObjective, 0))
            \/ d.requireEvidence /\ ~r.evidence}}

GatesMissing(d, results) ==
    {i.id : i \in {i \in RequiredIn(ResolvedGates(d)) :
        \/ ResultsFor(results, i) = {}
        \/ \E r \in ResultsFor(results, i) :
            \/ i.blocks /\ ~r.passed
            \/ r.score < Floor(i.min, 0)
            \/ d.requireEvidence /\ ~r.evidence}}

DoctrineApplies(task) ==
    /\ task.doctrine.enabled
    /\ task.purpose \in DoctrineSubject \/ task.role \in DoctrineRoles

DoctrineMissing(task, review) ==
    LET d == task.doctrine
    IN  IF ~DoctrineApplies(task) THEN {}
        ELSE IF review.reward = NoScore
        THEN IF d.requireObjectives \/ d.requireGates THEN {"review_output"} ELSE {}
        ELSE (IF d.requireObjectives THEN ObjectivesMissing(d, review.objectives) ELSE {})
             \cup (IF d.requireGates THEN GatesMissing(d, review.gates) ELSE {})

\* stub_objective_results and stub_gate_results: at least 0.9 for each.
StubScore(min) == IF Floor(min, 9) > 9 THEN min ELSE 9

StubObjectives(d) ==
    {[id |-> i.id, decision |-> "Pass", score |-> StubScore(i.min), evidence |-> TRUE] :
        i \in RequiredIn(ResolvedObjectives(d))}
StubGates(d) ==
    {[id |-> i.id, passed |-> TRUE, score |-> StubScore(i.min), evidence |-> TRUE] :
        i \in RequiredIn(ResolvedGates(d))}
-----------------------------------------------------------------------------
(* The criteria of a result *)

NoReview == [reward |-> NoScore, objectives |-> {}, gates |-> {}, findings |-> {}]
Missing(name, condition) == IF condition THEN {name} ELSE {}

\* collect_child_request_contract_missing: the valid requests.
ValidChild(c) == ~c.blank /\ (c.min = NoScore \/ c.min <= 10)

\* collect_delayed_compute_contract_missing: a thunk for this goal and task.
ValidThunk(t) == t.goal /\ t.task /\ t.shape

ContractMissing(result) ==
    Missing("child_request", \E c \in result.children : ~ValidChild(c))
    \cup Missing("delayed_compute_thunk", \E t \in result.thunks : ~ValidThunk(t))
    \cup Missing("recovery_path",
            /\ result.status \in {"Waiting", "Blocked"}
            /\ ~\E c \in result.children : ValidChild(c)
            /\ ~\E t \in result.thunks : ValidThunk(t))

ArtifactExists(result) ==
    result.artifacts # {} \/ result.git \/ result.objects \/ result.checkpoints # {}

\* code_task_requires_checkpoint
NeedsCheckpoint(task) ==
    task.checkpoints /\ task.purpose \in WorkLikePurpose /\ task.role \in CodeRoles

GitCheckpoint(result) ==
    \E c \in result.checkpoints : c.kind \in {"GitBranch", "GitCommit", "GitTag"} /\ c.branch

\* Mutant: one failing command is enough to refuse.
TestsMissingIfAnyFails(task, result) ==
    Missing("tests_pass", task.tests /\ \E e \in result.tests : e = "failed")

TestsMissing(task, result) ==
    IF task.tests /\ (task.purpose \in WorkLikePurpose \/ task.role = "Tester")
    THEN Missing("test_evidence", result.tests = {})
         \cup Missing("tests_pass", result.tests # {} /\ "passed" \notin result.tests)
    ELSE {}

EffectiveScore(result) ==
    IF result.review.reward # NoScore THEN result.review.reward
    ELSE IF result.research # "none" THEN result.researchConfidence ELSE result.confidence

\* The runner labels of the task ask for real, or for live, execution.
RequiresNonStub(task) == task.execution \in {"nonStub", "live"}
RequiresLive(task) == task.execution = "live"

\* A stub or a replay marker in the texts of the result, or of the research or
\* review output it carries.
StubMarked(result) == result.marker = "stub"
ReplayMarked(result) == result.marker = "replay"

\* collect_stub_truthfulness_missing: a task that asks for real execution
\* refuses stub markers, and one that asks for a live one replays as well.
StubMissing(task, result) ==
    IF ~RequiresNonStub(task) THEN {}
    ELSE Missing("stub_output",
            /\ StubMarked(result)
            /\ task.purpose \in WorkLikePurpose \cup UnificationPurpose \cup {"Review", "Research"})
         \cup Missing("live_runner_required", RequiresLive(task) /\ ReplayMarked(result))

ResearchMissing(task, result) ==
    IF task.purpose # "Research" THEN {}
    ELSE Missing("research_output", result.research = "none")
         \cup Missing("research_sources", result.research \in {"noSources", "bare"})
         \cup Missing("information_use_plan", result.research \in {"noPlan", "bare"})

AttestationMissing(task, result) ==
    IF ~task.guardrails THEN {}
    ELSE Missing("artifact_manifest", task.manifest /\ "manifest" \notin result.artifacts)
         \cup Missing("sandbox_attestation", task.attest /\ "enforceable" \notin result.attestation)
         \cup Missing("strong_sandbox_attestation", task.attestStrong /\ "strong" \notin result.attestation)

\* ReviewFinding::blocks_validation
Blocks(f) == f.severity \in {"High", "Critical"} \/ f.priority <= 1

VoteMissing(task, result) ==
    Missing("branch_vote_output", task.purpose \in VotePurpose /\ result.vote = "none")
    \cup Missing("branch_vote_candidate", task.purpose \in VotePurpose /\ result.vote = "outsider")

\* The criteria that only a result that claims to be finished must meet.
CriteriaMissing(task, result) ==
    Missing("artifact_exists", task.artifact /\ ~ArtifactExists(result))
    \cup Missing("checkpoint_required", NeedsCheckpoint(task) /\ result.checkpoints = {})
    \cup Missing("git_checkpoint_required",
            NeedsCheckpoint(task) /\ task.gitCheckpoint /\ result.checkpoints # {}
                /\ ~GitCheckpoint(result))
    \cup TestsMissing(task, result)
    \cup Missing("validator_score_min",
            /\ task.minScore # NoScore /\ EffectiveScore(result) < task.minScore
            /\ task.purpose \in WorkLikePurpose \cup {"Research"})
    \cup StubMissing(task, result)
    \cup ResearchMissing(task, result)
    \cup VoteMissing(task, result)
    \cup Missing("review_output",
            task.purpose \in UnificationPurpose \cup {"Review"} /\ result.review.reward = NoScore)
    \cup AttestationMissing(task, result)
    \cup DoctrineMissing(task, result.review)
    \cup Missing("blocking_review_finding", \E f \in result.review.findings : Blocks(f))

MissingCriteria(task, result) ==
    ContractMissing(result)
    \cup IF result.status \in {"Done", "Partial"} THEN CriteriaMissing(task, result) ELSE {}

ReportPassed(task, result) == result.status = "Done" /\ MissingCriteria(task, result) = {}

\* ValidationReport::from_result(..).status_after_validation
ReportStatus(task, result) ==
    CASE result.status = "Waiting" -> "WaitingInput"
      [] result.status = "Blocked" -> "Blocked"
      [] result.status \in {"Failed", "TimedOut"} -> "Failed"
      [] result.status \in {"Done", "Partial"} ->
            IF ReportPassed(task, result) THEN "Done" ELSE "Runnable"

\* result_artifacts: the artifacts, the git result and the stored objects.
ResultArtifacts(result) ==
    result.artifacts \cup Missing("git", result.git) \cup Missing("object", result.objects)
=============================================================================
