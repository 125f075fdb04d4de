----------------------------- MODULE DurablePlan -----------------------------
(***************************************************************************)
(* Durable plans of planning mode: drafting, revision, candidate votes,    *)
(* selection and compilation into a goal, with the phase and the action    *)
(* items derived from the status.  Texts are left out; of a revision the   *)
(* model keeps whether it has required open questions and whether it has   *)
(* staged work (subgoals or initial tasks).                                *)
(***************************************************************************)
EXTENDS Naturals, FiniteSets

PlanStatus == {"Draft", "NeedsQuestions", "ReadyForReview", "Approved",
               "Compiled", "Superseded", "Archived"}
PlanPhase == {"Asking", "DraftingPlan", "DraftingGoals", "Accepting",
              "Executing", "Reviewing", "Satisfied", "Cancelled"}

NoPlan == "no plan"
NoGoal == "no goal"
Unset == "unset"

\* A required question of a revision: open, answered or deferred.
Revision(questions, staged) == [questions |-> questions, staged |-> staged]
RequiredOpen(revision) == {q \in DOMAIN revision.questions : revision.questions[q] = "open"}

ActionItem(kind, suffix, allowed, goal) ==
    [kind |-> kind, suffix |-> suffix, allowed |-> allowed, goal |-> goal]

\* The suffix of an action id: the version, a question or the compiled goal.
Version(plan) == <<"version", plan.version>>

DerivePhase(plan) ==
    CASE plan.status = "NeedsQuestions" -> "Asking"
      [] plan.status = "Draft" ->
            IF plan.current.staged = "yes" THEN "DraftingGoals" ELSE "DraftingPlan"
      [] plan.status \in {"ReadyForReview", "Approved"} -> "Accepting"
      [] plan.status = "Compiled" -> "Executing"
      [] plan.status = "Superseded" -> "Satisfied"
      [] plan.status = "Archived" -> "Cancelled"

AskingItems(plan) ==
    IF RequiredOpen(plan.current) = {}
    THEN {ActionItem("ReviewPlanDraft", Version(plan),
                     {"ReviewPlanDraft", "DraftGoal", "Cancel"}, NoGoal)}
    ELSE {ActionItem("AnswerQuestion", <<"question", q>>,
                     {"AnswerQuestion", "ReviewPlanDraft", "Cancel"}, NoGoal) :
             q \in RequiredOpen(plan.current)}

AcceptingItems(plan) ==
    IF plan.status = "ReadyForReview"
    THEN {ActionItem("ReviewPlanDraft", Version(plan),
                     {"AcceptPlanDraft", "Replan", "Cancel"}, NoGoal)}
    ELSE {ActionItem("SubmitGoal", Version(plan),
                     {"SubmitGoal", "DraftGoal", "Cancel"}, NoGoal)}

DeriveActionItems(plan) ==
    CASE plan.phase = "Asking" -> AskingItems(plan)
      [] plan.phase = "DraftingPlan" ->
            {ActionItem("ReviewPlanDraft", Version(plan),
                        {"AcceptPlanDraft", "DraftGoal", "Cancel"}, NoGoal)}
      [] plan.phase = "DraftingGoals" ->
            {ActionItem("ReviewGoalDraft", Version(plan),
                        {"AcceptGoalIntoPlan", "DraftGoal", "AcceptPlanDraft", "Cancel"}, NoGoal)}
      [] plan.phase = "Accepting" -> AcceptingItems(plan)
      [] plan.phase = "Executing" ->
            {ActionItem("ReviewEvidence",
                        IF plan.goal = NoGoal THEN Version(plan) ELSE <<"goal", plan.goal>>,
                        {"ReviewEvidence", "Retry", "Replan", "ConfirmSatisfaction", "Cancel"},
                        plan.goal)}
      [] plan.phase \in {"Satisfied", "Cancelled"} -> {}

Refresh(plan) ==
    LET phased == [plan EXCEPT !.phase = DerivePhase(plan)]
    IN  [phased EXCEPT !.items = DeriveActionItems(phased)]

ValidateActionItems(plan) == \A item \in plan.items : item.allowed # {}

\* DurablePlan::draft: a required open question overrides the status asked for.
DraftPlan(id, source, revision, status) ==
    Refresh([id |-> id, source |-> source, version |-> 1, current |-> revision,
             status |-> IF RequiredOpen(revision) # {} THEN "NeedsQuestions"
                        ELSE IF status = Unset THEN "Draft" ELSE status,
             phase |-> "Asking", items |-> {}, votes |-> {},
             selected |-> NoPlan, goal |-> NoGoal])

\* The questions and the work of a revision that names none are kept.
Merged(base, revision) ==
    Revision(IF DOMAIN revision.questions = {} THEN base.questions ELSE revision.questions,
             IF revision.staged = Unset THEN base.staged ELSE revision.staged)

\* apply_revision: the compiled goal and the selection are dropped.
ApplyRevision(plan, request, status) ==
    LET revision == Merged(plan.current, request)
    IN  Refresh([plan EXCEPT
            !.version = @ + 1, !.current = revision,
            !.status = IF status # Unset THEN status
                       ELSE IF RequiredOpen(revision) # {} THEN "NeedsQuestions"
                       ELSE "ReadyForReview",
            !.goal = NoGoal, !.selected = NoPlan])

RecordCandidateVote(plan, candidate, voter) ==
    Refresh([plan EXCEPT !.votes = @ \cup {<<voter, candidate>>}])

SelectCandidate(plan, candidate) ==
    Refresh([plan EXCEPT !.selected = candidate, !.status = "Superseded"])

CompileGoal(plan, goal) ==
    Refresh([plan EXCEPT !.status = "Compiled", !.goal = goal])

\* ensure_candidate_branch
IsCandidateOf(candidate, plan) == candidate.id # plan.id /\ candidate.source = plan.id
=============================================================================
