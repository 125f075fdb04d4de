------------------------------ MODULE Verdicts ------------------------------
(***************************************************************************)
(* The validation service: a request carries a task and the result of its  *)
(* worker, the answer is the report of Validation.  The service keeps      *)
(* nothing; verdict is the answer that is out.                             *)
(***************************************************************************)
EXTENDS Validation

CONSTANT
    Requests    \* the task, the result and evidence that could be added to it

\* The maps of resolved_objectives and resolved_validation_gates keep one item
\* per id; so do the lists of a doctrine here.
OneEach(items) == \A i, j \in items : i.id = j.id => i = j
IsItems(items) ==
    /\ \A i \in items : i.min \in Nat /\ i = Item(i.id, i.required, i.min, i.blocks)
    /\ OneEach(items)

IsOverride(o) ==
    /\ o.action \in {"Disable", "Require", "MakeOptional", "SetMinScore"}
    /\ o.min \in Nat
IsDoctrine(d) ==
    /\ IsItems(d.objectives) /\ IsItems(d.gates) /\ d.minObjective \in Nat
    /\ d.presets \in Seq(Presets)
    /\ d.overrides \in Seq({d.overrides[i] : i \in DOMAIN d.overrides})
    /\ \A i \in DOMAIN d.overrides : IsOverride(d.overrides[i])
IsResult(r) ==
    /\ r.status \in {"Done", "Partial", "Waiting", "Blocked", "Failed", "TimedOut"}
    /\ r = [status |-> r.status, children |-> r.children, thunks |-> r.thunks,
            artifacts |-> r.artifacts, git |-> r.git, objects |-> r.objects,
            checkpoints |-> r.checkpoints, tests |-> r.tests, confidence |-> r.confidence,
            research |-> r.research, researchConfidence |-> r.researchConfidence,
            marker |-> r.marker, attestation |-> r.attestation, vote |-> r.vote,
            review |-> r.review]
    /\ r.objects \in BOOLEAN

ASSUME RequestsAssumption ==
    \A q \in Requests : IsDoctrine(q.task.doctrine) /\ IsResult(q.result)

VARIABLE verdict

NoVerdict == [status |-> "none"]

VerdictOn(request, result) ==
    [request |-> request, status |-> ReportStatus(request.task, result),
     artifacts |-> ResultArtifacts(result)]

\* POST /validate
Validate ==
    /\ verdict = NoVerdict
    /\ \E q \in Requests : verdict' = VerdictOn(q, q.result)

VerdictSpec == verdict = NoVerdict /\ [][Validate]_verdict

\* ReviewOutput::for_task
StubReview(d) == [NoReview EXCEPT !.reward = 9, !.objectives = StubObjectives(d),
                                  !.gates = StubGates(d)]

\* A result that shows more artifacts, checkpoints, stored objects and test
\* outcomes.
Enriched(r, more) ==
    [r EXCEPT !.artifacts = @ \cup more.artifacts, !.checkpoints = @ \cup more.checkpoints,
              !.tests = @ \cup more.tests, !.objects = @ \/ more.objects]

\* Evidence on top of what a result shows never turns its acceptance into a
\* refusal and is not dropped from the report, and a review that covers the
\* resolved doctrine the way the stub reviewer does leaves no objective or
\* gate open, whatever the presets and the order of the overrides, unless the
\* doctrine asks for more than its 0.9 (ValidationReport::from_result).
MoreEvidenceNeverHurts ==
    verdict # NoVerdict =>
        LET q == verdict.request
            d == q.task.doctrine
            again == VerdictOn(q, Enriched(q.result, q.more))
        IN  /\ verdict.status = "Done" => again.status = "Done"
            /\ verdict.artifacts \subseteq again.artifacts
            /\ Floor(d.minObjective, 0) <= 9 => DoctrineMissing(q.task, StubReview(d)) = {}
=============================================================================
