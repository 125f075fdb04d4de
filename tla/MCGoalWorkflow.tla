---------------------------- MODULE MCGoalWorkflow ----------------------------
(***************************************************************************)
(* Inputs for model checking GoalWorkflow: worker answers and steering     *)
(* directives for each question the configurations ask.                    *)
(***************************************************************************)
EXTENDS GoalViews

Answer(status, passes) ==
    [status |-> status, passes |-> passes, thunk |-> "none", children |-> {},
     decision |-> "none", scoreOk |-> TRUE]

Succeeds == Answer("Done", TRUE)
Unproven == Answer("Done", FALSE)
Halts(status) == Answer(status, FALSE)
AwaitsOn(kind) == [Answer("Waiting", FALSE) EXCEPT !.thunk = kind]
Asks(o, children) == [o EXCEPT !.children = children]

Steering(kind) == [kind |-> kind, target |-> Root, reopen |-> FALSE, raise |-> FALSE]

\* Waits, refusals, timeouts and failures of single tasks.
WaitOutcomes == {Succeeds, Halts("Waiting"), Halts("Blocked"), Halts("TimedOut"),
                 AwaitsOn("input"), AwaitsOn("approval"),
                 Asks(Halts("Waiting"), {"free"})}

\* Reviews that accept or ask for changes, weak scores and late work.
Judges(decision, scoreOk) ==
    [Succeeds EXCEPT !.decision = decision, !.scoreOk = scoreOk]
ReviewOutcomes == {Judges("accept", TRUE), Judges("accept", FALSE),
                   Judges("changes", TRUE),
                   Asks(Judges("accept", TRUE), {"free"}), Halts("Blocked")}
ReviewDirectives == {Steering("inject_task")}

\* Every directive, on work that succeeds, asks for help or is unproven.
SteerOutcomes == {Succeeds, Unproven, Asks(Halts("Waiting"), {"free"})}
SteerDirectives ==
    {Steering(k) : k \in SteeringKinds}
        \cup [kind : {"update_done_criteria", "expand_done_criteria"},
              target : {Root}, reopen : {TRUE}, raise : BOOLEAN]

\* Timeouts, unusable answers and requests over the limits.
LimitOutcomes == {Succeeds, Halts("TimedOut"), Halts("Failed"),
                  Halts("Partial"), AwaitsOn("invalid"),
                  [Succeeds EXCEPT !.thunk = "input"],
                  Asks(Succeeds, {"free", "after"})}

AllScopes == Scopes
AllKinds == SteeringKinds
NoDirectives == {}

=============================================================================
