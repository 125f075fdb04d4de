------------------------------ MODULE GoalClaims ------------------------------
(***************************************************************************)
(* A statement that the repository's documents make of the goal workflow   *)
(* and that its code does not keep.                                        *)
(***************************************************************************)
EXTENDS MCGoalWorkflow

AtRest == handler.pc = "idle"

\* 020-memory-research-steering.md:11: "stop when satisfied, blocked, ...".  A
\* goal whose last task succeeds in the last frontier round is satisfied, and
\* the line after the loop marks it Blocked; later drives leave it there.
SatisfiedGoalIsDone ==
    AtRest /\ state.satisfied => state.status \in {"Done", "Cancelled"}
-----------------------------------------------------------------------------
OnlySuccess == {Succeeds}
=============================================================================
