------------------------------ MODULE GoalViews ------------------------------
(***************************************************************************)
(* The goal as others see it: what the operator's actors take of the steps *)
(* the coordinator makes, and what the snapshot in the goal store tells.   *)
(***************************************************************************)
EXTENDS GoalWorkflow, OperatorActors, GoalProjection

NewWaits(old, new) == {w \in new \ old : w.status = "Pending" /\ w.task # NoTask}
Takes(t, tr) == TaskCanApply(state.st[t], state.purpose[t], tr)

\* An error between a result and its report ends the handler with the result
\* stored and not validated; the coordinator still accepts a thunk for the task,
\* its actor does not.
LostReport(t) == handler.pc = "idle" /\ state.st[t] = "NeedsValidation"

\* What the coordinator does to a task is what the task's actor takes in the
\* state it was stored in: attempts start, results arrive, approvals are asked
\* for and thunks made only where TaskActor::can_apply allows it, also when
\* the frontier was read before the goal moved on; only a thunk for a task whose
\* report was lost is not. A goal is reported Done only where its actor takes
\* goal_satisfied.
Permitted ==
    /\ \A t \in Tasks : state'.attempts[t] > state.attempts[t] => Takes(t, "TaskDispatched")
    /\ handler.pc = "running" /\ state' # state => Takes(handler.task, "WorkerResultReceived")
    /\ \A w \in NewWaits(state.thunks, state'.thunks) :
          Takes(w.task, "ThunkCreated") \/ LostReport(w.task)
    /\ \A w \in NewWaits(state.approvals, state'.approvals) : Takes(w.task, "ApprovalRequested")
    /\ state'.status = "Done" => GoalCanApply(state.status, "GoalSatisfied")
ActorsPermit == [][Permitted]_vars

\* Every stored goal is explained by the snapshot project_state makes of it.
SnapshotExplainsTheGoal == SnapshotExplains(state)

\* The stage of a task's life that its status stands for.
Stage(s) ==
    CASE s = "Unborn" -> "unborn"
      [] s = "Runnable" -> "ready"
      [] s = "Running" -> "working"
      [] s = "NeedsValidation" -> "answered"
      [] s \in {"WaitingApproval", "WaitingInput"} -> "waiting"
      [] s \in {"Blocked", "Failed"} -> "stopped"
      [] s = "Done" -> "done"
      [] s = "Cancelled" -> "cancelled"

Lifecycle == INSTANCE GoalLifecycle WITH
    Task <- Tasks, Nobody <- NoTask,
    life <- [t \in Tasks |-> Stage(state.st[t])], after <- state.deps,
    hand <- handler.task, over <- state.status = "Cancelled", books <- state

\* The workflow implements GoalLifecycle: what the handlers, the frontier's
\* stale snapshot, lost reports, timeouts and restarts come to is one attempt
\* at a time, finished only by its own report, and nothing after cancel().
LifecycleKept == Lifecycle!Spec
=============================================================================
