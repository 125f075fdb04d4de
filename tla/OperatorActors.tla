---------------------------- MODULE OperatorActors ----------------------------
(* The operator-facing actors: which typed transition an actor of each     *)
(* kind takes in its projected state, what it answers otherwise, and the   *)
(* actions the operator is offered.                                        *)

ActorKinds == {"Goal", "Task", "Thunk", "WorkerRun", "Review", "Approval", "Event"}
Transitions == {"SubmitGoal", "DraftAccepted", "TaskDispatched", "WorkerResultReceived",
                "TaskBlocked", "ThunkCreated", "ThunkResumed", "ApprovalRequested",
                "ApprovalResolved", "ReviewCompleted", "BranchSelected", "GoalSteered",
                "GoalCancelled", "GoalSatisfied"}

\* The actors a transition is routed to.
TargetedKinds(tr) ==
    CASE tr \in {"SubmitGoal", "DraftAccepted", "GoalSteered", "GoalSatisfied",
                 "BranchSelected"} -> {"Goal"}
      [] tr \in {"TaskDispatched", "TaskBlocked"} -> {"Task"}
      [] tr = "WorkerResultReceived" -> {"Task", "WorkerRun"}
      [] tr \in {"ThunkCreated", "ThunkResumed"} -> {"Task", "Thunk"}
      [] tr \in {"ApprovalRequested", "ApprovalResolved"} -> {"Task", "Approval"}
      [] tr = "ReviewCompleted" -> {"Task", "Review"}
      [] tr = "GoalCancelled" -> {"Goal", "Task", "Thunk", "Approval"}

\* The event stream a transition is published on.
EventType(tr) ==
    CASE tr \in {"SubmitGoal", "DraftAccepted", "GoalSteered"} -> "goal.updated"
      [] tr \in {"TaskDispatched", "TaskBlocked", "ThunkResumed", "ApprovalResolved",
                 "BranchSelected"} -> "task.updated"
      [] tr = "WorkerResultReceived" -> "worker.completed"
      [] tr = "ThunkCreated" -> "thunk.created"
      [] tr = "ApprovalRequested" -> "approval.requested"
      [] tr = "ReviewCompleted" -> "review.completed"
      [] tr = "GoalCancelled" -> "goal.cancelled"
      [] tr = "GoalSatisfied" -> "goal.satisfied"

GoalClass(status) ==
    CASE status = "Running" -> "Active"
      [] status \in {"WaitingApproval", "Paused"} -> "Waiting"
      [] status \in {"Blocked", "Failed"} -> "Recoverable"
      [] status = "Done" -> "TerminalOk"
      [] status = "Cancelled" -> "TerminalStopped"

TaskClass(status) ==
    CASE status \in {"Pending", "Runnable", "Running", "NeedsValidation"} -> "Active"
      [] status \in {"WaitingApproval", "WaitingInput"} -> "Waiting"
      [] status \in {"Blocked", "Failed"} -> "Recoverable"
      [] status = "Done" -> "TerminalOk"
      [] status = "Cancelled" -> "TerminalStopped"

\* Approvals and thunks.
WaitClass(status) ==
    CASE status = "Pending" -> "Waiting"
      [] status \in {"Approved", "Resumed"} -> "TerminalOk"
      [] status \in {"Rejected", "Cancelled", "Expired"} -> "TerminalStopped"

IsRecoverable(class) == class \in {"Waiting", "Recoverable"}

GoalCanApply(status, tr) ==
    /\ "Goal" \in TargetedKinds(tr)
    /\ \/ tr = "SubmitGoal"
       \/ status = "Done" /\ tr = "GoalSatisfied"
       \/ status \notin {"Done", "Cancelled"}

\* The states in which a task actor takes a transition.
TaskTakes(tr, purpose) ==
    CASE tr = "TaskDispatched" -> {"Runnable"}
      [] tr = "WorkerResultReceived" -> {"Running"}
      [] tr \in {"TaskBlocked", "ThunkCreated"} ->
            {"Runnable", "Running", "WaitingApproval", "WaitingInput", "Blocked", "Failed"}
      [] tr = "ApprovalRequested" ->
            {"Runnable", "Running", "WaitingApproval", "Blocked", "Failed"}
      [] tr \in {"ThunkResumed", "ApprovalResolved"} ->
            {"WaitingInput", "WaitingApproval", "Blocked"}
      [] tr = "ReviewCompleted" ->
            IF purpose = "Review" THEN {"Running", "NeedsValidation"} ELSE {}
      [] OTHER -> {}

TaskCanApply(status, purpose, tr) ==
    /\ "Task" \in TargetedKinds(tr)
    /\ tr = "GoalCancelled" \/ status \in TaskTakes(tr, purpose)

ApprovalCanApply(status, tr) ==
    /\ "Approval" \in TargetedKinds(tr)
    /\ \/ tr = "ApprovalResolved" /\ status = "Pending"
       \/ tr = "GoalCancelled" /\ status \in {"Pending", "Cancelled"}

ThunkCanApply(status, tr) ==
    /\ "Thunk" \in TargetedKinds(tr)
    /\ \/ tr = "ThunkResumed" /\ status = "Pending"
       \/ tr = "GoalCancelled" /\ status \in {"Pending", "Expired"}

\* Results, reviews and events are immutable: they only take what made them.
WorkerRunCanApply(tr) == tr = "WorkerResultReceived"
ReviewCanApply(tr) == tr = "ReviewCompleted"
EventCanApply(event, tr) == tr = event.transition

\* The hints a task's refusal carries.
TaskHints(status) ==
    {"inspect_task"} \cup
    (IF IsRecoverable(TaskClass(status))
     THEN {"replan", "cancel_goal", "create_thunk"} \cup
          (IF status \in {"WaitingInput", "WaitingApproval"} THEN {"resume_thunk"}
                                                             ELSE {"retry"})
     ELSE {})
RefusalHints(kind, status) ==
    CASE kind = "Goal" -> {"select_active_goal"}
      [] kind = "Task" -> TaskHints(status)
      [] kind \in {"Approval", "Thunk"} -> {"refresh_actions"}
      [] kind = "WorkerRun" -> {"inspect_worker_run"}
      [] kind = "Review" -> {"create_follow_up_task"}
      [] kind = "Event" -> {"append_new_event"}
=============================================================================
