----------------------------- MODULE GoalWorkflow -----------------------------
(***************************************************************************)
(* The coordinator's GoalWorkflow object (crates/coordinator/src/main.rs)  *)
(* for one goal.  Restate runs the exclusive handlers of an object one     *)
(* after the other, so at most one handler has a frame; read handlers only *)
(* look at `state`, the value of the last ctx.set.  A step of this module  *)
(* runs from one await to the next.  A terminal error ends the handler and *)
(* drops what it changed since its last ctx.set, so it leaves `state` as   *)
(* it is.  A call that is refused (Domain error) or skipped as stale only  *)
(* appends to the event log, which is not modelled: it is a stuttering     *)
(* step.  Restate replays a crashed handler from its journal, which is     *)
(* also a stuttering step.                                                 *)
(***************************************************************************)
EXTENDS GoalState

CONSTANTS
    MaxRounds,           \* min(max_frontier_rounds, MAX_FRONTIER_ROUNDS)
    ProjectionRequired,  \* goal_store_required: a failed projection is an error
    Outcomes,            \* worker answers that are explored
    Directives,          \* steering directives that are explored
    MaxCalls,            \* bound: calls of handlers that are explored
    MaxRequested         \* bound: pool size up to which workers and operators
                         \* ask for tasks; the rest is for review work

ASSUME WorkflowConstantsOK ==
    /\ MaxRounds \in Nat /\ MaxCalls \in Nat /\ MaxRequested \in Nat
    /\ ProjectionRequired \in BOOLEAN
    /\ Outcomes \subseteq Outcome /\ Directives \subseteq Directive

VARIABLES
    state,    \* the goal's state under STATE_KEY
    handler,  \* the frame of the running handler
    calls     \* handler calls so far

vars == <<state, handler, calls>>

NoAnswer == [status |-> "none"]
\* pc: idle, drive (top of a frontier round), tasks (inside the round's for
\* loop, with the tasks of the snapshot that are left), running (a worker has
\* the task), validating (the validator has its answer).
NoHandler == [pc |-> "idle", round |-> 0, left |-> {}, task |-> NoTask,
              answer |-> NoAnswer]
DriveFrame(r) == [NoHandler EXCEPT !.pc = "drive", !.round = r]

Handlers == [pc : {"idle", "drive", "tasks", "running", "validating"},
             round : 0..MaxRounds, left : SUBSET Tasks,
             task : Tasks \cup {NoTask}, answer : Outcomes \cup {NoAnswer}]

\* ctx.set; MaxTasks bounds the pool.
Persist(g) == g.n <= MaxTasks /\ state' = g
Return == handler' = NoHandler
\* project_state, then go on; or its terminal error.
Project(frame) == handler' = frame \/ (ProjectionRequired /\ Return)

\* The first `run` has created the goal and entered drive_state.
Init == /\ \E budget \in Budget : state = NewGoal(budget)
        /\ \/ handler = DriveFrame(0)
           \/ ProjectionRequired /\ handler = NoHandler
        /\ calls = 0
-----------------------------------------------------------------------------
(* Control handlers *)

Idle == handler.pc = "idle" /\ calls < MaxCalls
\* Mutant of AcceptsControl: the check for a cancelled goal is missing.
AcceptsAlways == Idle
\* A cancelled goal skips every control transition.
AcceptsControl == Idle /\ state.status # "Cancelled"

Requestable(k) == k > 0 => state.n + k <= MaxRequested

\* apply_goal_control after an Ok transition.
Control(g, drives) ==
    /\ Persist(g)
    /\ IF drives THEN Project(DriveFrame(0)) ELSE Return
    /\ calls' = calls + 1

Run == Idle /\ Control(state, TRUE)

CancelGoal == AcceptsControl /\ Control(Cancel(state), FALSE)

SteeringDrives == {"inject_task", "request_research", "standard_review",
                   "resume", "update_done_criteria", "expand_done_criteria"}
Steer == \E d \in Directives :
    /\ AcceptsControl /\ ApplySteeringOk(state, d)
    /\ d.kind = "standard_review" => state.st[d.target] # "Unborn"
    /\ ApplySteering(state, d).n > state.n => Requestable(1)
    /\ Control(ApplySteering(state, d), d.kind \in SteeringDrives)

Approve == \E a \in state.approvals, approved \in BOOLEAN :
    /\ AcceptsControl /\ a.status = "Pending"
    /\ Control(ApplyHumanApproval(state, a, approved), approved)

Restart == \E scope \in Scopes, t \in Tasks, reset \in BOOLEAN :
    /\ AcceptsControl /\ state.st[t] # "Unborn"
    /\ scope # "Task" => t = Root    \* only a task restart names a task
    /\ RestartOk(state, scope, t)
    /\ Control(ApplyRestart(state, scope, t, reset), TRUE)

ResumeDelayedThunk == \E w \in state.thunks :
    /\ AcceptsControl /\ ResumeThunkOk(state, w)
    /\ Control(ResumeThunk(state, w), TRUE)

CreateDelayedThunk ==
    \E t \in Tasks \cup {NoTask}, kind \in {"approval", "input"} :
    \E cont \in {NoTask, t} :
        /\ AcceptsControl
        /\ t # NoTask => state.st[t] # "Unborn"
        /\ ~\E w \in Waits(state, cont) : w.task = t   \* skipped as duplicate
        /\ CreateThunkOk(state, t, cont)
        /\ Control(CreateThunk(state, t, kind, cont), FALSE)

ControlHandlers == \/ Run \/ CancelGoal \/ Steer \/ Approve \/ Restart
                   \/ ResumeDelayedThunk \/ CreateDelayedThunk
-----------------------------------------------------------------------------
(* drive_state *)

AtRound == handler.pc = "drive" /\ UNCHANGED calls
\* Mutant of Stops: drive_state does not look at Cancelled.
StopsUnlessCancelled == state.status = "Paused" \/ IsDone(state)
Stops == state.status \in {"Cancelled", "Paused"} \/ IsDone(state)

DriveStops == AtRound /\ handler.round < MaxRounds /\ Stops
              /\ Persist(state) /\ Return

BudgetExhausted ==
    /\ AtRound /\ handler.round < MaxRounds /\ ~Stops /\ BudgetIsExhausted(state)
    /\ Persist([state EXCEPT
            !.status = "Blocked",
            !.st = Put(@, OpenTasks(state), "Blocked")])
    /\ Return

\* Mutant of Working: the loop has no bound.
WorksForEver == AtRound /\ ~Stops /\ ~BudgetIsExhausted(state)
Working == /\ AtRound /\ handler.round < MaxRounds /\ ~Stops
           /\ ~BudgetIsExhausted(state)

SnapshotFrontier ==
    /\ Working /\ RunnableTasks(state) # {}
    /\ handler' = [handler EXCEPT !.pc = "tasks", !.left = RunnableTasks(state)]
    /\ UNCHANGED state

\* Mutant of ExtendFrontier: an idle frontier is polled in the same round.
PollFrontier ==
    LET r == EnsureReviewFrontier(state)
    IN  /\ Working /\ RunnableTasks(state) = {} /\ r.ok
        /\ Persist(r.state)
        /\ handler' = DriveFrame(handler.round + IF r.spawned THEN 1 ELSE 0)

\* No runnable task: spawn review work and go round again, or stop.
ExtendFrontier ==
    LET r == EnsureReviewFrontier(state)
    IN  /\ Working /\ RunnableTasks(state) = {}
        /\ \/ ~r.ok /\ Persist(state) /\ Return
           \/ /\ r.ok /\ r.spawned
              /\ Persist(r.state) /\ handler' = DriveFrame(handler.round + 1)
           \/ /\ r.ok /\ ~r.spawned
              /\ Persist([r.state EXCEPT !.status = FrontierIdleStatus(r.state)])
              /\ Return

\* All rounds are used up.
FrontierLimit ==
    /\ AtRound /\ handler.round = MaxRounds
    /\ Persist([state EXCEPT !.status = "Blocked"]) /\ Return

InRound == handler.pc = "tasks" /\ UNCHANGED calls

EndRound == /\ InRound /\ handler.left = {}
            /\ handler' = DriveFrame(handler.round + 1)
            /\ UNCHANGED state

\* ensure_task_approval_or_request and mark_running refuse.
DispatchDenied(t) ==
    \/ GoalTerminal(state) \/ ~Open(state, t) \/ AttemptRejected(state, t)
    \/ ~MustWaitForApproval(state, t) /\ ~MarkRunningOk(state, t)

\* The snapshot is walked in any order; the code sorts it by priority and depth.
DispatchTask == \E t \in handler.left :
    /\ InRound
    /\ \/ DispatchDenied(t) /\ Persist(state) /\ Return
       \/ /\ ~DispatchDenied(t) /\ MustWaitForApproval(state, t)
          /\ Persist(RequestApproval(state, t)) /\ Return
       \/ /\ ~DispatchDenied(t) /\ ~MustWaitForApproval(state, t)
          /\ Persist(MarkRunning(state, t))
          /\ Project([handler EXCEPT !.pc = "running", !.task = t,
                                     !.left = @ \ {t}])

\* The runner's answer; apply_agent_result.
WorkerAnswers == \E o \in Outcomes :
    /\ handler.pc = "running" /\ UNCHANGED calls
    /\ Requestable(Cardinality(o.children))
    /\ \/ ~ApplyAgentResultOk(state, handler.task, o) /\ Persist(state) /\ Return
       \/ /\ ApplyAgentResultOk(state, handler.task, o)
          /\ Persist(ApplyAgentResult(state, handler.task, o))
          /\ handler' = [handler EXCEPT !.pc = "validating", !.answer = o]

\* The validator's report, the timeout policy and the next review work, with
\* one ctx.set for all of them: an error in any loses the report too.
ApplyReport ==
    LET t == handler.task
        o == handler.answer
        g1 == ApplyValidation(state, t, o)
        timedOut == o.status = "TimedOut"
        g2 == IF timedOut THEN RecordTimeout(g1, t) ELSE g1
        r == EnsureReviewFrontier(g2)
        ok == /\ ApplyValidationOk(state, t)
              /\ timedOut => RecordTimeoutOk(g1, t)
              /\ r.ok
    IN  /\ handler.pc = "validating" /\ UNCHANGED calls
        /\ \/ ~ok /\ Persist(state) /\ Return
           \/ /\ ok /\ Persist(r.state)
              /\ Project([handler EXCEPT !.pc = "tasks", !.task = NoTask,
                                         !.answer = NoAnswer])

DriveStep == \/ DriveStops \/ BudgetExhausted \/ SnapshotFrontier
             \/ ExtendFrontier \/ FrontierLimit \/ EndRound \/ DispatchTask
             \/ WorkerAnswers \/ ApplyReport

\* No more calls are explored.
Quiescent == handler.pc = "idle" /\ calls = MaxCalls /\ UNCHANGED vars

Next == ControlHandlers \/ DriveStep \/ Quiescent

Spec == Init /\ [][Next]_vars
\* Restate retries a handler until it ends, and a worker that does not answer
\* is timed out by the runner call.
FairSpec == Spec /\ WF_vars(DriveStep)
-----------------------------------------------------------------------------
(* Properties *)

\* Type correctness of the stored goal, the handler's frame and the bound.
TypeOK == /\ state \in GoalStates /\ state.n <= MaxTasks
          /\ handler \in Handlers
          /\ calls \in 0..MaxCalls

\* cancel() ends the whole goal: no open task and no pending approval or thunk
\* is left behind, whatever was going on before.
CancelledGoalIsQuiet ==
    state.status = "Cancelled" =>
        /\ \A t \in Tasks : ~Open(state, t)
        /\ \A w \in state.approvals \cup state.thunks : w.status # "Pending"

\* No handler that runs after the cancellation, `run` included, changes the goal.
CancelledIsFinal == [][state.status = "Cancelled" => state' = state]_vars

\* A pending approval is about the attempt its task would make next, and the
\* task has not been started or finished behind the approver's back.
PendingApprovalIsCurrent ==
    \A a \in state.approvals : a.status = "Pending" =>
        /\ a.attempt = state.attempts[a.task] + 1
        /\ state.st[a.task] \in {"Runnable", "WaitingApproval",
                                 "WaitingInput", "Blocked"}

\* A gated task is in a worker's or the validator's hands only under an
\* approval granted for exactly that attempt.
GatedRunsApproved ==
    \A t \in Gated : state.st[t] \in {"Running", "NeedsValidation"} =>
        \E a \in state.approvals : /\ a.task = t /\ a.status = "Approved"
                                   /\ a.attempt = state.attempts[t]

\* The for loop dispatches from a snapshot taken before earlier tasks of the
\* round ran; still no task starts before everything it depends on is Done.
DispatchRespectsDependencies ==
    [][\A t \in Tasks :
        state.st[t] # "Running" /\ state'.st[t] = "Running" =>
            \A d \in state.deps[t] : state.st[d] = "Done"]_vars

\* A waiting task has something that can wake it: a pending approval or thunk,
\* or children it asked for.
WaitsHaveAWakeup ==
    \A t \in Tasks :
        /\ state.st[t] = "WaitingApproval" =>
              PendingFor(state.approvals, t) \/ PendingFor(state.thunks, t)
        /\ state.st[t] = "WaitingInput" =>
              PendingFor(state.thunks, t) \/ \E c \in Tasks : state.parent[c] = t

\* A Done goal holds no finished work that no review round has looked at, as
\* long as the policy had another round to give, wherever that work came from
\* and however late it finished.
DoneWorkReviewed ==
    state.status = "Done" /\ ReviewEnabled /\ Len(state.rounds) < MaxReviewRounds =>
        \A t \in DoneTasks(state, WorkLike) :
            \E i \in DOMAIN state.rounds : t \in state.rounds[i].subjects

\* Every handler ends: drive_state cannot go round for ever.
HandlersEnd == handler.pc # "idle" ~> handler.pc = "idle"
=============================================================================
