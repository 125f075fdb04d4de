------------------------------ MODULE GoalState ------------------------------
(***************************************************************************)
(* The goal state machine of crates/domain/src/lib.rs: `GoalState` and the *)
(* methods the coordinator calls on it.  A goal is a record g; a method    *)
(* that takes &mut self is an operator from g to the changed record, and a *)
(* method that can return Err has a second operator, named ...Ok, that     *)
(* holds exactly when it returns Ok.  An Err is never half applied: the    *)
(* coordinator drops its copy of the state.                                *)
(*                                                                         *)
(* Branch groups have a module of their own, Branches: here                *)
(* branching_policy.enabled is false, its default, so branch_task denies   *)
(* and ensure_branch_frontier returns at once.                             *)
(***************************************************************************)
EXTENDS Integers, FiniteSets, Sequences

CONSTANTS
    MaxTasks,           \* bound: size of the pool of task ids
    MaxDepth,           \* SpawnPolicy.max_depth
    MaxChildren,        \* most children one request may ask for
    Gated,              \* tasks whose next attempt approval_policy gates
    Guardrails,         \* guardrail reviews the execution profile requires
    ReviewEnabled, MinReviews, MaxReviewRounds, RequireUnification,
    JoinStrategy, MinPassed,  \* ReviewJoinStrategy, and Quorum's min_passed
    MaxActorRetries,    \* 0 also stands for actor_critic.enabled = false
    RestartEnabled, AllowedScopes, MaxGoalRestarts, MaxTaskRestarts,
    ResetOnRestart,     \* restart_policy.reset_attempts_on_restart
    OnTaskTimeout,      \* timeout_policy.on_task_timeout
    Monitor,            \* control mode monitor / human_steered_continuous
    SteeringAllowed,    \* steering kinds the control policy lets through
    MaxSteering         \* control_policy.max_steering_events

Tasks == 1..MaxTasks
Root == 1
NoTask == 0

Terminal == {"Done", "Cancelled"}
TaskStatus == Terminal \cup
    {"Runnable", "Running", "NeedsValidation", "WaitingApproval",
     "WaitingInput", "Blocked", "Failed"}
GoalStatus == {"Running", "WaitingApproval", "Paused", "Blocked", "Failed",
               "Done", "Cancelled"}
TaskPurpose == {"Work", "Review", "Unification", "ActorRetry", "Research"}
WorkLike == {"Work", "ActorRetry"}
Scopes == {"Task", "Goal", "Failed", "Blocked", "TimedOut"}
SteeringKinds == {"note", "inject_task", "request_research",
                  "standard_review", "evaluate", "update_done_criteria",
                  "expand_done_criteria", "pause", "resume", "cancel"}

(***************************************************************************)
(* A wait is a request for approval or a delayed compute thunk.  The code  *)
(* keeps lists; a set loses only how often an equal, already settled wait  *)
(* was recorded.  A thunk's continuation id is a task id when it is the    *)
(* "goal/../task/../recovery" id the coordinator synthesizes, and NoTask   *)
(* for the one id that workers and operators choose in the model.          *)
(***************************************************************************)
Approval == [task : Tasks, attempt : Nat,
             status : {"Pending", "Approved", "Rejected", "Cancelled"}]
Thunk == [task : Tasks \cup {NoTask}, cont : Tasks \cup {NoTask},
          kind : {"approval", "input"},
          status : {"Pending", "Resumed", "Cancelled"}]
ReviewRound == [subjects : SUBSET Tasks, reviewers : SUBSET Tasks,
                unifier : Tasks \cup {NoTask},
                status : {"ReviewsSpawned", "ReadyForUnification", "Unified"}]

(***************************************************************************)
(* What a worker can answer: its status, whether the result meets the done *)
(* criteria (validation's verdict when the status is Done), the thunk it   *)
(* carries, the children it asks for (free, or depending on the asking     *)
(* task), the review decision it reports, and whether the mean reward then *)
(* reaches min_satisfaction_score, which is taken equal to reward_threshold*)
(* as in the defaults.                                                     *)
(***************************************************************************)
Outcome == [status : {"Done", "Partial", "Waiting", "Blocked", "Failed",
                      "TimedOut"},
            passes : BOOLEAN, thunk : {"none", "input", "approval", "invalid"},
            children : SUBSET {"free", "after"},
            decision : {"none", "accept", "changes"}, scoreOk : BOOLEAN]

\* The root task's budget, which no code decrements: enough; no tool calls
\* left; or no tokens or runtime left either, so that it cannot spawn.
Budget == {"enough", "noToolCalls", "spent"}

GoalStates ==
    [status : GoalStatus, satisfied : BOOLEAN, scoreOk : BOOLEAN,
     decision : {"none", "accept", "changes"}, budget : Budget,
     n : Nat \ {0}, st : [Tasks -> TaskStatus \cup {"Unborn"}],
     attempts : [Tasks -> Nat], parent : [Tasks -> Tasks \cup {NoTask}],
     depth : [Tasks -> Nat], deps : [Tasks -> SUBSET Tasks],
     purpose : [Tasks -> TaskPurpose \cup {"none"}],
     guard : [Tasks -> {"none", "output", "security"}],
     approvals : SUBSET Approval, thunks : SUBSET Thunk,
     restarts : [Tasks -> Nat], goalRestarts : Nat, timedOut : SUBSET Tasks,
     rounds : Seq(ReviewRound), steers : Nat]

ASSUME ConstantsOK ==
    /\ MaxTasks \in Nat \ {0} /\ MaxDepth \in Nat /\ MaxChildren \in Nat
    /\ Gated \subseteq Tasks /\ Guardrails \subseteq {"output", "security"}
    /\ {ReviewEnabled, RequireUnification, RestartEnabled,
        ResetOnRestart, Monitor} \subseteq BOOLEAN
    /\ JoinStrategy \in {"AllRequired", "AnyRequired", "Quorum"}
    /\ {MinReviews, MinPassed, MaxReviewRounds, MaxActorRetries,
        MaxGoalRestarts, MaxTaskRestarts, MaxSteering} \subseteq Nat
    /\ AllowedScopes \subseteq Scopes /\ SteeringAllowed \subseteq SteeringKinds
    /\ OnTaskTimeout \in {"RestartIfAllowed", "BlockAndNotify", "Fail"}
-----------------------------------------------------------------------------
(* Reading a goal *)

\* TaskStatus::is_terminal, over the tasks that exist.
Open(g, t) == g.st[t] \notin Terminal \cup {"Unborn"}
OpenTasks(g) == {t \in Tasks : Open(g, t)}
GoalTerminal(g) == g.status \in Terminal
Any(g, s) == \E t \in Tasks : g.st[t] = s
WorkTasks(g) == {t \in Tasks : g.purpose[t] \in WorkLike}
DoneTasks(g, purposes) ==
    {t \in Tasks : g.purpose[t] \in purposes /\ g.st[t] = "Done"}

WorkDone(g) == /\ WorkTasks(g) # {}
               /\ \A t \in WorkTasks(g) : g.st[t] = "Done"
ReviewGatePassed(g) ==
    LET required == IF ReviewEnabled THEN MinReviews ELSE 0
        passed == Cardinality(DoneTasks(g, {"Review"}))
    IN  CASE JoinStrategy = "AllRequired" -> passed >= required
          [] JoinStrategy = "AnyRequired" -> required = 0 \/ passed > 0
          [] JoinStrategy = "Quorum"      -> passed >= MinPassed
UnificationDone(g) ==
    ReviewEnabled /\ RequireUnification => DoneTasks(g, {"Unification"}) # {}

\* satisfaction_report().satisfied.
Satisfied(g) == /\ WorkDone(g)
                /\ ReviewGatePassed(g)
                /\ UnificationDone(g)
                /\ \A t \in Tasks : ~Open(g, t)
                /\ g.scoreOk
                /\ g.decision # "changes"

\* is_done() trusts the report cached by the last refresh.
IsDone(g) == g.status = "Done" \/ (g.status # "Cancelled" /\ g.satisfied)

\* Mutant of RunnableTasks: dependencies are not looked at.
RunnableIgnoringDeps(g) == {t \in Tasks : g.st[t] = "Runnable"}

RunnableTasks(g) ==
    {t \in Tasks : g.st[t] = "Runnable" /\ \A d \in g.deps[t] : g.st[d] = "Done"}

PendingFor(waits, t) == \E w \in waits : w.task = t /\ w.status = "Pending"
Retire(waits, ts) ==
    {IF w.task \in ts /\ w.status = "Pending"
        THEN [w EXCEPT !.status = "Cancelled"] ELSE w : w \in waits}

RestartAvailable(g, t) ==
    /\ ~GoalTerminal(g) /\ g.st[t] \notin Terminal /\ RestartEnabled
    /\ AllowedScopes \cap {"Task", "Blocked", "Goal"} # {}
    /\ g.restarts[t] < MaxTaskRestarts

\* task_recovery_actions(task) is not empty.
Recoverable(g, t) ==
    \/ PendingFor(g.thunks, t)
    \/ PendingFor(g.approvals, t)
    \/ g.st[t] \in {"Blocked", "Failed"} /\ RestartAvailable(g, t)
    \/ \E c \in Tasks : g.parent[c] = t /\ Open(g, c)

\* The status that stopped tasks give their goal, most urgent first.
StoppedStatus(g, waiting, otherwise) ==
    IF Any(g, "Failed") THEN "Failed"
    ELSE IF Any(g, "Blocked") THEN "Blocked"
    ELSE IF Any(g, "WaitingApproval") THEN "WaitingApproval"
    ELSE IF waiting THEN "Paused" ELSE otherwise

RefreshGoalStatus(g) ==
    IF g.status = "Cancelled" THEN g
    ELSE [g EXCEPT !.satisfied = Satisfied(g),
                   !.status = StoppedStatus(g, Any(g, "WaitingInput"),
                                IF Satisfied(g) THEN "Done" ELSE "Running")]

FrontierIdleStatus(g) ==
    StoppedStatus(g,
        Any(g, "WaitingInput") \/ \E w \in g.thunks : w.status = "Pending",
        IF Monitor THEN "Running" ELSE IF IsDone(g) THEN "Done" ELSE "Blocked")
-----------------------------------------------------------------------------
(* Creating goals and tasks *)

\* f with value v for the tasks of S.
Put(f, S, v) == [t \in Tasks |-> IF t \in S THEN v ELSE f[t]]

\* GoalState::new.
NewGoal(budget) ==
    LET every(v) == [t \in Tasks |-> v]
    IN  [status |-> "Running", satisfied |-> FALSE, scoreOk |-> FALSE,
         decision |-> "none", budget |-> budget, n |-> 1,
         st |-> Put(every("Unborn"), {Root}, "Runnable"), attempts |-> every(0),
         parent |-> every(NoTask), depth |-> every(0),
         deps |-> every({}), purpose |-> Put(every("none"), {Root}, "Work"),
         guard |-> every("none"), approvals |-> {}, thunks |-> {},
         restarts |-> every(0), goalRestarts |-> 0, timedOut |-> {},
         rounds |-> <<>>, steers |-> 0]

\* budget_exhausted: every task's budget is.  A child's budget is a quarter of
\* its parent's, so that is the root's.
BudgetIsExhausted(g) == g.budget # "enough"

\* SpawnPolicy::ensure_spawn_allowed: depth, request size and budget.
SpawnAllowed(g, parent, k) ==
    g.depth[parent] < MaxDepth /\ k <= MaxChildren /\ g.budget # "spent"

NextIds(g, k) == {t \in Tasks : g.n < t /\ t <= g.n + k}

\* insert_child_task: k children of one parent, Runnable at once.
InsertChildren(g, parent, k, purpose, deps, guard) ==
    LET ids == NextIds(g, k)
    IN  [g EXCEPT !.n = @ + k,
                  !.st = Put(@, ids, "Runnable"),
                  !.parent = Put(@, ids, parent),
                  !.depth = Put(@, ids, g.depth[parent] + 1),
                  !.deps = Put(@, ids, deps),
                  !.purpose = Put(@, ids, purpose),
                  !.guard = Put(@, ids, guard)]
InsertIf(due, g, parent, purpose, deps, guard) ==
    IF due THEN InsertChildren(g, parent, 1, purpose, deps, guard) ELSE g
-----------------------------------------------------------------------------
(* Approvals *)

\* Mutant of Asked: an answer for one attempt counts for all.
AskedOnce(g, t, s) == \E a \in g.approvals : a.task = t /\ a.status = s

Asked(g, t, s) ==
    \E a \in g.approvals :
        a.task = t /\ a.attempt = g.attempts[t] + 1 /\ a.status = s

\* ensure_task_approval_or_request returns a request ...
MustWaitForApproval(g, t) ==
    /\ ~Asked(g, t, "Approved")
    /\ Asked(g, t, "Pending") \/ (~Asked(g, t, "Rejected") /\ t \in Gated)

\* ... or ApprovalDenied, when this attempt was rejected before.
AttemptRejected(g, t) ==
    /\ ~Asked(g, t, "Approved") /\ ~Asked(g, t, "Pending")
    /\ Asked(g, t, "Rejected")

RequestApproval(g, t) ==
    RefreshGoalStatus(
        [g EXCEPT !.st[t] = "WaitingApproval",
                  !.approvals = @ \cup {[task |-> t, status |-> "Pending",
                                         attempt |-> g.attempts[t] + 1]}])

MarkRunningOk(g, t) == ~GoalTerminal(g) /\ g.st[t] = "Runnable"
MarkRunning(g, t) ==
    [g EXCEPT !.st[t] = "Running", !.attempts[t] = @ + 1]

\* apply_human_approval; a is a pending request of g.
ApplyHumanApproval(g, a, approved) ==
    LET answer == IF approved THEN "Approved" ELSE "Rejected"
        after(s) == IF ~approved THEN "Blocked"
                    ELSE IF s \in {"WaitingApproval", "Blocked"}
                         THEN "Runnable" ELSE s
    IN  RefreshGoalStatus(
            [g EXCEPT !.approvals = (@ \ {a}) \cup {[a EXCEPT !.status = answer]},
                      !.st[a.task] = after(@)])
-----------------------------------------------------------------------------
(* Delayed compute thunks *)

Waits(g, cont) == {w \in g.thunks : w.cont = cont /\ w.status = "Pending"}

\* Mutant of CreateThunkOk: a finished task may be made to wait.
CreateThunkAnyTask(g, t, cont) ==
    ~GoalTerminal(g) /\ \A w \in Waits(g, cont) : w.task = t
CreateThunkOk(g, t, cont) ==
    /\ ~GoalTerminal(g)
    /\ IF Waits(g, cont) # {} THEN \E w \in Waits(g, cont) : w.task = t
                              ELSE t # NoTask => Open(g, t)

\* create_delayed_compute_thunk: a second request for a pending continuation
\* returns the thunk that is already there.
CreateThunk(g, t, kind, cont) ==
    LET wait == IF kind = "approval" THEN "WaitingApproval" ELSE "WaitingInput"
    IN  IF Waits(g, cont) # {} THEN g
        ELSE RefreshGoalStatus(
                [g EXCEPT !.thunks = @ \cup {[task |-> t, cont |-> cont,
                                              kind |-> kind,
                                              status |-> "Pending"]},
                          !.st = Put(@, {t}, wait)])

\* resume_delayed_compute_thunk; w is a thunk of g.
ResumeThunkOk(g, w) ==
    ~GoalTerminal(g) /\ w.status = "Pending" /\ (w.task # NoTask => Open(g, w.task))

\* The task of w, when its status is one of S.
WaitingTask(g, w, S) == {t \in Tasks : t = w.task /\ g.st[t] \in S}

\* Mutant of ResumeThunk: an approval thunk is settled but its task stays.
ResumeInputOnly(g, w) ==
    RefreshGoalStatus(
        [g EXCEPT !.thunks = (@ \ {w}) \cup {[w EXCEPT !.status = "Resumed"]},
                  !.st = Put(@, WaitingTask(g, w, {"Blocked", "WaitingInput"}),
                             "Runnable")])
ResumeThunk(g, w) ==
    LET woken == WaitingTask(g, w, {"Blocked", "WaitingApproval", "WaitingInput"})
    IN  RefreshGoalStatus(
            [g EXCEPT !.thunks = (@ \ {w}) \cup {[w EXCEPT !.status = "Resumed"]},
                      !.st = Put(@, woken, "Runnable")])
-----------------------------------------------------------------------------
(* Worker results and their validation *)

\* executor_guardrail_child_requests: one review per required kind, once.
GuardrailsDue(g, t) ==
    IF g.purpose[t] \notin WorkLike THEN {}
    ELSE {tag \in Guardrails :
            ~\E c \in Tasks : g.guard[c] = tag /\ g.parent[c] = t}

\* Mutant of NeedsSyntheticThunk: only a blocked worker gets a way forward.
SyntheticForBlocked(g, t, o) ==
    /\ o.status = "Blocked" /\ o.thunk = "none" /\ o.children = {}
    /\ ~PendingFor(g.approvals, t) /\ ~RestartAvailable(g, t)

\* normalize_action_needed_agent_result: a worker that stops without naming a
\* way forward is turned into a wait for a human.
NeedsSyntheticThunk(g, t, o) ==
    /\ o.status \in {"Waiting", "Blocked"}
    /\ o.thunk = "none" /\ o.children = {}
    /\ ~PendingFor(g.approvals, t)
    /\ ~(o.status = "Blocked" /\ RestartAvailable(g, t))

EffectiveStatus(g, t, o) ==
    IF NeedsSyntheticThunk(g, t, o) THEN "Waiting" ELSE o.status

\* The thunk a result leaves: its continuation id, or none.
ThunkCont(g, t, o) == IF NeedsSyntheticThunk(g, t, o) THEN t ELSE NoTask
CarriesThunk(g, t, o) == o.thunk # "none" \/ NeedsSyntheticThunk(g, t, o)

StatusAfterResult(g, t, o) ==
    LET s == EffectiveStatus(g, t, o)
    IN  IF PendingFor(g.approvals, t) /\ s \in {"Waiting", "Blocked"}
        THEN "WaitingApproval"
        ELSE CASE s = "Done"    -> "NeedsValidation"
               [] s = "Partial" -> "Runnable"
               [] s = "Waiting" -> "WaitingInput"
               [] s = "Blocked" -> "Blocked"
               [] OTHER         -> "Failed"

RequestedChildren(g, t, o) ==
    Cardinality(o.children)
        + IF o.status = "Done" THEN Cardinality(GuardrailsDue(g, t)) ELSE 0

ApplyAgentResultOk(g, t, o) ==
    /\ ~GoalTerminal(g) /\ Open(g, t) /\ o.thunk # "invalid"
    /\ RequestedChildren(g, t, o) > 0 =>
            SpawnAllowed(g, t, RequestedChildren(g, t, o))
    /\ CarriesThunk(g, t, o) => CreateThunkOk(g, t, ThunkCont(g, t, o))

ApplyAgentResult(g, t, o) ==
    LET g1 == [g EXCEPT !.st[t] = StatusAfterResult(g, t, o)]
        g2 == IF ~CarriesThunk(g, t, o) THEN g1
              ELSE CreateThunk(g1, t, IF o.thunk = "approval" THEN "approval"
                                      ELSE "input", ThunkCont(g, t, o))
        g3 == InsertIf("free" \in o.children, g2, t, "Work", {}, "none")
        g4 == InsertIf("after" \in o.children, g3, t, "Work", {t}, "none")
        due(tag) == o.status = "Done" /\ tag \in GuardrailsDue(g, t)
        g5 == InsertIf(due("output"), g4, t, "Review", {t}, "output")
        g6 == InsertIf(due("security"), g5, t, "Review", {t}, "security")
    IN  RefreshGoalStatus(g6)

\* ValidationReport::from_result, from the result as the worker sent it.
StatusAfterValidation(o) ==
    CASE o.status = "Waiting" -> "WaitingInput"
      [] o.status = "Blocked" -> "Blocked"
      [] o.status \in {"Failed", "TimedOut"} -> "Failed"
      [] o.status = "Done" /\ o.passes -> "Done"
      [] OTHER -> "Runnable"

ApplyValidationOk(g, t) == ~GoalTerminal(g) /\ Open(g, t)

\* apply_validation and record_learning_signal.
ApplyValidation(g, t, o) ==
    LET unifies(r) == /\ g.purpose[t] = "Unification" /\ r.unifier = t
                      /\ o.status = "Done" /\ o.passes
    IN  RefreshGoalStatus(
            [g EXCEPT !.st[t] = StatusAfterValidation(o),
                      !.scoreOk = o.scoreOk,
                      !.decision = IF g.purpose[t] \in {"Review", "Unification"}
                                   THEN o.decision ELSE @,
                      !.rounds = [i \in DOMAIN @ |->
                            IF unifies(@[i]) THEN [@[i] EXCEPT !.status = "Unified"]
                                             ELSE @[i]]])
-----------------------------------------------------------------------------
(* Restarts and timeouts *)

\* restart_task_ids_for_request.
RestartTargets(g, scope, t) ==
    LET having(S) == {u \in Tasks : g.st[u] \in S}
        stuck == having({"Blocked", "Failed", "WaitingApproval",
                         "WaitingInput", "Running"})
    IN  CASE scope = "Task"     -> {t}
          [] scope = "Goal"     -> IF stuck = {} THEN {Root} ELSE stuck
          [] scope = "Failed"   -> having({"Failed"})
          [] scope = "Blocked"  -> having({"Blocked"})
          [] scope = "TimedOut" -> g.timedOut

RestartOk(g, scope, t) ==
    /\ ~GoalTerminal(g) /\ RestartEnabled /\ scope \in AllowedScopes
    /\ RestartTargets(g, scope, t) # {}
    /\ scope = "Goal" => g.goalRestarts < MaxGoalRestarts
    /\ \A u \in RestartTargets(g, scope, t) : g.restarts[u] < MaxTaskRestarts

\* Mutant of ApplyRestart: pending approvals outlive the restart.
RestartKeepsApprovals(g, scope, t, reset) ==
    LET targets == RestartTargets(g, scope, t)
    IN  RefreshGoalStatus(
            [g EXCEPT !.thunks = Retire(@, targets),
                      !.st = Put(@, targets, "Runnable"),
                      !.attempts = Put(@, IF reset THEN targets ELSE {}, 0),
                      !.restarts = [u \in Tasks |->
                                     IF u \in targets THEN @[u] + 1 ELSE @[u]],
                      !.goalRestarts = IF scope = "Goal" THEN @ + 1 ELSE @])

ApplyRestart(g, scope, t, reset) ==
    LET targets == RestartTargets(g, scope, t)
    IN  RefreshGoalStatus(
            [g EXCEPT !.thunks = Retire(@, targets),
                      !.approvals = Retire(@, targets),
                      !.st = Put(@, targets, "Runnable"),
                      !.attempts = Put(@, IF reset THEN targets ELSE {}, 0),
                      !.restarts = [u \in Tasks |->
                                     IF u \in targets THEN @[u] + 1 ELSE @[u]],
                      !.goalRestarts = IF scope = "Goal" THEN @ + 1 ELSE @])

\* record_task_timeout_and_maybe_restart.
RecordTimeoutOk(g, t) ==
    /\ ~GoalTerminal(g) /\ Open(g, t)
    /\ OnTaskTimeout = "RestartIfAllowed" => RestartOk(g, "Task", t)
RecordTimeout(g, t) ==
    LET timed == [g EXCEPT !.timedOut = @ \cup {t}]
    IN  CASE OnTaskTimeout = "RestartIfAllowed" ->
                ApplyRestart(timed, "Task", t, ResetOnRestart)
          [] OnTaskTimeout = "BlockAndNotify" ->
                RefreshGoalStatus([timed EXCEPT !.st[t] = "Blocked"])
          [] OTHER -> RefreshGoalStatus([timed EXCEPT !.st[t] = "Failed"])
-----------------------------------------------------------------------------
(* Review rounds and actor retries.  Each operator below is the Result<bool> *)
(* of a Rust function: whether it is Ok, whether it spawned tasks, and the   *)
(* state it leaves.                                                          *)

Frontier(ok, spawned, g) == [ok |-> ok, spawned |-> spawned, state |-> g]
LastRound(g) == g.rounds[Len(g.rounds)]

\* One request for k children of the root, h being the state with them.
SpawnFromRoot(g, k, h) ==
    IF SpawnAllowed(g, Root, k) THEN Frontier(TRUE, TRUE, RefreshGoalStatus(h))
                                ELSE Frontier(FALSE, FALSE, g)

SpawnReviewRound(g) ==
    LET reviews == IF MinReviews > 1 THEN MinReviews ELSE 1
        subjects == DoneTasks(g, WorkLike)
        round == [subjects |-> subjects, reviewers |-> NextIds(g, reviews),
                  unifier |-> NoTask, status |-> "ReviewsSpawned"]
        h == InsertChildren(g, Root, reviews, "Review", subjects, "none")
    IN  SpawnFromRoot(g, reviews, [h EXCEPT !.rounds = Append(@, round)])

\* A round whose reviews are all Done and that has no unifier yet.  Only the
\* last round can be one: a new round needs its predecessor Unified.
LastRoundReady(g) ==
    /\ g.rounds # <<>>
    /\ LastRound(g).unifier = NoTask /\ LastRound(g).reviewers # {}
    /\ \A t \in LastRound(g).reviewers : g.st[t] = "Done"

SpawnUnifier(g) ==
    LET round == [LastRound(g) EXCEPT !.unifier = g.n + 1,
                                      !.status = "ReadyForUnification"]
        h == InsertChildren(g, Root, 1, "Unification", LastRound(g).reviewers, "none")
    IN  SpawnFromRoot(g, 1, [h EXCEPT !.rounds[Len(g.rounds)] = round])

\* Mutant of NextRoundDue: the last allowed round is never given.
NextRoundOffByOne(g) ==
    /\ g.rounds # <<>>
    /\ LastRound(g).status = "Unified" /\ Len(g.rounds) + 1 < MaxReviewRounds
    /\ \E t \in DoneTasks(g, WorkLike) :
            \A i \in DOMAIN g.rounds : t \notin g.rounds[i].subjects

\* maybe_spawn_next_review_round: finished work no round has looked at.
NextRoundDue(g) ==
    /\ g.rounds # <<>>
    /\ LastRound(g).status = "Unified" /\ Len(g.rounds) < MaxReviewRounds
    /\ \E t \in DoneTasks(g, WorkLike) :
            \A i \in DOMAIN g.rounds : t \notin g.rounds[i].subjects

\* maybe_spawn_actor_retry, up to its search for a unification task.
RetryDue(g) ==
    /\ MaxActorRetries > 0
    /\ \A t \in Tasks : ~Open(g, t)
    /\ ~Satisfied(g)
    /\ g.decision = "changes" \/ ~g.scoreOk
    /\ Cardinality({t \in Tasks : g.purpose[t] = "ActorRetry"}) < MaxActorRetries

Unifiers(g) == {i \in DOMAIN g.rounds : g.rounds[i].unifier # NoTask}
SpawnActorRetry(g) ==
    LET latest == CHOOSE i \in Unifiers(g) : \A j \in Unifiers(g) : j <= i
        unifier == g.rounds[latest].unifier
    IN  IF Unifiers(g) = {} THEN Frontier(FALSE, FALSE, g)
        ELSE IF g.st[unifier] # "Done"
             THEN Frontier(TRUE, FALSE, RefreshGoalStatus(g))
        ELSE SpawnFromRoot(g, 1,
                InsertChildren(g, Root, 1, "ActorRetry", {unifier}, "none"))

EnsureReviewFrontier(g) ==
    LET idle(h) == Frontier(TRUE, FALSE, RefreshGoalStatus(h))
        unified == IF ~LastRoundReady(g) THEN g
                   ELSE [g EXCEPT !.rounds[Len(g.rounds)].status = "Unified"]
    IN  IF \/ ~ReviewEnabled \/ Any(g, "Failed") \/ Any(g, "Blocked")
           \/ ~WorkDone(g)
        THEN idle(g)
        ELSE IF g.rounds = <<>> /\ MaxReviewRounds > 0 THEN SpawnReviewRound(g)
        ELSE IF LastRoundReady(g) /\ RequireUnification THEN SpawnUnifier(g)
        ELSE IF NextRoundDue(unified) THEN SpawnReviewRound(unified)
        ELSE IF RetryDue(unified) THEN SpawnActorRetry(unified)
        ELSE idle(unified)
-----------------------------------------------------------------------------
(* Steering and cancellation *)

\* Mutants of Cancel: one kind of wait outlives the goal.
CancelTasks(g) ==
    [g EXCEPT !.status = "Cancelled",
              !.st = Put(@, OpenTasks(g), "Cancelled")]
CancelKeepsApprovals(g) ==
    [CancelTasks(g) EXCEPT !.thunks = Retire(@, Tasks \cup {NoTask})]

\* cancel: every open task and every pending wait ends with the goal.
Cancel(g) ==
    LET everyone == Tasks \cup {NoTask}
    IN  [g EXCEPT !.status = "Cancelled",
                  !.st = Put(@, OpenTasks(g), "Cancelled"),
                  !.thunks = Retire(@, everyone),
                  !.approvals = Retire(@, everyone)]

\* propagate_goal_done_criteria with reopen_terminal_tasks.
ReopenDoneWork(g) ==
    [g EXCEPT !.st = Put(@, DoneTasks(g, WorkLike), "Runnable")]

\* A directive: its kind, the task a standard review targets, whether a
\* criteria change reopens finished work, and whether it lifts the minimum
\* satisfaction score above the mean reward.
Directive == [kind : SteeringKinds, target : Tasks, reopen : BOOLEAN,
              raise : BOOLEAN]

ApplySteeringOk(g, d) ==
    \/ d.kind = "cancel"
    \/ /\ d.kind \in SteeringAllowed /\ g.steers < MaxSteering
       /\ d.kind \in {"inject_task", "request_research", "standard_review"} =>
            SpawnAllowed(g, Root, 1)

ApplySteering(g, d) ==
    LET inject(purpose, deps) == InsertChildren(g, Root, 1, purpose, deps, "none")
        criteria == IF d.reopen THEN ReopenDoneWork(g) ELSE g
        h == CASE d.kind = "cancel" -> Cancel(g)
               [] d.kind = "note" -> g
               [] d.kind = "inject_task" -> inject("Work", {})
               [] d.kind = "request_research" -> inject("Research", {})
               [] d.kind = "standard_review" -> inject("Review", {d.target})
               [] d.kind = "evaluate" -> RefreshGoalStatus(g)
               [] d.kind = "update_done_criteria" -> RefreshGoalStatus(criteria)
               [] d.kind = "expand_done_criteria" -> RefreshGoalStatus(
                    [criteria EXCEPT !.scoreOk = @ /\ ~d.raise])
               [] d.kind = "pause" -> [g EXCEPT !.status = "Paused"]
               [] d.kind = "resume" ->
                    [g EXCEPT !.status = IF @ \in {"Paused", "Blocked"}
                                         THEN "Running" ELSE @]
    IN  [h EXCEPT !.steers = @ + 1]
=============================================================================
