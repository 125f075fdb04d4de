------------------------------- MODULE Console -------------------------------
(***************************************************************************)
(* The terminal console: the App that one loop draws, polls, refreshes and *)
(* hands keys to, the one gateway request it has under way, and the        *)
(* gateway behind it (an external service, reached over HTTP).  Chat text, *)
(* scrolling and layout are left out; ids are numbers and NoId stands for  *)
(* an absent one.                                                          *)
(***************************************************************************)
EXTENDS Integers, FiniteSets

CONSTANTS
    InitialGoals,    \* goal |-> plan for the goals the gateway knows first
    PlanIds,         \* the plans the gateway lists
    NewGoal,         \* the id of the goal a draft becomes
    GoalChanges,     \* the states the work of a goal may move to
    MaxKeys,         \* keys pressed
    MaxMoves         \* changes of the goals behind the console's back

VARIABLES app, gateway, keys, moves, meant

consoleVars == <<app, gateway, keys, moves, meant>>

NoId == 0
NoDraft == [spec |-> NoId]
NoRequest == [kind |-> "none"]
NotArmed == [goal |-> NoId, fresh |-> FALSE]
\* "Graph" stands for every view that only shows; the plans view adds Up and
\* Down for what Alt-N and Alt-P do.
Dashboards == {"Goals", "Graph", "Actions"}

-----------------------------------------------------------------------------
(* What the console makes of a goal's snapshot.  A snapshot has the state  *)
(* of an approval, of a task and of a thunk, the thunk once as a node of   *)
(* the workflow graph and once as a record of the workflow status, which   *)
(* are fetched apart, and maybe the gateway's own list of actions.         *)

Row(kind, goal, status) == [kind |-> kind, goal |-> goal, status |-> status]
OpenThunk(status) == status \notin {"none", "resumed", "cancelled", "expired", "done"}
NeedsAttention(status) == status \in {"blocked", "failed", "waiting-approval", "waiting-input"}

ApprovalRows(goal, s) ==
    {Row("approval", goal, a) : a \in {s.approval} \cap {"pending", "waiting-approval"}}
TaskRows(goal, s) == {Row("task", goal, t) : t \in {x \in {s.task} : NeedsAttention(x)}}

\* A record stands in for a node that is missing or already settled.
ThunkRows(goal, s) ==
    IF OpenThunk(s.node) THEN {Row("thunk", goal, s.node)}
    ELSE {Row("thunk", goal, r) : r \in {x \in {s.record} : OpenThunk(x)}}

\* A task that waits for input is shown as the prompt it waits for.
HiddenByThunk(row, thunks) == row.status = "waiting-input" /\ thunks # {}

ActionRows(goal, s) ==
    IF s.actions # {} THEN s.actions
    ELSE LET thunks == ThunkRows(goal, s)
         IN  ApprovalRows(goal, s)
             \cup {r \in TaskRows(goal, s) : ~HiddenByThunk(r, thunks)}
             \cup thunks

\* The gateway's list, without what is settled.
OperatorActions(rows) == {r \in rows : r.status \notin {"done", "resolved", "cancelled"}}

-----------------------------------------------------------------------------
(* The queue of the selected scope *)

ForGoal(rows, goal) == {r \in rows : r.goal = goal}
PlanOf(a, goal) == IF goal \in DOMAIN a.goals THEN a.goals[goal] ELSE NoId
ForPlan(rows, a) == {r \in rows : r.goal # NoId /\ PlanOf(a, r.goal) = a.plan}

ScopedActions(a) ==
    CASE a.goal # NoId /\ a.own # {} -> ForGoal(a.own, a.goal)
      [] a.goal # NoId /\ a.own = {} -> ForGoal(a.queue, a.goal)
      [] a.goal = NoId /\ a.plan # NoId /\ ForPlan(a.queue, a) # {} -> ForPlan(a.queue, a)
      [] OTHER -> a.queue

\* The rows as they are listed: by goal, its approval, its task, its prompt.
KindRank(kind) == CASE kind = "approval" -> 0 [] kind = "task" -> 1 [] kind = "thunk" -> 2
Place(r) == r.goal * 3 + KindRank(r.kind)

Least(x, y) == IF x < y THEN x ELSE y
LastIndex(a) == LET n == Cardinality(ScopedActions(a)) IN IF n = 0 THEN 0 ELSE n - 1
SelectedAction(a) ==
    LET rows == ScopedActions(a)
        at == Least(a.index, LastIndex(a))
    IN  CHOOSE r \in rows : Cardinality({q \in rows : Place(q) < Place(r)}) = at

\* operator_action_request
Resolution(row, input) ==
    CASE row.kind = "thunk" -> IF input THEN "add_context" ELSE "continue"
      [] row.kind = "task" -> IF row.status \in {"blocked", "failed"} THEN "retry" ELSE "replan"
      [] row.kind = "approval" -> "approve"
-----------------------------------------------------------------------------
(* Selection *)

SessionId(a) ==
    CASE a.plan # NoId -> [scope |-> "plan", id |-> a.plan]
      [] a.plan = NoId /\ a.goal # NoId -> [scope |-> "goal", id |-> a.goal]
      [] OTHER -> [scope |-> "operator", id |-> NoId]
Context(a) == [session |-> SessionId(a), plan |-> a.plan, goal |-> a.goal]

\* The selected goal's plan, else the plan that was selected, else the first.
ReconcilePlan(a) ==
    LET own == PlanOf(a, a.goal)
    IN  [a EXCEPT !.plan = IF own # NoId THEN own
                           ELSE IF a.plan \in a.plans THEN a.plan
                           ELSE IF a.plans = {} THEN NoId
                           ELSE CHOOSE p \in a.plans : \A q \in a.plans : p <= q]

\* goal_id_after_step, plan_id_after_step: the list is walked in a circle.
AfterStep(ids, current, step) ==
    LET at(i) == Cardinality({j \in ids : j < i})
        from == IF current \in ids THEN at(current) ELSE 0
    IN  CHOOSE i \in ids : at(i) = (from + step) % Cardinality(ids)

ForgetGoal(a) == [a EXCEPT !.goal = NoId, !.snapshot = FALSE, !.own = {}]
Moved(a) == [a EXCEPT !.draft = NoDraft, !.armed = NotArmed]
-----------------------------------------------------------------------------
(* Fetching *)

\* What the gateway lists as open, and the part of it about one goal.
OpenRows(g) == UNION {ActionRows(i, g.work[i]) : i \in DOMAIN g.work}

\* refresh_selected_goal_summary: the snapshot is dropped before the fetch, the
\* rows stay when it fails.
FetchGoal(a, ok) ==
    IF a.goal = NoId THEN a
    ELSE IF ~ok \/ a.goal \notin DOMAIN gateway.work THEN [a EXCEPT !.snapshot = FALSE]
    ELSE [a EXCEPT !.snapshot = TRUE, !.own = ActionRows(a.goal, gateway.work[a.goal]),
                   !.goals = [i \in DOMAIN @ \cup {a.goal} |->
                                IF i = a.goal THEN gateway.plan[i] ELSE @[i]]]

\* The workspace answers with the selected goal in it, or the goal is fetched.
FetchSelected(a, how) ==
    IF how = "embedded" /\ a.goal \in DOMAIN gateway.work
    THEN [a EXCEPT !.snapshot = TRUE, !.own = OperatorActions(OpenRows(gateway)),
                   !.goals = gateway.plan]
    ELSE FetchGoal(a, how # "detailFails")

\* refresh_dashboard.  Nothing changes unless the workspace answers; plans are
\* the workspace's and the endpoint's, and none when neither lists any.
Refreshed(a, how) ==
    LET listed == [a EXCEPT !.plans = IF how = "noPlans" THEN {} ELSE PlanIds,
                            !.goals = gateway.plan]
        filled == FetchSelected([ReconcilePlan(listed) EXCEPT
                                    !.queue = OperatorActions(OpenRows(gateway))], how)
    IN  IF how = "fails" THEN a
        ELSE ReconcilePlan([filled EXCEPT !.index = Least(@, LastIndex(filled))])

Fetches == {"fails", "embedded", "detail", "detailFails", "noPlans"}
-----------------------------------------------------------------------------
(* Keys.  A key is handled to its end before the loop goes on. *)

Begin(request) == [app EXCEPT !.pending = request, !.busy = TRUE]
Idle == app.pending = NoRequest

\* Ctrl-S; the prompt goes out with the session, plan and goal of the moment.
SendChat ==
    /\ Idle /\ app.input
    /\ app' = [Begin([kind |-> "chat", ctx |-> Context(app)]) EXCEPT !.input = FALSE]
    /\ UNCHANGED meant

\* Ctrl-G
SubmitDraft ==
    /\ Idle /\ app.draft # NoDraft /\ app.draft.ctx = Context(app)
    /\ app' = Begin([kind |-> "submit", spec |-> app.draft.spec]) /\ UNCHANGED meant

\* Ctrl-D; a submission under way goes on.
DiscardDraft == app' = [app EXCEPT !.draft = NoDraft] /\ UNCHANGED meant

OnQueue == app.focus = "Dashboard" /\ app.view = "Actions"

\* Enter or `a` on the queue, and `r` on an approval.
ApplyAction ==
    /\ Idle /\ OnQueue /\ ScopedActions(app) # {}
    /\ LET row == SelectedAction(app)
       IN  app' = [Begin([kind |-> "action", row |-> row,
                          resolution |-> Resolution(row, app.input)])
                    EXCEPT !.input = @ /\ row.kind # "thunk"]
    /\ UNCHANGED meant
RejectApproval ==
    /\ Idle /\ OnQueue /\ ScopedActions(app) # {} /\ SelectedAction(app).kind = "approval"
    /\ app' = [Begin([kind |-> "action", row |-> SelectedAction(app), resolution |-> "reject"])
                EXCEPT !.input = FALSE]
    /\ UNCHANGED meant

\* Mutant of Confirmed: the second press counts whatever goal was armed.
ConfirmedAnyGoal(a) == a.armed.fresh
Confirmed(a) == a.armed.goal = a.goal /\ a.armed.fresh

\* Ctrl-X: the first press arms, a second one in time cancels.
CancelGoal ==
    /\ Idle /\ app.goal # NoId
    /\ app' = IF Confirmed(app)
              THEN [Begin([kind |-> "cancel", goal |-> app.goal])
                        EXCEPT !.input = FALSE, !.armed = NotArmed]
              ELSE [app EXCEPT !.armed = [goal |-> app.goal, fresh |-> TRUE]]
    /\ meant' = IF Confirmed(app) THEN {} ELSE meant \cup {app.goal}

\* Alt-R: the task under the cursor of the queue, else all blocked work.
RestartGoal ==
    /\ Idle /\ app.goal # NoId
    /\ LET task == OnQueue /\ ScopedActions(app) # {} /\ SelectedAction(app).kind = "task"
       IN  app' = [Begin([kind |-> "restart", goal |-> app.goal,
                          scope |-> IF task THEN "task" ELSE "blocked"])
                    EXCEPT !.input = FALSE, !.armed = NotArmed]
    /\ meant' = {}

\* Ctrl-L
ClearLocal ==
    app' = [app EXCEPT !.draft = NoDraft, !.armed = NotArmed, !.result = "none"] /\ meant' = {}

\* load_chat_session fails: a goal selection lets the error out of the loop,
\* a plan selection only reports it.
ChatReload(a) == {a, [a EXCEPT !.exited = TRUE]}

\* Mutant of MaySelect: the selection moves although a request is under way.
MaySelectAlways(a) == TRUE
MaySelect(a) == ~a.busy

SelectGoal ==
    /\ MaySelect(app) /\ DOMAIN app.goals # {}
    /\ \E step \in {-1, 1}, ok \in BOOLEAN :
        LET picked == ReconcilePlan([app EXCEPT
                        !.goal = AfterStep(DOMAIN app.goals, app.goal, step)])
        IN  app' \in ChatReload(FetchGoal(Moved(picked), ok))
    /\ meant' = {}
SelectPlan ==
    /\ MaySelect(app) /\ app.plans # {}
    /\ \E step \in {-1, 1} :
        LET plan == AfterStep(app.plans, app.plan, step)
            kept == PlanOf(app, app.goal) \in {NoId, plan}
        IN  app' = [Moved(IF kept THEN app ELSE ForgetGoal(app)) EXCEPT !.plan = plan]
    /\ meant' = {}
ClearSelection ==
    MaySelect(app) /\ app' \in ChatReload(Moved(ForgetGoal(app))) /\ meant' = {}

MoveCursor ==
    /\ OnQueue
    /\ \E i \in {Least(app.index, LastIndex(app)) - 1, Least(app.index, LastIndex(app)) + 1} :
        app' = [app EXCEPT !.index = IF i < 0 THEN 0 ELSE Least(i, LastIndex(app))]
    /\ UNCHANGED meant

\* Ctrl-R
RefreshKey == ~app.busy /\ (\E how \in Fetches : app' = Refreshed(app, how)) /\ UNCHANGED meant

NextFocus(f) == CASE f = "Dashboard" -> "Chat" [] f = "Chat" -> "Input" [] f = "Input" -> "Dashboard"
\* Tab, a view key, Enter on the goals or in the chat, typing, Ctrl-U, Esc.
PanelKey ==
    /\ app' \in {[app EXCEPT !.focus = NextFocus(@)],
                 [app EXCEPT !.focus = NextFocus(NextFocus(@))]}
         \cup (IF app.focus = "Dashboard" THEN {[app EXCEPT !.view = v] : v \in Dashboards} ELSE {})
         \cup (IF app.focus = "Dashboard" /\ app.view = "Goals"
               THEN {[app EXCEPT !.view = "Graph"]} ELSE {})
         \cup (IF app.focus = "Chat" THEN {[app EXCEPT !.focus = "Input"]} ELSE {})
         \cup (IF app.focus = "Input" THEN {[app EXCEPT !.input = TRUE]} ELSE {})
         \cup {[app EXCEPT !.input = FALSE], [app EXCEPT !.exited = TRUE]}
    /\ app' # app /\ UNCHANGED meant

HandleKey ==
    /\ ~app.exited /\ keys < MaxKeys /\ keys' = keys + 1
    /\ \/ SendChat \/ SubmitDraft \/ DiscardDraft \/ ApplyAction \/ RejectApproval
       \/ CancelGoal \/ RestartGoal \/ ClearLocal \/ SelectGoal \/ SelectPlan
       \/ ClearSelection \/ MoveCursor \/ RefreshKey \/ PanelKey
    /\ UNCHANGED <<gateway, moves>>
-----------------------------------------------------------------------------
(* The rest of the loop, and the gateway *)

\* finish_chat: a draft is kept with the context that is on the screen.
FinishChat(a, ok, draft) ==
    IF ok /\ draft
    THEN [a EXCEPT !.draft = [spec |-> [made |-> app.pending.ctx, id |-> NewGoal],
                              ctx |-> Context(a)]]
    ELSE a

\* finish_goal_submit: the goal and the draft's plan are selected.
FinishSubmit(a, ok, how) ==
    LET plan == app.pending.spec.made.plan
    IN  IF ok THEN Refreshed([a EXCEPT !.goal = app.pending.spec.id, !.draft = NoDraft,
                                       !.plan = IF plan # NoId THEN plan ELSE @], how)
        ELSE a

FinishAction(a, ok, how) ==
    IF ok THEN Refreshed([a EXCEPT !.index = 0, !.result = "applied"], how)
    ELSE [a EXCEPT !.result = "failed"]

\* What the gateway does for a request it takes.
AfterAction(work, row) ==
    CASE row.kind = "approval" -> [work EXCEPT !.approval = "approved"]
      [] row.kind = "task" -> [work EXCEPT !.task = "running"]
      [] row.kind = "thunk" -> [work EXCEPT !.node = "resumed", !.record = "resumed"]
Quiet == [approval |-> "none", task |-> "running", node |-> "none", record |-> "none",
          actions |-> {}]
With(f, i, v) == [j \in DOMAIN f \cup {i} |-> IF j = i THEN v ELSE f[j]]
Taken(g, request) ==
    CASE request.kind = "chat" -> g
      [] request.kind = "submit" ->
            [g EXCEPT !.work = With(@, request.spec.id, Quiet),
                      !.plan = With(@, request.spec.id, request.spec.made.plan)]
      [] request.kind = "action" ->
            IF request.row.goal \in DOMAIN g.work
            THEN [g EXCEPT !.work[request.row.goal] = AfterAction(@, request.row)] ELSE g
      [] request.kind = "restart" -> [g EXCEPT !.work[request.goal].task = "running"]
      [] request.kind = "cancel" -> [g EXCEPT !.work[request.goal] = Quiet]

Ended(a) == [a EXCEPT !.pending = NoRequest, !.busy = FALSE]

\* poll_pending_request.  An error may come with or without the effect: the
\* client gives up after its timeout.
PollPending ==
    /\ ~app.exited /\ ~Idle
    /\ \E taken, ok, draft \in BOOLEAN, how \in Fetches :
        /\ ok => taken
        /\ draft => app.pending.kind = "chat"
        /\ (app.pending.kind = "chat" \/ ~ok) => how = "fails"
        /\ gateway' = IF taken THEN Taken(gateway, app.pending) ELSE gateway
        /\ LET a == Ended(app)
           IN  app' = CASE app.pending.kind = "chat" -> FinishChat(a, ok, draft)
                        [] app.pending.kind = "submit" -> FinishSubmit(a, ok, how)
                        [] OTHER -> FinishAction(a, ok, how)
    /\ UNCHANGED <<keys, moves, meant>>

\* The refresh interval has passed.
AutoRefresh ==
    /\ ~app.exited /\ ~app.busy
    /\ \E how \in Fetches : app' = Refreshed(app, how)
    /\ UNCHANGED <<gateway, keys, moves, meant>>

\* CANCEL_CONFIRM_WINDOW has passed.
WindowPasses ==
    /\ app.armed.fresh
    /\ app' = [app EXCEPT !.armed.fresh = FALSE] /\ meant' = {}
    /\ UNCHANGED <<gateway, keys, moves>>

\* The goals go on behind the gateway.
WorkMoves ==
    /\ moves < MaxMoves /\ moves' = moves + 1
    /\ \E i \in DOMAIN gateway.work, s \in GoalChanges :
        gateway' = [gateway EXCEPT !.work[i] = s]
    /\ UNCHANGED <<app, keys, meant>>

NewApp(goal) ==
    [plan |-> NoId, goal |-> goal, plans |-> {}, goals |-> [i \in {} |-> NoId], queue |-> {},
     own |-> {}, snapshot |-> FALSE, draft |-> NoDraft, armed |-> NotArmed,
     pending |-> NoRequest, busy |-> FALSE, input |-> FALSE, focus |-> "Input",
     view |-> "Graph", index |-> 0, result |-> "none", exited |-> FALSE]

\* run: the first refresh may fail, the console starts anyway.
ConsoleInit ==
    /\ gateway = [work |-> [i \in DOMAIN InitialGoals |-> Quiet], plan |-> InitialGoals]
    /\ \E goal \in {NoId} \cup DOMAIN InitialGoals, how \in {"fails", "embedded", "detail"} :
        app = Refreshed(NewApp(goal), how)
    /\ keys = 0 /\ moves = 0 /\ meant = {}

ConsoleNext == HandleKey \/ PollPending \/ AutoRefresh \/ WindowPasses \/ WorkMoves
ConsoleSpec == ConsoleInit /\ [][ConsoleNext]_consoleVars
-----------------------------------------------------------------------------

\* A goal is cancelled only when Ctrl-X was pressed for that very goal before,
\* in time, with no other selection, restart or clearing in between, also when
\* an accepted draft moved the selection meanwhile (begin_cancel_selected_goal).
\* `meant` is the set of goals the operator has asked to cancel once.
CancelWasArmed ==
    [][app'.pending.kind = "cancel" /\ app'.pending # app.pending
        => app'.pending.goal \in meant]_consoleVars

\* While a draft is being submitted, the session, plan and goal on the screen
\* are the ones its prompt was sent with: nothing that runs between the prompt,
\* the answer and the submission may move them (finish_chat,
\* begin_submit_goal_draft, handle_key, run_loop).
SubmittedInContext ==
    app.pending.kind = "submit" => app.pending.spec.made = Context(app)
=============================================================================
