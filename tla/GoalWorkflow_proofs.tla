------------------------- MODULE GoalWorkflow_proofs -------------------------
(***************************************************************************)
(* Theorems about GoalWorkflow, for every value of its constants.          *)
(***************************************************************************)
EXTENDS GoalWorkflow, TLAPS, SequenceTheorems, WellFoundedInduction
-----------------------------------------------------------------------------
(* Types of the goal state machine: every operator maps goals to goals. *)

LEMMA StoppedStatusType ==
  ASSUME NEW g, NEW w, NEW s \in GoalStatus \ {"Cancelled"}
  PROVE  StoppedStatus(g, w, s) \in GoalStatus \ {"Cancelled"}
  BY DEF StoppedStatus, GoalStatus, Terminal

\* h is a goal, and it is not cancelled unless g was.
Follows(g, h) == /\ h \in GoalStates
                 /\ h.status = "Cancelled" => g.status = "Cancelled"

LEMMA RefreshType ==
  ASSUME NEW g \in GoalStates
  PROVE  Follows(g, RefreshGoalStatus(g))
<1>1. Satisfied(g) \in BOOLEAN
  BY DEF Satisfied
<1>2. StoppedStatus(g, Any(g, "WaitingInput"),
                    IF Satisfied(g) THEN "Done" ELSE "Running")
          \in GoalStatus \ {"Cancelled"}
  BY StoppedStatusType DEF GoalStatus, Terminal
<1> QED
  BY <1>1, <1>2 DEF RefreshGoalStatus, GoalStates, Follows

LEMMA FollowsTrans ==
  ASSUME NEW g, NEW h, NEW k, Follows(g, h), Follows(h, k)
  PROVE  Follows(g, k)
  BY DEF Follows

LEMMA RefreshKeeps ==
  ASSUME NEW g \in GoalStates
  PROVE  /\ RefreshGoalStatus(g).n = g.n
         /\ RefreshGoalStatus(g).st = g.st
         /\ RefreshGoalStatus(g).attempts = g.attempts
         /\ RefreshGoalStatus(g).approvals = g.approvals
         /\ RefreshGoalStatus(g).thunks = g.thunks
  BY DEF RefreshGoalStatus, GoalStates

LEMMA PutType ==
  ASSUME NEW V, NEW v \in V, NEW f \in [Tasks -> V], NEW S
  PROVE  Put(f, S, v) \in [Tasks -> V]
  BY DEF Put

LEMMA NewGoalType ==
  ASSUME NEW b \in Budget
  PROVE  NewGoal(b) \in GoalStates /\ NewGoal(b).n = 1
  BY DEF NewGoal, GoalStates, GoalStatus, TaskStatus, TaskPurpose, NoTask, Put

LEMMA InsertChildrenType ==
  ASSUME NEW g \in GoalStates, NEW p \in Tasks, NEW k \in Nat,
         NEW pu \in TaskPurpose, NEW ds \in SUBSET Tasks,
         NEW gd \in {"none", "output", "security"}
  PROVE  /\ Follows(g, InsertChildren(g, p, k, pu, ds, gd))
         /\ InsertChildren(g, p, k, pu, ds, gd).n = g.n + k
<1>1. g.n + k \in Nat \ {0}
  BY DEF GoalStates
<1>2. Put(g.st, NextIds(g, k), "Runnable") \in [Tasks -> TaskStatus \cup {"Unborn"}]
  BY PutType DEF GoalStates, TaskStatus
<1>3. Put(g.parent, NextIds(g, k), p) \in [Tasks -> Tasks \cup {NoTask}]
  BY PutType DEF GoalStates
<1>4. Put(g.depth, NextIds(g, k), g.depth[p] + 1) \in [Tasks -> Nat]
  <2>1. g.depth[p] + 1 \in Nat /\ g.depth \in [Tasks -> Nat]
    BY DEF GoalStates
  <2> QED BY <2>1, PutType
<1>5. Put(g.deps, NextIds(g, k), ds) \in [Tasks -> SUBSET Tasks]
  BY PutType DEF GoalStates
<1>6. Put(g.purpose, NextIds(g, k), pu) \in [Tasks -> TaskPurpose \cup {"none"}]
  BY PutType DEF GoalStates
<1>7. Put(g.guard, NextIds(g, k), gd) \in [Tasks -> {"none", "output", "security"}]
  BY PutType DEF GoalStates
<1> QED
  BY <1>1, <1>2, <1>3, <1>4, <1>5, <1>6, <1>7 DEF InsertChildren, GoalStates, Follows

LEMMA RequestApprovalType ==
  ASSUME NEW g \in GoalStates, NEW t \in Tasks
  PROVE  Follows(g, RequestApproval(g, t))
<1> DEFINE a == [task |-> t, status |-> "Pending", attempt |-> g.attempts[t] + 1]
           h == [g EXCEPT !.st[t] = "WaitingApproval", !.approvals = @ \cup {a}]
<1>1. a \in Approval
  BY DEF Approval, GoalStates
<1>2. Follows(g, h)
  BY <1>1 DEF GoalStates, TaskStatus, Follows
<1> QED
  BY <1>2, RefreshType DEF RequestApproval, Follows

LEMMA MarkRunningType ==
  ASSUME NEW g \in GoalStates, NEW t \in Tasks
  PROVE  Follows(g, MarkRunning(g, t))
<1>1. [g.attempts EXCEPT ![t] = @ + 1] \in [Tasks -> Nat]
  BY DEF GoalStates
<1>2. [g.st EXCEPT ![t] = "Running"] \in [Tasks -> TaskStatus \cup {"Unborn"}]
  BY DEF GoalStates, TaskStatus
<1> QED
  BY <1>1, <1>2 DEF MarkRunning, GoalStates, Follows

LEMMA ApplyHumanApprovalType ==
  ASSUME NEW g \in GoalStates, NEW a \in g.approvals, NEW approved \in BOOLEAN
  PROVE  Follows(g, ApplyHumanApproval(g, a, approved))
<1>1. a \in Approval
  BY DEF GoalStates
<1>2. \A s \in {"Approved", "Rejected"} : [a EXCEPT !.status = s] \in Approval
  BY <1>1 DEF Approval
<1>3. a.task \in Tasks
  BY <1>1 DEF Approval
<1>4. ASSUME NEW s \in {"Approved", "Rejected"}, NEW x \in TaskStatus \cup {"Unborn"}
      PROVE  Follows(g, [g EXCEPT
                !.approvals = (@ \ {a}) \cup {[a EXCEPT !.status = s]},
                !.st[a.task] = x])
  <2>1. (g.approvals \ {a}) \cup {[a EXCEPT !.status = s]} \in SUBSET Approval
    BY <1>2 DEF GoalStates
  <2>2. [g.st EXCEPT ![a.task] = x] \in [Tasks -> TaskStatus \cup {"Unborn"}]
    BY <1>3 DEF GoalStates
  <2> QED BY <2>1, <2>2 DEF GoalStates, Follows
<1>5. g.st[a.task] \in TaskStatus \cup {"Unborn"}
  BY <1>3 DEF GoalStates
<1> QED
  BY <1>4, <1>5, RefreshType DEF ApplyHumanApproval, TaskStatus, Follows

LEMMA RetireType ==
  ASSUME NEW ts
  PROVE  /\ \A as \in SUBSET Approval : Retire(as, ts) \in SUBSET Approval
         /\ \A ths \in SUBSET Thunk : Retire(ths, ts) \in SUBSET Thunk
  BY DEF Retire, Approval, Thunk

LEMMA CancelType ==
  ASSUME NEW g \in GoalStates
  PROVE  Cancel(g) \in GoalStates
<1>1. \A ts : /\ Retire(g.approvals, ts) \in SUBSET Approval
              /\ Retire(g.thunks, ts) \in SUBSET Thunk
  BY RetireType DEF GoalStates
<1>2. Put(g.st, OpenTasks(g), "Cancelled") \in [Tasks -> TaskStatus \cup {"Unborn"}]
  BY PutType DEF GoalStates, TaskStatus, Terminal
<1> QED
  BY <1>1, <1>2 DEF Cancel, GoalStates, GoalStatus, Terminal
LEMMA CreateThunkType ==
  ASSUME NEW g \in GoalStates, NEW t \in Tasks \cup {NoTask},
         NEW kind \in {"approval", "input"}, NEW cont \in Tasks \cup {NoTask}
  PROVE  Follows(g, CreateThunk(g, t, kind, cont))
<1> DEFINE w == [task |-> t, cont |-> cont, kind |-> kind, status |-> "Pending"]
           wait == IF kind = "approval" THEN "WaitingApproval" ELSE "WaitingInput"
           st == Put(g.st, {t}, wait)
           h == [g EXCEPT !.thunks = g.thunks \cup {w}, !.st = st]
<1>1. g.thunks \cup {w} \in SUBSET Thunk
  BY DEF Thunk, GoalStates
<1>2. st \in [Tasks -> TaskStatus \cup {"Unborn"}]
  BY PutType DEF GoalStates, TaskStatus
<1>3. Follows(g, h)
  <2> HIDE DEF w, st
  <2> QED BY <1>1, <1>2 DEF GoalStates, Follows
<1>4. Follows(g, RefreshGoalStatus(h))
  <2> HIDE DEF h
  <2> QED BY <1>3, RefreshType DEF Follows
<1> QED
  BY <1>4 DEF CreateThunk, Follows

LEMMA ResumeThunkType ==
  ASSUME NEW g \in GoalStates, NEW w \in g.thunks
  PROVE  Follows(g, ResumeThunk(g, w))
<1>1. w \in Thunk /\ g.thunks \in SUBSET Thunk
  BY DEF GoalStates
<1>2. [w EXCEPT !.status = "Resumed"] \in Thunk
  BY <1>1 DEF Thunk
<1>3. (g.thunks \ {w}) \cup {[w EXCEPT !.status = "Resumed"]} \in SUBSET Thunk
  BY <1>1, <1>2
<1>4. ASSUME NEW S
      PROVE  Put(g.st, S, "Runnable") \in [Tasks -> TaskStatus \cup {"Unborn"}]
  BY PutType DEF GoalStates, TaskStatus
<1>5. ASSUME NEW S
      PROVE  Follows(g, [g EXCEPT
                !.thunks = (@ \ {w}) \cup {[w EXCEPT !.status = "Resumed"]},
                !.st = Put(@, S, "Runnable")])
  BY <1>3, <1>4 DEF GoalStates, Follows
<1> QED
  BY <1>5, RefreshType DEF ResumeThunk, Follows

LEMMA StatusAfterResultType ==
  ASSUME NEW g, NEW t, NEW o
  PROVE  StatusAfterResult(g, t, o) \in TaskStatus
  BY DEF StatusAfterResult, TaskStatus

LEMMA InsertIfType ==
  ASSUME NEW due, NEW g \in GoalStates, NEW p \in Tasks, NEW pu \in TaskPurpose,
         NEW ds \in SUBSET Tasks, NEW gd \in {"none", "output", "security"}
  PROVE  Follows(g, InsertIf(due, g, p, pu, ds, gd))
  BY InsertChildrenType DEF InsertIf, Follows

LEMMA ApplyAgentResultType ==
  ASSUME NEW g \in GoalStates, NEW t \in Tasks, NEW o \in Outcome
  PROVE  Follows(g, ApplyAgentResult(g, t, o))
<1> DEFINE g1 == [g EXCEPT !.st[t] = StatusAfterResult(g, t, o)]
           kind == IF o.thunk = "approval" THEN "approval" ELSE "input"
           g2 == IF ~CarriesThunk(g, t, o) THEN g1
                 ELSE CreateThunk(g1, t, kind, ThunkCont(g, t, o))
           g3 == InsertIf("free" \in o.children, g2, t, "Work", {}, "none")
           g4 == InsertIf("after" \in o.children, g3, t, "Work", {t}, "none")
           due(tag) == o.status = "Done" /\ tag \in GuardrailsDue(g, t)
           g5 == InsertIf(due("output"), g4, t, "Review", {t}, "output")
           g6 == InsertIf(due("security"), g5, t, "Review", {t}, "security")
<1> USE DEF TaskPurpose
<1>1. Follows(g, g1)
  BY StatusAfterResultType DEF GoalStates, Follows
<1>2. Follows(g, g2)
  <2>1. ThunkCont(g, t, o) \in Tasks \cup {NoTask}
    BY DEF ThunkCont
  <2> HIDE DEF g1
  <2> QED BY <1>1, <2>1, CreateThunkType DEF Follows
<1>3. Follows(g, g3)
  <2> HIDE DEF g2
  <2>1. g2 \in GoalStates
    BY <1>2 DEF Follows
  <2>2. Follows(g2, g3)
    BY <2>1, InsertIfType
  <2> QED BY <1>2, <2>2, FollowsTrans
<1>4. Follows(g, g4)
  <2> HIDE DEF g3
  <2>1. g3 \in GoalStates
    BY <1>3 DEF Follows
  <2>2. Follows(g3, g4)
    BY <2>1, InsertIfType
  <2> QED BY <1>3, <2>2, FollowsTrans
<1>5. Follows(g, g5)
  <2> HIDE DEF g4
  <2>1. g4 \in GoalStates
    BY <1>4 DEF Follows
  <2>2. Follows(g4, g5)
    BY <2>1, InsertIfType
  <2> QED BY <1>4, <2>2, FollowsTrans
<1>6. Follows(g, g6)
  <2> HIDE DEF g5
  <2>1. g5 \in GoalStates
    BY <1>5 DEF Follows
  <2>2. Follows(g5, g6)
    BY <2>1, InsertIfType
  <2> QED BY <1>5, <2>2, FollowsTrans
<1>7. Follows(g, RefreshGoalStatus(g6))
  <2> HIDE DEF g6
  <2> QED BY <1>6, RefreshType, FollowsTrans DEF Follows
<1> QED
  BY <1>7 DEF ApplyAgentResult

LEMMA RoundType ==
  ASSUME NEW g \in GoalStates, NEW i \in DOMAIN g.rounds
  PROVE  g.rounds[i] \in ReviewRound
<1>1. g.rounds \in Seq(ReviewRound)
  BY DEF GoalStates
<1> QED BY <1>1

LEMMA ApplyValidationType ==
  ASSUME NEW g \in GoalStates, NEW t \in Tasks, NEW o \in Outcome
  PROVE  Follows(g, ApplyValidation(g, t, o))
<1> DEFINE unifies(r) == /\ g.purpose[t] = "Unification" /\ r.unifier = t
                         /\ o.status = "Done" /\ o.passes
           rs == [i \in DOMAIN g.rounds |->
                    IF unifies(g.rounds[i])
                    THEN [g.rounds[i] EXCEPT !.status = "Unified"]
                    ELSE g.rounds[i]]
           d == IF g.purpose[t] \in {"Review", "Unification"}
                THEN o.decision ELSE g.decision
<1>1. rs \in Seq(ReviewRound)
  <2>1. g.rounds \in Seq(ReviewRound)
    BY DEF GoalStates
  <2>2. DOMAIN g.rounds = 1..Len(g.rounds) /\ Len(g.rounds) \in Nat
    BY <2>1
  <2>3. \A i \in DOMAIN g.rounds :
            [g.rounds[i] EXCEPT !.status = "Unified"] \in ReviewRound
    BY RoundType DEF ReviewRound
  <2>4. \A i \in 1..Len(g.rounds) : rs[i] \in ReviewRound
    BY <2>2, <2>3, RoundType
  <2>5. rs \in [1..Len(g.rounds) -> ReviewRound]
    BY <2>2, <2>4
  <2> HIDE DEF rs
  <2> QED BY <2>2, <2>5
<1>2. StatusAfterValidation(o) \in TaskStatus
  BY DEF StatusAfterValidation, TaskStatus, Terminal
<1>3. [g.st EXCEPT ![t] = StatusAfterValidation(o)]
        \in [Tasks -> TaskStatus \cup {"Unborn"}]
  BY <1>2 DEF GoalStates
<1>4. d \in {"none", "accept", "changes"} /\ o.scoreOk \in BOOLEAN
  BY DEF GoalStates, Outcome
<1>5. Follows(g, [g EXCEPT !.st[t] = StatusAfterValidation(o), !.scoreOk = o.scoreOk,
                           !.decision = d, !.rounds = rs])
  <2> HIDE DEF rs, d
  <2> QED BY <1>1, <1>3, <1>4 DEF GoalStates, Follows
<1> QED
  BY <1>5, RefreshType DEF ApplyValidation, Follows

LEMMA ApplyRestartType ==
  ASSUME NEW g \in GoalStates, NEW scope, NEW t, NEW reset
  PROVE  Follows(g, ApplyRestart(g, scope, t, reset))
<1> DEFINE ts == RestartTargets(g, scope, t)
           rs == [u \in Tasks |-> IF u \in ts THEN g.restarts[u] + 1 ELSE g.restarts[u]]
           gr == IF scope = "Goal" THEN g.goalRestarts + 1 ELSE g.goalRestarts
           as == Put(g.attempts, IF reset THEN ts ELSE {}, 0)
<1>1. rs \in [Tasks -> Nat]
  BY DEF GoalStates
<1>2. gr \in Nat
  BY DEF GoalStates
<1>3. as \in [Tasks -> Nat]
  BY PutType DEF GoalStates
<1>4. Put(g.st, ts, "Runnable") \in [Tasks -> TaskStatus \cup {"Unborn"}]
  BY PutType DEF GoalStates, TaskStatus
<1>5. Retire(g.thunks, ts) \in SUBSET Thunk /\ Retire(g.approvals, ts) \in SUBSET Approval
  BY RetireType DEF GoalStates
<1>6. Follows(g, [g EXCEPT !.thunks = Retire(@, ts), !.approvals = Retire(@, ts),
                           !.st = Put(@, ts, "Runnable"), !.attempts = as,
                           !.restarts = rs, !.goalRestarts = gr])
  <2> HIDE DEF rs, gr, as, ts
  <2> QED BY <1>1, <1>2, <1>3, <1>4, <1>5 DEF GoalStates, Follows
<1> QED
  BY <1>6, RefreshType DEF ApplyRestart, Follows

LEMMA RecordTimeoutType ==
  ASSUME NEW g \in GoalStates, NEW t \in Tasks
  PROVE  Follows(g, RecordTimeout(g, t))
<1> DEFINE timed == [g EXCEPT !.timedOut = @ \cup {t}]
<1>1. Follows(g, timed)
  BY DEF GoalStates, Follows
<1>2. \A s \in {"Blocked", "Failed"} : Follows(g, [timed EXCEPT !.st[t] = s])
  <2> HIDE DEF timed
  <2> QED BY <1>1 DEF GoalStates, TaskStatus, Follows
<1>3. Follows(g, ApplyRestart(timed, "Task", t, ResetOnRestart))
  <2> HIDE DEF timed
  <2> QED BY <1>1, ApplyRestartType DEF Follows
<1> QED
  BY <1>2, <1>3, RefreshType DEF RecordTimeout, Follows
-----------------------------------------------------------------------------
(* The review frontier.  A unification task takes the next id, so the state  *)
(* it leaves is a goal as long as the pool is large enough.                  *)

LEMMA LastRoundType ==
  ASSUME NEW g \in GoalStates, g.rounds # <<>>
  PROVE  LastRound(g) \in ReviewRound /\ Len(g.rounds) \in DOMAIN g.rounds
<1>1. g.rounds \in Seq(ReviewRound)
  BY DEF GoalStates
<1>2. Len(g.rounds) \in 1..Len(g.rounds)
  BY <1>1
<1> QED BY <1>1, <1>2 DEF LastRound

LEMMA RoundsUpdateType ==
  ASSUME NEW g \in GoalStates, NEW rs \in Seq(ReviewRound)
  PROVE  Follows(g, [g EXCEPT !.rounds = rs])
  BY DEF GoalStates, Follows

LEMMA ReplaceLastRoundType ==
  ASSUME NEW g \in GoalStates, NEW h \in GoalStates, h.rounds = g.rounds,
         g.rounds # <<>>, NEW r \in ReviewRound
  PROVE  Follows(h, [h EXCEPT !.rounds[Len(g.rounds)] = r])
<1>1. g.rounds \in Seq(ReviewRound)
  BY DEF GoalStates
<1>2. [g.rounds EXCEPT ![Len(g.rounds)] = r] \in Seq(ReviewRound)
  BY <1>1, ExceptSeq
<1>3. Follows(h, [h EXCEPT !.rounds = [@ EXCEPT ![Len(g.rounds)] = r]])
  BY <1>2, RoundsUpdateType
<1> QED BY <1>3

LEMMA InsertChildrenKeeps ==
  ASSUME NEW g \in GoalStates, NEW p, NEW k, NEW pu, NEW ds, NEW gd
  PROVE  InsertChildren(g, p, k, pu, ds, gd).rounds = g.rounds
  BY DEF InsertChildren, GoalStates

LEMMA RootIsTask == Root \in Tasks
  BY ConstantsOK DEF Root, Tasks

LEMMA SpawnReviewRoundType ==
  ASSUME NEW g \in GoalStates
  PROVE  Follows(g, SpawnReviewRound(g).state)
<1> DEFINE reviews == IF MinReviews > 1 THEN MinReviews ELSE 1
           subjects == DoneTasks(g, WorkLike)
           round == [subjects |-> subjects, reviewers |-> NextIds(g, reviews),
                     unifier |-> NoTask, status |-> "ReviewsSpawned"]
           h == InsertChildren(g, Root, reviews, "Review", subjects, "none")
<1>1. reviews \in Nat
  BY ConstantsOK
<1>2. subjects \in SUBSET Tasks /\ NextIds(g, reviews) \in SUBSET Tasks
  BY DEF DoneTasks, NextIds
<1>3. round \in ReviewRound
  BY <1>2 DEF ReviewRound
<1>4. Follows(g, h)
  BY <1>1, <1>2, InsertChildrenType, RootIsTask DEF TaskPurpose
<1>5. Append(h.rounds, round) \in Seq(ReviewRound)
  <2>1. h.rounds \in Seq(ReviewRound)
    BY <1>4 DEF GoalStates, Follows
  <2> HIDE DEF h, round
  <2> QED BY <2>1, <1>3
<1>6. Follows(g, [h EXCEPT !.rounds = Append(@, round)])
  <2> HIDE DEF h, round
  <2> QED BY <1>4, <1>5, RoundsUpdateType, FollowsTrans DEF Follows
<1>7. Follows(g, RefreshGoalStatus([h EXCEPT !.rounds = Append(@, round)]))
  <2> HIDE DEF h, round
  <2> QED BY <1>6, RefreshType, FollowsTrans DEF Follows
<1>8. Follows(g, g)
  BY DEF Follows
<1> QED
  BY <1>7, <1>8 DEF SpawnReviewRound, SpawnFromRoot, Frontier

LEMMA SpawnUnifierType ==
  ASSUME NEW g \in GoalStates, g.rounds # <<>>,
         SpawnUnifier(g).state.n <= MaxTasks
  PROVE  Follows(g, SpawnUnifier(g).state)
<1> DEFINE round == [LastRound(g) EXCEPT !.unifier = g.n + 1,
                                         !.status = "ReadyForUnification"]
           h == InsertChildren(g, Root, 1, "Unification",
                               LastRound(g).reviewers, "none")
           k == [h EXCEPT !.rounds[Len(g.rounds)] = round]
<1>1. LastRound(g) \in ReviewRound
  BY LastRoundType
<1>2. LastRound(g).reviewers \in SUBSET Tasks
  BY <1>1 DEF ReviewRound
<1>3. Follows(g, h) /\ h \in GoalStates /\ h.n = g.n + 1 /\ h.rounds = g.rounds
  BY <1>2, InsertChildrenType, InsertChildrenKeeps, RootIsTask DEF TaskPurpose, Follows
<1>4. CASE SpawnAllowed(g, Root, 1)
  <2>1. SpawnUnifier(g).state = RefreshGoalStatus(k)
    BY <1>4 DEF SpawnUnifier, SpawnFromRoot, Frontier
  <2>2. k.n = g.n + 1
    <3> HIDE DEF h, round
    <3> QED BY <1>3 DEF GoalStates
  <2>3. RefreshGoalStatus(k).n = k.n
    <3>1. k = [h EXCEPT !.rounds = [@ EXCEPT ![Len(g.rounds)] = round]]
      OBVIOUS
    <3>2. \A rs : [h EXCEPT !.rounds = rs].n = h.n
      <4> HIDE DEF h
      <4> QED BY <1>3 DEF GoalStates
    <3>3. \A rs : RefreshGoalStatus([h EXCEPT !.rounds = rs]).n = h.n
      <4> HIDE DEF h
      <4> QED BY <1>3 DEF RefreshGoalStatus, GoalStates
    <3> HIDE DEF h, round
    <3> QED BY <3>1, <3>2, <3>3
  <2>4. g.n + 1 \in Tasks
    <3>1. g.n + 1 <= MaxTasks /\ g.n \in Nat
      BY <2>1, <2>2, <2>3 DEF GoalStates
    <3> QED BY <3>1, ConstantsOK DEF Tasks
  <2>5. round \in ReviewRound
    BY <1>1, <2>4 DEF ReviewRound
  <2>6. Follows(h, k)
    <3> HIDE DEF h, round
    <3> QED BY <1>3, <2>5, ReplaceLastRoundType
  <2>7. Follows(k, RefreshGoalStatus(k))
    BY <2>6, RefreshType DEF Follows
  <2> HIDE DEF h, k
  <2> QED
    BY <1>3, <2>1, <2>6, <2>7, FollowsTrans
<1>5. CASE ~SpawnAllowed(g, Root, 1)
  BY <1>5 DEF SpawnUnifier, SpawnFromRoot, Frontier, Follows
<1> QED
  BY <1>4, <1>5

LEMMA LargestExists ==
  ASSUME NEW n \in Nat, NEW S \in SUBSET (1..n), S # {}
  PROVE  \E i \in S : \A j \in S : j <= i
<1> DEFINE R == OpToRel(<, Nat)
           T == {x \in Nat : n - x \in S}
<1> HIDE DEF R
<1>1. T \subseteq Nat /\ T # {}
  <2>1. PICK i \in S : TRUE
    OBVIOUS
  <2>2. n - i \in Nat /\ n - (n - i) = i
    OBVIOUS
  <2> QED BY <2>1, <2>2
<1>2. IsWellFoundedOn(R, Nat)
  BY NatLessThanWellFounded DEF R
<1>3. \E x \in T : \A y \in T : ~(<<y, x>> \in R)
  <2> HIDE DEF T
  <2> QED BY <1>1, <1>2, WFMin
<1>4. PICK x \in T : \A y \in T : ~(y < x)
  BY <1>1, <1>3 DEF OpToRel, R
<1>5. ASSUME NEW j \in S PROVE j <= n - x
  <2>1. n - j \in Nat /\ n - (n - j) = j
    OBVIOUS
  <2>2. n - j \in T
    BY <2>1
  <2>3. ~(n - j < x) /\ x \in Nat
    BY <1>4, <2>2
  <2> QED BY <2>3
<1> QED BY <1>4, <1>5

LEMMA SpawnActorRetryType ==
  ASSUME NEW g \in GoalStates
  PROVE  Follows(g, SpawnActorRetry(g).state)
<1> DEFINE latest == CHOOSE i \in Unifiers(g) : \A j \in Unifiers(g) : j <= i
           unifier == g.rounds[latest].unifier
           h == InsertChildren(g, Root, 1, "ActorRetry", {unifier}, "none")
<1>1. CASE Unifiers(g) = {}
  BY <1>1 DEF SpawnActorRetry, Frontier, Follows
<1>2. CASE Unifiers(g) # {}
  <2>1. g.rounds \in Seq(ReviewRound)
    BY DEF GoalStates
  <2>2. Unifiers(g) \in SUBSET (1..Len(g.rounds)) /\ Len(g.rounds) \in Nat
    BY <2>1 DEF Unifiers
  <2>3. latest \in Unifiers(g)
    BY <1>2, <2>2, LargestExists
  <2>4. unifier \in Tasks
    <3> HIDE DEF latest
    <3>1. latest \in DOMAIN g.rounds /\ g.rounds[latest].unifier # NoTask
      BY <2>3 DEF Unifiers
    <3> QED BY <3>1, RoundType DEF ReviewRound
  <2> HIDE DEF unifier
  <2>5. Follows(g, h)
    BY <2>4, InsertChildrenType, RootIsTask DEF TaskPurpose
  <2>6. Follows(g, RefreshGoalStatus(g)) /\ Follows(g, RefreshGoalStatus(h))
    <3> HIDE DEF h
    <3> QED BY <2>5, RefreshType, FollowsTrans DEF Follows
  <2>7. Follows(g, g)
    BY DEF Follows
  <2> QED
    BY <1>2, <2>6, <2>7 DEF SpawnActorRetry, SpawnFromRoot, Frontier, unifier
<1> QED BY <1>1, <1>2

LEMMA EnsureReviewFrontierType ==
  ASSUME NEW g \in GoalStates, EnsureReviewFrontier(g).state.n <= MaxTasks
  PROVE  Follows(g, EnsureReviewFrontier(g).state)
<1> DEFINE unified == IF ~LastRoundReady(g) THEN g
                      ELSE [g EXCEPT !.rounds[Len(g.rounds)].status = "Unified"]
<1>1. Follows(g, unified)
  <2>1. CASE LastRoundReady(g)
    <3>1. g.rounds # <<>>
      BY <2>1 DEF LastRoundReady
    <3>2. [LastRound(g) EXCEPT !.status = "Unified"] \in ReviewRound
      BY <3>1, LastRoundType DEF ReviewRound
    <3>3. Follows(g, [g EXCEPT !.rounds[Len(g.rounds)] =
                                 [LastRound(g) EXCEPT !.status = "Unified"]])
      BY <3>1, <3>2, ReplaceLastRoundType
    <3> QED BY <2>1, <3>3 DEF LastRound
  <2>2. CASE ~LastRoundReady(g)
    BY <2>2 DEF Follows
  <2> QED BY <2>1, <2>2
<1>2. /\ Follows(g, SpawnReviewRound(g).state)
      /\ Follows(g, SpawnReviewRound(unified).state)
      /\ Follows(g, SpawnActorRetry(unified).state)
      /\ Follows(g, RefreshGoalStatus(g))
      /\ Follows(g, RefreshGoalStatus(unified))
  <2> HIDE DEF unified
  <2>1. unified \in GoalStates
    BY <1>1 DEF Follows
  <2>2. /\ Follows(unified, SpawnReviewRound(unified).state)
        /\ Follows(unified, SpawnActorRetry(unified).state)
        /\ Follows(unified, RefreshGoalStatus(unified))
    BY <2>1, SpawnReviewRoundType, SpawnActorRetryType, RefreshType
  <2> QED BY <1>1, <2>2, SpawnReviewRoundType, RefreshType, FollowsTrans
<1>3. LastRoundReady(g) => g.rounds # <<>>
  BY DEF LastRoundReady
<1>4. \A h : Frontier(TRUE, FALSE, h).state = h
  BY DEF Frontier
<1>5. \/ EnsureReviewFrontier(g) = Frontier(TRUE, FALSE, RefreshGoalStatus(g))
      \/ EnsureReviewFrontier(g) = SpawnReviewRound(g)
      \/ LastRoundReady(g) /\ EnsureReviewFrontier(g) = SpawnUnifier(g)
      \/ EnsureReviewFrontier(g) = SpawnReviewRound(unified)
      \/ EnsureReviewFrontier(g) = SpawnActorRetry(unified)
      \/ EnsureReviewFrontier(g) = Frontier(TRUE, FALSE, RefreshGoalStatus(unified))
  BY Zenon DEF EnsureReviewFrontier
<1> HIDE DEF unified
<1> QED
  BY <1>2, <1>3, <1>4, <1>5, SpawnUnifierType
-----------------------------------------------------------------------------
(* Type correctness of the workflow. *)

LEMMA ApplySteeringType ==
  ASSUME NEW g \in GoalStates, NEW d \in Directive
  PROVE  /\ ApplySteering(g, d) \in GoalStates
         /\ d.kind # "cancel" => Follows(g, ApplySteering(g, d))
<1> DEFINE inject(purpose, deps) == InsertChildren(g, Root, 1, purpose, deps, "none")
           criteria == IF d.reopen THEN ReopenDoneWork(g) ELSE g
<1>1. \A x \in GoalStates : Follows(x, [x EXCEPT !.steers = @ + 1])
  <2> SUFFICES ASSUME NEW x \in GoalStates
               PROVE  Follows(x, [x EXCEPT !.steers = @ + 1])
    OBVIOUS
  <2>1. x.steers + 1 \in Nat
    BY DEF GoalStates
  <2> QED BY <2>1 DEF GoalStates, Follows
<1>2. Cancel(g) \in GoalStates /\ Follows(g, RefreshGoalStatus(g)) /\ Follows(g, g)
  BY CancelType, RefreshType DEF Follows
<1>3. \A ds \in SUBSET Tasks : /\ Follows(g, inject("Work", ds))
                               /\ Follows(g, inject("Research", ds))
                               /\ Follows(g, inject("Review", ds))
  BY InsertChildrenType, RootIsTask DEF TaskPurpose
<1>4. Follows(g, criteria)
  <2>1. Put(g.st, DoneTasks(g, WorkLike), "Runnable")
            \in [Tasks -> TaskStatus \cup {"Unborn"}]
    BY PutType DEF GoalStates, TaskStatus
  <2> QED BY <2>1 DEF ReopenDoneWork, GoalStates, Follows
<1>5. \A b \in BOOLEAN : Follows(g, [criteria EXCEPT !.scoreOk = b])
  <2> HIDE DEF criteria
  <2> QED BY <1>4 DEF GoalStates, Follows
<1>6. /\ Follows(g, RefreshGoalStatus(criteria))
      /\ Follows(g, RefreshGoalStatus([criteria EXCEPT !.scoreOk = @ /\ ~d.raise]))
  <2> HIDE DEF criteria
  <2>1. Follows(g, [criteria EXCEPT !.scoreOk = @ /\ ~d.raise])
    BY <1>5
  <2> QED BY <1>4, <2>1, RefreshType, FollowsTrans DEF Follows
<1>7. \A x \in GoalStatus : x # "Cancelled" \/ x = g.status =>
            Follows(g, [g EXCEPT !.status = x])
  BY DEF GoalStates, Follows
<1>8. /\ Follows(g, [g EXCEPT !.status = "Paused"])
      /\ Follows(g, [g EXCEPT !.status = IF @ \in {"Paused", "Blocked"}
                                         THEN "Running" ELSE @])
  <2>1. g.status \in GoalStatus
    BY DEF GoalStates
  <2> QED BY <1>7, <2>1 DEF GoalStatus
<1>9. d.kind \in SteeringKinds /\ {d.target} \in SUBSET Tasks
  BY DEF Directive
<1> HIDE DEF inject, criteria
<1> DEFINE h == CASE d.kind = "cancel" -> Cancel(g)
               [] d.kind = "note" -> g
               [] d.kind = "inject_task" -> inject("Work", {})
               [] d.kind = "request_research" -> inject("Research", {})
               [] d.kind = "standard_review" -> inject("Review", {d.target})
               [] d.kind = "evaluate" -> RefreshGoalStatus(g)
               [] d.kind = "update_done_criteria" -> RefreshGoalStatus(criteria)
               [] d.kind = "expand_done_criteria" -> RefreshGoalStatus(
                    [criteria EXCEPT !.scoreOk = @ /\ ~d.raise])
               [] d.kind = "pause" -> [g EXCEPT !.status = "Paused"]
               [] d.kind = "resume" ->
                    [g EXCEPT !.status = IF @ \in {"Paused", "Blocked"}
                                         THEN "Running" ELSE @]
<1>10. h \in GoalStates /\ (d.kind # "cancel" => Follows(g, h))
  <2>1. CASE d.kind = "cancel"
    BY <1>2, <2>1
  <2>2. CASE d.kind # "cancel"
    <3>1. Follows(g, h)
      BY <1>2, <1>3, <1>6, <1>8, <1>9, <2>2 DEF SteeringKinds
    <3> QED BY <3>1 DEF Follows
  <2> QED BY <2>1, <2>2
<1>11. ApplySteering(g, d) = [h EXCEPT !.steers = @ + 1]
  BY DEF ApplySteering, inject, criteria
<1> HIDE DEF h
<1> QED BY <1>1, <1>10, <1>11, FollowsTrans DEF Follows

\* What the frame of drive_state holds between two awaits: inside a round the
\* round number is below the limit, and the task and the answer are known.
FrameOK ==
    /\ handler.pc \in {"tasks", "running", "validating"} => handler.round < MaxRounds
    /\ handler.pc \in {"running", "validating"} => handler.task \in Tasks
    /\ handler.pc = "validating" => handler.answer \in Outcomes

TypeInv == TypeOK /\ FrameOK

LEMMA FrameTypes ==
  /\ NoHandler \in Handlers /\ NoHandler.pc = "idle"
  /\ \A r \in 0..MaxRounds : DriveFrame(r) \in Handlers /\ DriveFrame(r).pc = "drive"
<1>1. NoHandler \in Handlers /\ NoHandler.pc = "idle"
  BY WorkflowConstantsOK DEF NoHandler, Handlers, NoAnswer
<1>2. \A r \in 0..MaxRounds : DriveFrame(r) \in Handlers /\ DriveFrame(r).pc = "drive"
  BY <1>1 DEF DriveFrame, Handlers
<1> QED BY <1>1, <1>2

LEMMA TypeInvInit == Init => TypeInv
<1> SUFFICES ASSUME Init PROVE TypeInv
  OBVIOUS
<1>1. state \in GoalStates /\ state.n <= MaxTasks
  BY NewGoalType, ConstantsOK DEF Init
<1>2. handler \in Handlers /\ handler.pc \in {"idle", "drive"}
  BY FrameTypes, WorkflowConstantsOK DEF Init
<1>3. calls \in 0..MaxCalls
  BY WorkflowConstantsOK DEF Init
<1> QED BY <1>1, <1>2, <1>3 DEF TypeInv, TypeOK, FrameOK

\* A control handler stores a goal and returns or enters drive_state.
LEMMA ControlType ==
  ASSUME TypeInv, Idle, NEW g \in GoalStates, NEW drives, Control(g, drives)
  PROVE  TypeInv'
<1>1. state' \in GoalStates /\ state'.n <= MaxTasks
  BY DEF Control, Persist
<1>2. handler' \in Handlers /\ handler'.pc \in {"idle", "drive"}
  BY FrameTypes, WorkflowConstantsOK DEF Control, Project, Return
<1>3. calls' \in 0..MaxCalls
  BY WorkflowConstantsOK DEF Control, Idle, TypeInv, TypeOK
<1> QED BY <1>1, <1>2, <1>3 DEF TypeInv, TypeOK, FrameOK

LEMMA ControlHandlersType ==
  ASSUME TypeInv, ControlHandlers
  PROVE  TypeInv'
<1> USE DEF AcceptsControl
<1>1. state \in GoalStates
  BY DEF TypeInv, TypeOK
<1>2. CASE Run
  BY <1>1, <1>2, ControlType DEF Run
<1>3. CASE CancelGoal
  BY <1>1, <1>3, ControlType, CancelType DEF CancelGoal
<1>4. CASE Steer
  BY <1>1, <1>4, ControlType, ApplySteeringType, WorkflowConstantsOK DEF Steer
<1>5. CASE Approve
  BY <1>1, <1>5, ControlType, ApplyHumanApprovalType DEF Approve, Follows
<1>6. CASE Restart
  BY <1>1, <1>6, ControlType, ApplyRestartType DEF Restart, Follows
<1>7. CASE ResumeDelayedThunk
  BY <1>1, <1>7, ControlType, ResumeThunkType DEF ResumeDelayedThunk, Follows
<1>8. CASE CreateDelayedThunk
  BY <1>1, <1>8, ControlType, CreateThunkType DEF CreateDelayedThunk, Follows
<1> QED
  BY <1>2, <1>3, <1>4, <1>5, <1>6, <1>7, <1>8 DEF ControlHandlers

\* What a step of drive_state may leave: a goal, and a frame that is idle, at
\* the top of a round, or the old frame moved on within its round.
LEMMA DriveResultType ==
  ASSUME TypeInv, Follows(state, state'), state'.n <= MaxTasks, UNCHANGED calls,
         \/ handler' = NoHandler
         \/ \E r \in 0..MaxRounds : handler' = DriveFrame(r)
         \/ /\ handler' \in Handlers /\ FrameOK'
  PROVE  TypeInv'
<1>1. handler' \in Handlers /\ FrameOK'
  <2>1. CASE handler' = NoHandler
    BY <2>1, FrameTypes DEF FrameOK
  <2>2. CASE \E r \in 0..MaxRounds : handler' = DriveFrame(r)
    BY <2>2, FrameTypes DEF FrameOK
  <2> QED BY <2>1, <2>2
<1>2. calls' \in 0..MaxCalls
  BY DEF TypeInv, TypeOK
<1> QED BY <1>1, <1>2 DEF TypeInv, TypeOK, Follows

LEMMA DriveStepType ==
  ASSUME TypeInv, DriveStep
  PROVE  TypeInv' /\ Follows(state, state')
<1>1. /\ state \in GoalStates /\ state.n <= MaxTasks
      /\ handler \in Handlers /\ FrameOK /\ Follows(state, state)
  BY DEF TypeInv, TypeOK, Follows
<1>2. handler.round \in 0..MaxRounds /\ MaxRounds \in Nat
  BY <1>1, WorkflowConstantsOK DEF Handlers
<1>3. ASSUME handler.round < MaxRounds PROVE handler.round + 1 \in 0..MaxRounds
  BY <1>2, <1>3
<1>4. CASE DriveStops
  BY <1>1, <1>4, DriveResultType DEF DriveStops, AtRound, Persist, Return
<1>5. CASE BudgetExhausted
  <2>1. Put(state.st, OpenTasks(state), "Blocked")
            \in [Tasks -> TaskStatus \cup {"Unborn"}]
    BY <1>1, PutType DEF GoalStates, TaskStatus
  <2>2. Follows(state, [state EXCEPT
                            !.status = "Blocked",
                            !.st = Put(@, OpenTasks(state), "Blocked")])
    BY <1>1, <2>1 DEF GoalStates, GoalStatus, Follows
  <2> QED
    BY <1>5, <2>2, DriveResultType DEF BudgetExhausted, AtRound, Persist, Return
<1>6. CASE SnapshotFrontier
  <2>1. RunnableTasks(state) \in SUBSET Tasks
    BY DEF RunnableTasks
  <2>2. /\ handler' = [handler EXCEPT !.pc = "tasks", !.left = RunnableTasks(state)]
        /\ handler.round < MaxRounds /\ UNCHANGED <<state, calls>>
    BY <1>6 DEF SnapshotFrontier, Working, AtRound
  <2>3. /\ handler' \in Handlers /\ handler'.pc = "tasks"
        /\ handler'.round = handler.round
    BY <1>1, <2>1, <2>2 DEF Handlers
  <2>4. FrameOK'
    BY <2>2, <2>3 DEF FrameOK
  <2> QED BY <1>1, <2>2, <2>3, <2>4, DriveResultType
<1>7. CASE ExtendFrontier
  <2> DEFINE r == EnsureReviewFrontier(state)
  <2>1. handler.round + 1 \in 0..MaxRounds /\ UNCHANGED calls
    BY <1>3, <1>7 DEF ExtendFrontier, Working, AtRound
  <2>2. CASE ~r.ok
    BY <1>1, <1>7, <2>1, <2>2, DriveResultType DEF ExtendFrontier, Persist, Return
  <2>3. CASE r.ok /\ r.spawned
    <3>1. /\ state' = r.state /\ r.state.n <= MaxTasks
          /\ handler' = DriveFrame(handler.round + 1)
      BY <1>7, <2>3 DEF ExtendFrontier, Persist
    <3>2. Follows(state, r.state)
      BY <1>1, <3>1, EnsureReviewFrontierType
    <3> QED BY <2>1, <3>1, <3>2, DriveResultType
  <2>4. CASE r.ok /\ ~r.spawned
    <3> DEFINE h == [r.state EXCEPT !.status = FrontierIdleStatus(r.state)]
    <3>1. state' = h /\ h.n <= MaxTasks /\ handler' = NoHandler
      BY <1>7, <2>4 DEF ExtendFrontier, Persist, Return
    <3>2. h.n = r.state.n
      <4> HIDE DEF r
      <4> QED OBVIOUS
    <3>3. r.state \in GoalStates
      BY <1>1, <3>1, <3>2, EnsureReviewFrontierType DEF Follows
    <3>4. FrontierIdleStatus(r.state) \in GoalStatus \ {"Cancelled"}
      <4> HIDE DEF r
      <4> QED BY StoppedStatusType DEF FrontierIdleStatus, GoalStatus, Terminal
    <3>5. Follows(state, h)
      <4> HIDE DEF r
      <4> QED BY <3>3, <3>4 DEF GoalStates, Follows
    <3> QED BY <2>1, <3>1, <3>5, DriveResultType
  <2> HIDE DEF r
  <2> QED BY <2>2, <2>3, <2>4
<1>8. CASE FrontierLimit
  <2>1. Follows(state, [state EXCEPT !.status = "Blocked"])
    BY <1>1 DEF GoalStates, GoalStatus, Follows
  <2> QED
    BY <1>8, <2>1, DriveResultType DEF FrontierLimit, AtRound, Persist, Return
<1>9. CASE EndRound
  <2>1. handler.round + 1 \in 0..MaxRounds
    BY <1>1, <1>3, <1>9 DEF EndRound, InRound, FrameOK
  <2> QED BY <1>1, <1>9, <2>1, DriveResultType DEF EndRound, InRound
<1>10. CASE DispatchTask
  <2>1. PICK t \in handler.left :
        \/ Persist(state) /\ Return
        \/ Persist(RequestApproval(state, t)) /\ Return
        \/ /\ Persist(MarkRunning(state, t))
           /\ Project([handler EXCEPT !.pc = "running", !.task = t, !.left = @ \ {t}])
    BY <1>10 DEF DispatchTask
  <2>2. t \in Tasks /\ handler.left \ {t} \in SUBSET Tasks
    BY <1>1 DEF Handlers
  <2>3. handler.pc = "tasks" /\ UNCHANGED calls
    BY <1>10 DEF DispatchTask, InRound
  <2>4. Follows(state, state') /\ state'.n <= MaxTasks
    BY <1>1, <2>1, <2>2, RequestApprovalType, MarkRunningType DEF Persist
  <2>5. handler' = NoHandler \/
        handler' = [handler EXCEPT !.pc = "running", !.task = t, !.left = @ \ {t}]
    BY <2>1 DEF Project, Return
  <2>6. ASSUME handler' = [handler EXCEPT !.pc = "running", !.task = t,
                                          !.left = @ \ {t}]
        PROVE  handler' \in Handlers /\ FrameOK'
    <3>1. /\ handler' \in Handlers /\ handler'.pc = "running"
          /\ handler'.round = handler.round /\ handler'.task = t
      BY <1>1, <2>2, <2>6 DEF Handlers
    <3> QED BY <1>1, <2>2, <2>3, <3>1 DEF FrameOK
  <2> QED BY <2>3, <2>4, <2>5, <2>6, DriveResultType
<1>11. CASE WorkerAnswers
  <2>1. handler.pc = "running" /\ UNCHANGED calls
    BY <1>11 DEF WorkerAnswers
  <2>2. PICK o \in Outcomes :
        \/ Persist(state) /\ Return
        \/ /\ Persist(ApplyAgentResult(state, handler.task, o))
           /\ handler' = [handler EXCEPT !.pc = "validating", !.answer = o]
    BY <1>11 DEF WorkerAnswers
  <2>3. handler.task \in Tasks /\ o \in Outcome
    BY <1>1, <2>1, WorkflowConstantsOK DEF FrameOK
  <2>4. Follows(state, state') /\ state'.n <= MaxTasks
    BY <1>1, <2>2, <2>3, ApplyAgentResultType DEF Persist
  <2>5. ASSUME handler' = [handler EXCEPT !.pc = "validating", !.answer = o]
        PROVE  handler' \in Handlers /\ FrameOK'
    <3>1. /\ handler' \in Handlers /\ handler'.pc = "validating"
          /\ handler'.round = handler.round /\ handler'.task = handler.task
          /\ handler'.answer = o
      BY <1>1, <2>5 DEF Handlers
    <3> QED BY <1>1, <2>1, <3>1 DEF FrameOK
  <2> QED BY <2>1, <2>2, <2>4, <2>5, DriveResultType DEF Return
<1>12. CASE ApplyReport
  <2> DEFINE t == handler.task
             o == handler.answer
             g1 == ApplyValidation(state, t, o)
             g2 == IF o.status = "TimedOut" THEN RecordTimeout(g1, t) ELSE g1
             frame == [handler EXCEPT !.pc = "tasks", !.task = NoTask,
                                      !.answer = NoAnswer]
  <2>1. handler.pc = "validating" /\ UNCHANGED calls
    BY <1>12 DEF ApplyReport
  <2>2. \/ Persist(state) /\ Return
        \/ Persist(EnsureReviewFrontier(g2).state) /\ Project(frame)
    BY <1>12 DEF ApplyReport
  <2>3. t \in Tasks /\ o \in Outcome
    BY <1>1, <2>1, WorkflowConstantsOK DEF FrameOK
  <2>4. Follows(state, g2)
    <3>1. Follows(state, g1)
      BY <1>1, <2>3, ApplyValidationType
    <3> HIDE DEF g1
    <3>2. g1 \in GoalStates
      BY <3>1 DEF Follows
    <3>3. Follows(g1, RecordTimeout(g1, t))
      BY <2>3, <3>2, RecordTimeoutType
    <3> QED BY <3>1, <3>3, FollowsTrans
  <2>5. Follows(state, state') /\ state'.n <= MaxTasks
    <3> HIDE DEF g2
    <3>1. g2 \in GoalStates
      BY <2>4 DEF Follows
    <3>2. \/ state' = state /\ state.n <= MaxTasks
          \/ /\ state' = EnsureReviewFrontier(g2).state
             /\ EnsureReviewFrontier(g2).state.n <= MaxTasks
      BY <2>2 DEF Persist
    <3> QED BY <1>1, <2>4, <3>1, <3>2, EnsureReviewFrontierType, FollowsTrans
  <2>6. handler' = NoHandler \/ handler' = frame
    BY <2>2 DEF Project, Return
  <2>7. ASSUME handler' = frame
        PROVE  handler' \in Handlers /\ FrameOK'
    <3>1. /\ handler' \in Handlers /\ handler'.pc = "tasks"
          /\ handler'.round = handler.round
      BY <1>1, <2>7 DEF Handlers
    <3> QED BY <1>1, <2>1, <3>1 DEF FrameOK
  <2> QED BY <2>1, <2>5, <2>6, <2>7, DriveResultType
<1> QED
  BY <1>4, <1>5, <1>6, <1>7, <1>8, <1>9, <1>10, <1>11, <1>12 DEF DriveStep

LEMMA TypeInvNext ==
  ASSUME TypeInv, [Next]_vars
  PROVE  TypeInv'
<1>1. CASE ControlHandlers
  BY <1>1, ControlHandlersType
<1>2. CASE DriveStep
  BY <1>2, DriveStepType
<1>3. CASE UNCHANGED vars
  BY <1>3 DEF vars, TypeInv, TypeOK, FrameOK
<1> QED
  BY <1>1, <1>2, <1>3 DEF Next, Quiescent

\* The stored goal, the handler's frame and the call count keep their types,
\* for any size of the task pool and any policy.
THEOREM TypeCorrect == Spec => []TypeOK
<1>1. TypeInv => TypeOK
  BY DEF TypeInv
<1> QED
  BY TypeInvInit, TypeInvNext, <1>1, PTL DEF Spec
-----------------------------------------------------------------------------
(* A cancelled goal.  What must be known of the frame for the induction: a   *)
(* goal can only be found cancelled between handlers or by a `run` that has  *)
(* not entered a round yet.                                                  *)

Quiet(g) == /\ \A t \in Tasks : ~Open(g, t)
            /\ \A w \in g.approvals \cup g.thunks : w.status # "Pending"

CancelInv == state.status = "Cancelled" =>
    Quiet(state) /\ handler.pc \in {"idle", "drive"} /\ handler.round = 0

LEMMA RetireQuiet ==
  ASSUME NEW ts, NEW ws, \A w \in ws : w.task \in ts /\ w \in Approval \cup Thunk
  PROVE  \A w \in Retire(ws, ts) : w.status # "Pending"
<1> SUFFICES ASSUME NEW v \in Retire(ws, ts) PROVE v.status # "Pending"
  OBVIOUS
<1>1. PICK w \in ws : v = IF w.task \in ts /\ w.status = "Pending"
                          THEN [w EXCEPT !.status = "Cancelled"] ELSE w
  BY DEF Retire
<1>2. [w EXCEPT !.status = "Cancelled"].status = "Cancelled"
  BY DEF Approval, Thunk
<1> QED BY <1>1, <1>2

LEMMA CancelQuiet ==
  ASSUME NEW g \in GoalStates
  PROVE  Quiet(Cancel(g))
<1> DEFINE everyone == Tasks \cup {NoTask}
<1>1. g.approvals \in SUBSET Approval /\ g.thunks \in SUBSET Thunk
  BY DEF GoalStates
<1>2. \A w \in Retire(g.approvals, everyone) : w.status # "Pending"
  <2>1. \A w \in g.approvals : w.task \in everyone
    BY <1>1 DEF Approval
  <2> QED BY <1>1, <2>1, RetireQuiet
<1>3. \A w \in Retire(g.thunks, everyone) : w.status # "Pending"
  <2>1. \A w \in g.thunks : w.task \in everyone
    BY <1>1 DEF Thunk
  <2> QED BY <1>1, <2>1, RetireQuiet
<1>4. /\ Cancel(g).approvals = Retire(g.approvals, everyone)
      /\ Cancel(g).thunks = Retire(g.thunks, everyone)
      /\ Cancel(g).st = Put(g.st, OpenTasks(g), "Cancelled")
  BY DEF Cancel, GoalStates
<1>5. \A t \in Tasks : ~Open(Cancel(g), t)
  BY <1>4 DEF Put, OpenTasks, Open, Terminal
<1> QED
  BY <1>2, <1>3, <1>4, <1>5 DEF Quiet

LEMMA SteerCancelQuiet ==
  ASSUME NEW g \in GoalStates, NEW d \in Directive, d.kind = "cancel"
  PROVE  Quiet(ApplySteering(g, d))
<1>1. ApplySteering(g, d) = [Cancel(g) EXCEPT !.steers = @ + 1]
  BY DEF ApplySteering
<1>2. Cancel(g) \in GoalStates /\ Quiet(Cancel(g))
  BY CancelType, CancelQuiet
<1>3. \A h \in GoalStates : LET k == [h EXCEPT !.steers = @ + 1]
                            IN  /\ k.st = h.st /\ k.approvals = h.approvals
                                /\ k.thunks = h.thunks
  BY DEF GoalStates
<1> QED BY <1>1, <1>2, <1>3 DEF Quiet, Open

LEMMA IdleFrame == NoHandler.round = 0 /\ DriveFrame(0).round = 0
                   /\ NoHandler.pc = "idle" /\ DriveFrame(0).pc = "drive"
  BY DEF NoHandler, DriveFrame

LEMMA CancelInvNext ==
  ASSUME MaxRounds > 0, TypeInv, CancelInv, [Next]_vars
  PROVE  CancelInv' /\ (state.status = "Cancelled" => state' = state)
<1>1. state \in GoalStates
  BY DEF TypeInv, TypeOK
<1>2. CASE UNCHANGED vars
  BY <1>2 DEF vars, CancelInv, Quiet, Open
<1>3. CASE state.status = "Cancelled" /\ Next
  <2>1. /\ handler.pc \in {"idle", "drive"} /\ handler.round = 0
        /\ handler.round < MaxRounds /\ handler.round # MaxRounds /\ Stops
    BY <1>3, WorkflowConstantsOK DEF CancelInv, Stops
  <2>2. Run \/ DriveStops \/ UNCHANGED vars
    BY <1>3, <2>1 DEF Next, ControlHandlers, CancelGoal, Steer, Approve, Restart,
       ResumeDelayedThunk, CreateDelayedThunk, AcceptsControl, DriveStep,
       BudgetExhausted, SnapshotFrontier, ExtendFrontier, FrontierLimit, EndRound,
       DispatchTask, WorkerAnswers, ApplyReport, Working, AtRound, InRound, Quiescent
  <2>3. state' = state /\ handler' \in {NoHandler, DriveFrame(0), handler}
    BY <2>2 DEF Run, Control, Project, DriveStops, Persist, Return, vars
  <2> QED
    BY <1>3, <2>1, <2>3, IdleFrame DEF CancelInv
<1>4. CASE state.status # "Cancelled" /\ Next
  <2> SUFFICES ASSUME state'.status = "Cancelled"
               PROVE  Quiet(state') /\ handler' = NoHandler
    BY <1>4, IdleFrame DEF CancelInv
  <2>1. ~Follows(state, state')
    BY <1>4 DEF Follows
  <2>2. ~DriveStep
    BY <2>1, DriveStepType
  <2>3. ~Quiescent
    BY <1>4 DEF Quiescent, vars
  <2>4. ASSUME NEW g, NEW drives, Control(g, drives) PROVE ~Follows(state, g)
    BY <2>1, <2>4 DEF Control, Persist
  <2>5. ~Run /\ ~Approve /\ ~Restart /\ ~ResumeDelayedThunk /\ ~CreateDelayedThunk
    <3>1. ~Run
      BY <1>1, <2>4 DEF Run, Follows
    <3>2. ~Approve
      BY <1>1, <2>4, ApplyHumanApprovalType DEF Approve
    <3>3. ~Restart
      BY <1>1, <2>4, ApplyRestartType DEF Restart
    <3>4. ~ResumeDelayedThunk
      BY <1>1, <2>4, ResumeThunkType DEF ResumeDelayedThunk
    <3>5. ~CreateDelayedThunk
      BY <1>1, <2>4, CreateThunkType DEF CreateDelayedThunk
    <3> QED BY <3>1, <3>2, <3>3, <3>4, <3>5
  <2>6. CancelGoal \/ Steer
    BY <1>4, <2>2, <2>3, <2>5 DEF Next, ControlHandlers
  <2>7. CASE CancelGoal
    <3>1. state' = Cancel(state) /\ handler' = NoHandler
      BY <2>7 DEF CancelGoal, Control, Persist, Return
    <3> QED BY <1>1, <3>1, CancelQuiet
  <2>8. CASE Steer
    <3>1. PICK d \in Directives :
            Control(ApplySteering(state, d), d.kind \in SteeringDrives)
      BY <2>8 DEF Steer
    <3>2. d \in Directive
      BY WorkflowConstantsOK
    <3>3. d.kind = "cancel"
      BY <1>1, <2>4, <3>1, <3>2, ApplySteeringType
    <3>4. state' = ApplySteering(state, d) /\ handler' = NoHandler
      BY <3>1, <3>3 DEF Control, Persist, Return, SteeringDrives
    <3> QED BY <1>1, <3>2, <3>3, <3>4, SteerCancelQuiet
  <2> QED BY <2>6, <2>7, <2>8
<1> QED
  BY <1>2, <1>3, <1>4

LEMMA CancelInvInit == Init => CancelInv
<1> SUFFICES ASSUME Init PROVE CancelInv
  OBVIOUS
<1>1. state.status = "Running"
  BY DEF Init, NewGoal
<1> QED BY <1>1 DEF CancelInv

\* A cancelled goal has no open task and no pending approval or thunk, whatever
\* handlers ran before and run after the cancellation, as long as drive_state
\* has at least one round.
THEOREM CancelledQuiet ==
  ASSUME MaxRounds > 0
  PROVE  Spec => []CancelledGoalIsQuiet
<1>1. CancelInv => CancelledGoalIsQuiet
  BY DEF CancelInv, CancelledGoalIsQuiet, Quiet
<1>2. TypeInv /\ CancelInv /\ [Next]_vars => CancelInv'
  BY CancelInvNext
<1>3. TypeInv /\ [Next]_vars => TypeInv'
  BY TypeInvNext
<1> QED
  BY TypeInvInit, CancelInvInit, <1>1, <1>2, <1>3, PTL DEF Spec

\* No step changes a cancelled goal, as long as drive_state has a round.
THEOREM CancelledFinal ==
  ASSUME MaxRounds > 0
  PROVE  Spec => CancelledIsFinal
<1>1. TypeInv /\ CancelInv /\ [Next]_vars =>
          CancelInv' /\ [state.status = "Cancelled" => state' = state]_vars
  BY CancelInvNext
<1>2. TypeInv /\ [Next]_vars => TypeInv'
  BY TypeInvNext
<1> QED
  BY TypeInvInit, CancelInvInit, <1>1, <1>2, PTL DEF Spec, CancelledIsFinal
=============================================================================
