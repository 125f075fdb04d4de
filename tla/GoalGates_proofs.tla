---------------------------- MODULE GoalGates_proofs ----------------------------
(***************************************************************************)
(* Theorems about approvals, waits, dependencies, reviews and views in     *)
(* GoalWorkflow, for every value of its constants.  Three invariants of a  *)
(* goal are carried through every operator of GoalState (ApprovalInv,      *)
(* GateInv and Woken, on top of PoolInv, which says which task ids are in  *)
(* use), together with what the frame of drive_state remembers between two *)
(* awaits (RoundInv).  The reviews need one more (ReviewInv), and what     *)
(* others see of a goal another (ViewInv: Rooted, Unsteered and LeftInv).  *)
(* Last, every step is shown to be a step of GoalLifecycle.                *)
(***************************************************************************)
EXTENDS GoalWorkflow_proofs, GoalViews, FiniteSetTheorems, FunctionTheorems
-----------------------------------------------------------------------------
(* The invariants *)

\* Ids 1..n are in use; an id that is not has no parent and never timed out.
PoolInv(g) == /\ \A t \in Tasks : g.st[t] = "Unborn" <=> g.n < t
              /\ \A t \in Tasks : g.n < t => g.parent[t] = NoTask
              /\ \A t \in g.timedOut : t <= g.n

Current(g, a) == /\ a.attempt = g.attempts[a.task] + 1
                 /\ g.st[a.task] \in {"Runnable", "WaitingApproval",
                                      "WaitingInput", "Blocked"}

\* A pending approval is current, and no attempt is asked about twice.
ApprovalInv(g) ==
    /\ \A a \in g.approvals : a.status = "Pending" => Current(g, a)
    /\ \A a, b \in g.approvals :
          a.status = "Pending" /\ b.status = "Approved" =>
              ~(a.task = b.task /\ a.attempt = b.attempt)

ApprovedNow(g, t) == \E a \in g.approvals : /\ a.task = t /\ a.status = "Approved"
                                            /\ a.attempt = g.attempts[t]
GateInv(g) == \A t \in Gated :
    g.st[t] \in {"Running", "NeedsValidation"} => ApprovedNow(g, t)

Waker(g, t) == PendingFor(g.thunks, t) \/ \E c \in Tasks : g.parent[c] = t
Woken(g, t) ==
    /\ g.st[t] = "WaitingApproval" =>
          PendingFor(g.approvals, t) \/ PendingFor(g.thunks, t)
    /\ g.st[t] = "WaitingInput" => Waker(g, t)

\* All but Woken, which an answer of a worker breaks and restores in one step.
GoalInv(g) == PoolInv(g) /\ ApprovalInv(g) /\ GateInv(g)
AllWoken(g) == \A t \in Tasks : Woken(g, t)

\* Inside a round the tasks that are left keep finished dependencies, and the
\* task in hand is what its last step made it.
RoundInv ==
    /\ handler.pc \in {"tasks", "running", "validating"} =>
          \A t \in handler.left : /\ t <= state.n
                                  /\ \A d \in state.deps[t] : state.st[d] = "Done"
    /\ handler.pc = "running" => state.st[handler.task] = "Running"
    /\ handler.pc = "validating" =>
          /\ ~PendingFor(state.approvals, handler.task)
          /\ handler.answer.status = "Waiting" => Waker(state, handler.task)

GatesInv == GoalInv(state) /\ AllWoken(state) /\ RoundInv
-----------------------------------------------------------------------------
(* What a step of drive_state may do to the rest of the pool: no finished    *)
(* task is reopened, no dependency of an existing task changes, and nothing  *)
(* but mark_running starts a task.                                           *)

Grows(g, h) == /\ g.n <= h.n
               /\ \A t \in Tasks : g.st[t] = "Done" => h.st[t] = "Done"
               /\ \A t \in Tasks : t <= g.n => h.deps[t] = g.deps[t]
NoStart(g, h) == \A t \in Tasks : h.st[t] = "Running" => g.st[t] = "Running"

LEMMA GrowsTrans ==
  ASSUME NEW g \in GoalStates, NEW h \in GoalStates, NEW k \in GoalStates,
         Grows(g, h), Grows(h, k)
  PROVE  Grows(g, k)
<1>1. g.n \in Nat /\ h.n \in Nat /\ k.n \in Nat
  BY DEF GoalStates
<1> QED BY <1>1 DEF Grows, Tasks

LEMMA NoStartTrans ==
  ASSUME NEW g, NEW h, NEW k, NoStart(g, h), NoStart(h, k)
  PROVE  NoStart(g, k)
  BY DEF NoStart

\* h differs from g at most in what the invariants do not mention.
Kept(g, h) == /\ h.n = g.n /\ h.st = g.st /\ h.attempts = g.attempts
              /\ h.parent = g.parent /\ h.deps = g.deps
              /\ h.approvals = g.approvals /\ h.thunks = g.thunks
              /\ h.timedOut = g.timedOut

LEMMA KeptInv ==
  ASSUME NEW g \in GoalStates, NEW h \in GoalStates, Kept(g, h)
  PROVE  /\ GoalInv(g) => GoalInv(h)
         /\ \A t \in Tasks : Woken(g, t) => Woken(h, t)
         /\ \A t \in Tasks : Waker(g, t) => Waker(h, t)
         /\ Grows(g, h) /\ NoStart(g, h)
<1>1. g.n \in Nat
  BY DEF GoalStates
<1> QED
  BY <1>1 DEF Kept, GoalInv, PoolInv, ApprovalInv, Current, GateInv, ApprovedNow,
     Woken, Waker, Grows, NoStart

LEMMA RefreshKept ==
  ASSUME NEW g \in GoalStates
  PROVE  Kept(g, RefreshGoalStatus(g)) /\ RefreshGoalStatus(g) \in GoalStates
<1>1. RefreshGoalStatus(g) \in GoalStates
  BY RefreshType DEF Follows
<1>2. Kept(g, RefreshGoalStatus(g))
  BY DEF RefreshGoalStatus, GoalStates, Kept
<1> QED BY <1>1, <1>2

\* The invariants survive a refresh, so they are shown for what is refreshed.
LEMMA RefreshInv ==
  ASSUME NEW g \in GoalStates
  PROVE  /\ RefreshGoalStatus(g) \in GoalStates
         /\ GoalInv(g) => GoalInv(RefreshGoalStatus(g))
         /\ AllWoken(g) => AllWoken(RefreshGoalStatus(g))
         /\ \A t \in Tasks : Waker(g, t) => Waker(RefreshGoalStatus(g), t)
         /\ Grows(g, RefreshGoalStatus(g)) /\ NoStart(g, RefreshGoalStatus(g))
         /\ RefreshGoalStatus(g).approvals = g.approvals
  BY RefreshKept, KeptInv DEF AllWoken, Kept
-----------------------------------------------------------------------------
(* Operators of GoalState that change tasks *)

LEMMA InsertFields ==
  ASSUME NEW g \in GoalStates, NEW p, NEW k, NEW pu, NEW ds, NEW gd
  PROVE  LET h == InsertChildren(g, p, k, pu, ds, gd)
         IN  /\ h.n = g.n + k
             /\ h.st = Put(g.st, NextIds(g, k), "Runnable")
             /\ h.parent = Put(g.parent, NextIds(g, k), p)
             /\ h.deps = Put(g.deps, NextIds(g, k), ds)
             /\ h.attempts = g.attempts /\ h.approvals = g.approvals
             /\ h.thunks = g.thunks /\ h.timedOut = g.timedOut
  BY DEF InsertChildren, GoalStates

\* What k children of p do to a goal: nothing to the tasks there are, and p has
\* something to wait for.
Inserted(g, h, p, k) ==
    /\ GoalInv(h) /\ Grows(g, h) /\ NoStart(g, h)
    /\ \A t \in Tasks : Woken(g, t) => Woken(h, t)
    /\ \A t \in Tasks : Waker(g, t) => Waker(h, t)
    /\ \A t \in Tasks : g.st[t] # "Unborn" => h.st[t] = g.st[t]
    /\ k > 0 /\ g.n < MaxTasks => Waker(h, p)
    /\ h.n = g.n + k /\ h.approvals = g.approvals

LEMMA InsertInv ==
  ASSUME NEW g \in GoalStates, NEW p, NEW k \in Nat, NEW pu, NEW ds, NEW gd,
         GoalInv(g)
  PROVE  Inserted(g, InsertChildren(g, p, k, pu, ds, gd), p, k)
<1> DEFINE h == InsertChildren(g, p, k, pu, ds, gd)
           ids == NextIds(g, k)
<1>1. /\ h.n = g.n + k /\ h.attempts = g.attempts /\ h.approvals = g.approvals
      /\ h.thunks = g.thunks /\ h.timedOut = g.timedOut
  BY InsertFields
<1>2. \A t \in Tasks : /\ h.st[t] = IF t \in ids THEN "Runnable" ELSE g.st[t]
                       /\ h.parent[t] = IF t \in ids THEN p ELSE g.parent[t]
                       /\ h.deps[t] = IF t \in ids THEN ds ELSE g.deps[t]
  <2>1. /\ h.st = Put(g.st, ids, "Runnable") /\ h.parent = Put(g.parent, ids, p)
        /\ h.deps = Put(g.deps, ids, ds)
    BY InsertFields
  <2> HIDE DEF h, ids
  <2> QED BY <2>1 DEF Put
<1>3. \A t \in Tasks : t \in ids <=> g.n < t /\ t <= g.n + k
  BY DEF NextIds
<1>4. g.n \in Nat /\ \A t \in Tasks : t \in Nat /\ t # NoTask
  BY DEF GoalStates, Tasks, NoTask
<1>5. PoolInv(g) /\ ApprovalInv(g) /\ GateInv(g)
  BY DEF GoalInv
<1>6. g.approvals \in SUBSET Approval
  BY DEF GoalStates
<1> HIDE DEF h, ids
<1>7. PoolInv(h)
  <2>1. \A t \in g.timedOut : t \in Tasks
    BY DEF GoalStates
  <2> QED BY <1>1, <1>2, <1>3, <1>4, <1>5, <2>1 DEF PoolInv
<1>8. ApprovalInv(h)
  <2>1. \A a \in g.approvals : a.task \in Tasks
    BY <1>6 DEF Approval
  <2>2. \A a \in g.approvals : a.status = "Pending" => a.task \notin ids
    BY <1>3, <1>4, <1>5, <2>1 DEF PoolInv, ApprovalInv, Current
  <2> QED BY <1>1, <1>2, <1>5, <2>1, <2>2 DEF ApprovalInv, Current
<1>9. GateInv(h)
  BY <1>1, <1>2, <1>5, ConstantsOK DEF GateInv, ApprovedNow
<1>10. Grows(g, h) /\ NoStart(g, h)
  BY <1>1, <1>2, <1>3, <1>4, <1>5 DEF Grows, NoStart, PoolInv
<1>11. \A t \in Tasks : Waker(g, t) => Waker(h, t)
  BY <1>1, <1>2, <1>3, <1>4, <1>5 DEF Waker, PoolInv
<1>12. \A t \in Tasks : Woken(g, t) => Woken(h, t)
  BY <1>1, <1>2, <1>11 DEF Woken
<1>14. \A t \in Tasks : g.st[t] # "Unborn" => h.st[t] = g.st[t]
  BY <1>2, <1>3, <1>4, <1>5 DEF PoolInv
<1>13. ASSUME k > 0, g.n < MaxTasks PROVE Waker(h, p)
  <2>1. g.n + 1 \in Tasks /\ g.n + 1 \in ids
    BY <1>3, <1>4, <1>13, ConstantsOK DEF Tasks
  <2> QED BY <1>2, <2>1 DEF Waker
<1> QED
  BY <1>1, <1>7, <1>8, <1>9, <1>10, <1>11, <1>12, <1>13, <1>14 DEF GoalInv, Inserted, h

\* One task changes its status, and neither to Running nor to a wait.
LEMMA SetStatusInv ==
  ASSUME NEW g \in GoalStates, NEW h \in GoalStates, NEW t \in Tasks, NEW s,
         h.st = [g.st EXCEPT ![t] = s], g.st[t] # "Unborn", s # "Unborn",
         s = "NeedsValidation" => g.st[t] = "Running",
         s # "Running",
         PendingFor(g.approvals, t) =>
            s \in {"Runnable", "WaitingApproval", "WaitingInput", "Blocked"},
         h.n = g.n, h.attempts = g.attempts, h.parent = g.parent,
         h.deps = g.deps, h.approvals = g.approvals, h.timedOut = g.timedOut,
         GoalInv(g)
  PROVE  /\ GoalInv(h) /\ NoStart(g, h)
         /\ g.st[t] # "Done" => Grows(g, h)
         /\ h.thunks = g.thunks => 
              /\ \A u \in Tasks : Waker(g, u) => Waker(h, u)
              /\ \A u \in Tasks \ {t} : Woken(g, u) => Woken(h, u)
              /\ s \notin {"WaitingApproval", "WaitingInput"} => Woken(h, t)
<1>1. \A u \in Tasks : h.st[u] = IF u = t THEN s ELSE g.st[u]
  BY DEF GoalStates
<1>2. \A a \in g.approvals : a.task \in Tasks
  BY DEF GoalStates, Approval
<1>3. g.n \in Nat
  BY DEF GoalStates
<1>4. PoolInv(h)
  BY <1>1 DEF GoalInv, PoolInv
<1>5. ApprovalInv(h)
  BY <1>1, <1>2 DEF GoalInv, ApprovalInv, Current, PendingFor
<1>6. GateInv(h)
  BY <1>1, ConstantsOK DEF GoalInv, GateInv, ApprovedNow
<1>7. NoStart(g, h) /\ (g.st[t] # "Done" => Grows(g, h))
  BY <1>1, <1>3 DEF NoStart, Grows
<1>8. ASSUME h.thunks = g.thunks
      PROVE  /\ \A u \in Tasks : Waker(g, u) => Waker(h, u)
             /\ \A u \in Tasks \ {t} : Woken(g, u) => Woken(h, u)
             /\ s \notin {"WaitingApproval", "WaitingInput"} => Woken(h, t)
  BY <1>1, <1>8 DEF Waker, Woken
<1> QED BY <1>4, <1>5, <1>6, <1>7, <1>8 DEF GoalInv

LEMMA RequestApprovalInv ==
  ASSUME NEW g \in GoalStates, NEW t \in Tasks, GoalInv(g), AllWoken(g),
         Open(g, t), MustWaitForApproval(g, t)
  PROVE  LET h == RequestApproval(g, t)
         IN  GoalInv(h) /\ AllWoken(h) /\ NoStart(g, h)
<1> DEFINE a == [task |-> t, status |-> "Pending", attempt |-> g.attempts[t] + 1]
           st == [g.st EXCEPT ![t] = "WaitingApproval"]
           k == [g EXCEPT !.st = st, !.approvals = g.approvals \cup {a}]
<1>1. RequestApproval(g, t) = RefreshGoalStatus(k)
  BY DEF RequestApproval
<1>2. a \in Approval
  BY DEF Approval, GoalStates
<1>3. st \in [Tasks -> TaskStatus \cup {"Unborn"}]
  BY DEF GoalStates, TaskStatus
<1>4. /\ k \in GoalStates /\ k.n = g.n /\ k.attempts = g.attempts
      /\ k.parent = g.parent /\ k.thunks = g.thunks /\ k.timedOut = g.timedOut
      /\ k.approvals = g.approvals \cup {a} /\ k.st = st
  <2> HIDE DEF a, st
  <2> QED BY <1>2, <1>3 DEF GoalStates
<1>5. \A u \in Tasks : k.st[u] = IF u = t THEN "WaitingApproval" ELSE g.st[u]
  <2>1. k.st = [g.st EXCEPT ![t] = "WaitingApproval"]
    BY <1>4
  <2> HIDE DEF a, st, k
  <2> QED BY <2>1 DEF GoalStates
<1>6. a.task = t /\ a.status = "Pending" /\ a.attempt = g.attempts[t] + 1
  OBVIOUS
<1>7. \A b \in g.approvals : b.task \in Tasks
  BY DEF GoalStates, Approval
<1> HIDE DEF a, st, k
<1>8. PoolInv(k)
  BY <1>4, <1>5 DEF GoalInv, PoolInv, Open
<1>9. ApprovalInv(k)
  <2>1. ASSUME NEW b \in g.approvals, b.status = "Approved"
        PROVE  ~(a.task = b.task /\ a.attempt = b.attempt)
    BY <1>6, <2>1 DEF MustWaitForApproval, Asked
  <2>2. \A b \in k.approvals : b = a \/ b \in g.approvals
    BY <1>4
  <2>3. ASSUME NEW b \in k.approvals, b.status = "Pending" PROVE Current(k, b)
    BY <1>4, <1>5, <1>6, <1>7, <2>2, <2>3 DEF GoalInv, ApprovalInv, Current
  <2>4. ASSUME NEW b \in k.approvals, NEW c \in k.approvals,
               b.status = "Pending", c.status = "Approved"
        PROVE  ~(b.task = c.task /\ b.attempt = c.attempt)
    BY <1>6, <2>1, <2>2, <2>4 DEF GoalInv, ApprovalInv
  <2> QED BY <2>3, <2>4 DEF ApprovalInv
<1>10. GateInv(k)
  BY <1>4, <1>5, ConstantsOK DEF GoalInv, GateInv, ApprovedNow
<1>11. AllWoken(k)
  <2>1. PendingFor(k.approvals, t)
    BY <1>4, <1>6 DEF PendingFor
  <2>2. \A u \in Tasks : PendingFor(g.approvals, u) => PendingFor(k.approvals, u)
    BY <1>4 DEF PendingFor
  <2> QED BY <1>4, <1>5, <2>1, <2>2 DEF AllWoken, Woken, Waker
<1>12. NoStart(g, k)
  BY <1>5 DEF NoStart
<1> QED
  BY <1>1, <1>4, <1>8, <1>9, <1>10, <1>11, <1>12, RefreshInv, NoStartTrans DEF GoalInv

\* mark_running, for a task that needs no approval or has one for this attempt.
LEMMA MarkRunningInv ==
  ASSUME NEW g \in GoalStates, NEW t \in Tasks, GoalInv(g), AllWoken(g),
         MarkRunningOk(g, t), ~MustWaitForApproval(g, t), ~AttemptRejected(g, t)
  PROVE  LET h == MarkRunning(g, t)
         IN  /\ GoalInv(h) /\ AllWoken(h) /\ Grows(g, h) /\ h.st[t] = "Running"
             /\ \A u \in Tasks \ {t} : h.st[u] = g.st[u]
<1> DEFINE h == MarkRunning(g, t)
<1>1. /\ h.n = g.n /\ h.parent = g.parent /\ h.deps = g.deps
      /\ h.approvals = g.approvals /\ h.thunks = g.thunks /\ h.timedOut = g.timedOut
  BY DEF MarkRunning, GoalStates
<1>2. \A u \in Tasks :
        /\ h.st[u] = IF u = t THEN "Running" ELSE g.st[u]
        /\ h.attempts[u] = IF u = t THEN g.attempts[t] + 1 ELSE g.attempts[u]
  <2>1. /\ h.st = [g.st EXCEPT ![t] = "Running"]
        /\ h.attempts = [g.attempts EXCEPT ![t] = @ + 1]
    BY DEF MarkRunning, GoalStates
  <2> HIDE DEF h
  <2> QED BY <2>1 DEF GoalStates
<1> HIDE DEF h
<1>3. \A a \in g.approvals : a.task \in Tasks
  BY DEF GoalStates, Approval
<1>4. g.st[t] = "Runnable" /\ g.n \in Nat
  BY DEF MarkRunningOk, GoalStates
<1>5. PoolInv(h)
  BY <1>1, <1>2, <1>4 DEF GoalInv, PoolInv
<1>6. ~PendingFor(g.approvals, t)
  <2> SUFFICES ASSUME NEW a \in g.approvals, a.task = t, a.status = "Pending"
               PROVE  FALSE
    BY DEF PendingFor
  <2>1. a.attempt = g.attempts[t] + 1
    BY DEF GoalInv, ApprovalInv, Current
  <2>2. Asked(g, t, "Pending") /\ ~Asked(g, t, "Approved")
    BY <2>1 DEF Asked, GoalInv, ApprovalInv
  <2> QED BY <2>2 DEF MustWaitForApproval
<1>7. ApprovalInv(h)
  BY <1>1, <1>2, <1>3, <1>6 DEF GoalInv, ApprovalInv, Current, PendingFor
<1>8. GateInv(h)
  <2>1. t \in Gated => Asked(g, t, "Approved")
    BY DEF MustWaitForApproval, AttemptRejected
  <2> QED BY <1>1, <1>2, <2>1, ConstantsOK DEF GoalInv, GateInv, ApprovedNow, Asked
<1>9. AllWoken(h)
  BY <1>1, <1>2 DEF AllWoken, Woken, Waker
<1>10. Grows(g, h)
  BY <1>1, <1>2, <1>4 DEF Grows
<1> QED
  BY <1>2, <1>5, <1>7, <1>8, <1>9, <1>10 DEF GoalInv, h

\* Retiring waits settles those of ts that are pending and nothing else.
LEMMA RetireKeeps ==
  ASSUME NEW ws, NEW ts, ws \in SUBSET Approval \/ ws \in SUBSET Thunk
  PROVE  /\ \A w \in Retire(ws, ts) :
              w.status # "Cancelled" => w \in ws /\ (w.status = "Pending" => w.task \notin ts)
         /\ \A w \in ws : w.status # "Pending" \/ w.task \notin ts => w \in Retire(ws, ts)
<1>1. ASSUME NEW w \in Retire(ws, ts), w.status # "Cancelled"
      PROVE  w \in ws /\ (w.status = "Pending" => w.task \notin ts)
  <2>1. PICK v \in ws : w = IF v.task \in ts /\ v.status = "Pending"
                            THEN [v EXCEPT !.status = "Cancelled"] ELSE v
    BY DEF Retire
  <2>2. [v EXCEPT !.status = "Cancelled"].status = "Cancelled"
    BY DEF Approval, Thunk
  <2> QED BY <1>1, <2>1, <2>2
<1>2. ASSUME NEW w \in ws, w.status # "Pending" \/ w.task \notin ts
      PROVE  w \in Retire(ws, ts)
  BY <1>2 DEF Retire
<1> QED BY <1>1, <1>2

\* A step of a control handler moves existing tasks to statuses of waiting or
\* stopped tasks, asks for no new approval and forgets no granted one.
Moves(g, h) ==
    /\ h.n = g.n /\ h.parent = g.parent /\ h.timedOut = g.timedOut
    /\ \A u \in Tasks :
          \/ h.st[u] = g.st[u]
          \/ /\ g.st[u] # "Unborn"
             /\ h.st[u] \in {"Runnable", "WaitingApproval", "WaitingInput",
                             "Blocked", "Cancelled"}
             /\ h.st[u] = "Cancelled" => ~PendingFor(h.approvals, u)
    /\ \A u \in Tasks :
          \/ h.attempts[u] = g.attempts[u]
          \/ h.st[u] = "Runnable" /\ ~PendingFor(h.approvals, u)
    /\ \A a \in h.approvals : a.status = "Pending" => a \in g.approvals
    /\ \A a \in g.approvals : a.status = "Approved" => a \in h.approvals
    /\ \A a, b \in h.approvals :
          /\ a.status = "Pending" /\ b.status = "Approved"
          /\ a.task = b.task /\ a.attempt = b.attempt
          => b \in g.approvals

LEMMA MovesInv ==
  ASSUME NEW g \in GoalStates, NEW h \in GoalStates, GoalInv(g), Moves(g, h)
  PROVE  GoalInv(h) /\ NoStart(g, h)
<1>1. \A a \in g.approvals : a.task \in Tasks
  BY DEF GoalStates, Approval
<1>2. \A a \in h.approvals : a.task \in Tasks
  BY DEF GoalStates, Approval
<1>3. PoolInv(h)
  BY DEF GoalInv, PoolInv, Moves
<1>4. ApprovalInv(h)
  <2>1. ASSUME NEW a \in h.approvals, a.status = "Pending" PROVE Current(h, a)
    <3>1. a \in g.approvals /\ Current(g, a)
      BY <2>1 DEF Moves, GoalInv, ApprovalInv
    <3>2. PendingFor(h.approvals, a.task)
      BY <2>1 DEF PendingFor
    <3>3. h.attempts[a.task] = g.attempts[a.task]
      BY <1>2, <3>2 DEF Moves
    <3>4. \/ h.st[a.task] = g.st[a.task]
          \/ h.st[a.task] \in {"Runnable", "WaitingApproval", "WaitingInput", "Blocked"}
      BY <1>2, <3>2 DEF Moves
    <3> QED BY <3>1, <3>3, <3>4 DEF Current
  <2>2. ASSUME NEW a \in h.approvals, NEW b \in h.approvals,
               a.status = "Pending", b.status = "Approved",
               a.task = b.task, a.attempt = b.attempt
        PROVE  FALSE
    BY <2>2 DEF Moves, GoalInv, ApprovalInv
  <2> QED BY <2>1, <2>2 DEF ApprovalInv
<1>5. GateInv(h)
  <2> SUFFICES ASSUME NEW t \in Gated, h.st[t] \in {"Running", "NeedsValidation"}
               PROVE  ApprovedNow(h, t)
    BY DEF GateInv
  <2>1. t \in Tasks
    BY ConstantsOK
  <2>2. h.st[t] = g.st[t] /\ h.attempts[t] = g.attempts[t]
    BY <2>1 DEF Moves
  <2>3. ApprovedNow(g, t)
    BY <2>2 DEF GoalInv, GateInv
  <2> QED BY <2>2, <2>3 DEF ApprovedNow, Moves
<1>6. NoStart(g, h)
  BY DEF Moves, NoStart
<1> QED BY <1>3, <1>4, <1>5, <1>6 DEF GoalInv

LEMMA ApplyHumanApprovalInv ==
  ASSUME NEW g \in GoalStates, NEW a \in g.approvals, a.status = "Pending",
         NEW approved \in BOOLEAN, GoalInv(g), AllWoken(g)
  PROVE  LET h == ApplyHumanApproval(g, a, approved)
         IN  GoalInv(h) /\ AllWoken(h) /\ NoStart(g, h)
<1> DEFINE answer == IF approved THEN "Approved" ELSE "Rejected"
           b == [a EXCEPT !.status = answer]
           s == IF ~approved THEN "Blocked"
                ELSE IF g.st[a.task] \in {"WaitingApproval", "Blocked"}
                     THEN "Runnable" ELSE g.st[a.task]
           as == (g.approvals \ {a}) \cup {b}
           st == [g.st EXCEPT ![a.task] = s]
           k == [g EXCEPT !.approvals = as, !.st = st]
<1>1. ApplyHumanApproval(g, a, approved) = RefreshGoalStatus(k)
  BY DEF ApplyHumanApproval
<1>2. a \in Approval /\ a.task \in Tasks
  BY DEF GoalStates, Approval
<1>3. b \in Approval /\ b.task = a.task /\ b.attempt = a.attempt /\ b.status = answer
  BY <1>2 DEF Approval
<1>4. g.st[a.task] \in {"Runnable", "WaitingApproval", "WaitingInput", "Blocked"}
  BY DEF GoalInv, ApprovalInv, Current
<1>5. s \in {"Runnable", "WaitingInput", "Blocked"}
      /\ (s = "WaitingInput" => g.st[a.task] = "WaitingInput")
  BY <1>4
<1>6. k \in GoalStates
  <2>1. as \in SUBSET Approval
    BY <1>3 DEF GoalStates
  <2>2. st \in [Tasks -> TaskStatus \cup {"Unborn"}]
    <3> HIDE DEF s
    <3> QED BY <1>5 DEF GoalStates, TaskStatus
  <2> HIDE DEF as, st
  <2> QED BY <2>1, <2>2 DEF GoalStates
<1>7. /\ k.n = g.n /\ k.attempts = g.attempts /\ k.parent = g.parent
      /\ k.thunks = g.thunks /\ k.timedOut = g.timedOut /\ k.approvals = as
  <2> HIDE DEF as, st
  <2> QED BY DEF GoalStates
<1>8. \A u \in Tasks : k.st[u] = IF u = a.task THEN s ELSE g.st[u]
  <2>1. k.st = [g.st EXCEPT ![a.task] = s]
    BY DEF GoalStates
  <2> HIDE DEF k, s
  <2> QED BY <2>1 DEF GoalStates
<1>9. \A c \in as : c = b \/ (c \in g.approvals /\ c # a)
  OBVIOUS
<1>10. b.status # "Pending"
  BY <1>3
<1>11. \A c \in g.approvals : c # a => c \in as
  OBVIOUS
<1> HIDE DEF k, s, as, b, answer, st
\* Two pending requests for one attempt of one task are the same request.
<1>12. \A c \in as : c.status = "Pending" => c # a /\ c \in g.approvals
  BY <1>9, <1>10
<1>13. \A c \in g.approvals : c.status = "Pending" /\ c.task = a.task
                                 /\ c.attempt = a.attempt => c = a
  <2>1. \A c \in Approval :
          c = [task |-> c.task, attempt |-> c.attempt, status |-> c.status]
    BY DEF Approval
  <2>2. g.approvals \subseteq Approval
    BY DEF GoalStates
  <2> QED BY <1>2, <2>1, <2>2
<1>14. Moves(g, k)
  <2>1. ASSUME NEW c \in as, NEW d \in as, c.status = "Pending", d.status = "Approved",
               c.task = d.task, c.attempt = d.attempt
        PROVE  d \in g.approvals
    BY <1>3, <1>9, <1>12, <1>13, <2>1
  <2>2. \A c \in g.approvals : c.status = "Approved" => c \in as
    BY <1>11
  <2> QED
    BY <1>4, <1>5, <1>7, <1>8, <1>12, <2>1, <2>2 DEF Moves
<1>15. AllWoken(k)
  <2>1. \A u \in Tasks \ {a.task} : PendingFor(g.approvals, u) => PendingFor(as, u)
    BY <1>11 DEF PendingFor
  <2> QED BY <1>5, <1>7, <1>8, <2>1 DEF AllWoken, Woken, Waker
<1> QED
  BY <1>1, <1>6, <1>14, <1>15, MovesInv, RefreshInv, NoStartTrans

LEMMA CreateThunkInv ==
  ASSUME NEW g \in GoalStates, NEW t \in Tasks \cup {NoTask},
         NEW kind \in {"approval", "input"}, NEW cont \in Tasks \cup {NoTask},
         GoalInv(g), t \in Tasks => Open(g, t)
  PROVE  LET h == CreateThunk(g, t, kind, cont)
         IN  /\ GoalInv(h) /\ NoStart(g, h) /\ Grows(g, h)
             /\ \A u \in Tasks \ {t} : Woken(g, u) => Woken(h, u)
             /\ \A u \in Tasks : Waker(g, u) => Waker(h, u)
             /\ Waits(g, cont) = {} /\ t \in Tasks => PendingFor(h.thunks, t)
             /\ Waits(g, cont) # {} => h = g
             /\ h.approvals = g.approvals
<1> DEFINE w == [task |-> t, cont |-> cont, kind |-> kind, status |-> "Pending"]
           wait == IF kind = "approval" THEN "WaitingApproval" ELSE "WaitingInput"
           ths == g.thunks \cup {w}
           st == Put(g.st, {t}, wait)
           k == [g EXCEPT !.thunks = ths, !.st = st]
<1>1. CASE Waits(g, cont) # {}
  <2>1. CreateThunk(g, t, kind, cont) = g
    BY <1>1 DEF CreateThunk
  <2>2. Grows(g, g) /\ NoStart(g, g)
    BY DEF Grows, NoStart, GoalStates
  <2> QED BY <1>1, <2>1, <2>2
<1>2. CASE Waits(g, cont) = {}
  <2>1. CreateThunk(g, t, kind, cont) = RefreshGoalStatus(k)
    BY <1>2 DEF CreateThunk
  <2>2. w \in Thunk /\ w.task = t /\ w.status = "Pending"
    BY DEF Thunk
  <2>3. wait \in {"WaitingApproval", "WaitingInput"}
    OBVIOUS
  <2>4. st \in [Tasks -> TaskStatus \cup {"Unborn"}]
    BY PutType DEF GoalStates, TaskStatus
  <2>5. ths \in SUBSET Thunk
    BY <2>2 DEF GoalStates
  <2>6. /\ k \in GoalStates /\ k.n = g.n /\ k.attempts = g.attempts
        /\ k.parent = g.parent /\ k.deps = g.deps /\ k.timedOut = g.timedOut
        /\ k.approvals = g.approvals /\ k.thunks = ths /\ k.st = st
    <3> HIDE DEF ths, st
    <3> QED BY <2>4, <2>5 DEF GoalStates
  <2> HIDE DEF w, wait
  <2>7. \A u \in Tasks : st[u] = IF u = t THEN wait ELSE g.st[u]
    BY DEF Put
  <2>8. /\ \A u \in Tasks : PendingFor(g.thunks, u) => PendingFor(ths, u)
        /\ PendingFor(ths, t)
    BY <2>2 DEF PendingFor
  <2> HIDE DEF ths, st, k
  <2>9. \A a \in g.approvals : a.task \in Tasks
    BY DEF GoalStates, Approval
  <2>10. Moves(g, k)
    <3>1. \A u \in Tasks : u = t => g.st[u] # "Unborn"
      BY DEF Open
    <3>2. \A u \in Tasks : wait # "Cancelled"
      BY <2>3
    <3> QED BY <2>3, <2>6, <2>7, <3>1, <3>2 DEF Moves
  <2>11. Grows(g, k)
    <3>1. g.n \in Nat
      BY DEF GoalStates
    <3>2. \A u \in Tasks : u = t => g.st[u] # "Done"
      BY DEF Open, Terminal
    <3> QED BY <2>6, <2>7, <3>1, <3>2 DEF Grows
  <2>12. /\ \A u \in Tasks \ {t} : Woken(g, u) => Woken(k, u)
         /\ \A u \in Tasks : Waker(g, u) => Waker(k, u)
    BY <2>6, <2>7, <2>8 DEF Woken, Waker
  <2>13. GoalInv(k) /\ NoStart(g, k)
    BY <2>6, <2>10, MovesInv
  <2>14. LET h == RefreshGoalStatus(k)
         IN  /\ Kept(k, h) /\ h \in GoalStates
             /\ GoalInv(h) /\ NoStart(g, h) /\ Grows(g, h)
             /\ \A u \in Tasks : Woken(k, u) => Woken(h, u)
             /\ \A u \in Tasks : Waker(k, u) => Waker(h, u)
    BY <2>6, <2>11, <2>13, RefreshKept, KeptInv, NoStartTrans, GrowsTrans
  <2> QED BY <1>2, <2>1, <2>6, <2>8, <2>12, <2>14 DEF Kept
<1> QED BY <1>1, <1>2

LEMMA ResumeThunkInv ==
  ASSUME NEW g \in GoalStates, NEW w \in g.thunks, ResumeThunkOk(g, w),
         GoalInv(g), AllWoken(g)
  PROVE  LET h == ResumeThunk(g, w)
         IN  GoalInv(h) /\ AllWoken(h) /\ NoStart(g, h)
<1> DEFINE woken == WaitingTask(g, w, {"Blocked", "WaitingApproval", "WaitingInput"})
           v == [w EXCEPT !.status = "Resumed"]
           ths == (g.thunks \ {w}) \cup {v}
           st == Put(g.st, woken, "Runnable")
           k == [g EXCEPT !.thunks = ths, !.st = st]
<1>1. ResumeThunk(g, w) = RefreshGoalStatus(k)
  BY DEF ResumeThunk
<1>2. w \in Thunk /\ g.thunks \in SUBSET Thunk
  BY DEF GoalStates
<1>3. v \in Thunk
  BY <1>2 DEF Thunk
<1>4. st \in [Tasks -> TaskStatus \cup {"Unborn"}]
  BY PutType DEF GoalStates, TaskStatus
<1>5. /\ k \in GoalStates /\ k.n = g.n /\ k.attempts = g.attempts
      /\ k.parent = g.parent /\ k.timedOut = g.timedOut
      /\ k.approvals = g.approvals /\ k.thunks = ths /\ k.st = st
  <2>1. ths \in SUBSET Thunk
    BY <1>2, <1>3
  <2> HIDE DEF ths, st
  <2> QED BY <1>4, <2>1 DEF GoalStates
<1>6. \A u \in Tasks : st[u] = IF u \in woken THEN "Runnable" ELSE g.st[u]
  BY DEF Put
<1>7. \A u \in woken : g.st[u] # "Unborn"
  BY DEF WaitingTask
<1>8. \A u \in Tasks : u # w.task /\ PendingFor(g.thunks, u) => PendingFor(ths, u)
  BY DEF PendingFor
<1>9. \A u \in Tasks : u = w.task /\ u \notin woken =>
            g.st[u] \notin {"WaitingApproval", "WaitingInput"}
  BY DEF WaitingTask
<1> HIDE DEF woken, ths, st, k
<1>10. Moves(g, k)
  BY <1>5, <1>6, <1>7 DEF Moves
<1>11. AllWoken(k)
  BY <1>5, <1>6, <1>8, <1>9 DEF AllWoken, Woken, Waker
<1> QED
  BY <1>1, <1>5, <1>10, <1>11, MovesInv, RefreshInv, NoStartTrans

LEMMA RestartTargetsExist ==
  ASSUME NEW g \in GoalStates, PoolInv(g), NEW scope \in Scopes, NEW t \in Tasks,
         g.st[t] # "Unborn"
  PROVE  /\ RestartTargets(g, scope, t) \in SUBSET Tasks
         /\ \A u \in RestartTargets(g, scope, t) : g.st[u] # "Unborn"
<1>1. g.timedOut \in SUBSET Tasks /\ g.n \in Nat \ {0}
  BY DEF GoalStates
<1>2. \A u \in Tasks : u \in Nat
  BY DEF Tasks
<1>3. Root \in Tasks /\ g.st[Root] # "Unborn"
  BY <1>1, RootIsTask DEF PoolInv, Root
<1>4. \A u \in g.timedOut : g.st[u] # "Unborn"
  BY <1>1, <1>2 DEF PoolInv
<1> QED
  BY <1>1, <1>3, <1>4 DEF RestartTargets, Scopes

LEMMA ApplyRestartInv ==
  ASSUME NEW g \in GoalStates, NEW scope \in Scopes, NEW t \in Tasks,
         NEW reset \in BOOLEAN, g.st[t] # "Unborn", GoalInv(g)
  PROVE  LET h == ApplyRestart(g, scope, t, reset)
             ts == RestartTargets(g, scope, t)
         IN  /\ h \in GoalStates /\ GoalInv(h) /\ NoStart(g, h)
             /\ \A u \in ts : Woken(h, u)
             /\ \A u \in Tasks \ ts : Woken(g, u) => Woken(h, u)
             /\ \A u \in Tasks : h.st[u] = IF u \in ts THEN "Runnable" ELSE g.st[u]
             /\ h.n = g.n /\ h.deps = g.deps
<1> DEFINE ts == RestartTargets(g, scope, t)
           rs == [u \in Tasks |-> IF u \in ts THEN g.restarts[u] + 1 ELSE g.restarts[u]]
           gr == IF scope = "Goal" THEN g.goalRestarts + 1 ELSE g.goalRestarts
           as == Put(g.attempts, IF reset THEN ts ELSE {}, 0)
           st == Put(g.st, ts, "Runnable")
           ths == Retire(g.thunks, ts)
           aps == Retire(g.approvals, ts)
           k == [g EXCEPT !.thunks = ths, !.approvals = aps, !.st = st,
                          !.attempts = as, !.restarts = rs, !.goalRestarts = gr]
<1>1. ApplyRestart(g, scope, t, reset) = RefreshGoalStatus(k)
  BY DEF ApplyRestart
<1>2. rs \in [Tasks -> Nat] /\ gr \in Nat
  BY DEF GoalStates
<1>3. as \in [Tasks -> Nat]
  BY PutType DEF GoalStates
<1>4. st \in [Tasks -> TaskStatus \cup {"Unborn"}]
  BY PutType DEF GoalStates, TaskStatus
<1>5. ths \in SUBSET Thunk /\ aps \in SUBSET Approval
  BY RetireType DEF GoalStates
<1>6. /\ k \in GoalStates /\ k.n = g.n /\ k.parent = g.parent /\ k.deps = g.deps
      /\ k.timedOut = g.timedOut /\ k.approvals = aps /\ k.thunks = ths
      /\ k.st = st /\ k.attempts = as
  <2> HIDE DEF rs, gr, as, st, ths, aps, ts
  <2> QED BY <1>2, <1>3, <1>4, <1>5 DEF GoalStates
<1>7. ts \in SUBSET Tasks /\ \A u \in ts : g.st[u] # "Unborn"
  BY RestartTargetsExist DEF GoalInv
<1> HIDE DEF ts
<1>8. \A u \in Tasks : /\ st[u] = IF u \in ts THEN "Runnable" ELSE g.st[u]
                       /\ as[u] = IF reset /\ u \in ts THEN 0 ELSE g.attempts[u]
  BY DEF Put
<1>9. /\ g.approvals \in SUBSET Approval /\ g.thunks \in SUBSET Thunk
      /\ \A a \in g.approvals : a.status \in {"Pending", "Approved", "Rejected", "Cancelled"}
  BY DEF GoalStates, Approval
<1>10. /\ \A a \in aps : a.status \in {"Pending", "Approved"} =>
              a \in g.approvals /\ (a.status = "Pending" => a.task \notin ts)
       /\ \A a \in g.approvals : a.status # "Pending" \/ a.task \notin ts => a \in aps
       /\ \A w \in g.thunks : w.task \notin ts => w \in ths
  BY <1>9, RetireKeeps
<1> HIDE DEF k, rs, gr, as, st, ths, aps
<1>11. \A u \in ts : ~PendingFor(aps, u)
  BY <1>10 DEF PendingFor
<1>12. Moves(g, k)
  BY <1>6, <1>7, <1>8, <1>10, <1>11 DEF Moves
<1>13. \A u \in Tasks \ ts :
          /\ PendingFor(g.approvals, u) => PendingFor(aps, u)
          /\ PendingFor(g.thunks, u) => PendingFor(ths, u)
  BY <1>10 DEF PendingFor
<1>14. /\ \A u \in ts : Woken(k, u)
       /\ \A u \in Tasks \ ts : Woken(g, u) => Woken(k, u)
  BY <1>6, <1>7, <1>8, <1>13 DEF Woken, Waker
<1>15. GoalInv(k) /\ NoStart(g, k)
  BY <1>6, <1>12, MovesInv
<1>16. LET h == RefreshGoalStatus(k)
       IN  /\ h \in GoalStates /\ Kept(k, h) /\ GoalInv(h) /\ NoStart(k, h)
           /\ \A u \in Tasks : Woken(k, u) => Woken(h, u)
  BY <1>6, <1>15, RefreshKept, KeptInv
<1> QED
  BY <1>1, <1>6, <1>7, <1>8, <1>14, <1>15, <1>16, NoStartTrans DEF Kept, ts

LEMMA CancelKeepsInv ==
  ASSUME NEW g \in GoalStates, GoalInv(g)
  PROVE  GoalInv(Cancel(g)) /\ AllWoken(Cancel(g)) /\ NoStart(g, Cancel(g))
<1> DEFINE h == Cancel(g)
<1>1. h \in GoalStates /\ Quiet(h)
  BY CancelType, CancelQuiet
<1>2. /\ h.n = g.n /\ h.attempts = g.attempts /\ h.parent = g.parent
      /\ h.timedOut = g.timedOut
      /\ h.approvals = Retire(g.approvals, Tasks \cup {NoTask})
      /\ h.st = Put(g.st, OpenTasks(g), "Cancelled")
  BY DEF Cancel, GoalStates
<1>3. \A u \in Tasks : h.st[u] = IF Open(g, u) THEN "Cancelled" ELSE g.st[u]
  <2> HIDE DEF h
  <2> QED BY <1>2 DEF Put, OpenTasks
<1> HIDE DEF h
<1>4. \A u \in Tasks : ~PendingFor(h.approvals, u)
  BY <1>1 DEF Quiet, PendingFor
<1>5. /\ \A a \in h.approvals : a.status # "Pending"
      /\ \A a \in g.approvals : a.status = "Approved" => a \in h.approvals
  <2>1. g.approvals \in SUBSET Approval
    BY DEF GoalStates
  <2>2. \A a \in g.approvals : a.status = "Approved" => a \in h.approvals
    BY <1>2, <2>1, RetireKeeps
  <2> QED BY <1>1, <2>2 DEF Quiet
<1>6. Moves(g, h)
  BY <1>2, <1>3, <1>4, <1>5 DEF Moves, Open
<1>7. AllWoken(h)
  BY <1>3 DEF AllWoken, Woken, Open, Terminal
<1> QED BY <1>1, <1>6, <1>7, MovesInv DEF h

\* Steering that reopens finished work and an exhausted budget only move tasks.
LEMMA PutMovesInv ==
  ASSUME NEW g \in GoalStates, NEW h \in GoalStates, NEW S \in SUBSET Tasks,
         NEW s \in {"Runnable", "Blocked"}, \A u \in S : g.st[u] # "Unborn",
         h.st = Put(g.st, S, s), h.n = g.n, h.parent = g.parent,
         h.timedOut = g.timedOut, h.attempts = g.attempts,
         h.approvals = g.approvals, h.thunks = g.thunks,
         GoalInv(g), AllWoken(g)
  PROVE  GoalInv(h) /\ AllWoken(h) /\ NoStart(g, h)
<1>1. \A u \in Tasks : h.st[u] = IF u \in S THEN s ELSE g.st[u]
  BY DEF Put
<1>2. Moves(g, h)
  BY <1>1 DEF Moves
<1>3. AllWoken(h)
  BY <1>1 DEF AllWoken, Woken, Waker
<1> QED BY <1>2, <1>3, MovesInv

\* What every step of drive_state does that starts no task.
Preserves(g, h) == /\ h \in GoalStates
                   /\ GoalInv(g) => /\ GoalInv(h)
                                    /\ Grows(g, h) /\ NoStart(g, h)
                                    /\ AllWoken(g) => AllWoken(h)

LEMMA PreservesTrans ==
  ASSUME NEW g \in GoalStates, NEW h, NEW k, Preserves(g, h), Preserves(h, k)
  PROVE  Preserves(g, k)
  BY GrowsTrans, NoStartTrans DEF Preserves

LEMMA KeptPreserves ==
  ASSUME NEW g \in GoalStates, NEW h \in GoalStates, Kept(g, h)
  PROVE  Preserves(g, h)
  BY KeptInv DEF Preserves, AllWoken

LEMMA RefreshPreserves ==
  ASSUME NEW g \in GoalStates
  PROVE  Preserves(g, RefreshGoalStatus(g))
  BY RefreshInv DEF Preserves

LEMMA InsertPreserves ==
  ASSUME NEW g \in GoalStates, NEW p \in Tasks, NEW k \in Nat,
         NEW pu \in TaskPurpose, NEW ds \in SUBSET Tasks,
         NEW gd \in {"none", "output", "security"}
  PROVE  Preserves(g, InsertChildren(g, p, k, pu, ds, gd))
  BY InsertInv, InsertChildrenType DEF Preserves, AllWoken, Follows, Inserted

LEMMA ApplySteeringInv ==
  ASSUME NEW g \in GoalStates, NEW d \in Directive, GoalInv(g), AllWoken(g)
  PROVE  LET h == ApplySteering(g, d)
         IN  GoalInv(h) /\ AllWoken(h) /\ NoStart(g, h)
<1> DEFINE inject(purpose, deps) == InsertChildren(g, Root, 1, purpose, deps, "none")
           criteria == IF d.reopen THEN ReopenDoneWork(g) ELSE g
           Good(h) == h \in GoalStates /\ GoalInv(h) /\ AllWoken(h) /\ NoStart(g, h)
<1>1. ASSUME NEW h, Good(h) PROVE Good([h EXCEPT !.steers = @ + 1])
  <2>1. [h EXCEPT !.steers = @ + 1] \in GoalStates
    <3>1. h.steers + 1 \in Nat
      BY <1>1 DEF GoalStates
    <3> QED BY <1>1, <3>1 DEF GoalStates
  <2>2. Kept(h, [h EXCEPT !.steers = @ + 1])
    BY <1>1 DEF GoalStates, Kept
  <2> QED BY <1>1, <2>1, <2>2, KeptInv, NoStartTrans DEF AllWoken
<1>2. Good(g)
  BY DEF NoStart
<1>3. Good(Cancel(g))
  BY CancelType, CancelKeepsInv
<1>4. ASSUME NEW pu \in {"Work", "Research", "Review"}, NEW ds \in SUBSET Tasks
      PROVE  Good(inject(pu, ds))
  BY InsertPreserves, RootIsTask DEF Preserves, TaskPurpose
<1>5. ASSUME NEW h, Good(h) PROVE Good(RefreshGoalStatus(h))
  BY <1>5, RefreshInv, NoStartTrans
<1>6. Good(criteria)
  <2> DEFINE st == Put(g.st, DoneTasks(g, WorkLike), "Runnable")
  <2>1. st \in [Tasks -> TaskStatus \cup {"Unborn"}]
    BY PutType DEF GoalStates, TaskStatus
  <2>2. LET h == ReopenDoneWork(g)
        IN  /\ h \in GoalStates /\ h.st = st /\ h.n = g.n /\ h.parent = g.parent
            /\ h.timedOut = g.timedOut /\ h.attempts = g.attempts
            /\ h.approvals = g.approvals /\ h.thunks = g.thunks
    <3> DEFINE r == [g EXCEPT !.st = st]
    <3>1. ReopenDoneWork(g) = r
      BY DEF ReopenDoneWork
    <3>2. /\ r \in GoalStates /\ r.st = st /\ r.n = g.n /\ r.parent = g.parent
          /\ r.timedOut = g.timedOut /\ r.attempts = g.attempts
          /\ r.approvals = g.approvals /\ r.thunks = g.thunks
      <4> HIDE DEF st
      <4> QED BY <2>1 DEF GoalStates
    <3> QED BY <3>1, <3>2
  <2>3. /\ DoneTasks(g, WorkLike) \in SUBSET Tasks
        /\ \A u \in DoneTasks(g, WorkLike) : g.st[u] # "Unborn"
    BY DEF DoneTasks
  <2> HIDE DEF st
  <2>4. Good(ReopenDoneWork(g))
    BY <2>2, <2>3, PutMovesInv DEF st
  <2> QED BY <1>2, <2>4
<1>7. Good([criteria EXCEPT !.scoreOk = @ /\ ~d.raise])
  <2> HIDE DEF criteria
  <2>1. ASSUME NEW b \in BOOLEAN PROVE Good([criteria EXCEPT !.scoreOk = b])
    <3>1. [criteria EXCEPT !.scoreOk = b] \in GoalStates
      BY <1>6 DEF GoalStates
    <3>2. Kept(criteria, [criteria EXCEPT !.scoreOk = b])
      BY <1>6 DEF GoalStates, Kept
    <3> QED BY <1>6, <3>1, <3>2, KeptInv, NoStartTrans DEF AllWoken
  <2>2. (criteria.scoreOk /\ ~d.raise) \in BOOLEAN
    OBVIOUS
  <2> QED BY <2>1, <2>2
<1>8. ASSUME NEW x \in GoalStatus PROVE Good([g EXCEPT !.status = x])
  <2>1. [g EXCEPT !.status = x] \in GoalStates /\ Kept(g, [g EXCEPT !.status = x])
    BY DEF GoalStates, Kept
  <2> QED BY <2>1, <1>2, KeptInv, NoStartTrans DEF AllWoken
<1>9. d.kind \in SteeringKinds /\ {d.target} \in SUBSET Tasks /\ g.status \in GoalStatus
  BY DEF Directive, GoalStates
<1>10. /\ Good([g EXCEPT !.status = "Paused"])
       /\ Good([g EXCEPT !.status = IF @ \in {"Paused", "Blocked"}
                                    THEN "Running" ELSE @])
  BY <1>8, <1>9 DEF GoalStatus
<1> DEFINE h == CASE d.kind = "cancel" -> Cancel(g)
               [] d.kind = "note" -> g
               [] d.kind = "inject_task" -> inject("Work", {})
               [] d.kind = "request_research" -> inject("Research", {})
               [] d.kind = "standard_review" -> inject("Review", {d.target})
               [] d.kind = "evaluate" -> RefreshGoalStatus(g)
               [] d.kind = "update_done_criteria" -> RefreshGoalStatus(criteria)
               [] d.kind = "expand_done_criteria" -> RefreshGoalStatus(
                    [criteria EXCEPT !.scoreOk = @ /\ ~d.raise])
               [] d.kind = "pause" -> [g EXCEPT !.status = "Paused"]
               [] d.kind = "resume" ->
                    [g EXCEPT !.status = IF @ \in {"Paused", "Blocked"}
                                         THEN "Running" ELSE @]
<1>11. ApplySteering(g, d) = [h EXCEPT !.steers = @ + 1]
  BY DEF ApplySteering
<1> HIDE DEF Good, inject, criteria
<1>12. /\ Good(inject("Work", {})) /\ Good(inject("Research", {}))
       /\ Good(inject("Review", {d.target}))
  BY <1>4, <1>9
<1>13. /\ Good(RefreshGoalStatus(g)) /\ Good(RefreshGoalStatus(criteria))
       /\ Good(RefreshGoalStatus([criteria EXCEPT !.scoreOk = @ /\ ~d.raise]))
  BY <1>2, <1>5, <1>6, <1>7
<1>14. Good(h)
  BY <1>2, <1>3, <1>9, <1>10, <1>12, <1>13 DEF SteeringKinds
<1> HIDE DEF h
<1>15. Good(ApplySteering(g, d))
  BY <1>1, <1>11, <1>14
<1> QED BY <1>15 DEF Good
-----------------------------------------------------------------------------
(* The steps of drive_state *)

LEMMA InsertIfInv ==
  ASSUME NEW due, NEW g \in GoalStates, NEW p \in Tasks,
         NEW pu \in TaskPurpose, NEW ds \in SUBSET Tasks,
         NEW gd \in {"none", "output", "security"}, GoalInv(g)
  PROVE  /\ InsertIf(due, g, p, pu, ds, gd) \in GoalStates
         /\ Inserted(g, InsertIf(due, g, p, pu, ds, gd), p, IF due THEN 1 ELSE 0)
<1>1. CASE due
  <2>1. InsertIf(due, g, p, pu, ds, gd) = InsertChildren(g, p, 1, pu, ds, gd)
    BY <1>1 DEF InsertIf
  <2>2. 1 \in Nat
    OBVIOUS
  <2>3. InsertChildren(g, p, 1, pu, ds, gd) \in GoalStates
    BY <2>2, InsertChildrenType DEF Follows
  <2>4. Inserted(g, InsertChildren(g, p, 1, pu, ds, gd), p, 1)
    BY <2>2, InsertInv
  <2> QED BY <1>1, <2>1, <2>3, <2>4
<1>2. CASE ~due
  <2>1. InsertIf(due, g, p, pu, ds, gd) = g
    BY <1>2 DEF InsertIf
  <2>2. g.n \in Nat
    BY DEF GoalStates
  <2>3. Inserted(g, g, p, 0)
    BY <2>2 DEF Inserted, Grows, NoStart
  <2> QED BY <1>2, <2>1, <2>3
<1> QED BY <1>1, <1>2

\* A chain of children of t: what the first goal holds of t the last one holds.
Carries(g, h, t) == /\ h \in GoalStates /\ GoalInv(h) /\ Grows(g, h) /\ NoStart(g, h)
                    /\ \A u \in Tasks : Woken(g, u) => Woken(h, u)
                    /\ \A u \in Tasks : Waker(g, u) => Waker(h, u)
                    /\ g.st[t] # "Unborn" => h.st[t] = g.st[t]
                    /\ h.approvals = g.approvals

LEMMA CarriesTrans ==
  ASSUME NEW g \in GoalStates, NEW h, NEW k, NEW t \in Tasks,
         Carries(g, h, t), Carries(h, k, t)
  PROVE  Carries(g, k, t)
<1>1. h \in GoalStates /\ k \in GoalStates
  BY DEF Carries
<1>2. Grows(g, k) /\ NoStart(g, k)
  BY <1>1, GrowsTrans, NoStartTrans DEF Carries
<1> QED BY <1>2 DEF Carries

LEMMA InsertIfCarries ==
  ASSUME NEW due, NEW g \in GoalStates, NEW t \in Tasks,
         NEW pu \in TaskPurpose, NEW ds \in SUBSET Tasks,
         NEW gd \in {"none", "output", "security"}, GoalInv(g)
  PROVE  /\ Carries(g, InsertIf(due, g, t, pu, ds, gd), t)
         /\ due /\ InsertIf(due, g, t, pu, ds, gd).n <= MaxTasks =>
               Waker(InsertIf(due, g, t, pu, ds, gd), t)
<1> DEFINE h == InsertIf(due, g, t, pu, ds, gd)
           k == IF due THEN 1 ELSE 0
<1>1. g.n \in Nat /\ MaxTasks \in Nat
  BY ConstantsOK DEF GoalStates
<1>2. h \in GoalStates /\ Inserted(g, h, t, k)
  BY InsertIfInv
<1> HIDE DEF h
<1>3. Carries(g, h, t)
  BY <1>2 DEF Carries, Inserted
<1>4. due /\ h.n <= MaxTasks => Waker(h, t)
  BY <1>1, <1>2 DEF Inserted
<1> QED BY <1>3, <1>4 DEF h

LEMMA StatusAfterResultCases ==
  ASSUME NEW g, NEW t, NEW o \in Outcome, ~PendingFor(g.approvals, t)
  PROVE  /\ StatusAfterResult(g, t, o) \in
              {"NeedsValidation", "Runnable", "WaitingInput", "Blocked", "Failed"}
         /\ StatusAfterResult(g, t, o) = "WaitingInput" \/ o.status = "Waiting" =>
              CarriesThunk(g, t, o) \/ (o.thunk = "none" /\ o.children # {})
<1>1. o.status \in {"Done", "Partial", "Waiting", "Blocked", "Failed", "TimedOut"}
  BY DEF Outcome
<1>2. o.thunk \in {"none", "input", "approval", "invalid"}
  BY DEF Outcome
<1>3. EffectiveStatus(g, t, o) \in {"Done", "Partial", "Waiting", "Blocked", "Failed", "TimedOut"}
  BY <1>1 DEF EffectiveStatus
<1>4. StatusAfterResult(g, t, o) \in
        {"NeedsValidation", "Runnable", "WaitingInput", "Blocked", "Failed"}
  BY <1>3 DEF StatusAfterResult
<1>5. StatusAfterResult(g, t, o) = "WaitingInput" => EffectiveStatus(g, t, o) = "Waiting"
  BY <1>3 DEF StatusAfterResult
<1>6. EffectiveStatus(g, t, o) = "Waiting" \/ o.status = "Waiting" =>
        CarriesThunk(g, t, o) \/ (o.thunk = "none" /\ o.children # {})
  BY DEF EffectiveStatus, CarriesThunk, NeedsSyntheticThunk
<1> QED BY <1>4, <1>5, <1>6

LEMMA ApplyAgentResultInv ==
  ASSUME NEW g \in GoalStates, NEW t \in Tasks, NEW o \in Outcome,
         g.st[t] = "Running", GoalInv(g), AllWoken(g),
         ApplyAgentResultOk(g, t, o), ApplyAgentResult(g, t, o).n <= MaxTasks
  PROVE  LET h == ApplyAgentResult(g, t, o)
         IN  /\ GoalInv(h) /\ AllWoken(h) /\ Grows(g, h) /\ NoStart(g, h)
             /\ ~PendingFor(h.approvals, t)
             /\ o.status = "Waiting" => Waker(h, t)
<1> DEFINE s == StatusAfterResult(g, t, o)
           st == [g.st EXCEPT ![t] = s]
           cont == ThunkCont(g, t, o)
           g1 == [g EXCEPT !.st = st]
           kind == IF o.thunk = "approval" THEN "approval" ELSE "input"
           g2 == IF ~CarriesThunk(g, t, o) THEN g1
                 ELSE CreateThunk(g1, t, kind, cont)
           g3 == InsertIf("free" \in o.children, g2, t, "Work", {}, "none")
           g4 == InsertIf("after" \in o.children, g3, t, "Work", {t}, "none")
           due(tag) == o.status = "Done" /\ tag \in GuardrailsDue(g, t)
           g5 == InsertIf(due("output"), g4, t, "Review", {t}, "output")
           g6 == InsertIf(due("security"), g5, t, "Review", {t}, "security")
<1>1. ~PendingFor(g.approvals, t)
  BY DEF GoalInv, ApprovalInv, Current, PendingFor
<1>2. /\ s \in {"NeedsValidation", "Runnable", "WaitingInput", "Blocked", "Failed"}
      /\ s = "WaitingInput" \/ o.status = "Waiting" =>
            CarriesThunk(g, t, o) \/ (o.thunk = "none" /\ o.children # {})
  BY <1>1, StatusAfterResultCases
<1>3. ApplyAgentResult(g, t, o) = RefreshGoalStatus(g6)
  BY DEF ApplyAgentResult
<1> HIDE DEF s
<1>4. /\ g1 \in GoalStates /\ g1.st = st /\ g1.n = g.n /\ g1.attempts = g.attempts
      /\ g1.parent = g.parent /\ g1.deps = g.deps /\ g1.approvals = g.approvals
      /\ g1.thunks = g.thunks /\ g1.timedOut = g.timedOut
  <2>1. st \in [Tasks -> TaskStatus \cup {"Unborn"}]
    BY <1>2 DEF GoalStates, TaskStatus
  <2> HIDE DEF st
  <2> QED BY <2>1 DEF GoalStates
<1>5. g1.st[t] = s
  BY <1>4 DEF GoalStates
<1> HIDE DEF g1
<1>6. /\ GoalInv(g1) /\ NoStart(g, g1) /\ Grows(g, g1)
      /\ \A u \in Tasks \ {t} : Woken(g1, u)
      /\ s # "WaitingInput" => Woken(g1, t)
  <2>1. s # "Unborn" /\ s # "Running" /\ s # "WaitingApproval"
    BY <1>2
  <2> QED BY <1>1, <1>4, <2>1, SetStatusInv DEF AllWoken
<1>7. cont \in Tasks \cup {NoTask} /\ kind \in {"approval", "input"}
  BY DEF ThunkCont
<1>8. Open(g1, t)
  BY <1>2, <1>5 DEF Open, Terminal
<1>9. /\ g2 \in GoalStates /\ GoalInv(g2) /\ NoStart(g, g2) /\ Grows(g, g2)
      /\ \A u \in Tasks \ {t} : Woken(g2, u)
      /\ g2.approvals = g.approvals
      /\ CarriesThunk(g, t, o) => PendingFor(g2.thunks, t)
      /\ ~CarriesThunk(g, t, o) => g2 = g1
  <2>1. CASE ~CarriesThunk(g, t, o)
    BY <1>4, <1>6, <2>1
  <2>2. CASE CarriesThunk(g, t, o)
    <3> DEFINE k == CreateThunk(g1, t, kind, cont)
    <3>1. /\ GoalInv(k) /\ NoStart(g1, k) /\ Grows(g1, k)
          /\ \A u \in Tasks \ {t} : Woken(g1, u) => Woken(k, u)
          /\ Waits(g1, cont) = {} => PendingFor(k.thunks, t)
          /\ Waits(g1, cont) # {} => k = g1
          /\ k.approvals = g1.approvals
      BY <1>4, <1>6, <1>7, <1>8, CreateThunkInv
    <3>2. k \in GoalStates
      BY <1>4, <1>7, CreateThunkType DEF Follows
    <3>3. Waits(g1, cont) = Waits(g, cont)
      BY <1>4 DEF Waits
    <3>4. CreateThunkOk(g, t, cont)
      BY <2>2 DEF ApplyAgentResultOk
    <3>5. Waits(g1, cont) # {} => PendingFor(g1.thunks, t)
      BY <1>4, <3>3, <3>4 DEF CreateThunkOk, Waits, PendingFor
    <3>6. g2 = k
      BY <2>2
    <3> HIDE DEF k, g2
    <3> QED
      BY <1>4, <1>6, <2>2, <3>1, <3>2, <3>5, <3>6, GrowsTrans, NoStartTrans
  <2> QED BY <2>1, <2>2
<1> HIDE DEF g2
<1>10. g2.st[t] # "Unborn"
  <2>1. g.n \in Nat /\ g2.n \in Nat /\ t \in Nat
    BY <1>9 DEF GoalStates, Tasks
  <2> QED BY <1>9, <2>1 DEF Grows, GoalInv, PoolInv
<1>11. /\ {t} \in SUBSET Tasks /\ {} \in SUBSET Tasks
       /\ "Work" \in TaskPurpose /\ "Review" \in TaskPurpose
  BY DEF TaskPurpose
<1>12. /\ Carries(g2, g3, t)
       /\ "free" \in o.children /\ g3.n <= MaxTasks => Waker(g3, t)
  BY <1>9, <1>11, InsertIfCarries
<1>13. g3 \in GoalStates /\ GoalInv(g3)
  <2> HIDE DEF g3
  <2> QED BY <1>12 DEF Carries
<1>14. /\ Carries(g3, g4, t)
       /\ "after" \in o.children /\ g4.n <= MaxTasks => Waker(g4, t)
  <2> HIDE DEF g3
  <2> QED BY <1>11, <1>13, InsertIfCarries
<1> HIDE DEF g3
<1>15. g4 \in GoalStates /\ GoalInv(g4)
  <2> HIDE DEF g4
  <2> QED BY <1>14 DEF Carries
<1>16. Carries(g4, g5, t)
  <2> HIDE DEF g4
  <2> QED BY <1>11, <1>15, InsertIfCarries
<1> HIDE DEF g4
<1>17. g5 \in GoalStates /\ GoalInv(g5)
  <2> HIDE DEF g5
  <2> QED BY <1>16 DEF Carries
<1>18. Carries(g5, g6, t)
  <2> HIDE DEF g5
  <2> QED BY <1>11, <1>17, InsertIfCarries
<1> HIDE DEF g5
<1>19. g6 \in GoalStates /\ GoalInv(g6)
  <2> HIDE DEF g6
  <2> QED BY <1>18 DEF Carries
<1> HIDE DEF g6
<1>20. Carries(g2, g6, t) /\ Carries(g3, g6, t) /\ Carries(g4, g6, t)
  BY <1>9, <1>12, <1>13, <1>14, <1>15, <1>16, <1>17, <1>18, CarriesTrans
<1>21. g6.n <= MaxTasks /\ g3.n <= MaxTasks /\ g4.n <= MaxTasks
  <2>1. g6.n <= MaxTasks
    BY <1>3, <1>19, RefreshKept DEF Kept
  <2>2. g3.n <= g6.n /\ g4.n <= g6.n
    BY <1>20 DEF Carries, Grows
  <2>3. g3.n \in Nat /\ g4.n \in Nat /\ g6.n \in Nat /\ MaxTasks \in Nat
    BY <1>13, <1>15, <1>19, ConstantsOK DEF GoalStates
  <2> QED BY <2>1, <2>2, <2>3
<1>22. o.children # {} => Waker(g6, t)
  <2>1. o.children \subseteq {"free", "after"}
    BY DEF Outcome
  <2>2. "free" \in o.children => Waker(g6, t)
    BY <1>12, <1>20, <1>21 DEF Carries
  <2>3. "after" \in o.children => Waker(g6, t)
    BY <1>14, <1>20, <1>21 DEF Carries
  <2> QED BY <2>1, <2>2, <2>3
<1>23. CarriesThunk(g, t, o) => Waker(g6, t) /\ Woken(g6, t)
  <2>1. CarriesThunk(g, t, o) => Waker(g2, t) /\ Woken(g2, t)
    BY <1>9 DEF Waker, Woken
  <2> QED BY <1>20, <2>1 DEF Carries
<1>24. o.status = "Waiting" => Waker(g6, t)
  BY <1>2, <1>22, <1>23
<1>25. Woken(g6, t)
  <2>1. CASE CarriesThunk(g, t, o)
    BY <1>23, <2>1
  <2>2. CASE ~CarriesThunk(g, t, o) /\ s # "WaitingInput"
    BY <1>6, <1>9, <1>20, <2>2 DEF Carries
  <2>3. CASE ~CarriesThunk(g, t, o) /\ s = "WaitingInput"
    <3>1. Waker(g6, t)
      BY <1>2, <1>22, <2>3
    <3>2. g6.st[t] = "WaitingInput"
      BY <1>5, <1>9, <1>10, <1>20, <2>3 DEF Carries
    <3> QED BY <3>1, <3>2 DEF Woken
  <2> QED BY <2>1, <2>2, <2>3
<1>26. AllWoken(g6)
  BY <1>9, <1>20, <1>25 DEF AllWoken, Carries
<1>27. Grows(g, g6) /\ NoStart(g, g6) /\ g6.approvals = g.approvals
  BY <1>9, <1>19, <1>20, GrowsTrans, NoStartTrans DEF Carries
<1>28. LET h == RefreshGoalStatus(g6)
       IN  /\ h \in GoalStates /\ GoalInv(h) /\ AllWoken(h) /\ Grows(g6, h)
           /\ NoStart(g6, h) /\ h.approvals = g.approvals
           /\ Waker(g6, t) => Waker(h, t)
  BY <1>19, <1>26, <1>27, RefreshInv
<1> QED
  BY <1>1, <1>3, <1>19, <1>24, <1>27, <1>28, GrowsTrans, NoStartTrans

LEMMA ApplyValidationInv ==
  ASSUME NEW g \in GoalStates, NEW t \in Tasks, NEW o \in Outcome,
         Open(g, t), ~PendingFor(g.approvals, t),
         o.status = "Waiting" => Waker(g, t), GoalInv(g), AllWoken(g)
  PROVE  LET h == ApplyValidation(g, t, o)
         IN  /\ GoalInv(h) /\ AllWoken(h) /\ Grows(g, h) /\ NoStart(g, h)
             /\ h.approvals = g.approvals
             /\ h.st[t] = StatusAfterValidation(o)
<1> DEFINE unifies(r) == /\ g.purpose[t] = "Unification" /\ r.unifier = t
                         /\ o.status = "Done" /\ o.passes
           rs == [i \in DOMAIN g.rounds |->
                    IF unifies(g.rounds[i])
                    THEN [g.rounds[i] EXCEPT !.status = "Unified"]
                    ELSE g.rounds[i]]
           d == IF g.purpose[t] \in {"Review", "Unification"}
                THEN o.decision ELSE g.decision
           s == StatusAfterValidation(o)
           st == [g.st EXCEPT ![t] = s]
           k == [g EXCEPT !.st = st, !.scoreOk = o.scoreOk, !.decision = d, !.rounds = rs]
<1>1. ApplyValidation(g, t, o) = RefreshGoalStatus(k)
  BY DEF ApplyValidation
<1>2. s \in {"WaitingInput", "Blocked", "Failed", "Done", "Runnable"}
      /\ (s = "WaitingInput" => o.status = "Waiting")
  BY DEF StatusAfterValidation
<1>3. rs \in Seq(ReviewRound)
  <2>1. g.rounds \in Seq(ReviewRound)
    BY DEF GoalStates
  <2>2. DOMAIN g.rounds = 1..Len(g.rounds) /\ Len(g.rounds) \in Nat
    BY <2>1
  <2>3. \A i \in DOMAIN g.rounds :
            [g.rounds[i] EXCEPT !.status = "Unified"] \in ReviewRound
    BY RoundType DEF ReviewRound
  <2>4. \A i \in 1..Len(g.rounds) : rs[i] \in ReviewRound
    BY <2>2, <2>3, RoundType
  <2>5. rs \in [1..Len(g.rounds) -> ReviewRound]
    BY <2>2, <2>4
  <2> HIDE DEF rs
  <2> QED BY <2>2, <2>5
<1>4. d \in {"none", "accept", "changes"} /\ o.scoreOk \in BOOLEAN
  BY DEF GoalStates, Outcome
<1> HIDE DEF s
<1>5. st \in [Tasks -> TaskStatus \cup {"Unborn"}]
  BY <1>2 DEF GoalStates, TaskStatus, Terminal
<1>6. /\ k \in GoalStates /\ k.st = st /\ k.n = g.n /\ k.attempts = g.attempts
      /\ k.parent = g.parent /\ k.deps = g.deps /\ k.approvals = g.approvals
      /\ k.thunks = g.thunks /\ k.timedOut = g.timedOut
  <2> HIDE DEF rs, d, st
  <2> QED BY <1>3, <1>4, <1>5 DEF GoalStates
<1> HIDE DEF k, rs, d
<1>7. k.st[t] = s
  BY <1>6 DEF GoalStates
<1>8. g.st[t] # "Unborn" /\ g.st[t] # "Done"
  BY DEF Open, Terminal
<1>9. /\ GoalInv(k) /\ NoStart(g, k) /\ Grows(g, k)
      /\ \A u \in Tasks : Waker(g, u) => Waker(k, u)
      /\ \A u \in Tasks \ {t} : Woken(k, u)
      /\ s # "WaitingInput" => Woken(k, t)
  <2>1. s # "Unborn" /\ s # "Running" /\ s # "NeedsValidation" /\ s # "WaitingApproval"
    BY <1>2
  <2> QED BY <1>6, <1>8, <2>1, SetStatusInv DEF AllWoken
<1>10. Woken(k, t)
  BY <1>2, <1>7, <1>9 DEF Woken
<1>11. AllWoken(k)
  BY <1>9, <1>10 DEF AllWoken
<1>12. LET h == RefreshGoalStatus(k)
       IN  /\ GoalInv(h) /\ AllWoken(h) /\ Grows(g, h) /\ NoStart(g, h)
           /\ h.approvals = g.approvals /\ h.st[t] = s
  <2>1. Kept(k, RefreshGoalStatus(k)) /\ RefreshGoalStatus(k) \in GoalStates
    BY <1>6, RefreshKept
  <2> QED BY <1>6, <1>7, <1>9, <1>11, <2>1, RefreshInv, GrowsTrans, NoStartTrans DEF Kept
<1> QED BY <1>1, <1>12 DEF s

LEMMA RecordTimeoutInv ==
  ASSUME NEW g \in GoalStates, NEW t \in Tasks,
         g.st[t] = "Failed", ~PendingFor(g.approvals, t), GoalInv(g), AllWoken(g)
  PROVE  LET h == RecordTimeout(g, t)
         IN  GoalInv(h) /\ AllWoken(h) /\ Grows(g, h) /\ NoStart(g, h)
<1> DEFINE timed == [g EXCEPT !.timedOut = g.timedOut \cup {t}]
<1>1. /\ timed \in GoalStates /\ timed.n = g.n /\ timed.st = g.st
      /\ timed.attempts = g.attempts /\ timed.parent = g.parent
      /\ timed.deps = g.deps /\ timed.approvals = g.approvals
      /\ timed.thunks = g.thunks /\ timed.timedOut = g.timedOut \cup {t}
  BY DEF GoalStates
<1>2. g.n \in Nat /\ t \in Nat
  BY DEF GoalStates, Tasks
<1>3. GoalInv(timed)
  BY <1>1, <1>2 DEF GoalInv, PoolInv, ApprovalInv, Current, GateInv, ApprovedNow
<1>4. AllWoken(timed)
  BY <1>1 DEF AllWoken, Woken, Waker
<1>5. RecordTimeout(g, t) =
        CASE OnTaskTimeout = "RestartIfAllowed" ->
               ApplyRestart(timed, "Task", t, ResetOnRestart)
          [] OnTaskTimeout = "BlockAndNotify" ->
               RefreshGoalStatus([timed EXCEPT !.st[t] = "Blocked"])
          [] OTHER -> RefreshGoalStatus([timed EXCEPT !.st[t] = "Failed"])
  BY DEF RecordTimeout
<1> HIDE DEF timed
<1>6. LET h == ApplyRestart(timed, "Task", t, ResetOnRestart)
      IN  GoalInv(h) /\ AllWoken(h) /\ Grows(g, h) /\ NoStart(g, h)
  <2> DEFINE h == ApplyRestart(timed, "Task", t, ResetOnRestart)
             ts == RestartTargets(timed, "Task", t)
  <2>1. ts = {t}
    BY DEF RestartTargets
  <2>2. ResetOnRestart \in BOOLEAN /\ "Task" \in Scopes /\ timed.st[t] # "Unborn"
    BY <1>1, ConstantsOK DEF Scopes
  <2> HIDE DEF ts
  <2>3. /\ GoalInv(h) /\ NoStart(timed, h)
        /\ \A u \in ts : Woken(h, u)
        /\ \A u \in Tasks \ ts : Woken(timed, u) => Woken(h, u)
        /\ \A u \in Tasks : h.st[u] = IF u \in ts THEN "Runnable" ELSE timed.st[u]
        /\ h.n = timed.n /\ h.deps = timed.deps
    BY <1>1, <1>3, <2>2, ApplyRestartInv DEF ts
  <2> HIDE DEF h
  <2>4. AllWoken(h)
    BY <1>4, <2>3 DEF AllWoken
  <2>5. Grows(g, h) /\ NoStart(g, h)
    BY <1>1, <1>2, <2>1, <2>3 DEF Grows, NoStart
  <2> QED BY <2>3, <2>4, <2>5 DEF h
<1>7. ASSUME NEW s \in {"Blocked", "Failed"}
      PROVE  LET h == RefreshGoalStatus([timed EXCEPT !.st[t] = s])
             IN  GoalInv(h) /\ AllWoken(h) /\ Grows(g, h) /\ NoStart(g, h)
  <2> DEFINE st == [timed.st EXCEPT ![t] = s]
             k == [timed EXCEPT !.st = st]
  <2>1. st \in [Tasks -> TaskStatus \cup {"Unborn"}]
    BY <1>1 DEF GoalStates, TaskStatus
  <2>2. /\ k \in GoalStates /\ k.st = st /\ k.n = g.n /\ k.attempts = timed.attempts
        /\ k.parent = timed.parent /\ k.deps = timed.deps
        /\ k.approvals = timed.approvals /\ k.thunks = timed.thunks
        /\ k.timedOut = timed.timedOut
    <3> HIDE DEF st
    <3> QED BY <1>1, <2>1 DEF GoalStates
  <2>3. [timed EXCEPT !.st[t] = s] = k
    BY <1>1 DEF GoalStates
  <2> HIDE DEF k
  <2>4. /\ GoalInv(k) /\ NoStart(timed, k) /\ Grows(timed, k)
        /\ \A u \in Tasks \ {t} : Woken(timed, u) => Woken(k, u)
        /\ Woken(k, t)
    <3>1. /\ s # "Unborn" /\ s # "NeedsValidation" /\ s # "Running"
          /\ s \notin {"WaitingApproval", "WaitingInput"}
      OBVIOUS
    <3>2. /\ timed.st[t] # "Unborn" /\ timed.st[t] # "Done"
          /\ ~PendingFor(timed.approvals, t)
      BY <1>1
    <3>3. k.st = [timed.st EXCEPT ![t] = s]
      BY <2>2
    <3> HIDE DEF st
    <3>4. /\ timed \in GoalStates /\ k \in GoalStates /\ k.n = timed.n
          /\ k.attempts = timed.attempts /\ k.parent = timed.parent
          /\ k.deps = timed.deps /\ k.approvals = timed.approvals
          /\ k.timedOut = timed.timedOut
      BY <1>1, <2>2
    <3>5. /\ GoalInv(k) /\ NoStart(timed, k)
          /\ timed.st[t] # "Done" => Grows(timed, k)
          /\ k.thunks = timed.thunks =>
                /\ \A u \in Tasks : Waker(timed, u) => Waker(k, u)
                /\ \A u \in Tasks \ {t} : Woken(timed, u) => Woken(k, u)
                /\ s \notin {"WaitingApproval", "WaitingInput"} => Woken(k, t)
      BY <1>3, <3>1, <3>2, <3>3, <3>4, SetStatusInv
    <3> QED BY <2>2, <3>1, <3>2, <3>5
  <2>5. AllWoken(k)
    BY <1>4, <2>4 DEF AllWoken
  <2>6. Grows(g, k) /\ NoStart(g, k)
    BY <1>1, <2>4 DEF Grows, NoStart
  <2>7. LET h == RefreshGoalStatus(k)
        IN  GoalInv(h) /\ AllWoken(h) /\ Grows(g, h) /\ NoStart(g, h)
    BY <2>2, <2>4, <2>5, <2>6, RefreshInv, GrowsTrans, NoStartTrans
  <2> QED BY <2>3, <2>7
<1> QED BY <1>5, <1>6, <1>7

LEMMA SpawnReviewRoundPreserves ==
  ASSUME NEW g \in GoalStates
  PROVE  Preserves(g, SpawnReviewRound(g).state)
<1> DEFINE reviews == IF MinReviews > 1 THEN MinReviews ELSE 1
           subjects == DoneTasks(g, WorkLike)
           round == [subjects |-> subjects, reviewers |-> NextIds(g, reviews),
                     unifier |-> NoTask, status |-> "ReviewsSpawned"]
           h == InsertChildren(g, Root, reviews, "Review", subjects, "none")
           k == [h EXCEPT !.rounds = Append(@, round)]
<1>1. reviews \in Nat
  BY ConstantsOK
<1>2. subjects \in SUBSET Tasks /\ NextIds(g, reviews) \in SUBSET Tasks
  BY DEF DoneTasks, NextIds
<1>3. round \in ReviewRound
  BY <1>2 DEF ReviewRound
<1>4. Preserves(g, h)
  BY <1>1, <1>2, InsertPreserves, RootIsTask DEF TaskPurpose
<1>5. k \in GoalStates /\ Kept(h, k)
  <2> HIDE DEF h, round
  <2>1. h \in GoalStates /\ h.rounds \in Seq(ReviewRound)
    BY <1>4 DEF Preserves, GoalStates
  <2>2. Append(h.rounds, round) \in Seq(ReviewRound)
    BY <1>3, <2>1
  <2>3. k \in GoalStates
    BY <2>1, <2>2, RoundsUpdateType DEF Follows
  <2> QED BY <2>1, <2>3 DEF GoalStates, Kept
<1>6. Preserves(g, RefreshGoalStatus(k))
  <2> HIDE DEF h, k
  <2>1. h \in GoalStates
    BY <1>4 DEF Preserves
  <2>2. Preserves(h, k) /\ Preserves(k, RefreshGoalStatus(k))
    BY <1>5, <2>1, KeptPreserves, RefreshPreserves
  <2> QED BY <1>4, <2>2, PreservesTrans
<1>7. Preserves(g, g)
  BY KeptPreserves DEF Kept
<1>8. SpawnReviewRound(g) = SpawnFromRoot(g, reviews, k)
  BY DEF SpawnReviewRound
<1> HIDE DEF k
<1> QED
  BY <1>6, <1>7, <1>8 DEF SpawnFromRoot, Frontier

LEMMA RoundsRefreshKept ==
  ASSUME NEW h \in GoalStates, NEW rs
  PROVE  Kept(h, RefreshGoalStatus([h EXCEPT !.rounds = rs]))
<1> DEFINE k == [h EXCEPT !.rounds = rs]
<1>1. Kept(h, k)
  BY DEF GoalStates, Kept
<1>2. Kept(k, RefreshGoalStatus(k))
  BY DEF RefreshGoalStatus, GoalStates, Kept
<1> HIDE DEF k
<1>3. Kept(h, RefreshGoalStatus(k))
  BY <1>1, <1>2 DEF Kept
<1> QED BY <1>3 DEF k

LEMMA SpawnUnifierPreserves ==
  ASSUME NEW g \in GoalStates, g.rounds # <<>>,
         SpawnUnifier(g).state.n <= MaxTasks
  PROVE  Preserves(g, SpawnUnifier(g).state)
<1> DEFINE round == [LastRound(g) EXCEPT !.unifier = g.n + 1,
                                         !.status = "ReadyForUnification"]
           h == InsertChildren(g, Root, 1, "Unification",
                               LastRound(g).reviewers, "none")
           rs == [h.rounds EXCEPT ![Len(g.rounds)] = round]
           final == RefreshGoalStatus([h EXCEPT !.rounds = rs])
<1>1. SpawnUnifier(g).state \in GoalStates
  BY SpawnUnifierType DEF Follows
<1>2. LastRound(g).reviewers \in SUBSET Tasks
  BY LastRoundType DEF ReviewRound
<1>3. 1 \in Nat
  OBVIOUS
<1>4. Preserves(g, h)
  BY <1>2, <1>3, InsertPreserves, RootIsTask DEF TaskPurpose
<1>5. h \in GoalStates
  BY <1>4 DEF Preserves
<1>6. Kept(h, final)
  <2> HIDE DEF h, rs
  <2> QED BY <1>5, RoundsRefreshKept
<1>7. SpawnUnifier(g) = IF SpawnAllowed(g, Root, 1) THEN Frontier(TRUE, TRUE, final)
                                                    ELSE Frontier(FALSE, FALSE, g)
  BY DEF SpawnUnifier, SpawnFromRoot
<1> HIDE DEF h, final
<1>8. SpawnUnifier(g).state = final \/ SpawnUnifier(g).state = g
  BY <1>7 DEF Frontier
<1>9. CASE SpawnUnifier(g).state = final
  <2>1. Preserves(h, final)
    BY <1>1, <1>5, <1>6, <1>9, KeptPreserves
  <2> QED BY <1>4, <1>9, <2>1, PreservesTrans
<1>10. CASE SpawnUnifier(g).state = g
  BY <1>10, KeptPreserves DEF Kept
<1> QED BY <1>8, <1>9, <1>10

LEMMA SpawnActorRetryPreserves ==
  ASSUME NEW g \in GoalStates
  PROVE  Preserves(g, SpawnActorRetry(g).state)
<1> DEFINE latest == CHOOSE i \in Unifiers(g) : \A j \in Unifiers(g) : j <= i
           unifier == g.rounds[latest].unifier
           h == InsertChildren(g, Root, 1, "ActorRetry", {unifier}, "none")
<1>1. Preserves(g, g) /\ Preserves(g, RefreshGoalStatus(g))
  BY KeptPreserves, RefreshPreserves DEF Kept
<1>2. CASE Unifiers(g) = {}
  BY <1>1, <1>2 DEF SpawnActorRetry, Frontier
<1>3. CASE Unifiers(g) # {}
  <2>1. g.rounds \in Seq(ReviewRound)
    BY DEF GoalStates
  <2>2. Unifiers(g) \in SUBSET (1..Len(g.rounds)) /\ Len(g.rounds) \in Nat
    BY <2>1 DEF Unifiers
  <2>3. latest \in Unifiers(g)
    BY <1>3, <2>2, LargestExists
  <2>4. unifier \in Tasks
    <3> HIDE DEF latest
    <3>1. latest \in DOMAIN g.rounds /\ g.rounds[latest].unifier # NoTask
      BY <2>3 DEF Unifiers
    <3> QED BY <3>1, RoundType DEF ReviewRound
  <2> HIDE DEF unifier
  <2>5. 1 \in Nat /\ {unifier} \in SUBSET Tasks
    BY <2>4
  <2>6. Preserves(g, h)
    BY <2>5, InsertPreserves, RootIsTask DEF TaskPurpose
  <2>7. Preserves(g, RefreshGoalStatus(h))
    <3> HIDE DEF h
    <3>1. Preserves(h, RefreshGoalStatus(h))
      BY <2>6, RefreshPreserves DEF Preserves
    <3> QED BY <2>6, <3>1, PreservesTrans
  <2>8. SpawnActorRetry(g).state \in {g, RefreshGoalStatus(g), RefreshGoalStatus(h)}
    BY <1>3 DEF SpawnActorRetry, SpawnFromRoot, Frontier, unifier
  <2> HIDE DEF h
  <2> QED
    BY <1>1, <2>7, <2>8
<1> QED BY <1>2, <1>3

LEMMA EnsureReviewFrontierPreserves ==
  ASSUME NEW g \in GoalStates, EnsureReviewFrontier(g).state.n <= MaxTasks
  PROVE  Preserves(g, EnsureReviewFrontier(g).state)
<1> DEFINE unified == IF ~LastRoundReady(g) THEN g
                      ELSE [g EXCEPT !.rounds[Len(g.rounds)].status = "Unified"]
<1>1. Preserves(g, g)
  BY KeptPreserves DEF Kept
<1>2. Preserves(g, unified)
  <2>1. CASE LastRoundReady(g)
    <3>1. g.rounds # <<>>
      BY <2>1 DEF LastRoundReady
    <3>2. [LastRound(g) EXCEPT !.status = "Unified"] \in ReviewRound
      BY <3>1, LastRoundType DEF ReviewRound
    <3> DEFINE k == [g EXCEPT !.rounds[Len(g.rounds)] =
                                 [LastRound(g) EXCEPT !.status = "Unified"]]
    <3>3. k \in GoalStates
      BY <3>1, <3>2, ReplaceLastRoundType DEF Follows
    <3>4. Kept(g, k)
      BY DEF GoalStates, Kept
    <3>5. unified = k
      BY <2>1 DEF LastRound
    <3> HIDE DEF k, unified
    <3> QED BY <3>3, <3>4, <3>5, KeptPreserves
  <2>2. CASE ~LastRoundReady(g)
    BY <1>1, <2>2
  <2> QED BY <2>1, <2>2
<1> HIDE DEF unified
<1>3. unified \in GoalStates
  BY <1>2 DEF Preserves
<1>4. /\ Preserves(unified, SpawnReviewRound(unified).state)
      /\ Preserves(unified, SpawnActorRetry(unified).state)
      /\ Preserves(unified, RefreshGoalStatus(unified))
  BY <1>3, SpawnReviewRoundPreserves, SpawnActorRetryPreserves, RefreshPreserves
<1>5. /\ Preserves(g, SpawnReviewRound(g).state)
      /\ Preserves(g, SpawnReviewRound(unified).state)
      /\ Preserves(g, SpawnActorRetry(unified).state)
      /\ Preserves(g, RefreshGoalStatus(g))
      /\ Preserves(g, RefreshGoalStatus(unified))
  BY <1>2, <1>4, SpawnReviewRoundPreserves, RefreshPreserves, PreservesTrans
<1>6. LastRoundReady(g) => g.rounds # <<>>
  BY DEF LastRoundReady
<1>7. \A h : Frontier(TRUE, FALSE, h).state = h
  BY DEF Frontier
<1>8. \/ EnsureReviewFrontier(g) = Frontier(TRUE, FALSE, RefreshGoalStatus(g))
      \/ EnsureReviewFrontier(g) = SpawnReviewRound(g)
      \/ LastRoundReady(g) /\ EnsureReviewFrontier(g) = SpawnUnifier(g)
      \/ EnsureReviewFrontier(g) = SpawnReviewRound(unified)
      \/ EnsureReviewFrontier(g) = SpawnActorRetry(unified)
      \/ EnsureReviewFrontier(g) = Frontier(TRUE, FALSE, RefreshGoalStatus(unified))
  BY Zenon DEF EnsureReviewFrontier, unified
<1> QED
  BY <1>5, <1>6, <1>7, <1>8, SpawnUnifierPreserves
-----------------------------------------------------------------------------
(* The workflow *)

LEMMA GatesInvInit == Init => GatesInv
<1> SUFFICES ASSUME Init PROVE GatesInv
  OBVIOUS
<1>1. PICK budget \in Budget : state = NewGoal(budget)
  BY DEF Init
<1>2. /\ state.n = 1 /\ state.approvals = {} /\ state.timedOut = {}
      /\ \A t \in Tasks : /\ state.st[t] = IF t = 1 THEN "Runnable" ELSE "Unborn"
                          /\ state.parent[t] = NoTask
  BY <1>1 DEF NewGoal, Put, Root
<1>3. \A t \in Tasks : t \in Nat /\ 1 <= t
  BY DEF Tasks
<1>4. GoalInv(state)
  BY <1>2, <1>3, ConstantsOK DEF GoalInv, PoolInv, ApprovalInv, GateInv
<1>5. AllWoken(state)
  BY <1>2 DEF AllWoken, Woken
<1>6. handler.pc \in {"idle", "drive"}
  BY FrameTypes, WorkflowConstantsOK DEF Init
<1> QED BY <1>4, <1>5, <1>6 DEF GatesInv, RoundInv

\* A control handler leaves no round behind, so only the goal matters.
LEMMA ControlInv ==
  ASSUME NEW g, GoalInv(g), AllWoken(g), NoStart(state, g),
         NEW drives, Control(g, drives)
  PROVE  GatesInv' /\ NoStart(state, state')
<1>1. state' = g
  BY DEF Control, Persist
<1>2. handler'.pc \in {"idle", "drive"}
  BY IdleFrame DEF Control, Project, Return
<1>3. RoundInv'
  BY <1>2 DEF RoundInv
<1> QED BY <1>1, <1>3 DEF GatesInv

LEMMA ControlHandlersInv ==
  ASSUME TypeInv, GatesInv, ControlHandlers
  PROVE  GatesInv' /\ NoStart(state, state')
<1>1. state \in GoalStates /\ GoalInv(state) /\ AllWoken(state)
  BY DEF TypeInv, TypeOK, GatesInv
<1>2. CASE Run
  BY <1>1, <1>2, ControlInv DEF Run, NoStart
<1>3. CASE CancelGoal
  BY <1>1, <1>3, ControlInv, CancelKeepsInv DEF CancelGoal
<1>4. CASE Steer
  <2>1. PICK d \in Directives :
          Control(ApplySteering(state, d), d.kind \in SteeringDrives)
    BY <1>4 DEF Steer
  <2>2. d \in Directive
    BY WorkflowConstantsOK
  <2>3. LET g == ApplySteering(state, d)
        IN  GoalInv(g) /\ AllWoken(g) /\ NoStart(state, g)
    BY <1>1, <2>2, ApplySteeringInv
  <2> QED BY <2>1, <2>3, ControlInv
<1>5. CASE Approve
  <2>1. PICK a \in state.approvals, approved \in BOOLEAN :
          /\ a.status = "Pending"
          /\ Control(ApplyHumanApproval(state, a, approved), approved)
    BY <1>5 DEF Approve
  <2>2. LET g == ApplyHumanApproval(state, a, approved)
        IN  GoalInv(g) /\ AllWoken(g) /\ NoStart(state, g)
    BY <1>1, <2>1, ApplyHumanApprovalInv
  <2> QED BY <2>1, <2>2, ControlInv
<1>6. CASE Restart
  <2>1. PICK scope \in Scopes, t \in Tasks, reset \in BOOLEAN :
          /\ state.st[t] # "Unborn"
          /\ Control(ApplyRestart(state, scope, t, reset), TRUE)
    BY <1>6 DEF Restart
  <2> DEFINE g == ApplyRestart(state, scope, t, reset)
             ts == RestartTargets(state, scope, t)
  <2>2. /\ GoalInv(g) /\ NoStart(state, g)
        /\ \A u \in ts : Woken(g, u)
        /\ \A u \in Tasks \ ts : Woken(state, u) => Woken(g, u)
    BY <1>1, <2>1, ApplyRestartInv
  <2> HIDE DEF g, ts
  <2>3. AllWoken(g)
    BY <1>1, <2>2 DEF AllWoken
  <2>4. Control(g, TRUE)
    BY <2>1 DEF g
  <2> QED BY <2>2, <2>3, <2>4, ControlInv
<1>7. CASE ResumeDelayedThunk
  <2>1. PICK w \in state.thunks :
          ResumeThunkOk(state, w) /\ Control(ResumeThunk(state, w), TRUE)
    BY <1>7 DEF ResumeDelayedThunk
  <2>2. LET g == ResumeThunk(state, w)
        IN  GoalInv(g) /\ AllWoken(g) /\ NoStart(state, g)
    BY <1>1, <2>1, ResumeThunkInv
  <2> QED BY <2>1, <2>2, ControlInv
<1>8. CASE CreateDelayedThunk
  <2>1. PICK t \in Tasks \cup {NoTask}, kind \in {"approval", "input"},
             cont \in Tasks \cup {NoTask} :
          /\ ~\E w \in Waits(state, cont) : w.task = t
          /\ CreateThunkOk(state, t, cont)
          /\ Control(CreateThunk(state, t, kind, cont), FALSE)
    BY <1>8 DEF CreateDelayedThunk
  <2>2. Waits(state, cont) = {} /\ (t \in Tasks => Open(state, t))
    BY <2>1 DEF CreateThunkOk, Tasks, NoTask
  <2> DEFINE g == CreateThunk(state, t, kind, cont)
  <2>3. /\ GoalInv(g) /\ NoStart(state, g)
        /\ \A u \in Tasks \ {t} : Woken(state, u) => Woken(g, u)
        /\ t \in Tasks => PendingFor(g.thunks, t)
    BY <1>1, <2>2, CreateThunkInv
  <2> HIDE DEF g
  <2>4. AllWoken(g)
    BY <1>1, <2>3 DEF AllWoken, Woken, Waker
  <2>5. Control(g, FALSE)
    BY <2>1 DEF g
  <2> QED BY <2>3, <2>4, <2>5, ControlInv
<1> QED
  BY <1>2, <1>3, <1>4, <1>5, <1>6, <1>7, <1>8 DEF ControlHandlers

\* A task starts only from the snapshot's rest, with its dependencies Done.
StartsReady ==
    \A t \in Tasks : state.st[t] # "Running" /\ state'.st[t] = "Running" =>
        \A d \in state.deps[t] : state.st[d] = "Done"

LEMMA NoStartReady ==
  ASSUME NoStart(state, state') PROVE StartsReady
  BY DEF NoStart, StartsReady

\* Growth keeps what a round remembers of the tasks it has left.
LEMMA LeftStays ==
  ASSUME state \in GoalStates, state' \in GoalStates, Grows(state, state'),
         handler.left \in SUBSET Tasks, handler'.left \subseteq handler.left,
         \A t \in handler.left : /\ t <= state.n
                                 /\ \A d \in state.deps[t] : state.st[d] = "Done"
  PROVE  \A t \in handler'.left : /\ t <= state'.n
                                  /\ \A d \in state'.deps[t] : state'.st[d] = "Done"
<1>1. state.n \in Nat /\ state'.n \in Nat /\ state.deps \in [Tasks -> SUBSET Tasks]
  BY DEF GoalStates
<1>2. /\ \A t \in Tasks : t \in Nat
      /\ \A t \in Tasks : \A d \in state.deps[t] : d \in Tasks
  <2>1. \A t \in Tasks : t \in Nat
    BY DEF Tasks
  <2>2. \A t \in Tasks : state.deps[t] \in SUBSET Tasks
    BY <1>1
  <2> QED BY <2>1, <2>2
<1> SUFFICES ASSUME NEW t \in handler'.left
             PROVE  /\ t <= state'.n
                    /\ \A d \in state'.deps[t] : state'.st[d] = "Done"
  OBVIOUS
<1>3. t \in Tasks /\ t <= state.n /\ state'.deps[t] = state.deps[t]
  BY DEF Grows
<1>4. t <= state'.n
  BY <1>1, <1>2, <1>3 DEF Grows
<1> QED BY <1>2, <1>3, <1>4 DEF Grows

LEMMA DriveStepInv ==
  ASSUME TypeInv, GatesInv, DriveStep
  PROVE  GatesInv' /\ StartsReady
<1>1. /\ state \in GoalStates /\ handler \in Handlers /\ FrameOK
      /\ GoalInv(state) /\ AllWoken(state) /\ RoundInv /\ NoStart(state, state)
      /\ state' \in GoalStates /\ state'.n <= MaxTasks
  BY DriveStepType DEF TypeInv, TypeOK, GatesInv, NoStart, Follows
<1>2. ASSUME handler' = NoHandler \/ \E r : handler' = DriveFrame(r)
      PROVE  RoundInv'
  <2>1. CASE handler' = NoHandler
    BY <2>1 DEF NoHandler, RoundInv
  <2>2. ASSUME NEW r, handler' = DriveFrame(r) PROVE RoundInv'
    <3>1. handler'.pc = "drive"
      BY <2>2 DEF NoHandler, DriveFrame
    <3> QED BY <3>1 DEF RoundInv
  <2> QED BY <1>2, <2>1, <2>2
<1>3. ASSUME state' = state PROVE GoalInv(state') /\ AllWoken(state') /\ StartsReady
  BY <1>1, <1>3, NoStartReady
<1>4. ASSUME Preserves(state, state')
      PROVE  GoalInv(state') /\ AllWoken(state') /\ StartsReady
  BY <1>1, <1>4, NoStartReady DEF Preserves
<1>5. CASE DriveStops
  BY <1>2, <1>3, <1>5 DEF DriveStops, Persist, Return, GatesInv
<1>6. CASE BudgetExhausted
  <2> DEFINE h == [state EXCEPT !.status = "Blocked",
                                !.st = Put(@, OpenTasks(state), "Blocked")]
  <2>1. state' = h /\ handler' = NoHandler
    BY <1>6 DEF BudgetExhausted, Persist, Return
  <2>2. /\ h.st = Put(state.st, OpenTasks(state), "Blocked") /\ h.n = state.n
        /\ h.parent = state.parent /\ h.timedOut = state.timedOut
        /\ h.attempts = state.attempts /\ h.approvals = state.approvals
        /\ h.thunks = state.thunks
    BY <1>1 DEF GoalStates
  <2>3. /\ OpenTasks(state) \in SUBSET Tasks
        /\ \A u \in OpenTasks(state) : state.st[u] # "Unborn"
    BY DEF OpenTasks, Open
  <2> HIDE DEF h
  <2>4. GoalInv(h) /\ AllWoken(h) /\ NoStart(state, h)
    BY <1>1, <2>1, <2>2, <2>3, PutMovesInv
  <2> QED BY <1>2, <2>1, <2>4, NoStartReady DEF GatesInv
<1>7. CASE SnapshotFrontier
  <2>1. /\ handler' = [handler EXCEPT !.pc = "tasks", !.left = RunnableTasks(state)]
        /\ state' = state
    BY <1>7 DEF SnapshotFrontier
  <2>2. handler'.pc = "tasks" /\ handler'.left = RunnableTasks(state)
    BY <1>1, <2>1 DEF Handlers
  <2>3. state.n \in Nat /\ \A t \in Tasks : t \in Nat
    BY <1>1 DEF GoalStates, Tasks
  <2>4. RoundInv'
    BY <1>1, <2>1, <2>2, <2>3 DEF RoundInv, RunnableTasks, GoalInv, PoolInv
  <2> QED BY <1>3, <2>1, <2>4 DEF GatesInv
<1>8. CASE ExtendFrontier
  <2> DEFINE r == EnsureReviewFrontier(state)
  <2>1. CASE ~r.ok
    BY <1>2, <1>3, <1>8, <2>1 DEF ExtendFrontier, Persist, Return, GatesInv
  <2>2. CASE r.ok /\ r.spawned
    <3>1. state' = r.state /\ r.state.n <= MaxTasks
          /\ handler' = DriveFrame(handler.round + 1)
      BY <1>8, <2>2 DEF ExtendFrontier, Persist
    <3>2. Preserves(state, state')
      BY <1>1, <3>1, EnsureReviewFrontierPreserves
    <3> QED BY <1>2, <1>4, <3>1, <3>2 DEF GatesInv
  <2>3. CASE r.ok /\ ~r.spawned
    <3> DEFINE h == [r.state EXCEPT !.status = FrontierIdleStatus(r.state)]
    <3>1. state' = h /\ handler' = NoHandler
      BY <1>8, <2>3 DEF ExtendFrontier, Persist, Return
    <3>2. r.state.n <= MaxTasks
      <4>1. h.n <= MaxTasks
        BY <1>1, <3>1
      <4>2. h.n = r.state.n
        <5> HIDE DEF r
        <5> QED OBVIOUS
      <4> QED BY <4>1, <4>2
    <3>3. Preserves(state, r.state) /\ r.state \in GoalStates
      BY <1>1, <3>2, EnsureReviewFrontierPreserves DEF Preserves
    <3>4. Kept(r.state, h)
      <4> HIDE DEF r
      <4> QED BY <3>3 DEF GoalStates, Kept
    <3>5. Preserves(r.state, state')
      <4> HIDE DEF h, r
      <4> QED BY <1>1, <3>1, <3>3, <3>4, KeptPreserves
    <3>6. Preserves(state, state')
      <4> HIDE DEF r
      <4> QED BY <1>1, <3>3, <3>5, PreservesTrans
    <3> QED BY <1>2, <1>4, <3>1, <3>6 DEF GatesInv
  <2> HIDE DEF r
  <2> QED BY <2>1, <2>2, <2>3
<1>9. CASE FrontierLimit
  <2>1. state' = [state EXCEPT !.status = "Blocked"] /\ handler' = NoHandler
    BY <1>9 DEF FrontierLimit, Persist, Return
  <2>2. Kept(state, state')
    BY <1>1, <2>1 DEF GoalStates, Kept
  <2> QED BY <1>1, <1>2, <1>4, <2>1, <2>2, KeptPreserves DEF GatesInv
<1>10. CASE EndRound
  BY <1>2, <1>3, <1>10 DEF EndRound, GatesInv
<1>11. CASE DispatchTask
  <2>1. PICK t \in handler.left :
        \/ Persist(state) /\ Return
        \/ /\ ~DispatchDenied(t) /\ MustWaitForApproval(state, t)
           /\ Persist(RequestApproval(state, t)) /\ Return
        \/ /\ ~DispatchDenied(t) /\ ~MustWaitForApproval(state, t)
           /\ Persist(MarkRunning(state, t))
           /\ Project([handler EXCEPT !.pc = "running", !.task = t, !.left = @ \ {t}])
    BY <1>11 DEF DispatchTask
  <2>2. handler.pc = "tasks" /\ t \in Tasks /\ handler.left \in SUBSET Tasks
    BY <1>1, <1>11 DEF DispatchTask, InRound, Handlers
  <2>3. CASE Persist(state) /\ Return
    BY <1>2, <1>3, <2>3 DEF Persist, Return, GatesInv
  <2>4. CASE /\ ~DispatchDenied(t) /\ MustWaitForApproval(state, t)
             /\ Persist(RequestApproval(state, t)) /\ Return
    <3>1. state' = RequestApproval(state, t) /\ handler' = NoHandler /\ Open(state, t)
      BY <2>4 DEF Persist, Return, DispatchDenied
    <3>2. GoalInv(state') /\ AllWoken(state') /\ NoStart(state, state')
      BY <1>1, <2>2, <2>4, <3>1, RequestApprovalInv
    <3> QED BY <1>2, <3>1, <3>2, NoStartReady DEF GatesInv
  <2>5. CASE /\ ~DispatchDenied(t) /\ ~MustWaitForApproval(state, t)
             /\ Persist(MarkRunning(state, t))
             /\ Project([handler EXCEPT !.pc = "running", !.task = t, !.left = @ \ {t}])
    <3>1. /\ state' = MarkRunning(state, t) /\ MarkRunningOk(state, t)
          /\ ~AttemptRejected(state, t)
      BY <2>5 DEF Persist, DispatchDenied
    <3>2. /\ GoalInv(state') /\ AllWoken(state') /\ Grows(state, state')
          /\ state'.st[t] = "Running"
          /\ \A u \in Tasks \ {t} : state'.st[u] = state.st[u]
      BY <1>1, <2>2, <2>5, <3>1, MarkRunningInv
    <3>3. StartsReady
      BY <1>1, <2>2, <3>2 DEF StartsReady, RoundInv
    <3>4. RoundInv'
      <4>1. CASE handler' = NoHandler
        BY <1>2, <4>1
      <4>2. CASE handler' = [handler EXCEPT !.pc = "running", !.task = t, !.left = @ \ {t}]
        <5>1. handler'.pc = "running" /\ handler'.task = t
              /\ handler'.left = handler.left \ {t}
          BY <1>1, <4>2 DEF Handlers
        <5>2. \A u \in handler'.left : /\ u <= state'.n
                                       /\ \A d \in state'.deps[u] : state'.st[d] = "Done"
          BY <1>1, <2>2, <3>2, <5>1, LeftStays DEF RoundInv
        <5> QED BY <3>2, <5>1, <5>2 DEF RoundInv
      <4> QED BY <2>5, <4>1, <4>2 DEF Project, Return
    <3> QED BY <3>2, <3>3, <3>4 DEF GatesInv
  <2> QED BY <2>1, <2>3, <2>4, <2>5
<1>12. CASE WorkerAnswers
  <2>1. handler.pc = "running"
    BY <1>12 DEF WorkerAnswers
  <2>2. PICK o \in Outcomes :
        \/ Persist(state) /\ Return
        \/ /\ ApplyAgentResultOk(state, handler.task, o)
           /\ Persist(ApplyAgentResult(state, handler.task, o))
           /\ handler' = [handler EXCEPT !.pc = "validating", !.answer = o]
    BY <1>12 DEF WorkerAnswers
  <2>3. handler.task \in Tasks /\ o \in Outcome /\ state.st[handler.task] = "Running"
        /\ handler.left \in SUBSET Tasks
    BY <1>1, <2>1, WorkflowConstantsOK DEF FrameOK, RoundInv, Handlers
  <2>4. CASE Persist(state) /\ Return
    BY <1>2, <1>3, <2>4 DEF Persist, Return, GatesInv
  <2>5. CASE /\ ApplyAgentResultOk(state, handler.task, o)
             /\ Persist(ApplyAgentResult(state, handler.task, o))
             /\ handler' = [handler EXCEPT !.pc = "validating", !.answer = o]
    <3>1. state' = ApplyAgentResult(state, handler.task, o)
      BY <2>5 DEF Persist
    <3>2. /\ GoalInv(state') /\ AllWoken(state') /\ Grows(state, state')
          /\ NoStart(state, state') /\ ~PendingFor(state'.approvals, handler.task)
          /\ o.status = "Waiting" => Waker(state', handler.task)
      BY <1>1, <2>3, <2>5, <3>1, ApplyAgentResultInv
    <3>3. /\ handler'.pc = "validating" /\ handler'.answer = o
          /\ handler'.task = handler.task /\ handler'.left = handler.left
      BY <1>1, <2>5 DEF Handlers
    <3>4. \A u \in handler'.left : /\ u <= state'.n
                                   /\ \A d \in state'.deps[u] : state'.st[d] = "Done"
      BY <1>1, <2>1, <2>3, <3>2, <3>3, LeftStays DEF RoundInv
    <3>5. RoundInv'
      BY <3>2, <3>3, <3>4 DEF RoundInv
    <3> QED BY <3>2, <3>5, NoStartReady DEF GatesInv
  <2> QED BY <2>2, <2>4, <2>5
<1>13. CASE ApplyReport
  <2> DEFINE t == handler.task
             o == handler.answer
             g1 == ApplyValidation(state, t, o)
             g2 == IF o.status = "TimedOut" THEN RecordTimeout(g1, t) ELSE g1
             frame == [handler EXCEPT !.pc = "tasks", !.task = NoTask,
                                      !.answer = NoAnswer]
  <2>1. handler.pc = "validating"
    BY <1>13 DEF ApplyReport
  <2>2. \/ Persist(state) /\ Return
        \/ /\ ApplyValidationOk(state, t)
           /\ Persist(EnsureReviewFrontier(g2).state) /\ Project(frame)
    BY <1>13 DEF ApplyReport
  <2>3. t \in Tasks /\ o \in Outcome /\ handler.left \in SUBSET Tasks
    BY <1>1, <2>1, WorkflowConstantsOK DEF FrameOK, Handlers
  <2>4. CASE Persist(state) /\ Return
    BY <1>2, <1>3, <2>4 DEF Persist, Return, GatesInv
  <2>5. CASE /\ ApplyValidationOk(state, t)
             /\ Persist(EnsureReviewFrontier(g2).state) /\ Project(frame)
    <3>1. /\ Open(state, t) /\ ~PendingFor(state.approvals, t)
          /\ o.status = "Waiting" => Waker(state, t)
      BY <1>1, <2>1, <2>5 DEF ApplyValidationOk, RoundInv
    <3>2. /\ GoalInv(g1) /\ AllWoken(g1) /\ Grows(state, g1) /\ NoStart(state, g1)
          /\ g1.approvals = state.approvals /\ g1.st[t] = StatusAfterValidation(o)
      BY <1>1, <2>3, <3>1, ApplyValidationInv
    <3>3. g1 \in GoalStates
      BY <1>1, <2>3, ApplyValidationType DEF Follows
    <3> HIDE DEF g1
    <3>4. /\ g2 \in GoalStates /\ GoalInv(g2) /\ AllWoken(g2)
          /\ Grows(state, g2) /\ NoStart(state, g2)
      <4>1. CASE o.status = "TimedOut"
        <5>1. g1.st[t] = "Failed"
          BY <3>2, <4>1 DEF StatusAfterValidation
        <5>2. ~PendingFor(g1.approvals, t)
          BY <3>1, <3>2
        <5>3. LET h == RecordTimeout(g1, t)
              IN  GoalInv(h) /\ AllWoken(h) /\ Grows(g1, h) /\ NoStart(g1, h)
          BY <2>3, <3>2, <3>3, <5>1, <5>2, RecordTimeoutInv
        <5>4. RecordTimeout(g1, t) \in GoalStates
          BY <2>3, <3>3, RecordTimeoutType DEF Follows
        <5> QED BY <1>1, <3>2, <3>3, <4>1, <5>3, <5>4, GrowsTrans, NoStartTrans
      <4>2. CASE o.status # "TimedOut"
        BY <3>2, <3>3, <4>2
      <4> QED BY <4>1, <4>2
    <3> HIDE DEF g2
    <3>5. state' = EnsureReviewFrontier(g2).state /\ state'.n <= MaxTasks
      BY <1>1, <2>5 DEF Persist
    <3>6. Preserves(g2, state')
      BY <3>4, <3>5, EnsureReviewFrontierPreserves
    <3>7. /\ GoalInv(state') /\ AllWoken(state') /\ Grows(state, state')
          /\ NoStart(state, state')
      BY <1>1, <3>4, <3>6, GrowsTrans, NoStartTrans DEF Preserves
    <3>8. RoundInv'
      <4>1. CASE handler' = NoHandler
        BY <1>2, <4>1
      <4>2. CASE handler' = frame
        <5>1. handler'.pc = "tasks" /\ handler'.left = handler.left
          BY <1>1, <4>2 DEF Handlers
        <5>2. \A u \in handler'.left : /\ u <= state'.n
                                       /\ \A d \in state'.deps[u] : state'.st[d] = "Done"
          BY <1>1, <2>1, <2>3, <3>7, <5>1, LeftStays DEF RoundInv
        <5> QED BY <5>1, <5>2 DEF RoundInv
      <4> QED BY <2>5, <4>1, <4>2 DEF Project, Return
    <3> QED BY <3>7, <3>8, NoStartReady DEF GatesInv
  <2> QED BY <2>2, <2>4, <2>5
<1> QED
  BY <1>5, <1>6, <1>7, <1>8, <1>9, <1>10, <1>11, <1>12, <1>13 DEF DriveStep

LEMMA GatesInvNext ==
  ASSUME TypeInv, GatesInv, [Next]_vars
  PROVE  GatesInv' /\ [StartsReady]_vars
<1>1. CASE UNCHANGED vars
  BY <1>1 DEF vars, GatesInv, GoalInv, PoolInv, ApprovalInv, GateInv, AllWoken,
     RoundInv
<1>2. CASE ControlHandlers
  BY <1>2, ControlHandlersInv, NoStartReady
<1>3. CASE DriveStep
  BY <1>3, DriveStepInv
<1> QED
  BY <1>1, <1>2, <1>3 DEF Next, Quiescent

LEMMA GatesInvAlways == Spec => []GatesInv
<1>1. TypeInv /\ GatesInv /\ [Next]_vars => GatesInv'
  BY GatesInvNext
<1>2. TypeInv /\ [Next]_vars => TypeInv'
  BY TypeInvNext
<1> QED
  BY TypeInvInit, GatesInvInit, <1>1, <1>2, PTL DEF Spec

\* A pending approval asks about the attempt its task would make next, whatever
\* steering, restarts and answers came between the question and the decision.
THEOREM ApprovalsCurrent == Spec => []PendingApprovalIsCurrent
<1>1. GatesInv => PendingApprovalIsCurrent
  BY DEF GatesInv, GoalInv, ApprovalInv, Current, PendingApprovalIsCurrent
<1> QED BY GatesInvAlways, <1>1, PTL

\* No gated task is with a worker or the validator on an approval that was
\* granted for another attempt.
THEOREM GatesHold == Spec => []GatedRunsApproved
<1>1. GatesInv => GatedRunsApproved
  BY DEF GatesInv, GoalInv, GateInv, ApprovedNow, GatedRunsApproved
<1> QED BY GatesInvAlways, <1>1, PTL

\* No task waits without a pending approval or thunk, or a child, to wake it.
THEOREM WaitsWoken == Spec => []WaitsHaveAWakeup
<1>1. GatesInv => WaitsHaveAWakeup
  BY DEF GatesInv, AllWoken, Woken, Waker, WaitsHaveAWakeup
<1> QED BY GatesInvAlways, <1>1, PTL

\* The round's loop dispatches from a snapshot that earlier tasks of the round
\* have changed, and still starts no task before its dependencies are Done.
THEOREM DependenciesFirst == Spec => DispatchRespectsDependencies
<1>1. TypeInv /\ GatesInv /\ [Next]_vars =>
        [\A t \in Tasks : state.st[t] # "Running" /\ state'.st[t] = "Running" =>
            \A d \in state.deps[t] : state.st[d] = "Done"]_vars
  BY GatesInvNext DEF StartsReady
<1>2. TypeInv /\ [Next]_vars => TypeInv'
  BY TypeInvNext
<1> QED
  BY TypeInvInit, GatesInvAlways, <1>1, <1>2, PTL
  DEF Spec, DispatchRespectsDependencies
-----------------------------------------------------------------------------
(* Reviews: a Done goal holds no unreviewed work.  Most operators of       *)
(* GoalState cannot finish a task or a goal (Tame); the two that can, a    *)
(* validation and the review frontier, run in one step, and the frontier   *)
(* leaves a settled goal (Settled).                                        *)

Closed(g) == \A t \in Tasks : ~Open(g, t)
Reviewed(g) == \A t \in DoneTasks(g, WorkLike) :
                    \E i \in DOMAIN g.rounds : t \in g.rounds[i].subjects
MoreReviews(g) == ReviewEnabled /\ Len(g.rounds) < MaxReviewRounds

\* Nothing is left to do, or the goal says so.
AtRest(g) == g.status # "Cancelled" /\ (Closed(g) \/ g.status = "Done")
Settled(g) == MoreReviews(g) /\ AtRest(g) => Reviewed(g)

\* What is known of a goal even between a validation and the frontier.
Purposes(g) == /\ g.purpose[Root] = "Work"
               /\ \A t \in Tasks : g.purpose[t] \in WorkLike => t <= g.n
NoneCancelled(g) == g.status # "Cancelled" => \A t \in Tasks : g.st[t] # "Cancelled"

\* A round that is not unified still has an open reviewer or unifier, or is
\* ready to be unified.
RoundOK(g, r) ==
    /\ r.reviewers # {} /\ \A t \in r.reviewers : t <= g.n
    /\ r.status = "ReviewsSpawned" => r.unifier = NoTask
    /\ r.status = "ReadyForUnification" =>
          /\ r.unifier \in Tasks /\ r.unifier <= g.n
          /\ g.purpose[r.unifier] = "Unification" /\ g.st[r.unifier] # "Done"
RoundsOK(g) == \A i \in DOMAIN g.rounds : RoundOK(g, g.rounds[i])

Structure(g) == Purposes(g) /\ NoneCancelled(g) /\ RoundsOK(g)
ReviewInv(g) == Structure(g) /\ Settled(g)
-----------------------------------------------------------------------------
(* Operators that finish nothing *)

\* h has the tasks of g, some of them perhaps opened again, and new open ones.
Tame(g, h) ==
    /\ h.rounds = g.rounds /\ g.n <= h.n
    /\ \A t \in Tasks : t <= g.n => h.purpose[t] = g.purpose[t]
    /\ \A t \in Tasks : h.n < t => h.purpose[t] = g.purpose[t]
    /\ \A t \in Tasks : h.st[t] = g.st[t] \/ Open(h, t)
    /\ h.status # "Cancelled" => g.status # "Cancelled"
    /\ AtRest(h) => AtRest(g)

LEMMA TameTrans ==
  ASSUME NEW g \in GoalStates, NEW h \in GoalStates, NEW k \in GoalStates,
         Tame(g, h), Tame(h, k)
  PROVE  Tame(g, k)
<1>1. g.n \in Nat /\ h.n \in Nat /\ k.n \in Nat /\ Tasks \subseteq Nat
  BY DEF GoalStates, Tasks
<1>2. \A t \in Tasks : t <= g.n => t <= h.n
  BY <1>1 DEF Tame
<1>3. \A t \in Tasks : k.n < t => h.n < t
  BY <1>1 DEF Tame
<1>4. g.n <= k.n
  BY <1>1 DEF Tame
<1>5. \A t \in Tasks : k.st[t] = g.st[t] \/ Open(k, t)
  BY DEF Tame, Open
<1> QED BY <1>2, <1>3, <1>4, <1>5 DEF Tame

LEMMA TameStructure ==
  ASSUME NEW g \in GoalStates, NEW h \in GoalStates, Tame(g, h), Structure(g)
  PROVE  Structure(h)
<1>1. g.n \in Nat \ {0} /\ h.n \in Nat /\ Tasks \subseteq Nat /\ Root \in Tasks
  BY RootIsTask DEF GoalStates, Tasks
<1>2. Purposes(h)
  <2>1. Root <= g.n
    BY <1>1 DEF Root
  <2>2. ASSUME NEW t \in Tasks, h.purpose[t] \in WorkLike PROVE t <= h.n
    BY <1>1, <2>2 DEF Tame, Structure, Purposes
  <2> QED BY <1>1, <2>1, <2>2 DEF Tame, Structure, Purposes
<1>3. NoneCancelled(h)
  BY DEF Tame, Structure, NoneCancelled, Open, Terminal
<1>4. RoundsOK(h)
  <2> SUFFICES ASSUME NEW i \in DOMAIN g.rounds PROVE RoundOK(h, g.rounds[i])
    BY DEF Tame, RoundsOK
  <2>1. RoundOK(g, g.rounds[i]) /\ g.rounds[i].reviewers \in SUBSET Tasks
    BY RoundType DEF Structure, RoundsOK, ReviewRound
  <2>2. \A t \in Tasks : t <= g.n => t <= h.n
    BY <1>1 DEF Tame
  <2>3. \A t \in Tasks : h.st[t] = "Done" => g.st[t] = "Done"
    BY DEF Tame, Open, Terminal
  <2> QED BY <2>1, <2>2, <2>3 DEF RoundOK, Tame
<1> QED BY <1>2, <1>3, <1>4 DEF Structure

LEMMA TameInv ==
  ASSUME NEW g \in GoalStates, NEW h \in GoalStates, Tame(g, h), PoolInv(g), ReviewInv(g)
  PROVE  ReviewInv(h)
<1>1. g.n \in Nat /\ Tasks \subseteq Nat
  BY DEF GoalStates, Tasks
<1>2. DoneTasks(h, WorkLike) \subseteq DoneTasks(g, WorkLike)
  <2> SUFFICES ASSUME NEW t \in Tasks, h.purpose[t] \in WorkLike, h.st[t] = "Done"
               PROVE  g.purpose[t] \in WorkLike /\ g.st[t] = "Done"
    BY DEF DoneTasks
  <2>1. g.st[t] = "Done"
    BY DEF Tame, Open, Terminal
  <2>2. t <= g.n
    BY <1>1, <2>1 DEF PoolInv
  <2> QED BY <2>1, <2>2 DEF Tame
<1>3. Settled(h)
  BY <1>2 DEF ReviewInv, Settled, MoreReviews, Reviewed, Tame
<1> QED BY <1>3, TameStructure DEF ReviewInv

\* What a handler that ends without a round of drive_state does to a goal.
NothingDone(g) == \A t \in Tasks : g.st[t] # "Done"
Spares(g, h) == /\ ReviewInv(g) => ReviewInv(h)
                /\ NothingDone(g) => NothingDone(h)

LEMMA TameSpares ==
  ASSUME NEW g \in GoalStates, NEW h \in GoalStates, Tame(g, h), PoolInv(g)
  PROVE  Spares(g, h)
<1>1. NothingDone(g) => NothingDone(h)
  BY DEF Tame, NothingDone, Open, Terminal
<1> QED BY <1>1, TameInv DEF Spares

\* A refresh finishes a goal only when every task is closed already.
LEMMA RefreshFields ==
  ASSUME NEW g \in GoalStates
  PROVE  LET h == RefreshGoalStatus(g)
         IN  /\ h \in GoalStates /\ h.rounds = g.rounds /\ h.n = g.n
             /\ h.purpose = g.purpose /\ h.st = g.st
             /\ (h.status = "Cancelled") = (g.status = "Cancelled")
             /\ h.status # "Cancelled" /\ (h.status = "Done" \/ h.satisfied) => Closed(g)
<1>1. RefreshGoalStatus(g) \in GoalStates
  BY RefreshType DEF Follows
<1>2. CASE g.status = "Cancelled"
  BY <1>1, <1>2 DEF RefreshGoalStatus
<1>3. CASE g.status # "Cancelled"
  <2> DEFINE s == StoppedStatus(g, Any(g, "WaitingInput"),
                                IF Satisfied(g) THEN "Done" ELSE "Running")
  <2>1. RefreshGoalStatus(g) = [g EXCEPT !.satisfied = Satisfied(g), !.status = s]
    BY <1>3 DEF RefreshGoalStatus
  <2>2. s # "Cancelled" /\ (s = "Done" => Satisfied(g))
    BY DEF StoppedStatus
  <2>3. Satisfied(g) => Closed(g)
    BY DEF Satisfied, Closed
  <2> HIDE DEF s
  <2> QED BY <1>1, <1>3, <2>1, <2>2, <2>3 DEF GoalStates
<1> QED BY <1>2, <1>3

LEMMA RefreshTame ==
  ASSUME NEW g \in GoalStates
  PROVE  Tame(g, RefreshGoalStatus(g))
<1> DEFINE h == RefreshGoalStatus(g)
<1>1. /\ h \in GoalStates /\ h.rounds = g.rounds /\ h.n = g.n
      /\ h.purpose = g.purpose /\ h.st = g.st
      /\ (h.status = "Cancelled") = (g.status = "Cancelled")
      /\ h.status # "Cancelled" /\ (h.status = "Done" \/ h.satisfied) => Closed(g)
  BY RefreshFields
<1> HIDE DEF h
<1>2. g.n <= h.n
  BY <1>1 DEF GoalStates
<1>3. Tame(g, h)
  BY <1>1, <1>2 DEF Tame, AtRest, Closed, Open
<1> QED BY <1>3 DEF h

LEMMA KeepsTame ==
  ASSUME NEW g \in GoalStates, NEW h \in GoalStates, h.rounds = g.rounds, h.n = g.n,
         h.purpose = g.purpose, h.status = g.status,
         \A t \in Tasks : h.st[t] = g.st[t] \/ Open(h, t)
  PROVE  Tame(g, h)
<1>1. g.n <= h.n
  BY DEF GoalStates
<1>2. Closed(h) => Closed(g)
  BY DEF Closed, Open
<1> QED BY <1>1, <1>2 DEF Tame, AtRest

LEMMA StatusTame ==
  ASSUME NEW g \in GoalStates, NEW x \in GoalStatus, x # "Cancelled",
         g.status # "Cancelled", x = "Done" => AtRest(g)
  PROVE  /\ [g EXCEPT !.status = x] \in GoalStates
         /\ Tame(g, [g EXCEPT !.status = x])
<1> DEFINE h == [g EXCEPT !.status = x]
<1>1. /\ h \in GoalStates /\ h.rounds = g.rounds /\ h.n = g.n
      /\ h.purpose = g.purpose /\ h.status = x /\ h.st = g.st
  BY DEF GoalStates
<1>2. g.n <= g.n
  BY DEF GoalStates
<1> HIDE DEF h
<1>3. Tame(g, h)
  BY <1>1, <1>2 DEF Tame, AtRest, Closed, Open
<1> QED BY <1>1, <1>3 DEF h

\* The common case: such a change, then a refresh.
LEMMA KeepsRefreshTame ==
  ASSUME NEW g \in GoalStates, NEW h \in GoalStates, Tame(g, h)
  PROVE  Tame(g, RefreshGoalStatus(h))
  BY RefreshTame, RefreshFields, TameTrans

LEMMA RequestApprovalTame ==
  ASSUME NEW g \in GoalStates, NEW t \in Tasks
  PROVE  Tame(g, RequestApproval(g, t))
<1> DEFINE st == [g.st EXCEPT ![t] = "WaitingApproval"]
           as == g.approvals \cup {[task |-> t, status |-> "Pending",
                                    attempt |-> g.attempts[t] + 1]}
           h == [g EXCEPT !.st = st, !.approvals = as]
<1>1. RequestApproval(g, t) = RefreshGoalStatus(h)
  BY DEF RequestApproval
<1>2. st \in [Tasks -> TaskStatus \cup {"Unborn"}] /\ as \in SUBSET Approval
  BY DEF GoalStates, TaskStatus, Approval
<1>3. \A u \in Tasks : st[u] = g.st[u] \/ st[u] = "WaitingApproval"
  BY DEF GoalStates
<1> HIDE DEF st, as
<1>4. /\ h \in GoalStates /\ h.rounds = g.rounds /\ h.n = g.n
      /\ h.purpose = g.purpose /\ h.status = g.status /\ h.st = st
  BY <1>2 DEF GoalStates
<1> HIDE DEF h
<1>5. Tame(g, h)
  BY <1>3, <1>4, KeepsTame DEF Open, Terminal
<1> QED BY <1>1, <1>4, <1>5, KeepsRefreshTame

LEMMA MarkRunningTame ==
  ASSUME NEW g \in GoalStates, NEW t \in Tasks
  PROVE  Tame(g, MarkRunning(g, t))
<1> DEFINE h == MarkRunning(g, t)
<1>1. /\ h \in GoalStates /\ h.rounds = g.rounds /\ h.n = g.n
      /\ h.purpose = g.purpose /\ h.status = g.status
      /\ \A u \in Tasks : h.st[u] = g.st[u] \/ h.st[u] = "Running"
  <2>1. [g.st EXCEPT ![t] = "Running"] \in [Tasks -> TaskStatus \cup {"Unborn"}]
    BY DEF GoalStates, TaskStatus
  <2>2. h.st = [g.st EXCEPT ![t] = "Running"] /\ g.st \in [Tasks -> TaskStatus \cup {"Unborn"}]
    BY DEF MarkRunning, GoalStates
  <2>3. \A u \in Tasks : h.st[u] = g.st[u] \/ h.st[u] = "Running"
    BY <2>2
  <2>4. h.rounds = g.rounds /\ h.n = g.n /\ h.purpose = g.purpose /\ h.status = g.status
    BY DEF MarkRunning, GoalStates
  <2>5. h \in GoalStates
    BY MarkRunningType DEF Follows
  <2> QED BY <2>3, <2>4, <2>5
<1> HIDE DEF h
<1>2. Tame(g, h)
  BY <1>1, KeepsTame DEF Open, Terminal
<1> QED BY <1>2 DEF h

LEMMA ApplyHumanApprovalTame ==
  ASSUME NEW g \in GoalStates, NEW a \in g.approvals, NEW approved \in BOOLEAN
  PROVE  Tame(g, ApplyHumanApproval(g, a, approved))
<1> DEFINE answer == IF approved THEN "Approved" ELSE "Rejected"
           as == (g.approvals \ {a}) \cup {[a EXCEPT !.status = answer]}
           s == IF ~approved THEN "Blocked"
                ELSE IF g.st[a.task] \in {"WaitingApproval", "Blocked"}
                     THEN "Runnable" ELSE g.st[a.task]
           st == [g.st EXCEPT ![a.task] = s]
           h == [g EXCEPT !.approvals = as, !.st = st]
<1>1. a \in Approval /\ a.task \in Tasks
  BY DEF GoalStates, Approval
<1>2. ApplyHumanApproval(g, a, approved) = RefreshGoalStatus(h)
  BY DEF ApplyHumanApproval
<1>3. as \in SUBSET Approval
  BY <1>1 DEF GoalStates, Approval
<1>4. st \in [Tasks -> TaskStatus \cup {"Unborn"}]
  BY <1>1 DEF GoalStates, TaskStatus
<1>5. \A u \in Tasks : st[u] = g.st[u] \/ st[u] \in {"Blocked", "Runnable"}
  BY <1>1 DEF GoalStates
<1> HIDE DEF st, as
<1>6. /\ h \in GoalStates /\ h.rounds = g.rounds /\ h.n = g.n
      /\ h.purpose = g.purpose /\ h.status = g.status /\ h.st = st
  BY <1>3, <1>4 DEF GoalStates
<1> HIDE DEF h
<1>7. Tame(g, h)
  BY <1>5, <1>6, KeepsTame DEF Open, Terminal
<1> QED BY <1>2, <1>6, <1>7, KeepsRefreshTame

LEMMA CreateThunkTame ==
  ASSUME NEW g \in GoalStates, NEW t \in Tasks \cup {NoTask},
         NEW kind \in {"approval", "input"}, NEW cont \in Tasks \cup {NoTask}
  PROVE  Tame(g, CreateThunk(g, t, kind, cont))
<1> DEFINE wait == IF kind = "approval" THEN "WaitingApproval" ELSE "WaitingInput"
           st == Put(g.st, {t}, wait)
           ths == g.thunks \cup {[task |-> t, cont |-> cont, kind |-> kind,
                                  status |-> "Pending"]}
           h == [g EXCEPT !.thunks = ths, !.st = st]
<1>1. Tame(g, g)
  BY KeepsTame
<1>2. CreateThunk(g, t, kind, cont) \in {g, RefreshGoalStatus(h)}
  BY DEF CreateThunk
<1>3. ths \in SUBSET Thunk
  BY DEF GoalStates, Thunk
<1>4. st \in [Tasks -> TaskStatus \cup {"Unborn"}]
  BY PutType DEF GoalStates, TaskStatus
<1>5. \A u \in Tasks : st[u] = g.st[u] \/ st[u] \in {"WaitingApproval", "WaitingInput"}
  BY DEF Put
<1> HIDE DEF st, ths
<1>6. /\ h \in GoalStates /\ h.rounds = g.rounds /\ h.n = g.n
      /\ h.purpose = g.purpose /\ h.status = g.status /\ h.st = st
  BY <1>3, <1>4 DEF GoalStates
<1> HIDE DEF h
<1>7. Tame(g, h)
  BY <1>5, <1>6, KeepsTame DEF Open, Terminal
<1> QED BY <1>1, <1>2, <1>6, <1>7, KeepsRefreshTame

LEMMA ResumeThunkTame ==
  ASSUME NEW g \in GoalStates, NEW w \in g.thunks
  PROVE  Tame(g, ResumeThunk(g, w))
<1> DEFINE woken == WaitingTask(g, w, {"Blocked", "WaitingApproval", "WaitingInput"})
           st == Put(g.st, woken, "Runnable")
           ths == (g.thunks \ {w}) \cup {[w EXCEPT !.status = "Resumed"]}
           h == [g EXCEPT !.thunks = ths, !.st = st]
<1>1. ResumeThunk(g, w) = RefreshGoalStatus(h)
  BY DEF ResumeThunk
<1>2. ths \in SUBSET Thunk
  <2>1. w \in Thunk /\ g.thunks \in SUBSET Thunk
    BY DEF GoalStates
  <2> QED BY <2>1 DEF Thunk
<1>3. st \in [Tasks -> TaskStatus \cup {"Unborn"}]
  BY PutType DEF GoalStates, TaskStatus
<1>4. \A u \in Tasks : st[u] = g.st[u] \/ st[u] = "Runnable"
  BY DEF Put
<1> HIDE DEF st, ths
<1>5. /\ h \in GoalStates /\ h.rounds = g.rounds /\ h.n = g.n
      /\ h.purpose = g.purpose /\ h.status = g.status /\ h.st = st
  BY <1>2, <1>3 DEF GoalStates
<1> HIDE DEF h
<1>6. Tame(g, h)
  BY <1>4, <1>5, KeepsTame DEF Open, Terminal
<1> QED BY <1>1, <1>5, <1>6, KeepsRefreshTame

LEMMA ApplyRestartTame ==
  ASSUME NEW g \in GoalStates, NEW scope, NEW t, NEW reset
  PROVE  Tame(g, ApplyRestart(g, scope, t, reset))
<1> DEFINE ts == RestartTargets(g, scope, t)
           rs == [u \in Tasks |-> IF u \in ts THEN g.restarts[u] + 1 ELSE g.restarts[u]]
           gr == IF scope = "Goal" THEN g.goalRestarts + 1 ELSE g.goalRestarts
           at == Put(g.attempts, IF reset THEN ts ELSE {}, 0)
           st == Put(g.st, ts, "Runnable")
           ths == Retire(g.thunks, ts)
           as == Retire(g.approvals, ts)
           h == [g EXCEPT !.thunks = ths, !.approvals = as, !.st = st, !.attempts = at,
                          !.restarts = rs, !.goalRestarts = gr]
<1>1. ApplyRestart(g, scope, t, reset) = RefreshGoalStatus(h)
  BY DEF ApplyRestart
<1>2. rs \in [Tasks -> Nat] /\ gr \in Nat
  BY DEF GoalStates
<1>3. at \in [Tasks -> Nat]
  BY PutType DEF GoalStates
<1>4. st \in [Tasks -> TaskStatus \cup {"Unborn"}]
  BY PutType DEF GoalStates, TaskStatus
<1>5. ths \in SUBSET Thunk /\ as \in SUBSET Approval
  BY RetireType DEF GoalStates
<1>6. \A u \in Tasks : st[u] = g.st[u] \/ st[u] = "Runnable"
  BY DEF Put
<1> HIDE DEF st, ths, as, rs, gr, at
<1>7. /\ h \in GoalStates /\ h.rounds = g.rounds /\ h.n = g.n
      /\ h.purpose = g.purpose /\ h.status = g.status /\ h.st = st
  BY <1>2, <1>3, <1>4, <1>5 DEF GoalStates
<1> HIDE DEF h
<1>8. Tame(g, h)
  BY <1>6, <1>7, KeepsTame DEF Open, Terminal
<1> QED BY <1>1, <1>7, <1>8, KeepsRefreshTame

LEMMA RecordTimeoutTame ==
  ASSUME NEW g \in GoalStates, NEW t \in Tasks
  PROVE  Tame(g, RecordTimeout(g, t))
<1> DEFINE timed == [g EXCEPT !.timedOut = g.timedOut \cup {t}]
           final(s) == [timed EXCEPT !.st = [timed.st EXCEPT ![t] = s]]
<1>1. /\ timed \in GoalStates /\ timed.rounds = g.rounds /\ timed.n = g.n
      /\ timed.purpose = g.purpose /\ timed.status = g.status /\ timed.st = g.st
  BY DEF GoalStates
<1>2. RecordTimeout(g, t) \in
        {ApplyRestart(timed, "Task", t, ResetOnRestart),
         RefreshGoalStatus(final("Blocked")), RefreshGoalStatus(final("Failed"))}
  BY DEF RecordTimeout
<1> HIDE DEF timed
<1>3. Tame(g, timed)
  BY <1>1, KeepsTame
<1>4. Tame(g, ApplyRestart(timed, "Task", t, ResetOnRestart))
  BY <1>1, <1>3, ApplyRestartTame, ApplyRestartType, TameTrans DEF Follows
<1>5. ASSUME NEW s \in {"Blocked", "Failed"}
      PROVE  Tame(g, RefreshGoalStatus(final(s)))
  <2>1. [timed.st EXCEPT ![t] = s] \in [Tasks -> TaskStatus \cup {"Unborn"}]
    BY <1>1 DEF GoalStates, TaskStatus
  <2>2. /\ final(s) \in GoalStates /\ final(s).rounds = g.rounds /\ final(s).n = g.n
        /\ final(s).purpose = g.purpose /\ final(s).status = g.status
        /\ final(s).st = [timed.st EXCEPT ![t] = s]
    BY <1>1, <2>1 DEF GoalStates
  <2>3. \A u \in Tasks : final(s).st[u] = g.st[u] \/ final(s).st[u] = s
    BY <1>1, <2>2 DEF GoalStates
  <2> HIDE DEF final
  <2>4. Tame(g, final(s))
    BY <2>2, <2>3, KeepsTame DEF Open, Terminal
  <2> QED BY <2>2, <2>4, KeepsRefreshTame
<1> HIDE DEF final
<1> QED BY <1>2, <1>4, <1>5

LEMMA InsertTame ==
  ASSUME NEW g \in GoalStates, NEW p \in Tasks, NEW k \in Nat,
         NEW pu \in TaskPurpose, NEW ds \in SUBSET Tasks,
         NEW gd \in {"none", "output", "security"}
  PROVE  LET h == InsertChildren(g, p, k, pu, ds, gd)
         IN  /\ h \in GoalStates /\ h.n = g.n + k /\ Tame(g, h)
             /\ h.rounds = g.rounds /\ h.status = g.status
             /\ \A t \in NextIds(g, k) : h.purpose[t] = pu /\ h.st[t] = "Runnable"
<1> DEFINE h == InsertChildren(g, p, k, pu, ds, gd)
<1>1. h \in GoalStates
  BY InsertChildrenType DEF Follows
<1>2. /\ h.n = g.n + k /\ h.st = Put(g.st, NextIds(g, k), "Runnable")
      /\ h.purpose = Put(g.purpose, NextIds(g, k), pu)
      /\ h.rounds = g.rounds /\ h.status = g.status
  BY DEF InsertChildren, GoalStates
<1>3. g.n \in Nat /\ Tasks \subseteq Nat
  BY DEF GoalStates, Tasks
<1> HIDE DEF h
<1>4. \A t \in Tasks : t <= g.n \/ h.n < t => h.purpose[t] = g.purpose[t]
  BY <1>2, <1>3 DEF Put, NextIds
<1>5. \A t \in Tasks : h.st[t] = g.st[t] \/ Open(h, t)
  BY <1>2 DEF Put, Open, Terminal
<1>6. AtRest(h) => AtRest(g)
  BY <1>2, <1>5 DEF AtRest, Closed, Open
<1>7. Tame(g, h)
  <2>1. g.n <= h.n
    BY <1>2, <1>3
  <2> QED BY <2>1, <1>2, <1>4, <1>5, <1>6 DEF Tame
<1>8. \A t \in NextIds(g, k) : h.purpose[t] = pu /\ h.st[t] = "Runnable"
  BY <1>2 DEF Put, NextIds
<1> QED BY <1>1, <1>2, <1>7, <1>8 DEF h

LEMMA InsertIfTame ==
  ASSUME NEW g \in GoalStates, NEW h \in GoalStates, Tame(g, h), NEW due,
         NEW p \in Tasks, NEW pu \in TaskPurpose, NEW ds \in SUBSET Tasks,
         NEW gd \in {"none", "output", "security"}
  PROVE  /\ InsertIf(due, h, p, pu, ds, gd) \in GoalStates
         /\ Tame(g, InsertIf(due, h, p, pu, ds, gd))
<1>1. 1 \in Nat
  OBVIOUS
<1>2. /\ InsertChildren(h, p, 1, pu, ds, gd) \in GoalStates
      /\ Tame(h, InsertChildren(h, p, 1, pu, ds, gd))
  BY <1>1, InsertTame
<1>3. Tame(g, InsertChildren(h, p, 1, pu, ds, gd))
  BY <1>2, TameTrans
<1> QED BY <1>2, <1>3 DEF InsertIf

LEMMA ApplyAgentResultTame ==
  ASSUME NEW g \in GoalStates, NEW t \in Tasks, NEW o \in Outcome
  PROVE  Tame(g, ApplyAgentResult(g, t, o))
<1> DEFINE s == StatusAfterResult(g, t, o)
           st == [g.st EXCEPT ![t] = s]
           g1 == [g EXCEPT !.st = st]
           kind == IF o.thunk = "approval" THEN "approval" ELSE "input"
           g2 == IF ~CarriesThunk(g, t, o) THEN g1
                 ELSE CreateThunk(g1, t, kind, ThunkCont(g, t, o))
           g3 == InsertIf("free" \in o.children, g2, t, "Work", {}, "none")
           g4 == InsertIf("after" \in o.children, g3, t, "Work", {t}, "none")
           due(tag) == o.status = "Done" /\ tag \in GuardrailsDue(g, t)
           g5 == InsertIf(due("output"), g4, t, "Review", {t}, "output")
           g6 == InsertIf(due("security"), g5, t, "Review", {t}, "security")
           Good(h) == h \in GoalStates /\ Tame(g, h)
<1> USE DEF TaskPurpose
<1>1. ApplyAgentResult(g, t, o) = RefreshGoalStatus(g6)
  BY DEF ApplyAgentResult
<1>2. s \in {"WaitingApproval", "NeedsValidation", "Runnable", "WaitingInput",
             "Blocked", "Failed"}
  BY DEF StatusAfterResult
<1> HIDE DEF s
<1>3. st \in [Tasks -> TaskStatus \cup {"Unborn"}]
  BY <1>2 DEF GoalStates, TaskStatus
<1>4. \A u \in Tasks : st[u] = g.st[u] \/ st[u] = s
  BY DEF GoalStates
<1> HIDE DEF st
<1>5. /\ g1 \in GoalStates /\ g1.rounds = g.rounds /\ g1.n = g.n
      /\ g1.purpose = g.purpose /\ g1.status = g.status /\ g1.st = st
  BY <1>3 DEF GoalStates
<1> HIDE DEF g1
<1>6. Good(g1)
  BY <1>2, <1>4, <1>5, KeepsTame DEF Open, Terminal
<1>7. Good(g2)
  <2>1. ThunkCont(g, t, o) \in Tasks \cup {NoTask}
    BY DEF ThunkCont
  <2>2. /\ CreateThunk(g1, t, kind, ThunkCont(g, t, o)) \in GoalStates
        /\ Tame(g1, CreateThunk(g1, t, kind, ThunkCont(g, t, o)))
    BY <1>6, <2>1, CreateThunkType, CreateThunkTame DEF Follows
  <2> QED BY <1>6, <2>2, TameTrans
<1> HIDE DEF g2
<1>8. Good(g3)
  BY <1>7, InsertIfTame
<1> HIDE DEF g3
<1>9. Good(g4)
  BY <1>8, InsertIfTame
<1> HIDE DEF g4
<1>10. Good(g5)
  BY <1>9, InsertIfTame
<1> HIDE DEF g5
<1>11. Good(g6)
  BY <1>10, InsertIfTame
<1> HIDE DEF g6
<1> QED BY <1>1, <1>11, KeepsRefreshTame
-----------------------------------------------------------------------------
(* Cancellation and steering *)

LEMMA CancelReview ==
  ASSUME NEW g \in GoalStates
  PROVE  Spares(g, Cancel(g))
<1> DEFINE h == Cancel(g)
<1>1. /\ h.status = "Cancelled" /\ h.purpose = g.purpose /\ h.n = g.n
      /\ h.rounds = g.rounds /\ h.st = Put(g.st, OpenTasks(g), "Cancelled")
  BY DEF Cancel, GoalStates
<1>2. \A t \in Tasks : h.st[t] = "Done" => g.st[t] = "Done"
  BY <1>1 DEF Put
<1> HIDE DEF h
<1>3. Purposes(g) => Purposes(h) /\ NoneCancelled(h) /\ Settled(h)
  BY <1>1 DEF Purposes, NoneCancelled, Settled, AtRest
<1>4. RoundsOK(g) => RoundsOK(h)
  BY <1>1, <1>2 DEF RoundsOK, RoundOK
<1>5. NothingDone(g) => NothingDone(h)
  BY <1>2 DEF NothingDone
<1> QED BY <1>3, <1>4, <1>5 DEF Spares, ReviewInv, Structure, h

LEMMA ApplySteeringReview ==
  ASSUME NEW g \in GoalStates, NEW d \in Directive, g.status # "Cancelled",
         PoolInv(g)
  PROVE  Spares(g, ApplySteering(g, d))
<1> DEFINE inject(purpose, deps) == InsertChildren(g, Root, 1, purpose, deps, "none")
           criteria == IF d.reopen THEN ReopenDoneWork(g) ELSE g
           Good(h) == h \in GoalStates /\ Spares(g, h)
<1>1. ASSUME NEW h, Good(h) PROVE Spares(g, [h EXCEPT !.steers = @ + 1])
  <2> DEFINE k == [h EXCEPT !.steers = @ + 1]
  <2>1. h.steers + 1 \in Nat
    BY <1>1 DEF GoalStates
  <2>2. /\ k \in GoalStates /\ k.rounds = h.rounds /\ k.n = h.n
        /\ k.purpose = h.purpose /\ k.status = h.status /\ k.st = h.st
    BY <1>1, <2>1 DEF GoalStates
  <2> HIDE DEF k
  <2>3. NothingDone(h) => NothingDone(k)
    BY <2>2 DEF NothingDone
  <2>4. ReviewInv(h) => ReviewInv(k)
    BY <2>2 DEF ReviewInv, Structure, Purposes, NoneCancelled, RoundsOK, RoundOK,
       Settled, MoreReviews, AtRest, Closed, Open, Reviewed, DoneTasks
  <2> QED BY <1>1, <2>3, <2>4 DEF k, Spares
<1>2. Good(g)
  BY DEF Spares
<1>3. Good(Cancel(g))
  BY CancelType, CancelReview
<1>4. ASSUME NEW pu \in {"Work", "Research", "Review"}, NEW ds \in SUBSET Tasks
      PROVE  Good(inject(pu, ds))
  <2>1. 1 \in Nat /\ pu \in TaskPurpose /\ "none" \in {"none", "output", "security"}
    BY DEF TaskPurpose
  <2>2. inject(pu, ds) \in GoalStates /\ Tame(g, inject(pu, ds))
    BY <2>1, InsertTame, RootIsTask
  <2> HIDE DEF inject
  <2> QED BY <2>2, TameSpares
<1>5. ASSUME NEW h \in GoalStates, Tame(g, h) PROVE Good(RefreshGoalStatus(h))
  BY <1>5, KeepsRefreshTame, RefreshFields, TameSpares
<1>6. criteria \in GoalStates /\ Tame(g, criteria)
  <2> DEFINE st == Put(g.st, DoneTasks(g, WorkLike), "Runnable")
             k == [g EXCEPT !.st = st]
  <2>1. st \in [Tasks -> TaskStatus \cup {"Unborn"}]
    BY PutType DEF GoalStates, TaskStatus
  <2>2. \A u \in Tasks : st[u] = g.st[u] \/ st[u] = "Runnable"
    BY DEF Put
  <2>3. ReopenDoneWork(g) = k
    BY DEF ReopenDoneWork
  <2> HIDE DEF st
  <2>4. /\ k \in GoalStates /\ k.rounds = g.rounds /\ k.n = g.n
        /\ k.purpose = g.purpose /\ k.status = g.status /\ k.st = st
    BY <2>1 DEF GoalStates
  <2> HIDE DEF k
  <2>5. Tame(g, k)
    BY <2>2, <2>4, KeepsTame DEF Open, Terminal
  <2> QED BY <1>2, <2>3, <2>4, <2>5, KeepsTame
<1> HIDE DEF criteria
<1>7. ASSUME NEW b \in BOOLEAN
      PROVE  /\ [criteria EXCEPT !.scoreOk = b] \in GoalStates
             /\ Tame(g, [criteria EXCEPT !.scoreOk = b])
  <2> DEFINE k == [criteria EXCEPT !.scoreOk = b]
  <2>1. /\ k \in GoalStates /\ k.rounds = criteria.rounds /\ k.n = criteria.n
        /\ k.purpose = criteria.purpose /\ k.status = criteria.status
        /\ k.st = criteria.st
    BY <1>6 DEF GoalStates
  <2> HIDE DEF k
  <2>2. Tame(g, k)
    BY <1>6, <2>1, KeepsTame, TameTrans
  <2> QED BY <2>1, <2>2 DEF k
<1>8. Good(RefreshGoalStatus([criteria EXCEPT !.scoreOk = @ /\ ~d.raise]))
  <2>1. (criteria.scoreOk /\ ~d.raise) \in BOOLEAN
    OBVIOUS
  <2> QED BY <1>5, <1>7, <2>1
<1>9. ASSUME NEW x \in GoalStatus \ Terminal
      PROVE  Good([g EXCEPT !.status = x])
  <2>1. x \in GoalStatus /\ x # "Cancelled" /\ x # "Done"
    BY DEF Terminal
  <2> QED BY <2>1, StatusTame, TameSpares
<1>10. d.kind \in SteeringKinds /\ {d.target} \in SUBSET Tasks /\ g.status \in GoalStatus
  BY DEF Directive, GoalStates
<1>11. /\ Good([g EXCEPT !.status = "Paused"])
       /\ Good([g EXCEPT !.status = IF @ \in {"Paused", "Blocked"}
                                    THEN "Running" ELSE @])
  <2>1. "Paused" \in GoalStatus \ Terminal /\ "Running" \in GoalStatus \ Terminal
    BY DEF GoalStatus, Terminal
  <2>2. [g EXCEPT !.status = g.status] = g
    BY DEF GoalStates
  <2> HIDE DEF Good
  <2> QED BY <1>2, <1>9, <2>1, <2>2
<1> DEFINE h == CASE d.kind = "cancel" -> Cancel(g)
               [] d.kind = "note" -> g
               [] d.kind = "inject_task" -> inject("Work", {})
               [] d.kind = "request_research" -> inject("Research", {})
               [] d.kind = "standard_review" -> inject("Review", {d.target})
               [] d.kind = "evaluate" -> RefreshGoalStatus(g)
               [] d.kind = "update_done_criteria" -> RefreshGoalStatus(criteria)
               [] d.kind = "expand_done_criteria" -> RefreshGoalStatus(
                    [criteria EXCEPT !.scoreOk = @ /\ ~d.raise])
               [] d.kind = "pause" -> [g EXCEPT !.status = "Paused"]
               [] d.kind = "resume" ->
                    [g EXCEPT !.status = IF @ \in {"Paused", "Blocked"}
                                         THEN "Running" ELSE @]
<1>12. ApplySteering(g, d) = [h EXCEPT !.steers = @ + 1]
  BY DEF ApplySteering, criteria
<1>13. Good(RefreshGoalStatus(g)) /\ Good(RefreshGoalStatus(criteria))
  BY <1>2, <1>5, <1>6, KeepsTame
<1> HIDE DEF Good, inject
<1>14. /\ Good(inject("Work", {})) /\ Good(inject("Research", {}))
       /\ Good(inject("Review", {d.target}))
  BY <1>4, <1>10
<1>15. Good(h)
  BY <1>2, <1>3, <1>8, <1>10, <1>11, <1>13, <1>14 DEF SteeringKinds
<1> HIDE DEF h
<1> QED BY <1>1, <1>12, <1>15
-----------------------------------------------------------------------------
(* Operators that can finish a task or a goal *)

\* The unifier of a round that is done makes the round unified.
LEMMA ApplyValidationStructure ==
  ASSUME NEW g \in GoalStates, NEW t \in Tasks, NEW o \in Outcome, Structure(g)
  PROVE  Structure(ApplyValidation(g, t, o))
<1> DEFINE unifies(r) == /\ g.purpose[t] = "Unification" /\ r.unifier = t
                         /\ o.status = "Done" /\ o.passes
           rs == [i \in DOMAIN g.rounds |->
                    IF unifies(g.rounds[i])
                    THEN [g.rounds[i] EXCEPT !.status = "Unified"]
                    ELSE g.rounds[i]]
           d == IF g.purpose[t] \in {"Review", "Unification"}
                THEN o.decision ELSE g.decision
           s == StatusAfterValidation(o)
           st == [g.st EXCEPT ![t] = s]
           k == [g EXCEPT !.st = st, !.scoreOk = o.scoreOk, !.decision = d, !.rounds = rs]
<1>1. ApplyValidation(g, t, o) = RefreshGoalStatus(k)
  BY DEF ApplyValidation
<1>2. s \in {"WaitingInput", "Blocked", "Failed", "Done", "Runnable"}
      /\ (s = "Done" => o.status = "Done" /\ o.passes)
  BY DEF StatusAfterValidation
<1>3. rs \in Seq(ReviewRound)
  <2>1. g.rounds \in Seq(ReviewRound)
    BY DEF GoalStates
  <2>2. DOMAIN g.rounds = 1..Len(g.rounds) /\ Len(g.rounds) \in Nat
    BY <2>1
  <2>3. \A i \in DOMAIN g.rounds :
            [g.rounds[i] EXCEPT !.status = "Unified"] \in ReviewRound
    BY RoundType DEF ReviewRound
  <2>4. \A i \in 1..Len(g.rounds) : rs[i] \in ReviewRound
    BY <2>2, <2>3, RoundType
  <2>5. rs \in [1..Len(g.rounds) -> ReviewRound]
    BY <2>2, <2>4
  <2> HIDE DEF rs
  <2> QED BY <2>2, <2>5
<1>4. d \in {"none", "accept", "changes"} /\ o.scoreOk \in BOOLEAN
  BY DEF GoalStates, Outcome
<1> HIDE DEF s
<1>5. /\ st \in [Tasks -> TaskStatus \cup {"Unborn"}]
      /\ \A u \in Tasks : st[u] = IF u = t THEN s ELSE g.st[u]
  BY <1>2 DEF GoalStates, TaskStatus, Terminal
<1>6. /\ k \in GoalStates /\ k.st = st /\ k.n = g.n /\ k.purpose = g.purpose
      /\ k.status = g.status /\ k.rounds = rs
  <2> HIDE DEF rs, d, st
  <2> QED BY <1>3, <1>4, <1>5 DEF GoalStates
<1> HIDE DEF k, d, st
<1>7. Purposes(k) /\ NoneCancelled(k)
  BY <1>2, <1>5, <1>6 DEF Structure, Purposes, NoneCancelled
<1>8. ASSUME NEW i \in DOMAIN g.rounds PROVE RoundOK(k, rs[i])
  <2> DEFINE r == g.rounds[i]
  <2>1. RoundOK(g, r) /\ r \in ReviewRound
    BY RoundType DEF Structure, RoundsOK
  <2>2. CASE unifies(r)
    <3>1. rs[i] = [r EXCEPT !.status = "Unified"]
      BY <2>2
    <3> HIDE DEF rs, unifies, r
    <3>2. rs[i].status = "Unified" /\ rs[i].reviewers = r.reviewers
      BY <2>1, <3>1 DEF ReviewRound
    <3> QED BY <1>6, <2>1, <3>2 DEF RoundOK
  <2>3. CASE ~unifies(r)
    <3>1. rs[i] = r
      BY <2>3
    <3>2. ASSUME r.status = "ReadyForUnification" PROVE k.st[r.unifier] # "Done"
      <4>1. /\ r.unifier \in Tasks /\ g.purpose[r.unifier] = "Unification"
            /\ g.st[r.unifier] # "Done"
        BY <2>1, <3>2 DEF RoundOK
      <4> QED BY <1>2, <1>5, <1>6, <2>3, <4>1
    <3> HIDE DEF rs, unifies, r
    <3> QED BY <1>6, <2>1, <3>1, <3>2 DEF RoundOK
  <2> QED BY <2>2, <2>3
<1>9. RoundsOK(k)
  BY <1>6, <1>8 DEF RoundsOK
<1> HIDE DEF rs
<1>10. Structure(k)
  BY <1>7, <1>9 DEF Structure
<1> QED BY <1>1, <1>6, <1>10, RefreshTame, RefreshFields, TameStructure

\* A goal of which a refresh makes a settled one.
Due(x) == /\ x \in GoalStates /\ Structure(x)
          /\ MoreReviews(x) /\ x.status # "Cancelled" /\ Closed(x) => Reviewed(x)

LEMMA RefreshReview ==
  ASSUME NEW x, Due(x)
  PROVE  ReviewInv(RefreshGoalStatus(x))
<1> DEFINE h == RefreshGoalStatus(x)
<1>1. /\ h \in GoalStates /\ h.rounds = x.rounds /\ h.n = x.n
      /\ h.purpose = x.purpose /\ h.st = x.st
      /\ (h.status = "Cancelled") = (x.status = "Cancelled")
      /\ h.status # "Cancelled" /\ (h.status = "Done" \/ h.satisfied) => Closed(x)
  BY RefreshFields DEF Due
<1>2. Structure(h)
  BY <1>1, RefreshTame, TameStructure DEF Due
<1> HIDE DEF h
<1>3. Closed(h) => Closed(x)
  BY <1>1 DEF Closed, Open
<1>4. Settled(h)
  BY <1>1, <1>3 DEF Due, Settled, AtRest, MoreReviews, Reviewed, DoneTasks
<1> QED BY <1>2, <1>4 DEF ReviewInv, h

\* A goal with other rounds.
LEMMA WithRounds ==
  ASSUME NEW g \in GoalStates, NEW rs \in Seq(ReviewRound), Structure(g),
         \A i \in DOMAIN rs : RoundOK(g, rs[i])
  PROVE  LET h == [g EXCEPT !.rounds = rs]
         IN  /\ h \in GoalStates /\ Structure(h) /\ h.rounds = rs /\ h.n = g.n
             /\ h.purpose = g.purpose /\ h.st = g.st /\ h.status = g.status
<1> DEFINE h == [g EXCEPT !.rounds = rs]
<1>1. /\ h \in GoalStates /\ h.rounds = rs /\ h.n = g.n
      /\ h.purpose = g.purpose /\ h.st = g.st /\ h.status = g.status
  BY DEF GoalStates
<1> HIDE DEF h
<1>2. Structure(h)
  BY <1>1 DEF Structure, Purposes, NoneCancelled, RoundsOK, RoundOK
<1> QED BY <1>1, <1>2 DEF h

LEMMA SpawnReviewRoundDue ==
  ASSUME NEW g \in GoalStates, Structure(g), SpawnReviewRound(g).ok,
         SpawnReviewRound(g).state.n <= MaxTasks
  PROVE  \E x : Due(x) /\ SpawnReviewRound(g).state = RefreshGoalStatus(x)
<1> DEFINE reviews == IF MinReviews > 1 THEN MinReviews ELSE 1
           subjects == DoneTasks(g, WorkLike)
           round == [subjects |-> subjects, reviewers |-> NextIds(g, reviews),
                     unifier |-> NoTask, status |-> "ReviewsSpawned"]
           h == InsertChildren(g, Root, reviews, "Review", subjects, "none")
           k == [h EXCEPT !.rounds = Append(h.rounds, round)]
<1>1. reviews \in Nat /\ reviews >= 1
  BY ConstantsOK
<1> HIDE DEF reviews
<1>2. subjects \in SUBSET Tasks /\ NextIds(g, reviews) \in SUBSET Tasks
  BY DEF DoneTasks, NextIds
<1>3. round \in ReviewRound
  BY <1>2 DEF ReviewRound
<1>4. /\ h \in GoalStates /\ h.n = g.n + reviews /\ Tame(g, h) /\ h.rounds = g.rounds
      /\ \A t \in NextIds(g, reviews) : h.st[t] = "Runnable"
  BY <1>1, <1>2, InsertTame, RootIsTask DEF TaskPurpose
<1>5. SpawnReviewRound(g) = SpawnFromRoot(g, reviews, k)
  BY DEF SpawnReviewRound, reviews
<1> HIDE DEF h
<1>6. Structure(h)
  BY <1>4, TameStructure
<1>7. h.rounds \in Seq(ReviewRound) /\ Append(h.rounds, round) \in Seq(ReviewRound)
  <2>1. h.rounds \in Seq(ReviewRound)
    BY <1>4 DEF GoalStates
  <2> HIDE DEF round
  <2> QED BY <1>3, <2>1
<1>8. SpawnReviewRound(g).state = RefreshGoalStatus(k)
  BY <1>5 DEF SpawnFromRoot, Frontier
<1>9. g.n + 1 <= MaxTasks
  <2>1. k.n = h.n /\ k \in GoalStates
    <3> HIDE DEF round
    <3> QED BY <1>4, <1>7 DEF GoalStates
  <2> HIDE DEF k
  <2>2. RefreshGoalStatus(k).n = h.n
    BY <2>1, RefreshFields
  <2>3. g.n \in Nat /\ MaxTasks \in Nat
    BY ConstantsOK DEF GoalStates
  <2> QED BY <1>1, <1>4, <1>8, <2>2, <2>3
<1>10. g.n + 1 \in NextIds(g, reviews) /\ g.n + 1 \in Tasks
  <2>1. g.n \in Nat \ {0} /\ MaxTasks \in Nat
    BY ConstantsOK DEF GoalStates
  <2> QED BY <1>1, <1>9, <2>1 DEF NextIds, Tasks
<1>11. RoundOK(h, round)
  BY <1>4, <1>10 DEF RoundOK, NextIds
<1>12. \A i \in DOMAIN Append(h.rounds, round) : RoundOK(h, Append(h.rounds, round)[i])
  <2> HIDE DEF round
  <2> SUFFICES ASSUME NEW i \in DOMAIN Append(h.rounds, round)
               PROVE  RoundOK(h, Append(h.rounds, round)[i])
    OBVIOUS
  <2>1. \/ i \in DOMAIN h.rounds /\ Append(h.rounds, round)[i] = h.rounds[i]
        \/ Append(h.rounds, round)[i] = round
    BY <1>7
  <2> QED BY <1>6, <1>11, <2>1 DEF Structure, RoundsOK
<1> HIDE DEF round
<1>13. k \in GoalStates /\ Structure(k) /\ k.st = h.st
  BY <1>4, <1>6, <1>7, <1>12, WithRounds
<1>14. Open(k, g.n + 1)
  BY <1>4, <1>10, <1>13 DEF Open, Terminal
<1>15. Due(k)
  BY <1>10, <1>13, <1>14 DEF Due, Closed
<1> QED BY <1>8, <1>15

LEMMA SpawnUnifierDue ==
  ASSUME NEW g \in GoalStates, Structure(g), g.rounds # <<>>,
         SpawnUnifier(g).ok, SpawnUnifier(g).state.n <= MaxTasks
  PROVE  \E x : Due(x) /\ SpawnUnifier(g).state = RefreshGoalStatus(x)
<1> DEFINE last == LastRound(g)
           round == [last EXCEPT !.unifier = g.n + 1, !.status = "ReadyForUnification"]
           h == InsertChildren(g, Root, 1, "Unification", last.reviewers, "none")
           rs == [h.rounds EXCEPT ![Len(g.rounds)] = round]
           k == [h EXCEPT !.rounds = rs]
<1>1. last \in ReviewRound /\ last.reviewers \in SUBSET Tasks
  BY LastRoundType DEF ReviewRound
<1>2. RoundOK(g, last)
  BY LastRoundType DEF Structure, RoundsOK, LastRound
<1>3. /\ h \in GoalStates /\ h.n = g.n + 1 /\ Tame(g, h) /\ h.rounds = g.rounds
      /\ \A t \in NextIds(g, 1) : h.purpose[t] = "Unification" /\ h.st[t] = "Runnable"
  <2>1. 1 \in Nat
    OBVIOUS
  <2> QED BY <1>1, <2>1, InsertTame, RootIsTask DEF TaskPurpose
<1>4. SpawnUnifier(g) = SpawnFromRoot(g, 1, k)
  BY DEF SpawnUnifier
<1> HIDE DEF h, last
<1>5. Structure(h)
  BY <1>3, TameStructure
<1>6. SpawnUnifier(g).state = RefreshGoalStatus(k)
  BY <1>4 DEF SpawnFromRoot, Frontier
<1>7. k.n = h.n
  <2> HIDE DEF rs
  <2> QED BY <1>3 DEF GoalStates
<1>8. g.n + 1 \in NextIds(g, 1) /\ g.n + 1 \in Tasks
  <2>1. RefreshGoalStatus(k).n = k.n
    <3>1. \A x : RefreshGoalStatus([h EXCEPT !.rounds = x]).n = h.n
      BY <1>3 DEF RefreshGoalStatus, GoalStates
    <3> HIDE DEF rs
    <3> QED BY <1>7, <3>1
  <2>2. g.n \in Nat \ {0} /\ MaxTasks \in Nat
    BY ConstantsOK DEF GoalStates
  <2>3. g.n + 1 <= MaxTasks
    BY <1>3, <1>6, <1>7, <2>1, <2>2
  <2> QED BY <2>2, <2>3 DEF NextIds, Tasks
<1>9. /\ round \in ReviewRound /\ round.reviewers = last.reviewers
      /\ round.status = "ReadyForUnification" /\ round.unifier = g.n + 1
  BY <1>1, <1>8 DEF ReviewRound
<1> HIDE DEF round
<1>10. RoundOK(h, round)
  <2>1. \A t \in last.reviewers : t <= h.n
    <3>1. g.n \in Nat /\ Tasks \subseteq Nat
      BY DEF GoalStates, Tasks
    <3> QED BY <1>1, <1>2, <1>3, <3>1 DEF RoundOK
  <2>2. g.n + 1 <= h.n
    BY <1>3 DEF GoalStates
  <2> QED BY <1>2, <1>3, <1>8, <1>9, <2>1, <2>2 DEF RoundOK
<1>11. g.rounds \in Seq(ReviewRound) /\ rs \in Seq(ReviewRound)
  <2>1. g.rounds \in Seq(ReviewRound)
    BY DEF GoalStates
  <2> QED BY <1>3, <1>9, <2>1, ExceptSeq
<1>12. \A i \in DOMAIN rs : RoundOK(h, rs[i])
  <2> SUFFICES ASSUME NEW i \in DOMAIN rs PROVE RoundOK(h, rs[i])
    OBVIOUS
  <2>1. i \in DOMAIN h.rounds /\ (rs[i] = h.rounds[i] \/ rs[i] = round)
    OBVIOUS
  <2> QED BY <1>5, <1>10, <2>1 DEF Structure, RoundsOK
<1> HIDE DEF rs
<1>13. k \in GoalStates /\ Structure(k) /\ k.st = h.st
  BY <1>3, <1>5, <1>11, <1>12, WithRounds
<1>14. Open(k, g.n + 1)
  BY <1>3, <1>8, <1>13 DEF Open, Terminal
<1>15. Due(k)
  BY <1>8, <1>13, <1>14 DEF Due, Closed
<1> QED BY <1>6, <1>15

LEMMA SpawnActorRetryDue ==
  ASSUME NEW g, Due(g), SpawnActorRetry(g).ok, SpawnActorRetry(g).state.n <= MaxTasks
  PROVE  \E x : Due(x) /\ SpawnActorRetry(g).state = RefreshGoalStatus(x)
<1> DEFINE latest == CHOOSE i \in Unifiers(g) : \A j \in Unifiers(g) : j <= i
           unifier == g.rounds[latest].unifier
           h == InsertChildren(g, Root, 1, "ActorRetry", {unifier}, "none")
<1>1. g \in GoalStates /\ Structure(g)
  BY DEF Due
<1>2. Unifiers(g) # {}
  BY DEF SpawnActorRetry, Frontier
<1>3. unifier \in Tasks
  <2>1. g.rounds \in Seq(ReviewRound)
    BY <1>1 DEF GoalStates
  <2>2. Unifiers(g) \in SUBSET (1..Len(g.rounds)) /\ Len(g.rounds) \in Nat
    BY <2>1 DEF Unifiers
  <2>3. latest \in Unifiers(g)
    BY <1>2, <2>2, LargestExists
  <2> HIDE DEF latest
  <2>4. latest \in DOMAIN g.rounds /\ g.rounds[latest].unifier # NoTask
    BY <2>3 DEF Unifiers
  <2> QED BY <1>1, <2>4, RoundType DEF ReviewRound
<1> HIDE DEF unifier
<1>4. SpawnActorRetry(g) =
        IF g.st[unifier] # "Done" THEN Frontier(TRUE, FALSE, RefreshGoalStatus(g))
        ELSE SpawnFromRoot(g, 1, h)
  BY <1>2 DEF SpawnActorRetry, unifier
<1>5. CASE g.st[unifier] # "Done"
  BY <1>4, <1>5 DEF Frontier
<1>6. CASE g.st[unifier] = "Done"
  <2>1. /\ h \in GoalStates /\ h.n = g.n + 1 /\ Tame(g, h)
        /\ \A t \in NextIds(g, 1) : h.st[t] = "Runnable"
    <3>1. 1 \in Nat /\ {unifier} \in SUBSET Tasks
      BY <1>3
    <3> QED BY <1>1, <3>1, InsertTame, RootIsTask DEF TaskPurpose
  <2> HIDE DEF h
  <2>2. SpawnActorRetry(g).state = RefreshGoalStatus(h)
    BY <1>4, <1>6 DEF SpawnFromRoot, Frontier
  <2>3. g.n + 1 \in NextIds(g, 1) /\ g.n + 1 \in Tasks
    <3>1. g.n \in Nat \ {0} /\ MaxTasks \in Nat
      BY <1>1, ConstantsOK DEF GoalStates
    <3>2. g.n + 1 <= MaxTasks
      BY <2>1, <2>2, RefreshFields
    <3> QED BY <3>1, <3>2 DEF NextIds, Tasks
  <2>4. Open(h, g.n + 1)
    BY <2>1, <2>3 DEF Open, Terminal
  <2>5. Due(h)
    BY <1>1, <2>1, <2>3, <2>4, TameStructure DEF Due, Closed
  <2> QED BY <2>2, <2>5
<1> QED BY <1>5, <1>6

\* The last round after ensure_review_frontier has found its reviews done.
LEMMA UnifiedStructure ==
  ASSUME NEW g \in GoalStates, Structure(g), LastRoundReady(g)
  PROVE  LET h == [g EXCEPT !.rounds[Len(g.rounds)].status = "Unified"]
         IN  /\ h \in GoalStates /\ Structure(h) /\ h.n = g.n
             /\ h.purpose = g.purpose /\ h.st = g.st /\ h.status = g.status
             /\ h.rounds # <<>> /\ LastRound(h).status = "Unified"
<1> DEFINE r == [LastRound(g) EXCEPT !.status = "Unified"]
           rs == [g.rounds EXCEPT ![Len(g.rounds)] = r]
           h == [g EXCEPT !.rounds = rs]
<1>1. g.rounds # <<>> /\ g.rounds \in Seq(ReviewRound)
  BY DEF LastRoundReady, GoalStates
<1>2. LastRound(g) \in ReviewRound /\ Len(g.rounds) \in DOMAIN g.rounds
  BY <1>1, LastRoundType
<1>3. /\ r \in ReviewRound /\ r.status = "Unified"
      /\ r.reviewers = LastRound(g).reviewers
  BY <1>2 DEF ReviewRound
<1>4. RoundOK(g, LastRound(g))
  BY <1>2 DEF Structure, RoundsOK, LastRound
<1>5. [g EXCEPT !.rounds[Len(g.rounds)].status = "Unified"] = h
  BY DEF LastRound
<1> HIDE DEF r
<1>6. RoundOK(g, r)
  BY <1>3, <1>4 DEF RoundOK
<1>7. /\ rs \in Seq(ReviewRound) /\ Len(rs) = Len(g.rounds)
      /\ rs[Len(g.rounds)] = r /\ DOMAIN rs = DOMAIN g.rounds
  BY <1>1, <1>2, <1>3, ExceptSeq
<1>8. \A i \in DOMAIN rs : RoundOK(g, rs[i])
  <2> SUFFICES ASSUME NEW i \in DOMAIN rs PROVE RoundOK(g, rs[i])
    OBVIOUS
  <2>1. i \in DOMAIN g.rounds /\ (rs[i] = g.rounds[i] \/ rs[i] = r)
    OBVIOUS
  <2> QED BY <1>6, <2>1 DEF Structure, RoundsOK
<1> HIDE DEF rs
<1>9. /\ h \in GoalStates /\ Structure(h) /\ h.rounds = rs /\ h.n = g.n
      /\ h.purpose = g.purpose /\ h.st = g.st /\ h.status = g.status
  BY <1>7, <1>8, WithRounds
<1> HIDE DEF h
<1>10. h.rounds # <<>> /\ LastRound(h).status = "Unified"
  BY <1>2, <1>3, <1>7, <1>9 DEF LastRound
<1> QED BY <1>5, <1>9, <1>10

\* A goal in which nothing is open has its work done.
LEMMA ClosedWorkDone ==
  ASSUME NEW g \in GoalStates, PoolInv(g), Structure(g), Closed(g),
         g.status # "Cancelled"
  PROVE  WorkDone(g) /\ \A t \in Tasks : t <= g.n => g.st[t] = "Done"
<1>1. g.n \in Nat /\ Tasks \subseteq Nat /\ Root \in Tasks
  BY RootIsTask DEF GoalStates, Tasks
<1>2. ASSUME NEW t \in Tasks, t <= g.n PROVE g.st[t] = "Done"
  <2>1. g.st[t] # "Unborn"
    BY <1>1, <1>2 DEF PoolInv
  <2> QED BY <2>1 DEF Closed, Open, Terminal, Structure, NoneCancelled
<1>3. WorkTasks(g) # {}
  BY <1>1 DEF WorkTasks, Structure, Purposes, WorkLike
<1>4. \A t \in WorkTasks(g) : t \in Tasks /\ t <= g.n
  BY DEF WorkTasks, Structure, Purposes
<1> QED BY <1>2, <1>3, <1>4 DEF WorkDone

\* When nothing is open, the last round is unified or about to be.
LEMMA ClosedRound ==
  ASSUME NEW g \in GoalStates, PoolInv(g), Structure(g), Closed(g),
         g.status # "Cancelled", g.rounds # <<>>, ~LastRoundReady(g)
  PROVE  LastRound(g).status = "Unified"
<1> DEFINE r == LastRound(g)
<1>1. r \in ReviewRound /\ RoundOK(g, r)
  BY LastRoundType DEF LastRound, Structure, RoundsOK
<1>2. \A t \in Tasks : t <= g.n => g.st[t] = "Done"
  BY ClosedWorkDone
<1>3. r.status # "ReviewsSpawned"
  <2>1. \A t \in r.reviewers : g.st[t] = "Done"
    BY <1>1, <1>2 DEF RoundOK, ReviewRound
  <2> QED BY <1>1, <2>1 DEF LastRoundReady, RoundOK
<1>4. r.status # "ReadyForUnification"
  BY <1>1, <1>2 DEF RoundOK
<1>5. r.status \in {"ReviewsSpawned", "ReadyForUnification", "Unified"}
  BY <1>1 DEF ReviewRound
<1> QED BY <1>3, <1>4, <1>5

\* With the last round unified, the frontier has no work left to look at.
LEMMA NoRoundDue ==
  ASSUME NEW g \in GoalStates, LastRound(g).status = "Unified", g.rounds # <<>>,
         MoreReviews(g), ~NextRoundDue(g)
  PROVE  Reviewed(g)
  BY DEF NextRoundDue, MoreReviews, Reviewed

\* ensure_review_frontier leaves a goal that it has looked at and refreshed.
LEMMA EnsureReviewFrontierDue ==
  ASSUME NEW g \in GoalStates, PoolInv(g), Structure(g),
         EnsureReviewFrontier(g).ok, EnsureReviewFrontier(g).state.n <= MaxTasks
  PROVE  \E x : Due(x) /\ EnsureReviewFrontier(g).state = RefreshGoalStatus(x)
<1> DEFINE unified == IF ~LastRoundReady(g) THEN g
                      ELSE [g EXCEPT !.rounds[Len(g.rounds)].status = "Unified"]
           r == EnsureReviewFrontier(g)
           skips == \/ ~ReviewEnabled \/ Any(g, "Failed") \/ Any(g, "Blocked")
                    \/ ~WorkDone(g)
           first == g.rounds = <<>> /\ MaxReviewRounds > 0
<1>1. \A h : Frontier(TRUE, FALSE, h).state = h
  BY DEF Frontier
<1>2. CASE skips
  <2>1. r = Frontier(TRUE, FALSE, RefreshGoalStatus(g))
    BY <1>2, Zenon DEF EnsureReviewFrontier
  <2>2. MoreReviews(g) /\ g.status # "Cancelled" => ~Closed(g)
    <3> SUFFICES ASSUME ReviewEnabled, g.status # "Cancelled", Closed(g) PROVE FALSE
      BY DEF MoreReviews
    <3>1. WorkDone(g)
      BY ClosedWorkDone
    <3>2. ~Any(g, "Failed") /\ ~Any(g, "Blocked")
      BY DEF Any, Closed, Open, Terminal
    <3> QED BY <1>2, <3>1, <3>2
  <2> QED BY <1>1, <2>1, <2>2 DEF Due
<1>3. CASE ~skips /\ first
  <2>1. r = SpawnReviewRound(g)
    BY <1>3, Zenon DEF EnsureReviewFrontier
  <2> QED BY <2>1, SpawnReviewRoundDue
<1>4. CASE ~skips /\ ~first /\ LastRoundReady(g) /\ RequireUnification
  <2>1. r = SpawnUnifier(g)
    BY <1>4, Zenon DEF EnsureReviewFrontier
  <2>2. g.rounds # <<>>
    BY <1>4 DEF LastRoundReady
  <2> QED BY <2>1, <2>2, SpawnUnifierDue
<1>5. CASE ~skips /\ ~first /\ ~(LastRoundReady(g) /\ RequireUnification)
  <2>1. /\ unified \in GoalStates /\ Structure(unified)
        /\ unified.status = g.status /\ unified.st = g.st
        /\ LastRoundReady(g) => unified.rounds # <<>> /\ LastRound(unified).status = "Unified"
    BY UnifiedStructure
  <2>2. r = IF NextRoundDue(unified) THEN SpawnReviewRound(unified)
            ELSE IF RetryDue(unified) THEN SpawnActorRetry(unified)
            ELSE Frontier(TRUE, FALSE, RefreshGoalStatus(unified))
    BY <1>5, Zenon DEF EnsureReviewFrontier
  <2>3. ~LastRoundReady(g) => unified = g
    OBVIOUS
  <2> HIDE DEF unified
  <2>4. CASE NextRoundDue(unified)
    BY <2>1, <2>2, <2>4, SpawnReviewRoundDue
  <2>5. CASE ~NextRoundDue(unified)
    <3>1. ASSUME MoreReviews(unified), unified.status # "Cancelled", Closed(unified)
          PROVE  Reviewed(unified)
      <4>1. unified.rounds # <<>> /\ LastRound(unified).status = "Unified"
        <5>1. CASE LastRoundReady(g)
          BY <2>1, <5>1
        <5>2. CASE ~LastRoundReady(g)
          <6>1. g.rounds # <<>>
            BY <1>5, <2>3, <3>1, <5>2, ConstantsOK DEF MoreReviews
          <6> QED BY <2>3, <3>1, <5>2, <6>1, ClosedRound
        <5> QED BY <5>1, <5>2
      <4> QED BY <2>1, <2>5, <3>1, <4>1, NoRoundDue
    <3>2. Due(unified)
      BY <2>1, <3>1 DEF Due
    <3> QED BY <1>1, <2>2, <2>5, <3>2, SpawnActorRetryDue
  <2> QED BY <2>4, <2>5
<1> QED BY <1>2, <1>3, <1>4, <1>5
-----------------------------------------------------------------------------
(* The workflow *)

LEMMA ReviewInvInit == Init => ReviewInv(state)
<1> SUFFICES ASSUME Init PROVE ReviewInv(state)
  OBVIOUS
<1>1. PICK budget \in Budget : state = NewGoal(budget)
  BY DEF Init
<1>2. /\ state.n = 1 /\ state.rounds = <<>>
      /\ state.status = "Running"
      /\ \A t \in Tasks : /\ state.st[t] = IF t = 1 THEN "Runnable" ELSE "Unborn"
                          /\ state.purpose[t] = IF t = 1 THEN "Work" ELSE "none"
  BY <1>1 DEF NewGoal, Put, Root
<1>3. Root \in Tasks /\ Root = 1
  BY RootIsTask DEF Root
<1>4. Purposes(state)
  BY <1>2, <1>3 DEF Purposes, WorkLike
<1>5. NoneCancelled(state) /\ RoundsOK(state)
  BY <1>2 DEF NoneCancelled, RoundsOK
<1>6. Open(state, Root)
  BY <1>2, <1>3 DEF Open, Terminal
<1>7. Settled(state)
  BY <1>2, <1>3, <1>6 DEF Settled, AtRest, Closed
<1> QED BY <1>4, <1>5, <1>7 DEF ReviewInv, Structure

LEMMA ControlHandlersReview ==
  ASSUME TypeInv, GatesInv, ControlHandlers
  PROVE  Spares(state, state')
<1> USE DEF Control, Persist
<1>1. state \in GoalStates /\ PoolInv(state)
  BY DEF TypeInv, TypeOK, GatesInv, GoalInv
<1>2. CASE Run
  BY <1>2 DEF Run, Spares
<1>3. CASE CancelGoal
  BY <1>1, <1>3, CancelReview DEF CancelGoal
<1>4. CASE Steer
  <2>1. PICK d \in Directives : state' = ApplySteering(state, d)
    BY <1>4 DEF Steer
  <2>2. d \in Directive /\ state.status # "Cancelled"
    BY <1>4, WorkflowConstantsOK DEF Steer, AcceptsControl
  <2> QED BY <1>1, <2>1, <2>2, ApplySteeringReview
<1>5. CASE Approve
  <2>1. PICK a \in state.approvals, approved \in BOOLEAN :
          state' = ApplyHumanApproval(state, a, approved)
    BY <1>5 DEF Approve
  <2> QED BY <1>1, <2>1, ApplyHumanApprovalType, ApplyHumanApprovalTame, TameSpares DEF Follows
<1>6. CASE Restart
  <2>1. PICK scope \in Scopes, t \in Tasks, reset \in BOOLEAN :
          state' = ApplyRestart(state, scope, t, reset)
    BY <1>6 DEF Restart
  <2> QED BY <1>1, <2>1, ApplyRestartType, ApplyRestartTame, TameSpares DEF Follows
<1>7. CASE ResumeDelayedThunk
  <2>1. PICK w \in state.thunks : state' = ResumeThunk(state, w)
    BY <1>7 DEF ResumeDelayedThunk
  <2> QED BY <1>1, <2>1, ResumeThunkType, ResumeThunkTame, TameSpares DEF Follows
<1>8. CASE CreateDelayedThunk
  <2>1. PICK t \in Tasks \cup {NoTask}, kind \in {"approval", "input"},
             cont \in Tasks \cup {NoTask} : state' = CreateThunk(state, t, kind, cont)
    BY <1>8 DEF CreateDelayedThunk
  <2> QED BY <1>1, <2>1, CreateThunkType, CreateThunkTame, TameSpares DEF Follows
<1> QED
  BY <1>2, <1>3, <1>4, <1>5, <1>6, <1>7, <1>8 DEF ControlHandlers

LEMMA DriveStepReview ==
  ASSUME MaxRounds > 0, CancelInv, TypeInv, GatesInv, ReviewInv(state), DriveStep
  PROVE  ReviewInv(state')
<1>1. /\ state \in GoalStates /\ handler \in Handlers /\ FrameOK
      /\ PoolInv(state) /\ GoalInv(state) /\ AllWoken(state) /\ RoundInv
      /\ state' \in GoalStates /\ state'.n <= MaxTasks
  BY DriveStepType DEF TypeInv, TypeOK, GatesInv, GoalInv, Follows
<1>2. ASSUME Tame(state, state') PROVE ReviewInv(state')
  BY <1>1, <1>2, TameInv
<1>3. CASE DriveStops \/ SnapshotFrontier \/ EndRound
  BY <1>3 DEF DriveStops, SnapshotFrontier, EndRound, Persist
<1>4. CASE BudgetExhausted
  <2> DEFINE st == Put(state.st, OpenTasks(state), "Blocked")
             h == [state EXCEPT !.status = "Blocked", !.st = st]
  <2>1. state' = h /\ state.status # "Cancelled"
    BY <1>4 DEF BudgetExhausted, Persist, Stops
  <2>2. \A u \in Tasks : st[u] = state.st[u] \/ st[u] = "Blocked"
    BY DEF Put
  <2> HIDE DEF st
  <2>3. /\ h.rounds = state.rounds /\ h.n = state.n /\ h.purpose = state.purpose
        /\ h.status = "Blocked" /\ h.st = st /\ state.n <= state.n
    BY <1>1 DEF GoalStates
  <2> HIDE DEF h
  <2>4. \A u \in Tasks : h.st[u] = state.st[u] \/ Open(h, u)
    BY <2>2, <2>3 DEF Open, Terminal
  <2>5. AtRest(h) => AtRest(state)
    BY <2>1, <2>3, <2>4 DEF AtRest, Closed, Open
  <2>6. Tame(state, h)
    BY <2>1, <2>3, <2>4, <2>5 DEF Tame
  <2> QED BY <1>2, <2>1, <2>6
<1>5. CASE ExtendFrontier
  <2> DEFINE r == EnsureReviewFrontier(state)
             idle == FrontierIdleStatus(r.state)
             h == [r.state EXCEPT !.status = idle]
  <2>1. \/ state' = state
        \/ r.ok /\ state' = r.state
        \/ r.ok /\ state' = h
    BY <1>5 DEF ExtendFrontier, Persist
  <2>2. state.status # "Cancelled"
    BY <1>5 DEF ExtendFrontier, Working, Stops
  <2>3. h.n = r.state.n
    <3> HIDE DEF r
    <3> QED OBVIOUS
  <2>4. ASSUME r.ok, r.state.n <= MaxTasks
        PROVE  ReviewInv(r.state) /\ ReviewInv(h)
    <3>1. Follows(state, r.state) /\ Preserves(state, r.state)
      BY <1>1, <2>4, EnsureReviewFrontierType, EnsureReviewFrontierPreserves
    <3>2. PICK x : Due(x) /\ r.state = RefreshGoalStatus(x)
      BY <1>1, <2>4, EnsureReviewFrontierDue DEF ReviewInv
    <3> HIDE DEF r
    <3>3. ReviewInv(r.state)
      BY <3>2, RefreshReview
    <3>4. PoolInv(r.state) /\ r.state.status # "Cancelled" /\ r.state \in GoalStates
      BY <1>1, <2>2, <3>1 DEF Preserves, GoalInv, Follows
    <3>5. IsDone(r.state) => Closed(r.state)
      BY <3>2, <3>4, RefreshFields DEF IsDone, Due, Closed, Open
    <3>6. idle = "Done" => IsDone(r.state)
      BY DEF FrontierIdleStatus, StoppedStatus
    <3>7. idle \in GoalStatus \ {"Cancelled"}
      BY StoppedStatusType DEF FrontierIdleStatus, GoalStatus, Terminal
    <3>8. AtRest(r.state) <=> IsDone(r.state) \/ Closed(r.state)
      BY <3>4, <3>5 DEF AtRest, IsDone
    <3> HIDE DEF idle
    <3>9. h \in GoalStates /\ Tame(r.state, h)
      BY <3>4, <3>6, <3>7, <3>8, StatusTame
    <3> QED BY <3>3, <3>4, <3>9, TameInv
  <2> HIDE DEF r, h
  <2> QED BY <1>1, <2>1, <2>3, <2>4
<1>6. CASE FrontierLimit
  <2>1. state' = [state EXCEPT !.status = "Blocked"] /\ "Blocked" \in GoalStatus
    BY <1>6 DEF FrontierLimit, Persist, GoalStatus
  <2>3. CASE state.status # "Cancelled"
    BY <1>1, <1>2, <2>1, <2>3, StatusTame
  <2>4. CASE state.status = "Cancelled"
    <3>1. handler.round = 0 /\ handler.round = MaxRounds
      BY <1>6, <2>4 DEF CancelInv, FrontierLimit
    <3> QED BY <3>1, WorkflowConstantsOK
  <2> QED BY <2>3, <2>4
<1>7. CASE DispatchTask
  <2>1. PICK t \in handler.left :
        \/ state' = state
        \/ state' = RequestApproval(state, t)
        \/ state' = MarkRunning(state, t)
    BY <1>7 DEF DispatchTask, Persist
  <2>2. t \in Tasks
    BY <1>1 DEF Handlers
  <2> QED BY <1>1, <1>2, <2>1, <2>2, RequestApprovalTame, MarkRunningTame
<1>8. CASE WorkerAnswers
  <2>1. PICK o \in Outcomes :
        state' = state \/ state' = ApplyAgentResult(state, handler.task, o)
    BY <1>8 DEF WorkerAnswers, Persist
  <2>2. handler.task \in Tasks /\ o \in Outcome
    BY <1>1, <1>8, WorkflowConstantsOK DEF WorkerAnswers, FrameOK
  <2> QED BY <1>1, <1>2, <2>1, <2>2, ApplyAgentResultTame
<1>9. CASE ApplyReport
  <2> DEFINE t == handler.task
             o == handler.answer
             g1 == ApplyValidation(state, t, o)
             g2 == IF o.status = "TimedOut" THEN RecordTimeout(g1, t) ELSE g1
  <2>1. handler.pc = "validating"
    BY <1>9 DEF ApplyReport
  <2>2. \/ state' = state
        \/ /\ ApplyValidationOk(state, t) /\ EnsureReviewFrontier(g2).ok
           /\ state' = EnsureReviewFrontier(g2).state
    BY <1>9 DEF ApplyReport, Persist
  <2>3. t \in Tasks /\ o \in Outcome
    BY <1>1, <2>1, WorkflowConstantsOK DEF FrameOK
  <2>4. CASE /\ ApplyValidationOk(state, t) /\ EnsureReviewFrontier(g2).ok
             /\ state' = EnsureReviewFrontier(g2).state
    <3>1. /\ Open(state, t) /\ ~PendingFor(state.approvals, t)
          /\ o.status = "Waiting" => Waker(state, t)
      BY <1>1, <2>1, <2>4 DEF ApplyValidationOk, RoundInv
    <3>2. /\ GoalInv(g1) /\ AllWoken(g1)
          /\ g1.approvals = state.approvals /\ g1.st[t] = StatusAfterValidation(o)
      BY <1>1, <2>3, <3>1, ApplyValidationInv
    <3>3. g1 \in GoalStates /\ Structure(g1)
      BY <1>1, <2>3, ApplyValidationType, ApplyValidationStructure DEF Follows, ReviewInv
    <3> HIDE DEF g1
    <3>4. g2 \in GoalStates /\ PoolInv(g2) /\ Structure(g2)
      <4>1. CASE o.status = "TimedOut"
        <5>1. g1.st[t] = "Failed" /\ ~PendingFor(g1.approvals, t)
          BY <3>1, <3>2, <4>1 DEF StatusAfterValidation
        <5>2. GoalInv(RecordTimeout(g1, t))
          BY <2>3, <3>2, <3>3, <5>1, RecordTimeoutInv
        <5>3. RecordTimeout(g1, t) \in GoalStates /\ Structure(RecordTimeout(g1, t))
          BY <2>3, <3>3, RecordTimeoutType, RecordTimeoutTame, TameStructure DEF Follows
        <5> QED BY <4>1, <5>2, <5>3 DEF GoalInv
      <4>2. CASE o.status # "TimedOut"
        BY <3>2, <3>3, <4>2 DEF GoalInv
      <4> QED BY <4>1, <4>2
    <3> HIDE DEF g2
    <3>5. PICK x : Due(x) /\ state' = RefreshGoalStatus(x)
      BY <1>1, <2>4, <3>4, EnsureReviewFrontierDue
    <3> QED BY <3>5, RefreshReview
  <2> QED BY <2>2, <2>4
<1> QED
  BY <1>3, <1>4, <1>5, <1>6, <1>7, <1>8, <1>9 DEF DriveStep

\* Without a round of drive_state no task is ever done.
LEMMA NoRoundNothingDone ==
  ASSUME MaxRounds = 0, TypeInv, GatesInv, NothingDone(state), [Next]_vars
  PROVE  NothingDone(state')
<1>1. state \in GoalStates /\ handler.round \in 0..0
      /\ handler.pc \notin {"tasks", "running", "validating"}
  BY DEF TypeInv, TypeOK, FrameOK, Handlers
<1>2. CASE ControlHandlers
  BY <1>2, ControlHandlersReview DEF Spares
<1>3. CASE DriveStep
  <2>1. FrontierLimit
    <3>1. ~(handler.round < MaxRounds)
      BY <1>1
    <3>2. ~DriveStops /\ ~BudgetExhausted /\ ~SnapshotFrontier /\ ~ExtendFrontier
      BY <3>1 DEF DriveStops, BudgetExhausted, SnapshotFrontier, ExtendFrontier, Working
    <3>3. ~EndRound /\ ~DispatchTask
      BY <1>1 DEF EndRound, DispatchTask, InRound
    <3>4. ~WorkerAnswers /\ ~ApplyReport
      BY <1>1 DEF WorkerAnswers, ApplyReport
    <3> QED BY <1>3, <3>2, <3>3, <3>4 DEF DriveStep
  <2>2. state' = [state EXCEPT !.status = "Blocked"]
    BY <2>1 DEF FrontierLimit, Persist
  <2>3. state'.st = state.st
    BY <1>1, <2>2 DEF GoalStates
  <2> QED BY <2>3 DEF NothingDone
<1>4. CASE UNCHANGED vars
  BY <1>4 DEF vars
<1> QED BY <1>2, <1>3, <1>4 DEF Next, Quiescent

\* FrontierLimit may revive a cancelled goal when there is no round at all; then
\* nothing is ever done.
ReviewedInv == IF MaxRounds = 0 THEN NothingDone(state) ELSE ReviewInv(state) /\ CancelInv

LEMMA ReviewedInvNext ==
  ASSUME TypeInv, GatesInv, ReviewedInv, [Next]_vars
  PROVE  ReviewedInv'
<1>1. NothingDone(state)' = NothingDone(state') /\ ReviewInv(state)' = ReviewInv(state')
  BY DEF NothingDone, ReviewInv, Structure, Purposes, NoneCancelled, RoundsOK, RoundOK,
     Settled, MoreReviews, AtRest, Closed, Open, Reviewed, DoneTasks
<1>2. CASE MaxRounds = 0
  BY <1>1, <1>2, NoRoundNothingDone DEF ReviewedInv
<1>3. CASE MaxRounds # 0
  <2>1. MaxRounds > 0 /\ ReviewInv(state) /\ CancelInv
    BY <1>3, WorkflowConstantsOK DEF ReviewedInv
  <2>2. CancelInv'
    BY <2>1, CancelInvNext
  <2>3. ReviewInv(state')
    <3>1. CASE ControlHandlers
      BY <2>1, <3>1, ControlHandlersReview DEF Spares
    <3>2. CASE DriveStep
      BY <2>1, <3>2, DriveStepReview
    <3>3. CASE UNCHANGED vars
      BY <2>1, <3>3 DEF vars
    <3> QED BY <3>1, <3>2, <3>3 DEF Next, Quiescent
  <2> QED BY <1>1, <1>3, <2>2, <2>3 DEF ReviewedInv
<1> QED BY <1>2, <1>3

\* A Done goal holds no finished work that no round has looked at, whenever a
\* round is left: the frontier that would have spawned one runs in the step of
\* every validation, and no other step finishes work.
THEOREM FinishedWorkIsReviewed == Spec => []DoneWorkReviewed
<1>1. TypeInv /\ GatesInv /\ ReviewedInv /\ [Next]_vars => ReviewedInv'
  BY ReviewedInvNext
<1>2. TypeInv /\ [Next]_vars => TypeInv'
  BY TypeInvNext
<1>3. ReviewedInv => DoneWorkReviewed
  BY DEF ReviewedInv, NothingDone, ReviewInv, Settled, MoreReviews, AtRest, Reviewed,
     DoneTasks, DoneWorkReviewed
<1>4. Init => ReviewedInv
  <2>1. Init => NothingDone(state)
    <3> SUFFICES ASSUME Init PROVE NothingDone(state)
      OBVIOUS
    <3>1. \A budget : NewGoal(budget).st = Put([t \in Tasks |-> "Unborn"], {Root}, "Runnable")
      BY DEF NewGoal
    <3> QED BY <3>1 DEF Init, NothingDone, Put
  <2> QED BY <2>1, ReviewInvInit, CancelInvInit DEF ReviewedInv
<1> QED
  BY TypeInvInit, GatesInvAlways, <1>1, <1>2, <1>3, <1>4, PTL DEF Spec
-----------------------------------------------------------------------------
(* What others see of the goal.  A step brings approvals only for tasks in *)
(* A and thunks only for tasks in W, starts no attempt, and hangs no task  *)
(* on one that does not exist (Brings); it takes no runnable task outside  *)
(* T away (Still).                                                         *)

Brings(g, h, A, W) ==
    /\ g.n <= h.n
    /\ \A t \in Tasks : h.attempts[t] <= g.attempts[t]
    /\ \A t \in Tasks : \/ h.parent[t] = g.parent[t]
                        \/ h.parent[t] \in Tasks /\ h.parent[t] <= h.n
    /\ \A w \in h.approvals : w.status = "Pending" => w \in g.approvals \/ w.task \in A
    /\ \A w \in h.thunks : /\ w.status = "Pending" => w \in g.thunks \/ w.task \in W
                           /\ w.task \in W \/ \E v \in g.thunks : v.task = w.task
Still(g, h, T) == \A t \in Tasks \ T : g.st[t] = "Runnable" => h.st[t] = "Runnable"

\* A goal that says it is finished has nothing open.
Finished(g) == g.status # "Cancelled" /\ (g.status = "Done" \/ g.satisfied) => Closed(g)

LEMMA BringsTrans ==
  ASSUME NEW g \in GoalStates, NEW h \in GoalStates, NEW k \in GoalStates, NEW A, NEW W,
         Brings(g, h, A, W), Brings(h, k, A, W)
  PROVE  Brings(g, k, A, W)
<1>1. /\ g.n \in Nat /\ h.n \in Nat /\ k.n \in Nat
      /\ \A t \in Tasks : /\ g.attempts[t] \in Nat /\ h.attempts[t] \in Nat
                          /\ k.attempts[t] \in Nat
  BY DEF GoalStates
<1>0. \A t \in Tasks : t \in Nat
  BY DEF Tasks
<1>2. g.n <= k.n /\ \A t \in Tasks : k.attempts[t] <= g.attempts[t]
  BY <1>1 DEF Brings
<1>3. ASSUME NEW t \in Tasks
      PROVE  k.parent[t] = g.parent[t] \/ (k.parent[t] \in Tasks /\ k.parent[t] <= k.n)
  BY <1>0, <1>1 DEF Brings
<1>4. /\ \A w \in k.approvals : w.status = "Pending" => w \in g.approvals \/ w.task \in A
      /\ \A w \in k.thunks : w.status = "Pending" => w \in g.thunks \/ w.task \in W
  BY DEF Brings
<1>5. \A w \in k.thunks : w.task \in W \/ \E v \in g.thunks : v.task = w.task
  BY DEF Brings
<1> QED BY <1>2, <1>3, <1>4, <1>5 DEF Brings

LEMMA StillTrans ==
  ASSUME NEW g, NEW h, NEW k, NEW T, Still(g, h, T), Still(h, k, T)
  PROVE  Still(g, k, T)
  BY DEF Still

LEMMA SameBrings ==
  ASSUME NEW g \in GoalStates, NEW h \in GoalStates, NEW A, NEW W,
         h.n = g.n, h.attempts = g.attempts, h.parent = g.parent,
         h.approvals = g.approvals, h.thunks = g.thunks
  PROVE  Brings(g, h, A, W)
<1>1. g.n \in Nat /\ \A t \in Tasks : g.attempts[t] \in Nat
  BY DEF GoalStates
<1> QED BY <1>1 DEF Brings

LEMMA RefreshBrings ==
  ASSUME NEW g \in GoalStates, NEW A, NEW W, NEW T
  PROVE  LET h == RefreshGoalStatus(g)
         IN  h \in GoalStates /\ Brings(g, h, A, W) /\ Still(g, h, T) /\ Finished(h)
<1> DEFINE h == RefreshGoalStatus(g)
<1>1. /\ h \in GoalStates /\ Kept(g, h) /\ h.st = g.st
      /\ h.status # "Cancelled" /\ (h.status = "Done" \/ h.satisfied) => Closed(g)
  BY RefreshKept, RefreshFields
<1> HIDE DEF h
<1>2. Brings(g, h, A, W)
  BY <1>1, SameBrings DEF Kept
<1>3. Still(g, h, T) /\ Finished(h)
  BY <1>1 DEF Still, Finished, Closed, Open
<1> QED BY <1>1, <1>2, <1>3 DEF h

\* The common end of an operator: a change, then a refresh.
LEMMA BringsRefresh ==
  ASSUME NEW g \in GoalStates, NEW k \in GoalStates, NEW A, NEW W, Brings(g, k, A, W)
  PROVE  LET h == RefreshGoalStatus(k)
         IN  /\ h \in GoalStates /\ Brings(g, h, A, W) /\ Finished(h)
             /\ \A T : Still(g, k, T) => Still(g, h, T)
<1>1. \A T : /\ RefreshGoalStatus(k) \in GoalStates /\ Brings(k, RefreshGoalStatus(k), A, W)
             /\ Still(k, RefreshGoalStatus(k), T) /\ Finished(RefreshGoalStatus(k))
  BY RefreshBrings
<1> QED BY <1>1, BringsTrans, StillTrans

LEMMA InsertBrings ==
  ASSUME NEW g \in GoalStates, NEW p \in Tasks, p <= g.n, NEW k \in Nat,
         NEW pu \in TaskPurpose, NEW ds \in SUBSET Tasks,
         NEW gd \in {"none", "output", "security"}, NEW A, NEW W, NEW T
  PROVE  LET h == InsertChildren(g, p, k, pu, ds, gd)
         IN  h \in GoalStates /\ Brings(g, h, A, W) /\ Still(g, h, T) /\ g.n <= h.n
<1> DEFINE h == InsertChildren(g, p, k, pu, ds, gd)
<1>1. h \in GoalStates
  BY InsertChildrenType DEF Follows
<1>2. /\ h.n = g.n + k
      /\ h.st = Put(g.st, NextIds(g, k), "Runnable")
      /\ h.parent = Put(g.parent, NextIds(g, k), p)
      /\ h.attempts = g.attempts /\ h.approvals = g.approvals /\ h.thunks = g.thunks
  BY InsertFields
<1>3. g.n \in Nat /\ \A t \in Tasks : g.attempts[t] \in Nat
  BY DEF GoalStates
<1>7. p \in Nat
  BY DEF Tasks
<1> HIDE DEF h
<1>4. \A t \in Tasks : /\ h.st[t] = g.st[t] \/ h.st[t] = "Runnable"
                       /\ h.parent[t] = g.parent[t] \/ h.parent[t] = p
  BY <1>2 DEF Put
<1>5. g.n <= h.n /\ p <= h.n
  BY <1>2, <1>3, <1>7
<1>6. Brings(g, h, A, W) /\ Still(g, h, T)
  BY <1>2, <1>3, <1>4, <1>5 DEF Brings, Still
<1> QED BY <1>1, <1>5, <1>6 DEF h

LEMMA InsertIfBrings ==
  ASSUME NEW g \in GoalStates, NEW h \in GoalStates, NEW A, NEW W, NEW T,
         Brings(g, h, A, W), Still(g, h, T), NEW due, NEW p \in Tasks, p <= g.n,
         NEW pu \in TaskPurpose, NEW ds \in SUBSET Tasks,
         NEW gd \in {"none", "output", "security"}
  PROVE  LET k == InsertIf(due, h, p, pu, ds, gd)
         IN  k \in GoalStates /\ Brings(g, k, A, W) /\ Still(g, k, T)
<1>1. g.n \in Nat /\ h.n \in Nat /\ p \in Nat
  BY DEF GoalStates, Tasks
<1>2. p <= h.n /\ 1 \in Nat
  BY <1>1 DEF Brings
<1> DEFINE k == InsertChildren(h, p, 1, pu, ds, gd)
<1>3. k \in GoalStates /\ Brings(h, k, A, W) /\ Still(h, k, T)
  BY <1>2, InsertBrings
<1> HIDE DEF k
<1>4. Brings(g, k, A, W) /\ Still(g, k, T)
  BY <1>3, BringsTrans, StillTrans
<1> QED BY <1>3, <1>4 DEF InsertIf, k

\* Retiring waits brings none.
LEMMA RetireBrings ==
  ASSUME NEW ws, NEW ts, ws \in SUBSET Approval \/ ws \in SUBSET Thunk
  PROVE  \A w \in Retire(ws, ts) : /\ w.status = "Pending" => w \in ws
                                   /\ \E v \in ws : v.task = w.task
<1> SUFFICES ASSUME NEW w \in Retire(ws, ts)
             PROVE  \E v \in ws : v.task = w.task
  BY RetireKeeps
<1>1. PICK v \in ws : w = IF v.task \in ts /\ v.status = "Pending"
                          THEN [v EXCEPT !.status = "Cancelled"] ELSE v
  BY DEF Retire
<1>2. [v EXCEPT !.status = "Cancelled"].task = v.task
  BY DEF Approval, Thunk
<1> QED BY <1>1, <1>2
-----------------------------------------------------------------------------
(* Control operators *)

LEMMA ApplyHumanApprovalBrings ==
  ASSUME NEW g \in GoalStates, NEW a \in g.approvals, NEW approved \in BOOLEAN
  PROVE  LET h == ApplyHumanApproval(g, a, approved)
         IN  h \in GoalStates /\ Brings(g, h, {}, {}) /\ Finished(h)
<1> DEFINE answer == IF approved THEN "Approved" ELSE "Rejected"
           as == (g.approvals \ {a}) \cup {[a EXCEPT !.status = answer]}
           s == IF ~approved THEN "Blocked"
                ELSE IF g.st[a.task] \in {"WaitingApproval", "Blocked"}
                     THEN "Runnable" ELSE g.st[a.task]
           st == [g.st EXCEPT ![a.task] = s]
           h == [g EXCEPT !.approvals = as, !.st = st]
<1>1. a \in Approval /\ a.task \in Tasks
  BY DEF GoalStates, Approval
<1>2. ApplyHumanApproval(g, a, approved) = RefreshGoalStatus(h)
  BY DEF ApplyHumanApproval
<1>3. as \in SUBSET Approval
  BY <1>1 DEF GoalStates, Approval
<1>4. st \in [Tasks -> TaskStatus \cup {"Unborn"}]
  BY <1>1 DEF GoalStates, TaskStatus
<1>5. \A w \in as : w.status = "Pending" => w \in g.approvals
  BY <1>1 DEF Approval
<1> HIDE DEF st, as
<1>6. /\ h \in GoalStates /\ h.n = g.n /\ h.parent = g.parent
      /\ h.attempts = g.attempts /\ h.approvals = as /\ h.thunks = g.thunks
  BY <1>3, <1>4 DEF GoalStates
<1> HIDE DEF h, answer, s
<1>7. g.n \in Nat /\ \A t \in Tasks : g.attempts[t] \in Nat
  BY DEF GoalStates
<1>8. Brings(g, h, {}, {})
  <2>1. \A t \in Tasks : h.attempts[t] <= g.attempts[t] /\ h.parent[t] = g.parent[t]
    BY <1>6, <1>7
  <2>2. g.n <= h.n
    BY <1>6, <1>7
  <2>3. /\ \A w \in h.approvals : w.status = "Pending" => w \in g.approvals
        /\ h.thunks = g.thunks
    BY <1>5, <1>6
  <2> QED BY <2>1, <2>2, <2>3 DEF Brings
<1> QED BY <1>2, <1>6, <1>8, BringsRefresh

LEMMA CreateThunkBrings ==
  ASSUME NEW g \in GoalStates, NEW t \in Tasks \cup {NoTask},
         NEW kind \in {"approval", "input"}, NEW cont \in Tasks \cup {NoTask}
  PROVE  LET h == CreateThunk(g, t, kind, cont)
         IN  /\ h \in GoalStates /\ Brings(g, h, {}, {t}) /\ Still(g, h, {t})
             /\ h = g \/ Finished(h)
<1> DEFINE w == [task |-> t, cont |-> cont, kind |-> kind, status |-> "Pending"]
           wait == IF kind = "approval" THEN "WaitingApproval" ELSE "WaitingInput"
           st == Put(g.st, {t}, wait)
           ths == g.thunks \cup {w}
           k == [g EXCEPT !.thunks = ths, !.st = st]
<1>1. CASE Waits(g, cont) # {}
  <2>1. CreateThunk(g, t, kind, cont) = g
    BY <1>1 DEF CreateThunk
  <2> QED BY <2>1, SameBrings DEF Still
<1>2. CASE Waits(g, cont) = {}
  <2>1. CreateThunk(g, t, kind, cont) = RefreshGoalStatus(k)
    BY <1>2 DEF CreateThunk
  <2>2. w \in Thunk /\ w.task = t
    BY DEF Thunk
  <2>3. st \in [Tasks -> TaskStatus \cup {"Unborn"}]
    BY PutType DEF GoalStates, TaskStatus
  <2>4. ths \in SUBSET Thunk
    BY <2>2 DEF GoalStates
  <2>5. \A u \in Tasks \ {t} : st[u] = g.st[u]
    BY DEF Put
  <2> HIDE DEF w, st
  <2>6. /\ k \in GoalStates /\ k.n = g.n /\ k.parent = g.parent /\ k.st = st
        /\ k.attempts = g.attempts /\ k.approvals = g.approvals /\ k.thunks = ths
    <3> HIDE DEF ths
    <3> QED BY <2>3, <2>4 DEF GoalStates
  <2> HIDE DEF k
  <2>7. g.n \in Nat /\ \A u \in Tasks : g.attempts[u] \in Nat
    BY DEF GoalStates
  <2>8. Brings(g, k, {}, {t}) /\ Still(g, k, {t})
    BY <2>2, <2>5, <2>6, <2>7 DEF Brings, Still
  <2> QED BY <2>1, <2>6, <2>8, BringsRefresh
<1> QED BY <1>1, <1>2

LEMMA ResumeThunkBrings ==
  ASSUME NEW g \in GoalStates, NEW w \in g.thunks
  PROVE  LET h == ResumeThunk(g, w)
         IN  h \in GoalStates /\ Brings(g, h, {}, {}) /\ Finished(h)
<1> DEFINE woken == WaitingTask(g, w, {"Blocked", "WaitingApproval", "WaitingInput"})
           st == Put(g.st, woken, "Runnable")
           ths == (g.thunks \ {w}) \cup {[w EXCEPT !.status = "Resumed"]}
           k == [g EXCEPT !.thunks = ths, !.st = st]
<1>1. ResumeThunk(g, w) = RefreshGoalStatus(k)
  BY DEF ResumeThunk
<1>2. w \in Thunk /\ g.thunks \in SUBSET Thunk
  BY DEF GoalStates
<1>3. /\ [w EXCEPT !.status = "Resumed"] \in Thunk
      /\ [w EXCEPT !.status = "Resumed"].status = "Resumed"
      /\ [w EXCEPT !.status = "Resumed"].task = w.task
  BY <1>2 DEF Thunk
<1>4. /\ ths \in SUBSET Thunk
      /\ \A v \in ths : v.status = "Pending" => v \in g.thunks
      /\ \A v \in ths : \E u \in g.thunks : u.task = v.task
  BY <1>2, <1>3
<1>5. st \in [Tasks -> TaskStatus \cup {"Unborn"}]
  BY PutType DEF GoalStates, TaskStatus
<1> HIDE DEF st, ths
<1>6. /\ k \in GoalStates /\ k.n = g.n /\ k.parent = g.parent
      /\ k.attempts = g.attempts /\ k.approvals = g.approvals /\ k.thunks = ths
  BY <1>4, <1>5 DEF GoalStates
<1> HIDE DEF k
<1>7. g.n \in Nat /\ \A u \in Tasks : g.attempts[u] \in Nat
  BY DEF GoalStates
<1>8. Brings(g, k, {}, {})
  BY <1>4, <1>6, <1>7 DEF Brings
<1> QED BY <1>1, <1>6, <1>8, BringsRefresh

LEMMA ApplyRestartBrings ==
  ASSUME NEW g \in GoalStates, NEW scope, NEW t, NEW reset
  PROVE  LET h == ApplyRestart(g, scope, t, reset)
         IN  /\ h \in GoalStates /\ Brings(g, h, {}, {}) /\ Finished(h)
             /\ Still(g, h, {})
<1> DEFINE ts == RestartTargets(g, scope, t)
           rs == [u \in Tasks |-> IF u \in ts THEN g.restarts[u] + 1 ELSE g.restarts[u]]
           gr == IF scope = "Goal" THEN g.goalRestarts + 1 ELSE g.goalRestarts
           as == Put(g.attempts, IF reset THEN ts ELSE {}, 0)
           st == Put(g.st, ts, "Runnable")
           ths == Retire(g.thunks, ts)
           aps == Retire(g.approvals, ts)
           k == [g EXCEPT !.thunks = ths, !.approvals = aps, !.st = st,
                          !.attempts = as, !.restarts = rs, !.goalRestarts = gr]
<1>1. ApplyRestart(g, scope, t, reset) = RefreshGoalStatus(k)
  BY DEF ApplyRestart
<1>2. rs \in [Tasks -> Nat] /\ gr \in Nat
  BY DEF GoalStates
<1>3. as \in [Tasks -> Nat]
  BY PutType DEF GoalStates
<1>4. st \in [Tasks -> TaskStatus \cup {"Unborn"}]
  BY PutType DEF GoalStates, TaskStatus
<1>5. ths \in SUBSET Thunk /\ aps \in SUBSET Approval
  BY RetireType DEF GoalStates
<1>6. /\ k \in GoalStates /\ k.n = g.n /\ k.parent = g.parent
      /\ k.approvals = aps /\ k.thunks = ths /\ k.st = st /\ k.attempts = as
  <2> HIDE DEF rs, gr, as, st, ths, aps, ts
  <2> QED BY <1>2, <1>3, <1>4, <1>5 DEF GoalStates
<1> HIDE DEF ts
<1>7. g.n \in Nat /\ \A u \in Tasks : g.attempts[u] \in Nat
  BY DEF GoalStates
<1>8. \A u \in Tasks : /\ st[u] = g.st[u] \/ st[u] = "Runnable"
                       /\ as[u] = g.attempts[u] \/ as[u] = 0
  BY DEF Put
<1>9. \A u \in Tasks : as[u] <= g.attempts[u]
  BY <1>7, <1>8
<1>10. g.approvals \in SUBSET Approval /\ g.thunks \in SUBSET Thunk
  BY DEF GoalStates
<1>11. /\ \A w \in aps : w.status = "Pending" => w \in g.approvals
       /\ \A w \in ths : /\ w.status = "Pending" => w \in g.thunks
                         /\ \E v \in g.thunks : v.task = w.task
  BY <1>10, RetireBrings
<1> HIDE DEF k, rs, gr, as, st, ths, aps
<1>12. Brings(g, k, {}, {}) /\ Still(g, k, {})
  <2>1. Still(g, k, {})
    BY <1>6, <1>8 DEF Still
  <2>2. g.n <= k.n
    BY <1>6, <1>7
  <2>3. \A u \in Tasks : k.attempts[u] <= g.attempts[u]
    BY <1>6, <1>9
  <2>4. k.parent = g.parent
    BY <1>6
  <2> QED BY <1>6, <1>11, <2>1, <2>2, <2>3, <2>4 DEF Brings
<1> QED BY <1>1, <1>6, <1>12, BringsRefresh

LEMMA CancelBrings ==
  ASSUME NEW g \in GoalStates
  PROVE  Cancel(g) \in GoalStates /\ Brings(g, Cancel(g), {}, {})
<1> DEFINE h == Cancel(g)
           aps == Retire(g.approvals, Tasks \cup {NoTask})
           ths == Retire(g.thunks, Tasks \cup {NoTask})
<1>1. /\ h.n = g.n /\ h.attempts = g.attempts /\ h.parent = g.parent
      /\ h.approvals = aps /\ h.thunks = ths
  BY DEF Cancel, GoalStates
<1>2. g.approvals \in SUBSET Approval /\ g.thunks \in SUBSET Thunk
  BY DEF GoalStates
<1>3. /\ \A w \in aps : w.status = "Pending" => w \in g.approvals
      /\ \A w \in ths : /\ w.status = "Pending" => w \in g.thunks
                        /\ \E v \in g.thunks : v.task = w.task
  BY <1>2, RetireBrings
<1>4. g.n \in Nat /\ \A u \in Tasks : g.attempts[u] \in Nat
  BY DEF GoalStates
<1> HIDE DEF h, aps, ths
<1>5. Brings(g, h, {}, {})
  BY <1>1, <1>3, <1>4 DEF Brings
<1> QED BY <1>5, CancelType DEF h

LEMMA ApplySteeringBrings ==
  ASSUME NEW g \in GoalStates, NEW d \in Directive
  PROVE  LET h == ApplySteering(g, d)
         IN  h \in GoalStates /\ Brings(g, h, {}, {}) /\ h.steers # 0
<1> DEFINE inject(purpose, deps) == InsertChildren(g, Root, 1, purpose, deps, "none")
           criteria == IF d.reopen THEN ReopenDoneWork(g) ELSE g
           Good(h) == h \in GoalStates /\ Brings(g, h, {}, {})
<1>1. ASSUME NEW h, Good(h)
      PROVE  Good([h EXCEPT !.steers = @ + 1]) /\ [h EXCEPT !.steers = @ + 1].steers # 0
  <2> DEFINE n == h.steers + 1
             k == [h EXCEPT !.steers = n]
  <2>1. h \in GoalStates /\ n \in Nat /\ n # 0
    BY <1>1 DEF GoalStates
  <2> HIDE DEF n
  <2>2. /\ k \in GoalStates /\ k.n = h.n /\ k.attempts = h.attempts /\ k.parent = h.parent
        /\ k.approvals = h.approvals /\ k.thunks = h.thunks /\ k.steers = n
    BY <2>1 DEF GoalStates
  <2> HIDE DEF k
  <2>3. Brings(h, k, {}, {}) /\ k.steers # 0
    BY <2>1, <2>2, SameBrings
  <2>4. Good(k)
    BY <1>1, <2>2, <2>3, BringsTrans
  <2> QED BY <2>3, <2>4 DEF k, n
<1>2. Good(g)
  BY SameBrings
<1>3. Good(Cancel(g))
  BY CancelBrings
<1>4. ASSUME NEW pu \in {"Work", "Research", "Review"}, NEW ds \in SUBSET Tasks
      PROVE  Good(inject(pu, ds))
  <2>1. g.n \in Nat \ {0} /\ 1 \in Nat
    BY DEF GoalStates
  <2>2. Root \in Tasks /\ Root <= g.n
    BY <2>1, RootIsTask DEF Root
  <2> QED BY <2>1, <2>2, InsertBrings DEF TaskPurpose
<1>5. ASSUME NEW h, Good(h) PROVE Good(RefreshGoalStatus(h))
  BY <1>5, BringsRefresh
<1>6. Good(criteria)
  <2> DEFINE st == Put(g.st, DoneTasks(g, WorkLike), "Runnable")
             r == [g EXCEPT !.st = st]
  <2>1. st \in [Tasks -> TaskStatus \cup {"Unborn"}]
    BY PutType DEF GoalStates, TaskStatus
  <2>2. ReopenDoneWork(g) = r
    BY DEF ReopenDoneWork
  <2> HIDE DEF st
  <2>3. /\ r \in GoalStates /\ r.n = g.n /\ r.parent = g.parent
        /\ r.attempts = g.attempts /\ r.approvals = g.approvals /\ r.thunks = g.thunks
    BY <2>1 DEF GoalStates
  <2>4. Good(ReopenDoneWork(g))
    BY <2>2, <2>3, SameBrings
  <2> QED BY <1>2, <2>4
<1>7. Good([criteria EXCEPT !.scoreOk = @ /\ ~d.raise])
  <2> HIDE DEF criteria
  <2>1. ASSUME NEW b \in BOOLEAN PROVE Good([criteria EXCEPT !.scoreOk = b])
    <3> DEFINE k == [criteria EXCEPT !.scoreOk = b]
    <3>1. /\ k \in GoalStates /\ k.n = criteria.n /\ k.attempts = criteria.attempts
          /\ k.parent = criteria.parent /\ k.approvals = criteria.approvals
          /\ k.thunks = criteria.thunks
      BY <1>6 DEF GoalStates
    <3> HIDE DEF k
    <3>2. Brings(criteria, k, {}, {})
      BY <1>6, <3>1, SameBrings
    <3>3. Good(k)
      BY <1>6, <3>1, <3>2, BringsTrans
    <3> QED BY <3>3 DEF k
  <2>2. (criteria.scoreOk /\ ~d.raise) \in BOOLEAN
    OBVIOUS
  <2> QED BY <2>1, <2>2
<1>8. ASSUME NEW x \in GoalStatus PROVE Good([g EXCEPT !.status = x])
  <2> DEFINE k == [g EXCEPT !.status = x]
  <2>1. /\ k \in GoalStates /\ k.n = g.n /\ k.attempts = g.attempts
        /\ k.parent = g.parent /\ k.approvals = g.approvals /\ k.thunks = g.thunks
    BY DEF GoalStates
  <2> HIDE DEF k
  <2>2. Good(k)
    BY <2>1, SameBrings
  <2> QED BY <2>2 DEF k
<1>9. d.kind \in SteeringKinds /\ {d.target} \in SUBSET Tasks /\ g.status \in GoalStatus
  BY DEF Directive, GoalStates
<1>10. /\ Good([g EXCEPT !.status = "Paused"])
       /\ Good([g EXCEPT !.status = IF @ \in {"Paused", "Blocked"}
                                    THEN "Running" ELSE @])
  BY <1>8, <1>9 DEF GoalStatus
<1> DEFINE h == CASE d.kind = "cancel" -> Cancel(g)
               [] d.kind = "note" -> g
               [] d.kind = "inject_task" -> inject("Work", {})
               [] d.kind = "request_research" -> inject("Research", {})
               [] d.kind = "standard_review" -> inject("Review", {d.target})
               [] d.kind = "evaluate" -> RefreshGoalStatus(g)
               [] d.kind = "update_done_criteria" -> RefreshGoalStatus(criteria)
               [] d.kind = "expand_done_criteria" -> RefreshGoalStatus(
                    [criteria EXCEPT !.scoreOk = @ /\ ~d.raise])
               [] d.kind = "pause" -> [g EXCEPT !.status = "Paused"]
               [] d.kind = "resume" ->
                    [g EXCEPT !.status = IF @ \in {"Paused", "Blocked"}
                                         THEN "Running" ELSE @]
<1>11. ApplySteering(g, d) = [h EXCEPT !.steers = @ + 1]
  BY DEF ApplySteering
<1> HIDE DEF Good, inject, criteria
<1>12. /\ Good(inject("Work", {})) /\ Good(inject("Research", {}))
       /\ Good(inject("Review", {d.target}))
  BY <1>4, <1>9
<1>13. /\ Good(RefreshGoalStatus(g)) /\ Good(RefreshGoalStatus(criteria))
       /\ Good(RefreshGoalStatus([criteria EXCEPT !.scoreOk = @ /\ ~d.raise]))
  BY <1>2, <1>5, <1>6, <1>7
<1>14. Good(h)
  BY <1>2, <1>3, <1>9, <1>10, <1>12, <1>13 DEF SteeringKinds
<1> HIDE DEF h
<1>15. Good(ApplySteering(g, d)) /\ ApplySteering(g, d).steers # 0
  BY <1>1, <1>11, <1>14
<1> QED BY <1>15 DEF Good
-----------------------------------------------------------------------------
(* The operators of drive_state *)

LEMMA ApplyValidationBrings ==
  ASSUME NEW g \in GoalStates, NEW t \in Tasks, NEW o \in Outcome
  PROVE  LET h == ApplyValidation(g, t, o)
         IN  /\ h \in GoalStates /\ Brings(g, h, {}, {}) /\ Still(g, h, {t})
             /\ Finished(h)
<1> DEFINE unifies(r) == /\ g.purpose[t] = "Unification" /\ r.unifier = t
                         /\ o.status = "Done" /\ o.passes
           rs == [i \in DOMAIN g.rounds |->
                    IF unifies(g.rounds[i])
                    THEN [g.rounds[i] EXCEPT !.status = "Unified"]
                    ELSE g.rounds[i]]
           d == IF g.purpose[t] \in {"Review", "Unification"}
                THEN o.decision ELSE g.decision
           s == StatusAfterValidation(o)
           st == [g.st EXCEPT ![t] = s]
           k == [g EXCEPT !.st = st, !.scoreOk = o.scoreOk, !.decision = d, !.rounds = rs]
<1>1. ApplyValidation(g, t, o) = RefreshGoalStatus(k)
  BY DEF ApplyValidation
<1>2. s \in {"WaitingInput", "Blocked", "Failed", "Done", "Runnable"}
  BY DEF StatusAfterValidation
<1>3. rs \in Seq(ReviewRound)
  <2>1. g.rounds \in Seq(ReviewRound)
    BY DEF GoalStates
  <2>2. DOMAIN g.rounds = 1..Len(g.rounds) /\ Len(g.rounds) \in Nat
    BY <2>1
  <2>3. \A i \in DOMAIN g.rounds :
            [g.rounds[i] EXCEPT !.status = "Unified"] \in ReviewRound
    BY RoundType DEF ReviewRound
  <2>4. \A i \in 1..Len(g.rounds) : rs[i] \in ReviewRound
    BY <2>2, <2>3, RoundType
  <2>5. rs \in [1..Len(g.rounds) -> ReviewRound]
    BY <2>2, <2>4
  <2> HIDE DEF rs
  <2> QED BY <2>2, <2>5
<1>4. d \in {"none", "accept", "changes"} /\ o.scoreOk \in BOOLEAN
  BY DEF GoalStates, Outcome
<1> HIDE DEF s
<1>5. st \in [Tasks -> TaskStatus \cup {"Unborn"}]
  BY <1>2 DEF GoalStates, TaskStatus, Terminal
<1>6. \A u \in Tasks \ {t} : st[u] = g.st[u]
  BY DEF GoalStates
<1> HIDE DEF rs, d, st
<1>7. /\ k \in GoalStates /\ k.st = st /\ k.n = g.n /\ k.attempts = g.attempts
      /\ k.parent = g.parent /\ k.approvals = g.approvals /\ k.thunks = g.thunks
  BY <1>3, <1>4, <1>5 DEF GoalStates
<1> HIDE DEF k
<1>8. Brings(g, k, {}, {}) /\ Still(g, k, {t})
  BY <1>6, <1>7, SameBrings DEF Still
<1> QED BY <1>1, <1>7, <1>8, BringsRefresh

LEMMA RecordTimeoutBrings ==
  ASSUME NEW g \in GoalStates, NEW t \in Tasks
  PROVE  LET h == RecordTimeout(g, t)
         IN  /\ h \in GoalStates /\ Brings(g, h, {}, {}) /\ Still(g, h, {t})
             /\ Finished(h)
<1> DEFINE timed == [g EXCEPT !.timedOut = g.timedOut \cup {t}]
<1>1. /\ timed \in GoalStates /\ timed.n = g.n /\ timed.st = g.st
      /\ timed.attempts = g.attempts /\ timed.parent = g.parent
      /\ timed.approvals = g.approvals /\ timed.thunks = g.thunks
  BY DEF GoalStates
<1>2. RecordTimeout(g, t) =
        CASE OnTaskTimeout = "RestartIfAllowed" ->
               ApplyRestart(timed, "Task", t, ResetOnRestart)
          [] OnTaskTimeout = "BlockAndNotify" ->
               RefreshGoalStatus([timed EXCEPT !.st[t] = "Blocked"])
          [] OTHER -> RefreshGoalStatus([timed EXCEPT !.st[t] = "Failed"])
  BY DEF RecordTimeout
<1> HIDE DEF timed
<1>3. Brings(g, timed, {}, {}) /\ Still(g, timed, {t})
  BY <1>1, SameBrings DEF Still
<1>4. LET h == ApplyRestart(timed, "Task", t, ResetOnRestart)
      IN  h \in GoalStates /\ Brings(g, h, {}, {}) /\ Still(g, h, {t}) /\ Finished(h)
  <2> DEFINE h == ApplyRestart(timed, "Task", t, ResetOnRestart)
  <2>1. /\ h \in GoalStates /\ Brings(timed, h, {}, {}) /\ Finished(h)
        /\ Still(timed, h, {})
    BY <1>1, ApplyRestartBrings
  <2> HIDE DEF h
  <2>2. Still(timed, h, {t})
    BY <2>1 DEF Still
  <2>3. Brings(g, h, {}, {}) /\ Still(g, h, {t})
    BY <1>1, <1>3, <2>1, <2>2, BringsTrans, StillTrans
  <2> QED BY <2>1, <2>3 DEF h
<1>5. ASSUME NEW s \in {"Blocked", "Failed"}
      PROVE  LET h == RefreshGoalStatus([timed EXCEPT !.st[t] = s])
             IN  h \in GoalStates /\ Brings(g, h, {}, {}) /\ Still(g, h, {t}) /\ Finished(h)
  <2> DEFINE st == [timed.st EXCEPT ![t] = s]
             k == [timed EXCEPT !.st = st]
  <2>1. st \in [Tasks -> TaskStatus \cup {"Unborn"}]
    BY <1>1 DEF GoalStates, TaskStatus
  <2>2. \A u \in Tasks \ {t} : st[u] = timed.st[u]
    BY <1>1 DEF GoalStates
  <2>3. [timed EXCEPT !.st[t] = s] = k
    BY <1>1 DEF GoalStates
  <2> HIDE DEF st
  <2>4. /\ k \in GoalStates /\ k.st = st /\ k.n = timed.n /\ k.attempts = timed.attempts
        /\ k.parent = timed.parent /\ k.approvals = timed.approvals
        /\ k.thunks = timed.thunks
    BY <1>1, <2>1 DEF GoalStates
  <2> HIDE DEF k
  <2>5. Brings(g, k, {}, {}) /\ Still(g, k, {t})
    <3>1. Brings(timed, k, {}, {}) /\ Still(timed, k, {t})
      BY <1>1, <2>2, <2>4, SameBrings DEF Still
    <3> QED BY <1>1, <1>3, <2>4, <3>1, BringsTrans, StillTrans
  <2>6. LET h == RefreshGoalStatus(k)
        IN  h \in GoalStates /\ Brings(g, h, {}, {}) /\ Still(g, h, {t}) /\ Finished(h)
    BY <2>4, <2>5, BringsRefresh
  <2> QED BY <2>3, <2>6
<1> QED BY <1>2, <1>4, <1>5

LEMMA ApplyAgentResultBrings ==
  ASSUME NEW g \in GoalStates, NEW t \in Tasks, t <= g.n, NEW o \in Outcome
  PROVE  LET h == ApplyAgentResult(g, t, o)
         IN  /\ h \in GoalStates /\ Brings(g, h, {}, {t}) /\ Still(g, h, {t})
             /\ Finished(h)
<1> DEFINE s == StatusAfterResult(g, t, o)
           st == [g.st EXCEPT ![t] = s]
           g1 == [g EXCEPT !.st = st]
           kind == IF o.thunk = "approval" THEN "approval" ELSE "input"
           g2 == IF ~CarriesThunk(g, t, o) THEN g1
                 ELSE CreateThunk(g1, t, kind, ThunkCont(g, t, o))
           g3 == InsertIf("free" \in o.children, g2, t, "Work", {}, "none")
           g4 == InsertIf("after" \in o.children, g3, t, "Work", {t}, "none")
           due(tag) == o.status = "Done" /\ tag \in GuardrailsDue(g, t)
           g5 == InsertIf(due("output"), g4, t, "Review", {t}, "output")
           g6 == InsertIf(due("security"), g5, t, "Review", {t}, "security")
           Good(h) == h \in GoalStates /\ Brings(g, h, {}, {t}) /\ Still(g, h, {t})
<1> USE DEF TaskPurpose
<1>1. ApplyAgentResult(g, t, o) = RefreshGoalStatus(g6)
  BY DEF ApplyAgentResult
<1>2. s \in {"WaitingApproval", "NeedsValidation", "Runnable", "WaitingInput",
             "Blocked", "Failed"}
  BY DEF StatusAfterResult
<1> HIDE DEF s
<1>3. st \in [Tasks -> TaskStatus \cup {"Unborn"}]
  BY <1>2 DEF GoalStates, TaskStatus
<1>4. \A u \in Tasks \ {t} : st[u] = g.st[u]
  BY DEF GoalStates
<1> HIDE DEF st
<1>5. /\ g1 \in GoalStates /\ g1.n = g.n /\ g1.attempts = g.attempts /\ g1.st = st
      /\ g1.parent = g.parent /\ g1.approvals = g.approvals /\ g1.thunks = g.thunks
  BY <1>3 DEF GoalStates
<1> HIDE DEF g1
<1>6. Good(g1)
  BY <1>4, <1>5, SameBrings DEF Still
<1>7. Good(g2)
  <2> DEFINE k == CreateThunk(g1, t, kind, ThunkCont(g, t, o))
  <2>1. ThunkCont(g, t, o) \in Tasks \cup {NoTask}
    BY DEF ThunkCont
  <2>2. k \in GoalStates /\ Brings(g1, k, {}, {t}) /\ Still(g1, k, {t})
    BY <1>6, <2>1, CreateThunkBrings
  <2> HIDE DEF k
  <2>3. Good(k)
    BY <1>6, <2>2, BringsTrans, StillTrans
  <2> QED BY <1>6, <2>3 DEF k
<1> HIDE DEF g2
<1>8. Good(g3)
  BY <1>7, InsertIfBrings
<1> HIDE DEF g3
<1>9. Good(g4)
  BY <1>8, InsertIfBrings
<1> HIDE DEF g4
<1>10. Good(g5)
  BY <1>9, InsertIfBrings
<1> HIDE DEF g5
<1>11. Good(g6)
  BY <1>10, InsertIfBrings
<1> HIDE DEF g6
<1> QED BY <1>1, <1>11, BringsRefresh

\* What the review frontier answers: a goal with at most new tasks, and one that
\* says the truth about being finished when the answer is Ok.
Extends(g, r) == /\ r.state \in GoalStates /\ Brings(g, r.state, {}, {})
                 /\ Still(g, r.state, {}) /\ (r.ok => Finished(r.state))

LEMMA ExtendsTrans ==
  ASSUME NEW g \in GoalStates, NEW h \in GoalStates, Brings(g, h, {}, {}),
         Still(g, h, {}), NEW r, Extends(h, r)
  PROVE  Extends(g, r)
  BY BringsTrans, StillTrans DEF Extends

LEMMA RefusedExtends ==
  ASSUME NEW g \in GoalStates, NEW spawned
  PROVE  Extends(g, Frontier(FALSE, spawned, g))
<1>1. Brings(g, g, {}, {}) /\ Still(g, g, {})
  BY SameBrings DEF Still
<1> QED BY <1>1 DEF Extends, Frontier

LEMMA RefreshExtends ==
  ASSUME NEW g \in GoalStates, NEW k \in GoalStates, Brings(g, k, {}, {}),
         Still(g, k, {}), NEW spawned
  PROVE  Extends(g, Frontier(TRUE, spawned, RefreshGoalStatus(k)))
<1>1. LET h == RefreshGoalStatus(k)
      IN  h \in GoalStates /\ Brings(g, h, {}, {}) /\ Still(g, h, {}) /\ Finished(h)
  BY BringsRefresh
<1> QED BY <1>1 DEF Extends, Frontier

LEMMA RootBrings ==
  ASSUME NEW g \in GoalStates, NEW k \in Nat, NEW pu \in TaskPurpose,
         NEW ds \in SUBSET Tasks
  PROVE  LET h == InsertChildren(g, Root, k, pu, ds, "none")
         IN  h \in GoalStates /\ Brings(g, h, {}, {}) /\ Still(g, h, {})
<1>1. g.n \in Nat \ {0}
  BY DEF GoalStates
<1>2. Root \in Tasks /\ Root <= g.n
  BY <1>1, RootIsTask DEF Root
<1> QED BY <1>2, InsertBrings

LEMMA SpawnReviewRoundExtends ==
  ASSUME NEW g \in GoalStates
  PROVE  Extends(g, SpawnReviewRound(g))
<1> DEFINE reviews == IF MinReviews > 1 THEN MinReviews ELSE 1
           subjects == DoneTasks(g, WorkLike)
           round == [subjects |-> subjects, reviewers |-> NextIds(g, reviews),
                     unifier |-> NoTask, status |-> "ReviewsSpawned"]
           h == InsertChildren(g, Root, reviews, "Review", subjects, "none")
           rs == Append(h.rounds, round)
           k == [h EXCEPT !.rounds = rs]
<1>1. reviews \in Nat
  BY ConstantsOK
<1>2. subjects \in SUBSET Tasks /\ NextIds(g, reviews) \in SUBSET Tasks
  BY DEF DoneTasks, NextIds
<1>3. round \in ReviewRound
  BY <1>2 DEF ReviewRound
<1>4. h \in GoalStates /\ Brings(g, h, {}, {}) /\ Still(g, h, {})
  BY <1>1, <1>2, RootBrings DEF TaskPurpose
<1>5. SpawnReviewRound(g) = IF SpawnAllowed(g, Root, reviews)
                            THEN Frontier(TRUE, TRUE, RefreshGoalStatus(k))
                            ELSE Frontier(FALSE, FALSE, g)
  BY DEF SpawnReviewRound, SpawnFromRoot
<1> HIDE DEF h, round
<1>6. rs \in Seq(ReviewRound)
  BY <1>3, <1>4 DEF GoalStates
<1> HIDE DEF rs
<1>7. /\ k \in GoalStates /\ k.n = h.n /\ k.attempts = h.attempts /\ k.st = h.st
      /\ k.parent = h.parent /\ k.approvals = h.approvals /\ k.thunks = h.thunks
  BY <1>4, <1>6 DEF GoalStates
<1> HIDE DEF k
<1>8. Brings(g, k, {}, {}) /\ Still(g, k, {})
  <2>1. Brings(h, k, {}, {}) /\ Still(h, k, {})
    BY <1>4, <1>7, SameBrings DEF Still
  <2> QED BY <1>4, <1>7, <2>1, BringsTrans, StillTrans
<1> QED BY <1>5, <1>7, <1>8, RefreshExtends, RefusedExtends

LEMMA RoundsRefreshFinished ==
  ASSUME NEW h \in GoalStates, NEW rs
  PROVE  Finished(RefreshGoalStatus([h EXCEPT !.rounds = rs]))
<1> DEFINE k == [h EXCEPT !.rounds = rs]
           s == StoppedStatus(k, Any(k, "WaitingInput"),
                              IF Satisfied(k) THEN "Done" ELSE "Running")
           f == [k EXCEPT !.satisfied = Satisfied(k), !.status = s]
<1>1. CASE k.status = "Cancelled"
  <2>1. RefreshGoalStatus(k) = k
    BY <1>1 DEF RefreshGoalStatus
  <2> HIDE DEF k
  <2> QED BY <1>1, <2>1 DEF Finished, k
<1>2. CASE k.status # "Cancelled"
  <2>1. RefreshGoalStatus(k) = f
    BY <1>2 DEF RefreshGoalStatus
  <2>2. s = "Done" => Satisfied(k)
    BY DEF StoppedStatus
  <2>3. Satisfied(k) => Closed(k)
    BY DEF Satisfied, Closed
  <2> HIDE DEF s
  <2>4. f.status = s /\ f.satisfied = Satisfied(k) /\ f.st = k.st
    BY DEF GoalStates
  <2> HIDE DEF f, k
  <2>5. Finished(f)
    BY <2>2, <2>3, <2>4 DEF Finished, Closed, Open
  <2> QED BY <2>1, <2>5 DEF k
<1> QED BY <1>1, <1>2

LEMMA SpawnUnifierExtends ==
  ASSUME NEW g \in GoalStates, g.rounds # <<>>, SpawnUnifier(g).state.n <= MaxTasks
  PROVE  Extends(g, SpawnUnifier(g))
<1> DEFINE round == [LastRound(g) EXCEPT !.unifier = g.n + 1,
                                         !.status = "ReadyForUnification"]
           h == InsertChildren(g, Root, 1, "Unification",
                               LastRound(g).reviewers, "none")
           rs == [h.rounds EXCEPT ![Len(g.rounds)] = round]
           final == RefreshGoalStatus([h EXCEPT !.rounds = rs])
<1>1. SpawnUnifier(g).state \in GoalStates
  BY SpawnUnifierType DEF Follows
<1>2. LastRound(g).reviewers \in SUBSET Tasks /\ 1 \in Nat
  BY LastRoundType DEF ReviewRound
<1>3. h \in GoalStates /\ Brings(g, h, {}, {}) /\ Still(g, h, {})
  BY <1>2, RootBrings DEF TaskPurpose
<1>4. SpawnUnifier(g) = IF SpawnAllowed(g, Root, 1) THEN Frontier(TRUE, TRUE, final)
                                                    ELSE Frontier(FALSE, FALSE, g)
  BY DEF SpawnUnifier, SpawnFromRoot
<1>5. Kept(h, final) /\ Finished(final)
  <2> HIDE DEF h, rs
  <2> QED BY <1>3, RoundsRefreshKept, RoundsRefreshFinished
<1> HIDE DEF h, final
<1>6. CASE SpawnAllowed(g, Root, 1)
  <2>1. SpawnUnifier(g) = Frontier(TRUE, TRUE, final)
    BY <1>4, <1>6
  <2>2. final \in GoalStates
    BY <1>1, <2>1 DEF Frontier
  <2>3. Brings(h, final, {}, {}) /\ Still(h, final, {})
    BY <1>3, <1>5, <2>2, SameBrings DEF Kept, Still
  <2>4. Brings(g, final, {}, {}) /\ Still(g, final, {})
    BY <1>3, <2>2, <2>3, BringsTrans, StillTrans
  <2> QED BY <1>5, <2>1, <2>2, <2>4 DEF Extends, Frontier
<1> QED BY <1>4, <1>6, RefusedExtends

LEMMA SpawnActorRetryExtends ==
  ASSUME NEW g \in GoalStates
  PROVE  Extends(g, SpawnActorRetry(g))
<1> DEFINE latest == CHOOSE i \in Unifiers(g) : \A j \in Unifiers(g) : j <= i
           unifier == g.rounds[latest].unifier
           h == InsertChildren(g, Root, 1, "ActorRetry", {unifier}, "none")
<1>1. Brings(g, g, {}, {}) /\ Still(g, g, {})
  BY SameBrings DEF Still
<1>2. CASE Unifiers(g) = {}
  BY <1>2, RefusedExtends DEF SpawnActorRetry
<1>3. CASE Unifiers(g) # {}
  <2>1. g.rounds \in Seq(ReviewRound)
    BY DEF GoalStates
  <2>2. Unifiers(g) \in SUBSET (1..Len(g.rounds)) /\ Len(g.rounds) \in Nat
    BY <2>1 DEF Unifiers
  <2>3. latest \in Unifiers(g)
    BY <1>3, <2>2, LargestExists
  <2>4. unifier \in Tasks
    <3> HIDE DEF latest
    <3>1. latest \in DOMAIN g.rounds /\ g.rounds[latest].unifier # NoTask
      BY <2>3 DEF Unifiers
    <3> QED BY <3>1, RoundType DEF ReviewRound
  <2>5. \/ SpawnActorRetry(g) = Frontier(TRUE, FALSE, RefreshGoalStatus(g))
        \/ SpawnActorRetry(g) = Frontier(TRUE, TRUE, RefreshGoalStatus(h))
        \/ SpawnActorRetry(g) = Frontier(FALSE, FALSE, g)
    BY <1>3 DEF SpawnActorRetry, SpawnFromRoot
  <2> HIDE DEF unifier
  <2>6. 1 \in Nat /\ {unifier} \in SUBSET Tasks
    BY <2>4
  <2>7. h \in GoalStates /\ Brings(g, h, {}, {}) /\ Still(g, h, {})
    BY <2>6, RootBrings DEF TaskPurpose
  <2> HIDE DEF h
  <2> QED BY <1>1, <2>5, <2>7, RefreshExtends, RefusedExtends
<1> QED BY <1>2, <1>3

LEMMA EnsureReviewFrontierExtends ==
  ASSUME NEW g \in GoalStates, EnsureReviewFrontier(g).state.n <= MaxTasks
  PROVE  Extends(g, EnsureReviewFrontier(g))
<1> DEFINE unified == IF ~LastRoundReady(g) THEN g
                      ELSE [g EXCEPT !.rounds[Len(g.rounds)].status = "Unified"]
           Good(h) == h \in GoalStates /\ Brings(g, h, {}, {}) /\ Still(g, h, {})
<1>1. Good(g)
  BY SameBrings DEF Still
<1>2. Good(unified)
  <2>1. CASE LastRoundReady(g)
    <3>1. g.rounds # <<>>
      BY <2>1 DEF LastRoundReady
    <3>2. [LastRound(g) EXCEPT !.status = "Unified"] \in ReviewRound
      BY <3>1, LastRoundType DEF ReviewRound
    <3> DEFINE k == [g EXCEPT !.rounds[Len(g.rounds)] =
                                 [LastRound(g) EXCEPT !.status = "Unified"]]
    <3>3. k \in GoalStates
      BY <3>1, <3>2, ReplaceLastRoundType DEF Follows
    <3>4. Kept(g, k)
      BY DEF GoalStates, Kept
    <3>5. unified = k
      BY <2>1 DEF LastRound
    <3> HIDE DEF k, unified
    <3> QED BY <3>3, <3>4, <3>5, SameBrings DEF Kept, Still
  <2>2. CASE ~LastRoundReady(g)
    BY <1>1, <2>2
  <2> QED BY <2>1, <2>2
<1> HIDE DEF unified
<1>3. /\ Extends(g, SpawnReviewRound(g))
      /\ Extends(g, SpawnReviewRound(unified))
      /\ Extends(g, SpawnActorRetry(unified))
      /\ Extends(g, Frontier(TRUE, FALSE, RefreshGoalStatus(g)))
      /\ Extends(g, Frontier(TRUE, FALSE, RefreshGoalStatus(unified)))
  BY <1>1, <1>2, SpawnReviewRoundExtends, SpawnActorRetryExtends, RefreshExtends,
     ExtendsTrans
<1>4. LastRoundReady(g) => g.rounds # <<>>
  BY DEF LastRoundReady
<1>5. \/ EnsureReviewFrontier(g) = Frontier(TRUE, FALSE, RefreshGoalStatus(g))
      \/ EnsureReviewFrontier(g) = SpawnReviewRound(g)
      \/ LastRoundReady(g) /\ EnsureReviewFrontier(g) = SpawnUnifier(g)
      \/ EnsureReviewFrontier(g) = SpawnReviewRound(unified)
      \/ EnsureReviewFrontier(g) = SpawnActorRetry(unified)
      \/ EnsureReviewFrontier(g) = Frontier(TRUE, FALSE, RefreshGoalStatus(unified))
  BY Zenon DEF EnsureReviewFrontier, unified
<1> QED
  BY <1>3, <1>4, <1>5, SpawnUnifierExtends

LEMMA RequestApprovalBrings ==
  ASSUME NEW g \in GoalStates, NEW t \in Tasks
  PROVE  LET h == RequestApproval(g, t)
         IN  h \in GoalStates /\ Brings(g, h, {t}, {}) /\ Finished(h)
<1> DEFINE a == [task |-> t, status |-> "Pending", attempt |-> g.attempts[t] + 1]
           as == g.approvals \cup {a}
           st == [g.st EXCEPT ![t] = "WaitingApproval"]
           k == [g EXCEPT !.st = st, !.approvals = as]
<1>1. RequestApproval(g, t) = RefreshGoalStatus(k)
  BY DEF RequestApproval
<1>2. a \in Approval /\ a.task = t
  BY DEF Approval, GoalStates
<1>3. st \in [Tasks -> TaskStatus \cup {"Unborn"}]
  BY DEF GoalStates, TaskStatus
<1> HIDE DEF a, st
<1>4. /\ k \in GoalStates /\ k.n = g.n /\ k.parent = g.parent
      /\ k.attempts = g.attempts /\ k.thunks = g.thunks /\ k.approvals = as
  BY <1>2, <1>3 DEF GoalStates
<1> HIDE DEF k
<1>5. g.n \in Nat /\ \A u \in Tasks : g.attempts[u] \in Nat
  BY DEF GoalStates
<1>6. Brings(g, k, {t}, {})
  BY <1>2, <1>4, <1>5 DEF Brings
<1> QED BY <1>1, <1>4, <1>6, BringsRefresh
-----------------------------------------------------------------------------
(* What a step may do, of an actor's point of view; and the snapshot       *)

\* The parents and waits of a goal are about tasks it has.
Rooted(g) == /\ \A t \in Tasks : g.parent[t] = NoTask \/ g.parent[t] <= g.n
             /\ \A w \in g.thunks : w.task = NoTask \/ w.task <= g.n

\* The tasks a round has left stay runnable, whatever the others bring about.
LeftInv ==
    /\ handler.pc \in {"tasks", "running", "validating"} =>
          \A t \in handler.left : state.st[t] = "Runnable"
    /\ handler.pc \in {"running", "validating"} => handler.task \notin handler.left

Unsteered(g) == g.steers = 0 /\ g.status = "Done" => Closed(g)
ViewInv == Rooted(state) /\ Unsteered(state) /\ LeftInv

LEMMA RootedBrings ==
  ASSUME NEW g \in GoalStates, NEW h \in GoalStates, NEW A, NEW W, Brings(g, h, A, W),
         \A t \in W : t = NoTask \/ (t \in Tasks /\ t <= g.n), Rooted(g)
  PROVE  Rooted(h)
<1>1. /\ g.n \in Nat /\ h.n \in Nat /\ g.n <= h.n
      /\ \A t \in Tasks : g.parent[t] \in Nat
      /\ \A w \in g.thunks : w.task \in Nat
  <2>1. \A t \in Tasks \cup {NoTask} : t \in Nat
    BY DEF Tasks, NoTask
  <2>2. /\ \A t \in Tasks : g.parent[t] \in Tasks \cup {NoTask}
        /\ \A w \in g.thunks : w.task \in Tasks \cup {NoTask}
    BY DEF GoalStates, Thunk
  <2> QED BY <2>1, <2>2 DEF GoalStates, Brings
<1>2. \A t \in Tasks : h.parent[t] = NoTask \/ h.parent[t] <= h.n
  BY <1>1 DEF Brings, Rooted
<1>3. ASSUME NEW w \in h.thunks PROVE w.task = NoTask \/ w.task <= h.n
  <2>1. w.task \in W \/ \E v \in g.thunks : v.task = w.task
    BY DEF Brings
  <2>2. w.task \in Nat
    BY DEF GoalStates, Thunk, Tasks, NoTask
  <2>3. w.task = NoTask \/ w.task <= g.n
    BY <2>1 DEF Rooted
  <2> QED BY <1>1, <2>2, <2>3
<1> QED BY <1>2, <1>3 DEF Rooted

\* A step that brings waits only where the actors take them is permitted.
LEMMA PermittedBy ==
  ASSUME state \in GoalStates, state' \in GoalStates, NEW A, NEW W,
         Brings(state, state', A, W), \A t \in A : state.st[t] = "Runnable",
         \A t \in W : t # NoTask => Takes(t, "ThunkCreated") \/ LostReport(t),
         handler.pc = "running" => state.st[handler.task] = "Running",
         state.status = "Cancelled" => state'.status # "Done"
  PROVE  Permitted
<1> USE DEF TaskCanApply, TargetedKinds, TaskTakes
<1>1. \A t \in Tasks : /\ state'.attempts[t] \in Nat /\ state.attempts[t] \in Nat
                       /\ state'.attempts[t] <= state.attempts[t]
  BY DEF GoalStates, Brings
<1>2. \A t \in Tasks : ~(state'.attempts[t] > state.attempts[t])
  BY <1>1
<1>3. handler.pc = "running" => Takes(handler.task, "WorkerResultReceived")
  BY DEF Takes
<1>4. \A w \in NewWaits(state.thunks, state'.thunks) :
          Takes(w.task, "ThunkCreated") \/ LostReport(w.task)
  BY DEF NewWaits, Brings
<1>5. \A w \in NewWaits(state.approvals, state'.approvals) : Takes(w.task, "ApprovalRequested")
  BY DEF NewWaits, Brings, Takes
<1>6. state'.status = "Done" => GoalCanApply(state.status, "GoalSatisfied")
  BY DEF GoalCanApply
<1> QED BY <1>2, <1>3, <1>4, <1>5, <1>6 DEF Permitted

\* A cancelled goal is left as it is, or blocked when there is no round at all.
LEMMA CancelledStays ==
  ASSUME TypeInv, state.status = "Cancelled", ControlHandlers \/ DriveStep
  PROVE  state' = state \/ state'.status # "Done" 
<1>1. state \in GoalStates /\ GoalTerminal(state)
  BY DEF TypeInv, TypeOK, GoalTerminal, Terminal
<1>2. CASE ControlHandlers
  <2>1. Run
    BY <1>2 DEF ControlHandlers, CancelGoal, Steer, Approve, Restart,
       ResumeDelayedThunk, CreateDelayedThunk, AcceptsControl
  <2> QED BY <2>1 DEF Run, Control, Persist
<1>3. CASE DriveStops \/ SnapshotFrontier \/ EndRound
  BY <1>3 DEF DriveStops, SnapshotFrontier, EndRound, Persist
<1>4. CASE BudgetExhausted \/ ExtendFrontier
  BY <1>4 DEF BudgetExhausted, ExtendFrontier, Working, Stops
<1>5. CASE FrontierLimit
  BY <1>1, <1>5 DEF FrontierLimit, Persist, GoalStates
<1>6. CASE DispatchTask
  BY <1>1, <1>6 DEF DispatchTask, DispatchDenied, Persist
<1>7. CASE WorkerAnswers
  BY <1>1, <1>7 DEF WorkerAnswers, ApplyAgentResultOk, Persist
<1>8. CASE ApplyReport
  BY <1>1, <1>8 DEF ApplyReport, ApplyValidationOk, Persist
<1> QED BY <1>2, <1>3, <1>4, <1>5, <1>6, <1>7, <1>8 DEF DriveStep

LEMMA ViewInvInit == Init => ViewInv
<1> SUFFICES ASSUME Init PROVE ViewInv
  OBVIOUS
<1>1. PICK budget \in Budget : state = NewGoal(budget)
  BY DEF Init
<1>2. /\ state.thunks = {} /\ state.status = "Running"
      /\ \A t \in Tasks : state.parent[t] = NoTask
  BY <1>1 DEF NewGoal
<1>3. handler.pc \in {"idle", "drive"}
  BY FrameTypes, WorkflowConstantsOK DEF Init
<1> QED BY <1>2, <1>3 DEF ViewInv, Rooted, Unsteered, LeftInv

\* What every step of a handler that drops its frame's snapshot has to show.
ViewStep == ViewInv' /\ Permitted

LEMMA SameView ==
  ASSUME TypeInv, GatesInv, ViewInv, state' = state, LeftInv'
  PROVE  ViewStep
<1>1. state \in GoalStates
  BY DEF TypeInv, TypeOK
<1>2. Rooted(state') /\ Unsteered(state')
  BY DEF ViewInv
<1>3. \A t \in Tasks : ~(state'.attempts[t] > state.attempts[t])
  <2>1. \A t \in Tasks : state.attempts[t] \in Nat
    BY <1>1 DEF GoalStates
  <2> QED BY <2>1
<1>4. Permitted
  BY <1>3 DEF Permitted, NewWaits, GoalCanApply, TargetedKinds
<1> QED BY <1>2, <1>4 DEF ViewStep, ViewInv

LEMMA NewView ==
  ASSUME TypeInv, GatesInv, ViewInv, ControlHandlers \/ DriveStep,
         state' \in GoalStates, Unsteered(state'), LeftInv',
         NEW A, NEW W, Brings(state, state', A, W),
         \A t \in A : state.st[t] = "Runnable",
         \A t \in W : t # NoTask => /\ t \in Tasks /\ t <= state.n
                                    /\ Takes(t, "ThunkCreated") \/ LostReport(t)
  PROVE  ViewStep
<1>1. state \in GoalStates
  BY DEF TypeInv, TypeOK
<1>2. Rooted(state')
  BY <1>1, RootedBrings DEF ViewInv
<1>3. CASE state' = state
  BY <1>3, SameView
<1>4. CASE state' # state
  <2>1. state.status = "Cancelled" => state'.status # "Done"
    BY <1>4, CancelledStays
  <2>2. Permitted
    BY <1>1, <2>1, PermittedBy DEF GatesInv, RoundInv
  <2> QED BY <1>2, <2>2 DEF ViewStep, ViewInv
<1> QED BY <1>3, <1>4

LEMMA FinishedUnsteered ==
  ASSUME NEW g, Finished(g) PROVE Unsteered(g)
  BY DEF Finished, Unsteered

LEMMA ControlHandlersView ==
  ASSUME TypeInv, GatesInv, ViewInv, ControlHandlers
  PROVE  ViewStep
<1> USE DEF Control, Persist
<1>1. state \in GoalStates /\ PoolInv(state) /\ handler.pc = "idle"
  BY DEF TypeInv, TypeOK, GatesInv, GoalInv, ControlHandlers, Run, CancelGoal, Steer,
     Approve, Restart, ResumeDelayedThunk, CreateDelayedThunk, AcceptsControl, Idle
<1>2. LeftInv'
  <2>1. handler'.pc \in {"idle", "drive"}
    BY IdleFrame DEF ControlHandlers, Run, CancelGoal, Steer, Approve, Restart,
       ResumeDelayedThunk, CreateDelayedThunk, Project, Return
  <2> QED BY <2>1 DEF LeftInv
<1>3. ASSUME state' \in GoalStates, Brings(state, state', {}, {}), Unsteered(state')
      PROVE  ViewStep
  BY <1>2, <1>3, NewView
<1>4. CASE Run
  BY <1>2, <1>4, SameView DEF Run
<1>5. CASE CancelGoal
  <2>1. state' = Cancel(state)
    BY <1>5 DEF CancelGoal
  <2>2. state'.status = "Cancelled"
    BY <1>1, <2>1 DEF Cancel, GoalStates
  <2> QED BY <1>1, <1>3, <2>1, <2>2, CancelBrings DEF Unsteered
<1>6. CASE Steer
  <2>1. PICK d \in Directives : state' = ApplySteering(state, d)
    BY <1>6 DEF Steer
  <2>2. d \in Directive
    BY WorkflowConstantsOK
  <2> QED BY <1>1, <1>3, <2>1, <2>2, ApplySteeringBrings DEF Unsteered
<1>7. CASE Approve
  <2>1. PICK a \in state.approvals, approved \in BOOLEAN :
          state' = ApplyHumanApproval(state, a, approved)
    BY <1>7 DEF Approve
  <2> QED BY <1>1, <1>3, <2>1, ApplyHumanApprovalBrings, FinishedUnsteered
<1>8. CASE Restart
  <2>1. PICK scope \in Scopes, t \in Tasks, reset \in BOOLEAN :
          state' = ApplyRestart(state, scope, t, reset)
    BY <1>8 DEF Restart
  <2> QED BY <1>1, <1>3, <2>1, ApplyRestartBrings, FinishedUnsteered
<1>9. CASE ResumeDelayedThunk
  <2>1. PICK w \in state.thunks : state' = ResumeThunk(state, w)
    BY <1>9 DEF ResumeDelayedThunk
  <2> QED BY <1>1, <1>3, <2>1, ResumeThunkBrings, FinishedUnsteered
<1>10. CASE CreateDelayedThunk
  <2>1. PICK t \in Tasks \cup {NoTask}, kind \in {"approval", "input"},
             cont \in Tasks \cup {NoTask} :
          /\ t # NoTask => state.st[t] # "Unborn"
          /\ ~\E w \in Waits(state, cont) : w.task = t
          /\ CreateThunkOk(state, t, cont)
          /\ state' = CreateThunk(state, t, kind, cont)
    BY <1>10 DEF CreateDelayedThunk
  <2>2. t # NoTask => t \in Tasks /\ Open(state, t)
    BY <2>1 DEF CreateThunkOk
  <2>3. t # NoTask => t <= state.n
    <3>1. t # NoTask => ~(state.n < t)
      BY <1>1, <2>1, <2>2 DEF PoolInv
    <3> QED BY <1>1, <2>2, <3>1 DEF GoalStates, Tasks
  <2>4. t # NoTask => Takes(t, "ThunkCreated") \/ LostReport(t)
    <3>1. t # NoTask => state.st[t] \in {"Runnable", "Running", "NeedsValidation",
             "WaitingApproval", "WaitingInput", "Blocked", "Failed"}
      BY <1>1, <2>2 DEF GoalStates, TaskStatus, Open, Terminal
    <3> QED BY <1>1, <3>1 DEF LostReport, Takes, TaskCanApply, TargetedKinds, TaskTakes
  <2>5. /\ state' \in GoalStates /\ Brings(state, state', {}, {t})
        /\ state' = state \/ Finished(state')
    BY <1>1, <2>1, CreateThunkBrings
  <2>6. Unsteered(state')
    BY <2>5, FinishedUnsteered DEF ViewInv
  <2>7. \A u \in {t} : u # NoTask => /\ u \in Tasks /\ u <= state.n
                                     /\ Takes(u, "ThunkCreated") \/ LostReport(u)
    BY <2>2, <2>3, <2>4
  <2> QED BY <1>2, <2>5, <2>6, <2>7, NewView
<1> QED
  BY <1>4, <1>5, <1>6, <1>7, <1>8, <1>9, <1>10 DEF ControlHandlers

LEMMA DriveStepView ==
  ASSUME TypeInv, GatesInv, ViewInv, DriveStep
  PROVE  ViewStep
<1>1. /\ state \in GoalStates /\ handler \in Handlers /\ FrameOK
      /\ PoolInv(state) /\ RoundInv /\ LeftInv
      /\ state' \in GoalStates /\ state'.n <= MaxTasks
  BY DriveStepType DEF TypeInv, TypeOK, GatesInv, GoalInv, ViewInv, Follows
<1>2. ASSUME handler' = NoHandler \/ \E r : handler' = DriveFrame(r)
      PROVE  LeftInv'
  <2>1. handler'.pc \in {"idle", "drive"}
    <3>1. NoHandler.pc = "idle" /\ \A r : DriveFrame(r).pc = "drive"
      BY DEF NoHandler, DriveFrame
    <3> QED BY <1>2, <3>1
  <2> QED BY <2>1 DEF LeftInv
<1>3. ASSUME Brings(state, state', {}, {}), Unsteered(state'), LeftInv'
      PROVE  ViewStep
  BY <1>1, <1>3, NewView
<1>4. ASSUME state' = state, handler' = NoHandler
      PROVE  ViewStep
  BY <1>2, <1>4, SameView
<1>5. CASE DriveStops
  BY <1>4, <1>5 DEF DriveStops, Persist, Return
<1>6. CASE BudgetExhausted \/ FrontierLimit
  <2> DEFINE st == IF BudgetExhausted THEN Put(state.st, OpenTasks(state), "Blocked")
                                      ELSE state.st
             h == [state EXCEPT !.status = "Blocked", !.st = st]
  <2>1. handler' = NoHandler /\ state' = h
    <3>1. CASE BudgetExhausted
      BY <3>1 DEF BudgetExhausted, Persist, Return
    <3>2. CASE ~BudgetExhausted
      <4>1. state' = [state EXCEPT !.status = "Blocked"] /\ handler' = NoHandler
        BY <1>6, <3>2 DEF FrontierLimit, Persist, Return
      <4>2. [state EXCEPT !.status = "Blocked"] = [state EXCEPT !.status = "Blocked", !.st = state.st]
        BY <1>1 DEF GoalStates
      <4> QED BY <3>2, <4>1, <4>2
    <3> QED BY <3>1, <3>2
  <2> HIDE DEF st
  <2>2. /\ state'.n = state.n /\ state'.attempts = state.attempts
        /\ state'.parent = state.parent /\ state'.approvals = state.approvals
        /\ state'.thunks = state.thunks /\ state'.status = "Blocked"
    BY <1>1, <2>1 DEF GoalStates
  <2> QED BY <1>1, <1>2, <1>3, <2>1, <2>2, SameBrings DEF Unsteered
<1>7. CASE SnapshotFrontier
  <2>1. state' = state /\ handler'.pc = "tasks" /\ handler'.left = RunnableTasks(state)
    BY <1>1, <1>7 DEF SnapshotFrontier, Handlers
  <2>2. LeftInv'
    BY <2>1 DEF LeftInv, RunnableTasks
  <2> QED BY <2>1, <2>2, SameView
<1>8. CASE ExtendFrontier
  <2> DEFINE r == EnsureReviewFrontier(state)
             idle == FrontierIdleStatus(r.state)
             h == [r.state EXCEPT !.status = idle]
  <2>1. \/ state' = state /\ handler' = NoHandler
        \/ r.ok /\ state' = r.state /\ handler' = DriveFrame(handler.round + 1)
        \/ r.ok /\ state' = h /\ handler' = NoHandler
    BY <1>8 DEF ExtendFrontier, Persist, Return
  <2>2. LeftInv'
    BY <1>2, <2>1
  <2>3. h.n = r.state.n
    <3> HIDE DEF r
    <3> QED OBVIOUS
  <2>4. ASSUME r.ok, r.state.n <= MaxTasks
        PROVE  /\ Extends(state, r) /\ Finished(r.state)
               /\ h \in GoalStates /\ Brings(state, h, {}, {}) /\ Unsteered(h)
    <3>1. Extends(state, r) /\ Finished(r.state)
      BY <1>1, <2>4, EnsureReviewFrontierExtends DEF Extends
    <3>2. r.state \in GoalStates /\ Brings(state, r.state, {}, {})
      BY <3>1 DEF Extends
    <3> HIDE DEF r
    <3>3. idle = "Done" => IsDone(r.state)
      BY DEF FrontierIdleStatus, StoppedStatus
    <3>4. idle \in GoalStatus
      BY StoppedStatusType DEF FrontierIdleStatus, GoalStatus, Terminal
    <3> HIDE DEF idle
    <3>5. /\ h \in GoalStates /\ h.st = r.state.st /\ h.status = idle
          /\ h.n = r.state.n /\ h.attempts = r.state.attempts /\ h.parent = r.state.parent
          /\ h.approvals = r.state.approvals /\ h.thunks = r.state.thunks
      BY <3>2, <3>4 DEF GoalStates
    <3> HIDE DEF h
    <3>6. Unsteered(h)
      BY <3>1, <3>3, <3>5 DEF Unsteered, Finished, IsDone, Closed, Open
    <3>7. Brings(state, h, {}, {})
      BY <1>1, <3>2, <3>5, SameBrings, BringsTrans
    <3> QED BY <3>1, <3>5, <3>6, <3>7
  <2> HIDE DEF r, h
  <2>5. CASE state' = state /\ handler' = NoHandler
    BY <1>4, <2>5
  <2>6. CASE r.ok /\ state' = r.state
    BY <1>1, <1>3, <2>2, <2>4, <2>6, FinishedUnsteered DEF Extends
  <2>7. CASE r.ok /\ state' = h
    BY <1>1, <1>3, <2>2, <2>3, <2>4, <2>7
  <2> QED BY <2>1, <2>5, <2>6, <2>7
<1>9. CASE EndRound
  BY <1>2, <1>9, SameView DEF EndRound
<1>10. CASE DispatchTask
  <2>1. PICK t \in handler.left :
        \/ Persist(state) /\ Return
        \/ Persist(RequestApproval(state, t)) /\ Return
        \/ /\ ~DispatchDenied(t) /\ ~MustWaitForApproval(state, t)
           /\ Persist(MarkRunning(state, t))
           /\ Project([handler EXCEPT !.pc = "running", !.task = t, !.left = @ \ {t}])
    BY <1>10 DEF DispatchTask
  <2>2. /\ handler.pc = "tasks" /\ t \in Tasks /\ handler.left \in SUBSET Tasks
        /\ state.st[t] = "Runnable"
    BY <1>1, <1>10 DEF DispatchTask, InRound, Handlers, LeftInv
  <2>3. CASE Persist(state) /\ Return
    BY <1>4, <2>3 DEF Persist, Return
  <2>4. CASE Persist(RequestApproval(state, t)) /\ Return
    <3>1. state' = RequestApproval(state, t) /\ LeftInv'
      BY <1>2, <2>4 DEF Persist, Return
    <3>2. Brings(state, state', {t}, {}) /\ Unsteered(state')
      BY <1>1, <2>2, <3>1, RequestApprovalBrings, FinishedUnsteered
    <3>3. \A u \in {t} : state.st[u] = "Runnable"
      BY <2>2
    <3> QED BY <1>1, <3>1, <3>2, <3>3, NewView
  <2>5. CASE /\ ~DispatchDenied(t) /\ ~MustWaitForApproval(state, t)
             /\ Persist(MarkRunning(state, t))
             /\ Project([handler EXCEPT !.pc = "running", !.task = t, !.left = @ \ {t}])
    <3>1. state' = MarkRunning(state, t) /\ state.status \notin Terminal
      BY <2>5 DEF Persist, DispatchDenied, GoalTerminal
    <3>2. /\ state'.n = state.n /\ state'.parent = state.parent
          /\ state'.thunks = state.thunks /\ state'.approvals = state.approvals
          /\ state'.status = state.status
      BY <1>1, <3>1 DEF MarkRunning, GoalStates
    <3>3. \A u \in Tasks \ {t} : /\ state'.st[u] = state.st[u]
                                 /\ state'.attempts[u] = state.attempts[u]
      BY <1>1, <3>1 DEF MarkRunning, GoalStates
    <3>4. Rooted(state') /\ Unsteered(state')
      BY <3>1, <3>2 DEF ViewInv, Rooted, Unsteered, Terminal
    <3>5. Permitted
      <4>1. \A u \in Tasks \ {t} : ~(state'.attempts[u] > state.attempts[u])
        BY <1>1, <3>3 DEF GoalStates
      <4>2. Takes(t, "TaskDispatched")
        BY <2>2 DEF Takes, TaskCanApply, TargetedKinds, TaskTakes
      <4>3. GoalCanApply(state.status, "GoalSatisfied")
        BY <3>1 DEF GoalCanApply, TargetedKinds, Terminal
      <4> QED BY <2>2, <3>2, <4>1, <4>2, <4>3 DEF Permitted, NewWaits
    <3>6. LeftInv'
      <4>1. CASE handler' = NoHandler
        BY <1>2, <4>1
      <4>2. CASE handler' = [handler EXCEPT !.pc = "running", !.task = t, !.left = @ \ {t}]
        <5>1. handler'.pc = "running" /\ handler'.task = t
              /\ handler'.left = handler.left \ {t}
          BY <1>1, <4>2 DEF Handlers
        <5> QED BY <1>1, <2>2, <3>3, <5>1 DEF LeftInv
      <4> QED BY <2>5, <4>1, <4>2 DEF Project, Return
    <3> QED BY <3>4, <3>5, <3>6 DEF ViewStep, ViewInv
  <2> QED BY <2>1, <2>3, <2>4, <2>5
<1>11. CASE WorkerAnswers
  <2> DEFINE t == handler.task
  <2>1. handler.pc = "running"
    BY <1>11 DEF WorkerAnswers
  <2>2. PICK o \in Outcomes :
        \/ Persist(state) /\ Return
        \/ /\ Persist(ApplyAgentResult(state, t, o))
           /\ handler' = [handler EXCEPT !.pc = "validating", !.answer = o]
    BY <1>11 DEF WorkerAnswers
  <2>3. /\ t \in Tasks /\ o \in Outcome /\ state.st[t] = "Running"
        /\ handler.left \in SUBSET Tasks /\ t \notin handler.left
    BY <1>1, <2>1, WorkflowConstantsOK DEF FrameOK, RoundInv, Handlers, LeftInv
  <2>4. t <= state.n
    <3>1. ~(state.n < t)
      BY <1>1, <2>3 DEF PoolInv
    <3> QED BY <1>1, <2>3, <3>1 DEF GoalStates, Tasks
  <2>5. CASE Persist(state) /\ Return
    BY <1>4, <2>5 DEF Persist, Return
  <2>6. CASE /\ Persist(ApplyAgentResult(state, t, o))
             /\ handler' = [handler EXCEPT !.pc = "validating", !.answer = o]
    <3>1. state' = ApplyAgentResult(state, t, o)
      BY <2>6 DEF Persist
    <3>2. Brings(state, state', {}, {t}) /\ Still(state, state', {t}) /\ Unsteered(state')
      BY <1>1, <2>3, <2>4, <3>1, ApplyAgentResultBrings, FinishedUnsteered
    <3>3. /\ handler'.pc = "validating" /\ handler'.task = t
          /\ handler'.left = handler.left
      BY <1>1, <2>6 DEF Handlers
    <3>4. LeftInv'
      BY <1>1, <2>1, <2>3, <3>2, <3>3 DEF LeftInv, Still
    <3>5. Takes(t, "ThunkCreated")
      BY <2>3 DEF Takes, TaskCanApply, TargetedKinds, TaskTakes
    <3>6. \A u \in {t} : /\ u \in Tasks /\ u <= state.n
                         /\ Takes(u, "ThunkCreated") \/ LostReport(u)
      BY <2>3, <2>4, <3>5
    <3> HIDE DEF t
    <3> QED BY <1>1, <3>2, <3>4, <3>6, NewView
  <2> QED BY <2>2, <2>5, <2>6
<1>12. CASE ApplyReport
  <2> DEFINE t == handler.task
             o == handler.answer
             g1 == ApplyValidation(state, t, o)
             g2 == IF o.status = "TimedOut" THEN RecordTimeout(g1, t) ELSE g1
             frame == [handler EXCEPT !.pc = "tasks", !.task = NoTask,
                                      !.answer = NoAnswer]
  <2>1. handler.pc = "validating"
    BY <1>12 DEF ApplyReport
  <2>2. \/ Persist(state) /\ Return
        \/ /\ EnsureReviewFrontier(g2).ok
           /\ Persist(EnsureReviewFrontier(g2).state) /\ Project(frame)
    BY <1>12 DEF ApplyReport
  <2>3. t \in Tasks /\ o \in Outcome /\ handler.left \in SUBSET Tasks /\ t \notin handler.left
    BY <1>1, <2>1, WorkflowConstantsOK DEF FrameOK, Handlers, LeftInv
  <2>4. CASE Persist(state) /\ Return
    BY <1>4, <2>4 DEF Persist, Return
  <2>5. CASE /\ EnsureReviewFrontier(g2).ok
             /\ Persist(EnsureReviewFrontier(g2).state) /\ Project(frame)
    <3>1. g1 \in GoalStates /\ Brings(state, g1, {}, {}) /\ Still(state, g1, {t})
      BY <1>1, <2>3, ApplyValidationBrings
    <3> HIDE DEF g1
    <3>2. g2 \in GoalStates /\ Brings(state, g2, {}, {}) /\ Still(state, g2, {t})
      <4>1. LET h == RecordTimeout(g1, t)
            IN  h \in GoalStates /\ Brings(g1, h, {}, {}) /\ Still(g1, h, {t})
        BY <2>3, <3>1, RecordTimeoutBrings
      <4>2. LET h == RecordTimeout(g1, t)
            IN  Brings(state, h, {}, {}) /\ Still(state, h, {t})
        BY <1>1, <3>1, <4>1, BringsTrans, StillTrans
      <4> QED BY <3>1, <4>1, <4>2
    <3> HIDE DEF g2
    <3>3. state' = EnsureReviewFrontier(g2).state
      BY <2>5 DEF Persist
    <3>4. /\ Brings(g2, state', {}, {}) /\ Still(g2, state', {}) /\ Finished(state')
      BY <1>1, <2>5, <3>2, <3>3, EnsureReviewFrontierExtends DEF Extends
    <3>5. Brings(state, state', {}, {}) /\ Still(state, state', {t})
      <4>1. Still(g2, state', {t})
        BY <3>4 DEF Still
      <4> QED BY <1>1, <3>2, <3>4, <4>1, BringsTrans, StillTrans
    <3>6. LeftInv'
      <4>1. CASE handler' = NoHandler
        BY <1>2, <4>1
      <4>2. CASE handler' = frame
        <5>1. handler'.pc = "tasks" /\ handler'.left = handler.left
          BY <1>1, <4>2 DEF Handlers
        <5> QED BY <1>1, <2>1, <2>3, <3>5, <5>1 DEF LeftInv, Still
      <4> QED BY <2>5, <4>1, <4>2 DEF Project, Return
    <3> QED BY <1>3, <3>4, <3>5, <3>6, FinishedUnsteered
  <2> QED BY <2>2, <2>4, <2>5
<1> QED
  BY <1>5, <1>6, <1>7, <1>8, <1>9, <1>10, <1>11, <1>12 DEF DriveStep

LEMMA ViewInvNext ==
  ASSUME TypeInv, GatesInv, ViewInv, [Next]_vars
  PROVE  ViewInv' /\ [Permitted]_vars
<1>1. CASE UNCHANGED vars
  BY <1>1 DEF vars, ViewInv, Rooted, Unsteered, Closed, Open, LeftInv
<1>2. CASE ControlHandlers
  BY <1>2, ControlHandlersView DEF ViewStep
<1>3. CASE DriveStep
  BY <1>3, DriveStepView DEF ViewStep
<1> QED BY <1>1, <1>2, <1>3 DEF Next, Quiescent

LEMMA ViewInvAlways == Spec => []ViewInv
<1>1. TypeInv /\ GatesInv /\ ViewInv /\ [Next]_vars => ViewInv'
  BY ViewInvNext
<1>2. TypeInv /\ [Next]_vars => TypeInv'
  BY TypeInvNext
<1> QED
  BY TypeInvInit, GatesInvAlways, ViewInvInit, <1>1, <1>2, PTL DEF Spec

\* The actors that the operator sees take every step the coordinator makes of
\* their tasks, also those of a round that began before the goal moved on; only
\* a task whose report was lost is given a thunk its actor would refuse.
THEOREM ActorsTakeEveryStep == Spec => ActorsPermit
<1>1. TypeInv /\ GatesInv /\ ViewInv /\ [Next]_vars => [Permitted]_vars
  BY ViewInvNext
<1>2. TypeInv /\ [Next]_vars => TypeInv'
  BY TypeInvNext
<1> QED
  BY TypeInvInit, GatesInvAlways, ViewInvAlways, <1>1, <1>2, PTL DEF Spec, ActorsPermit
-----------------------------------------------------------------------------
(* The snapshot of a goal *)

\* What a graph node shows, from its id alone.
ShownBy(g, id) ==
    CASE id[1] = "goal"  -> {GoalNodeStatus(g.status)}
      [] id[1] = "task"  -> {TaskNodeStatus(g.st[id[2]])}
      [] id[1] = "thunk" -> {ThunkNodeStatus(id[5])}
      [] OTHER -> {ThunkNodeStatus(v.status) : v \in {x \in g.thunks : x.cont = id[2]}}
IdNode(g, id) == [id |-> id, shows |-> ShownBy(g, id)]
NodeIds(g) == {GoalNode} \cup {TaskNode(t) : t \in Existing(g)}
                 \cup {ThunkNode(w) : w \in g.thunks}
                 \cup {ContinuationNode(w) : w \in g.thunks}

\* push_compute_graph_node: one node for an id.
LEMMA NodesById ==
  ASSUME NEW g
  PROVE  GraphNodes(g) = {IdNode(g, i) : i \in NodeIds(g)}
<1>1. IdNode(g, GoalNode) = [id |-> GoalNode, shows |-> {GoalNodeStatus(g.status)}]
  BY DEF IdNode, ShownBy, GoalNode
<1>2. \A t : IdNode(g, TaskNode(t)) =
               [id |-> TaskNode(t), shows |-> {TaskNodeStatus(g.st[t])}]
  BY DEF IdNode, ShownBy, TaskNode
<1>3. \A w : IdNode(g, ThunkNode(w)) =
               [id |-> ThunkNode(w), shows |-> {ThunkNodeStatus(w.status)}]
  BY DEF IdNode, ShownBy, ThunkNode
<1>4. \A w : IdNode(g, ContinuationNode(w)) =
               [id |-> ContinuationNode(w),
                shows |-> {ThunkNodeStatus(v.status) : v \in {x \in g.thunks : x.cont = w.cont}}]
  BY DEF IdNode, ShownBy, ContinuationNode
<1> QED BY <1>1, <1>2, <1>3, <1>4, Zenon DEF GraphNodes, NodeIds

LEMMA NodeOf ==
  ASSUME NEW g
  PROVE  \A i : IdNode(g, i).id = i /\ IdNode(g, i).shows = ShownBy(g, i)
  BY DEF IdNode

\* A set that a function on a finite set reaches is finite.
LEMMA ReachedFinite ==
  ASSUME NEW S, IsFiniteSet(S), NEW T, NEW f \in [S -> T],
         \A y \in T : \E x \in S : f[x] = y
  PROVE  IsFiniteSet(T)
<1>1. f \in Surjection(S, T)
  BY Fun_IsSurj
<1> QED BY <1>1, FS_Surjection

LEMMA TasksFinite == IsFiniteSet(Tasks)
<1>1. 1 \in Int /\ MaxTasks \in Int
  BY ConstantsOK
<1> QED BY <1>1, FS_Interval DEF Tasks

LEMMA ThunksFinite == IsFiniteSet(Thunk)
<1> DEFINE T == Tasks \cup {NoTask}
           K == {"approval", "input"}
           St == {"Pending", "Resumed", "Cancelled"}
           S == (T \X T) \X (K \X St)
           f == [x \in S |-> [task |-> x[1][1], cont |-> x[1][2],
                              kind |-> x[2][1], status |-> x[2][2]]]
<1>1. IsFiniteSet(T)
  BY TasksFinite, FS_AddElement
<1>2. IsFiniteSet(K) /\ IsFiniteSet(St)
  <2>1. /\ IsFiniteSet({"approval"}) /\ IsFiniteSet({"Pending"})
    BY FS_Singleton
  <2>2. IsFiniteSet(K)
    <3>1. K = {"approval"} \cup {"input"}
      OBVIOUS
    <3> QED BY <2>1, <3>1, FS_AddElement
  <2>3. IsFiniteSet(St)
    <3>1. IsFiniteSet({"Pending"} \cup {"Resumed"})
      BY <2>1, FS_AddElement
    <3>2. St = ({"Pending"} \cup {"Resumed"}) \cup {"Cancelled"}
      OBVIOUS
    <3> HIDE DEF St
    <3> QED BY <3>1, <3>2, FS_AddElement
  <2> QED BY <2>2, <2>3
<1> HIDE DEF K, St, T
<1>3. IsFiniteSet(S)
  BY <1>1, <1>2, FS_Product
<1>4. Thunk = [task : T, cont : T, kind : K, status : St]
  BY DEF Thunk, T, K, St
<1>5. f \in [S -> Thunk]
  BY <1>4
<1>6. ASSUME NEW w \in Thunk PROVE \E x \in S : f[x] = w
  <2>1. <<<<w.task, w.cont>>, <<w.kind, w.status>>>> \in S
    BY <1>4
  <2>2. f[<<<<w.task, w.cont>>, <<w.kind, w.status>>>>] =
          [task |-> w.task, cont |-> w.cont, kind |-> w.kind, status |-> w.status]
    BY <2>1
  <2>3. w = [task |-> w.task, cont |-> w.cont, kind |-> w.kind, status |-> w.status]
    BY <1>4
  <2> QED BY <2>1, <2>2, <2>3
<1> HIDE DEF S, f
<1> QED BY <1>3, <1>5, <1>6, ReachedFinite

LEMMA IdsFinite ==
  ASSUME NEW g \in GoalStates
  PROVE  IsFiniteSet(NodeIds(g)) /\ \A X \in SUBSET Tasks : IsFiniteSet(X)
<1>1. IsFiniteSet(Tasks) /\ IsFiniteSet(g.thunks)
  <2>1. g.thunks \in SUBSET Thunk
    BY DEF GoalStates
  <2> QED BY <2>1, TasksFinite, ThunksFinite, FS_Subset
<1>2. \A X \in SUBSET Tasks : IsFiniteSet(X)
  BY <1>1, FS_Subset
<1>3. Existing(g) \in SUBSET Tasks
  BY DEF Existing
<1> DEFINE B == {TaskNode(t) : t \in Existing(g)}
           C == {ThunkNode(w) : w \in g.thunks}
           D == {ContinuationNode(w) : w \in g.thunks}
<1>4. IsFiniteSet(B)
  <2> DEFINE f == [t \in Existing(g) |-> TaskNode(t)]
  <2>1. f \in [Existing(g) -> B] /\ \A y \in B : \E x \in Existing(g) : f[x] = y
    BY Zenon
  <2> HIDE DEF f, B
  <2> QED BY <1>2, <1>3, <2>1, ReachedFinite
<1>5. IsFiniteSet(C)
  <2> DEFINE f == [w \in g.thunks |-> ThunkNode(w)]
  <2>1. f \in [g.thunks -> C] /\ \A y \in C : \E x \in g.thunks : f[x] = y
    BY Zenon
  <2> HIDE DEF f, C
  <2> QED BY <1>1, <2>1, ReachedFinite
<1>6. IsFiniteSet(D)
  <2> DEFINE f == [w \in g.thunks |-> ContinuationNode(w)]
  <2>1. f \in [g.thunks -> D] /\ \A y \in D : \E x \in g.thunks : f[x] = y
    BY Zenon
  <2> HIDE DEF f, D
  <2> QED BY <1>1, <2>1, ReachedFinite
<1> HIDE DEF B, C, D
<1>7. IsFiniteSet({GoalNode} \cup B \cup C \cup D)
  BY <1>4, <1>5, <1>6, FS_Singleton, FS_Union
<1> QED BY <1>2, <1>7 DEF NodeIds, B, C, D

LEMMA NodesCounted ==
  ASSUME NEW g \in GoalStates
  PROVE  /\ {n.id : n \in GraphNodes(g)} = NodeIds(g)
         /\ Cardinality(GraphNodes(g)) = Cardinality(NodeIds(g))
<1> DEFINE I == NodeIds(g)
           N == {IdNode(g, i) : i \in I}
           f == [i \in I |-> IdNode(g, i)]
<1>1. \A i \in I : IdNode(g, i).id = i
  BY NodeOf
<1>2. {n.id : n \in N} = I
  BY <1>1, Zenon
<1>3. f \in Bijection(I, N)
  <2>1. f \in [I -> N] /\ \A n \in N : \E i \in I : f[i] = n
    BY Zenon
  <2>2. \A i, j \in I : f[i] = f[j] => i = j
    BY <1>1
  <2> HIDE DEF f, N, I
  <2> QED BY <2>1, <2>2, Fun_IsBij
<1> HIDE DEF f, N
<1>4. Cardinality(N) = Cardinality(I)
  BY <1>3, IdsFinite, FS_Bijection DEF ExistsBijection
<1> QED BY <1>2, <1>4, NodesById DEF N

LEMMA ExistingTask ==
  ASSUME NEW g \in GoalStates, PoolInv(g), NEW t \in Tasks
  PROVE  /\ t \in Existing(g) <=> t <= g.n
         /\ t # NoTask /\ NoTask \notin Tasks
<1>1. g.n \in Nat /\ t \in Nat
  BY DEF GoalStates, Tasks
<1> QED BY <1>1 DEF PoolInv, Existing, Tasks, NoTask

\* Both ends of every edge are nodes.
LEMMA EdgesEnd ==
  ASSUME NEW g \in GoalStates, PoolInv(g), Rooted(g)
  PROVE  \A e \in ComputeGraph(g).edges : e.from \in NodeIds(g) /\ e.to \in NodeIds(g)
<1>1. \A from, to, kind : /\ Edge(from, to, kind).from = from
                          /\ Edge(from, to, kind).to = to
  BY DEF Edge
<1>2. \A t \in Tasks \cup {NoTask} :
        t = NoTask \/ t <= g.n => OwnerNode(t) \in NodeIds(g)
  BY ExistingTask, Zenon DEF OwnerNode, NodeIds
<1>3. \A t \in Existing(g) : /\ t \in Tasks /\ TaskNode(t) \in NodeIds(g)
                             /\ OwnerNode(g.parent[t]) \in NodeIds(g)
  <2>1. \A t \in Existing(g) : t \in Tasks /\ TaskNode(t) \in NodeIds(g)
    BY Zenon DEF Existing, NodeIds
  <2>2. \A t \in Tasks : /\ g.parent[t] \in Tasks \cup {NoTask}
                         /\ g.parent[t] = NoTask \/ g.parent[t] <= g.n
    BY DEF GoalStates, Rooted
  <2> QED BY <1>2, <2>1, <2>2
<1>4. \A w \in g.thunks : /\ OwnerNode(w.task) \in NodeIds(g)
                          /\ ThunkNode(w) \in NodeIds(g) /\ ContinuationNode(w) \in NodeIds(g)
  <2>1. \A w \in g.thunks : /\ w.task \in Tasks \cup {NoTask}
                            /\ w.task = NoTask \/ w.task <= g.n
    BY DEF GoalStates, Rooted, Thunk
  <2>2. \A w \in g.thunks : ThunkNode(w) \in NodeIds(g) /\ ContinuationNode(w) \in NodeIds(g)
    BY Zenon DEF NodeIds
  <2> QED BY <1>2, <2>1, <2>2
<1>5. \A e \in TreeEdges(g) : e.from \in NodeIds(g) /\ e.to \in NodeIds(g)
  BY <1>1, <1>3 DEF TreeEdges
<1>6. \A e \in DependencyEdges(g) : e.from \in NodeIds(g) /\ e.to \in NodeIds(g)
  <2> SUFFICES ASSUME NEW e \in DependencyEdges(g)
               PROVE  e.from \in NodeIds(g) /\ e.to \in NodeIds(g)
    OBVIOUS
  <2>1. PICK t \in Existing(g) :
          \E d \in g.deps[t] \cap Existing(g) : e = Edge(TaskNode(d), TaskNode(t), "DependsOn")
    BY Zenon DEF DependencyEdges
  <2> QED BY <1>1, <1>3, <2>1
<1>7. \A e \in ThunkEdges(g) : e.from \in NodeIds(g) /\ e.to \in NodeIds(g)
  <2> SUFFICES ASSUME NEW e \in ThunkEdges(g)
               PROVE  e.from \in NodeIds(g) /\ e.to \in NodeIds(g)
    OBVIOUS
  <2>1. PICK w \in g.thunks : \/ e = Edge(OwnerNode(w.task), ThunkNode(w), "SuspendsInto")
                              \/ e = Edge(ThunkNode(w), ContinuationNode(w), "ResumesWith")
    BY Zenon DEF ThunkEdges
  <2> QED BY <1>1, <1>4, <2>1
<1> QED BY <1>5, <1>6, <1>7 DEF ComputeGraph

\* compute_graph, task_progress and a task query agree on what is runnable.
LEMMA RunnableAgrees ==
  ASSUME NEW g \in GoalStates
  PROVE  RunnableTasks(g) = {t \in Existing(g) : IsRunnable(g, t)}
<1>1. \A t \in Tasks : g.deps[t] \in SUBSET Tasks
  BY DEF GoalStates
<1> QED BY <1>1 DEF RunnableTasks, Existing, IsRunnable

\* A waiting task's way on is in the snapshot.
LEMMA WaitsExplained ==
  ASSUME NEW g \in GoalStates, PoolInv(g), NEW t \in Tasks, Woken(g, t),
         g.st[t] \in {"WaitingApproval", "WaitingInput"}
  PROVE  \/ PendingFor(g.approvals, t)
         \/ \E n \in GraphNodes(g) : /\ Edge(TaskNode(t), n.id, "SuspendsInto") \in ThunkEdges(g)
                                     /\ "Waiting" \in n.shows
         \/ \E c \in Existing(g) : Edge(TaskNode(t), TaskNode(c), "ParentChild") \in TreeEdges(g)
<1>0. t # NoTask /\ OwnerNode(t) = TaskNode(t)
  BY ExistingTask DEF OwnerNode
<1>1. CASE PendingFor(g.approvals, t)
  BY <1>1
<1>2. CASE PendingFor(g.thunks, t)
  <2>1. PICK w \in g.thunks : w.task = t /\ w.status = "Pending"
    BY <1>2 DEF PendingFor
  <2> DEFINE n == [id |-> ThunkNode(w), shows |-> {ThunkNodeStatus(w.status)}]
  <2>2. n \in GraphNodes(g)
    BY Zenon DEF GraphNodes
  <2>3. Edge(OwnerNode(w.task), ThunkNode(w), "SuspendsInto") \in ThunkEdges(g)
    <3> DEFINE of(v) == {Edge(OwnerNode(v.task), ThunkNode(v), "SuspendsInto"),
                         Edge(ThunkNode(v), ContinuationNode(v), "ResumesWith")}
    <3>1. of(w) \in {of(v) : v \in g.thunks}
      BY Zenon
    <3>2. Edge(OwnerNode(w.task), ThunkNode(w), "SuspendsInto") \in of(w)
      OBVIOUS
    <3>3. ThunkEdges(g) = UNION {of(v) : v \in g.thunks}
      BY DEF ThunkEdges
    <3> HIDE DEF of
    <3> QED BY <3>1, <3>2, <3>3
  <2>4. Edge(TaskNode(t), ThunkNode(w), "SuspendsInto") \in ThunkEdges(g)
    BY <1>0, <2>1, <2>3
  <2>5. n.id = ThunkNode(w) /\ "Waiting" \in n.shows
    BY <2>1 DEF ThunkNodeStatus
  <2> HIDE DEF n
  <2> QED BY <2>2, <2>4, <2>5
<1>3. CASE \E c \in Tasks : g.parent[c] = t
  <2>1. PICK c \in Tasks : g.parent[c] = t
    BY <1>3
  <2>2. c \in Existing(g)
    BY <1>0, <2>1 DEF PoolInv, Existing
  <2>3. Edge(OwnerNode(g.parent[c]), TaskNode(c), "ParentChild") \in TreeEdges(g)
    BY <1>0, <2>1, <2>2 DEF TreeEdges
  <2> QED BY <1>0, <2>1, <2>2, <2>3
<1> QED BY <1>1, <1>2, <1>3 DEF Woken, Waker

\* A goal with nothing open is a Done subgoal.
LEMMA ClosedIsDone ==
  ASSUME NEW g \in GoalStates, PoolInv(g), Closed(g)
  PROVE  /\ Cardinality(OpenTasks(g)) = 0
         /\ SubgoalStatus(g, Existing(g)) = "Done"
<1>1. OpenTasks(g) = {}
  BY DEF OpenTasks, Closed
<1>2. Root \in Existing(g)
  <2>1. g.n \in Nat \ {0}
    BY DEF GoalStates
  <2> QED BY <2>1, ExistingTask, RootIsTask DEF Root
<1>3. InStatus(g, "Failed") = {} /\ InStatus(g, "Blocked") = {}
  BY DEF Closed, Open, Terminal, InStatus
<1> QED BY <1>1, <1>2, <1>3, FS_EmptySet DEF SubgoalStatus

LEMMA WaitingCount ==
  ASSUME NEW g \in GoalStates
  PROVE  Cardinality(InStatus(g, "WaitingApproval")) + Cardinality(InStatus(g, "WaitingInput"))
           = Cardinality(InStatus(g, "WaitingApproval") \cup InStatus(g, "WaitingInput"))
<1> DEFINE A == InStatus(g, "WaitingApproval")
           B == InStatus(g, "WaitingInput")
<1>1. A \in SUBSET Tasks /\ B \in SUBSET Tasks /\ A \cap B = {}
  BY DEF InStatus
<1> HIDE DEF A, B
<1>2. IsFiniteSet(A) /\ IsFiniteSet(B)
  BY <1>1, TasksFinite, FS_Subset
<1>3. Cardinality(A \cup B) = Cardinality(A) + Cardinality(B) - Cardinality(A \cap B)
  BY <1>2, FS_Union
<1>4. Cardinality(A \cap B) = 0 /\ Cardinality(A) \in Nat /\ Cardinality(B) \in Nat
  BY <1>1, <1>2, FS_EmptySet, FS_CardinalityType
<1> QED BY <1>3, <1>4 DEF A, B

LEMMA SnapshotHolds ==
  ASSUME NEW g \in GoalStates, PoolInv(g), AllWoken(g), Rooted(g), Unsteered(g)
  PROVE  SnapshotExplains(g)
<1> DEFINE p == Progress(g)
           s == Snapshot(g, p)
           ids == {n.id : n \in s.graph.nodes}
           asked == FindTasks(g, [statuses |-> {}, purposes |-> {}, runnableOnly |-> TRUE])
           whole == SubgoalProgress(g, Existing(g))
           o == ObserveTransition(g, p)
           A == InStatus(g, "WaitingApproval")
           B == InStatus(g, "WaitingInput")
<1>1. /\ s.graph = ComputeGraph(g) /\ p.graph = ComputeGraph(g)
      /\ s.approvals = g.approvals /\ DOMAIN s.tasks = Existing(g)
      /\ \A t \in Existing(g) : s.tasks[t].runnable = IsRunnable(g, t)
      /\ s.goal.status = g.status /\ s.goal.open = Cardinality(OpenTasks(g))
      /\ s.goal.done = Cardinality(InStatus(g, "Done"))
  BY DEF Snapshot, Progress, GoalRecord, TaskRecord, TaskProgress
<1>2. LET c == ComputeGraph(g)
      IN  /\ c.nodes = GraphNodes(g) /\ c.edges = TreeEdges(g) \cup DependencyEdges(g) \cup ThunkEdges(g)
          /\ c.openThunks = Cardinality(Pending(g.thunks))
          /\ c.runnable = RunnableTasks(g) /\ c.waiting = A \cup B
  BY DEF ComputeGraph
<1>3. /\ o.done = Cardinality(InStatus(g, "Done"))
      /\ o.waitingApproval = Cardinality(A) /\ o.waitingInput = Cardinality(B)
      /\ o.pendingThunks = Cardinality(Pending(g.thunks))
      /\ o.nodes = Cardinality(p.graph.nodes)
  BY DEF ObserveTransition
<1>4. asked = {t \in Existing(g) : IsRunnable(g, t)}
  BY DEF FindTasks, QueryMatches
<1>5. whole.status = SubgoalStatus(g, Existing(g))
      /\ whole.runnable = {t \in Existing(g) : IsRunnable(g, t)}
  BY DEF SubgoalProgress
<1> HIDE DEF p, s, asked, whole, o
<1>6. ids = NodeIds(g) /\ Cardinality(GraphNodes(g)) = Cardinality(NodeIds(g))
  BY <1>1, <1>2, NodesCounted
<1> HIDE DEF ids
<1>7. \A e \in s.graph.edges : e.from \in ids /\ e.to \in ids
  BY <1>1, <1>6, EdgesEnd
<1>8. /\ s.graph.runnable = asked
      /\ s.graph.runnable = {t \in DOMAIN s.tasks : s.tasks[t].runnable}
      /\ s.graph.runnable = whole.runnable
  BY <1>1, <1>2, <1>4, <1>5, RunnableAgrees
<1>9. \A t \in s.graph.waiting :
         \/ PendingFor(s.approvals, t)
         \/ \E n \in s.graph.nodes : /\ Edge(TaskNode(t), n.id, "SuspendsInto") \in s.graph.edges
                                     /\ "Waiting" \in n.shows
         \/ \E c \in DOMAIN s.tasks : Edge(TaskNode(t), TaskNode(c), "ParentChild") \in s.graph.edges
  <2> SUFFICES ASSUME NEW t \in A \cup B
               PROVE  \/ PendingFor(s.approvals, t)
                      \/ \E n \in s.graph.nodes :
                            /\ Edge(TaskNode(t), n.id, "SuspendsInto") \in s.graph.edges
                            /\ "Waiting" \in n.shows
                      \/ \E c \in DOMAIN s.tasks :
                            Edge(TaskNode(t), TaskNode(c), "ParentChild") \in s.graph.edges
    BY <1>1, <1>2
  <2>1. t \in Tasks /\ g.st[t] \in {"WaitingApproval", "WaitingInput"}
    BY DEF InStatus
  <2>2. Woken(g, t)
    BY <2>1 DEF AllWoken
  <2> QED BY <1>1, <1>2, <2>1, <2>2, WaitsExplained
<1>10. g.steers = 0 /\ s.goal.status = "Done" => s.goal.open = 0 /\ whole.status = "Done"
  BY <1>1, <1>5, ClosedIsDone DEF Unsteered
<1>11. /\ o.done = s.goal.done
       /\ o.waitingApproval + o.waitingInput = Cardinality(s.graph.waiting)
       /\ o.nodes = Cardinality(ids) /\ o.pendingThunks = s.graph.openThunks
  BY <1>1, <1>2, <1>3, <1>6, WaitingCount
<1> QED
  BY <1>7, <1>8, <1>9, <1>10, <1>11 DEF SnapshotExplains, p, s, ids, asked, whole, o

\* The snapshot that the coordinator posts tells of any goal it stores, on every
\* path there, a graph with both ends of each edge, one answer to what is
\* runnable, the reason of every wait, and a Done that leaves nothing open.
THEOREM SnapshotsExplain == Spec => []SnapshotExplainsTheGoal
<1>1. TypeInv /\ GatesInv /\ ViewInv => SnapshotExplainsTheGoal
  BY SnapshotHolds DEF TypeInv, TypeOK, GatesInv, GoalInv, ViewInv, SnapshotExplainsTheGoal
<1>2. TypeInv /\ [Next]_vars => TypeInv'
  BY TypeInvNext
<1> QED
  BY TypeInvInit, GatesInvAlways, ViewInvAlways, <1>1, <1>2, PTL DEF Spec
-----------------------------------------------------------------------------
(* The life cycle that a goal's tasks go through.  Of a goal only the       *)
(* statuses and the dependencies matter: an operator moves tasks (Moved) or *)
(* adds some behind those there are (Bears).                                *)

Numbered(g) == \A t \in Tasks : g.st[t] = "Unborn" <=> g.n < t
Same(g, h) == h.st = g.st /\ h.deps = g.deps
Moved(g, h, T) ==
    /\ h.deps = g.deps
    /\ \A t \in Tasks :
          \/ h.st[t] = g.st[t]
          \/ /\ t \in T /\ g.st[t] # "Unborn"
             /\ \/ h.st[t] = "Runnable"
                \/ /\ g.st[t] \notin Terminal
                   /\ h.st[t] \in {"WaitingApproval", "WaitingInput", "Blocked", "Failed"}
Bears(g, h) ==
    \A t \in Tasks :
        IF g.st[t] # "Unborn" THEN h.st[t] = g.st[t] /\ h.deps[t] = g.deps[t]
        ELSE \/ h.st[t] = "Unborn" /\ h.deps[t] = g.deps[t]
             \/ h.st[t] = "Runnable" /\ \A d \in h.deps[t] : g.st[d] # "Unborn"

LEMMA RefreshSame ==
  ASSUME NEW g \in GoalStates
  PROVE  /\ Same(g, RefreshGoalStatus(g)) /\ RefreshGoalStatus(g) \in GoalStates
         /\ RefreshGoalStatus(g).n = g.n
         /\ (RefreshGoalStatus(g).status = "Cancelled") = (g.status = "Cancelled")
  BY RefreshKept, RefreshFields DEF Kept, Same

LEMMA InsertBears ==
  ASSUME NEW g \in GoalStates, NEW h \in GoalStates, Numbered(h), Bears(g, h),
         NEW p, NEW k \in Nat, NEW pu, NEW gd,
         NEW ds \in SUBSET Tasks, \A d \in ds : g.st[d] # "Unborn"
  PROVE  LET i == InsertChildren(h, p, k, pu, ds, gd)
         IN  Numbered(i) /\ Bears(g, i)
<1> DEFINE i == InsertChildren(h, p, k, pu, ds, gd)
<1>1. /\ i.n = h.n + k
      /\ i.st = Put(h.st, NextIds(h, k), "Runnable")
      /\ i.deps = Put(h.deps, NextIds(h, k), ds)
  BY InsertFields
<1>2. h.n \in Nat /\ Tasks \subseteq Nat
  BY DEF GoalStates, Tasks
<1> HIDE DEF i
<1>3. ASSUME NEW t \in Tasks
      PROVE  IF t \in NextIds(h, k) THEN /\ h.n < t /\ t <= h.n + k
                                         /\ i.st[t] = "Runnable" /\ i.deps[t] = ds
             ELSE /\ ~(h.n < t) \/ ~(t <= h.n + k)
                  /\ i.st[t] = h.st[t] /\ i.deps[t] = h.deps[t]
  BY <1>1 DEF Put, NextIds
<1>4. Numbered(i)
  <2> SUFFICES ASSUME NEW t \in Tasks PROVE i.st[t] = "Unborn" <=> h.n + k < t
    BY <1>1 DEF Numbered
  <2>1. CASE t \in NextIds(h, k)
    BY <1>2, <1>3, <2>1
  <2>2. CASE t \notin NextIds(h, k)
    <3>1. h.n < t <=> h.n + k < t
      BY <1>2, <1>3, <2>2
    <3> QED BY <1>3, <2>2, <3>1 DEF Numbered
  <2> QED BY <2>1, <2>2
<1>5. Bears(g, i)
  <2> SUFFICES ASSUME NEW t \in Tasks
               PROVE  IF g.st[t] # "Unborn" THEN i.st[t] = g.st[t] /\ i.deps[t] = g.deps[t]
                      ELSE \/ i.st[t] = "Unborn" /\ i.deps[t] = g.deps[t]
                           \/ i.st[t] = "Runnable" /\ \A d \in i.deps[t] : g.st[d] # "Unborn"
    BY DEF Bears
  <2>1. CASE t \in NextIds(h, k)
    <3>1. h.st[t] = "Unborn"
      BY <1>3, <2>1 DEF Numbered
    <3>2. g.st[t] = "Unborn"
      BY <3>1 DEF Bears
    <3> QED BY <1>3, <2>1, <3>2
  <2>2. CASE t \notin NextIds(h, k)
    BY <1>3, <2>2 DEF Bears
  <2> QED BY <2>1, <2>2
<1> QED BY <1>4, <1>5 DEF i

LEMMA InsertIfBears ==
  ASSUME NEW g \in GoalStates, NEW h \in GoalStates, Numbered(h), Bears(g, h),
         NEW due, NEW p \in Tasks, NEW pu \in TaskPurpose,
         NEW gd \in {"none", "output", "security"},
         NEW ds \in SUBSET Tasks, \A d \in ds : g.st[d] # "Unborn"
  PROVE  LET i == InsertIf(due, h, p, pu, ds, gd)
         IN  i \in GoalStates /\ Numbered(i) /\ Bears(g, i)
<1>1. 1 \in Nat
  OBVIOUS
<1>2. InsertChildren(h, p, 1, pu, ds, gd) \in GoalStates
  BY <1>1, InsertChildrenType DEF Follows
<1> QED BY <1>1, <1>2, InsertBears DEF InsertIf

LEMMA SelfBears ==
  ASSUME NEW g PROVE Bears(g, g) /\ Same(g, g)
  BY DEF Bears, Same

LEMMA SameBears ==
  ASSUME NEW g, NEW h, NEW i, Bears(g, h), Same(h, i)
  PROVE  Bears(g, i)
  BY DEF Bears, Same

\* Before a birth the statuses may have been renamed (rounds, refreshes).
LEMMA BearsSame ==
  ASSUME NEW g, NEW h, NEW i, Same(g, h), Bears(h, i)
  PROVE  Bears(g, i)
  BY DEF Bears, Same
-----------------------------------------------------------------------------
(* Control operators move tasks *)

LEMMA ApplyHumanApprovalMoved ==
  ASSUME NEW g \in GoalStates, GoalInv(g), NEW a \in g.approvals, a.status = "Pending",
         NEW approved \in BOOLEAN
  PROVE  Moved(g, ApplyHumanApproval(g, a, approved), Tasks)
<1> DEFINE answer == IF approved THEN "Approved" ELSE "Rejected"
           as == (g.approvals \ {a}) \cup {[a EXCEPT !.status = answer]}
           s == IF ~approved THEN "Blocked"
                ELSE IF g.st[a.task] \in {"WaitingApproval", "Blocked"}
                     THEN "Runnable" ELSE g.st[a.task]
           st == [g.st EXCEPT ![a.task] = s]
           h == [g EXCEPT !.approvals = as, !.st = st]
<1>1. a \in Approval /\ a.task \in Tasks
  BY DEF GoalStates, Approval
<1>2. ApplyHumanApproval(g, a, approved) = RefreshGoalStatus(h)
  BY DEF ApplyHumanApproval
<1>3. as \in SUBSET Approval
  BY <1>1 DEF GoalStates, Approval
<1>4. st \in [Tasks -> TaskStatus \cup {"Unborn"}]
  BY <1>1 DEF GoalStates, TaskStatus
<1>5. g.st[a.task] \in {"Runnable", "WaitingApproval", "WaitingInput", "Blocked"}
  BY DEF GoalInv, ApprovalInv, Current
<1>6. \A t \in Tasks : st[t] = IF t = a.task THEN s ELSE g.st[t]
  BY <1>1 DEF GoalStates
<1>7. s = g.st[a.task] \/ s = "Runnable" \/ s = "Blocked"
  OBVIOUS
<1> HIDE DEF st, as, s
<1>8. h \in GoalStates /\ h.st = st /\ h.deps = g.deps
  BY <1>3, <1>4 DEF GoalStates
<1> HIDE DEF h
<1>9. Moved(g, h, Tasks)
  BY <1>1, <1>5, <1>6, <1>7, <1>8 DEF Moved, Terminal
<1> QED BY <1>2, <1>8, <1>9, RefreshSame DEF Moved, Same

LEMMA CreateThunkMoved ==
  ASSUME NEW g \in GoalStates, NEW t \in Tasks \cup {NoTask},
         NEW kind \in {"approval", "input"}, NEW cont \in Tasks \cup {NoTask},
         t # NoTask /\ Waits(g, cont) = {} => Open(g, t)
  PROVE  LET h == CreateThunk(g, t, kind, cont)
         IN  h \in GoalStates /\ h.n = g.n /\ Moved(g, h, {t})
<1> DEFINE w == [task |-> t, cont |-> cont, kind |-> kind, status |-> "Pending"]
           wait == IF kind = "approval" THEN "WaitingApproval" ELSE "WaitingInput"
           st == Put(g.st, {t}, wait)
           ths == g.thunks \cup {w}
           k == [g EXCEPT !.thunks = ths, !.st = st]
<1>1. CASE Waits(g, cont) # {}
  <2>1. CreateThunk(g, t, kind, cont) = g
    BY <1>1 DEF CreateThunk
  <2> QED BY <2>1 DEF Moved
<1>2. CASE Waits(g, cont) = {}
  <2>1. CreateThunk(g, t, kind, cont) = RefreshGoalStatus(k)
    BY <1>2 DEF CreateThunk
  <2>2. w \in Thunk
    BY DEF Thunk
  <2>3. st \in [Tasks -> TaskStatus \cup {"Unborn"}]
    BY PutType DEF GoalStates, TaskStatus
  <2>4. ths \in SUBSET Thunk
    BY <2>2 DEF GoalStates
  <2>5. \A u \in Tasks : IF u = t THEN st[u] = wait ELSE st[u] = g.st[u]
    BY DEF Put
  <2> HIDE DEF w, st
  <2>6. k \in GoalStates /\ k.st = st /\ k.deps = g.deps /\ k.n = g.n
    <3> HIDE DEF ths
    <3> QED BY <2>3, <2>4 DEF GoalStates
  <2> HIDE DEF k
  <2>7. \A u \in Tasks : u # NoTask
    BY DEF Tasks, NoTask
  <2>8. Moved(g, k, {t})
    BY <1>2, <2>5, <2>6, <2>7 DEF Moved, Open
  <2> QED BY <2>1, <2>6, <2>8, RefreshSame DEF Moved, Same
<1> QED BY <1>1, <1>2

LEMMA ResumeThunkMoved ==
  ASSUME NEW g \in GoalStates, NEW w \in g.thunks
  PROVE  Moved(g, ResumeThunk(g, w), Tasks)
<1> DEFINE woken == WaitingTask(g, w, {"Blocked", "WaitingApproval", "WaitingInput"})
           st == Put(g.st, woken, "Runnable")
           ths == (g.thunks \ {w}) \cup {[w EXCEPT !.status = "Resumed"]}
           k == [g EXCEPT !.thunks = ths, !.st = st]
<1>1. ResumeThunk(g, w) = RefreshGoalStatus(k)
  BY DEF ResumeThunk
<1>2. w \in Thunk /\ g.thunks \in SUBSET Thunk
  BY DEF GoalStates
<1>3. [w EXCEPT !.status = "Resumed"] \in Thunk
  BY <1>2 DEF Thunk
<1>4. ths \in SUBSET Thunk
  BY <1>2, <1>3
<1>5. st \in [Tasks -> TaskStatus \cup {"Unborn"}]
  BY PutType DEF GoalStates, TaskStatus
<1>6. \A u \in Tasks : \/ st[u] = g.st[u]
                       \/ st[u] = "Runnable" /\ g.st[u] # "Unborn"
  BY DEF Put, WaitingTask
<1> HIDE DEF st, ths
<1>7. k \in GoalStates /\ k.st = st /\ k.deps = g.deps
  BY <1>4, <1>5 DEF GoalStates
<1> HIDE DEF k
<1>8. Moved(g, k, Tasks)
  BY <1>6, <1>7 DEF Moved
<1> QED BY <1>1, <1>7, <1>8, RefreshSame DEF Moved, Same

LEMMA ApplyRestartMoved ==
  ASSUME NEW g \in GoalStates, NEW scope, NEW t, NEW reset,
         \A u \in RestartTargets(g, scope, t) \cap Tasks : g.st[u] # "Unborn"
  PROVE  LET h == ApplyRestart(g, scope, t, reset)
             ts == RestartTargets(g, scope, t)
         IN  /\ h \in GoalStates /\ h.n = g.n /\ Moved(g, h, ts)
             /\ \A u \in ts \cap Tasks : h.st[u] = "Runnable"
<1> DEFINE ts == RestartTargets(g, scope, t)
           rs == [u \in Tasks |-> IF u \in ts THEN g.restarts[u] + 1 ELSE g.restarts[u]]
           gr == IF scope = "Goal" THEN g.goalRestarts + 1 ELSE g.goalRestarts
           as == Put(g.attempts, IF reset THEN ts ELSE {}, 0)
           st == Put(g.st, ts, "Runnable")
           ths == Retire(g.thunks, ts)
           aps == Retire(g.approvals, ts)
           k == [g EXCEPT !.thunks = ths, !.approvals = aps, !.st = st,
                          !.attempts = as, !.restarts = rs, !.goalRestarts = gr]
<1>1. ApplyRestart(g, scope, t, reset) = RefreshGoalStatus(k)
  BY DEF ApplyRestart
<1>2. rs \in [Tasks -> Nat] /\ gr \in Nat
  BY DEF GoalStates
<1>3. as \in [Tasks -> Nat]
  BY PutType DEF GoalStates
<1>4. st \in [Tasks -> TaskStatus \cup {"Unborn"}]
  BY PutType DEF GoalStates, TaskStatus
<1>5. ths \in SUBSET Thunk /\ aps \in SUBSET Approval
  BY RetireType DEF GoalStates
<1>6. k \in GoalStates /\ k.st = st /\ k.deps = g.deps /\ k.n = g.n
  <2> HIDE DEF rs, gr, as, st, ths, aps, ts
  <2> QED BY <1>2, <1>3, <1>4, <1>5 DEF GoalStates
<1>7. \A u \in Tasks : IF u \in ts THEN st[u] = "Runnable" ELSE st[u] = g.st[u]
  BY DEF Put
<1> HIDE DEF ts, k, rs, gr, as, st, ths, aps
<1>8. Moved(g, k, ts)
  BY <1>6, <1>7 DEF Moved, ts
<1>9. LET h == RefreshGoalStatus(k)
      IN  /\ h \in GoalStates /\ h.n = g.n /\ Moved(g, h, ts)
          /\ \A u \in ts \cap Tasks : h.st[u] = "Runnable"
  BY <1>6, <1>7, <1>8, RefreshSame DEF Moved, Same
<1> QED BY <1>1, <1>9 DEF ts

\* A steering directive that does not cancel moves tasks or adds some.
LEMMA ApplySteeringMoves ==
  ASSUME NEW g \in GoalStates, Numbered(g), NEW d \in Directive, d.kind # "cancel",
         d.kind = "standard_review" => g.st[d.target] # "Unborn"
  PROVE  LET h == ApplySteering(g, d)
         IN  Moved(g, h, Tasks) \/ Bears(g, h)
<1> DEFINE inject(purpose, deps) == InsertChildren(g, Root, 1, purpose, deps, "none")
           criteria == IF d.reopen THEN ReopenDoneWork(g) ELSE g
           Good(h) == h \in GoalStates /\ (Moved(g, h, Tasks) \/ Bears(g, h))
<1>1. ASSUME NEW h, Good(h), NEW k \in GoalStates, Same(h, k)
      PROVE  Good(k)
  BY <1>1, SameBears DEF Moved, Same
<1>2. Good(g)
  BY SelfBears
<1>3. ASSUME NEW h, Good(h) PROVE Good([h EXCEPT !.steers = @ + 1])
  <2> DEFINE n == h.steers + 1
             k == [h EXCEPT !.steers = n]
  <2>1. h \in GoalStates /\ n \in Nat
    BY <1>3 DEF GoalStates
  <2> HIDE DEF n
  <2>2. k \in GoalStates /\ Same(h, k)
    BY <2>1 DEF GoalStates, Same
  <2> HIDE DEF k, Good
  <2>3. Good(k)
    BY <1>1, <1>3, <2>2
  <2> QED BY <2>3 DEF k, n
<1>4. ASSUME NEW pu \in {"Work", "Research", "Review"}, NEW ds \in SUBSET Tasks,
             \A u \in ds : g.st[u] # "Unborn"
      PROVE  Good(inject(pu, ds))
  <2>1. 1 \in Nat /\ Root \in Tasks
    BY RootIsTask
  <2>2. inject(pu, ds) \in GoalStates
    BY <2>1, InsertChildrenType DEF TaskPurpose, Follows
  <2> QED BY <1>4, <2>1, <2>2, InsertBears, SelfBears
<1>5. ASSUME NEW h, Good(h) PROVE Good(RefreshGoalStatus(h))
  BY <1>1, <1>5, RefreshSame
<1>6. Good(criteria)
  <2> DEFINE st == Put(g.st, DoneTasks(g, WorkLike), "Runnable")
             r == [g EXCEPT !.st = st]
  <2>1. st \in [Tasks -> TaskStatus \cup {"Unborn"}]
    BY PutType DEF GoalStates, TaskStatus
  <2>2. ReopenDoneWork(g) = r
    BY DEF ReopenDoneWork
  <2>3. \A u \in Tasks : st[u] = g.st[u] \/ (g.st[u] = "Done" /\ st[u] = "Runnable")
    BY DEF Put, DoneTasks
  <2> HIDE DEF st
  <2>4. r \in GoalStates /\ r.st = st /\ r.deps = g.deps
    BY <2>1 DEF GoalStates
  <2> HIDE DEF r
  <2>5. Moved(g, r, Tasks)
    BY <2>3, <2>4 DEF Moved
  <2> QED BY <1>2, <2>2, <2>4, <2>5
<1>7. Good([criteria EXCEPT !.scoreOk = @ /\ ~d.raise])
  <2> HIDE DEF criteria
  <2>1. ASSUME NEW b \in BOOLEAN PROVE Good([criteria EXCEPT !.scoreOk = b])
    <3> DEFINE k == [criteria EXCEPT !.scoreOk = b]
    <3>1. k \in GoalStates /\ Same(criteria, k)
      BY <1>6 DEF GoalStates, Same
    <3> HIDE DEF k, Good
    <3>2. Good(k)
      BY <1>1, <1>6, <3>1
    <3> QED BY <3>2 DEF k
  <2>2. (criteria.scoreOk /\ ~d.raise) \in BOOLEAN
    OBVIOUS
  <2> QED BY <2>1, <2>2
<1>8. ASSUME NEW x \in GoalStatus PROVE Good([g EXCEPT !.status = x])
  <2> DEFINE k == [g EXCEPT !.status = x]
  <2>1. k \in GoalStates /\ Same(g, k)
    BY DEF GoalStates, Same
  <2> HIDE DEF k, Good
  <2>2. Good(k)
    BY <1>1, <1>2, <2>1
  <2> QED BY <2>2 DEF k
<1>9. d.kind \in SteeringKinds /\ d.target \in Tasks /\ g.status \in GoalStatus
  BY DEF Directive, GoalStates
<1>10. /\ Good([g EXCEPT !.status = "Paused"])
       /\ Good([g EXCEPT !.status = IF @ \in {"Paused", "Blocked"}
                                    THEN "Running" ELSE @])
  BY <1>8, <1>9 DEF GoalStatus
<1> DEFINE h == CASE d.kind = "cancel" -> Cancel(g)
               [] d.kind = "note" -> g
               [] d.kind = "inject_task" -> inject("Work", {})
               [] d.kind = "request_research" -> inject("Research", {})
               [] d.kind = "standard_review" -> inject("Review", {d.target})
               [] d.kind = "evaluate" -> RefreshGoalStatus(g)
               [] d.kind = "update_done_criteria" -> RefreshGoalStatus(criteria)
               [] d.kind = "expand_done_criteria" -> RefreshGoalStatus(
                    [criteria EXCEPT !.scoreOk = @ /\ ~d.raise])
               [] d.kind = "pause" -> [g EXCEPT !.status = "Paused"]
               [] d.kind = "resume" ->
                    [g EXCEPT !.status = IF @ \in {"Paused", "Blocked"}
                                         THEN "Running" ELSE @]
<1>11. ApplySteering(g, d) = [h EXCEPT !.steers = @ + 1]
  BY DEF ApplySteering
<1>12. /\ Good(inject("Work", {})) /\ Good(inject("Research", {}))
       /\ d.kind = "standard_review" => Good(inject("Review", {d.target}))
  <2> HIDE DEF Good, inject
  <2>1. \A u \in {} : g.st[u] # "Unborn"
    OBVIOUS
  <2>2. d.kind = "standard_review" => \A u \in {d.target} : g.st[u] # "Unborn"
    OBVIOUS
  <2>3. {} \in SUBSET Tasks /\ {d.target} \in SUBSET Tasks
    BY <1>9
  <2> QED BY <1>4, <2>1, <2>2, <2>3
<1> HIDE DEF Good, inject, criteria
<1>13. /\ Good(RefreshGoalStatus(g)) /\ Good(RefreshGoalStatus(criteria))
       /\ Good(RefreshGoalStatus([criteria EXCEPT !.scoreOk = @ /\ ~d.raise]))
  BY <1>2, <1>5, <1>6, <1>7
<1>14. Good(h)
  BY <1>2, <1>9, <1>10, <1>12, <1>13 DEF SteeringKinds
<1> HIDE DEF h
<1>15. Good(ApplySteering(g, d))
  BY <1>3, <1>11, <1>14
<1> QED BY <1>15 DEF Good

LEMMA RequestApprovalMoved ==
  ASSUME NEW g \in GoalStates, NEW t \in Tasks, Open(g, t)
  PROVE  Moved(g, RequestApproval(g, t), Tasks)
<1> DEFINE a == [task |-> t, status |-> "Pending", attempt |-> g.attempts[t] + 1]
           as == g.approvals \cup {a}
           st == [g.st EXCEPT ![t] = "WaitingApproval"]
           k == [g EXCEPT !.st = st, !.approvals = as]
<1>1. RequestApproval(g, t) = RefreshGoalStatus(k)
  BY DEF RequestApproval
<1>2. a \in Approval
  BY DEF Approval, GoalStates
<1>3. st \in [Tasks -> TaskStatus \cup {"Unborn"}]
  BY DEF GoalStates, TaskStatus
<1>4. \A u \in Tasks : st[u] = IF u = t THEN "WaitingApproval" ELSE g.st[u]
  BY DEF GoalStates
<1> HIDE DEF a, st
<1>5. k \in GoalStates /\ k.st = st /\ k.deps = g.deps
  BY <1>2, <1>3 DEF GoalStates
<1> HIDE DEF k
<1>6. Moved(g, k, Tasks)
  BY <1>4, <1>5 DEF Moved, Open
<1> QED BY <1>1, <1>5, <1>6, RefreshSame DEF Moved, Same
-----------------------------------------------------------------------------
(* Answers and reports: the task in hand gets a new status (Rests: nothing *)
(* else changes), then tasks are born.                                     *)

Rests(g, h, t) == /\ h \in GoalStates /\ h.n = g.n /\ h.deps = g.deps
                  /\ \A u \in Tasks \ {t} : h.st[u] = g.st[u]
                  /\ h.st[t] \in {"Runnable", "NeedsValidation", "WaitingApproval",
                                  "WaitingInput", "Blocked", "Failed", "Done"}

LEMMA RestsNumbered ==
  ASSUME NEW g, NEW h, NEW t \in Tasks, Numbered(g), g.st[t] # "Unborn", Rests(g, h, t)
  PROVE  Numbered(h)
  BY DEF Numbered, Rests

LEMMA ApplyAgentResultRests ==
  ASSUME NEW g \in GoalStates, Numbered(g), NEW t \in Tasks, Open(g, t),
         NEW o \in Outcome
  PROVE  \E k : /\ Rests(g, k, t) /\ k.st[t] # "Done"
                /\ Bears(k, ApplyAgentResult(g, t, o))
<1> DEFINE s == StatusAfterResult(g, t, o)
           st == [g.st EXCEPT ![t] = s]
           g1 == [g EXCEPT !.st = st]
           kind == IF o.thunk = "approval" THEN "approval" ELSE "input"
           g2 == IF ~CarriesThunk(g, t, o) THEN g1
                 ELSE CreateThunk(g1, t, kind, ThunkCont(g, t, o))
           g3 == InsertIf("free" \in o.children, g2, t, "Work", {}, "none")
           g4 == InsertIf("after" \in o.children, g3, t, "Work", {t}, "none")
           due(tag) == o.status = "Done" /\ tag \in GuardrailsDue(g, t)
           g5 == InsertIf(due("output"), g4, t, "Review", {t}, "output")
           g6 == InsertIf(due("security"), g5, t, "Review", {t}, "security")
           Good(h) == h \in GoalStates /\ Numbered(h) /\ Bears(g2, h)
<1> USE DEF TaskPurpose
<1>1. ApplyAgentResult(g, t, o) = RefreshGoalStatus(g6)
  BY DEF ApplyAgentResult
<1>2. s \in {"WaitingApproval", "NeedsValidation", "Runnable", "WaitingInput",
             "Blocked", "Failed"}
  BY DEF StatusAfterResult
<1> HIDE DEF s
<1>3. st \in [Tasks -> TaskStatus \cup {"Unborn"}]
  BY <1>2 DEF GoalStates, TaskStatus
<1>4. \A u \in Tasks : st[u] = IF u = t THEN s ELSE g.st[u]
  BY DEF GoalStates
<1> HIDE DEF st
<1>5. g1 \in GoalStates /\ g1.n = g.n /\ g1.st = st /\ g1.deps = g.deps
  BY <1>3 DEF GoalStates
<1> HIDE DEF g1
<1>6. Rests(g, g1, t) /\ g1.st[t] # "Done" /\ Open(g1, t)
  BY <1>2, <1>4, <1>5 DEF Rests, Open, Terminal
<1>7. Rests(g, g2, t) /\ g2.st[t] # "Done"
  <2> DEFINE k == CreateThunk(g1, t, kind, ThunkCont(g, t, o))
  <2>1. ThunkCont(g, t, o) \in Tasks \cup {NoTask}
    BY DEF ThunkCont
  <2>2. k \in GoalStates /\ k.n = g1.n /\ Moved(g1, k, {t})
    BY <1>5, <1>6, <2>1, CreateThunkMoved
  <2> HIDE DEF k
  <2>3. Rests(g, k, t) /\ k.st[t] # "Done"
    BY <1>6, <2>2 DEF Rests, Moved
  <2> QED BY <1>6, <2>3 DEF k
<1> HIDE DEF g2
<1>8. \A u \in {t} : g2.st[u] # "Unborn"
  BY <1>7 DEF Rests
<1>9. Good(g2)
  BY <1>7, RestsNumbered, SelfBears DEF Rests, Open
<1>10. Good(g3)
  BY <1>9, InsertIfBears
<1> HIDE DEF g3
<1>11. Good(g4)
  BY <1>8, <1>9, <1>10, InsertIfBears
<1> HIDE DEF g4
<1>12. Good(g5)
  BY <1>8, <1>9, <1>11, InsertIfBears
<1> HIDE DEF g5
<1>13. Good(g6)
  BY <1>8, <1>9, <1>12, InsertIfBears
<1> HIDE DEF g6
<1>14. Bears(g2, RefreshGoalStatus(g6))
  BY <1>13, RefreshSame, SameBears
<1> QED BY <1>1, <1>7, <1>14

LEMMA ApplyValidationRests ==
  ASSUME NEW g \in GoalStates, NEW t \in Tasks, NEW o \in Outcome
  PROVE  LET h == ApplyValidation(g, t, o)
         IN  Rests(g, h, t) /\ h.st[t] # "NeedsValidation"
<1> DEFINE unifies(r) == /\ g.purpose[t] = "Unification" /\ r.unifier = t
                         /\ o.status = "Done" /\ o.passes
           rs == [i \in DOMAIN g.rounds |->
                    IF unifies(g.rounds[i])
                    THEN [g.rounds[i] EXCEPT !.status = "Unified"]
                    ELSE g.rounds[i]]
           d == IF g.purpose[t] \in {"Review", "Unification"}
                THEN o.decision ELSE g.decision
           s == StatusAfterValidation(o)
           st == [g.st EXCEPT ![t] = s]
           k == [g EXCEPT !.st = st, !.scoreOk = o.scoreOk, !.decision = d, !.rounds = rs]
<1>1. ApplyValidation(g, t, o) = RefreshGoalStatus(k)
  BY DEF ApplyValidation
<1>2. ApplyValidation(g, t, o) \in GoalStates
  BY ApplyValidationBrings
<1>3. s \in {"WaitingInput", "Blocked", "Failed", "Done", "Runnable"}
  BY DEF StatusAfterValidation
<1>4. \A u \in Tasks : st[u] = IF u = t THEN s ELSE g.st[u]
  BY DEF GoalStates
<1> HIDE DEF rs, d, s, st
<1>5. k.st = st /\ k.deps = g.deps /\ k.n = g.n
  BY DEF GoalStates
<1>6. LET h == RefreshGoalStatus(k) IN h.st = k.st /\ h.deps = k.deps /\ h.n = k.n
  <2>1. DOMAIN k = DOMAIN g
    OBVIOUS
  <2> HIDE DEF k
  <2> QED BY <2>1 DEF RefreshGoalStatus, GoalStates
<1> HIDE DEF k
<1> QED BY <1>1, <1>2, <1>3, <1>4, <1>5, <1>6 DEF Rests

LEMMA RecordTimeoutRests ==
  ASSUME NEW g \in GoalStates, NEW t \in Tasks, g.st[t] # "Unborn"
  PROVE  LET h == RecordTimeout(g, t)
         IN  Rests(g, h, t) /\ h.st[t] # "NeedsValidation"
<1> DEFINE timed == [g EXCEPT !.timedOut = g.timedOut \cup {t}]
           Good(h) == Rests(g, h, t) /\ h.st[t] # "NeedsValidation"
<1>1. /\ timed \in GoalStates /\ timed.st = g.st /\ timed.deps = g.deps
      /\ timed.n = g.n
  BY DEF GoalStates
<1>2. RecordTimeout(g, t) =
        CASE OnTaskTimeout = "RestartIfAllowed" ->
               ApplyRestart(timed, "Task", t, ResetOnRestart)
          [] OnTaskTimeout = "BlockAndNotify" ->
               RefreshGoalStatus([timed EXCEPT !.st[t] = "Blocked"])
          [] OTHER -> RefreshGoalStatus([timed EXCEPT !.st[t] = "Failed"])
  BY DEF RecordTimeout
<1> HIDE DEF timed
<1>3. Good(ApplyRestart(timed, "Task", t, ResetOnRestart))
  <2> DEFINE h == ApplyRestart(timed, "Task", t, ResetOnRestart)
  <2>1. RestartTargets(timed, "Task", t) = {t}
    BY DEF RestartTargets
  <2>2. /\ h \in GoalStates /\ h.n = timed.n /\ Moved(timed, h, {t})
        /\ h.st[t] = "Runnable"
    BY <1>1, <2>1, ApplyRestartMoved
  <2> HIDE DEF h
  <2>4. Good(h)
    BY <1>1, <2>2 DEF Rests, Moved
  <2> QED BY <2>4 DEF h
<1>4. ASSUME NEW s \in {"Blocked", "Failed"}
      PROVE  Good(RefreshGoalStatus([timed EXCEPT !.st[t] = s]))
  <2> DEFINE st == [timed.st EXCEPT ![t] = s]
             k == [timed EXCEPT !.st = st]
  <2>1. st \in [Tasks -> TaskStatus \cup {"Unborn"}]
    BY <1>1 DEF GoalStates, TaskStatus
  <2>2. /\ st[t] = s
        /\ \A u \in Tasks \ {t} : st[u] = timed.st[u]
    <3>1. timed.st \in [Tasks -> TaskStatus \cup {"Unborn"}]
      BY <1>1 DEF GoalStates
    <3> QED BY <3>1
  <2>3. [timed EXCEPT !.st[t] = s] = k
    BY <1>1 DEF GoalStates
  <2> HIDE DEF st
  <2>4. k \in GoalStates /\ k.st = st /\ k.deps = timed.deps /\ k.n = timed.n
    BY <1>1, <2>1 DEF GoalStates
  <2> HIDE DEF k
  <2>5. Rests(g, k, t) /\ k.st[t] # "NeedsValidation"
    BY <1>1, <2>2, <2>4 DEF Rests
  <2>6. Good(RefreshGoalStatus(k))
    BY <2>4, <2>5, RefreshSame DEF Rests, Same
  <2> QED BY <2>3, <2>6
<1> QED BY <1>2, <1>3, <1>4
-----------------------------------------------------------------------------
(* The review frontier only adds tasks, behind finished ones *)

LEMMA RootBears ==
  ASSUME NEW g \in GoalStates, Numbered(g), NEW k \in Nat, NEW pu \in TaskPurpose,
         NEW ds \in SUBSET Tasks, \A d \in ds : g.st[d] = "Done", NEW rs
  PROVE  LET h == InsertChildren(g, Root, k, pu, ds, "none")
         IN  Bears(g, RefreshGoalStatus([h EXCEPT !.rounds = rs]))
<1> DEFINE h == InsertChildren(g, Root, k, pu, ds, "none")
<1>1. h \in GoalStates
  BY RootIsTask, InsertChildrenType DEF Follows
<1>2. Bears(g, h)
  BY SelfBears, InsertBears
<1> HIDE DEF h
<1>3. Kept(h, RefreshGoalStatus([h EXCEPT !.rounds = rs]))
  BY <1>1, RoundsRefreshKept
<1> QED BY <1>2, <1>3, SameBears DEF Kept, Same, h

LEMMA SpawnReviewRoundBears ==
  ASSUME NEW g \in GoalStates, Numbered(g)
  PROVE  Bears(g, SpawnReviewRound(g).state)
<1> DEFINE reviews == IF MinReviews > 1 THEN MinReviews ELSE 1
           subjects == DoneTasks(g, WorkLike)
           round == [subjects |-> subjects, reviewers |-> NextIds(g, reviews),
                     unifier |-> NoTask, status |-> "ReviewsSpawned"]
           h == InsertChildren(g, Root, reviews, "Review", subjects, "none")
           k == [h EXCEPT !.rounds = Append(h.rounds, round)]
<1>1. reviews \in Nat /\ subjects \in SUBSET Tasks /\ \A d \in subjects : g.st[d] = "Done"
  BY ConstantsOK DEF DoneTasks
<1>2. SpawnReviewRound(g) = IF SpawnAllowed(g, Root, reviews)
                            THEN Frontier(TRUE, TRUE, RefreshGoalStatus(k))
                            ELSE Frontier(FALSE, FALSE, g)
  BY DEF SpawnReviewRound, SpawnFromRoot
<1>3. Bears(g, RefreshGoalStatus(k))
  BY <1>1, RootBears DEF TaskPurpose
<1> HIDE DEF k
<1> QED BY <1>2, <1>3, SelfBears DEF Frontier

LEMMA SpawnUnifierBears ==
  ASSUME NEW g \in GoalStates, Numbered(g), LastRoundReady(g)
  PROVE  Bears(g, SpawnUnifier(g).state)
<1> DEFINE round == [LastRound(g) EXCEPT !.unifier = g.n + 1,
                                         !.status = "ReadyForUnification"]
           h == InsertChildren(g, Root, 1, "Unification", LastRound(g).reviewers, "none")
           k == [h EXCEPT !.rounds = [h.rounds EXCEPT ![Len(g.rounds)] = round]]
<1>1. LastRound(g).reviewers \in SUBSET Tasks /\ 1 \in Nat
  BY LastRoundType DEF ReviewRound, LastRoundReady
<1>2. SpawnUnifier(g) = IF SpawnAllowed(g, Root, 1)
                        THEN Frontier(TRUE, TRUE, RefreshGoalStatus(k))
                        ELSE Frontier(FALSE, FALSE, g)
  BY DEF SpawnUnifier, SpawnFromRoot
<1>3. Bears(g, RefreshGoalStatus(k))
  BY <1>1, RootBears DEF TaskPurpose, LastRoundReady
<1> HIDE DEF k
<1> QED BY <1>2, <1>3, SelfBears DEF Frontier

LEMMA SpawnActorRetryBears ==
  ASSUME NEW g \in GoalStates, Numbered(g)
  PROVE  Bears(g, SpawnActorRetry(g).state)
<1> DEFINE latest == CHOOSE i \in Unifiers(g) : \A j \in Unifiers(g) : j <= i
           unifier == g.rounds[latest].unifier
           h == InsertChildren(g, Root, 1, "ActorRetry", {unifier}, "none")
<1>1. CASE Unifiers(g) = {}
  BY <1>1, SelfBears DEF SpawnActorRetry, Frontier
<1>2. CASE Unifiers(g) # {}
  <2>1. g.rounds \in Seq(ReviewRound)
    BY DEF GoalStates
  <2>2. Unifiers(g) \in SUBSET (1..Len(g.rounds)) /\ Len(g.rounds) \in Nat
    BY <2>1 DEF Unifiers
  <2>3. latest \in Unifiers(g)
    BY <1>2, <2>2, LargestExists
  <2>4. unifier \in Tasks
    <3> HIDE DEF latest
    <3>1. latest \in DOMAIN g.rounds /\ g.rounds[latest].unifier # NoTask
      BY <2>3 DEF Unifiers
    <3> QED BY <3>1, RoundType DEF ReviewRound
  <2>5. \/ SpawnActorRetry(g) = Frontier(TRUE, FALSE, RefreshGoalStatus(g))
        \/ /\ g.st[unifier] = "Done"
           /\ SpawnActorRetry(g) = Frontier(TRUE, TRUE, RefreshGoalStatus(h))
        \/ SpawnActorRetry(g) = Frontier(FALSE, FALSE, g)
    BY <1>2 DEF SpawnActorRetry, SpawnFromRoot
  <2> HIDE DEF unifier
  <2>6. 1 \in Nat /\ {unifier} \in SUBSET Tasks
    BY <2>4
  <2>7. h \in GoalStates
    BY <2>6, RootIsTask, InsertChildrenType DEF Follows, TaskPurpose
  <2>8. g.st[unifier] = "Done" => Bears(g, h)
    <3> SUFFICES ASSUME g.st[unifier] = "Done" PROVE Bears(g, h)
      OBVIOUS
    <3>1. \A d \in {unifier} : g.st[d] # "Unborn"
      OBVIOUS
    <3> QED BY <2>6, <3>1, SelfBears, InsertBears
  <2> HIDE DEF h
  <2>9. g.st[unifier] = "Done" => Bears(g, RefreshGoalStatus(h))
    BY <2>7, <2>8, RefreshSame, SameBears
  <2>10. Bears(g, RefreshGoalStatus(g)) /\ Bears(g, g)
    BY RefreshSame, SelfBears, SameBears
  <2> QED BY <2>5, <2>9, <2>10 DEF Frontier
<1> QED BY <1>1, <1>2

LEMMA EnsureReviewFrontierBears ==
  ASSUME NEW g \in GoalStates, Numbered(g)
  PROVE  Bears(g, EnsureReviewFrontier(g).state)
<1> DEFINE unified == IF ~LastRoundReady(g) THEN g
                      ELSE [g EXCEPT !.rounds[Len(g.rounds)].status = "Unified"]
<1>1. unified \in GoalStates /\ Numbered(unified) /\ Same(g, unified)
  <2>1. CASE LastRoundReady(g)
    <3>1. g.rounds # <<>>
      BY <2>1 DEF LastRoundReady
    <3>2. [LastRound(g) EXCEPT !.status = "Unified"] \in ReviewRound
      BY <3>1, LastRoundType DEF ReviewRound
    <3> DEFINE k == [g EXCEPT !.rounds[Len(g.rounds)] =
                                 [LastRound(g) EXCEPT !.status = "Unified"]]
    <3>3. k \in GoalStates
      BY <3>1, <3>2, ReplaceLastRoundType DEF Follows
    <3>4. k.n = g.n /\ Same(g, k)
      BY DEF GoalStates, Same
    <3>5. unified = k
      BY <2>1 DEF LastRound
    <3> HIDE DEF k, unified
    <3> QED BY <3>3, <3>4, <3>5 DEF Same, Numbered
  <2>2. CASE ~LastRoundReady(g)
    BY <2>2 DEF Same
  <2> QED BY <2>1, <2>2
<1> HIDE DEF unified
<1>2. /\ Bears(g, SpawnReviewRound(g).state)
      /\ Bears(g, SpawnReviewRound(unified).state)
      /\ Bears(g, SpawnActorRetry(unified).state)
      /\ LastRoundReady(g) => Bears(g, SpawnUnifier(g).state)
  BY <1>1, SpawnReviewRoundBears, SpawnActorRetryBears, SpawnUnifierBears, BearsSame
<1>3. /\ Bears(g, RefreshGoalStatus(g))
      /\ Bears(g, RefreshGoalStatus(unified))
  BY <1>1, RefreshSame, SelfBears, SameBears, BearsSame
<1>4. \/ EnsureReviewFrontier(g) = Frontier(TRUE, FALSE, RefreshGoalStatus(g))
      \/ EnsureReviewFrontier(g) = SpawnReviewRound(g)
      \/ LastRoundReady(g) /\ EnsureReviewFrontier(g) = SpawnUnifier(g)
      \/ EnsureReviewFrontier(g) = SpawnReviewRound(unified)
      \/ EnsureReviewFrontier(g) = SpawnActorRetry(unified)
      \/ EnsureReviewFrontier(g) = Frontier(TRUE, FALSE, RefreshGoalStatus(unified))
  BY Zenon DEF EnsureReviewFrontier, unified
<1>5. /\ Frontier(TRUE, FALSE, RefreshGoalStatus(g)).state = RefreshGoalStatus(g)
      /\ Frontier(TRUE, FALSE, RefreshGoalStatus(unified)).state = RefreshGoalStatus(unified)
  BY DEF Frontier
<1> QED BY <1>2, <1>3, <1>4, <1>5
-----------------------------------------------------------------------------
(* The steps of the workflow are steps of GoalLifecycle *)

\* Outside of an attempt nobody has a task in hand; an answer that waits for its
\* report is in.
HandInv ==
    /\ handler.pc \notin {"running", "validating"} => handler.task = NoTask
    /\ handler.pc = "validating" => state.st[handler.task] \notin {"Running", "Unborn"}

LEMMA StageOf ==
  ASSUME NEW s \in TaskStatus \cup {"Unborn"}
  PROVE  /\ Stage(s) = "unborn" <=> s = "Unborn"
         /\ Stage(s) = "ready" <=> s = "Runnable"
         /\ Stage(s) = "working" <=> s = "Running"
         /\ Stage(s) = "answered" <=> s = "NeedsValidation"
         /\ Stage(s) = "waiting" <=> s \in {"WaitingApproval", "WaitingInput"}
         /\ Stage(s) = "stopped" <=> s \in {"Blocked", "Failed"}
         /\ Stage(s) = "done" <=> s = "Done"
         /\ Stage(s) = "cancelled" <=> s = "Cancelled"
  BY DEF Stage, TaskStatus, Terminal

LEMMA StagesOf ==
  ASSUME NEW g \in GoalStates, NEW t \in Tasks
  PROVE  /\ g.st[t] \in TaskStatus \cup {"Unborn"}
         /\ Stage(g.st[t]) = "unborn" <=> g.st[t] = "Unborn"
         /\ Stage(g.st[t]) = "ready" <=> g.st[t] = "Runnable"
         /\ Stage(g.st[t]) = "working" <=> g.st[t] = "Running"
         /\ Stage(g.st[t]) = "answered" <=> g.st[t] = "NeedsValidation"
         /\ Stage(g.st[t]) = "waiting" <=> g.st[t] \in {"WaitingApproval", "WaitingInput"}
         /\ Stage(g.st[t]) = "stopped" <=> g.st[t] \in {"Blocked", "Failed"}
         /\ Stage(g.st[t]) = "done" <=> g.st[t] = "Done"
         /\ Stage(g.st[t]) = "cancelled" <=> g.st[t] = "Cancelled"
         /\ g.deps[t] \in SUBSET Tasks
<1>1. g.st[t] \in TaskStatus \cup {"Unborn"} /\ g.deps[t] \in SUBSET Tasks
  BY DEF GoalStates
<1> QED BY <1>1, StageOf

LEMMA ExistingStages ==
  ASSUME state \in GoalStates
  PROVE  Lifecycle!Existing = {t \in Tasks : state.st[t] # "Unborn"}
  BY StagesOf DEF Lifecycle!Existing

LEMMA BirthsOf ==
  ASSUME state \in GoalStates, state' \in GoalStates,
         \/ Bears(state, state')
         \/ Moved(state, state', Tasks)
         \/ \E k : Rests(state, k, handler.task) /\ Bears(k, state')
                   /\ handler.task \in Tasks /\ state.st[handler.task] # "Unborn"
  PROVE  Lifecycle!Births
<1> DEFINE X == {t \in Tasks : state.st[t] # "Unborn"}
<1>1. Lifecycle!Existing = X
  BY ExistingStages
<1>2. \A t \in Tasks :
         /\ Stage(state'.st[t]) = "unborn" <=> state'.st[t] = "Unborn"
         /\ Stage(state'.st[t]) = "ready" <=> state'.st[t] = "Runnable"
         /\ state'.deps[t] \in SUBSET Tasks
  BY StagesOf
<1>3. ASSUME NEW t \in Tasks
      PROVE  IF state.st[t] # "Unborn" THEN state'.deps[t] = state.deps[t]
             ELSE \/ state'.st[t] = "Unborn" /\ state'.deps[t] = state.deps[t]
                  \/ state'.st[t] = "Runnable" /\ \A d \in state'.deps[t] : state.st[d] # "Unborn"
  <2>1. CASE Bears(state, state')
    BY <2>1 DEF Bears
  <2>2. CASE Moved(state, state', Tasks)
    BY <2>2 DEF Moved
  <2>3. CASE \E k : Rests(state, k, handler.task) /\ Bears(k, state')
                    /\ handler.task \in Tasks /\ state.st[handler.task] # "Unborn"
    <3>1. PICK k : Rests(state, k, handler.task) /\ Bears(k, state')
      BY <2>3
    <3>2. \A u \in Tasks : k.st[u] # "Unborn" <=> state.st[u] # "Unborn"
      BY <2>3, <3>1 DEF Rests
    <3>3. k.deps = state.deps
      BY <3>1 DEF Rests
    <3> QED BY <1>2, <3>1, <3>2, <3>3 DEF Bears
  <2> QED BY <2>1, <2>2, <2>3
<1>4. \A t \in X : state'.deps[t] = state.deps[t]
  BY <1>3
<1>5. ASSUME NEW t \in Tasks \ X
      PROVE  \/ Stage(state'.st[t]) = "unborn" /\ state'.deps[t] = state.deps[t]
             \/ Stage(state'.st[t]) = "ready" /\ state'.deps[t] \subseteq X
  BY <1>2, <1>3
<1> HIDE DEF X
<1> QED BY <1>1, <1>4, <1>5 DEF Lifecycle!Births

Free == /\ handler.task = NoTask /\ handler'.task = NoTask
        /\ state.status # "Cancelled" /\ state'.status # "Cancelled"
        /\ state \in GoalStates /\ state' \in GoalStates

LEMMA ArrangeStep ==
  ASSUME Free, Moved(state, state', Tasks) \/ Bears(state, state')
  PROVE  Lifecycle!Next
<1>1. Lifecycle!Births
  BY BirthsOf DEF Free
<1>2. Lifecycle!Existing = {t \in Tasks : state.st[t] # "Unborn"}
  BY ExistingStages DEF Free
<1>3. ASSUME NEW t \in Tasks, state.st[t] # "Unborn"
      PROVE  \/ Stage(state'.st[t]) = Stage(state.st[t])
             \/ Stage(state'.st[t]) = "ready"
             \/ /\ Stage(state.st[t]) \notin {"done", "cancelled"}
                /\ Stage(state'.st[t]) \in {"waiting", "stopped"}
  <2>1. \/ state'.st[t] = state.st[t] \/ state'.st[t] = "Runnable"
        \/ /\ state.st[t] \notin Terminal
           /\ state'.st[t] \in {"WaitingApproval", "WaitingInput", "Blocked", "Failed"}
    BY <1>3 DEF Moved, Bears
  <2> QED BY <2>1, StagesOf DEF Free, Terminal
<1>4. Lifecycle!Arrange
  BY <1>1, <1>2, <1>3 DEF Free, Lifecycle!Arrange, Lifecycle!Ended
<1> QED BY <1>4 DEF Lifecycle!Next

LEMMA TakeStep ==
  ASSUME state \in GoalStates, state' \in GoalStates, NEW t \in Tasks,
         handler.task = NoTask, handler'.task \in {t, NoTask},
         state.status # "Cancelled", state'.status # "Cancelled",
         state.st[t] = "Runnable", \A d \in state.deps[t] : state.st[d] = "Done",
         state'.deps = state.deps, state'.st = [state.st EXCEPT ![t] = "Running"]
  PROVE  Lifecycle!Next
<1>0. state.st \in [Tasks -> TaskStatus \cup {"Unborn"}]
  BY DEF GoalStates
<1>1. \A u \in Tasks : state'.st[u] = IF u = t THEN "Running" ELSE state.st[u]
  BY <1>0
<1>2. Stage(state.st[t]) = "ready" /\ Stage("Running") = "working"
  BY DEF Stage
<1>3. \A d \in state.deps[t] : d \in Tasks /\ Stage(state.st[d]) = "done"
  BY StagesOf
<1>4. [u \in Tasks |-> Stage(state'.st[u])]
        = [[u \in Tasks |-> Stage(state.st[u])] EXCEPT ![t] = "working"]
  BY <1>1, <1>2
<1>5. Lifecycle!Take(t)
  BY <1>2, <1>3, <1>4 DEF Lifecycle!Take
<1> QED BY <1>5 DEF Lifecycle!Next

InHand == /\ state \in GoalStates /\ state' \in GoalStates /\ handler.task \in Tasks
          /\ state.st[handler.task] # "Unborn"
          /\ state.status # "Cancelled" /\ state'.status # "Cancelled"

LEMMA OthersStayIf ==
  ASSUME InHand, NEW k, Rests(state, k, handler.task), Bears(k, state')
  PROVE  /\ Lifecycle!Births /\ Lifecycle!OthersStay
         /\ state'.st[handler.task] = k.st[handler.task]
<1>1. Lifecycle!Births
  BY BirthsOf DEF InHand
<1>2. \A t \in Tasks : k.st[t] # "Unborn" => state'.st[t] = k.st[t]
  BY DEF Bears
<1>3. k.st[handler.task] # "Unborn"
  BY DEF Rests
<1>4. \A t \in Tasks \ {handler.task} : state.st[t] # "Unborn" => state'.st[t] = state.st[t]
  BY <1>2 DEF Rests
<1>5. Lifecycle!Existing = {t \in Tasks : state.st[t] # "Unborn"}
  BY ExistingStages DEF InHand
<1>6. Lifecycle!OthersStay
  BY <1>4, <1>5 DEF Lifecycle!OthersStay
<1> QED BY <1>1, <1>2, <1>3, <1>6 DEF InHand

LEMMA AnswerStep ==
  ASSUME InHand, NEW k, Rests(state, k, handler.task), Bears(k, state'),
         k.st[handler.task] # "Done", state.st[handler.task] = "Running",
         handler'.task = handler.task
  PROVE  Lifecycle!Next
<1>1. /\ Lifecycle!Births /\ Lifecycle!OthersStay
      /\ state'.st[handler.task] = k.st[handler.task]
  BY OthersStayIf
<1>2. Stage(state.st[handler.task]) = "working"
  BY DEF Stage
<1>3. Stage(state'.st[handler.task]) \in {"answered", "ready", "waiting", "stopped"}
  BY <1>1, StagesOf DEF Rests, InHand
<1>4. handler.task # NoTask
  BY DEF InHand, Tasks, NoTask
<1>5. Lifecycle!Answer
  BY <1>1, <1>2, <1>3, <1>4 DEF Lifecycle!Answer, InHand
<1> QED BY <1>5 DEF Lifecycle!Next

LEMMA ReportStep ==
  ASSUME InHand, NEW k, Rests(state, k, handler.task), Bears(k, state'),
         k.st[handler.task] # "NeedsValidation", state.st[handler.task] # "Running",
         handler'.task = NoTask
  PROVE  Lifecycle!Next
<1>1. /\ Lifecycle!Births /\ Lifecycle!OthersStay
      /\ state'.st[handler.task] = k.st[handler.task]
  BY OthersStayIf
<1>2. Stage(state.st[handler.task]) # "working"
  BY StagesOf DEF InHand
<1>3. Stage(state'.st[handler.task]) \in {"done", "ready", "waiting", "stopped"}
  BY <1>1, StagesOf DEF Rests, InHand
<1>4. handler.task # NoTask
  BY DEF InHand, Tasks, NoTask
<1>5. Lifecycle!Report
  BY <1>1, <1>2, <1>3, <1>4 DEF Lifecycle!Report, InHand
<1> QED BY <1>5 DEF Lifecycle!Next

LEMMA CancelStep ==
  ASSUME state \in GoalStates, handler.task = NoTask, handler'.task = NoTask,
         state.status # "Cancelled", state'.status = "Cancelled",
         state'.deps = state.deps,
         state'.st = Put(state.st, OpenTasks(state), "Cancelled")
  PROVE  Lifecycle!Next
<1>1. ASSUME NEW t \in Tasks
      PROVE  Stage(state'.st[t]) =
                IF Stage(state.st[t]) \in {"done", "cancelled"} \cup {"unborn"}
                THEN Stage(state.st[t]) ELSE "cancelled"
  <2>1. state'.st[t] = IF Open(state, t) THEN "Cancelled" ELSE state.st[t]
    BY DEF Put, OpenTasks
  <2>2. Open(state, t) <=> Stage(state.st[t]) \notin {"done", "cancelled"} \cup {"unborn"}
    BY StagesOf DEF Open, Terminal
  <2>3. Stage("Cancelled") = "cancelled"
    BY DEF Stage
  <2> QED BY <2>1, <2>2, <2>3
<1>2. Lifecycle!Cancel
  BY <1>1 DEF Lifecycle!Cancel, Lifecycle!Ended
<1> QED BY <1>2 DEF Lifecycle!Next

LEMMA LetGoStep ==
  ASSUME state' = state, handler.task # NoTask, handler'.task = NoTask
  PROVE  Lifecycle!Next
<1>1. Lifecycle!LetGo
  BY DEF Lifecycle!LetGo
<1> QED BY <1>1 DEF Lifecycle!Next

LEMMA IdleStep ==
  ASSUME state' = state, handler'.task = handler.task
  PROVE  UNCHANGED Lifecycle!vars
  BY DEF Lifecycle!vars

LEMMA FrameHands ==
  /\ NoHandler.task = NoTask /\ NoHandler.pc = "idle"
  /\ \A r : DriveFrame(r).task = NoTask /\ DriveFrame(r).pc = "drive"
  BY DEF NoHandler, DriveFrame

\* What every step has to show.
LifeStep == HandInv' /\ [Lifecycle!Next]_(Lifecycle!vars)

LEMMA NoHandLife ==
  ASSUME handler' = NoHandler \/ \E r : handler' = DriveFrame(r)
  PROVE  HandInv' /\ handler'.task = NoTask
  BY FrameHands DEF HandInv

LEMMA ControlHandlersLife ==
  ASSUME TypeInv, GatesInv, HandInv, state.status # "Cancelled", ControlHandlers
  PROVE  LifeStep
<1> USE DEF Control, Persist
<1>1. /\ state \in GoalStates /\ GoalInv(state) /\ PoolInv(state) /\ Numbered(state)
      /\ handler.task = NoTask /\ state' \in GoalStates
  <2>1. handler.pc = "idle"
    BY DEF ControlHandlers, Run, CancelGoal, Steer, Approve, Restart,
       ResumeDelayedThunk, CreateDelayedThunk, AcceptsControl, Idle
  <2> QED
    BY <2>1, ControlHandlersType DEF TypeInv, TypeOK, GatesInv, GoalInv, PoolInv,
       Numbered, HandInv
<1>2. HandInv' /\ handler'.task = NoTask
  BY NoHandLife DEF ControlHandlers, Run, CancelGoal, Steer, Approve, Restart,
     ResumeDelayedThunk, CreateDelayedThunk, Project, Return
<1>3. ASSUME Moved(state, state', Tasks) \/ Bears(state, state'), Follows(state, state')
      PROVE  LifeStep
  <2>1. Free
    BY <1>1, <1>2, <1>3 DEF Free, Follows
  <2> QED BY <1>2, <1>3, <2>1, ArrangeStep DEF LifeStep
<1>4. CASE Run
  BY <1>1, <1>2, <1>4, IdleStep DEF Run, LifeStep
<1>5. ASSUME /\ state'.status = "Cancelled" /\ state'.deps = state.deps
             /\ state'.st = Put(state.st, OpenTasks(state), "Cancelled")
      PROVE  LifeStep
  BY <1>1, <1>2, <1>5, CancelStep DEF LifeStep
<1>6. /\ Cancel(state).status = "Cancelled" /\ Cancel(state).deps = state.deps
      /\ Cancel(state).st = Put(state.st, OpenTasks(state), "Cancelled")
  BY <1>1 DEF Cancel, GoalStates
<1>7. CASE CancelGoal
  BY <1>5, <1>6, <1>7 DEF CancelGoal
<1>8. CASE Steer
  <2>1. PICK d \in Directives :
          /\ state' = ApplySteering(state, d)
          /\ d.kind = "standard_review" => state.st[d.target] # "Unborn"
    BY <1>8 DEF Steer
  <2>2. d \in Directive
    BY WorkflowConstantsOK
  <2>3. CASE d.kind = "cancel"
    <3>1. ApplySteering(state, d) = [Cancel(state) EXCEPT !.steers = @ + 1]
      BY <2>3 DEF ApplySteering
    <3>2. Cancel(state) \in GoalStates
      BY <1>1, CancelType
    <3>3. /\ state'.status = "Cancelled" /\ state'.deps = state.deps
          /\ state'.st = Put(state.st, OpenTasks(state), "Cancelled")
      BY <1>6, <2>1, <3>1, <3>2 DEF GoalStates
    <3> QED BY <1>5, <3>3
  <2>4. CASE d.kind # "cancel"
    BY <1>1, <1>3, <2>1, <2>2, <2>4, ApplySteeringMoves, ApplySteeringType
  <2> QED BY <2>3, <2>4
<1>9. CASE Approve
  <2>1. PICK a \in state.approvals, approved \in BOOLEAN :
          a.status = "Pending" /\ state' = ApplyHumanApproval(state, a, approved)
    BY <1>9 DEF Approve
  <2> QED BY <1>1, <1>3, <2>1, ApplyHumanApprovalMoved, ApplyHumanApprovalType
<1>10. CASE Restart
  <2>1. PICK scope \in Scopes, t \in Tasks, reset \in BOOLEAN :
          state.st[t] # "Unborn" /\ state' = ApplyRestart(state, scope, t, reset)
    BY <1>10 DEF Restart
  <2>2. \A u \in RestartTargets(state, scope, t) \cap Tasks : state.st[u] # "Unborn"
    BY <1>1, <2>1, RestartTargetsExist
  <2>3. Moved(state, state', RestartTargets(state, scope, t))
    BY <1>1, <2>1, <2>2, ApplyRestartMoved
  <2>4. Moved(state, state', Tasks)
    BY <2>3 DEF Moved
  <2> QED BY <1>1, <1>3, <2>1, <2>4, ApplyRestartType
<1>11. CASE ResumeDelayedThunk
  <2>1. PICK w \in state.thunks : state' = ResumeThunk(state, w)
    BY <1>11 DEF ResumeDelayedThunk
  <2> QED BY <1>1, <1>3, <2>1, ResumeThunkMoved, ResumeThunkType
<1>12. CASE CreateDelayedThunk
  <2>1. PICK t \in Tasks \cup {NoTask}, kind \in {"approval", "input"},
             cont \in Tasks \cup {NoTask} :
          /\ CreateThunkOk(state, t, cont)
          /\ state' = CreateThunk(state, t, kind, cont)
    BY <1>12 DEF CreateDelayedThunk
  <2>2. t # NoTask /\ Waits(state, cont) = {} => Open(state, t)
    BY <2>1 DEF CreateThunkOk
  <2>3. Moved(state, state', {t})
    BY <1>1, <2>1, <2>2, CreateThunkMoved
  <2>4. Moved(state, state', Tasks)
    BY <2>3 DEF Moved
  <2> QED BY <1>1, <1>3, <2>1, <2>4, CreateThunkType
<1> QED
  BY <1>4, <1>7, <1>8, <1>9, <1>10, <1>11, <1>12 DEF ControlHandlers

LEMMA DriveStepLife ==
  ASSUME TypeInv, GatesInv, ViewInv, HandInv, state.status # "Cancelled", DriveStep
  PROVE  LifeStep
<1>1. /\ state \in GoalStates /\ handler \in Handlers /\ FrameOK
      /\ PoolInv(state) /\ Numbered(state) /\ RoundInv /\ LeftInv
      /\ state' \in GoalStates /\ state'.status # "Cancelled"
  BY DriveStepType DEF TypeInv, TypeOK, GatesInv, GoalInv, ViewInv, Follows, PoolInv,
     Numbered
<1>2. ASSUME state' = state, handler.task = NoTask,
             handler' = NoHandler \/ \E r : handler' = DriveFrame(r)
      PROVE  LifeStep
  BY <1>2, NoHandLife, IdleStep DEF LifeStep
<1>3. ASSUME Moved(state, state', Tasks) \/ Bears(state, state'), handler.task = NoTask,
             handler' = NoHandler \/ \E r : handler' = DriveFrame(r)
      PROVE  LifeStep
  <2>1. Free
    BY <1>1, <1>3, NoHandLife DEF Free
  <2> QED BY <1>3, <2>1, NoHandLife, ArrangeStep DEF LifeStep
<1>4. ASSUME state' = state, handler.task # NoTask, handler' = NoHandler
      PROVE  LifeStep
  BY <1>4, NoHandLife, LetGoStep DEF LifeStep
<1>5. handler.pc \in {"drive", "tasks"} => handler.task = NoTask
  BY DEF HandInv
<1>6. ASSUME handler.pc \in {"running", "validating"}
      PROVE  handler.task \in Tasks /\ handler.task # NoTask
  BY <1>1, <1>6 DEF FrameOK, Tasks, NoTask
<1>7. CASE DriveStops
  BY <1>2, <1>5, <1>7 DEF DriveStops, AtRound, Persist, Return
<1>8. CASE BudgetExhausted
  <2> DEFINE st == Put(state.st, OpenTasks(state), "Blocked")
  <2>1. /\ state' = [state EXCEPT !.status = "Blocked", !.st = st]
        /\ handler' = NoHandler /\ handler.task = NoTask
    BY <1>5, <1>8 DEF BudgetExhausted, AtRound, Persist, Return
  <2>2. \A t \in Tasks : st[t] = IF Open(state, t) THEN "Blocked" ELSE state.st[t]
    BY DEF Put, OpenTasks
  <2> HIDE DEF st
  <2>3. state'.st = st /\ state'.deps = state.deps
    BY <1>1, <2>1 DEF GoalStates
  <2>4. Moved(state, state', Tasks)
    BY <2>2, <2>3 DEF Moved, Open
  <2> QED BY <1>3, <2>1, <2>4
<1>9. CASE SnapshotFrontier
  <2>1. state' = state /\ handler'.pc = "tasks" /\ handler'.task = handler.task
        /\ handler.task = NoTask
    BY <1>1, <1>5, <1>9 DEF SnapshotFrontier, Working, AtRound, Handlers
  <2> QED BY <2>1, IdleStep DEF HandInv, LifeStep
<1>10. CASE ExtendFrontier
  <2> DEFINE r == EnsureReviewFrontier(state)
             idle == FrontierIdleStatus(r.state)
             h == [r.state EXCEPT !.status = idle]
  <2>1. /\ handler.task = NoTask
        /\ \/ state' = state /\ handler' = NoHandler
           \/ state' = r.state /\ handler' = DriveFrame(handler.round + 1)
           \/ r.ok /\ state' = h /\ handler' = NoHandler
    BY <1>5, <1>10 DEF ExtendFrontier, Working, AtRound, Persist, Return
  <2>2. Bears(state, r.state)
    BY <1>1, EnsureReviewFrontierBears
  <2>3. Same(r.state, h)
    <3> HIDE DEF r, idle
    <3> QED BY DEF Same
  <2>4. Bears(state, h)
    <3> HIDE DEF r, h
    <3> QED BY <2>2, <2>3, SameBears
  <2> HIDE DEF r, h
  <2> QED BY <1>2, <1>3, <2>1, <2>2, <2>4
<1>11. CASE FrontierLimit
  <2>1. /\ state' = [state EXCEPT !.status = "Blocked"]
        /\ handler' = NoHandler /\ handler.task = NoTask
    BY <1>5, <1>11 DEF FrontierLimit, AtRound, Persist, Return
  <2>2. Moved(state, state', Tasks)
    BY <1>1, <2>1 DEF Moved, GoalStates
  <2> QED BY <1>3, <2>1, <2>2
<1>12. CASE EndRound
  BY <1>2, <1>5, <1>12 DEF EndRound, InRound
<1>13. CASE DispatchTask
  <2>1. PICK t \in handler.left :
        \/ Persist(state) /\ Return
        \/ ~DispatchDenied(t) /\ Persist(RequestApproval(state, t)) /\ Return
        \/ /\ Persist(MarkRunning(state, t))
           /\ Project([handler EXCEPT !.pc = "running", !.task = t, !.left = @ \ {t}])
    BY <1>13 DEF DispatchTask
  <2>2. /\ handler.pc = "tasks" /\ handler.task = NoTask /\ t \in Tasks
        /\ state.st[t] = "Runnable" /\ \A d \in state.deps[t] : state.st[d] = "Done"
    BY <1>1, <1>5, <1>13 DEF DispatchTask, InRound, Handlers, LeftInv, RoundInv
  <2>3. CASE Persist(state) /\ Return
    BY <1>2, <2>2, <2>3 DEF Persist, Return
  <2>4. CASE ~DispatchDenied(t) /\ Persist(RequestApproval(state, t)) /\ Return
    <3>1. Moved(state, state', Tasks)
      BY <1>1, <2>2, <2>4, RequestApprovalMoved DEF DispatchDenied, Persist
    <3> QED BY <1>3, <2>2, <2>4, <3>1 DEF Return
  <2>5. CASE /\ Persist(MarkRunning(state, t))
             /\ Project([handler EXCEPT !.pc = "running", !.task = t, !.left = @ \ {t}])
    <3>1. /\ state'.st = [state.st EXCEPT ![t] = "Running"] /\ state'.deps = state.deps
      BY <1>1, <2>5 DEF Persist, MarkRunning, GoalStates
    <3>2. \/ handler' = NoHandler
          \/ handler'.pc = "running" /\ handler'.task = t
      BY <1>1, <2>5 DEF Project, Return, Handlers
    <3>3. HandInv' /\ handler'.task \in {t, NoTask}
      BY <3>2, FrameHands DEF HandInv
    <3> QED BY <1>1, <2>2, <3>1, <3>3, TakeStep DEF LifeStep
  <2> QED BY <2>1, <2>3, <2>4, <2>5
<1>14. CASE WorkerAnswers
  <2> DEFINE t == handler.task
  <2>1. PICK o \in Outcomes :
        /\ handler.pc = "running"
        /\ \/ Persist(state) /\ Return
           \/ /\ ApplyAgentResultOk(state, t, o)
              /\ Persist(ApplyAgentResult(state, t, o))
              /\ handler' = [handler EXCEPT !.pc = "validating", !.answer = o]
    BY <1>14 DEF WorkerAnswers
  <2>2. t \in Tasks /\ t # NoTask /\ state.st[t] = "Running" /\ Open(state, t)
    BY <1>1, <1>6, <2>1 DEF RoundInv, Open, Terminal
  <2>3. CASE Persist(state) /\ Return
    BY <1>4, <2>2, <2>3 DEF Persist, Return
  <2>4. CASE /\ Persist(ApplyAgentResult(state, t, o))
             /\ handler' = [handler EXCEPT !.pc = "validating", !.answer = o]
    <3>1. o \in Outcome
      BY WorkflowConstantsOK
    <3>2. PICK k : /\ Rests(state, k, t) /\ k.st[t] # "Done" /\ Bears(k, state')
      BY <1>1, <2>2, <2>4, <3>1, ApplyAgentResultRests DEF Persist
    <3>3. handler'.pc = "validating" /\ handler'.task = t
      BY <1>1, <2>4 DEF Handlers
    <3>4. InHand
      BY <1>1, <2>2 DEF InHand
    <3>5. state'.st[t] \notin {"Running", "Unborn"}
      BY <2>2, <3>2 DEF Rests, Bears
    <3>6. HandInv'
      BY <3>3, <3>5 DEF HandInv
    <3>7. Lifecycle!Next
      BY <2>2, <3>2, <3>3, <3>4, AnswerStep
    <3> QED BY <3>6, <3>7 DEF LifeStep
  <2> QED BY <2>1, <2>3, <2>4
<1>15. CASE ApplyReport
  <2> DEFINE t == handler.task
             o == handler.answer
             g1 == ApplyValidation(state, t, o)
             g2 == IF o.status = "TimedOut" THEN RecordTimeout(g1, t) ELSE g1
             frame == [handler EXCEPT !.pc = "tasks", !.task = NoTask,
                                      !.answer = NoAnswer]
  <2>1. handler.pc = "validating"
    BY <1>15 DEF ApplyReport
  <2>2. \/ Persist(state) /\ Return
        \/ Persist(EnsureReviewFrontier(g2).state) /\ Project(frame)
    BY <1>15 DEF ApplyReport
  <2>3. /\ t \in Tasks /\ t # NoTask /\ o \in Outcome
        /\ state.st[t] \notin {"Running", "Unborn"}
    BY <1>1, <1>6, <2>1, WorkflowConstantsOK DEF FrameOK, HandInv
  <2>4. CASE Persist(state) /\ Return
    BY <1>4, <2>3, <2>4 DEF Persist, Return
  <2>5. CASE Persist(EnsureReviewFrontier(g2).state) /\ Project(frame)
    <3>1. Rests(state, g1, t) /\ g1.st[t] # "NeedsValidation"
      BY <1>1, <2>3, ApplyValidationRests
    <3> HIDE DEF g1
    <3>2. g1 \in GoalStates /\ g1.st[t] # "Unborn"
      BY <3>1 DEF Rests
    <3>3. Rests(g1, RecordTimeout(g1, t), t)
          /\ RecordTimeout(g1, t).st[t] # "NeedsValidation"
      BY <2>3, <3>2, RecordTimeoutRests
    <3>4. Rests(state, g2, t) /\ g2.st[t] # "NeedsValidation"
      BY <3>1, <3>3 DEF Rests
    <3> HIDE DEF g2
    <3>5. g2 \in GoalStates /\ Numbered(g2)
      BY <1>1, <2>3, <3>4, RestsNumbered DEF Rests
    <3>6. Bears(g2, state')
      BY <2>5, <3>5, EnsureReviewFrontierBears DEF Persist
    <3>7. \/ handler' = NoHandler
          \/ handler'.pc = "tasks" /\ handler'.task = NoTask
      <4>1. frame.pc = "tasks" /\ frame.task = NoTask
        BY <1>1 DEF Handlers
      <4> HIDE DEF frame
      <4> QED BY <2>5, <4>1 DEF Project, Return
    <3>8. HandInv' /\ handler'.task = NoTask
      BY <3>7, FrameHands DEF HandInv
    <3>9. InHand
      BY <1>1, <2>3 DEF InHand
    <3>10. Lifecycle!Next
      BY <2>3, <3>4, <3>6, <3>8, <3>9, ReportStep
    <3> QED BY <3>8, <3>10 DEF LifeStep
  <2> QED BY <2>2, <2>4, <2>5
<1> QED
  BY <1>7, <1>8, <1>9, <1>10, <1>11, <1>12, <1>13, <1>14, <1>15 DEF DriveStep

LEMMA LifeStepNext ==
  ASSUME MaxRounds > 0, TypeInv, CancelInv, GatesInv, ViewInv, HandInv, [Next]_vars
  PROVE  LifeStep
<1>1. CASE UNCHANGED vars
  BY <1>1, IdleStep DEF vars, HandInv, LifeStep
<1>2. CASE state.status = "Cancelled" /\ Next
  \* A cancelled goal has no frame inside a round.
  <2>1. state' = state /\ CancelInv'
    BY <1>2, CancelInvNext
  <2>2. handler.pc \in {"idle", "drive"} /\ handler'.pc \in {"idle", "drive"}
    BY <1>2, <2>1 DEF CancelInv
  <2>3. handler.task = NoTask
    BY <2>2 DEF HandInv
  <2>4. handler'.task = NoTask
    <3>1. /\ handler.round = 0 /\ handler.round < MaxRounds
          /\ handler.round # MaxRounds /\ Stops
      BY <1>2, WorkflowConstantsOK DEF CancelInv, Stops
    <3>2. Run \/ DriveStops \/ UNCHANGED vars
      BY <1>2, <2>2, <3>1 DEF Next, ControlHandlers, CancelGoal, Steer, Approve,
         Restart, ResumeDelayedThunk, CreateDelayedThunk, AcceptsControl, DriveStep,
         BudgetExhausted, SnapshotFrontier, ExtendFrontier, FrontierLimit, EndRound,
         DispatchTask, WorkerAnswers, ApplyReport, Working, AtRound, InRound, Quiescent
    <3> QED
      BY <2>3, <3>2, FrameHands DEF Run, Control, Project, DriveStops, Return, vars
  <2> QED BY <2>1, <2>2, <2>3, <2>4, IdleStep DEF HandInv, LifeStep
<1>3. CASE state.status # "Cancelled" /\ ControlHandlers
  BY <1>3, ControlHandlersLife
<1>4. CASE state.status # "Cancelled" /\ DriveStep
  BY <1>4, DriveStepLife
<1> QED BY <1>1, <1>2, <1>3, <1>4 DEF Next, Quiescent

LEMMA LifeInit == Init => HandInv /\ Lifecycle!Init
<1> SUFFICES ASSUME Init PROVE HandInv /\ Lifecycle!Init
  OBVIOUS
<1>1. PICK budget \in Budget : state = NewGoal(budget)
  BY DEF Init
<1>2. handler.task = NoTask /\ handler.pc \in {"idle", "drive"}
  BY FrameHands DEF Init
<1>3. /\ state.status = "Running" /\ state.deps = [t \in Tasks |-> {}]
      /\ \A t \in Tasks : state.st[t] = IF t = Root THEN "Runnable" ELSE "Unborn"
  BY <1>1 DEF NewGoal, Put
<1>4. Stage("Runnable") = "ready" /\ Stage("Unborn") = "unborn"
  BY DEF Stage
<1>5. [t \in Tasks |-> Stage(state.st[t])]
        = [t \in Tasks |-> IF t = Root THEN "ready" ELSE "unborn"]
  BY <1>3, <1>4
<1>6. Lifecycle!Init
  BY <1>2, <1>3, <1>5, RootIsTask DEF Lifecycle!Init
<1> QED BY <1>2, <1>6 DEF HandInv

\* Whatever the operator, the workers and the faults do, the tasks of a goal
\* live as GoalLifecycle says: drive_state's round works from a stale snapshot,
\* answers, reports, timeouts and restarts may be lost or refused between two
\* ctx.set, and still attempts are made one at a time on tasks whose
\* dependencies are done, only the report on the attempt in hand finishes a
\* task, and a cancelled goal is closed for good.
THEOREM LifecycleHolds ==
  ASSUME MaxRounds > 0
  PROVE  Spec => LifecycleKept
<1>1. TypeInv /\ CancelInv /\ GatesInv /\ ViewInv /\ HandInv /\ [Next]_vars
        => HandInv' /\ [Lifecycle!Next]_(Lifecycle!vars)
  BY LifeStepNext DEF LifeStep
<1>2. TypeInv /\ [Next]_vars => TypeInv'
  BY TypeInvNext
<1>3. TypeInv /\ CancelInv /\ [Next]_vars => CancelInv'
  BY CancelInvNext
<1>4. Init => HandInv /\ Lifecycle!Init
  BY LifeInit
<1> QED
  BY TypeInvInit, CancelInvInit, GatesInvAlways, ViewInvAlways, <1>1, <1>2, <1>3, <1>4,
     PTL DEF Spec, LifecycleKept, Lifecycle!Spec
=============================================================================
