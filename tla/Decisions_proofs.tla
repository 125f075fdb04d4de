---------------------------- MODULE Decisions_proofs ----------------------------
(***************************************************************************)
(* Theorems about how choices are made, for every value of the constants:  *)
(* the operator's console (Console), mechanism rounds (Deliberation),      *)
(* branch competition (Branches), a pool that follows its plan             *)
(* (RunnerPool), the verdict on a scenario (ScenarioRunner) and the        *)
(* verdict on a result (Verdicts).                                         *)
(* The scores and confidences that decide are sums over                    *)
(* finite sets of votes; that they are numbers, and that a finite choice   *)
(* has a best candidate, follows by induction over a set of cardinalities  *)
(* (NatSetInduction).                                                      *)
(***************************************************************************)
EXTENDS Branches, Deliberation, RunnerPool, Console, ScenarioRunner, Verdicts,
        FiniteSetTheorems, WellFoundedInduction, TLAPS
-----------------------------------------------------------------------------
(* Induction and sums *)

LEMMA NatSetInduction ==
  ASSUME NEW S, 0 \in S, \A n \in Nat : n \in S => n + 1 \in S
  PROVE  Nat \subseteq S
<1> DEFINE R == OpToRel(<, Nat)
           T == Nat \ S
<1>1. IsWellFoundedOn(R, Nat)
  BY NatLessThanWellFounded
<1> SUFFICES ASSUME T # {} PROVE FALSE
  OBVIOUS
<1>2. PICK x \in T : \A y \in T : ~(<<y, x>> \in R)
  <2> HIDE DEF R, T
  <2>1. T \subseteq Nat
     BY DEF T
  <2> QED BY <1>1, <2>1, WFMin
<1>3. x # 0 /\ x - 1 \in Nat /\ x - 1 < x
  OBVIOUS
<1>4. <<x - 1, x>> \in R
  BY <1>3 DEF OpToRel
<1>5. x - 1 \in S
  BY <1>2, <1>3, <1>4
<1> QED BY <1>3, <1>5

(* Sums over finite sets. *)

AnyOf(s) == CHOOSE x \in s : TRUE

\* f adds up the weights w of each set in D, taking the elements out one by one.
SumsOver(f, D, w) ==
    f = [s \in D |-> IF s = {} THEN 0 ELSE f[s \ {AnyOf(s)}] + w[AnyOf(s)]]

UpTo(S, n) == {s \in SUBSET S : Cardinality(s) <= n}

LEMMA SmallerBit ==
  ASSUME NEW S, IsFiniteSet(S), NEW n \in Nat, NEW s \in UpTo(S, n + 1), s # {}
  PROVE  AnyOf(s) \in s /\ s \ {AnyOf(s)} \in UpTo(S, n)
<1>1. AnyOf(s) \in s
  BY DEF AnyOf
<1>2. IsFiniteSet(s) /\ s \in SUBSET S /\ Cardinality(s) <= n + 1
  BY FS_Subset DEF UpTo
<1>3. Cardinality(s \ {AnyOf(s)}) = Cardinality(s) - 1
  BY <1>1, <1>2, FS_RemoveElement
<1>4. Cardinality(s) \in Nat
  BY <1>2, FS_CardinalityType
<1> QED BY <1>1, <1>2, <1>3, <1>4 DEF UpTo

LEMMA SumsExist ==
  ASSUME NEW S, IsFiniteSet(S), NEW w, \A x \in S : w[x] \in Int
  PROVE  \E f \in [SUBSET S -> Int] : SumsOver(f, SUBSET S, w)
<1> DEFINE Ks == {n \in Nat : \E f \in [UpTo(S, n) -> Int] : SumsOver(f, UpTo(S, n), w)}
<1>1. 0 \in Ks
  <2> DEFINE f == [s \in UpTo(S, 0) |-> 0]
  <2>1. \A s \in UpTo(S, 0) : s = {}
    <3> TAKE s \in UpTo(S, 0)
    <3>1. IsFiniteSet(s) /\ Cardinality(s) <= 0
      BY FS_Subset DEF UpTo
    <3>2. Cardinality(s) = 0
      BY <3>1, FS_CardinalityType
    <3> QED BY <3>1, <3>2, FS_EmptySet
  <2>2. f \in [UpTo(S, 0) -> Int] /\ SumsOver(f, UpTo(S, 0), w)
    BY <2>1 DEF SumsOver
  <2> QED BY <2>2
<1>2. ASSUME NEW n \in Nat, n \in Ks PROVE n + 1 \in Ks
  <2>1. PICK f \in [UpTo(S, n) -> Int] : SumsOver(f, UpTo(S, n), w)
    BY <1>2
  <2> DEFINE g == [s \in UpTo(S, n + 1) |-> IF s = {} THEN 0 ELSE f[s \ {AnyOf(s)}] + w[AnyOf(s)]]
  <2>2. \A s \in UpTo(S, n) : s \in UpTo(S, n + 1)
    <3> TAKE s \in UpTo(S, n)
    <3>1. IsFiniteSet(s)
      BY FS_Subset DEF UpTo
    <3>2. Cardinality(s) \in Nat
      BY <3>1, FS_CardinalityType
    <3> QED BY <3>2 DEF UpTo
  <2>3. \A s \in UpTo(S, n) : g[s] = f[s]
    BY <2>1, <2>2 DEF SumsOver
  <2>4. \A s \in UpTo(S, n + 1) :
            s # {} => /\ s \ {AnyOf(s)} \in UpTo(S, n) /\ w[AnyOf(s)] \in Int
    <3> TAKE s \in UpTo(S, n + 1)
    <3> HAVE s # {}
    <3>1. AnyOf(s) \in s /\ s \ {AnyOf(s)} \in UpTo(S, n)
      BY SmallerBit
    <3> QED BY <3>1 DEF UpTo
  <2>5. g \in [UpTo(S, n + 1) -> Int]
    BY <2>1, <2>4
  <2>6. g = [s \in UpTo(S, n + 1) |-> IF s = {} THEN 0 ELSE g[s \ {AnyOf(s)}] + w[AnyOf(s)]]
    <3> HIDE DEF g
    <3>1. \A s \in UpTo(S, n + 1) : s # {} => g[s \ {AnyOf(s)}] = f[s \ {AnyOf(s)}]
      BY <2>3, <2>4
    <3> QED BY <3>1 DEF g
  <2>7. SumsOver(g, UpTo(S, n + 1), w)
    <3> HIDE DEF g
    <3> QED BY <2>6 DEF SumsOver
  <2> HIDE DEF g
  <2> QED BY <2>5, <2>7
<1>3. Nat \subseteq Ks
  <2> HIDE DEF Ks
  <2> QED BY <1>1, <1>2, NatSetInduction
<1>4. Cardinality(S) \in Nat
  BY FS_CardinalityType
<1>5. UpTo(S, Cardinality(S)) = SUBSET S
  BY FS_Subset DEF UpTo
<1>6. PICK f \in [UpTo(S, Cardinality(S)) -> Int] : SumsOver(f, UpTo(S, Cardinality(S)), w)
  BY <1>3, <1>4
<1> QED BY <1>5, <1>6

\* Any solution of the sum's equation is that sum.
LEMMA SumsAreNumbers ==
  ASSUME NEW S, IsFiniteSet(S), NEW w, \A x \in S : w[x] \in Int,
         NEW f, SumsOver(f, SUBSET S, w)
  PROVE  \A s \in SUBSET S : f[s] \in Int
<1> DEFINE Ks == {n \in Nat : \A s \in UpTo(S, n) : f[s] \in Int}
<1>1. 0 \in Ks
  <2>1. \A s \in UpTo(S, 0) : f[s] = 0
    <3> TAKE s \in UpTo(S, 0)
    <3>1. IsFiniteSet(s) /\ Cardinality(s) <= 0 /\ s \in SUBSET S
      BY FS_Subset DEF UpTo
    <3>2. Cardinality(s) = 0
      BY <3>1, FS_CardinalityType
    <3>3. s = {}
      BY <3>1, <3>2, FS_EmptySet
    <3> QED BY <3>1, <3>3 DEF SumsOver
  <2> QED BY <2>1
<1>2. ASSUME NEW n \in Nat, n \in Ks PROVE n + 1 \in Ks
  <2>1. ASSUME NEW s \in UpTo(S, n + 1) PROVE f[s] \in Int
    <3>1. s \in SUBSET S
      BY DEF UpTo
    <3>2. CASE s = {}
      BY <3>1, <3>2 DEF SumsOver
    <3>3. CASE s # {}
      <4>1. AnyOf(s) \in s /\ s \ {AnyOf(s)} \in UpTo(S, n)
        BY <3>3, SmallerBit
      <4>2. f[s \ {AnyOf(s)}] \in Int /\ w[AnyOf(s)] \in Int
        BY <1>2, <3>1, <4>1
      <4>3. f[s] = f[s \ {AnyOf(s)}] + w[AnyOf(s)]
        BY <3>1, <3>3 DEF SumsOver
      <4> QED BY <4>2, <4>3
    <3> QED BY <3>2, <3>3
  <2> QED BY <2>1
<1>3. Nat \subseteq Ks
  <2> HIDE DEF Ks
  <2> QED BY <1>1, <1>2, NatSetInduction
<1>4. Cardinality(S) \in Nat
  BY FS_CardinalityType
<1>5. UpTo(S, Cardinality(S)) = SUBSET S
  BY FS_Subset DEF UpTo
<1> QED BY <1>3, <1>4, <1>5

LEMMA ConfidenceType ==
  ASSUME NEW votes, IsFiniteSet(votes), \A v \in votes : v.confidence \in Int
  PROVE  Confidence(votes) \in Int
<1> DEFINE w == [v \in votes |-> v.confidence]
           Solves(f) == f = [s \in SUBSET votes |->
                                IF s = {} THEN 0
                                ELSE f[s \ {CHOOSE x \in s : TRUE}]
                                        + (CHOOSE x \in s : TRUE).confidence]
           g == CHOOSE f : Solves(f)
<1>1. \A f : Solves(f) <=> SumsOver(f, SUBSET votes, w)
  <2> TAKE f
  <2>1. \A s \in SUBSET votes : s # {} => w[AnyOf(s)] = (CHOOSE x \in s : TRUE).confidence
    BY DEF AnyOf
  <2> HIDE DEF w
  <2> QED BY <2>1 DEF SumsOver, AnyOf
<1>2. \A x \in votes : w[x] \in Int
  OBVIOUS
<1>3. \E f : Solves(f)
  <2> HIDE DEF w, Solves
  <2> QED BY <1>1, <1>2, SumsExist
<1>4. Solves(g)
  <2> HIDE DEF Solves
  <2> QED BY <1>3
<1>5. Confidence(votes) = g[votes]
  BY DEF Confidence, FoldSet, MapThenFoldSet
<1>6. g[votes] \in Int
  <2> HIDE DEF w, Solves, g
  <2> QED BY <1>1, <1>2, <1>4, SumsAreNumbers
<1> QED BY <1>5, <1>6

\* A total preorder on a finite set has a top element.
LEMMA TopExists ==
  ASSUME NEW S, IsFiniteSet(S), S # {}, NEW R,
         \A x, y \in S : <<x, y>> \in R \/ <<y, x>> \in R,
         \A x, y, z \in S : <<x, y>> \in R /\ <<y, z>> \in R => <<x, z>> \in R
  PROVE  \E m \in S : \A x \in S : <<m, x>> \in R
<1> DEFINE Topped(s) == s # {} => \E m \in s : \A x \in s : <<m, x>> \in R
           Ks == {n \in Nat : \A s \in UpTo(S, n) : Topped(s)}
<1>1. 0 \in Ks
  <2>1. \A s \in UpTo(S, 0) : s = {}
    <3> TAKE s \in UpTo(S, 0)
    <3>1. IsFiniteSet(s) /\ Cardinality(s) <= 0
      BY FS_Subset DEF UpTo
    <3>2. Cardinality(s) = 0
      BY <3>1, FS_CardinalityType
    <3> QED BY <3>1, <3>2, FS_EmptySet
  <2> QED BY <2>1
<1>2. ASSUME NEW n \in Nat, n \in Ks PROVE n + 1 \in Ks
  <2>1. ASSUME NEW s \in UpTo(S, n + 1), s # {}
        PROVE  \E m \in s : \A x \in s : <<m, x>> \in R
    <3> DEFINE a == AnyOf(s)
               t == s \ {a}
    <3>1. a \in s /\ t \in UpTo(S, n) /\ s \subseteq S
      BY <2>1, SmallerBit DEF UpTo
    <3>2. CASE t = {}
      <4>1. \A x \in s : x = a
        BY <3>2
      <4> HIDE DEF a
      <4> QED BY <3>1, <4>1
    <3>3. CASE t # {}
      <4>1. PICK m \in t : \A x \in t : <<m, x>> \in R
        BY <1>2, <3>1, <3>3
      <4> HIDE DEF a
      <4>2. CASE <<m, a>> \in R
        <5>1. \A x \in s : <<m, x>> \in R
          BY <4>1, <4>2
        <5> QED BY <5>1
      <4>3. CASE <<a, m>> \in R
        <5>1. \A x \in s : <<a, x>> \in R
          <6> TAKE x \in s
          <6>1. CASE x \in t
            BY <3>1, <4>1, <4>3, <6>1
          <6>2. CASE x = a
            BY <3>1, <6>2
          <6> QED BY <6>1, <6>2
        <5> QED BY <3>1, <5>1
      <4> QED BY <3>1, <4>2, <4>3
    <3> QED BY <3>2, <3>3
  <2> QED BY <2>1
<1>3. Nat \subseteq Ks
  <2> HIDE DEF Ks
  <2> QED BY <1>1, <1>2, NatSetInduction
<1>4. Cardinality(S) \in Nat /\ S \in UpTo(S, Cardinality(S))
  BY FS_CardinalityType DEF UpTo
<1> QED BY <1>3, <1>4

LEMMA MaxOfTwo ==
  ASSUME NEW a \in Nat, NEW b \in Nat
  PROVE  /\ Max({a, b}) \in Nat /\ (Max({a, b}) = a \/ Max({a, b}) = b)
         /\ Max({a, b}) >= a /\ Max({a, b}) >= b
<1>1. \E x \in {a, b} : \A y \in {a, b} : x >= y
  <2>1. CASE a >= b
    BY <2>1
  <2>2. CASE b >= a
    BY <2>2
  <2> QED BY <2>1, <2>2
<1>2. Max({a, b}) \in {a, b} /\ \A y \in {a, b} : Max({a, b}) >= y
  BY <1>1 DEF Max
<1> QED BY <1>2

-----------------------------------------------------------------------------
(* The console. *)

AppFields == {"plan", "goal", "plans", "goals", "queue", "own", "snapshot", "draft", "armed",
              "pending", "busy", "input", "focus", "view", "index", "result", "exited"}
AppOk(a) ==
    /\ a = [f \in AppFields |-> a[f]]
    /\ a.armed = [f \in {"goal", "fresh"} |-> a.armed[f]]

\* Only a request under way keeps the selection where it is.
BusyWhilePending == app.pending # NoRequest => app.busy = TRUE

\* The first press is remembered by the App until it counts no more.
ArmedWasMeant == app.armed.fresh => app.armed.goal \in meant

\* A draft is kept for the context its prompt was sent with, and both the
\* prompt and the submission are under way in the context on the screen.
DraftOk(a) == a.draft = NoDraft \/ a.draft.spec.made = a.draft.ctx
RequestOk(a) ==
    /\ a.pending.kind = "chat" => a.pending.ctx = Context(a)
    /\ a.pending.kind = "submit" => a.pending.spec.made = Context(a)

ConsoleInv ==
    /\ AppOk(app) /\ BusyWhilePending /\ ArmedWasMeant
    /\ DraftOk(app) /\ RequestOk(app)

\* What a refresh leaves alone, and what a key that only shows leaves alone.
Refilled(a, b) ==
    AppOk(b) /\ b.draft = a.draft /\ b.armed = a.armed /\ b.pending = a.pending /\ b.busy = a.busy
Stays(a, b) == Refilled(a, b) /\ b.plan = a.plan /\ b.goal = a.goal

LEMMA ReconcileRefills ==
  ASSUME NEW a, AppOk(a)  PROVE Refilled(a, ReconcilePlan(a))
<1>1. PICK p : ReconcilePlan(a) = [a EXCEPT !.plan = p]
  BY DEF ReconcilePlan
<1> QED BY <1>1 DEF Refilled, AppOk, AppFields

LEMMA FetchRefills ==
  ASSUME NEW a, NEW ok, AppOk(a)  PROVE Refilled(a, FetchGoal(a, ok))
BY DEF AppOk, AppFields, Refilled, FetchGoal

LEMMA FetchSelectedRefills ==
  ASSUME NEW a, NEW how, AppOk(a)  PROVE Refilled(a, FetchSelected(a, how))
<1>1. CASE FetchSelected(a, how) = FetchGoal(a, how # "detailFails")
  BY <1>1, FetchRefills
<1>2. CASE FetchSelected(a, how) = [a EXCEPT !.snapshot = TRUE, !.goals = gateway.plan,
                                             !.own = OperatorActions(OpenRows(gateway))]
  BY <1>2 DEF AppOk, AppFields, Refilled
<1> QED BY <1>1, <1>2 DEF FetchSelected

LEMMA RefreshRefills ==
  ASSUME NEW a, NEW how, AppOk(a)  PROVE Refilled(a, Refreshed(a, how))
<1> DEFINE listed == [a EXCEPT !.plans = IF how = "noPlans" THEN {} ELSE PlanIds,
                               !.goals = gateway.plan]
           queued == [ReconcilePlan(listed) EXCEPT !.queue = OperatorActions(OpenRows(gateway))]
           filled == FetchSelected(queued, how)
           placed == [filled EXCEPT !.index = Least(@, LastIndex(filled))]
<1>1. AppOk(listed) /\ Refilled(a, listed)
  BY DEF AppOk, AppFields, Refilled
<1>2. Refilled(a, ReconcilePlan(listed))
  <2> HIDE DEF listed
  <2> QED BY <1>1, ReconcileRefills DEF Refilled
<1>3. AppOk(queued) /\ Refilled(a, queued)
  <2> DEFINE rec == ReconcilePlan(listed)
  <2>1. Refilled(a, rec)
    BY <1>2
  <2>2. PICK q : queued = [rec EXCEPT !.queue = q]
    OBVIOUS
  <2> HIDE DEF rec, queued
  <2> QED BY <2>1, <2>2 DEF AppOk, AppFields, Refilled
<1>4. Refilled(a, filled)
  <2> HIDE DEF queued
  <2> QED BY <1>3, FetchSelectedRefills DEF Refilled
<1>5. AppOk(placed) /\ Refilled(a, placed)
  <2> HIDE DEF filled
  <2> QED BY <1>4 DEF AppOk, AppFields, Refilled
<1>6. Refilled(a, ReconcilePlan(placed))
  <2> HIDE DEF placed
  <2> QED BY <1>5, ReconcileRefills DEF Refilled
<1>7. Refilled(a, a)
  BY DEF Refilled
<1>8. Refreshed(a, how) = IF how = "fails" THEN a ELSE ReconcilePlan(placed)
  BY DEF Refreshed
<1> QED BY <1>6, <1>7, <1>8

-----------------------------------------------------------------------------
(* Steps *)

\* A key that leaves requests and selection alone.
LEMMA StaysSafe ==
  ASSUME ConsoleInv, Stays(app, app'), meant' = meant
  PROVE  ConsoleInv'
BY DEF ConsoleInv, Stays, Refilled, BusyWhilePending, ArmedWasMeant, DraftOk, RequestOk,
       Context, SessionId

\* A selection, which needs that nothing is under way and disarms.
LEMMA MovedSafe ==
  ASSUME ConsoleInv, app.pending = NoRequest,
         AppOk(app'), app'.pending = app.pending, app'.busy = app.busy,
         app'.draft = NoDraft, app'.armed = NotArmed
  PROVE  ConsoleInv'
BY DEF ConsoleInv, BusyWhilePending, ArmedWasMeant, DraftOk, RequestOk, NotArmed, NoRequest

\* A request begins.
LEMMA BeginSafe ==
  ASSUME ConsoleInv, AppOk(app'), app'.busy = TRUE,
         app'.plan = app.plan, app'.goal = app.goal, app'.draft = app.draft,
         app'.armed = NotArmed \/ (app'.armed = app.armed /\ meant' = meant),
         app'.pending.kind = "chat" => app'.pending.ctx = Context(app),
         app'.pending.kind = "submit" => app'.pending.spec.made = Context(app)
  PROVE  ConsoleInv'
BY DEF ConsoleInv, BusyWhilePending, ArmedWasMeant, DraftOk, RequestOk, NotArmed,
       Context, SessionId

\* A request ends: the answer may move the selection and replace the draft.
LEMMA EndSafe ==
  ASSUME ConsoleInv, AppOk(app'), app'.pending = NoRequest, app'.armed = app.armed,
         meant' = meant, DraftOk(app')
  PROVE  ConsoleInv'
BY DEF ConsoleInv, BusyWhilePending, ArmedWasMeant, RequestOk, NoRequest

LEMMA RefreshSafe ==
  ASSUME ConsoleInv, app.pending = NoRequest, NEW how, app' = Refreshed(app, how),
         meant' = meant
  PROVE  ConsoleInv'
<1>1. Refilled(app, app')
  BY RefreshRefills DEF ConsoleInv
<1> QED BY <1>1 DEF ConsoleInv, Refilled, BusyWhilePending, ArmedWasMeant, DraftOk, RequestOk,
       NoRequest

LEMMA NotBusyIsIdle ==
  ASSUME ConsoleInv, ~app.busy  PROVE app.pending = NoRequest
BY DEF ConsoleInv, BusyWhilePending

\* A selection moves only when no request is under way.
LEMMA SelectionMoves ==
  ASSUME ConsoleInv, SelectGoal \/ SelectPlan \/ ClearSelection
  PROVE  /\ app.pending = NoRequest /\ AppOk(app')
         /\ app'.pending = app.pending /\ app'.busy = app.busy
         /\ app'.draft = NoDraft /\ app'.armed = NotArmed
<1>0. AppOk(app)
  BY DEF ConsoleInv
<1>1. CASE SelectGoal
  <2>0. app.pending = NoRequest
    BY <1>1, NotBusyIsIdle DEF SelectGoal, MaySelect
  <2>1. PICK step \in {-1, 1}, ok \in BOOLEAN :
          app' \in ChatReload(FetchGoal(Moved(ReconcilePlan(
                    [app EXCEPT !.goal = AfterStep(DOMAIN app.goals, app.goal, step)])), ok))
    BY <1>1 DEF SelectGoal
  <2> DEFINE stepped == [app EXCEPT !.goal = AfterStep(DOMAIN app.goals, app.goal, step)]
             picked == ReconcilePlan(stepped)
             fetched == FetchGoal(Moved(picked), ok)
  <2>2. AppOk(stepped) /\ stepped.pending = app.pending /\ stepped.busy = app.busy
    BY <1>0 DEF AppOk, AppFields
  <2>3. AppOk(picked) /\ picked.pending = app.pending /\ picked.busy = app.busy
    <3> HIDE DEF stepped
    <3> QED BY <2>2, ReconcileRefills DEF Refilled
  <2>4. /\ AppOk(Moved(picked)) /\ Moved(picked).pending = app.pending
        /\ Moved(picked).busy = app.busy
        /\ Moved(picked).draft = NoDraft /\ Moved(picked).armed = NotArmed
    <3> HIDE DEF picked
    <3> QED BY <2>3 DEF AppOk, AppFields, Moved, NotArmed
  <2>5. /\ AppOk(fetched) /\ fetched.pending = app.pending /\ fetched.busy = app.busy
        /\ fetched.draft = NoDraft /\ fetched.armed = NotArmed
    <3> HIDE DEF picked
    <3> QED BY <2>4, FetchRefills DEF Refilled
  <2>6. app' = fetched \/ app' = [fetched EXCEPT !.exited = TRUE]
    BY <2>1 DEF ChatReload
  <2>7. /\ AppOk(app') /\ app'.pending = app.pending /\ app'.busy = app.busy
        /\ app'.draft = NoDraft /\ app'.armed = NotArmed
    <3> HIDE DEF fetched
    <3> QED BY <2>5, <2>6 DEF AppOk, AppFields
  <2> QED BY <2>0, <2>7
<1>2. CASE SelectPlan
  <2>0. app.pending = NoRequest
    BY <1>2, NotBusyIsIdle DEF SelectPlan, MaySelect
  <2>1. PICK base \in {app, ForgetGoal(app)}, plan \in app.plans \cup {app'.plan} :
          app' = [Moved(base) EXCEPT !.plan = plan]
    <3>1. PICK step \in {-1, 1} : app' =
            [Moved(IF PlanOf(app, app.goal) \in {NoId, AfterStep(app.plans, app.plan, step)}
                   THEN app ELSE ForgetGoal(app))
                EXCEPT !.plan = AfterStep(app.plans, app.plan, step)]
      BY <1>2 DEF SelectPlan
    <3>2. PICK base \in {app, ForgetGoal(app)} :
            app' = [Moved(base) EXCEPT !.plan = AfterStep(app.plans, app.plan, step)]
      BY <3>1
    <3>3. app'.plan = AfterStep(app.plans, app.plan, step)
      BY <1>0, <3>2 DEF AppOk, AppFields, Moved, ForgetGoal
    <3> QED BY <3>2, <3>3
  <2>2. AppOk(base) /\ base.pending = app.pending /\ base.busy = app.busy
    BY <1>0, <2>1 DEF AppOk, AppFields, ForgetGoal
  <2>3. /\ AppOk(app') /\ app'.pending = app.pending /\ app'.busy = app.busy
        /\ app'.draft = NoDraft /\ app'.armed = NotArmed
    BY <2>1, <2>2 DEF AppOk, AppFields, Moved, NotArmed
  <2> QED BY <2>0, <2>3
<1>3. CASE ClearSelection
  <2>0. app.pending = NoRequest
    BY <1>3, NotBusyIsIdle DEF ClearSelection, MaySelect
  <2>1. \/ app' = Moved(ForgetGoal(app))
        \/ app' = [Moved(ForgetGoal(app)) EXCEPT !.exited = TRUE]
    BY <1>3 DEF ClearSelection, ChatReload
  <2> DEFINE base == ForgetGoal(app)
  <2>2. AppOk(base) /\ base.pending = app.pending /\ base.busy = app.busy
    BY <1>0 DEF AppOk, AppFields, ForgetGoal
  <2>5. app' = Moved(base) \/ app' = [Moved(base) EXCEPT !.exited = TRUE]
    BY <2>1
  <2> HIDE DEF base
  <2>3. CASE app' = Moved(base)
    BY <2>0, <2>2, <2>3 DEF AppOk, AppFields, Moved, NotArmed
  <2>4. CASE app' = [Moved(base) EXCEPT !.exited = TRUE]
    BY <2>0, <2>2, <2>4 DEF AppOk, AppFields, Moved, NotArmed
  <2> QED BY <2>3, <2>4, <2>5
<1> QED BY <1>1, <1>2, <1>3

LEMMA KeySafe ==
  ASSUME ConsoleInv, HandleKey
  PROVE  ConsoleInv'
<1> USE DEF Begin, Idle
<1>0. AppOk(app) /\ DraftOk(app)
  BY DEF ConsoleInv
<1>1. CASE SendChat
  <2>1. AppOk(app') /\ app'.pending = [kind |-> "chat", ctx |-> Context(app)]
    BY <1>0, <1>1 DEF SendChat, AppOk, AppFields
  <2>2. app'.busy = TRUE /\ app'.plan = app.plan /\ app'.goal = app.goal
        /\ app'.draft = app.draft /\ app'.armed = app.armed /\ meant' = meant
    BY <1>0, <1>1 DEF SendChat, AppOk, AppFields
  <2>3. app'.pending.kind = "chat" /\ app'.pending.ctx = Context(app)
    BY <2>1
  <2> QED BY <2>1, <2>2, <2>3, BeginSafe
<1>2. CASE SubmitDraft
  <2>1. AppOk(app') /\ app'.pending = [kind |-> "submit", spec |-> app.draft.spec]
    BY <1>0, <1>2 DEF SubmitDraft, AppOk, AppFields
  <2>2. app'.busy = TRUE /\ app'.plan = app.plan /\ app'.goal = app.goal
        /\ app'.draft = app.draft /\ app'.armed = app.armed /\ meant' = meant
    BY <1>0, <1>2 DEF SubmitDraft, AppOk, AppFields
  <2>3. app.draft.spec.made = Context(app)
    BY <1>0, <1>2 DEF SubmitDraft, DraftOk
  <2>4. app'.pending.kind = "submit" /\ app'.pending.spec = app.draft.spec
    BY <2>1
  <2> QED BY <2>1, <2>2, <2>3, <2>4, BeginSafe
<1>3. CASE DiscardDraft
  BY <1>0, <1>3 DEF DiscardDraft, AppOk, AppFields, ConsoleInv, BusyWhilePending, ArmedWasMeant, DraftOk,
                    RequestOk, Context, SessionId
<1>4. CASE ApplyAction
  <2>1. AppOk(app') /\ app'.pending.kind = "action"
    BY <1>0, <1>4 DEF ApplyAction, AppOk, AppFields
  <2>2. app'.busy = TRUE /\ app'.plan = app.plan /\ app'.goal = app.goal
        /\ app'.draft = app.draft /\ app'.armed = app.armed /\ meant' = meant
    BY <1>0, <1>4 DEF ApplyAction, AppOk, AppFields
  <2> QED BY <2>1, <2>2, BeginSafe
<1>5. CASE RejectApproval
  <2>1. AppOk(app') /\ app'.pending.kind = "action"
    BY <1>0, <1>5 DEF RejectApproval, AppOk, AppFields
  <2>2. app'.busy = TRUE /\ app'.plan = app.plan /\ app'.goal = app.goal
        /\ app'.draft = app.draft /\ app'.armed = app.armed /\ meant' = meant
    BY <1>0, <1>5 DEF RejectApproval, AppOk, AppFields
  <2> QED BY <2>1, <2>2, BeginSafe
<1>6. CASE CancelGoal
  <2>1. CASE Confirmed(app)
    <3>1. AppOk(app') /\ app'.pending.kind = "cancel"
      BY <1>0, <1>6, <2>1 DEF CancelGoal, AppOk, AppFields, NotArmed
    <3>2. app'.busy = TRUE /\ app'.plan = app.plan /\ app'.goal = app.goal
          /\ app'.draft = app.draft /\ app'.armed = NotArmed
      BY <1>0, <1>6, <2>1 DEF CancelGoal, AppOk, AppFields
    <3> QED BY <3>1, <3>2, BeginSafe
  <2>2. CASE ~Confirmed(app)
    <3>1. app' = [app EXCEPT !.armed = [goal |-> app.goal, fresh |-> TRUE]]
          /\ meant' = meant \cup {app.goal}
      BY <1>6, <2>2 DEF CancelGoal
    <3> QED BY <3>1, <1>0 DEF AppOk, AppFields, ConsoleInv, BusyWhilePending, ArmedWasMeant, DraftOk,
                              RequestOk, Context, SessionId
  <2> QED BY <2>1, <2>2
<1>7. CASE RestartGoal
  <2>1. AppOk(app') /\ app'.pending.kind = "restart"
    BY <1>0, <1>7 DEF RestartGoal, AppOk, AppFields, NotArmed
  <2>2. app'.busy = TRUE /\ app'.plan = app.plan /\ app'.goal = app.goal
        /\ app'.draft = app.draft /\ app'.armed = NotArmed
    BY <1>0, <1>7 DEF RestartGoal, AppOk, AppFields
  <2> QED BY <2>1, <2>2, BeginSafe
<1>8. CASE ClearLocal
  BY <1>0, <1>8 DEF ClearLocal, AppOk, AppFields, ConsoleInv, BusyWhilePending, ArmedWasMeant, DraftOk,
                    RequestOk, Context, SessionId, NotArmed
<1>9. CASE SelectGoal \/ SelectPlan \/ ClearSelection
  BY <1>9, SelectionMoves, MovedSafe
<1>10. CASE MoveCursor
  <2>1. PICK i : app' = [app EXCEPT !.index = i]
    BY <1>10 DEF MoveCursor
  <2>2. Stays(app, app') /\ meant' = meant
    BY <1>0, <1>10, <2>1 DEF AppOk, AppFields, Stays, Refilled, MoveCursor
  <2> QED BY <2>2, StaysSafe
<1>11. CASE RefreshKey
  <2>1. app.pending = NoRequest
    BY <1>11, NotBusyIsIdle DEF RefreshKey
  <2> QED BY <1>11, <2>1, RefreshSafe DEF RefreshKey
<1>12. CASE PanelKey
  <2>1. \/ \E f : app' = [app EXCEPT !.focus = f]
        \/ \E v : app' = [app EXCEPT !.view = v]
        \/ \E i : app' = [app EXCEPT !.input = i]
        \/ app' = [app EXCEPT !.exited = TRUE]
    BY <1>12 DEF PanelKey
  <2>2. Stays(app, app') /\ meant' = meant
    BY <1>0, <1>12, <2>1 DEF AppOk, AppFields, Stays, Refilled, PanelKey
  <2> QED BY <2>2, StaysSafe
<1> QED
  BY <1>1, <1>2, <1>3, <1>4, <1>5, <1>6, <1>7, <1>8, <1>9, <1>10, <1>11, <1>12
  DEF HandleKey

LEMMA PollEnds ==
  ASSUME ConsoleInv, PollPending
  PROVE  /\ AppOk(app') /\ DraftOk(app')
         /\ app'.pending = NoRequest /\ app'.armed = app.armed /\ meant' = meant
<1> DEFINE a == Ended(app)
<1>0. AppOk(app) /\ DraftOk(app) /\ RequestOk(app)
  BY DEF ConsoleInv
<1>1. /\ AppOk(a) /\ a.pending = NoRequest /\ a.armed = app.armed /\ a.draft = app.draft
      /\ a.plan = app.plan /\ a.goal = app.goal
  BY <1>0 DEF AppOk, AppFields, Ended
<1>2. PICK ok, draft \in BOOLEAN, how \in Fetches :
        /\ draft => app.pending.kind = "chat"
        /\ app' = CASE app.pending.kind = "chat" -> FinishChat(a, ok, draft)
                    [] app.pending.kind = "submit" -> FinishSubmit(a, ok, how)
                    [] OTHER -> FinishAction(a, ok, how)
  BY DEF PollPending
<1>3. meant' = meant
  BY DEF PollPending
<1> HIDE DEF a
<1>4. CASE app' = FinishChat(a, ok, draft)
  <2>1. CASE ok /\ draft
    <3>1. app' = [a EXCEPT !.draft = [spec |-> [made |-> app.pending.ctx, id |-> NewGoal],
                                      ctx |-> Context(a)]]
      BY <1>4, <2>1 DEF FinishChat
    <3>2. app.pending.ctx = Context(a)
      BY <1>0, <1>1, <1>2, <2>1 DEF RequestOk, Context, SessionId
    <3>3. AppOk(app') /\ app'.pending = NoRequest /\ app'.armed = app.armed /\ DraftOk(app')
      BY <1>1, <3>1, <3>2 DEF AppOk, AppFields, DraftOk
    <3> QED BY <1>3, <3>3
  <2>2. CASE ~(ok /\ draft)
    <3>1. app' = a
      BY <1>4, <2>2 DEF FinishChat
    <3>2. DraftOk(app')
      BY <1>0, <1>1, <3>1 DEF DraftOk
    <3> QED BY <1>1, <1>3, <3>1, <3>2
  <2> QED BY <2>1, <2>2
<1>5. CASE app' = FinishSubmit(a, ok, how)
  <2>1. CASE ok
    <3> DEFINE plan == app.pending.spec.made.plan
               b == [a EXCEPT !.goal = app.pending.spec.id, !.draft = NoDraft,
                              !.plan = IF plan # NoId THEN plan ELSE @]
    <3>1. app' = Refreshed(b, how)
      BY <1>5, <2>1 DEF FinishSubmit
    <3>2. AppOk(b) /\ b.pending = NoRequest /\ b.armed = app.armed /\ b.draft = NoDraft
      BY <1>1 DEF AppOk, AppFields
    <3> HIDE DEF b
    <3>3. Refilled(b, app')
      BY <3>1, <3>2, RefreshRefills
    <3>4. AppOk(app') /\ app'.pending = NoRequest /\ app'.armed = app.armed /\ DraftOk(app')
      BY <3>2, <3>3 DEF Refilled, DraftOk
    <3> QED BY <1>3, <3>4
  <2>2. CASE ~ok
    <3>1. app' = a
      BY <1>5, <2>2 DEF FinishSubmit
    <3>2. DraftOk(app')
      BY <1>0, <1>1, <3>1 DEF DraftOk
    <3> QED BY <1>1, <1>3, <3>1, <3>2
  <2> QED BY <2>1, <2>2
<1>6. CASE app' = FinishAction(a, ok, how)
  <2>1. CASE ok
    <3> DEFINE b == [a EXCEPT !.index = 0, !.result = "applied"]
    <3>1. app' = Refreshed(b, how)
      BY <1>6, <2>1 DEF FinishAction
    <3>2. AppOk(b) /\ b.pending = NoRequest /\ b.armed = app.armed /\ b.draft = app.draft
      BY <1>1 DEF AppOk, AppFields
    <3> HIDE DEF b
    <3>3. Refilled(b, app')
      BY <3>1, <3>2, RefreshRefills
    <3>4. AppOk(app') /\ app'.pending = NoRequest /\ app'.armed = app.armed /\ DraftOk(app')
      BY <1>0, <3>2, <3>3 DEF Refilled, DraftOk
    <3> QED BY <1>3, <3>4
  <2>2. CASE ~ok
    <3>1. app' = [a EXCEPT !.result = "failed"]
      BY <1>6, <2>2 DEF FinishAction
    <3>2. AppOk(app') /\ app'.pending = NoRequest /\ app'.armed = app.armed /\ DraftOk(app')
      BY <1>0, <1>1, <3>1 DEF DraftOk, AppOk, AppFields
    <3> QED BY <1>3, <3>2
  <2> QED BY <2>1, <2>2
<1> QED BY <1>2, <1>4, <1>5, <1>6

LEMMA ConsoleInvInit == ConsoleInit => ConsoleInv
<1> SUFFICES ASSUME ConsoleInit PROVE ConsoleInv
  OBVIOUS
<1>1. PICK first, how : app = Refreshed(NewApp(first), how)
  BY DEF ConsoleInit
<1>2. /\ AppOk(NewApp(first)) /\ NewApp(first).pending = NoRequest
      /\ NewApp(first).armed = NotArmed /\ NewApp(first).draft = NoDraft
  BY DEF NewApp, AppOk, AppFields, NotArmed
<1>3. Refilled(NewApp(first), app)
  BY <1>1, <1>2, RefreshRefills
<1> QED BY <1>2, <1>3 DEF Refilled, ConsoleInv, BusyWhilePending, ArmedWasMeant, DraftOk,
                          RequestOk, NotArmed, NoRequest

LEMMA ConsoleInvStep == ConsoleInv /\ [ConsoleNext]_consoleVars => ConsoleInv'
<1> SUFFICES ASSUME ConsoleInv, [ConsoleNext]_consoleVars PROVE ConsoleInv'
  OBVIOUS
<1>1. CASE HandleKey
  BY <1>1, KeySafe
<1>2. CASE PollPending
  BY <1>2, PollEnds, EndSafe
<1>3. CASE AutoRefresh
  BY <1>3, NotBusyIsIdle, RefreshSafe DEF AutoRefresh
<1>4. CASE WindowPasses
  <2>1. app' = [app EXCEPT !.armed.fresh = FALSE]
    BY <1>4 DEF WindowPasses
  <2> QED BY <2>1 DEF ConsoleInv, AppOk, AppFields, BusyWhilePending, ArmedWasMeant, DraftOk, RequestOk,
                      Context, SessionId
<1>5. CASE WorkMoves
  BY <1>5 DEF WorkMoves, ConsoleInv, AppOk, AppFields, BusyWhilePending, ArmedWasMeant, DraftOk, RequestOk,
              Context, SessionId
<1>6. CASE UNCHANGED consoleVars
  BY <1>6 DEF consoleVars, ConsoleInv, AppOk, AppFields, BusyWhilePending, ArmedWasMeant, DraftOk, RequestOk,
              Context, SessionId
<1> QED BY <1>1, <1>2, <1>3, <1>4, <1>5, <1>6 DEF ConsoleNext

\* A draft is submitted in the goal and session its prompt was sent from: tui.rs
\* keeps one request under way, and selecting, clearing or switching while it
\* runs either waits for it or drops the draft.
THEOREM DraftsStayInContext == ConsoleSpec => []SubmittedInContext
<1>1. ConsoleInv => SubmittedInContext
  BY DEF ConsoleInv, RequestOk, SubmittedInContext
<1> QED BY <1>1, ConsoleInvInit, ConsoleInvStep, PTL DEF ConsoleSpec

\* A cancel request is sent only by the second press of Ctrl-X for the goal that
\* the first press armed, whatever keys and refreshes of tui.rs come in between.
THEOREM CancelTakesTwoPresses == ConsoleSpec => CancelWasArmed
<1> DEFINE AskedFor == app'.pending.kind = "cancel" /\ app'.pending # app.pending
                    => app'.pending.goal \in meant
<1>1. ASSUME ConsoleInv, ConsoleNext PROVE AskedFor
  <2>0. AppOk(app)
    BY <1>1 DEF ConsoleInv
  <2>1. CASE HandleKey
    <3>1. CASE CancelGoal /\ Confirmed(app)
      <4>1. app'.pending = [kind |-> "cancel", goal |-> app.goal]
        BY <2>0, <3>1 DEF CancelGoal, Begin, AppOk, AppFields
      <4>2. app.goal \in meant
        BY <1>1, <3>1 DEF ConsoleInv, ArmedWasMeant, Confirmed
      <4> QED BY <4>1, <4>2
    <3>2. CASE CancelGoal /\ ~Confirmed(app)
      BY <2>0, <3>2 DEF CancelGoal, AppOk, AppFields
    <3>3. CASE SendChat \/ SubmitDraft \/ ApplyAction \/ RejectApproval \/ RestartGoal
      <4>1. CASE SendChat
        BY <2>0, <4>1 DEF SendChat, Begin, AppOk, AppFields
      <4>2. CASE SubmitDraft
        BY <2>0, <4>2 DEF SubmitDraft, Begin, AppOk, AppFields
      <4>3. CASE ApplyAction
        BY <2>0, <4>3 DEF ApplyAction, Begin, AppOk, AppFields
      <4>4. CASE RejectApproval
        BY <2>0, <4>4 DEF RejectApproval, Begin, AppOk, AppFields
      <4>5. CASE RestartGoal
        BY <2>0, <4>5 DEF RestartGoal, Begin, AppOk, AppFields
      <4> QED BY <3>3, <4>1, <4>2, <4>3, <4>4, <4>5
    <3>4. CASE DiscardDraft \/ ClearLocal \/ MoveCursor \/ PanelKey
      <4>1. app'.pending = app.pending
        BY <2>0, <3>4 DEF DiscardDraft, ClearLocal, MoveCursor, PanelKey, AppOk, AppFields
      <4> QED BY <4>1
    <3>5. CASE SelectGoal \/ SelectPlan \/ ClearSelection
      BY <1>1, <3>5, SelectionMoves
    <3>6. CASE RefreshKey
      <4>1. PICK how : app' = Refreshed(app, how)
        BY <3>6 DEF RefreshKey
      <4> QED BY <2>0, <4>1, RefreshRefills DEF Refilled
    <3> QED BY <2>1, <3>1, <3>2, <3>3, <3>4, <3>5, <3>6 DEF HandleKey
  <2>2. CASE PollPending
    BY <1>1, <2>2, PollEnds DEF NoRequest
  <2>3. CASE AutoRefresh
    <3>1. PICK how : app' = Refreshed(app, how)
      BY <2>3 DEF AutoRefresh
    <3> QED BY <2>0, <3>1, RefreshRefills DEF Refilled
  <2>4. CASE WindowPasses
    BY <2>0, <2>4 DEF WindowPasses, AppOk, AppFields
  <2>5. CASE WorkMoves
    BY <2>5 DEF WorkMoves
  <2> QED BY <1>1, <2>1, <2>2, <2>3, <2>4, <2>5 DEF ConsoleNext
<1>2. ConsoleInv /\ [ConsoleNext]_consoleVars => [AskedFor]_consoleVars
  BY <1>1
<1>3. CancelWasArmed <=> [][AskedFor]_consoleVars
  BY PTL DEF CancelWasArmed
<1> QED BY <1>2, <1>3, ConsoleInvInit, ConsoleInvStep, PTL DEF ConsoleSpec

-----------------------------------------------------------------------------
(* Mechanism rounds. *)

RoundFields == {"mechanism", "status", "proposals", "ballots", "quorum", "min", "ratify",
                "decision"}

\* What a round was decided on, and what it was decided for.
Settled(r) ==
    /\ Cardinality({b.participant : b \in r.ballots}) >= Max({r.quorum, r.min})
    /\ \A p \in ScoredProposals(r) : ProposalScore(r, p) <= r.decision.score

AllocationsOk(a) ==
    \A p \in DOMAIN a : a[p].support \in Int /\ a[p].rank \in Nat /\ a[p].bid \in Nat

\* A round whose ballots are numbers, one of each participant.
RoundOk(r) ==
    /\ r = [f \in RoundFields |-> r[f]]
    /\ r.quorum \in Nat /\ r.min \in Nat
    /\ IsFiniteSet(r.proposals) /\ r.proposals \subseteq Nat
    /\ IsFiniteSet(r.ballots)
    /\ \A b \in r.ballots : AllocationsOk(b.allocations)
    /\ \A b, c \in r.ballots : b.participant = c.participant => b = c

RoundsInv ==
    /\ \E S : rounds \in Seq(S)
    /\ \A i \in DOMAIN rounds :
        RoundOk(rounds[i]) /\ (RoundClosed(rounds[i]) => Settled(rounds[i]))

LEMMA BallotsAreParticipants ==
  ASSUME NEW r, RoundOk(r)
  PROVE  /\ IsFiniteSet({b.participant : b \in r.ballots})
         /\ Cardinality({b.participant : b \in r.ballots}) = Cardinality(r.ballots)
<1> DEFINE P == {b.participant : b \in r.ballots}
           f == [b \in r.ballots |-> b.participant]
<1>1. f \in Bijection(r.ballots, P)
  BY DEF RoundOk, Bijection, Injection, Surjection, IsInjective
<1>2. ExistsBijection(r.ballots, P)
  BY <1>1 DEF ExistsBijection
<1> HIDE DEF P
<1>3. IsFiniteSet(P) /\ Cardinality(P) = Cardinality(r.ballots)
  BY <1>2, FS_Bijection DEF RoundOk
<1> QED BY <1>3 DEF P

LEMMA CountedIsFinite ==
  ASSUME NEW r, RoundOk(r)
  PROVE  /\ IsFiniteSet(Counted(r))
         /\ IsFiniteSet(ScoredProposals(r)) /\ ScoredProposals(r) \subseteq Nat
<1> DEFINE P == {b.participant : b \in r.ballots}
<1>1. IsFiniteSet(P \X r.proposals)
  BY BallotsAreParticipants, FS_Product DEF RoundOk
<1>2. Counted(r) \subseteq P \X r.proposals
  BY DEF Counted
<1>3. IsFiniteSet(Counted(r))
  BY <1>1, <1>2, FS_Subset
<1>4. ScoredProposals(r) \subseteq r.proposals
  BY DEF Counted, ScoredProposals
<1> QED BY <1>3, <1>4, FS_Subset DEF RoundOk

LEMMA WorthIsNumber ==
  ASSUME NEW r, RoundOk(r), NEW c \in Counted(r)
  PROVE  WorthOf(r, c) \in Int
<1>1. PICK b \in r.ballots : \E p \in DOMAIN b.allocations : c = <<b.participant, p>>
  BY DEF Counted
<1> PICK p \in DOMAIN b.allocations : c = <<b.participant, p>>
  BY <1>1
<1>2. BallotOf(r, b.participant) = b
  <2>1. /\ BallotOf(r, b.participant) \in r.ballots
        /\ BallotOf(r, b.participant).participant = b.participant
    BY DEF BallotOf
  <2> QED BY <2>1 DEF RoundOk
<1> DEFINE a == b.allocations[p]
<1>3. a.support \in Int /\ a.rank \in Nat /\ a.bid \in Nat
  BY <1>1 DEF RoundOk, AllocationsOk
<1>4. WorthOf(r, c) = Worth(r, a)
  BY <1>1, <1>2 DEF WorthOf
<1> HIDE DEF a
<1>5. a.rank # 0 => 1000 \div a.rank \in Int
  BY <1>3
<1>6. Worth(r, a) \in Int
  BY <1>3, <1>5 DEF Worth, Unasked
<1> QED BY <1>4, <1>6

LEMMA ScoreIsNumber ==
  ASSUME NEW r, RoundOk(r), NEW p
  PROVE  ProposalScore(r, p) \in Int
<1> DEFINE C == {c \in Counted(r) : c[2] = p}
           w == [c \in C |-> WorthOf(r, c)]
           Solves(f) == f = [s \in SUBSET C |->
                                IF s = {} THEN 0
                                ELSE f[s \ {CHOOSE x \in s : TRUE}]
                                        + WorthOf(r, CHOOSE x \in s : TRUE)]
           g == CHOOSE f : Solves(f)
<1>0. IsFiniteSet(C)
  BY CountedIsFinite, FS_Subset
<1>1. \A f : Solves(f) <=> SumsOver(f, SUBSET C, w)
  <2> TAKE f
  <2>1. \A s \in SUBSET C : s # {} => w[AnyOf(s)] = WorthOf(r, CHOOSE x \in s : TRUE)
    <3> TAKE s \in SUBSET C
    <3> HAVE s # {}
    <3>1. AnyOf(s) \in C
      BY DEF AnyOf
    <3> HIDE DEF C
    <3> QED BY <3>1 DEF AnyOf
  <2> HIDE DEF w, C
  <2> QED BY <2>1 DEF SumsOver, AnyOf
<1>2. \A x \in C : w[x] \in Int
  BY WorthIsNumber
<1>3. \E f : Solves(f)
  <2> HIDE DEF w, Solves, C
  <2> QED BY <1>0, <1>1, <1>2, SumsExist
<1>4. Solves(g)
  <2> HIDE DEF Solves
  <2> QED BY <1>3
<1>5. ProposalScore(r, p) = g[C]
  BY DEF ProposalScore, FoldSet, MapThenFoldSet
<1>6. g[C] \in Int
  <2> HIDE DEF w, Solves, g, C
  <2> QED BY <1>0, <1>1, <1>2, <1>4, SumsAreNumbers
<1> QED BY <1>5, <1>6

LEMMA WinnerExists ==
  ASSUME NEW r, RoundOk(r), ScoredProposals(r) # {}
  PROVE  Winners(r) # {}
<1> DEFINE S == ScoredProposals(r)
           R == {d \in S \X S :
                    \/ ProposalScore(r, d[1]) > ProposalScore(r, d[2])
                    \/ ProposalScore(r, d[1]) = ProposalScore(r, d[2]) /\ d[1] <= d[2]}
           Over(p, q) == \/ ProposalScore(r, p) > ProposalScore(r, q)
                         \/ ProposalScore(r, p) = ProposalScore(r, q) /\ p <= q
<1>1. IsFiniteSet(S) /\ S \subseteq Nat
  BY CountedIsFinite
<1>2. \A p \in S : ProposalScore(r, p) \in Int
  BY ScoreIsNumber
<1>3. \A p, q \in S : <<p, q>> \in R <=> Over(p, q)
  OBVIOUS
<1> HIDE DEF S, R
<1>4. \A p, q \in S : Over(p, q) \/ Over(q, p)
  BY <1>1, <1>2
<1>5. \A p, q, o \in S : Over(p, q) /\ Over(q, o) => Over(p, o)
  BY <1>1, <1>2
<1>6. PICK m \in S : \A q \in S : <<m, q>> \in R
  <2> HIDE DEF Over
  <2> QED BY <1>1, <1>3, <1>4, <1>5, TopExists DEF S
<1> QED BY <1>3, <1>6 DEF Winners, S

\* The score of a round in terms of what it reads; the tally changes none of it.
CountedIn(m, ps, bs) ==
    {<<b.participant, p>> : b \in bs, p \in ps} \cap
    UNION {{<<b.participant, p>> : p \in {q \in DOMAIN b.allocations :
                ~IsAuction(m) \/ b.allocations[q].bid # Unasked}} : b \in bs}
AllocationIn(bs, c) == (CHOOSE b \in bs : b.participant = c[1]).allocations[c[2]]
WorthIn(m, a) ==
    IF IsAuction(m) THEN a.bid
    ELSE a.support + IF a.rank = Unasked THEN 0 ELSE 1000 \div a.rank
ScoreIn(m, ps, bs, p) ==
    FoldSet(LAMBDA c, sum : sum + WorthIn(m, AllocationIn(bs, c)), 0,
            {c \in CountedIn(m, ps, bs) : c[2] = p})

LEMMA SameScores ==
  ASSUME NEW r, NEW q, q.mechanism = r.mechanism, q.proposals = r.proposals,
         q.ballots = r.ballots
  PROVE  /\ ScoredProposals(q) = ScoredProposals(r)
         /\ \A p : ProposalScore(q, p) = ProposalScore(r, p)
<1>1. \A o : Counted(o) = CountedIn(o.mechanism, o.proposals, o.ballots)
  BY DEF Counted, CountedIn
<1>2. Counted(q) = Counted(r)
  BY <1>1
<1>3. \A o, p : ProposalScore(o, p) = ScoreIn(o.mechanism, o.proposals, o.ballots, p)
  BY DEF ProposalScore, ScoreIn, WorthOf, BallotOf, Worth, WorthIn, AllocationIn, Counted, CountedIn,
         FoldSet, MapThenFoldSet
<1> QED BY <1>2, <1>3 DEF ScoredProposals

\* A tally closes a round only on a quorum, for a proposal that none outscores.
LEMMA TallySettles ==
  ASSUME NEW r, RoundOk(r), ~RoundClosed(r)
  PROVE  RoundOk(Tally(r)) /\ (RoundClosed(Tally(r)) => Settled(Tally(r)))
<1> DEFINE t == Tally(r)
<1>1. PICK st, d : t = [r EXCEPT !.status = st, !.decision = d]
  BY DEF Tally
<1>2. /\ t = [f \in RoundFields |-> t[f]]
      /\ t.mechanism = r.mechanism /\ t.proposals = r.proposals /\ t.ballots = r.ballots
      /\ t.quorum = r.quorum /\ t.min = r.min
  <2> HIDE DEF t
  <2> QED BY <1>1 DEF RoundOk, RoundFields
<1>3. RoundOk(t)
  <2> HIDE DEF t
  <2> QED BY <1>2 DEF RoundOk
<1>4. ASSUME RoundClosed(t) PROVE Settled(t)
  <2>1. QuorumMet(r)
    <3> SUFFICES ASSUME ~QuorumMet(r) PROVE FALSE
      OBVIOUS
    <3>1. t = [r EXCEPT !.status = "QuorumPending", !.decision = Pending]
      BY DEF Tally
    <3>2. t.status = "QuorumPending"
      <4> HIDE DEF t
      <4> QED BY <3>1 DEF RoundOk, RoundFields
    <3> QED BY <1>4, <3>2 DEF RoundClosed
  <2>2. Cardinality({b.participant : b \in t.ballots}) >= Max({t.quorum, t.min})
    <3>1. /\ Cardinality(r.ballots) >= r.quorum /\ Cardinality(r.ballots) >= r.min
          /\ Cardinality({b.participant : b \in r.ballots}) = Cardinality(r.ballots)
      BY <2>1, BallotsAreParticipants DEF QuorumMet
    <3>2. Max({r.quorum, r.min}) = r.quorum \/ Max({r.quorum, r.min}) = r.min
      BY MaxOfTwo DEF RoundOk
    <3> QED BY <1>2, <3>1, <3>2
  <2>3. ASSUME NEW p \in ScoredProposals(r) PROVE ProposalScore(r, p) <= t.decision.score
    <3>1. Winners(r) # {}
      BY <2>3, WinnerExists
    <3> DEFINE w == CHOOSE x \in Winners(r) : TRUE
    <3>2. w \in Winners(r)
      BY <3>1
    <3>3. PICK s : t = [r EXCEPT !.status = s,
                          !.decision = [selected |-> w, score |-> ProposalScore(r, w),
                                        price |-> ClearingPrice(r)]]
      BY <2>1, <3>1 DEF Tally
    <3>4. t.decision.score = ProposalScore(r, w)
      <4> HIDE DEF t, w
      <4> QED BY <3>3 DEF RoundOk, RoundFields
    <3>5. /\ \/ ProposalScore(r, w) > ProposalScore(r, p)
             \/ ProposalScore(r, w) = ProposalScore(r, p)
          /\ ProposalScore(r, w) \in Int /\ ProposalScore(r, p) \in Int
      <4> HIDE DEF w
      <4> QED BY <3>2, ScoreIsNumber DEF Winners
    <3> HIDE DEF t, w
    <3> QED BY <3>4, <3>5
  <2>4. \A p \in ScoredProposals(t) : ProposalScore(t, p) <= t.decision.score
    <3>1. ScoredProposals(t) = ScoredProposals(r) /\ \A p : ProposalScore(t, p) = ProposalScore(r, p)
      <4> HIDE DEF t
      <4> QED BY <1>2, SameScores
    <3> HIDE DEF t
    <3> QED BY <2>3, <3>1
  <2> QED BY <2>2, <2>4 DEF Settled
<1> QED BY <1>3, <1>4

LEMMA ReplaceKeepsOk ==
  ASSUME NEW r, RoundOk(r), NEW b, AllocationsOk(b.allocations)
  PROVE  /\ RoundOk(ReplaceBallot(r, b))
         /\ ReplaceBallot(r, b).status = r.status
<1> DEFINE t == ReplaceBallot(r, b)
           kept == {c \in r.ballots : c.participant # b.participant}
<1>1. /\ t = [f \in RoundFields |-> t[f]]
      /\ t.proposals = r.proposals /\ t.status = r.status
      /\ t.quorum = r.quorum /\ t.min = r.min
      /\ t.ballots = kept \cup {b}
  BY DEF RoundOk, RoundFields, ReplaceBallot
<1>2. IsFiniteSet(kept)
  BY FS_Subset DEF RoundOk
<1>3. IsFiniteSet(kept \cup {b})
  <2> HIDE DEF kept
  <2> QED BY <1>2, FS_AddElement
<1>4. \A c, d \in kept \cup {b} : c.participant = d.participant => c = d
  BY DEF RoundOk
<1>5. \A c \in kept \cup {b} : AllocationsOk(c.allocations)
  BY DEF RoundOk
<1> HIDE DEF t, kept
<1>6. t.quorum \in Nat /\ t.min \in Nat /\ IsFiniteSet(t.proposals) /\ t.proposals \subseteq Nat
  BY <1>1 DEF RoundOk
<1>7. /\ IsFiniteSet(t.ballots)
      /\ \A c \in t.ballots : AllocationsOk(c.allocations)
      /\ \A c, d \in t.ballots : c.participant = d.participant => c = d
  BY <1>1, <1>3, <1>4, <1>5
<1>8. RoundOk(t)
  BY <1>1, <1>6, <1>7 DEF RoundOk
<1> QED BY <1>1, <1>8 DEF t

LEMMA StartedRound ==
  ASSUME NEW r \in RoundRequests, StartMechanismRound(r)
  PROVE  \E x : rounds' = Append(rounds, x) /\ RoundOk(x) /\ ~RoundClosed(x)
<1> DEFINE x == [mechanism |-> r.mechanism, status |-> "Open", proposals |-> r.proposals,
                 ballots |-> {}, quorum |-> Max({Asked(r.quorum, MechanismPolicy.quorum), 1}),
                 min |-> Max({Asked(r.min, MechanismPolicy.min), 1}),
                 ratify |-> IF r.ratify = "unset" THEN MechanismPolicy.ratify ELSE r.ratify = "yes",
                 decision |-> Pending]
<1>1. rounds' = Append(rounds, x)
  BY DEF StartMechanismRound
<1>2. x.quorum \in Nat /\ x.min \in Nat
  <2>1. Asked(r.quorum, MechanismPolicy.quorum) \in Nat /\ Asked(r.min, MechanismPolicy.min) \in Nat
    BY DeliberationAssumption DEF Asked
  <2> QED BY <2>1, MaxOfTwo
<1>3. /\ x = [f \in RoundFields |-> x[f]]
      /\ x.ballots = {} /\ x.proposals = r.proposals /\ x.status = "Open"
  BY DEF RoundFields
<1> HIDE DEF x
<1>4. RoundOk(x)
  BY <1>2, <1>3, DeliberationAssumption, FS_EmptySet DEF RoundOk
<1> QED BY <1>1, <1>3, <1>4 DEF RoundClosed

LEMMA RoundsStep ==
  ASSUME RoundsInv, [DeliberationNext]_deliberationVars
  PROVE  /\ RoundsInv'
         /\ \A i \in DOMAIN rounds :
                /\ i \in DOMAIN rounds'
                /\ RoundClosed(rounds[i]) => rounds'[i] = rounds[i]
<1> PICK S : rounds \in Seq(S)
  BY DEF RoundsInv
<1>1. CASE RankingNext \/ UNCHANGED deliberationVars
  <2>1. rounds' = rounds
    BY <1>1 DEF RankingNext, RecordGoalPriorityVote, deliberationVars
  <2> QED BY <2>1 DEF RoundsInv
<1>2. ASSUME NEW r \in RoundRequests, StartMechanismRound(r)
      PROVE  /\ RoundsInv'
             /\ \A i \in DOMAIN rounds :
                    /\ i \in DOMAIN rounds'
                    /\ RoundClosed(rounds[i]) => rounds'[i] = rounds[i]
  <2>1. PICK x : rounds' = Append(rounds, x) /\ RoundOk(x) /\ ~RoundClosed(x)
    BY <1>2, StartedRound
  <2>2. PICK n \in Nat : n = Len(rounds)
    OBVIOUS
  <2>3. /\ DOMAIN rounds = 1..n /\ DOMAIN rounds' = 1..(n + 1)
        /\ \A i \in 1..n : rounds'[i] = rounds[i]
        /\ rounds'[n + 1] = x
        /\ rounds' \in Seq(S \cup {x})
    BY <2>1, <2>2
  <2> QED BY <2>1, <2>3 DEF RoundsInv
<1>3. ASSUME NEW i \in DOMAIN rounds, NEW r \in Ballots, RecordMechanismBallot(i, r)
      PROVE  /\ RoundsInv'
             /\ \A j \in DOMAIN rounds :
                    /\ j \in DOMAIN rounds'
                    /\ RoundClosed(rounds[j]) => rounds'[j] = rounds[j]
  <2> DEFINE b == [participant |-> r.participant, allocations |-> r.allocations]
             q == ReplaceBallot(rounds[i], b)
  <2>1. rounds' = [rounds EXCEPT ![i] = Tally(q)] /\ ~RoundClosed(rounds[i])
    BY <1>3 DEF RecordMechanismBallot, BallotAccepted
  <2>2. RoundOk(rounds[i]) /\ AllocationsOk(b.allocations)
    BY DeliberationAssumption DEF RoundsInv, AllocationsOk
  <2>3. RoundOk(q) /\ ~RoundClosed(q)
    <3> HIDE DEF b
    <3> QED BY <2>1, <2>2, ReplaceKeepsOk DEF RoundClosed
  <2> HIDE DEF q
  <2>4. RoundOk(Tally(q)) /\ (RoundClosed(Tally(q)) => Settled(Tally(q)))
    BY <2>3, TallySettles
  <2>5. rounds' \in Seq(S \cup {Tally(q)})
    BY <2>1
  <2> QED BY <2>1, <2>4, <2>5 DEF RoundsInv
<1> QED BY <1>1, <1>2, <1>3 DEF DeliberationNext, MechanismNext

\* A round that the tally of record_ballot decided has its quorum and a winner
\* no other scored proposal beats, and no later ballot or decision changes it.
THEOREM RoundsStand == DeliberationSpec => DecidedRoundsStand
<1> DEFINE Stands == \A i \in DOMAIN rounds :
              /\ RoundClosed(rounds[i]) => rounds'[i] = rounds[i]
              /\ RoundClosed(rounds'[i]) =>
                  /\ Cardinality({b.participant : b \in rounds'[i].ballots})
                          >= Max({rounds'[i].quorum, rounds'[i].min})
                  /\ \A p \in ScoredProposals(rounds'[i]) :
                          ProposalScore(rounds'[i], p) <= rounds'[i].decision.score
<1>1. DeliberationInit => RoundsInv
  BY DEF DeliberationInit, RoundsInv
<1>2. RoundsInv /\ [DeliberationNext]_deliberationVars => RoundsInv'
  BY RoundsStep
<1>3. RoundsInv /\ [DeliberationNext]_deliberationVars => Stands
  <2> SUFFICES ASSUME RoundsInv, [DeliberationNext]_deliberationVars PROVE Stands
    OBVIOUS
  <2>1. RoundsInv' /\ \A i \in DOMAIN rounds :
            i \in DOMAIN rounds' /\ (RoundClosed(rounds[i]) => rounds'[i] = rounds[i])
    BY RoundsStep
  <2> QED BY <2>1 DEF RoundsInv, Settled
<1>4. DecidedRoundsStand <=> [][Stands]_deliberationVars
  BY PTL DEF DecidedRoundsStand
<1> QED BY <1>1, <1>2, <1>3, <1>4, PTL DEF DeliberationSpec

-----------------------------------------------------------------------------
(* Branches: the invariant. *)

GoalFields == {"policy", "status", "n", "st", "purpose", "deps", "failures", "reward",
               "groups", "votes"}
GroupFields == {"original", "strategy", "candidates", "voters", "unifier", "selected", "status"}

Shape(g) ==
    /\ g = [f \in GoalFields |-> g[f]]
    /\ g.n \in Nat /\ 1 <= g.n
    /\ g.st = [t \in BranchTasks |-> g.st[t]]
    /\ g.purpose = [t \in BranchTasks |-> g.purpose[t]]
    /\ g.reward \in [BranchTasks -> Nat]
    /\ \E S : g.groups \in Seq(S)
    /\ g.policy \in BranchPolicies

Judges(group) == group.voters \cup ({group.unifier} \ {None})

GroupShape(group) == group = [f \in GroupFields |-> group[f]]

\* The members of a group are tasks of the goal, and voters are made to vote.
GroupOk(g, group) ==
    /\ GroupShape(group)
    /\ group.candidates # {} /\ group.candidates \subseteq 1..g.n
    /\ Judges(group) \subseteq 1..g.n
    /\ \A v \in group.voters : g.purpose[v] = "BranchVote"

\* What a group has behind it at each status.
Reached(g, group) ==
    /\ group.status \in GroupStatus
    /\ group.status = "CandidatesSpawned" => group.voters = {} /\ group.unifier = None
    /\ group.status = "VotingSpawned" => group.voters # {} /\ group.unifier = None
    /\ group.status = "ReadyForUnification" => group.unifier # None
    /\ group.status \in {"VotingSpawned", "ReadyForUnification", "ReadyForSelection"} =>
            \A c \in group.candidates : g.st[c] = "Done"
    /\ group.status \in {"ReadyForUnification", "ReadyForSelection"} =>
            \A v \in group.voters : g.st[v] = "Done"

\* No task belongs to two groups.
Apart(g) ==
    \A i, j \in DOMAIN g.groups : i # j =>
        /\ g.groups[i].candidates \cap g.groups[j].candidates = {}
        /\ Judges(g.groups[i]) \cap Judges(g.groups[j]) = {}

\* A vote names a finished candidate of its group, and no voter has two.
VotesOk(g) ==
    /\ IsFiniteSet(g.votes)
    /\ \A v \in g.votes :
        /\ v.group \in DOMAIN g.groups
        /\ v.selected \in g.groups[v.group].candidates /\ g.st[v.selected] = "Done"
        /\ v.confidence \in Nat
    /\ \A v, w \in g.votes : v.voter = w.voter /\ v.group = w.group => v = w

\* A voter that passed has voted in its own group.
Voted(g) ==
    \A i \in DOMAIN g.groups : \A t \in g.groups[i].voters :
        g.st[t] = "Done" => \E v \in g.votes : v.voter = t /\ v.group = i

Rewarded(g) == \A t \in BranchTasks : g.st[t] = "Done" => g.reward[t] # None

GoalInv(g) ==
    /\ Shape(g) /\ g.n <= MaxBranchTasks
    /\ \A i \in DOMAIN g.groups : GroupOk(g, g.groups[i]) /\ Reached(g, g.groups[i])
    /\ Apart(g) /\ VotesOk(g) /\ Voted(g) /\ Rewarded(g)
    /\ ~g.policy.enabled => DOMAIN g.groups = {}

\* A group that asks for a selection waits for an operator or for a vote.
Resolved(g) ==
    \A i \in DOMAIN g.groups : g.groups[i].status = "ReadyForSelection" =>
        \/ g.groups[i].strategy = "Human"
        \/ g.groups[i].strategy # "HighestScore" /\ \A v \in g.votes : v.group # i

\* A group that waits for its tasks has one that is not done.
PaceAt(g, group) ==
    group.status \in {"CandidatesSpawned", "VotingSpawned", "ReadyForUnification"} =>
        \E t \in group.candidates \cup Judges(group) : g.st[t] # "Done"
Pace(g) == \A i \in DOMAIN g.groups : PaceAt(g, g.groups[i])

BranchInv == GoalInv(goal) /\ Resolved(goal) /\ Pace(goal)

\* What an automatic selection promises.
WellChosen(g, i) ==
    LET group == g.groups[i]
    IN  /\ group.selected \in 1..g.n /\ g.st[group.selected] = "Done"
        /\ group.strategy # "HighestScore" =>
            \A c \in group.candidates :
                Cardinality(VotesFor(g, i, c)) <= Cardinality(VotesFor(g, i, group.selected))
        /\ group.strategy = "HighestScore" =>
            \A c \in group.candidates : g.reward[c] <= g.reward[group.selected]

\* From g to h nothing is undone, and what gets selected is well chosen.
Steady(g, h) ==
    /\ g.n <= h.n
    /\ DOMAIN h.groups = DOMAIN g.groups
    /\ h.votes = g.votes /\ h.reward = g.reward /\ h.policy = g.policy
    /\ \A t \in 1..g.n : g.st[t] = "Done" => h.st[t] = "Done"
    /\ \A i \in DOMAIN g.groups :
        /\ h.groups[i].candidates = g.groups[i].candidates
        /\ h.groups[i].strategy = g.groups[i].strategy
        /\ g.groups[i].status = "Selected" => h.groups[i] = g.groups[i]
        /\ g.groups[i].status # "Selected" /\ h.groups[i].status = "Selected"
                => WellChosen(h, i)

-----------------------------------------------------------------------------
(* Votes *)

LEMMA TasksAreFinite ==
  ASSUME NEW g, Shape(g), NEW V, V \subseteq 1..g.n
  PROVE  IsFiniteSet(V) /\ V \subseteq Nat /\ (g.n <= MaxBranchTasks => V \subseteq BranchTasks)
<1>1. g.n \in Nat
  BY DEF Shape
<1>2. IsFiniteSet(1..g.n)
  BY <1>1, FS_Interval
<1>3. IsFiniteSet(V)
  BY <1>2, FS_Subset
<1>4. 1..g.n \subseteq Nat
  BY <1>1
<1>5. MaxBranchTasks \in Nat
  BY BranchesAssumption
<1>6. g.n <= MaxBranchTasks => 1..g.n \subseteq 1..MaxBranchTasks
  BY <1>1, <1>5
<1> QED BY <1>3, <1>4, <1>6 DEF BranchTasks

\* Groups are made of tasks of the pool.
LEMMA GroupsAreTasks ==
  ASSUME NEW g, GoalInv(g), NEW i \in DOMAIN g.groups
  PROVE  /\ g.groups[i].candidates \subseteq BranchTasks
         /\ Judges(g.groups[i]) \subseteq BranchTasks
<1>1. Shape(g) /\ g.n <= MaxBranchTasks /\ GroupOk(g, g.groups[i])
  BY DEF GoalInv
<1> QED BY <1>1, TasksAreFinite DEF GroupOk

LEMMA VotesForFinite ==
  ASSUME NEW g, GoalInv(g), NEW i, NEW c
  PROVE  /\ IsFiniteSet(VotesFor(g, i, c)) /\ Cardinality(VotesFor(g, i, c)) \in Nat
         /\ Confidence(VotesFor(g, i, c)) \in Int
<1>1. VotesFor(g, i, c) \subseteq g.votes
  BY DEF VotesFor, GroupVotes
<1>2. IsFiniteSet(VotesFor(g, i, c))
  BY <1>1, FS_Subset DEF GoalInv, VotesOk
<1>3. \A v \in VotesFor(g, i, c) : v.confidence \in Int
  BY <1>1 DEF GoalInv, VotesOk
<1> QED BY <1>2, <1>3, ConfidenceType, FS_CardinalityType

LEMMA VotedHasTop ==
  ASSUME NEW g, GoalInv(g), NEW i, NEW V, V = {v.selected : v \in GroupVotes(g, i)}, V # {}
  PROVE  \E c \in V : \A d \in V : Outvotes(g, i, c, d)
<1> DEFINE R == {p \in V \X V : Outvotes(g, i, p[1], p[2])}
<1>1. V \subseteq 1..g.n
  <2>1. ASSUME NEW c \in V PROVE c \in 1..g.n
    <3>1. PICK v \in g.votes : v.selected = c
      BY DEF GroupVotes
    <3>2. v.group \in DOMAIN g.groups /\ c \in g.groups[v.group].candidates
      BY <3>1 DEF GoalInv, VotesOk
    <3> QED BY <3>2 DEF GoalInv, GroupOk
  <2> QED BY <2>1
<1>2. IsFiniteSet(V) /\ V \subseteq Nat
  BY <1>1, TasksAreFinite DEF GoalInv
<1>3. \A c \in V : /\ Cardinality(VotesFor(g, i, c)) \in Nat
                   /\ Confidence(VotesFor(g, i, c)) \in Int
  BY VotesForFinite
<1>4. \A c, d \in V : Outvotes(g, i, c, d) \/ Outvotes(g, i, d, c)
  BY <1>2, <1>3 DEF Outvotes
<1>5. \A c, d, e \in V : Outvotes(g, i, c, d) /\ Outvotes(g, i, d, e) => Outvotes(g, i, c, e)
  BY <1>2, <1>3 DEF Outvotes
<1>6. \A c, d \in V : <<c, d>> \in R <=> Outvotes(g, i, c, d)
  OBVIOUS
<1> HIDE DEF R
<1>7. PICK m \in V : \A d \in V : <<m, d>> \in R
  BY <1>2, <1>4, <1>5, <1>6, TopExists
<1> QED BY <1>6, <1>7

LEMMA ScoredHasTop ==
  ASSUME NEW g, GoalInv(g), NEW i \in DOMAIN g.groups, Scored(g, i) # {}
  PROVE  \E c \in Scored(g, i) : \A d \in Scored(g, i) :
            g.reward[c] > g.reward[d] \/ (g.reward[c] = g.reward[d] /\ c >= d)
<1> DEFINE V == Scored(g, i)
           Beats(c, d) == g.reward[c] > g.reward[d] \/ (g.reward[c] = g.reward[d] /\ c >= d)
           R == {p \in V \X V : Beats(p[1], p[2])}
<1>1. V \subseteq 1..g.n
  BY DEF Scored, GoalInv, GroupOk
<1>2. IsFiniteSet(V) /\ V \subseteq Nat /\ V \subseteq BranchTasks
  BY <1>1, TasksAreFinite DEF GoalInv
<1>3. \A c \in V : g.reward[c] \in Nat
  BY <1>2 DEF GoalInv, Shape
<1>6. \A c, d \in V : <<c, d>> \in R <=> Beats(c, d)
  OBVIOUS
<1> HIDE DEF V, R
<1>4. \A c, d \in V : Beats(c, d) \/ Beats(d, c)
  BY <1>2, <1>3
<1>5. ASSUME NEW c \in V, NEW d \in V, NEW e \in V, Beats(c, d), Beats(d, e)
      PROVE  Beats(c, e)
  <2>1. /\ c \in Nat /\ d \in Nat /\ e \in Nat
        /\ g.reward[c] \in Nat /\ g.reward[d] \in Nat /\ g.reward[e] \in Nat
    BY <1>2, <1>3
  <2> QED BY <1>5, <2>1
<1>7. PICK m \in V : \A d \in V : <<m, d>> \in R
  <2> HIDE DEF Beats
  <2> QED BY <1>2, <1>4, <1>5, <1>6, TopExists DEF V
<1> QED BY <1>6, <1>7 DEF V

\* Whoever is selected automatically is a finished candidate that none outdoes.
LEMMA AutoSelectedIsWell ==
  ASSUME NEW g, GoalInv(g), NEW i \in DOMAIN g.groups,
         g.groups[i].status = "ReadyForSelection", NEW c \in AutoSelected(g, i)
  PROVE  /\ c \in g.groups[i].candidates /\ g.st[c] = "Done"
         /\ g.groups[i].strategy # "HighestScore" =>
                \A d \in g.groups[i].candidates :
                    Cardinality(VotesFor(g, i, d)) <= Cardinality(VotesFor(g, i, c))
         /\ g.groups[i].strategy = "HighestScore" =>
                \A d \in g.groups[i].candidates : g.reward[d] <= g.reward[c]
<1>1. CASE g.groups[i].strategy = "HighestScore"
  <2>1. /\ c \in Scored(g, i)
        /\ \A d \in Scored(g, i) : g.reward[c] > g.reward[d] \/ (g.reward[c] = g.reward[d] /\ c >= d)
    BY <1>1 DEF AutoSelected
  <2>2. g.groups[i].candidates \subseteq BranchTasks
    BY GroupsAreTasks
  <2>3. \A d \in g.groups[i].candidates : g.reward[d] \in Nat
    BY <2>2 DEF GoalInv, Shape
  <2>4. c \in g.groups[i].candidates /\ g.st[c] = "Done"
    BY <2>1 DEF Scored, GoalInv, Reached
  <2>5. \A d \in g.groups[i].candidates : g.reward[d] <= g.reward[c]
    BY <2>1, <2>3, <2>4 DEF Scored, None
  <2> QED BY <1>1, <2>4, <2>5
<1>2. CASE g.groups[i].strategy # "HighestScore"
  <2>1. PICK v \in GroupVotes(g, i) : v.selected = c
    BY <1>2 DEF AutoSelected
  <2>2. \A d : (\E w \in GroupVotes(g, i) : w.selected = d) => Outvotes(g, i, c, d)
    BY <1>2 DEF AutoSelected
  <2>3. c \in g.groups[i].candidates /\ g.st[c] = "Done"
    BY <2>1 DEF GroupVotes, GoalInv, VotesOk
  <2>4. ASSUME NEW d PROVE Cardinality(VotesFor(g, i, d)) <= Cardinality(VotesFor(g, i, c))
    <3>1. CASE \E w \in GroupVotes(g, i) : w.selected = d
      BY <2>2, <3>1, VotesForFinite DEF Outvotes
    <3>2. CASE ~\E w \in GroupVotes(g, i) : w.selected = d
      <4>1. VotesFor(g, i, d) = {}
        BY <3>2 DEF VotesFor
      <4> QED BY <4>1, VotesForFinite, FS_EmptySet
    <3> QED BY <3>1, <3>2
  <2> QED BY <1>2, <2>3, <2>4
<1> QED BY <1>1, <1>2

\* A group that is ready and has somebody to select, selects.
LEMMA ReadyIsSelectable ==
  ASSUME NEW g, GoalInv(g), NEW i \in DOMAIN g.groups,
         g.groups[i].status = "ReadyForSelection", ~Selectable(g, i)
  PROVE  \/ g.groups[i].strategy = "Human"
         \/ g.groups[i].strategy # "HighestScore" /\ \A v \in g.votes : v.group # i
<1> SUFFICES ASSUME g.groups[i].strategy # "Human",
                    g.groups[i].strategy = "HighestScore" \/ \E v \in g.votes : v.group = i
             PROVE  FALSE
  OBVIOUS
<1>1. AutoSelected(g, i) # {}
  <2>1. CASE g.groups[i].strategy = "HighestScore"
    <3>1. g.groups[i].candidates \subseteq BranchTasks
      BY GroupsAreTasks
    <3>2. \A c \in g.groups[i].candidates : c \in Scored(g, i)
      BY <3>1 DEF Scored, GoalInv, Reached, Rewarded
    <3>3. Scored(g, i) # {}
      BY <3>2 DEF GoalInv, GroupOk
    <3> QED BY <2>1, <3>3, ScoredHasTop DEF AutoSelected
  <2>2. CASE g.groups[i].strategy # "HighestScore"
    <3> DEFINE V == {v.selected : v \in GroupVotes(g, i)}
    <3>1. V # {}
      BY <2>2 DEF GroupVotes
    <3>2. PICK c \in V : \A d \in V : Outvotes(g, i, c, d)
      <4> HIDE DEF V
      <4> QED BY <3>1, VotedHasTop DEF V
    <3> QED BY <2>2, <3>2 DEF AutoSelected
  <2> QED BY <2>1, <2>2
<1>2. \A c \in AutoSelected(g, i) : g.st[c] = "Done"
  BY AutoSelectedIsWell
<1> QED BY <1>1, <1>2 DEF Selectable, TerminalOk

\* A step that leaves alone what the invariant reads.
Alike(g, h) ==
    /\ Shape(h)
    /\ h.n = g.n /\ h.groups = g.groups /\ h.votes = g.votes /\ h.reward = g.reward
    /\ h.policy = g.policy /\ h.purpose = g.purpose
    /\ \A t \in BranchTasks : h.st[t] = "Done" <=> g.st[t] = "Done"

LEMMA AlikeKeeps ==
  ASSUME NEW g, NEW h, GoalInv(g), Alike(g, h)
  PROVE  /\ GoalInv(h)
         /\ Resolved(g) => Resolved(h)
         /\ \A i \in DOMAIN g.groups : PaceAt(g, g.groups[i]) => PaceAt(h, h.groups[i])
         /\ Steady(g, h)
<1>1. \A i \in DOMAIN g.groups :
        /\ \A c \in g.groups[i].candidates : h.st[c] = "Done" <=> g.st[c] = "Done"
        /\ \A c \in Judges(g.groups[i]) : h.st[c] = "Done" <=> g.st[c] = "Done"
        /\ \A c \in g.groups[i].voters : h.st[c] = "Done" <=> g.st[c] = "Done"
  <2> TAKE i \in DOMAIN g.groups
  <2>1. g.groups[i].candidates \subseteq BranchTasks /\ Judges(g.groups[i]) \subseteq BranchTasks
    BY GroupsAreTasks
  <2> QED BY <2>1 DEF Alike, Judges
<1>2. \A i \in DOMAIN h.groups : GroupOk(h, h.groups[i]) /\ Reached(h, h.groups[i])
  <2> TAKE i \in DOMAIN h.groups
  <2>1. GroupOk(h, h.groups[i])
    BY DEF Alike, GoalInv, GroupOk
  <2>2. Reached(g, g.groups[i]) /\ h.groups[i] = g.groups[i] /\ i \in DOMAIN g.groups
    BY DEF Alike, GoalInv
  <2>3. Reached(h, h.groups[i])
    BY <1>1, <2>2 DEF Reached
  <2> QED BY <2>1, <2>3
<1>3. VotesOk(h)
  BY <1>1 DEF GoalInv, Alike, VotesOk
<1>4. Voted(h)
  BY <1>1 DEF GoalInv, Alike, Voted
<1>5. Rewarded(h) /\ Apart(h)
  BY DEF GoalInv, Alike, Rewarded, Apart
<1>6. GoalInv(h)
  BY <1>2, <1>3, <1>4, <1>5 DEF GoalInv, Alike
<1>7. Resolved(g) => Resolved(h)
  BY DEF Alike, Resolved
<1>8. \A i \in DOMAIN g.groups : PaceAt(g, g.groups[i]) => PaceAt(h, h.groups[i])
  BY <1>1 DEF Alike, PaceAt
<1>9. Steady(g, h)
  <2>1. g.n <= h.n
    BY DEF Alike, GoalInv, Shape
  <2>2. 1..g.n \subseteq BranchTasks
    BY TasksAreFinite DEF GoalInv
  <2> QED BY <2>1, <2>2 DEF Alike, Steady
<1> QED BY <1>6, <1>7, <1>8, <1>9

LEMMA SteadyIsTransitive ==
  ASSUME NEW g, NEW h, NEW k, Steady(g, h), Steady(h, k),
         g.n \in Nat, h.n \in Nat, k.n \in Nat
  PROVE  Steady(g, k)
<1>1. ASSUME NEW i \in DOMAIN h.groups, WellChosen(h, i), k.groups[i] = h.groups[i]
      PROVE  WellChosen(k, i)
  <2>1. \A c : VotesFor(k, i, c) = VotesFor(h, i, c)
    BY DEF Steady, VotesFor, GroupVotes
  <2> QED BY <1>1, <2>1 DEF Steady, WellChosen
<1>2. ASSUME NEW i \in DOMAIN g.groups
      PROVE  /\ k.groups[i].candidates = g.groups[i].candidates
             /\ k.groups[i].strategy = g.groups[i].strategy
             /\ g.groups[i].status = "Selected" => k.groups[i] = g.groups[i]
             /\ g.groups[i].status # "Selected" /\ k.groups[i].status = "Selected"
                    => WellChosen(k, i)
  BY <1>1 DEF Steady
<1> QED BY <1>2 DEF Steady

-----------------------------------------------------------------------------
(* An automatic selection. *)

LEMMA TryAutoSelectKeeps ==
  ASSUME NEW g, GoalInv(g), NEW h, h = TryAutoSelect(g)
  PROVE  /\ GoalInv(h) /\ Resolved(h) /\ Steady(g, h)
         /\ h.n = g.n /\ h.st = g.st /\ h.purpose = g.purpose
         /\ \A i \in DOMAIN g.groups : PaceAt(g, g.groups[i]) => PaceAt(h, h.groups[i])
         /\ \A i \in DOMAIN g.groups :
                g.groups[i].status = "ReadyForSelection"
                    => h.groups[i].status \in {"ReadyForSelection", "Selected"}
<1>1. PICK S : g.groups \in Seq(S)
  BY DEF GoalInv, Shape
<1> DEFINE gs == [i \in DOMAIN g.groups |->
            IF Selectable(g, i)
            THEN [g.groups[i] EXCEPT !.status = "Selected",
                                     !.selected = CHOOSE c \in AutoSelected(g, i) : TRUE]
            ELSE g.groups[i]]
<1>2. h = [g EXCEPT !.groups = gs]
  BY DEF TryAutoSelect
<1>3. /\ DOMAIN gs = DOMAIN g.groups
      /\ \A i \in DOMAIN g.groups :
            \/ gs[i] = g.groups[i] /\ ~Selectable(g, i)
            \/ /\ Selectable(g, i)
               /\ gs[i] = [g.groups[i] EXCEPT !.status = "Selected",
                                !.selected = CHOOSE c \in AutoSelected(g, i) : TRUE]
  OBVIOUS
<1>4. \E T : gs \in Seq(T)
  <2>1. PICK n \in Nat : DOMAIN g.groups = 1..n
    BY <1>1
  <2> DEFINE T == {gs[i] : i \in 1..n}
  <2>2. gs \in [1..n -> T]
    BY <2>1
  <2> HIDE DEF gs, T
  <2>3. gs \in Seq(T)
    BY <2>2
  <2> QED BY <2>3
<1> HIDE DEF gs
<1>5. /\ h = [f \in GoalFields |-> h[f]]
      /\ h.groups = gs /\ h.n = g.n /\ h.st = g.st /\ h.purpose = g.purpose
      /\ h.reward = g.reward /\ h.votes = g.votes /\ h.policy = g.policy
  BY <1>2 DEF GoalInv, Shape, GoalFields
<1>6. Shape(h)
  BY <1>4, <1>5 DEF GoalInv, Shape
<1>7. ASSUME NEW i \in DOMAIN g.groups, Selectable(g, i)
      PROVE  /\ GroupShape(gs[i])
             /\ gs[i].original = g.groups[i].original /\ gs[i].strategy = g.groups[i].strategy
             /\ gs[i].candidates = g.groups[i].candidates
             /\ gs[i].voters = g.groups[i].voters /\ gs[i].unifier = g.groups[i].unifier
             /\ gs[i].status = "Selected" /\ gs[i].selected \in AutoSelected(g, i)
             /\ g.groups[i].status = "ReadyForSelection"
  <2> DEFINE c == CHOOSE c \in AutoSelected(g, i) : TRUE
  <2>1. c \in AutoSelected(g, i) /\ g.groups[i].status = "ReadyForSelection"
    BY <1>7 DEF Selectable
  <2>2. gs[i] = [g.groups[i] EXCEPT !.status = "Selected", !.selected = c]
    BY <1>3, <1>7
  <2> HIDE DEF c
  <2>3. GroupShape(g.groups[i])
    BY DEF GoalInv, GroupOk
  <2> QED BY <2>1, <2>2, <2>3 DEF GroupShape, GroupFields
<1>8. \A i \in DOMAIN g.groups :
        /\ gs[i].candidates = g.groups[i].candidates /\ gs[i].strategy = g.groups[i].strategy
        /\ Judges(gs[i]) = Judges(g.groups[i]) /\ gs[i].voters = g.groups[i].voters
        /\ GroupOk(h, gs[i])
  <2> TAKE i \in DOMAIN g.groups
  <2>1. GroupOk(g, g.groups[i])
    BY DEF GoalInv
  <2>2. CASE Selectable(g, i)
    <3>1. Judges(gs[i]) = Judges(g.groups[i])
      BY <1>7, <2>2 DEF Judges
    <3>2. /\ GroupShape(gs[i]) /\ gs[i].candidates = g.groups[i].candidates
          /\ gs[i].voters = g.groups[i].voters
      BY <1>7, <2>2
    <3>3. GroupOk(h, gs[i])
      BY <1>5, <2>1, <3>1, <3>2 DEF GroupOk
    <3> QED BY <1>7, <2>2, <3>1, <3>2, <3>3
  <2>3. CASE ~Selectable(g, i)
    <3>1. gs[i] = g.groups[i]
      BY <1>3, <2>3
    <3>2. GroupOk(h, g.groups[i])
      BY <1>5, <2>1 DEF GroupOk
    <3> QED BY <3>1, <3>2
  <2> QED BY <2>2, <2>3
<1>9. ASSUME NEW i \in DOMAIN g.groups PROVE Reached(h, gs[i])
  <2>1. Reached(g, g.groups[i])
    BY DEF GoalInv
  <2>2. CASE Selectable(g, i)
    BY <1>7, <2>2 DEF Reached, GroupStatus
  <2>3. CASE ~Selectable(g, i)
    <3>1. gs[i] = g.groups[i] /\ h.st = g.st
      BY <1>3, <1>5, <2>3
    <3>2. Reached(h, g.groups[i])
      BY <2>1, <3>1 DEF Reached
    <3> QED BY <3>1, <3>2
  <2> QED BY <2>2, <2>3
<1>10. Apart(h) /\ VotesOk(h) /\ Voted(h) /\ Rewarded(h)
  <2>0. /\ DOMAIN h.groups = DOMAIN g.groups
        /\ \A i \in DOMAIN g.groups :
            /\ h.groups[i].candidates = g.groups[i].candidates
            /\ Judges(h.groups[i]) = Judges(g.groups[i])
            /\ h.groups[i].voters = g.groups[i].voters
    BY <1>3, <1>5, <1>8
  <2>a. Apart(g) /\ VotesOk(g) /\ Voted(g)
    BY DEF GoalInv
  <2>1. Apart(h)
    BY <2>0, <2>a DEF Apart
  <2>2. VotesOk(h)
    BY <1>5, <2>0, <2>a DEF VotesOk
  <2>3. Voted(h)
    <3>1. ASSUME NEW i \in DOMAIN h.groups, NEW t \in h.groups[i].voters, h.st[t] = "Done"
          PROVE  \E v \in h.votes : v.voter = t /\ v.group = i
      <4>1. i \in DOMAIN g.groups /\ t \in g.groups[i].voters /\ g.st[t] = "Done"
        BY <1>5, <2>0, <3>1
      <4>2. \E v \in g.votes : v.voter = t /\ v.group = i
        BY <2>a, <4>1 DEF Voted
      <4> QED BY <1>5, <4>2
    <3> QED BY <3>1 DEF Voted
  <2> QED BY <1>5, <2>1, <2>2, <2>3 DEF GoalInv, Rewarded
<1>11. GoalInv(h)
  BY <1>3, <1>5, <1>6, <1>8, <1>9, <1>10 DEF GoalInv
<1>12. Resolved(h)
  <2>1. ASSUME NEW i \in DOMAIN g.groups, gs[i].status = "ReadyForSelection"
        PROVE  \/ gs[i].strategy = "Human"
               \/ gs[i].strategy # "HighestScore" /\ \A v \in g.votes : v.group # i
    <3>1. ~Selectable(g, i) /\ gs[i] = g.groups[i]
      BY <1>3, <1>7, <2>1
    <3>2. g.groups[i].status = "ReadyForSelection"
      BY <2>1, <3>1
    <3>3. \/ g.groups[i].strategy = "Human"
          \/ g.groups[i].strategy # "HighestScore" /\ \A v \in g.votes : v.group # i
      BY <3>1, <3>2, ReadyIsSelectable
    <3> QED BY <3>1, <3>3
  <2>2. h.groups = gs /\ h.votes = g.votes /\ DOMAIN gs = DOMAIN g.groups
    BY <1>3, <1>5
  <2> QED BY <2>1, <2>2 DEF Resolved
<1>13. \A i \in DOMAIN g.groups : PaceAt(g, g.groups[i]) => PaceAt(h, h.groups[i])
  <2> TAKE i \in DOMAIN g.groups
  <2>1. CASE Selectable(g, i)
    <3>1. h.groups[i].status = "Selected"
      BY <1>5, <1>7, <2>1
    <3> QED BY <3>1 DEF PaceAt
  <2>2. CASE ~Selectable(g, i)
    <3>1. h.groups[i] = g.groups[i] /\ h.st = g.st
      BY <1>3, <1>5, <2>2
    <3> QED BY <3>1 DEF PaceAt
  <2> QED BY <2>1, <2>2
<1>14. \A i \in DOMAIN g.groups :
          g.groups[i].status = "ReadyForSelection"
              => h.groups[i].status \in {"ReadyForSelection", "Selected"}
  BY <1>3, <1>5, <1>7
<1>15. ASSUME NEW i \in DOMAIN g.groups, Selectable(g, i) PROVE WellChosen(h, i)
  <2>1. \A c : VotesFor(h, i, c) = VotesFor(g, i, c)
    BY <1>5 DEF VotesFor, GroupVotes
  <2>2. gs[i].selected \in AutoSelected(g, i) /\ g.groups[i].status = "ReadyForSelection"
    BY <1>7, <1>15
  <2>3. gs[i].selected \in g.groups[i].candidates /\ g.st[gs[i].selected] = "Done"
    BY <2>2, AutoSelectedIsWell
  <2>4. /\ g.groups[i].strategy # "HighestScore" =>
                \A d \in g.groups[i].candidates :
                    Cardinality(VotesFor(g, i, d)) <= Cardinality(VotesFor(g, i, gs[i].selected))
        /\ g.groups[i].strategy = "HighestScore" =>
                \A d \in g.groups[i].candidates : g.reward[d] <= g.reward[gs[i].selected]
    BY <2>2, AutoSelectedIsWell
  <2>5. gs[i].selected \in 1..h.n
    BY <1>5, <2>3 DEF GoalInv, GroupOk
  <2> QED BY <1>5, <1>8, <2>1, <2>3, <2>4, <2>5 DEF WellChosen
<1>16. Steady(g, h)
  <2>1. ASSUME NEW i \in DOMAIN g.groups
        PROVE  /\ gs[i].candidates = g.groups[i].candidates
               /\ gs[i].strategy = g.groups[i].strategy
               /\ g.groups[i].status = "Selected" => gs[i] = g.groups[i]
               /\ g.groups[i].status # "Selected" /\ gs[i].status = "Selected"
                    => WellChosen(h, i)
    BY <1>3, <1>7, <1>8, <1>15
  <2>2. h.n <= h.n
    BY <1>6 DEF Shape
  <2> QED BY <1>3, <1>5, <2>1, <2>2 DEF Steady
<1> QED BY <1>5, <1>11, <1>12, <1>13, <1>14, <1>16

\* h is g with new tasks, none of them done, and group i of it changed.
OneGroup(g, h, i) ==
    /\ Shape(h) /\ g.n <= h.n /\ h.n <= MaxBranchTasks
    /\ h.votes = g.votes /\ h.reward = g.reward /\ h.policy = g.policy
    /\ DOMAIN h.groups = DOMAIN g.groups
    /\ \A j \in DOMAIN g.groups : j # i => h.groups[j] = g.groups[j]
    /\ h.groups[i].candidates = g.groups[i].candidates
    /\ h.groups[i].strategy = g.groups[i].strategy
    /\ Judges(h.groups[i]) \subseteq Judges(g.groups[i]) \cup ((g.n + 1)..h.n)
    /\ h.groups[i].voters \subseteq g.groups[i].voters \cup ((g.n + 1)..h.n)
    /\ GroupOk(h, h.groups[i]) /\ Reached(h, h.groups[i])
    /\ \A t \in 1..g.n : h.st[t] = g.st[t] /\ h.purpose[t] = g.purpose[t]
    /\ \A t \in (g.n + 1)..h.n : h.st[t] # "Done"
    /\ \A t \in BranchTasks : h.st[t] = "Done" => g.st[t] = "Done"

LEMMA OneGroupKeeps ==
  ASSUME NEW g, GoalInv(g), NEW i \in DOMAIN g.groups, NEW h, OneGroup(g, h, i)
  PROVE  /\ GoalInv(h)
         /\ g.groups[i].status # "Selected" /\ h.groups[i].status # "Selected" => Steady(g, h)
         /\ Resolved(g) /\ h.groups[i].status # "ReadyForSelection" => Resolved(h)
         /\ \A j \in DOMAIN g.groups \ {i} :
                PaceAt(g, g.groups[j]) => PaceAt(h, h.groups[j])
<1>1. /\ g.n \in Nat /\ h.n \in Nat
      /\ 1..g.n \subseteq 1..h.n /\ 1..g.n \cap (g.n + 1)..h.n = {}
  <2>1. g.n \in Nat /\ h.n \in Nat /\ g.n <= h.n
    BY DEF GoalInv, Shape, OneGroup
  <2> QED BY <2>1
<1>2. \A j \in DOMAIN g.groups :
        /\ GroupOk(g, g.groups[j]) /\ Reached(g, g.groups[j])
        /\ g.groups[j].candidates \subseteq 1..g.n /\ Judges(g.groups[j]) \subseteq 1..g.n
        /\ g.groups[j].voters \subseteq Judges(g.groups[j])
  BY DEF GoalInv, GroupOk, Judges
<1>3. \A j \in DOMAIN g.groups \ {i} :
        /\ \A t \in g.groups[j].candidates \cup Judges(g.groups[j]) : h.st[t] = g.st[t]
        /\ \A t \in g.groups[j].voters : h.st[t] = g.st[t] /\ h.purpose[t] = g.purpose[t]
        /\ h.groups[j] = g.groups[j]
  BY <1>2 DEF OneGroup
<1>4. ASSUME NEW j \in DOMAIN h.groups
      PROVE  GroupOk(h, h.groups[j]) /\ Reached(h, h.groups[j])
  <2>1. CASE j = i
    BY <2>1 DEF OneGroup
  <2>2. CASE j # i
    <3>1. j \in DOMAIN g.groups \ {i} /\ h.groups[j] = g.groups[j]
      BY <1>4, <2>2 DEF OneGroup
    <3>2. GroupOk(h, g.groups[j])
      BY <1>1, <1>2, <1>3, <3>1 DEF GroupOk
    <3>3. Reached(h, g.groups[j])
      BY <1>2, <1>3, <3>1 DEF Reached, Judges
    <3> QED BY <3>1, <3>2, <3>3
  <2> QED BY <2>1, <2>2
<1>5. Apart(h)
  <2>1. ASSUME NEW j \in DOMAIN g.groups \ {i}, NEW k \in DOMAIN g.groups, j # k
        PROVE  /\ h.groups[j].candidates \cap h.groups[k].candidates = {}
               /\ Judges(h.groups[j]) \cap Judges(h.groups[k]) = {}
    <3>0. /\ g.groups[j].candidates \cap g.groups[k].candidates = {}
          /\ Judges(g.groups[j]) \cap Judges(g.groups[k]) = {}
      BY <2>1 DEF GoalInv, Apart
    <3>1. CASE k = i
      <4>1. Judges(h.groups[k]) \subseteq Judges(g.groups[k]) \cup ((g.n + 1)..h.n)
        BY <3>1 DEF OneGroup
      <4>2. Judges(h.groups[j]) = Judges(g.groups[j]) /\ Judges(g.groups[j]) \subseteq 1..g.n
        BY <1>2, <1>3
      <4>3. Judges(h.groups[j]) \cap Judges(h.groups[k]) = {}
        BY <1>1, <3>0, <4>1, <4>2
      <4> QED BY <1>3, <3>0, <3>1, <4>3 DEF OneGroup
    <3>2. CASE k # i
      BY <1>3, <3>0, <3>2
    <3> QED BY <3>1, <3>2
  <2>2. DOMAIN h.groups = DOMAIN g.groups
    BY DEF OneGroup
  <2>3. ASSUME NEW j \in DOMAIN g.groups, NEW k \in DOMAIN g.groups, j # k
        PROVE  /\ h.groups[j].candidates \cap h.groups[k].candidates = {}
               /\ Judges(h.groups[j]) \cap Judges(h.groups[k]) = {}
    <3>1. CASE j # i
      BY <2>1, <2>3, <3>1
    <3>2. CASE k # i
      BY <2>1, <2>3, <3>2
    <3> QED BY <2>3, <3>1, <3>2
  <2> QED BY <2>2, <2>3 DEF Apart
<1>6. VotesOk(h)
  <2>1. ASSUME NEW v \in g.votes
        PROVE  /\ v.group \in DOMAIN h.groups
               /\ v.selected \in h.groups[v.group].candidates /\ h.st[v.selected] = "Done"
               /\ v.confidence \in Nat
    <3>1. /\ v.group \in DOMAIN g.groups /\ v.selected \in g.groups[v.group].candidates
          /\ g.st[v.selected] = "Done" /\ v.confidence \in Nat
      BY DEF GoalInv, VotesOk
    <3>2. v.selected \in 1..g.n
      BY <1>2, <3>1
    <3> QED BY <3>1, <3>2 DEF OneGroup
  <2>2. h.votes = g.votes
    BY DEF OneGroup
  <2> QED BY <2>1, <2>2 DEF GoalInv, VotesOk
<1>7. Voted(h)
  <2>1. ASSUME NEW j \in DOMAIN h.groups, NEW t \in h.groups[j].voters, h.st[t] = "Done"
        PROVE  \E v \in h.votes : v.voter = t /\ v.group = j
    <3>1. j \in DOMAIN g.groups
      BY DEF OneGroup
    <3>2. t \in g.groups[j].voters
      BY <1>3, <2>1, <3>1 DEF OneGroup
    <3>3. g.st[t] = "Done"
      BY <1>2, <2>1, <3>1, <3>2 DEF OneGroup
    <3>4. \E v \in g.votes : v.voter = t /\ v.group = j
      BY <3>1, <3>2, <3>3 DEF GoalInv, Voted
    <3> QED BY <3>4 DEF OneGroup
  <2> QED BY <2>1 DEF Voted
<1>8. Rewarded(h)
  BY DEF GoalInv, Rewarded, OneGroup
<1>9. ~h.policy.enabled => DOMAIN h.groups = {}
  BY DEF GoalInv, OneGroup
<1>10. GoalInv(h)
  BY <1>4, <1>5, <1>6, <1>7, <1>8, <1>9 DEF GoalInv, OneGroup
<1>11. ASSUME g.groups[i].status # "Selected", h.groups[i].status # "Selected"
       PROVE  Steady(g, h)
  <2>1. \A j \in DOMAIN g.groups :
          /\ h.groups[j].candidates = g.groups[j].candidates
          /\ h.groups[j].strategy = g.groups[j].strategy
          /\ g.groups[j].status = "Selected" => h.groups[j] = g.groups[j]
          /\ g.groups[j].status # "Selected" => h.groups[j].status # "Selected"
    BY <1>11 DEF OneGroup
  <2> QED BY <2>1 DEF OneGroup, Steady
<1>12. Resolved(g) /\ h.groups[i].status # "ReadyForSelection" => Resolved(h)
  BY DEF OneGroup, Resolved
<1>13. \A j \in DOMAIN g.groups \ {i} : PaceAt(g, g.groups[j]) => PaceAt(h, h.groups[j])
  BY <1>3 DEF PaceAt
<1> QED BY <1>10, <1>11, <1>12, <1>13

-----------------------------------------------------------------------------
(* A group that asks for a selection. *)

LEMMA AskKeeps ==
  ASSUME NEW g, GoalInv(g), NEW i \in DOMAIN g.groups, g.groups[i].status # "Selected",
         \A c \in g.groups[i].candidates : g.st[c] = "Done",
         \A v \in g.groups[i].voters : g.st[v] = "Done",
         NEW h, h = [g EXCEPT !.groups[i].status = "ReadyForSelection"]
  PROVE  OneGroup(g, h, i)
<1> DEFINE x == [g.groups[i] EXCEPT !.status = "ReadyForSelection"]
           gs == [g.groups EXCEPT ![i] = x]
<1>1. h = [g EXCEPT !.groups = gs]
  BY DEF GoalInv, Shape, GoalFields
<1>2. PICK S : g.groups \in Seq(S)
  BY DEF GoalInv, Shape
<1>3. gs \in Seq(S \cup {x}) /\ DOMAIN gs = DOMAIN g.groups /\ gs[i] = x
      /\ \A j \in DOMAIN g.groups : j # i => gs[j] = g.groups[j]
  BY <1>2
<1>4. GroupOk(g, g.groups[i]) /\ Reached(g, g.groups[i])
  BY DEF GoalInv
<1>5. /\ GroupShape(x)
      /\ x.strategy = g.groups[i].strategy /\ x.candidates = g.groups[i].candidates
      /\ x.voters = g.groups[i].voters /\ x.unifier = g.groups[i].unifier
      /\ x.status = "ReadyForSelection"
  BY <1>4 DEF GroupOk, GroupShape, GroupFields
<1> HIDE DEF gs, x
<1>6. /\ h = [f \in GoalFields |-> h[f]]
      /\ h.groups = gs /\ h.n = g.n /\ h.st = g.st /\ h.purpose = g.purpose
      /\ h.reward = g.reward /\ h.votes = g.votes /\ h.policy = g.policy
  BY <1>1 DEF GoalInv, Shape, GoalFields
<1>7. Shape(h)
  <2>1. Shape(g)
    BY DEF GoalInv
  <2>2. \E T : h.groups \in Seq(T)
    BY <1>3, <1>6
  <2> QED BY <1>6, <2>1, <2>2 DEF Shape
<1>8. Judges(x) = Judges(g.groups[i])
  BY <1>5 DEF Judges
<1>9. GroupOk(h, x)
  BY <1>4, <1>5, <1>6, <1>8 DEF GroupOk
<1>10. Reached(h, x)
  BY <1>5, <1>6 DEF Reached, GroupStatus
<1>11. h.n \in Nat /\ g.n <= h.n /\ h.n <= MaxBranchTasks /\ (g.n + 1)..h.n = {}
  BY <1>6 DEF GoalInv, Shape
<1> QED BY <1>3, <1>5, <1>6, <1>7, <1>8, <1>9, <1>10, <1>11 DEF OneGroup

LEMMA ReadyKeeps ==
  ASSUME NEW g, GoalInv(g), NEW i \in DOMAIN g.groups, g.groups[i].status # "Selected",
         \A c \in g.groups[i].candidates : g.st[c] = "Done",
         \A v \in g.groups[i].voters : g.st[v] = "Done",
         NEW h, h = Ready(g, i)
  PROVE  /\ GoalInv(h) /\ Resolved(h) /\ Steady(g, h)
         /\ PaceAt(h, h.groups[i])
         /\ \A j \in DOMAIN g.groups \ {i} :
                PaceAt(g, g.groups[j]) => PaceAt(h, h.groups[j])
<1> DEFINE a == [g EXCEPT !.groups[i].status = "ReadyForSelection"]
<1>1. OneGroup(g, a, i)
  BY AskKeeps
<1>2. h = TryAutoSelect(a)
  BY DEF Ready
<1>3. a.groups[i].status = "ReadyForSelection"
  <2>1. GroupOk(g, g.groups[i]) /\ Shape(g)
    BY DEF GoalInv
  <2> QED BY <2>1 DEF GroupOk, GroupShape, GroupFields, Shape, GoalFields
<1> HIDE DEF a
<1>4. /\ GoalInv(a) /\ Steady(g, a)
      /\ \A j \in DOMAIN g.groups \ {i} : PaceAt(g, g.groups[j]) => PaceAt(a, a.groups[j])
  BY <1>1, <1>3, OneGroupKeeps
<1>5. /\ GoalInv(h) /\ Resolved(h) /\ Steady(a, h) /\ h.n = a.n
      /\ \A j \in DOMAIN a.groups : PaceAt(a, a.groups[j]) => PaceAt(h, h.groups[j])
      /\ \A j \in DOMAIN a.groups : a.groups[j].status = "ReadyForSelection"
                    => h.groups[j].status \in {"ReadyForSelection", "Selected"}
  BY <1>2, <1>4, TryAutoSelectKeeps
<1>6. DOMAIN a.groups = DOMAIN g.groups
  BY <1>1 DEF OneGroup
<1>7. PaceAt(h, h.groups[i])
  BY <1>3, <1>5, <1>6 DEF PaceAt
<1>8. g.n \in Nat /\ a.n \in Nat /\ h.n \in Nat
  BY <1>4, <1>5 DEF GoalInv, Shape
<1>9. Steady(g, h)
  BY <1>4, <1>5, <1>8, SteadyIsTransitive
<1> QED BY <1>4, <1>5, <1>6, <1>7, <1>9

-----------------------------------------------------------------------------
(* New tasks. *)

LEMMA SpawnShapes ==
  ASSUME NEW g, Shape(g), NEW k \in Nat, NEW purpose, NEW deps,
         NEW h, h = SpawnTasks(g, k, purpose, deps)
  PROVE  /\ Shape(h) /\ h.n = g.n + k
         /\ h.groups = g.groups /\ h.votes = g.votes /\ h.reward = g.reward
         /\ h.policy = g.policy
         /\ \A t \in BranchTasks :
                h.st[t] = IF t \in NextTasks(g, k) THEN "Runnable" ELSE g.st[t]
         /\ \A t \in BranchTasks :
                h.purpose[t] = IF t \in NextTasks(g, k) THEN purpose ELSE g.purpose[t]
<1>1. PICK st, pu, de :
        /\ h = [g EXCEPT !.n = g.n + k, !.st = st, !.purpose = pu, !.deps = de]
        /\ st = [t \in BranchTasks |-> IF t \in NextTasks(g, k) THEN "Runnable" ELSE g.st[t]]
        /\ pu = [t \in BranchTasks |-> IF t \in NextTasks(g, k) THEN purpose ELSE g.purpose[t]]
  BY DEF SpawnTasks, Shape, GoalFields
<1>2. /\ h = [f \in GoalFields |-> h[f]]
      /\ h.n = g.n + k /\ h.st = st /\ h.purpose = pu
      /\ h.groups = g.groups /\ h.votes = g.votes /\ h.reward = g.reward
      /\ h.policy = g.policy
  BY <1>1 DEF Shape, GoalFields
<1>3. h.st = [t \in BranchTasks |-> h.st[t]] /\ h.purpose = [t \in BranchTasks |-> h.purpose[t]]
  BY <1>1, <1>2
<1>4. Shape(h)
  <2>1. h.n \in Nat /\ 1 <= h.n
    BY <1>2 DEF Shape
  <2>2. (\E S : h.groups \in Seq(S)) /\ h.policy \in BranchPolicies
        /\ h.reward \in [BranchTasks -> Nat]
    BY <1>2 DEF Shape
  <2> QED BY <1>2, <1>3, <2>1, <2>2 DEF Shape
<1> QED BY <1>1, <1>2, <1>4

\* Changing a group of a shaped goal.
LEMMA ChangeGroupShapes ==
  ASSUME NEW g, Shape(g), NEW i \in DOMAIN g.groups, NEW x,
         NEW h, h = [g EXCEPT !.groups = [g.groups EXCEPT ![i] = x]]
  PROVE  /\ Shape(h) /\ DOMAIN h.groups = DOMAIN g.groups /\ h.groups[i] = x
         /\ \A j \in DOMAIN g.groups : j # i => h.groups[j] = g.groups[j]
         /\ h.n = g.n /\ h.st = g.st /\ h.purpose = g.purpose
         /\ h.reward = g.reward /\ h.votes = g.votes /\ h.policy = g.policy
<1>1. PICK S : g.groups \in Seq(S)
  BY DEF Shape
<1>2. PICK gs : gs = [g.groups EXCEPT ![i] = x]
  OBVIOUS
<1>3. gs \in Seq(S \cup {x}) /\ DOMAIN gs = DOMAIN g.groups /\ gs[i] = x
      /\ \A j \in DOMAIN g.groups : j # i => gs[j] = g.groups[j]
  BY <1>1, <1>2
<1>4. /\ h = [f \in GoalFields |-> h[f]]
      /\ h.groups = gs /\ h.n = g.n /\ h.st = g.st /\ h.purpose = g.purpose
      /\ h.reward = g.reward /\ h.votes = g.votes /\ h.policy = g.policy
  BY <1>2 DEF Shape, GoalFields
<1>5. Shape(h)
  BY <1>3, <1>4 DEF Shape
<1> QED BY <1>3, <1>4, <1>5

LEMMA VoterCountPositive ==
  ASSUME NEW g, Shape(g)
  PROVE  VoterCount(g) \in Nat /\ VoterCount(g) >= 1
<1>1. g.policy.minVotes \in Nat
  BY BranchesAssumption DEF Shape
<1>2. PICK m \in Nat : m = g.policy.minVotes
  BY <1>1
<1>3. \E y \in {m, 1} : \A z \in {m, 1} : y >= z
  <2>1. CASE m >= 1
    BY <2>1
  <2>2. CASE m < 1
    BY <2>2
  <2> QED BY <2>1, <2>2
<1>4. Max({m, 1}) \in {m, 1} /\ Max({m, 1}) >= 1
  BY <1>3 DEF Max
<1> QED BY <1>2, <1>4 DEF VoterCount

LEMMA VotesSpawned ==
  ASSUME NEW g, Shape(g), NEW i \in DOMAIN g.groups,
         GroupShape(g.groups[i]), NEW h, h = SpawnBranchVotes(g, i)
  PROVE  /\ Shape(h) /\ h.n = g.n + VoterCount(g)
         /\ DOMAIN h.groups = DOMAIN g.groups
         /\ \A j \in DOMAIN g.groups : j # i => h.groups[j] = g.groups[j]
         /\ GroupShape(h.groups[i]) /\ h.groups[i].status = "VotingSpawned"
         /\ h.groups[i].strategy = g.groups[i].strategy
         /\ h.groups[i].candidates = g.groups[i].candidates
         /\ h.groups[i].voters = NextTasks(g, VoterCount(g))
         /\ h.groups[i].unifier = g.groups[i].unifier
         /\ h.votes = g.votes /\ h.reward = g.reward /\ h.policy = g.policy
         /\ \A t \in BranchTasks :
                h.st[t] = IF t \in NextTasks(g, VoterCount(g)) THEN "Runnable" ELSE g.st[t]
         /\ \A t \in BranchTasks :
                h.purpose[t] = IF t \in NextTasks(g, VoterCount(g)) THEN "BranchVote"
                               ELSE g.purpose[t]
<1> DEFINE k == VoterCount(g)
           s == SpawnTasks(g, k, "BranchVote", g.groups[i].candidates)
           x == [g.groups[i] EXCEPT !.voters = NextTasks(g, k), !.status = "VotingSpawned"]
<1>1. k \in Nat
  BY VoterCountPositive
<1> HIDE DEF k
<1>2. /\ Shape(s) /\ s.n = g.n + k
      /\ s.groups = g.groups /\ s.votes = g.votes /\ s.reward = g.reward
      /\ s.policy = g.policy
      /\ \A t \in BranchTasks :
             s.st[t] = IF t \in NextTasks(g, k) THEN "Runnable" ELSE g.st[t]
      /\ \A t \in BranchTasks :
             s.purpose[t] = IF t \in NextTasks(g, k) THEN "BranchVote" ELSE g.purpose[t]
  BY <1>1, SpawnShapes
<1>3. h = [s EXCEPT !.groups[i].voters = NextTasks(g, k), !.groups[i].status = "VotingSpawned"]
  BY DEF SpawnBranchVotes, k
<1> HIDE DEF s
<1>4. h = [s EXCEPT !.groups = [s.groups EXCEPT ![i] = x]]
  <2>1. PICK S : g.groups \in Seq(S)
    BY DEF Shape
  <2> QED BY <1>2, <1>3, <2>1 DEF Shape, GoalFields
<1>a. /\ GroupShape(x) /\ x.status = "VotingSpawned"
      /\ x.strategy = g.groups[i].strategy /\ x.candidates = g.groups[i].candidates
      /\ x.voters = NextTasks(g, k) /\ x.unifier = g.groups[i].unifier
  BY DEF GroupShape, GroupFields
<1> HIDE DEF x
<1>5. /\ Shape(h) /\ DOMAIN h.groups = DOMAIN g.groups /\ h.groups[i] = x
      /\ \A j \in DOMAIN g.groups : j # i => h.groups[j] = g.groups[j]
      /\ h.n = s.n /\ h.st = s.st /\ h.purpose = s.purpose
      /\ h.reward = s.reward /\ h.votes = s.votes /\ h.policy = s.policy
  <2>1. Shape(s) /\ i \in DOMAIN s.groups /\ s.groups = g.groups
    BY <1>2
  <2>2. /\ Shape(h) /\ DOMAIN h.groups = DOMAIN s.groups /\ h.groups[i] = x
        /\ \A j \in DOMAIN s.groups : j # i => h.groups[j] = s.groups[j]
        /\ h.n = s.n /\ h.st = s.st /\ h.purpose = s.purpose
        /\ h.reward = s.reward /\ h.votes = s.votes /\ h.policy = s.policy
    BY <1>4, <2>1, ChangeGroupShapes
  <2> QED BY <2>1, <2>2
<1> QED BY <1>2, <1>5, <1>a DEF k

LEMMA UnifierSpawned ==
  ASSUME NEW g, Shape(g), NEW i \in DOMAIN g.groups,
         GroupShape(g.groups[i]), NEW h, h = SpawnBranchUnifier(g, i)
  PROVE  /\ Shape(h) /\ h.n = g.n + 1
         /\ DOMAIN h.groups = DOMAIN g.groups
         /\ \A j \in DOMAIN g.groups : j # i => h.groups[j] = g.groups[j]
         /\ GroupShape(h.groups[i]) /\ h.groups[i].status = "ReadyForUnification"
         /\ h.groups[i].strategy = g.groups[i].strategy
         /\ h.groups[i].candidates = g.groups[i].candidates
         /\ h.groups[i].voters = g.groups[i].voters /\ h.groups[i].unifier = g.n + 1
         /\ h.votes = g.votes /\ h.reward = g.reward /\ h.policy = g.policy
         /\ \A t \in BranchTasks :
                h.st[t] = IF t \in NextTasks(g, 1) THEN "Runnable" ELSE g.st[t]
         /\ \A t \in BranchTasks :
                h.purpose[t] = IF t \in NextTasks(g, 1) THEN "BranchUnification"
                               ELSE g.purpose[t]
<1> DEFINE s == SpawnTasks(g, 1, "BranchUnification",
                           g.groups[i].candidates \cup g.groups[i].voters)
           x == [g.groups[i] EXCEPT !.unifier = g.n + 1, !.status = "ReadyForUnification"]
<1>2. /\ Shape(s) /\ s.n = g.n + 1
      /\ s.groups = g.groups /\ s.votes = g.votes /\ s.reward = g.reward
      /\ s.policy = g.policy
      /\ \A t \in BranchTasks :
             s.st[t] = IF t \in NextTasks(g, 1) THEN "Runnable" ELSE g.st[t]
      /\ \A t \in BranchTasks :
             s.purpose[t] = IF t \in NextTasks(g, 1) THEN "BranchUnification" ELSE g.purpose[t]
  BY SpawnShapes
<1>3. h = [s EXCEPT !.groups[i].unifier = g.n + 1, !.groups[i].status = "ReadyForUnification"]
  BY DEF SpawnBranchUnifier
<1> HIDE DEF s
<1>4. h = [s EXCEPT !.groups = [s.groups EXCEPT ![i] = x]]
  <2>1. PICK S : g.groups \in Seq(S)
    BY DEF Shape
  <2> QED BY <1>2, <1>3, <2>1 DEF Shape, GoalFields
<1>a. /\ GroupShape(x) /\ x.status = "ReadyForUnification"
      /\ x.strategy = g.groups[i].strategy /\ x.candidates = g.groups[i].candidates
      /\ x.voters = g.groups[i].voters /\ x.unifier = g.n + 1
  BY DEF GroupShape, GroupFields
<1> HIDE DEF x
<1>5. /\ Shape(h) /\ DOMAIN h.groups = DOMAIN g.groups /\ h.groups[i] = x
      /\ \A j \in DOMAIN g.groups : j # i => h.groups[j] = g.groups[j]
      /\ h.n = s.n /\ h.st = s.st /\ h.purpose = s.purpose
      /\ h.reward = s.reward /\ h.votes = s.votes /\ h.policy = s.policy
  <2>1. Shape(s) /\ i \in DOMAIN s.groups /\ s.groups = g.groups
    BY <1>2
  <2>2. /\ Shape(h) /\ DOMAIN h.groups = DOMAIN s.groups /\ h.groups[i] = x
        /\ \A j \in DOMAIN s.groups : j # i => h.groups[j] = s.groups[j]
        /\ h.n = s.n /\ h.st = s.st /\ h.purpose = s.purpose
        /\ h.reward = s.reward /\ h.votes = s.votes /\ h.policy = s.policy
    BY <1>4, <2>1, ChangeGroupShapes
  <2> QED BY <2>1, <2>2
<1> QED BY <1>2, <1>5, <1>a

LEMMA VotesKeep ==
  ASSUME NEW g, GoalInv(g), NEW i \in DOMAIN g.groups,
         g.groups[i].status = "CandidatesSpawned",
         \A c \in g.groups[i].candidates : g.st[c] = "Done",
         NEW h, h = SpawnBranchVotes(g, i), h.n <= MaxBranchTasks
  PROVE  OneGroup(g, h, i) /\ PaceAt(h, h.groups[i]) /\ h.groups[i].status = "VotingSpawned"
<1> DEFINE k == VoterCount(g)
           x == h.groups[i]
           new == NextTasks(g, k)
<1>0. Shape(g) /\ GroupShape(g.groups[i])
  BY DEF GoalInv, GroupOk
<1>1. /\ Shape(h) /\ h.n = g.n + k
      /\ DOMAIN h.groups = DOMAIN g.groups
      /\ \A j \in DOMAIN g.groups : j # i => h.groups[j] = g.groups[j]
      /\ h.votes = g.votes /\ h.reward = g.reward /\ h.policy = g.policy
      /\ \A t \in BranchTasks : h.st[t] = IF t \in new THEN "Runnable" ELSE g.st[t]
      /\ \A t \in BranchTasks : h.purpose[t] = IF t \in new THEN "BranchVote" ELSE g.purpose[t]
  BY <1>0, VotesSpawned
<1>2. k \in Nat /\ k >= 1 /\ g.n \in Nat /\ h.n \in Nat /\ 1 <= g.n /\ new = (g.n + 1)..(g.n + k)
  BY <1>1, VoterCountPositive DEF GoalInv, Shape, NextTasks
<1>3. GroupOk(g, g.groups[i]) /\ Reached(g, g.groups[i])
  BY DEF GoalInv
<1>4. /\ GroupShape(x)
      /\ x.strategy = g.groups[i].strategy /\ x.candidates = g.groups[i].candidates
      /\ x.voters = new /\ x.unifier = g.groups[i].unifier /\ x.status = "VotingSpawned"
  BY <1>0, VotesSpawned
<1> HIDE DEF k, x, new
<1>5. /\ g.n <= h.n /\ new = (g.n + 1)..h.n /\ new # {} /\ new \subseteq 1..h.n
      /\ new \cap 1..g.n = {} /\ 1..g.n \subseteq 1..h.n
  <2>1. g.n + 1 \in new
    BY <1>2
  <2> QED BY <1>1, <1>2, <2>1
<1>6. 1..h.n \subseteq BranchTasks
  BY <1>1, TasksAreFinite
<1>7. /\ \A t \in 1..g.n : h.st[t] = g.st[t] /\ h.purpose[t] = g.purpose[t]
      /\ \A t \in new : h.st[t] = "Runnable" /\ h.purpose[t] = "BranchVote"
      /\ \A t \in BranchTasks : h.st[t] = "Done" => g.st[t] = "Done"
  BY <1>1, <1>5, <1>6
<1>8. x.unifier = None /\ Judges(x) = new
  BY <1>3, <1>4 DEF Reached, Judges
<1>9. GroupOk(h, x)
  BY <1>3, <1>4, <1>5, <1>7, <1>8 DEF GroupOk
<1>10. Reached(h, x)
  <2>1. \A c \in x.candidates : h.st[c] = "Done"
    BY <1>3, <1>4, <1>7 DEF GroupOk
  <2> QED BY <1>4, <1>5, <1>8, <2>1 DEF Reached, GroupStatus
<1>11. OneGroup(g, h, i)
  BY <1>1, <1>4, <1>5, <1>7, <1>8, <1>9, <1>10 DEF OneGroup, x
<1>12. PaceAt(h, x)
  BY <1>5, <1>7, <1>8 DEF PaceAt
<1> QED BY <1>4, <1>11, <1>12 DEF x

LEMMA UnifierKeeps ==
  ASSUME NEW g, GoalInv(g), NEW i \in DOMAIN g.groups,
         g.groups[i].status = "VotingSpawned",
         \A v \in g.groups[i].voters : g.st[v] = "Done",
         NEW h, h = SpawnBranchUnifier(g, i), h.n <= MaxBranchTasks
  PROVE  /\ OneGroup(g, h, i) /\ PaceAt(h, h.groups[i])
         /\ h.groups[i].status = "ReadyForUnification"
<1> DEFINE x == h.groups[i]
           new == NextTasks(g, 1)
<1>0. Shape(g) /\ GroupShape(g.groups[i])
  BY DEF GoalInv, GroupOk
<1>1. /\ Shape(h) /\ h.n = g.n + 1
      /\ DOMAIN h.groups = DOMAIN g.groups
      /\ \A j \in DOMAIN g.groups : j # i => h.groups[j] = g.groups[j]
      /\ h.votes = g.votes /\ h.reward = g.reward /\ h.policy = g.policy
      /\ \A t \in BranchTasks : h.st[t] = IF t \in new THEN "Runnable" ELSE g.st[t]
      /\ \A t \in BranchTasks :
            h.purpose[t] = IF t \in new THEN "BranchUnification" ELSE g.purpose[t]
  BY <1>0, UnifierSpawned
<1>2. g.n \in Nat /\ h.n \in Nat /\ 1 <= g.n /\ new = (g.n + 1)..(g.n + 1)
  BY <1>1 DEF GoalInv, Shape, NextTasks
<1>3. GroupOk(g, g.groups[i]) /\ Reached(g, g.groups[i])
  BY DEF GoalInv
<1>4. /\ GroupShape(x)
      /\ x.strategy = g.groups[i].strategy /\ x.candidates = g.groups[i].candidates
      /\ x.voters = g.groups[i].voters /\ x.unifier = g.n + 1
      /\ x.status = "ReadyForUnification"
  BY <1>0, UnifierSpawned
<1> HIDE DEF x, new
<1>5. /\ g.n <= h.n /\ new = (g.n + 1)..h.n /\ new = {g.n + 1} /\ new \subseteq 1..h.n
      /\ new \cap 1..g.n = {} /\ 1..g.n \subseteq 1..h.n
  BY <1>1, <1>2
<1>6. 1..h.n \subseteq BranchTasks
  BY <1>1, TasksAreFinite
<1>7. /\ \A t \in 1..g.n : h.st[t] = g.st[t] /\ h.purpose[t] = g.purpose[t]
      /\ \A t \in new : h.st[t] = "Runnable"
      /\ \A t \in BranchTasks : h.st[t] = "Done" => g.st[t] = "Done"
  BY <1>1, <1>5, <1>6
<1>8. x.unifier # None /\ Judges(x) = g.groups[i].voters \cup new
  BY <1>2, <1>4, <1>5 DEF None, Judges
<1>9. g.groups[i].voters \subseteq 1..g.n /\ g.groups[i].candidates \subseteq 1..g.n
  BY <1>3 DEF GroupOk, Judges
<1>10. GroupOk(h, x)
  <2>1. Judges(x) \subseteq 1..h.n /\ x.candidates \subseteq 1..h.n /\ x.candidates # {}
    BY <1>3, <1>4, <1>5, <1>8, <1>9 DEF GroupOk
  <2>2. \A v \in x.voters : h.purpose[v] = "BranchVote"
    BY <1>3, <1>4, <1>7, <1>9 DEF GroupOk
  <2> QED BY <1>4, <2>1, <2>2 DEF GroupOk
<1>11. Reached(h, x)
  BY <1>3, <1>4, <1>7, <1>8, <1>9 DEF Reached, GroupStatus
<1>12. OneGroup(g, h, i)
  <2>1. Judges(x) \subseteq Judges(g.groups[i]) \cup ((g.n + 1)..h.n)
    BY <1>5, <1>8 DEF Judges
  <2> QED BY <1>1, <1>4, <1>5, <1>7, <1>10, <1>11, <2>1 DEF OneGroup, x
<1>13. PaceAt(h, x)
  BY <1>5, <1>7, <1>8 DEF PaceAt
<1> QED BY <1>4, <1>12, <1>13 DEF x

-----------------------------------------------------------------------------
(* The frontier. *)

LEMMA GroupFrontierKeeps ==
  ASSUME NEW g, GoalInv(g), Resolved(g), NEW i \in DOMAIN g.groups,
         NEW h, h = GroupFrontier(g, i), h.n <= MaxBranchTasks
  PROVE  /\ GoalInv(h) /\ Resolved(h) /\ Steady(g, h)
         /\ PaceAt(h, h.groups[i])
         /\ \A j \in DOMAIN g.groups \ {i} :
                PaceAt(g, g.groups[j]) => PaceAt(h, h.groups[j])
<1> DEFINE group == g.groups[i]
<1>1. GroupOk(g, group) /\ Reached(g, group) /\ g.n \in Nat
  BY DEF GoalInv, Shape
<1>2. CASE /\ PaceAt(g, group) /\ h = g
  <2>1. Steady(g, h)
    BY <1>1, <1>2 DEF Steady
  <2> QED BY <1>2, <2>1
<1>3. CASE /\ h = Ready(g, i) /\ group.status # "Selected"
           /\ \A c \in group.candidates : g.st[c] = "Done"
           /\ \A v \in group.voters : g.st[v] = "Done"
  BY <1>3, ReadyKeeps
<1>4. CASE h = SpawnBranchVotes(g, i) /\ group.status = "CandidatesSpawned"
           /\ \A c \in group.candidates : g.st[c] = "Done"
  <2>1. OneGroup(g, h, i) /\ PaceAt(h, h.groups[i]) /\ h.groups[i].status = "VotingSpawned"
    BY <1>4, VotesKeep
  <2> QED BY <1>4, <2>1, OneGroupKeeps
<1>5. CASE h = SpawnBranchUnifier(g, i) /\ group.status = "VotingSpawned"
           /\ \A v \in group.voters : g.st[v] = "Done"
  <2>1. /\ OneGroup(g, h, i) /\ PaceAt(h, h.groups[i])
        /\ h.groups[i].status = "ReadyForUnification"
    BY <1>5, UnifierKeeps
  <2> QED BY <1>5, <2>1, OneGroupKeeps
<1>6. CASE group.status = "CandidatesSpawned"
  <2>1. h = IF ~TasksTerminalOk(g, group.candidates) THEN g
            ELSE IF g.policy.voting /\ group.voters = {} THEN SpawnBranchVotes(g, i)
            ELSE Ready(g, i)
    BY <1>6 DEF GroupFrontier
  <2>2. CASE ~TasksTerminalOk(g, group.candidates)
    <3>1. PaceAt(g, group)
      BY <1>1, <2>2 DEF TasksTerminalOk, TerminalOk, GroupOk, PaceAt
    <3> QED BY <1>2, <2>1, <2>2, <3>1
  <2>3. CASE TasksTerminalOk(g, group.candidates)
    <3>1. /\ \A c \in group.candidates : g.st[c] = "Done"
          /\ group.voters = {}
      BY <1>1, <1>6, <2>3 DEF TasksTerminalOk, TerminalOk, Reached
    <3> QED BY <1>3, <1>4, <1>6, <2>1, <2>3, <3>1
  <2> QED BY <2>2, <2>3
<1>7. CASE group.status = "VotingSpawned"
  <2>1. h = IF ~TasksTerminalOk(g, group.voters) THEN g
            ELSE IF g.policy.unify /\ group.unifier = None THEN SpawnBranchUnifier(g, i)
            ELSE Ready(g, i)
    BY <1>7 DEF GroupFrontier
  <2>2. CASE ~TasksTerminalOk(g, group.voters)
    <3>1. PICK v \in group.voters : g.st[v] # "Done"
      BY <1>1, <1>7, <2>2 DEF TasksTerminalOk, TerminalOk, Reached
    <3>2. PaceAt(g, group)
      BY <3>1 DEF Judges, PaceAt
    <3> QED BY <1>2, <2>1, <2>2, <3>2
  <2>3. CASE TasksTerminalOk(g, group.voters)
    <3>1. /\ \A c \in group.candidates : g.st[c] = "Done"
          /\ \A v \in group.voters : g.st[v] = "Done"
      BY <1>1, <1>7, <2>3 DEF TasksTerminalOk, TerminalOk, Reached
    <3> QED BY <1>3, <1>5, <1>7, <2>1, <2>3, <3>1
  <2> QED BY <2>2, <2>3
<1>8. CASE group.status = "ReadyForUnification"
  <2>1. h = IF TasksTerminalOk(g, {group.unifier}) THEN Ready(g, i) ELSE g
    BY <1>8 DEF GroupFrontier
  <2>2. CASE ~TasksTerminalOk(g, {group.unifier})
    <3>1. g.st[group.unifier] # "Done" /\ group.unifier # None
      BY <1>1, <1>8, <2>2 DEF TasksTerminalOk, TerminalOk, Reached
    <3>2. PaceAt(g, group)
      BY <3>1 DEF Judges, PaceAt
    <3> QED BY <1>2, <2>1, <2>2, <3>2
  <2>3. CASE TasksTerminalOk(g, {group.unifier})
    <3>1. /\ \A c \in group.candidates : g.st[c] = "Done"
          /\ \A v \in group.voters : g.st[v] = "Done"
      BY <1>1, <1>8 DEF Reached
    <3> QED BY <1>3, <1>8, <2>1, <2>3, <3>1
  <2> QED BY <2>2, <2>3
<1>9. CASE group.status \notin {"CandidatesSpawned", "VotingSpawned", "ReadyForUnification"}
  <2>1. h = g /\ PaceAt(g, group)
    BY <1>9 DEF GroupFrontier, PaceAt
  <2> QED BY <1>2, <2>1
<1> QED BY <1>6, <1>7, <1>8, <1>9

\* What the frontier needs of a goal to count its tasks.
Counts(g) ==
    g = [f \in GoalFields |-> g[f]] /\ g.n \in Nat /\ g.policy \in BranchPolicies

LEMMA GroupFrontierCounts ==
  ASSUME NEW g, Counts(g), NEW i, NEW h, h = GroupFrontier(g, i)
  PROVE  Counts(h) /\ g.n <= h.n
<1>1. VoterCount(g) \in Nat
  <2>1. g.policy.minVotes \in Nat
    BY BranchesAssumption DEF Counts
  <2> QED BY <2>1, MaxOfTwo DEF VoterCount
<1>2. ASSUME NEW k \in Nat, NEW purpose, NEW deps, NEW s, s = SpawnTasks(g, k, purpose, deps)
      PROVE  Counts(s) /\ s.n = g.n + k
  <2>1. PICK st, pu, de : s = [g EXCEPT !.n = g.n + k, !.st = st, !.purpose = pu, !.deps = de]
    BY <1>2 DEF SpawnTasks, Counts, GoalFields
  <2>2. /\ s = [f \in GoalFields |-> s[f]]
        /\ s.n = g.n + k /\ s.policy = g.policy
    BY <2>1 DEF Counts, GoalFields
  <2> QED BY <2>2 DEF Counts
<1>3. ASSUME NEW s, Counts(s), NEW gs, NEW t, t = [s EXCEPT !.groups = gs]
      PROVE  Counts(t) /\ t.n = s.n
  BY <1>3 DEF Counts, GoalFields
<1>4. CASE h = g
  BY <1>4 DEF Counts
<1>5. CASE h = Ready(g, i)
  <2> DEFINE a == [g EXCEPT !.groups[i].status = "ReadyForSelection"]
  <2>1. PICK gs : a = [g EXCEPT !.groups = gs]
    BY DEF Counts, GoalFields
  <2> HIDE DEF a
  <2>2. Counts(a) /\ a.n = g.n
    BY <1>3, <2>1
  <2>3. PICK hs : h = [a EXCEPT !.groups = hs]
    BY <1>5 DEF Ready, TryAutoSelect, a
  <2> QED BY <1>3, <2>2, <2>3 DEF Counts
<1>6. CASE h = SpawnBranchVotes(g, i)
  <2> DEFINE s == SpawnTasks(g, VoterCount(g), "BranchVote", g.groups[i].candidates)
  <2>1. Counts(s) /\ s.n = g.n + VoterCount(g)
    BY <1>1, <1>2
  <2>2. h = [s EXCEPT !.groups[i].voters = NextTasks(g, VoterCount(g)),
                      !.groups[i].status = "VotingSpawned"]
    BY <1>6 DEF SpawnBranchVotes
  <2> HIDE DEF s
  <2>3. PICK gs : h = [s EXCEPT !.groups = gs]
    BY <2>1, <2>2 DEF Counts, GoalFields
  <2>4. Counts(h) /\ h.n = g.n + VoterCount(g)
    BY <1>3, <2>1, <2>3
  <2> QED BY <1>1, <2>4 DEF Counts
<1>7. CASE h = SpawnBranchUnifier(g, i)
  <2> DEFINE s == SpawnTasks(g, 1, "BranchUnification",
                             g.groups[i].candidates \cup g.groups[i].voters)
  <2>1. Counts(s) /\ s.n = g.n + 1
    BY <1>2
  <2>2. h = [s EXCEPT !.groups[i].unifier = g.n + 1,
                      !.groups[i].status = "ReadyForUnification"]
    BY <1>7 DEF SpawnBranchUnifier
  <2> HIDE DEF s
  <2>3. PICK gs : h = [s EXCEPT !.groups = gs]
    BY <2>1, <2>2 DEF Counts, GoalFields
  <2> QED BY <1>3, <2>1, <2>3 DEF Counts
<1>8. h = g \/ h = Ready(g, i) \/ h = SpawnBranchVotes(g, i) \/ h = SpawnBranchUnifier(g, i)
  BY DEF GroupFrontier
<1> QED BY <1>4, <1>5, <1>6, <1>7, <1>8

LEMMA RefreshIsAlike ==
  ASSUME NEW g, GoalInv(g), NEW h, h = RefreshStatus(g)
  PROVE  Alike(g, h)
<1>1. PICK s : h = [g EXCEPT !.status = s]
  BY DEF RefreshStatus
<1>2. /\ h = [f \in GoalFields |-> h[f]]
      /\ h.n = g.n /\ h.groups = g.groups /\ h.votes = g.votes /\ h.reward = g.reward
      /\ h.policy = g.policy /\ h.purpose = g.purpose /\ h.st = g.st
  BY <1>1 DEF GoalInv, Shape, GoalFields
<1>3. Shape(h)
  BY <1>2 DEF GoalInv, Shape
<1> QED BY <1>2, <1>3 DEF Alike

\* The turns of the frontier, group by group.
Turns(g, f, D) == f = [k \in D |-> IF k = 0 THEN g ELSE GroupFrontier(f[k - 1], k)]

LEMMA TurnsExist ==
  ASSUME NEW g, NEW n \in Nat
  PROVE  \E f : Turns(g, f, 0..n)
<1> DEFINE Ks == {k \in Nat : \E f : Turns(g, f, 0..k)}
<1>1. 0 \in Ks
  <2> DEFINE f == [k \in 0..0 |-> g]
  <2>1. Turns(g, f, 0..0)
    BY DEF Turns
  <2> QED BY <2>1
<1>2. ASSUME NEW k \in Nat, k \in Ks PROVE k + 1 \in Ks
  <2>1. PICK f : Turns(g, f, 0..k)
    BY <1>2
  <2> DEFINE h == [j \in 0..(k + 1) |-> IF j = 0 THEN g ELSE GroupFrontier(f[j - 1], j)]
  <2>2. \A j \in 0..k : h[j] = f[j]
    BY <2>1 DEF Turns
  <2>3. \A j \in 0..(k + 1) : j # 0 => j - 1 \in 0..k
    OBVIOUS
  <2>4. h = [j \in 0..(k + 1) |-> IF j = 0 THEN g ELSE GroupFrontier(h[j - 1], j)]
    <3> HIDE DEF h
    <3>1. \A j \in 0..(k + 1) : j # 0 => h[j - 1] = f[j - 1]
      BY <2>2, <2>3
    <3> QED BY <3>1 DEF h
  <2>5. Turns(g, h, 0..(k + 1))
    <3> HIDE DEF h
    <3> QED BY <2>4 DEF Turns
  <2> HIDE DEF h
  <2> QED BY <2>5
<1>3. Nat \subseteq Ks
  <2> HIDE DEF Ks
  <2> QED BY <1>1, <1>2, NatSetInduction
<1> QED BY <1>3

\* What k turns have done.
TurnedTo(g, h, k) ==
    /\ Counts(h) /\ g.n <= h.n
    /\ h.n <= MaxBranchTasks =>
        /\ GoalInv(h) /\ Resolved(h) /\ Steady(g, h)
        /\ \A j \in DOMAIN g.groups : j <= k => PaceAt(h, h.groups[j])

LEMMA TurnsKeep ==
  ASSUME NEW g, GoalInv(g), Resolved(g), NEW n \in Nat, DOMAIN g.groups = 1..n,
         NEW f, Turns(g, f, 0..n)
  PROVE  \A k \in 0..n : TurnedTo(g, f[k], k)
<1> DEFINE Ks == {k \in Nat : k \in 0..n => TurnedTo(g, f[k], k)}
<1>1. 0 \in Ks
  <2>1. f[0] = g
    BY DEF Turns
  <2>2. Counts(g) /\ g.n <= g.n
    BY DEF GoalInv, Shape, Counts
  <2>3. Steady(g, g)
    BY <2>2 DEF Steady
  <2>4. TurnedTo(g, g, 0)
    BY <2>2, <2>3 DEF TurnedTo
  <2> QED BY <2>1, <2>4
<1>2. ASSUME NEW k \in Nat, k \in Ks PROVE k + 1 \in Ks
  <2> SUFFICES ASSUME k + 1 \in 0..n PROVE TurnedTo(g, f[k + 1], k + 1)
    OBVIOUS
  <2> DEFINE a == f[k]
             h == f[k + 1]
  <2>1. h = GroupFrontier(a, k + 1) /\ k \in 0..n /\ k + 1 \in DOMAIN g.groups
    BY DEF Turns
  <2>2. TurnedTo(g, a, k)
    BY <1>2, <2>1
  <2> HIDE DEF a, h
  <2>3. Counts(h) /\ a.n <= h.n
    BY <2>1, <2>2, GroupFrontierCounts DEF TurnedTo
  <2>4. g.n \in Nat /\ a.n \in Nat /\ h.n \in Nat /\ MaxBranchTasks \in Nat /\ g.n <= a.n
    BY <2>2, <2>3, BranchesAssumption DEF TurnedTo, Counts, GoalInv, Shape
  <2>5. ASSUME h.n <= MaxBranchTasks
        PROVE  /\ GoalInv(h) /\ Resolved(h) /\ Steady(g, h)
               /\ \A j \in DOMAIN g.groups : j <= k + 1 => PaceAt(h, h.groups[j])
    <3>1. a.n <= MaxBranchTasks
      BY <2>3, <2>4, <2>5
    <3>2. /\ GoalInv(a) /\ Resolved(a) /\ Steady(g, a)
          /\ \A j \in DOMAIN g.groups : j <= k => PaceAt(a, a.groups[j])
      BY <2>2, <3>1 DEF TurnedTo
    <3>3. DOMAIN a.groups = DOMAIN g.groups
      BY <3>2 DEF Steady
    <3>4. /\ GoalInv(h) /\ Resolved(h) /\ Steady(a, h)
          /\ PaceAt(h, h.groups[k + 1])
          /\ \A j \in DOMAIN a.groups \ {k + 1} :
                PaceAt(a, a.groups[j]) => PaceAt(h, h.groups[j])
      BY <2>1, <2>5, <3>2, <3>3, GroupFrontierKeeps
    <3>5. Steady(g, h)
      BY <2>4, <3>2, <3>4, SteadyIsTransitive
    <3>6. ASSUME NEW j \in DOMAIN g.groups, j <= k + 1 PROVE PaceAt(h, h.groups[j])
      <4>1. CASE j = k + 1
        BY <3>4, <4>1
      <4>2. CASE j # k + 1
        <5>1. j <= k
          BY <3>6, <4>2
        <5> QED BY <3>2, <3>3, <3>4, <4>2, <5>1
      <4> QED BY <4>1, <4>2
    <3> QED BY <3>4, <3>5, <3>6
  <2>6. g.n <= h.n
    BY <2>3, <2>4
  <2> QED BY <2>3, <2>5, <2>6 DEF TurnedTo, h
<1>3. Nat \subseteq Ks
  <2> HIDE DEF Ks
  <2> QED BY <1>1, <1>2, NatSetInduction
<1> QED BY <1>3

LEMMA FrontierKeeps ==
  ASSUME NEW g, GoalInv(g), Resolved(g),
         NEW h, h = EnsureBranchFrontier(g), h.n <= MaxBranchTasks
  PROVE  GoalInv(h) /\ Resolved(h) /\ Pace(h) /\ Steady(g, h)
<1>1. CASE ~g.policy.enabled
  <2>1. h = g
    BY <1>1 DEF EnsureBranchFrontier
  <2>2. DOMAIN g.groups = {}
    BY <1>1 DEF GoalInv
  <2>3. g.n \in Nat
    BY DEF GoalInv, Shape
  <2> QED BY <2>1, <2>2, <2>3 DEF Pace, Steady
<1>2. CASE g.policy.enabled
  <2>1. PICK S : g.groups \in Seq(S)
    BY DEF GoalInv, Shape
  <2>2. PICK n \in Nat : n = Len(g.groups) /\ DOMAIN g.groups = 1..n
    BY <2>1
  <2> DEFINE turn == CHOOSE f : f = [k \in 0..Len(g.groups) |->
                            IF k = 0 THEN g ELSE GroupFrontier(f[k - 1], k)]
             a == turn[Len(g.groups)]
  <2>3. h = IF a.n > g.n THEN RefreshStatus(a) ELSE a
    BY <1>2 DEF EnsureBranchFrontier
  <2>4. Turns(g, turn, 0..n)
    <3>1. \E f : f = [k \in 0..n |-> IF k = 0 THEN g ELSE GroupFrontier(f[k - 1], k)]
      <4>1. PICK f : Turns(g, f, 0..n)
        BY TurnsExist
      <4> QED BY <4>1 DEF Turns
    <3> QED BY <2>2, <3>1 DEF Turns
  <2> HIDE DEF turn
  <2>5. TurnedTo(g, a, n)
    BY <2>2, <2>4, TurnsKeep
  <2> HIDE DEF a
  <2>6. PICK s : h = a \/ h = [a EXCEPT !.status = s]
    BY <2>3 DEF RefreshStatus
  <2>7. h.n = a.n
    BY <2>5, <2>6 DEF TurnedTo, Counts, GoalFields
  <2>8. /\ GoalInv(a) /\ Resolved(a) /\ Steady(g, a)
        /\ \A j \in DOMAIN g.groups : j <= n => PaceAt(a, a.groups[j])
    BY <2>5, <2>7 DEF TurnedTo
  <2>9. Pace(a)
    BY <2>2, <2>8 DEF Pace, Steady
  <2>10. CASE h = a
    BY <2>8, <2>9, <2>10
  <2>11. CASE h = RefreshStatus(a)
    <3>1. Alike(a, h)
      BY <2>8, <2>11, RefreshIsAlike
    <3>2. /\ GoalInv(h) /\ Resolved(h) /\ Steady(a, h)
          /\ \A i \in DOMAIN a.groups : PaceAt(a, a.groups[i]) => PaceAt(h, h.groups[i])
      BY <2>8, <3>1, AlikeKeeps
    <3>3. Pace(h)
      BY <2>9, <3>1, <3>2 DEF Alike, Pace
    <3>4. Steady(g, h)
      <4>1. g.n \in Nat /\ a.n \in Nat /\ h.n \in Nat
        BY <2>8, <3>2 DEF GoalInv, Shape
      <4> QED BY <2>8, <3>2, <4>1, SteadyIsTransitive
    <3> QED BY <3>2, <3>3, <3>4
  <2> QED BY <2>3, <2>10, <2>11
<1> QED BY <1>1, <1>2

-----------------------------------------------------------------------------
(* The validation of a task. *)

\* A vote task t may cast on g.
FairVote(g, t, v) == ValidVote(g, v) /\ v.voter = t /\ v.confidence \in Nat

\* g after task t was validated with answer o, before anything is selected.
Learnt(g, t, o) ==
    LET status == ValidatedStatus(g, t, o)
        voted == [RecordVoteIfAny(g, o.vote) EXCEPT !.st[t] = status]
    IN  [Unified(voted, t, status = "Done") EXCEPT !.reward[t] = o.reward]

VotesAfter(g, v) ==
    IF v = NoVote THEN g.votes
    ELSE {w \in g.votes : w.group # v.group \/ w.voter # v.voter} \cup {v}

LEMMA LearntIs ==
  ASSUME NEW g, GoalInv(g), NEW t \in BranchTasks, NEW o, o.reward \in {1, 2},
         NEW h, h = Learnt(g, t, o)
  PROVE  /\ Shape(h) /\ h.n = g.n /\ h.policy = g.policy /\ h.purpose = g.purpose
         /\ h.votes = VotesAfter(g, o.vote)
         /\ h.st = [g.st EXCEPT ![t] = ValidatedStatus(g, t, o)]
         /\ h.reward = [g.reward EXCEPT ![t] = o.reward]
         /\ DOMAIN h.groups = DOMAIN g.groups
         /\ \A i \in DOMAIN g.groups :
                \/ h.groups[i] = g.groups[i]
                \/ /\ g.groups[i].status = "ReadyForUnification"
                   /\ h.groups[i] = [g.groups[i] EXCEPT !.status = "ReadyForSelection"]
<1> DEFINE status == ValidatedStatus(g, t, o)
           r == RecordVoteIfAny(g, o.vote)
           voted == [r EXCEPT !.st[t] = status]
           u == Unified(voted, t, status = "Done")
           gs == [i \in DOMAIN g.groups |->
                    IF /\ status = "Done" /\ g.purpose[t] = "BranchUnification"
                       /\ g.groups[i].unifier = t
                       /\ g.groups[i].status = "ReadyForUnification"
                    THEN [g.groups[i] EXCEPT !.status = "ReadyForSelection"]
                    ELSE g.groups[i]]
<1>1. /\ r = [f \in GoalFields |-> r[f]]
      /\ r.votes = VotesAfter(g, o.vote)
      /\ r.n = g.n /\ r.st = g.st /\ r.purpose = g.purpose /\ r.groups = g.groups
      /\ r.reward = g.reward /\ r.policy = g.policy
  <2>1. CASE o.vote = NoVote
    BY <2>1 DEF RecordVoteIfAny, VotesAfter, GoalInv, Shape
  <2>2. CASE o.vote # NoVote
    <3>1. r = [g EXCEPT !.votes = VotesAfter(g, o.vote)]
      BY <2>2 DEF RecordVoteIfAny, RecordBranchVote, VotesAfter, GoalInv, Shape, GoalFields
    <3> HIDE DEF r
    <3> QED BY <3>1 DEF GoalInv, Shape, GoalFields
  <2> QED BY <2>1, <2>2
<1> HIDE DEF status, r
<1>2. /\ voted = [f \in GoalFields |-> voted[f]]
      /\ voted.votes = r.votes /\ voted.st = [g.st EXCEPT ![t] = status]
      /\ voted.n = g.n /\ voted.purpose = g.purpose /\ voted.groups = g.groups
      /\ voted.reward = g.reward /\ voted.policy = g.policy
  BY <1>1 DEF GoalFields
<1> HIDE DEF voted
<1>3. u = [voted EXCEPT !.groups = gs]
  <2>1. voted.groups = g.groups /\ voted.purpose = g.purpose
    BY <1>2
  <2> QED BY <2>1 DEF Unified
<1> HIDE DEF u, gs
<1>4. /\ u = [f \in GoalFields |-> u[f]]
      /\ u.votes = r.votes /\ u.st = [g.st EXCEPT ![t] = status]
      /\ u.n = g.n /\ u.purpose = g.purpose /\ u.groups = gs
      /\ u.reward = g.reward /\ u.policy = g.policy
  BY <1>2, <1>3 DEF GoalFields
<1>5. h = [u EXCEPT !.reward[t] = o.reward]
  BY DEF Learnt, u, voted, r, status
<1>6. /\ h = [f \in GoalFields |-> h[f]]
      /\ h.votes = VotesAfter(g, o.vote) /\ h.st = [g.st EXCEPT ![t] = status]
      /\ h.n = g.n /\ h.purpose = g.purpose /\ h.groups = gs
      /\ h.reward = [g.reward EXCEPT ![t] = o.reward] /\ h.policy = g.policy
  BY <1>1, <1>4, <1>5 DEF GoalFields
<1>7. /\ DOMAIN gs = DOMAIN g.groups
      /\ \A i \in DOMAIN g.groups :
            \/ gs[i] = g.groups[i]
            \/ /\ g.groups[i].status = "ReadyForUnification"
               /\ gs[i] = [g.groups[i] EXCEPT !.status = "ReadyForSelection"]
  BY DEF gs
<1>8. \E T : gs \in Seq(T)
  <2>1. PICK S : g.groups \in Seq(S)
    BY DEF GoalInv, Shape
  <2>2. PICK n \in Nat : DOMAIN g.groups = 1..n
    BY <2>1
  <2> DEFINE T == {gs[i] : i \in 1..n}
  <2>3. gs \in [1..n -> T]
    BY <2>2 DEF gs
  <2> HIDE DEF T
  <2>4. gs \in Seq(T)
    BY <2>2, <2>3
  <2> QED BY <2>4
<1>9. Shape(h)
  <2>1. /\ h.n \in Nat /\ 1 <= h.n /\ h.policy \in BranchPolicies
        /\ h.purpose = [x \in BranchTasks |-> h.purpose[x]]
    BY <1>6 DEF GoalInv, Shape
  <2>2. g.reward \in [BranchTasks -> Nat] /\ g.st = [x \in BranchTasks |-> g.st[x]]
    BY DEF GoalInv, Shape
  <2>3. h.st = [x \in BranchTasks |-> h.st[x]] /\ h.reward \in [BranchTasks -> Nat]
    BY <1>6, <2>2
  <2>4. \E T : h.groups \in Seq(T)
    BY <1>6, <1>8
  <2> QED BY <1>6, <2>1, <2>3, <2>4 DEF Shape
<1> QED BY <1>6, <1>7, <1>9 DEF status

\* What a group keeps from g to h: what its tasks are for and a selection.
Keeps(g, h, i) ==
    /\ h.groups[i].candidates = g.groups[i].candidates
    /\ h.groups[i].voters = g.groups[i].voters
    /\ h.groups[i].unifier = g.groups[i].unifier
    /\ h.groups[i].strategy = g.groups[i].strategy
    /\ GroupShape(h.groups[i])
    /\ \/ h.groups[i] = g.groups[i]
       \/ /\ g.groups[i].status = "ReadyForUnification"
          /\ h.groups[i].status = "ReadyForSelection"

LEMMA LearntKeeps ==
  ASSUME NEW g, GoalInv(g), NEW t \in 1..g.n, g.st[t] = "Runnable",
         NEW o, o.reward \in {1, 2}, o.vote # NoVote => FairVote(g, t, o.vote),
         NEW h, h = Learnt(g, t, o)
  PROVE  GoalInv(h) /\ h.n = g.n /\ DOMAIN h.groups = DOMAIN g.groups
         /\ \A i \in DOMAIN g.groups : Keeps(g, h, i)
<1> DEFINE status == ValidatedStatus(g, t, o)
           vote == o.vote
<1>0. t \in BranchTasks /\ g.st = [x \in BranchTasks |-> g.st[x]]
      /\ g.reward \in [BranchTasks -> Nat]
  BY TasksAreFinite DEF GoalInv, Shape
<1>1. /\ Shape(h) /\ h.n = g.n /\ h.policy = g.policy /\ h.purpose = g.purpose
      /\ h.votes = VotesAfter(g, vote)
      /\ h.st = [g.st EXCEPT ![t] = status]
      /\ h.reward = [g.reward EXCEPT ![t] = o.reward]
      /\ DOMAIN h.groups = DOMAIN g.groups
      /\ \A i \in DOMAIN g.groups :
             \/ h.groups[i] = g.groups[i]
             \/ /\ g.groups[i].status = "ReadyForUnification"
                /\ h.groups[i] = [g.groups[i] EXCEPT !.status = "ReadyForSelection"]
  BY <1>0, LearntIs
<1> HIDE DEF status, vote
<1>2. ASSUME NEW i \in DOMAIN g.groups PROVE Keeps(g, h, i)
  <2>1. GroupShape(g.groups[i])
    BY DEF GoalInv, GroupOk
  <2>2. CASE h.groups[i] = g.groups[i]
    BY <2>1, <2>2 DEF Keeps
  <2>3. CASE /\ g.groups[i].status = "ReadyForUnification"
             /\ h.groups[i] = [g.groups[i] EXCEPT !.status = "ReadyForSelection"]
    <3>1. PICK x : x = h.groups[i]
      OBVIOUS
    <3>2. /\ GroupShape(x) /\ x.status = "ReadyForSelection"
          /\ x.candidates = g.groups[i].candidates /\ x.voters = g.groups[i].voters
          /\ x.unifier = g.groups[i].unifier /\ x.strategy = g.groups[i].strategy
      BY <2>1, <2>3, <3>1 DEF GroupShape, GroupFields
    <3> QED BY <2>3, <3>1, <3>2 DEF Keeps
  <2> QED BY <1>1, <2>2, <2>3
<1>3. \A x \in 1..g.n : g.st[x] = "Done" => h.st[x] = "Done" /\ x # t
  <2>1. 1..g.n \subseteq BranchTasks
    BY TasksAreFinite DEF GoalInv
  <2> QED BY <1>0, <1>1, <2>1
<1>4. \A x \in BranchTasks : x # t => h.st[x] = g.st[x] /\ h.reward[x] = g.reward[x]
  BY <1>0, <1>1
<1>5. h.st[t] = status /\ h.reward[t] = o.reward
  BY <1>0, <1>1
<1>6. \A i \in DOMAIN g.groups :
        /\ GroupOk(g, g.groups[i]) /\ Reached(g, g.groups[i])
        /\ g.groups[i].candidates \subseteq 1..g.n /\ Judges(g.groups[i]) \subseteq 1..g.n
        /\ g.groups[i].voters \subseteq 1..g.n
        /\ Judges(h.groups[i]) = Judges(g.groups[i])
  BY <1>2 DEF GoalInv, GroupOk, Judges, Keeps
<1>7. \A i \in DOMAIN h.groups : GroupOk(h, h.groups[i]) /\ Reached(h, h.groups[i])
  <2> SUFFICES ASSUME NEW i \in DOMAIN g.groups
               PROVE  GroupOk(h, h.groups[i]) /\ Reached(h, h.groups[i])
    BY <1>1
  <2>1. GroupOk(h, h.groups[i])
    BY <1>1, <1>2, <1>6 DEF GroupOk, Keeps
  <2>2. /\ \A c \in g.groups[i].candidates : g.st[c] = "Done" => h.st[c] = "Done"
        /\ \A c \in g.groups[i].voters : g.st[c] = "Done" => h.st[c] = "Done"
    BY <1>3, <1>6
  <2>3. CASE h.groups[i] = g.groups[i]
    <3>1. PICK x : x = g.groups[i]
      OBVIOUS
    <3>2. /\ Reached(g, x)
          /\ \A c \in x.candidates : g.st[c] = "Done" => h.st[c] = "Done"
          /\ \A c \in x.voters : g.st[c] = "Done" => h.st[c] = "Done"
      BY <1>6, <2>2, <3>1
    <3>3. Reached(h, x)
      BY <3>2 DEF Reached
    <3> QED BY <2>1, <2>3, <3>1, <3>3
  <2>4. CASE /\ g.groups[i].status = "ReadyForUnification"
             /\ h.groups[i].status = "ReadyForSelection"
    <3>1. /\ \A c \in g.groups[i].candidates : h.st[c] = "Done"
          /\ \A c \in g.groups[i].voters : h.st[c] = "Done"
      BY <1>6, <2>2, <2>4 DEF Reached
    <3>2. /\ \A c \in h.groups[i].candidates : h.st[c] = "Done"
          /\ \A c \in h.groups[i].voters : h.st[c] = "Done"
      BY <1>2, <3>1 DEF Keeps
    <3>3. Reached(h, h.groups[i])
      BY <2>4, <3>2 DEF Reached, GroupStatus
    <3> QED BY <2>1, <3>3
  <2> QED BY <1>2, <2>1, <2>3, <2>4 DEF Keeps
<1>8. Apart(h)
  <2>1. ASSUME NEW i \in DOMAIN g.groups, NEW j \in DOMAIN g.groups, i # j
        PROVE  /\ h.groups[i].candidates \cap h.groups[j].candidates = {}
               /\ Judges(h.groups[i]) \cap Judges(h.groups[j]) = {}
    <3>1. /\ g.groups[i].candidates \cap g.groups[j].candidates = {}
          /\ Judges(g.groups[i]) \cap Judges(g.groups[j]) = {}
      BY <2>1 DEF GoalInv, Apart
    <3>2. /\ h.groups[i].candidates = g.groups[i].candidates
          /\ h.groups[j].candidates = g.groups[j].candidates
      BY <1>2 DEF Keeps
    <3> QED BY <1>6, <3>1, <3>2
  <2> QED BY <1>1, <2>1 DEF Apart
<1>9. VotesOk(h)
  <2> DEFINE VoteOk(k, v) == /\ v.group \in DOMAIN k.groups
                             /\ v.selected \in k.groups[v.group].candidates
                             /\ k.st[v.selected] = "Done"
                             /\ v.confidence \in Nat
  <2>1. IsFiniteSet(h.votes)
    <3>1. CASE vote = NoVote
      BY <1>1, <3>1 DEF VotesAfter, GoalInv, VotesOk
    <3>2. CASE vote # NoVote
      <4> DEFINE kept == {w \in g.votes : w.group # vote.group \/ w.voter # vote.voter}
      <4>1. IsFiniteSet(kept)
        BY FS_Subset DEF GoalInv, VotesOk
      <4> HIDE DEF kept
      <4>2. IsFiniteSet(kept \cup {vote})
        BY <4>1, FS_AddElement
      <4> QED BY <1>1, <3>2, <4>2 DEF VotesAfter, kept
    <3> QED BY <3>1, <3>2
  <2>2. \A v : VoteOk(g, v) => VoteOk(h, v)
    <3> TAKE v
    <3> HAVE VoteOk(g, v)
    <3>1. v.selected \in 1..g.n
      BY <1>6
    <3>2. v.group \in DOMAIN h.groups /\ v.selected \in h.groups[v.group].candidates
      BY <1>1, <1>2 DEF Keeps
    <3> QED BY <1>3, <3>1, <3>2
  <2>3. \A v \in g.votes : VoteOk(g, v)
    BY DEF GoalInv, VotesOk
  <2>4. vote # NoVote => VoteOk(g, vote)
    BY DEF FairVote, ValidVote, TerminalOk, vote
  <2> HIDE DEF VoteOk
  <2>5. \A v \in h.votes : VoteOk(h, v)
    BY <1>1, <2>2, <2>3, <2>4 DEF VotesAfter
  <2>6. \A v, w \in g.votes : v.voter = w.voter /\ v.group = w.group => v = w
    BY DEF GoalInv, VotesOk
  <2>7. \A v, w \in h.votes : v.voter = w.voter /\ v.group = w.group => v = w
    BY <1>1, <2>6 DEF VotesAfter
  <2> QED BY <2>1, <2>5, <2>7 DEF VotesOk, VoteOk
<1>10. Voted(h)
  <2>1. ASSUME NEW i \in DOMAIN g.groups, NEW x \in g.groups[i].voters, h.st[x] = "Done"
        PROVE  \E v \in h.votes : v.voter = x /\ v.group = i
    <3>1. CASE x # t
      <4>1. x \in BranchTasks
        BY GroupsAreTasks DEF Judges
      <4>2. PICK v \in g.votes : v.voter = x /\ v.group = i
        BY <1>4, <2>1, <3>1, <4>1 DEF GoalInv, Voted
      <4>3. v \in h.votes
        BY <1>1, <3>1, <4>2 DEF VotesAfter, FairVote, vote
      <4> QED BY <4>2, <4>3
    <3>2. CASE x = t
      <4>1. Passed(g, t, o)
        BY <1>5, <2>1, <3>2 DEF ValidatedStatus, status
      <4>2. g.purpose[t] = "BranchVote"
        BY <1>6, <2>1, <3>2 DEF GroupOk
      <4>3. vote # NoVote /\ vote.selected \in CandidatesOf(g, t)
        BY <4>1, <4>2 DEF Passed, vote
      <4>4. PICK j \in DOMAIN g.groups :
                /\ t \in g.groups[j].voters \cup {g.groups[j].unifier}
                /\ vote.selected \in g.groups[j].candidates
        BY <4>3 DEF CandidatesOf
      <4>5. t # None
        BY <1>0 DEF BranchTasks, None
      <4>6. t \in Judges(g.groups[i]) /\ t \in Judges(g.groups[j])
        BY <2>1, <3>2, <4>4, <4>5 DEF Judges
      <4>7. i = j
        BY <4>6 DEF GoalInv, Apart
      <4>8. /\ vote.group \in DOMAIN g.groups /\ vote.voter = t
            /\ vote.selected \in g.groups[vote.group].candidates
        BY <4>3 DEF FairVote, ValidVote, vote
      <4>9. vote.group = i
        BY <4>4, <4>7, <4>8 DEF GoalInv, Apart
      <4>10. vote \in h.votes
        BY <1>1, <4>3 DEF VotesAfter
      <4> QED BY <3>2, <4>8, <4>9, <4>10
    <3> QED BY <3>1, <3>2
  <2>2. \A i \in DOMAIN g.groups : h.groups[i].voters = g.groups[i].voters
    BY <1>2 DEF Keeps
  <2> QED BY <1>1, <2>1, <2>2 DEF Voted
<1>11. Rewarded(h)
  <2>1. o.reward # None
    BY DEF None
  <2> QED BY <1>4, <1>5, <2>1 DEF GoalInv, Rewarded
<1>12. ~h.policy.enabled => DOMAIN h.groups = {}
  BY <1>1 DEF GoalInv
<1>13. h.n <= MaxBranchTasks
  BY <1>1 DEF GoalInv
<1>14. GoalInv(h)
  BY <1>1, <1>7, <1>8, <1>9, <1>10, <1>11, <1>12, <1>13 DEF GoalInv
<1> QED BY <1>1, <1>2, <1>14

\* From g to h every group keeps its selection, and what gets selected
\* automatically is well chosen.
SelectsWell(g, h) ==
    \A i \in DOMAIN g.groups :
        /\ i \in DOMAIN h.groups
        /\ h.groups[i].strategy = g.groups[i].strategy
        /\ g.groups[i].status # "Selected" /\ h.groups[i].status = "Selected"
                => WellChosen(h, i)

LEMMA ValidationKeeps ==
  ASSUME NEW g, GoalInv(g), NEW t \in 1..g.n, g.st[t] = "Runnable",
         NEW o, o.reward \in {1, 2}, o.vote # NoVote => FairVote(g, t, o.vote),
         NEW h, h = EnsureBranchFrontier(ApplyBranchValidation(g, t, o)),
         h.n <= MaxBranchTasks
  PROVE  GoalInv(h) /\ Resolved(h) /\ Pace(h) /\ SelectsWell(g, h)
<1> DEFINE l == Learnt(g, t, o)
           a == TryAutoSelect(l)
           b == RefreshStatus(a)
<1>1. /\ GoalInv(l) /\ l.n = g.n /\ DOMAIN l.groups = DOMAIN g.groups
      /\ \A i \in DOMAIN g.groups : Keeps(g, l, i)
  BY LearntKeeps
<1>2. h = EnsureBranchFrontier(b)
  BY DEF ApplyBranchValidation, Learnt
<1> HIDE DEF l
<1>3. GoalInv(a) /\ Resolved(a) /\ Steady(l, a)
  BY <1>1, TryAutoSelectKeeps
<1> HIDE DEF a
<1>4. Alike(a, b)
  BY <1>3, RefreshIsAlike
<1> HIDE DEF b
<1>5. GoalInv(b) /\ Resolved(b) /\ Steady(a, b)
  BY <1>3, <1>4, AlikeKeeps
<1>6. GoalInv(h) /\ Resolved(h) /\ Pace(h) /\ Steady(b, h)
  BY <1>2, <1>5, FrontierKeeps
<1>7. l.n \in Nat /\ a.n \in Nat /\ b.n \in Nat /\ h.n \in Nat
  BY <1>1, <1>3, <1>5, <1>6 DEF GoalInv, Shape
<1>8. Steady(l, b)
  BY <1>3, <1>5, <1>7, SteadyIsTransitive
<1>9. Steady(l, h)
  BY <1>6, <1>7, <1>8, SteadyIsTransitive
<1>10. SelectsWell(g, h)
  <2>1. ASSUME NEW i \in DOMAIN g.groups
        PROVE  /\ l.groups[i].strategy = g.groups[i].strategy
               /\ g.groups[i].status # "Selected" => l.groups[i].status # "Selected"
    BY <1>1 DEF Keeps
  <2> QED BY <1>1, <1>9, <2>1 DEF Steady, SelectsWell
<1> QED BY <1>6, <1>10

-----------------------------------------------------------------------------
(* A new group. *)

\* h is g with new tasks, none of them done, that are the candidates of one
\* more group.
NewGroup(g, h, n) ==
    /\ Shape(h) /\ g.n < h.n /\ h.n <= MaxBranchTasks
    /\ h.votes = g.votes /\ h.reward = g.reward /\ h.policy = g.policy /\ g.policy.enabled
    /\ DOMAIN h.groups = 1..(n + 1)
    /\ \A j \in 1..n : h.groups[j] = g.groups[j]
    /\ GroupShape(h.groups[n + 1]) /\ h.groups[n + 1].candidates = (g.n + 1)..h.n
    /\ h.groups[n + 1].voters = {} /\ h.groups[n + 1].unifier = None
    /\ h.groups[n + 1].status = "CandidatesSpawned"
    /\ \A t \in 1..g.n : (h.st[t] = "Done" <=> g.st[t] = "Done") /\ h.purpose[t] = g.purpose[t]
    /\ \A t \in (g.n + 1)..h.n : h.st[t] # "Done"
    /\ \A t \in BranchTasks : h.st[t] = "Done" => g.st[t] = "Done"

LEMMA NewGroupKeeps ==
  ASSUME NEW g, GoalInv(g), NEW n \in Nat, DOMAIN g.groups = 1..n,
         NEW h, NewGroup(g, h, n)
  PROVE  /\ GoalInv(h)
         /\ Resolved(g) => Resolved(h)
         /\ Pace(g) => Pace(h)
<1> DEFINE x == h.groups[n + 1]
<1>1. /\ g.n \in Nat /\ h.n \in Nat
      /\ 1..g.n \subseteq 1..h.n /\ 1..g.n \cap (g.n + 1)..h.n = {}
      /\ (g.n + 1)..h.n \subseteq 1..h.n /\ (g.n + 1)..h.n # {}
  <2>1. g.n \in Nat /\ h.n \in Nat /\ g.n < h.n
    BY DEF GoalInv, Shape, NewGroup
  <2>2. g.n + 1 \in (g.n + 1)..h.n
    BY <2>1
  <2> QED BY <2>1, <2>2
<1>2. \A j \in 1..n :
        /\ GroupOk(g, g.groups[j]) /\ Reached(g, g.groups[j])
        /\ g.groups[j].candidates \subseteq 1..g.n /\ Judges(g.groups[j]) \subseteq 1..g.n
        /\ g.groups[j].voters \subseteq Judges(g.groups[j])
  BY DEF GoalInv, GroupOk, Judges
<1>3. /\ GroupShape(x) /\ x.candidates = (g.n + 1)..h.n /\ x.voters = {} /\ x.unifier = None
      /\ x.status = "CandidatesSpawned" /\ Judges(x) = {}
  BY DEF NewGroup, Judges
<1>4. /\ n + 1 \notin 1..n
      /\ \A j \in DOMAIN h.groups : j = n + 1 \/ (j \in 1..n /\ h.groups[j] = g.groups[j])
      /\ DOMAIN h.groups = 1..n \cup {n + 1}
  <2>1. 1..(n + 1) = 1..n \cup {n + 1} /\ n + 1 \notin 1..n
    OBVIOUS
  <2>2. DOMAIN h.groups = 1..(n + 1) /\ \A j \in 1..n : h.groups[j] = g.groups[j]
    BY DEF NewGroup
  <2>3. DOMAIN h.groups = 1..n \cup {n + 1}
    BY <2>1, <2>2
  <2>4. ASSUME NEW j \in DOMAIN h.groups
        PROVE  j = n + 1 \/ (j \in 1..n /\ h.groups[j] = g.groups[j])
    BY <2>2, <2>3
  <2> QED BY <2>1, <2>3, <2>4
<1>5. ASSUME NEW j \in 1..n
      PROVE  /\ h.groups[j] = g.groups[j]
             /\ \A t \in g.groups[j].candidates : h.st[t] = "Done" <=> g.st[t] = "Done"
             /\ \A t \in Judges(g.groups[j]) : h.st[t] = "Done" <=> g.st[t] = "Done"
             /\ \A t \in g.groups[j].voters : h.st[t] = "Done" <=> g.st[t] = "Done"
             /\ \A t \in g.groups[j].voters : h.purpose[t] = g.purpose[t]
  BY <1>2 DEF NewGroup
<1> HIDE DEF x
<1>6. ASSUME NEW j \in 1..n PROVE GroupOk(h, g.groups[j]) /\ Reached(h, g.groups[j])
  <2>1. PICK y : y = g.groups[j]
    OBVIOUS
  <2>2. /\ GroupOk(g, y) /\ Reached(g, y)
        /\ \A t \in y.candidates : h.st[t] = "Done" <=> g.st[t] = "Done"
        /\ \A t \in y.voters : h.st[t] = "Done" <=> g.st[t] = "Done"
        /\ \A t \in y.voters : h.purpose[t] = g.purpose[t]
    BY <1>2, <1>5, <2>1
  <2>3. GroupOk(h, y)
    BY <1>1, <2>2 DEF GroupOk
  <2>4. Reached(h, y)
    BY <2>2 DEF Reached
  <2> QED BY <2>1, <2>3, <2>4
<1>7. GroupOk(h, x) /\ Reached(h, x)
  BY <1>1, <1>3 DEF GroupOk, Reached, GroupStatus
<1>8. \A j \in DOMAIN h.groups : GroupOk(h, h.groups[j]) /\ Reached(h, h.groups[j])
  BY <1>4, <1>6, <1>7 DEF x
<1>9. Apart(h)
  <2>1. ASSUME NEW i \in 1..n, NEW j \in 1..n, i # j
        PROVE  /\ h.groups[i].candidates \cap h.groups[j].candidates = {}
               /\ Judges(h.groups[i]) \cap Judges(h.groups[j]) = {}
    BY <1>5, <2>1 DEF GoalInv, Apart
  <2>2. ASSUME NEW i \in 1..n
        PROVE  /\ h.groups[i].candidates \cap x.candidates = {}
               /\ Judges(h.groups[i]) \cap Judges(x) = {}
    BY <1>1, <1>2, <1>3, <1>5
  <2>3. ASSUME NEW i \in DOMAIN h.groups, NEW j \in DOMAIN h.groups, i # j
        PROVE  /\ h.groups[i].candidates \cap h.groups[j].candidates = {}
               /\ Judges(h.groups[i]) \cap Judges(h.groups[j]) = {}
    <3>1. CASE i \in 1..n /\ j \in 1..n
      BY <2>1, <2>3, <3>1
    <3>2. CASE i \in 1..n /\ j = n + 1
      BY <2>2, <3>2 DEF x
    <3>3. CASE i = n + 1 /\ j \in 1..n
      BY <2>2, <3>3 DEF x
    <3> QED BY <1>4, <2>3, <3>1, <3>2, <3>3
  <2> QED BY <2>3 DEF Apart
<1>10. VotesOk(h)
  <2>1. ASSUME NEW v \in g.votes
        PROVE  /\ v.group \in DOMAIN h.groups
               /\ v.selected \in h.groups[v.group].candidates /\ h.st[v.selected] = "Done"
               /\ v.confidence \in Nat
    <3>1. /\ v.group \in 1..n /\ v.selected \in g.groups[v.group].candidates
          /\ g.st[v.selected] = "Done" /\ v.confidence \in Nat
      BY DEF GoalInv, VotesOk
    <3> QED BY <1>4, <1>5, <3>1
  <2>2. h.votes = g.votes
    BY DEF NewGroup
  <2> QED BY <2>1, <2>2 DEF GoalInv, VotesOk
<1>11. Voted(h)
  <2>1. ASSUME NEW j \in 1..n, NEW t \in g.groups[j].voters, h.st[t] = "Done"
        PROVE  \E v \in h.votes : v.voter = t /\ v.group = j
    <3>1. g.st[t] = "Done"
      BY <1>5, <2>1
    <3>2. \E v \in g.votes : v.voter = t /\ v.group = j
      BY <3>1 DEF GoalInv, Voted
    <3> QED BY <3>2 DEF NewGroup
  <2>2. ASSUME NEW j \in DOMAIN h.groups, NEW t \in h.groups[j].voters, h.st[t] = "Done"
        PROVE  \E v \in h.votes : v.voter = t /\ v.group = j
    <3>1. CASE j = n + 1
      BY <1>3, <2>2, <3>1 DEF x
    <3>2. CASE j \in 1..n
      BY <1>5, <2>1, <2>2, <3>2
    <3> QED BY <1>4, <3>1, <3>2
  <2> QED BY <2>2 DEF Voted
<1>12. Rewarded(h) /\ (~h.policy.enabled => DOMAIN h.groups = {})
  BY DEF GoalInv, Rewarded, NewGroup
<1>13. GoalInv(h)
  BY <1>8, <1>9, <1>10, <1>11, <1>12 DEF GoalInv, NewGroup
<1>14. Resolved(g) => Resolved(h)
  <2> SUFFICES ASSUME Resolved(g), NEW j \in DOMAIN h.groups,
                      h.groups[j].status = "ReadyForSelection"
               PROVE  \/ h.groups[j].strategy = "Human"
                      \/ h.groups[j].strategy # "HighestScore"
                            /\ \A v \in h.votes : v.group # j
    BY DEF Resolved
  <2>1. j \in 1..n /\ h.groups[j] = g.groups[j]
    BY <1>3, <1>4 DEF x
  <2>2. h.votes = g.votes
    BY DEF NewGroup
  <2> QED BY <2>1, <2>2 DEF Resolved
<1>15. Pace(g) => Pace(h)
  <2> SUFFICES ASSUME Pace(g), NEW j \in DOMAIN h.groups PROVE PaceAt(h, h.groups[j])
    BY DEF Pace
  <2>1. CASE j = n + 1
    <3>1. PaceAt(h, x)
      BY <1>1, <1>3 DEF PaceAt, NewGroup
    <3> QED BY <2>1, <3>1 DEF x
  <2>2. CASE j \in 1..n
    <3>1. PaceAt(g, g.groups[j])
      BY <2>2 DEF Pace
    <3>2. PaceAt(h, g.groups[j])
      BY <1>5, <2>2, <3>1 DEF PaceAt
    <3> QED BY <1>5, <2>2, <3>2
  <2> QED BY <1>4, <2>1, <2>2
<1> QED BY <1>13, <1>14, <1>15

LEMMA CandidateCountPositive ==
  ASSUME NEW g, Shape(g), NEW r \in BranchRequests
  PROVE  CandidateCount(g, r) \in Nat /\ CandidateCount(g, r) >= 2
<1>1. PICK c \in Nat, m \in Nat : c = r.count /\ m = g.policy.maxCandidates
  BY BranchesAssumption DEF Shape
<1>2. \E y \in {c, m} : \A z \in {c, m} : y <= z
  <2>1. CASE c <= m
    BY <2>1
  <2>2. CASE m <= c
    BY <2>2
  <2> QED BY <2>1, <2>2
<1>3. Min({c, m}) \in {c, m}
  BY <1>2 DEF Min
<1>4. PICK y \in Nat : y = Min({c, m})
  BY <1>3
<1>5. \E x \in {2, y} : \A z \in {2, y} : x >= z
  <2>1. CASE y >= 2
    BY <2>1
  <2>2. CASE y < 2
    BY <2>2
  <2> QED BY <2>1, <2>2
<1>6. Max({2, y}) \in {2, y} /\ Max({2, y}) >= 2
  BY <1>5 DEF Max
<1> QED BY <1>1, <1>4, <1>6 DEF CandidateCount

\* Cancelling an unfinished task changes no finished one.
LEMMA CancelShapes ==
  ASSUME NEW s, Shape(s), NEW t \in BranchTasks, NEW c, c = CancelOriginal(s, t)
  PROVE  /\ Shape(c) /\ c.n = s.n /\ c.groups = s.groups /\ c.votes = s.votes
         /\ c.reward = s.reward /\ c.policy = s.policy /\ c.purpose = s.purpose
         /\ \A x \in BranchTasks : c.st[x] = "Done" <=> s.st[x] = "Done"
<1>1. CASE c = s
  BY <1>1
<1>2. CASE c = [s EXCEPT !.st[t] = "Cancelled"] /\ s.st[t] # "Done"
  <2>1. PICK st : st = [s.st EXCEPT ![t] = "Cancelled"] /\ c = [s EXCEPT !.st = st]
    BY <1>2 DEF Shape, GoalFields
  <2>2. /\ c = [f \in GoalFields |-> c[f]] /\ c.st = st
        /\ c.n = s.n /\ c.groups = s.groups /\ c.votes = s.votes
        /\ c.reward = s.reward /\ c.policy = s.policy /\ c.purpose = s.purpose
    BY <2>1 DEF Shape, GoalFields
  <2>3. /\ s.st = [x \in BranchTasks |-> s.st[x]]
    BY DEF Shape
  <2>4. /\ st = [x \in BranchTasks |-> st[x]]
        /\ \A x \in BranchTasks : st[x] = "Done" <=> s.st[x] = "Done"
    BY <1>2, <2>1, <2>3
  <2>5. Shape(c)
    BY <2>2, <2>4 DEF Shape
  <2> QED BY <2>2, <2>4, <2>5
<1> QED BY <1>1, <1>2 DEF CancelOriginal, TerminalTask

LEMMA BranchTaskKeeps ==
  ASSUME BranchInv, NEW r \in BranchRequests, BranchTask(r)
  PROVE  /\ BranchInv'
         /\ DOMAIN goal.groups \subseteq DOMAIN goal'.groups
         /\ \A i \in DOMAIN goal.groups : goal'.groups[i] = goal.groups[i]
<1> DEFINE k == CandidateCount(goal, r)
           s == SpawnTasks(goal, k, "CandidateBranch", goal.deps[r.target])
           c == CancelOriginal(s, r.target)
           x == BranchGroup(r.target,
                    IF r.strategy = "default" THEN goal.policy.strategy ELSE r.strategy,
                    NextTasks(goal, k))
           a == [c EXCEPT !.groups = Append(c.groups, x)]
<1>1. GoalInv(goal) /\ Resolved(goal) /\ Pace(goal) /\ Shape(goal)
  BY DEF BranchInv, GoalInv
<1>2. k \in Nat /\ k >= 2
  BY <1>1, CandidateCountPositive
<1>3. goal.policy.enabled /\ RoomFor(goal, k) /\ r.target \in BranchTasks
  BY DEF BranchTask, Born
<1>4. goal' = RefreshStatus(a)
  BY DEF BranchTask
<1> HIDE DEF k
<1>5. /\ Shape(s) /\ s.n = goal.n + k
      /\ s.groups = goal.groups /\ s.votes = goal.votes /\ s.reward = goal.reward
      /\ s.policy = goal.policy
      /\ \A t \in BranchTasks :
             s.st[t] = IF t \in NextTasks(goal, k) THEN "Runnable" ELSE goal.st[t]
      /\ \A t \in BranchTasks :
             s.purpose[t] = IF t \in NextTasks(goal, k) THEN "CandidateBranch"
                            ELSE goal.purpose[t]
  BY <1>1, <1>2, SpawnShapes
<1> HIDE DEF s
<1>6. /\ Shape(c) /\ c.n = s.n /\ c.groups = s.groups /\ c.votes = s.votes
      /\ c.reward = s.reward /\ c.policy = s.policy /\ c.purpose = s.purpose
      /\ \A t \in BranchTasks : c.st[t] = "Done" <=> s.st[t] = "Done"
  BY <1>3, <1>5, CancelShapes
<1> HIDE DEF c
<1>7. PICK S : goal.groups \in Seq(S)
  BY <1>1 DEF Shape
<1>8. PICK n \in Nat : n = Len(goal.groups) /\ DOMAIN goal.groups = 1..n
  BY <1>7
<1>9. GroupShape(x) /\ x.candidates = NextTasks(goal, k) /\ x.voters = {} /\ x.unifier = None
      /\ x.status = "CandidatesSpawned"
  BY DEF GroupShape, GroupFields, BranchGroup
<1> HIDE DEF x
<1>10. PICK gs : gs = Append(goal.groups, x)
  OBVIOUS
<1>11. /\ gs \in Seq(S \cup {x}) /\ DOMAIN gs = 1..(n + 1) /\ gs[n + 1] = x
       /\ \A i \in 1..n : gs[i] = goal.groups[i]
  BY <1>7, <1>8, <1>10
<1>12. /\ a = [f \in GoalFields |-> a[f]]
       /\ a.groups = gs /\ a.n = c.n /\ a.st = c.st /\ a.purpose = c.purpose
       /\ a.reward = c.reward /\ a.votes = c.votes /\ a.policy = c.policy
  BY <1>5, <1>6, <1>10 DEF Shape, GoalFields
<1> HIDE DEF a
<1>13. Shape(a)
  BY <1>6, <1>11, <1>12 DEF Shape
<1>14. /\ goal.n \in Nat /\ a.n = goal.n + k /\ goal.n < a.n /\ a.n <= MaxBranchTasks
       /\ NextTasks(goal, k) = (goal.n + 1)..a.n
       /\ 1..goal.n \cap NextTasks(goal, k) = {}
  <2>1. goal.n \in Nat /\ a.n = goal.n + k
    BY <1>1, <1>5, <1>6, <1>12 DEF Shape
  <2> QED BY <1>2, <1>3, <2>1 DEF RoomFor, NextTasks
<1>15. 1..a.n \subseteq BranchTasks /\ 1..goal.n \subseteq BranchTasks
       /\ NextTasks(goal, k) \subseteq BranchTasks
  <2>1. 1..a.n \subseteq BranchTasks
    BY <1>13, <1>14, TasksAreFinite
  <2>2. PICK m \in Nat, p \in Nat : m = goal.n /\ p = a.n /\ m < p
    BY <1>13, <1>14 DEF Shape
  <2>3. 1..m \subseteq 1..p /\ (m + 1)..p \subseteq 1..p
    BY <2>2
  <2> QED BY <1>14, <2>1, <2>2, <2>3
<1>16. NewGroup(goal, a, n)
  <2>1. \A t \in 1..goal.n :
            (a.st[t] = "Done" <=> goal.st[t] = "Done") /\ a.purpose[t] = goal.purpose[t]
    BY <1>5, <1>6, <1>12, <1>14, <1>15
  <2>2. \A t \in NextTasks(goal, k) : a.st[t] # "Done"
    BY <1>5, <1>6, <1>12, <1>15
  <2>3. \A t \in BranchTasks : a.st[t] = "Done" => goal.st[t] = "Done"
    BY <1>5, <1>6, <1>12
  <2>4. a.votes = goal.votes /\ a.reward = goal.reward /\ a.policy = goal.policy
    BY <1>5, <1>6, <1>12
  <2> QED BY <1>3, <1>9, <1>11, <1>12, <1>13, <1>14, <2>1, <2>2, <2>3, <2>4 DEF NewGroup
<1>17. GoalInv(a) /\ Resolved(a) /\ Pace(a)
  BY <1>1, <1>8, <1>16, NewGroupKeeps
<1>18. Alike(a, goal')
  BY <1>4, <1>17, RefreshIsAlike
<1>19. GoalInv(goal') /\ Resolved(goal')
       /\ \A i \in DOMAIN a.groups : PaceAt(a, a.groups[i]) => PaceAt(goal', goal'.groups[i])
  BY <1>17, <1>18, AlikeKeeps
<1>20. Pace(goal')
  BY <1>17, <1>18, <1>19 DEF Alike, Pace
<1>21. BranchInv'
  BY <1>19, <1>20 DEF BranchInv
<1>22. DOMAIN goal.groups \subseteq DOMAIN goal'.groups
  BY <1>8, <1>11, <1>12, <1>18 DEF Alike
<1>23. \A i \in DOMAIN goal.groups : goal'.groups[i] = goal.groups[i]
  BY <1>8, <1>11, <1>12, <1>18 DEF Alike
<1> QED BY <1>21, <1>22, <1>23

-----------------------------------------------------------------------------
(* The other operations. *)

\* An operator's selection settles a group, whatever its status was.
LEMMA SelectionKeeps ==
  ASSUME BranchInv, NEW i \in DOMAIN goal.groups, NEW c, ApplyBranchSelection(i, c)
  PROVE  BranchInv' /\ goal'.st = goal.st
<1> DEFINE x == [goal.groups[i] EXCEPT !.selected = c, !.status = "Selected"]
           a == [goal EXCEPT !.groups = [goal.groups EXCEPT ![i] = x]]
<1>1. GoalInv(goal) /\ Shape(goal) /\ Resolved(goal) /\ Pace(goal)
  BY DEF BranchInv, GoalInv
<1>2. goal' = RefreshStatus(a)
  <2>1. PICK S : goal.groups \in Seq(S)
    BY <1>1 DEF Shape
  <2>2. a = [goal EXCEPT !.groups[i].selected = c, !.groups[i].status = "Selected"]
    BY <1>1, <2>1 DEF Shape, GoalFields
  <2> QED BY <2>2 DEF ApplyBranchSelection
<1>3. GroupOk(goal, goal.groups[i])
  BY <1>1 DEF GoalInv
<1>4. /\ GroupShape(x) /\ x.status = "Selected"
      /\ x.strategy = goal.groups[i].strategy /\ x.candidates = goal.groups[i].candidates
      /\ x.voters = goal.groups[i].voters /\ x.unifier = goal.groups[i].unifier
  BY <1>3 DEF GroupOk, GroupShape, GroupFields
<1> HIDE DEF x
<1>5. /\ Shape(a) /\ DOMAIN a.groups = DOMAIN goal.groups /\ a.groups[i] = x
      /\ \A j \in DOMAIN goal.groups : j # i => a.groups[j] = goal.groups[j]
      /\ a.n = goal.n /\ a.st = goal.st /\ a.purpose = goal.purpose
      /\ a.reward = goal.reward /\ a.votes = goal.votes /\ a.policy = goal.policy
  BY <1>1, ChangeGroupShapes
<1> HIDE DEF a
<1>6. Judges(x) = Judges(goal.groups[i])
  BY <1>4 DEF Judges
<1>7. GroupOk(a, x) /\ Reached(a, x)
  BY <1>3, <1>4, <1>5, <1>6 DEF GroupOk, Reached, GroupStatus
<1>8. /\ goal.n \in Nat /\ goal.n <= a.n /\ a.n <= MaxBranchTasks
      /\ (goal.n + 1)..a.n = {}
  BY <1>1, <1>5 DEF GoalInv, Shape
<1>9. OneGroup(goal, a, i)
  BY <1>4, <1>5, <1>6, <1>7, <1>8 DEF OneGroup
<1>10. /\ GoalInv(a) /\ Resolved(a)
       /\ \A j \in DOMAIN goal.groups \ {i} :
                PaceAt(goal, goal.groups[j]) => PaceAt(a, a.groups[j])
  BY <1>1, <1>4, <1>5, <1>9, OneGroupKeeps
<1>11. PaceAt(a, a.groups[i])
  BY <1>4, <1>5 DEF PaceAt
<1>12. Pace(a)
  BY <1>1, <1>5, <1>10, <1>11 DEF Pace
<1>13. Alike(a, goal')
  BY <1>2, <1>10, RefreshIsAlike
<1>14. /\ GoalInv(goal') /\ Resolved(goal')
       /\ \A j \in DOMAIN a.groups : PaceAt(a, a.groups[j]) => PaceAt(goal', goal'.groups[j])
  BY <1>10, <1>13, AlikeKeeps
<1>15. Pace(goal')
  BY <1>12, <1>13, <1>14 DEF Alike, Pace
<1>16. goal'.st = a.st
  <2>1. PICK s : goal' = [a EXCEPT !.status = s]
    BY <1>2 DEF RefreshStatus
  <2> QED BY <1>10, <2>1 DEF GoalInv, Shape, GoalFields
<1> QED BY <1>5, <1>14, <1>15, <1>16 DEF BranchInv

\* A task that is not done gets a status that is not done either.
LEMMA StatusIsAlike ==
  ASSUME NEW g, GoalInv(g), NEW t \in BranchTasks, g.st[t] # "Done",
         NEW s, s # "Done", NEW n,
         NEW h, h = [g EXCEPT !.failures = n, !.st[t] = s]
  PROVE  Alike(g, h)
<1>1. PICK st : st = [g.st EXCEPT ![t] = s] /\ h = [g EXCEPT !.failures = n, !.st = st]
  BY DEF GoalInv, Shape, GoalFields
<1>2. /\ h = [f \in GoalFields |-> h[f]] /\ h.st = st
      /\ h.n = g.n /\ h.groups = g.groups /\ h.votes = g.votes
      /\ h.reward = g.reward /\ h.policy = g.policy /\ h.purpose = g.purpose
  BY <1>1 DEF GoalInv, Shape, GoalFields
<1>3. g.st = [x \in BranchTasks |-> g.st[x]]
  BY DEF GoalInv, Shape
<1>4. /\ st = [x \in BranchTasks |-> st[x]]
      /\ \A x \in BranchTasks : st[x] = "Done" <=> g.st[x] = "Done"
  BY <1>1, <1>3
<1>5. Shape(h)
  <2>1. Shape(g)
    BY DEF GoalInv
  <2>2. /\ h.n \in Nat /\ 1 <= h.n /\ h.policy \in BranchPolicies
        /\ h.reward \in [BranchTasks -> Nat]
        /\ h.purpose = [x \in BranchTasks |-> h.purpose[x]]
    BY <1>2, <2>1 DEF Shape
  <2>3. \E S : h.groups \in Seq(S)
    BY <1>2, <2>1 DEF Shape
  <2>4. h.st = [x \in BranchTasks |-> h.st[x]]
    BY <1>2, <1>4
  <2> QED BY <1>2, <2>2, <2>3, <2>4 DEF Shape
<1> QED BY <1>2, <1>4, <1>5 DEF Alike

LEMMA AlikeKeepsBranches ==
  ASSUME BranchInv, NEW h, Alike(goal, h)
  PROVE  GoalInv(h) /\ Resolved(h) /\ Pace(h) /\ h.groups = goal.groups
<1>1. /\ GoalInv(h) /\ Resolved(h)
      /\ \A j \in DOMAIN goal.groups : PaceAt(goal, goal.groups[j]) => PaceAt(h, h.groups[j])
  BY AlikeKeeps DEF BranchInv
<1> QED BY <1>1 DEF Alike, BranchInv, Pace

LEMMA RefusalKeeps ==
  ASSUME BranchInv, NEW t \in Born(goal), NEW o, RefuseVote(t, o)
  PROVE  BranchInv' /\ goal'.groups = goal.groups
<1>1. goal.st[t] # "Done" /\ t \in BranchTasks
  BY DEF RefuseVote, RunnableTask, Born
<1>2. goal' = [goal EXCEPT !.failures = goal.failures + 1, !.st[t] = "NeedsValidation"]
  BY DEF RefuseVote
<1>3. GoalInv(goal) /\ "NeedsValidation" # "Done"
  BY DEF BranchInv
<1>4. PICK n : n = goal.failures + 1
  OBVIOUS
<1>5. goal' = [goal EXCEPT !.failures = n, !.st[t] = "NeedsValidation"]
  BY <1>2, <1>4
<1>6. Alike(goal, goal')
  BY <1>1, <1>3, <1>5, StatusIsAlike
<1> QED BY <1>6, AlikeKeepsBranches DEF BranchInv

LEMMA RestartKeeps ==
  ASSUME BranchInv, NEW t \in Born(goal), RestartBranchTask(t)
  PROVE  BranchInv' /\ goal'.groups = goal.groups
<1> DEFINE a == [goal EXCEPT !.failures = goal.failures, !.st[t] = "Runnable"]
<1>1. goal.st[t] # "Done" /\ t \in BranchTasks
  BY DEF RestartBranchTask, Born
<1>2. goal' = RefreshStatus(a)
  <2>1. a = [goal EXCEPT !.st[t] = "Runnable"]
    BY DEF BranchInv, GoalInv, Shape, GoalFields
  <2> QED BY <2>1 DEF RestartBranchTask
<1>3. GoalInv(goal) /\ "Runnable" # "Done"
  BY DEF BranchInv
<1>4. Alike(goal, a)
  BY <1>1, <1>3, StatusIsAlike
<1> HIDE DEF a
<1>5. GoalInv(a) /\ Resolved(a) /\ Pace(a) /\ a.groups = goal.groups
  BY <1>4, AlikeKeepsBranches
<1>6. Alike(a, goal')
  BY <1>2, <1>5, RefreshIsAlike
<1>7. /\ GoalInv(goal') /\ Resolved(goal')
      /\ \A j \in DOMAIN a.groups : PaceAt(a, a.groups[j]) => PaceAt(goal', goal'.groups[j])
  BY <1>5, <1>6, AlikeKeeps
<1>8. Pace(goal')
  BY <1>5, <1>6, <1>7 DEF Alike, Pace
<1> QED BY <1>5, <1>6, <1>7, <1>8 DEF Alike, BranchInv

LEMMA RunKeeps ==
  ASSUME BranchInv, NEW t \in Born(goal), NEW o \in Outcomes(goal, t), RunBranchTask(t, o)
  PROVE  BranchInv' /\ SelectsWell(goal, goal')
<1>1. PICK n : \E ran : ran = [goal EXCEPT !.failures = n]
                 /\ goal' = EnsureBranchFrontier(ApplyBranchValidation(ran, t, o))
  BY DEF RunBranchTask
<1> PICK ran : ran = [goal EXCEPT !.failures = n]
               /\ goal' = EnsureBranchFrontier(ApplyBranchValidation(ran, t, o))
  BY <1>1
<1>2. /\ goal.st[t] = "Runnable" /\ goal'.n <= MaxBranchTasks
      /\ o.vote # NoVote => ValidVote(goal, o.vote)
  BY DEF RunBranchTask, RunnableTask
<1>3. /\ ran = [f \in GoalFields |-> ran[f]] /\ ran.st = goal.st
      /\ ran.n = goal.n /\ ran.groups = goal.groups /\ ran.votes = goal.votes
      /\ ran.reward = goal.reward /\ ran.policy = goal.policy /\ ran.purpose = goal.purpose
  BY DEF BranchInv, GoalInv, Shape, GoalFields
<1>4. Alike(goal, ran)
  <2>1. Shape(ran)
    BY <1>3 DEF BranchInv, GoalInv, Shape
  <2> QED BY <1>3, <2>1 DEF Alike
<1>5. GoalInv(ran)
  BY <1>4, AlikeKeepsBranches
<1>6. t \in 1..ran.n /\ ran.st[t] = "Runnable"
  <2>1. t \in BranchTasks /\ t <= goal.n
    BY DEF Born
  <2> QED BY <1>2, <1>3, <2>1 DEF BranchTasks
<1>7. o.reward \in {1, 2}
  BY DEF Outcomes
<1>8. o.vote # NoVote => FairVote(ran, t, o.vote)
  <2> SUFFICES ASSUME o.vote # NoVote PROVE FairVote(ran, t, o.vote)
    OBVIOUS
  <2>1. PICK i \in DOMAIN goal.groups, c \in Born(goal) \ {RootTask}, conf \in {1, 2} :
            o.vote = BranchVote(t, i, c, conf)
    BY DEF Outcomes
  <2>2. o.vote.voter = t /\ o.vote.confidence \in Nat
    BY <2>1 DEF BranchVote
  <2>3. ValidVote(ran, o.vote)
    BY <1>2, <1>3 DEF ValidVote, TerminalOk
  <2> QED BY <2>2, <2>3 DEF FairVote
<1>9. GoalInv(goal') /\ Resolved(goal') /\ Pace(goal') /\ SelectsWell(ran, goal')
  <2>1. PICK h : h = goal'
    OBVIOUS
  <2>2. h = EnsureBranchFrontier(ApplyBranchValidation(ran, t, o)) /\ h.n <= MaxBranchTasks
    BY <1>2, <2>1
  <2>3. GoalInv(h) /\ Resolved(h) /\ Pace(h) /\ SelectsWell(ran, h)
    <3>1. /\ GoalInv(ran) /\ t \in 1..ran.n /\ ran.st[t] = "Runnable"
          /\ o.reward \in {1, 2} /\ (o.vote # NoVote => FairVote(ran, t, o.vote))
          /\ h = EnsureBranchFrontier(ApplyBranchValidation(ran, t, o)) /\ h.n <= MaxBranchTasks
      BY <1>5, <1>6, <1>7, <1>8, <2>2
    <3> QED BY ONLY <3>1, ValidationKeeps, SMTT(30)
  <2> QED BY <2>1, <2>3
<1>10. SelectsWell(goal, goal')
  BY <1>3, <1>9 DEF SelectsWell
<1> QED BY <1>9, <1>10 DEF BranchInv

LEMMA IdleKeeps ==
  ASSUME BranchInv, IdleFrontier
  PROVE  BranchInv' /\ SelectsWell(goal, goal')
<1>1. goal' = EnsureBranchFrontier(goal) /\ goal'.n <= MaxBranchTasks
  BY DEF IdleFrontier
<1>2. GoalInv(goal') /\ Resolved(goal') /\ Pace(goal') /\ Steady(goal, goal')
  BY <1>1, FrontierKeeps DEF BranchInv
<1> QED BY <1>2 DEF BranchInv, Steady, SelectsWell

\* Every step keeps the invariant, and one that runs or finishes a task selects
\* well.
LEMMA BranchStep ==
  ASSUME BranchInv, [BranchNext]_goal
  PROVE  /\ BranchInv'
         /\ goal'.st # goal.st => SelectsWell(goal, goal')
<1>1. ASSUME \A i \in DOMAIN goal.groups : goal'.groups[i] = goal.groups[i], BranchInv',
             DOMAIN goal.groups \subseteq DOMAIN goal'.groups
      PROVE  SelectsWell(goal, goal')
  BY <1>1 DEF SelectsWell
<1>2. ASSUME NEW r \in BranchRequests, BranchTask(r)
      PROVE  BranchInv' /\ (goal'.st # goal.st => SelectsWell(goal, goal'))
  <2>1. BranchInv' /\ \A i \in DOMAIN goal.groups : goal'.groups[i] = goal.groups[i]
    BY <1>2, BranchTaskKeeps
  <2>2. DOMAIN goal.groups \subseteq DOMAIN goal'.groups
    BY <1>2, BranchTaskKeeps
  <2> QED BY <1>1, <2>1, <2>2
<1>3. ASSUME NEW i \in DOMAIN goal.groups, NEW c \in Born(goal), ApplyBranchSelection(i, c)
      PROVE  BranchInv' /\ (goal'.st # goal.st => SelectsWell(goal, goal'))
  BY <1>3, SelectionKeeps
<1>4. ASSUME NEW t \in Born(goal), NEW o \in Outcomes(goal, t), RunBranchTask(t, o)
      PROVE  BranchInv' /\ (goal'.st # goal.st => SelectsWell(goal, goal'))
  BY <1>4, RunKeeps
<1>5. ASSUME NEW t \in Born(goal), NEW o \in Outcomes(goal, t), RefuseVote(t, o)
      PROVE  BranchInv' /\ (goal'.st # goal.st => SelectsWell(goal, goal'))
  <2>1. BranchInv' /\ goal'.groups = goal.groups
    BY <1>5, RefusalKeeps
  <2> QED BY <1>1, <2>1
<1>6. ASSUME NEW t \in Born(goal), RestartBranchTask(t)
      PROVE  BranchInv' /\ (goal'.st # goal.st => SelectsWell(goal, goal'))
  <2>1. BranchInv' /\ goal'.groups = goal.groups
    BY <1>6, RestartKeeps
  <2> QED BY <1>1, <2>1
<1>7. CASE IdleFrontier
  BY <1>7, IdleKeeps
<1>8. CASE UNCHANGED goal
  BY <1>8 DEF BranchInv
<1> QED BY <1>2, <1>3, <1>4, <1>5, <1>6, <1>7, <1>8 DEF BranchNext

LEMMA BranchStarts == BranchInit => BranchInv
<1> SUFFICES ASSUME BranchInit PROVE BranchInv
  OBVIOUS
<1>1. PICK p \in BranchPolicies :
        goal = [policy |-> p, status |-> "Running", n |-> 1,
                st |-> [t \in BranchTasks |-> IF t = RootTask THEN "Runnable" ELSE "Unborn"],
                purpose |-> [t \in BranchTasks |-> "Work"],
                deps |-> [t \in BranchTasks |-> {}],
                failures |-> 0,
                reward |-> [t \in BranchTasks |-> None],
                groups |-> <<>>, votes |-> {}]
  BY DEF BranchInit
<1>2. goal = [f \in GoalFields |-> goal[f]]
  BY <1>1 DEF GoalFields
<1>3. /\ goal.n = 1 /\ goal.groups = <<>> /\ goal.votes = {} /\ goal.policy \in BranchPolicies
      /\ goal.st = [t \in BranchTasks |-> IF t = RootTask THEN "Runnable" ELSE "Unborn"]
      /\ goal.purpose = [t \in BranchTasks |-> "Work"]
      /\ goal.reward = [t \in BranchTasks |-> None]
  BY <1>1
<1>4. /\ goal.st = [t \in BranchTasks |-> goal.st[t]]
      /\ goal.purpose = [t \in BranchTasks |-> goal.purpose[t]]
      /\ goal.reward \in [BranchTasks -> Nat]
      /\ \A t \in BranchTasks : goal.st[t] # "Done"
  BY <1>3 DEF None
<1>5. goal.groups \in Seq({}) /\ DOMAIN goal.groups = {}
  BY <1>3
<1>6. Shape(goal)
  BY <1>2, <1>3, <1>4, <1>5 DEF Shape
<1>7. goal.n <= MaxBranchTasks
  BY <1>3, BranchesAssumption
<1>8. IsFiniteSet(goal.votes)
  BY <1>3, FS_EmptySet
<1>9. GoalInv(goal)
  BY <1>3, <1>4, <1>5, <1>6, <1>7, <1>8 DEF GoalInv, Apart, VotesOk, Voted, Rewarded
<1> QED BY <1>5, <1>9 DEF BranchInv, Resolved, Pace

\* The invariant says that groups keep pace with their tasks.
LEMMA PaceIsKept == BranchInv => GroupsKeepPace
<1> SUFFICES ASSUME BranchInv PROVE GroupsKeepPace
  OBVIOUS
<1>1. GoalInv(goal) /\ Resolved(goal) /\ Pace(goal)
  BY DEF BranchInv
<1>2. VotesAreIn
  <2> SUFFICES ASSUME NEW i \in DOMAIN goal.groups,
                      goal.groups[i].status \in {"ReadyForUnification", "ReadyForSelection"}
               PROVE  /\ TasksTerminalOk(goal, goal.groups[i].candidates)
                      /\ \A v \in goal.groups[i].voters :
                          /\ goal.st[v] = "Done"
                          /\ Cardinality({w \in GroupVotes(goal, i) : w.voter = v}) = 1
                          /\ \A w \in GroupVotes(goal, i) : goal.st[w.selected] = "Done"
    BY DEF VotesAreIn
  <2>1. GroupOk(goal, goal.groups[i]) /\ Reached(goal, goal.groups[i])
    BY <1>1 DEF GoalInv
  <2>2. TasksTerminalOk(goal, goal.groups[i].candidates)
    BY <2>1 DEF GroupOk, Reached, TasksTerminalOk, TerminalOk
  <2>3. ASSUME NEW v \in goal.groups[i].voters
        PROVE  /\ goal.st[v] = "Done"
               /\ Cardinality({w \in GroupVotes(goal, i) : w.voter = v}) = 1
    <3>1. goal.st[v] = "Done"
      BY <2>1 DEF Reached
    <3>2. PICK w \in goal.votes : w.voter = v /\ w.group = i
      BY <1>1, <3>1 DEF GoalInv, Voted
    <3>3. {u \in GroupVotes(goal, i) : u.voter = v} = {w}
      BY <1>1, <3>2 DEF GroupVotes, GoalInv, VotesOk
    <3> QED BY <3>1, <3>3, FS_Singleton
  <2>4. \A w \in GroupVotes(goal, i) : goal.st[w.selected] = "Done"
    BY <1>1 DEF GroupVotes, GoalInv, VotesOk
  <2> QED BY <2>2, <2>3, <2>4
<1>3. FinishedGroupsAreSettled
  <2> SUFFICES ASSUME NEW i \in DOMAIN goal.groups,
                      TasksTerminalOk(goal, goal.groups[i].candidates
                            \cup goal.groups[i].voters \cup ({goal.groups[i].unifier} \ {None}))
               PROVE  \/ goal.groups[i].status = "Selected"
                      \/ /\ goal.groups[i].status = "ReadyForSelection"
                         /\ \/ goal.groups[i].strategy = "Human"
                            \/ /\ goal.groups[i].strategy # "HighestScore"
                               /\ GroupVotes(goal, i) = {}
    BY DEF FinishedGroupsAreSettled
  <2>1. \A t \in goal.groups[i].candidates \cup Judges(goal.groups[i]) : goal.st[t] = "Done"
    BY DEF TasksTerminalOk, TerminalOk, Judges
  <2>2. PaceAt(goal, goal.groups[i]) /\ Reached(goal, goal.groups[i])
    BY <1>1 DEF GoalInv, Pace
  <2>3. goal.groups[i].status \in {"ReadyForSelection", "Selected"}
    BY <2>1, <2>2 DEF PaceAt, Reached, GroupStatus
  <2>4. goal.groups[i].status = "ReadyForSelection" =>
            \/ goal.groups[i].strategy = "Human"
            \/ goal.groups[i].strategy # "HighestScore" /\ \A v \in goal.votes : v.group # i
    BY <1>1 DEF Resolved
  <2> QED BY <2>3, <2>4 DEF GroupVotes
<1> QED BY <1>2, <1>3 DEF GroupsKeepPace

\* ensure_branch_frontier leaves no group behind its tasks: a group asks for a
\* selection when every vote is in and not before, and is settled when all of
\* its tasks are validated, for any policies, results and requests.
THEOREM BranchGroupsKeepPace == BranchSpec => []GroupsKeepPace
<1>1. BranchInit => BranchInv
  BY BranchStarts
<1>2. BranchInv /\ [BranchNext]_goal => BranchInv'
  BY BranchStep
<1> QED BY <1>1, <1>2, PaceIsKept, PTL DEF BranchSpec

\* A candidate that auto_selected_branch_task selected has the votes its strategy
\* asks for, at the step that selects it, also when the votes of one candidate
\* or a frontier that settles several groups came in any order.
THEOREM SelectionIsWellFounded == BranchSpec => SelectionHasTheVotes
<1> DEFINE Picks == \A i \in DOMAIN goal.groups :
        LET before == goal.groups[i]
            after == goal'.groups[i]
        IN  /\ before.status # "Selected" /\ after.status = "Selected"
            /\ goal'.st # goal.st
            => /\ goal'.st[after.selected] = "Done"
               /\ before.strategy \in {"VoterQuorum", "UnifierDecision"} =>
                    \A c \in after.candidates :
                        Cardinality(VotesFor(goal', i, c))
                            <= Cardinality(VotesFor(goal', i, after.selected))
               /\ before.strategy = "HighestScore" =>
                    \A c \in after.candidates : goal'.reward[c] <= goal'.reward[after.selected]
<1>1. BranchInit => BranchInv
  BY BranchStarts
<1>2. BranchInv /\ [BranchNext]_goal => BranchInv'
  BY BranchStep
<1>3. BranchInv /\ [BranchNext]_goal => Picks
  <2> SUFFICES ASSUME BranchInv, [BranchNext]_goal, NEW i \in DOMAIN goal.groups,
                      goal.groups[i].status # "Selected", goal'.groups[i].status = "Selected",
                      goal'.st # goal.st
               PROVE  /\ goal'.st[goal'.groups[i].selected] = "Done"
                      /\ goal.groups[i].strategy \in {"VoterQuorum", "UnifierDecision"} =>
                            \A c \in goal'.groups[i].candidates :
                                Cardinality(VotesFor(goal', i, c))
                                    <= Cardinality(VotesFor(goal', i, goal'.groups[i].selected))
                      /\ goal.groups[i].strategy = "HighestScore" =>
                            \A c \in goal'.groups[i].candidates :
                                goal'.reward[c] <= goal'.reward[goal'.groups[i].selected]
    OBVIOUS
  <2>1. SelectsWell(goal, goal')
    BY BranchStep
  <2>2. WellChosen(goal', i) /\ goal'.groups[i].strategy = goal.groups[i].strategy
    BY <2>1 DEF SelectsWell
  <2> QED BY <2>2 DEF WellChosen
<1>4. SelectionHasTheVotes <=> [][Picks]_goal
  BY PTL DEF SelectionHasTheVotes
<1> QED BY <1>1, <1>2, <1>3, <1>4, PTL DEF BranchSpec
-----------------------------------------------------------------------------
(* The pool: runners that take tasks and runners still starting never pass *)
(* the maximum together, so that their sum does not saturate; after a step *)
(* up they do not pass what the demand calls for.                          *)

Total(supply) == supply.dispatchable + supply.pending

PoolInv ==
    /\ pool \in [policy : PoolPolicies, demand : Demands, supply : Supply,
                 last : {"Steady", "ScaleUp", "ScaleDown"}]
    /\ Total(pool.supply) <= pool.policy.max
    /\ pool.last = "ScaleUp" =>
          Total(pool.supply) <= DesiredRunners(pool.policy, pool.demand, pool.supply)

LEMMA MinOfTwo ==
  ASSUME NEW a \in Nat, NEW b \in Nat
  PROVE  /\ Min({a, b}) \in Nat /\ Min({a, b}) <= a /\ Min({a, b}) <= b
         /\ Min({a, b}) \in {a, b}
<1> DEFINE m == IF a <= b THEN a ELSE b
<1>1. m \in {a, b} /\ \A y \in {a, b} : m <= y
  OBVIOUS
<1>2. \A x \in {a, b} : (\A y \in {a, b} : x <= y) => x = m
  OBVIOUS
<1>3. Min({a, b}) = m
  BY <1>1, <1>2 DEF Min
<1> QED BY <1>1, <1>3

LEMMA MaxOfThree ==
  ASSUME NEW a \in Nat, NEW b \in Nat, NEW c \in Nat
  PROVE  Max({a, b, c}) \in Nat
<1> DEFINE m == IF a >= b THEN (IF a >= c THEN a ELSE c) ELSE (IF b >= c THEN b ELSE c)
<1>1. m \in {a, b, c} /\ \A y \in {a, b, c} : m >= y
  OBVIOUS
<1>2. Max({a, b, c}) \in {a, b, c}
  BY <1>1 DEF Max
<1> QED BY <1>2

LEMMA CeilDivNat ==
  ASSUME NEW n \in Nat, NEW d \in Nat
  PROVE  CeilDiv(n, d) \in Nat
<1>1. Max({d, 1}) \in Nat /\ Max({d, 1}) >= 1
  BY MaxOfTwo
<1>2. n # 0 => (n - 1) \div Max({d, 1}) \in Nat
  <2>1. \A k \in Nat, m \in Nat : m >= 1 => k \div m \in Nat
    OBVIOUS
  <2> QED BY <1>1, <2>1
<1> QED BY <1>2 DEF CeilDiv

LEMMA SatNat ==
  ASSUME NEW n \in Nat
  PROVE  Sat(n) \in Nat /\ Sat(n) <= n /\ (n <= MaxU32 => Sat(n) = n)
BY MinOfTwo, MaxU32Assumption DEF Sat

\* The plan never asks for more than the policy's maximum.
LEMMA DesiredInRange ==
  ASSUME NEW p \in PoolPolicies, NEW d \in Demands, NEW s \in Supply
  PROVE  DesiredRunners(p, d, s) \in Nat /\ DesiredRunners(p, d, s) <= p.max
<1>1. /\ p.min \in Nat /\ p.max \in Nat /\ p.slots \in Nat /\ p.backlog \in Nat
      /\ p.utilization \in Nat /\ p.headroom \in Nat /\ p.eventWeight \in Nat
  BY PoolAssumption, MaxU32Assumption
<1>2. /\ d.queued \in Nat /\ d.running \in Nat /\ d.unmatched \in Nat
      /\ d.events \in Nat /\ d.boost \in Nat /\ s.running \in Nat
  BY PoolAssumption DEF Demand, Supply
<1>3. \A a, b \in Nat : a * b \in Nat /\ a + b \in Nat
  OBVIOUS
<1>4. DemandUnits(p, d) \in Nat
  <2> DEFINE e == IF p.fromEvents THEN Sat(d.events * Max({p.eventWeight, 1})) ELSE 0
  <2>1. e \in Nat
    BY <1>1, <1>2, <1>3, MaxOfTwo, SatNat
  <2>2. Sat(d.queued + d.unmatched) \in Nat
    BY <1>2, SatNat
  <2> HIDE DEF e
  <2>3. Sat(Sat(d.queued + d.unmatched) + e) \in Nat
    BY <2>1, <2>2, SatNat
  <2>4. Sat(Sat(Sat(d.queued + d.unmatched) + e) + d.boost) \in Nat
    BY <1>2, <2>3, SatNat
  <2> QED BY <2>4 DEF DemandUnits, e
<1>5. UtilizationRunners(p, d, s) \in Nat
  <2>1. Max({d.running, s.running}) * 100 \in Nat
    BY <1>2, MaxOfTwo
  <2>2. Max({1, Min({p.utilization, 100})}) \in Nat
    BY <1>1, MinOfTwo, MaxOfTwo
  <2>3. Max({p.slots, 1}) * Max({1, Min({p.utilization, 100})}) \in Nat
    BY <1>1, <1>3, <2>2, MaxOfTwo
  <2> QED BY <2>1, <2>3, SatNat, CeilDivNat DEF UtilizationRunners
<1>6. Sat(CeilDiv(DemandUnits(p, d), Max({p.backlog, 1})) + p.headroom) \in Nat
  <2>1. Max({p.backlog, 1}) \in Nat
    BY <1>1, MaxOfTwo
  <2>2. CeilDiv(DemandUnits(p, d), Max({p.backlog, 1})) \in Nat
    BY <1>4, <2>1, CeilDivNat
  <2>3. CeilDiv(DemandUnits(p, d), Max({p.backlog, 1})) + p.headroom \in Nat
    BY <1>1, <2>2
  <2> QED BY <2>3, SatNat
<1>7. Max({p.min, Sat(CeilDiv(DemandUnits(p, d), Max({p.backlog, 1})) + p.headroom),
           UtilizationRunners(p, d, s)}) \in Nat
  BY <1>1, <1>5, <1>6, MaxOfThree
<1> QED BY <1>1, <1>7, MinOfTwo DEF DesiredRunners

\* Only the tasks that run on a pool count in what is desired of it.
LEMMA DesiredBySupply ==
  ASSUME NEW p, NEW d, NEW s, NEW t, s.running = t.running
  PROVE  DesiredRunners(p, d, s) = DesiredRunners(p, d, t)
BY DEF DesiredRunners, UtilizationRunners

LEMMA PoolStarts == PoolInit => PoolInv
<1> SUFFICES ASSUME PoolInit PROVE PoolInv
  OBVIOUS
<1>1. pool.policy.max \in Nat
  BY PoolAssumption, MaxU32Assumption DEF PoolInit
<1> QED BY <1>1 DEF PoolInit, PoolInv, NoSupply, Total, Supply

\* What a step of the plan adds fits under the target, and it retires only
\* what exceeds it.
LEMMA PlanBounds ==
  ASSUME PoolInv
  PROVE  LET desired == DesiredRunners(pool.policy, pool.demand, pool.supply)
             total == Total(pool.supply)
         IN  /\ EffectiveRunners(pool.supply) = total
             /\ Recommended.provision \in Nat /\ Recommended.retire \in Nat
             /\ Recommended.action = IF desired > total THEN "ScaleUp"
                                     ELSE IF total > desired THEN "ScaleDown" ELSE "Steady"
             /\ desired > total => total + Recommended.provision <= desired
             /\ desired <= total => Recommended.provision = 0
<1> DEFINE desired == DesiredRunners(pool.policy, pool.demand, pool.supply)
           total == Total(pool.supply)
<1>1. /\ total \in Nat /\ total <= pool.policy.max
      /\ pool.policy.max \in Nat /\ pool.policy.max <= MaxU32
      /\ pool.policy.up \in Nat /\ pool.policy.down \in Nat
  BY PoolAssumption, MaxU32Assumption DEF PoolInv, Total, Supply
<1>2. desired \in Nat
  BY DesiredInRange DEF PoolInv
<1>3. EffectiveRunners(pool.supply) = total
  BY <1>1, SatNat, MaxU32Assumption DEF EffectiveRunners, Total
<1>4. /\ SatSub(desired, total) \in Nat /\ SatSub(total, desired) \in Nat
      /\ desired > total => SatSub(desired, total) = desired - total
      /\ desired <= total => SatSub(desired, total) = 0
  BY <1>1, <1>2 DEF SatSub
<1>5. /\ Recommended.provision = Min({SatSub(desired, total), pool.policy.up})
      /\ Recommended.retire = Min({SatSub(total, desired), pool.policy.down})
      /\ Recommended.action = IF desired > total THEN "ScaleUp"
                              ELSE IF total > desired THEN "ScaleDown" ELSE "Steady"
  BY <1>3 DEF Recommended, RecommendPoolScaling
<1> HIDE DEF desired, total
<1>6. /\ Recommended.provision \in Nat /\ Recommended.retire \in Nat
      /\ Recommended.provision <= SatSub(desired, total)
  BY <1>1, <1>4, <1>5, MinOfTwo
<1> QED BY <1>1, <1>2, <1>3, <1>4, <1>5, <1>6 DEF desired, total

\* Every step of the pool keeps the bound, and none that leaves the demand
\* alone scales down after it scaled up.
LEMMA PoolStep ==
  ASSUME PoolInv, [PoolNext]_pool
  PROVE  /\ PoolInv'
         /\ pool'.policy = pool.policy
         /\ (pool'.demand = pool.demand /\ pool.last = "ScaleUp") => pool'.last # "ScaleDown"
<1> DEFINE desired == DesiredRunners(pool.policy, pool.demand, pool.supply)
           total == Total(pool.supply)
<1>0. /\ pool.policy \in PoolPolicies /\ pool.demand \in Demands
      /\ pool.last \in {"Steady", "ScaleUp", "ScaleDown"}
      /\ pool.supply = [dispatchable |-> pool.supply.dispatchable,
                        running |-> pool.supply.running, pending |-> pool.supply.pending]
      /\ pool.supply.dispatchable \in Nat /\ pool.supply.running \in Nat
      /\ pool.supply.pending \in Nat
      /\ pool = [policy |-> pool.policy, demand |-> pool.demand,
                 supply |-> pool.supply, last |-> pool.last]
      /\ pool.policy.max \in Nat /\ total <= pool.policy.max
      /\ pool.last = "ScaleUp" => total <= desired
  BY PoolAssumption, MaxU32Assumption DEF PoolInv, Supply
<1>1. desired \in Nat /\ desired <= pool.policy.max /\ total \in Nat
  BY <1>0, DesiredInRange DEF PoolInv, Total
<1>2. CASE FollowPlan
  <2> DEFINE stopped == Min({Recommended.retire, pool.supply.dispatchable})
             added == Recommended.provision
             supply == [dispatchable |-> pool.supply.dispatchable - stopped,
                        running |-> pool.supply.running,
                        pending |-> pool.supply.pending + added]
  <2>1. /\ added \in Nat /\ Recommended.retire \in Nat
        /\ Recommended.action = IF desired > total THEN "ScaleUp"
                                ELSE IF total > desired THEN "ScaleDown" ELSE "Steady"
        /\ desired > total => total + added <= desired
        /\ desired <= total => added = 0
    BY PlanBounds
  <2>2. stopped \in Nat /\ stopped <= pool.supply.dispatchable
    BY <1>0, <2>1, MinOfTwo
  <2>3. pool' = [policy |-> pool.policy, demand |-> pool.demand,
                 supply |-> supply, last |-> Recommended.action]
    BY <1>0, <1>2 DEF FollowPlan
  <2> HIDE DEF stopped, added
  <2>4. supply \in Supply /\ Total(supply) = total + added - stopped
    BY <1>0, <2>1, <2>2 DEF Supply, Total
  <2>5. DesiredRunners(pool.policy, pool.demand, supply) = desired
    BY DesiredBySupply
  <2> HIDE DEF desired, total, supply
  <2>6. Total(supply) <= pool.policy.max
    BY <1>0, <1>1, <2>1, <2>2, <2>4
  <2>7. Recommended.action = "ScaleUp" => Total(supply) <= desired
    BY <1>1, <2>1, <2>2, <2>4
  <2>8. pool.last = "ScaleUp" => Recommended.action # "ScaleDown"
    BY <1>0, <1>1, <2>1
  <2>9. Recommended.action \in {"Steady", "ScaleUp", "ScaleDown"}
    BY <2>1
  <2> QED BY <1>0, <2>3, <2>4, <2>5, <2>6, <2>7, <2>8, <2>9 DEF PoolInv
<1>3. CASE RunnerArrives
  <2> DEFINE supply == [dispatchable |-> pool.supply.dispatchable + 1,
                        running |-> pool.supply.running,
                        pending |-> pool.supply.pending - 1]
  <2>1. pool' = [policy |-> pool.policy, demand |-> pool.demand,
                 supply |-> supply, last |-> pool.last]
    BY <1>0, <1>3 DEF RunnerArrives
  <2>2. supply \in Supply /\ Total(supply) = total
    BY <1>0, <1>3 DEF RunnerArrives, Supply, Total
  <2>3. DesiredRunners(pool.policy, pool.demand, supply) = desired
    BY DesiredBySupply
  <2> QED BY <1>0, <2>1, <2>2, <2>3 DEF PoolInv
<1>4. CASE RunnerLost
  <2> DEFINE supply == [dispatchable |-> pool.supply.dispatchable - 1,
                        running |-> pool.supply.running,
                        pending |-> pool.supply.pending]
  <2>1. pool' = [policy |-> pool.policy, demand |-> pool.demand,
                 supply |-> supply, last |-> "Steady"]
    BY <1>0, <1>4 DEF RunnerLost
  <2>2. supply \in Supply /\ Total(supply) = total - 1
    BY <1>0, <1>4 DEF RunnerLost, Supply, Total
  <2>3. Total(supply) <= pool.policy.max
    BY <1>0, <1>1, <2>2
  <2> QED BY <1>0, <2>1, <2>2, <2>3 DEF PoolInv
<1>5. CASE DemandMoves
  BY <1>0, <1>5 DEF DemandMoves, PoolInv
<1>6. CASE UNCHANGED pool
  BY <1>0, <1>6 DEF PoolInv
<1> QED BY <1>2, <1>3, <1>4, <1>5, <1>6 DEF PoolNext

\* Following recommend_pool_scaling never takes a pool past its policy's
\* maximum, however many runners are still starting, and does not turn round
\* while the demand stands still.
THEOREM PlanHolds == PoolSpec => PlanDoesNotOvershoot
<1>1. PoolInit => PoolInv
  BY PoolStarts
<1>2. PoolInv /\ [PoolNext]_pool => PoolInv'
  BY PoolStep
<1>3. PoolInv /\ PoolInv' /\ [PoolNext]_pool =>
        [/\ EffectiveRunners(pool'.supply) <= pool.policy.max
         /\ (pool'.demand = pool.demand /\ pool.last = "ScaleUp") => pool'.last # "ScaleDown"
        ]_pool
  <2> SUFFICES ASSUME PoolInv, PoolInv', [PoolNext]_pool
      PROVE  /\ EffectiveRunners(pool'.supply) <= pool.policy.max
             /\ (pool'.demand = pool.demand /\ pool.last = "ScaleUp") => pool'.last # "ScaleDown"
    OBVIOUS
  <2>1. EffectiveRunners(pool'.supply) = Total(pool'.supply)
    <3>1. Total(pool'.supply) \in Nat /\ Total(pool'.supply) <= MaxU32
      <4>1. pool'.supply \in Supply /\ Total(pool'.supply) <= pool'.policy.max
        BY DEF PoolInv
      <4>2. pool'.policy.max \in Nat /\ pool'.policy.max <= MaxU32
        BY PoolAssumption, MaxU32Assumption DEF PoolInv
      <4> QED BY <4>1, <4>2, MaxU32Assumption DEF Supply, Total
    <3> QED BY <3>1, SatNat DEF EffectiveRunners, Total
  <2>2. Total(pool'.supply) <= pool.policy.max
    BY PoolStep DEF PoolInv
  <2> QED BY <2>1, <2>2, PoolStep
<1> QED BY <1>1, <1>2, <1>3, PTL DEF PoolSpec, PlanDoesNotOvershoot

-----------------------------------------------------------------------------
(* Scenarios. *)

\* f is the recursive function that starts with base and steps with Step.
Listing(spec, f, D) ==
    f = [i \in D |-> IF i = 0 THEN <<>>
                     ELSE f[i - 1] \o [k \in 1..Len(spec.actions[i].results) |->
                                          [value |-> spec.actions[i].results[k],
                                           action |-> spec.actions[i]]]]
Placing(results, f, D) ==
    f = [i \in D |-> IF i = 0 THEN <<>> ELSE PlaceTask(f[i - 1], results[i])]

LEMMA ListingExists ==
  ASSUME NEW spec, NEW n \in Nat
  PROVE  \E f : Listing(spec, f, 0..n)
<1> DEFINE Rest(i) == [k \in 1..Len(spec.actions[i].results) |->
                          [value |-> spec.actions[i].results[k], action |-> spec.actions[i]]]
           Ks == {k \in Nat : \E f : Listing(spec, f, 0..k)}
<1>1. 0 \in Ks
  <2> DEFINE f == [k \in 0..0 |-> <<>>]
  <2>1. f = [i \in 0..0 |-> IF i = 0 THEN <<>> ELSE f[i - 1] \o Rest(i)]
    <3> HIDE DEF Rest
    <3> QED OBVIOUS
  <2>2. Listing(spec, f, 0..0)
    <3> HIDE DEF f
    <3> QED BY <2>1 DEF Listing
  <2> HIDE DEF f
  <2> QED BY <2>2
<1>2. ASSUME NEW k \in Nat, k \in Ks PROVE k + 1 \in Ks
  <2>1. PICK f : Listing(spec, f, 0..k)
    BY <1>2
  <2> DEFINE h == [j \in 0..(k + 1) |-> IF j = 0 THEN <<>> ELSE f[j - 1] \o Rest(j)]
  <2> HIDE DEF Rest
  <2>2. f = [j \in 0..k |-> IF j = 0 THEN <<>> ELSE f[j - 1] \o Rest(j)]
    BY <2>1 DEF Listing, Rest
  <2>3. ASSUME NEW j \in 0..k PROVE h[j] = f[j]
    <3>1. f[j] = IF j = 0 THEN <<>> ELSE f[j - 1] \o Rest(j)
      BY <2>2, Zenon
    <3>2. j \in 0..(k + 1)
      OBVIOUS
    <3> QED BY <3>1, <3>2, Zenon
  <2>4. \A j \in 0..(k + 1) : j # 0 => j - 1 \in 0..k
    OBVIOUS
  <2>5. h = [j \in 0..(k + 1) |-> IF j = 0 THEN <<>> ELSE h[j - 1] \o Rest(j)]
    <3> HIDE DEF h
    <3>1. \A j \in 0..(k + 1) : j # 0 => h[j - 1] = f[j - 1]
      BY <2>3, <2>4
    <3> QED BY <3>1 DEF h
  <2>6. Listing(spec, h, 0..(k + 1))
    <3> HIDE DEF h
    <3> QED BY <2>5 DEF Listing, Rest
  <2> HIDE DEF h
  <2> QED BY <2>6
<1>3. Nat \subseteq Ks
  <2> HIDE DEF Ks
  <2> QED BY <1>1, <1>2, NatSetInduction
<1> QED BY <1>3

LEMMA PlacingExists ==
  ASSUME NEW results, NEW n \in Nat
  PROVE  \E f : Placing(results, f, 0..n)
<1> DEFINE Ks == {k \in Nat : \E f : Placing(results, f, 0..k)}
<1>1. 0 \in Ks
  <2> DEFINE f == [k \in 0..0 |-> <<>>]
  <2>1. Placing(results, f, 0..0)
    BY DEF Placing
  <2> QED BY <2>1
<1>2. ASSUME NEW k \in Nat, k \in Ks PROVE k + 1 \in Ks
  <2>1. PICK f : Placing(results, f, 0..k)
    BY <1>2
  <2> DEFINE h == [j \in 0..(k + 1) |-> IF j = 0 THEN <<>> ELSE PlaceTask(f[j - 1], results[j])]
  <2>2. \A j \in 0..k : h[j] = f[j]
    BY <2>1 DEF Placing
  <2>3. \A j \in 0..(k + 1) : j # 0 => j - 1 \in 0..k
    OBVIOUS
  <2>4. h = [j \in 0..(k + 1) |-> IF j = 0 THEN <<>> ELSE PlaceTask(h[j - 1], results[j])]
    <3> HIDE DEF h
    <3>1. \A j \in 0..(k + 1) : j # 0 => h[j - 1] = f[j - 1]
      BY <2>2, <2>3
    <3> QED BY <3>1 DEF h
  <2>5. Placing(results, h, 0..(k + 1))
    <3> HIDE DEF h
    <3> QED BY <2>4 DEF Placing
  <2> HIDE DEF h
  <2> QED BY <2>5
<1>3. Nat \subseteq Ks
  <2> HIDE DEF Ks
  <2> QED BY <1>1, <1>2, NatSetInduction
<1> QED BY <1>3

Entries(spec) == {[value |-> v, action |-> a] : v \in SpecResults(spec), a \in ActionsOf(spec)}

\* The results of a scenario are a list.
LEMMA ResultsAreAList ==
  ASSUME NEW spec \in ScenarioFiles
  PROVE  ResultList(spec) \in Seq(Entries(spec))
<1> DEFINE L == Len(spec.actions)
           f == CHOOSE f : f = [i \in 0..Len(spec.actions) |-> IF i = 0 THEN <<>>
                     ELSE f[i - 1] \o [k \in 1..Len(spec.actions[i].results) |->
                                          [value |-> spec.actions[i].results[k],
                                           action |-> spec.actions[i]]]]
<1>1. L \in Nat /\ DOMAIN spec.actions = 1..L
  BY ScenarioAssumption
<1>2. Listing(spec, f, 0..L)
  <2>1. PICK h : Listing(spec, h, 0..L)
    BY <1>1, ListingExists
  <2> QED BY <2>1 DEF Listing
<1>3. ResultList(spec) = f[L]
  BY DEF ResultList
<1> HIDE DEF f
<1> DEFINE Ks == {k \in Nat : k \in 0..L => f[k] \in Seq(Entries(spec))}
<1> HIDE DEF L
<1>4. 0 \in Ks
  BY <1>1, <1>2 DEF Listing
<1>5. ASSUME NEW k \in Nat, k \in Ks PROVE k + 1 \in Ks
  <2> SUFFICES ASSUME k + 1 \in 0..L PROVE f[k + 1] \in Seq(Entries(spec))
    OBVIOUS
  <2> DEFINE a == spec.actions[k + 1]
             rest == [j \in 1..Len(a.results) |-> [value |-> a.results[j], action |-> a]]
  <2>1. f[k] \in Seq(Entries(spec)) /\ k + 1 # 0 /\ (k + 1) - 1 = k
    BY <1>1, <1>5
  <2>2. f[k + 1] = f[k] \o rest
    BY <1>2, <2>1 DEF Listing
  <2>3. a \in ActionsOf(spec)
    BY <1>1 DEF ActionsOf
  <2>4. a.results \in Seq(ResultsOf(a)) /\ ResultsOf(a) \subseteq SpecResults(spec)
    BY <2>3, ScenarioAssumption DEF SpecResults
  <2>5. Len(a.results) \in Nat /\ \A j \in 1..Len(a.results) : a.results[j] \in SpecResults(spec)
    <3> HIDE DEF a
    <3> QED BY <2>4
  <2>6. rest \in Seq(Entries(spec))
    <3> HIDE DEF a
    <3>1. \A j \in 1..Len(a.results) : [value |-> a.results[j], action |-> a] \in Entries(spec)
      BY <2>3, <2>5 DEF Entries
    <3> QED BY <2>5, <3>1
  <2> HIDE DEF rest
  <2> QED BY <2>1, <2>2, <2>6
<1>6. Nat \subseteq Ks
  <2> HIDE DEF Ks
  <2> QED BY <1>4, <1>5, NatSetInduction
<1> QED BY <1>1, <1>3, <1>6

\* The id a result was placed under.
Fits(id, entry) == IF Name(entry) # NoTaskId THEN id = Name(entry) ELSE id[1] = "task"

\* What k placed results have left.
Placed(results, tasks, k) ==
    /\ tasks = [t \in 1..Len(tasks) |-> tasks[t]] /\ Len(tasks) \in Nat
    /\ \A i \in 1..k : (\A j \in 1..k : j > i => ~MayReplace(results[j], results[i])) =>
          \E t \in DOMAIN tasks : /\ Fits(tasks[t].id, results[i])
                                  /\ tasks[t].status = TaskStatusFrom(results[i].value)

LEMMA ReplacesOnlyIts ==
  ASSUME NEW e, NEW d, ~MayReplace(e, d), NEW x, NEW y, Fits(x, e), Fits(y, d)
  PROVE  x # y
BY DEF MayReplace, Fits

LEMMA PlacingKeeps ==
  ASSUME NEW results, NEW tasks, NEW k \in Nat, Placed(results, tasks, k)
  PROVE  Placed(results, PlaceTask(tasks, results[k + 1]), k + 1)
<1> DEFINE e == results[k + 1]
           h == PlaceTask(tasks, e)
           id == CASE e.value.task # NoTaskId -> e.value.task
                   [] e.value.task = NoTaskId /\ e.action.task # NoTaskId -> e.action.task
                   [] OTHER -> <<"task", Len(tasks) + 1>>
           task == ScenarioTask(id, TaskStatusFrom(e.value), e.action.purpose, e.value)
<1>1. Fits(id, e)
  <2>1. CASE e.value.task # NoTaskId
    BY <2>1 DEF Fits, Name
  <2>2. CASE e.value.task = NoTaskId /\ e.action.task # NoTaskId
    BY <2>2 DEF Fits, Name
  <2>3. CASE e.value.task = NoTaskId /\ e.action.task = NoTaskId
    <3>1. id = <<"task", Len(tasks) + 1>>
      BY <2>3
    <3> QED BY <2>3, <3>1 DEF Fits, Name
  <2> QED BY <2>1, <2>2, <2>3
<1>2. h = IF \E i \in DOMAIN tasks : tasks[i].id = id
          THEN [i \in DOMAIN tasks |-> IF tasks[i].id = id THEN task ELSE tasks[i]]
          ELSE Append(tasks, task)
  BY DEF PlaceTask
<1>3. task.id = id /\ task.status = TaskStatusFrom(e.value)
  BY DEF ScenarioTask
<1> HIDE DEF id, task, h, e
<1>4. /\ h = [t \in 1..Len(h) |-> h[t]] /\ Len(h) \in Nat
      /\ \E t \in DOMAIN h : h[t] = task
      /\ \A t \in DOMAIN tasks : tasks[t].id # id => t \in DOMAIN h /\ h[t] = tasks[t]
  <2>0. tasks = [t \in 1..Len(tasks) |-> tasks[t]] /\ Len(tasks) \in Nat
    BY DEF Placed
  <2>1. CASE \E i \in DOMAIN tasks : tasks[i].id = id
    <3>1. h = [i \in DOMAIN tasks |-> IF tasks[i].id = id THEN task ELSE tasks[i]]
      BY <1>2, <2>1
    <3>2. DOMAIN h = 1..Len(tasks)
      BY <2>0, <3>1
    <3>3. Len(h) = Len(tasks)
      BY <2>0, <3>1
    <3> QED BY <2>0, <2>1, <3>1, <3>2, <3>3
  <2>2. CASE ~\E i \in DOMAIN tasks : tasks[i].id = id
    <3>1. h = Append(tasks, task)
      BY <1>2, <2>2
    <3>2. DOMAIN h = 1..(Len(tasks) + 1) /\ Len(h) = Len(tasks) + 1
      BY <2>0, <3>1
    <3>3. h[Len(tasks) + 1] = task /\ \A t \in 1..Len(tasks) : h[t] = tasks[t]
      BY <2>0, <3>1
    <3>4. h = [t \in 1..Len(h) |-> h[t]] /\ Len(h) \in Nat
      <4> DEFINE S == {tasks[t] : t \in 1..Len(tasks)} \cup {task}
      <4>1. task \in S /\ \A t \in 1..Len(tasks) : tasks[t] \in S
        OBVIOUS
      <4> HIDE DEF S
      <4>2. tasks \in Seq(S)
        BY <2>0, <4>1
      <4>3. h \in Seq(S)
        BY <3>1, <4>1, <4>2
      <4> QED BY <4>3
    <3>5. \E t \in DOMAIN h : h[t] = task
      BY <2>0, <3>2, <3>3
    <3>6. \A t \in DOMAIN tasks : t \in DOMAIN h
      BY <2>0, <3>2
    <3> QED BY <2>0, <3>3, <3>4, <3>5, <3>6
  <2> QED BY <2>1, <2>2
<1>5. ASSUME NEW i \in 1..(k + 1),
             \A j \in 1..(k + 1) : j > i => ~MayReplace(results[j], results[i])
      PROVE  \E t \in DOMAIN h : /\ Fits(h[t].id, results[i])
                                 /\ h[t].status = TaskStatusFrom(results[i].value)
  <2>1. CASE i = k + 1
    BY <1>1, <1>3, <1>4, <2>1 DEF e
  <2>2. CASE i # k + 1
    <3>1. i \in 1..k /\ ~MayReplace(e, results[i])
      BY <1>5, <2>2 DEF e
    <3>2. \A j \in 1..k : j > i => ~MayReplace(results[j], results[i])
      BY <1>5
    <3>3. PICK t \in DOMAIN tasks : /\ Fits(tasks[t].id, results[i])
                                    /\ tasks[t].status = TaskStatusFrom(results[i].value)
      BY <3>1, <3>2 DEF Placed
    <3>4. tasks[t].id # id
      BY <1>1, <3>1, <3>3, ReplacesOnlyIts
    <3> QED BY <1>4, <3>3, <3>4
  <2> QED BY <2>1, <2>2
<1>6. Placed(results, h, k + 1)
  BY <1>4, <1>5 DEF Placed
<1> QED BY <1>6 DEF h, e

LEMMA ImageIsFinite ==
  ASSUME NEW S, IsFiniteSet(S), NEW f, DOMAIN f = S
  PROVE  IsFiniteSet({f[x] : x \in S})
<1> DEFINE T == {f[x] : x \in S}
           g == [x \in S |-> f[x]]
<1>1. g \in Surjection(S, T)
  BY DEF Surjection
<1> HIDE DEF g, T
<1>2. IsFiniteSet(T)
  BY <1>1, FS_Surjection
<1> QED BY <1>2 DEF T

\* The tasks that are added to reach the expected counts are finitely many.
LEMMA MissingIsFinite ==
  ASSUME NEW spec \in ScenarioFiles, NEW tasks,
         \A s : IsFiniteSet(WithStatus(tasks, s))
  PROVE  IsFiniteSet(MissingTasks(tasks, spec.expected.taskCounts))
<1> DEFINE counts == spec.expected.taskCounts
           range(s) == (Cardinality(WithStatus(tasks, s)) + 1)..counts[s]
           pads(s) == {<<"pad", s, n>> : n \in range(s)}
<1>1. ASSUME NEW s \in DOMAIN counts PROVE IsFiniteSet(pads(s))
  <2>1. Cardinality(WithStatus(tasks, s)) \in Nat /\ counts[s] \in Nat
    BY FS_CardinalityType, ScenarioAssumption
  <2>2. IsFiniteSet(range(s))
    BY <2>1, FS_Interval
  <2> DEFINE f == [n \in range(s) |-> <<"pad", s, n>>]
  <2>3. pads(s) = {f[n] : n \in range(s)} /\ DOMAIN f = range(s)
    OBVIOUS
  <2> HIDE DEF range, f
  <2> QED BY <2>2, <2>3, ImageIsFinite
<1>2. IsFiniteSet({pads(s) : s \in DOMAIN counts})
  <2> DEFINE f == [s \in DOMAIN counts |-> pads(s)]
  <2>1. {pads(s) : s \in DOMAIN counts} = {f[s] : s \in DOMAIN counts} /\ DOMAIN f = DOMAIN counts
    <3> HIDE DEF pads
    <3> QED OBVIOUS
  <2>2. IsFiniteSet(DOMAIN counts)
    BY ScenarioAssumption
  <2> HIDE DEF pads, f, counts
  <2>3. IsFiniteSet({f[s] : s \in DOMAIN counts})
    BY <2>1, <2>2, ImageIsFinite
  <2> QED BY <2>1, <2>3
<1>3. IsFiniteSet(UNION {pads(s) : s \in DOMAIN counts})
  <2> HIDE DEF pads
  <2> QED BY <1>1, <1>2, FS_UNION
<1> QED BY <1>3 DEF MissingTasks

\* The last result of each task is among the tasks of the fixture.
LEMMA FixtureHasTheLast ==
  ASSUME NEW spec \in ScenarioFiles, NEW i \in LastResults(spec)
  PROVE  \E t \in TasksIn(ProjectionFromScenario(spec)) :
            t.status = TaskStatusFrom(ResultList(spec)[i].value)
<1> DEFINE results == ResultList(spec)
           L == Len(results)
           f == CHOOSE f : f = [n \in 0..Len(results) |->
                                   IF n = 0 THEN <<>> ELSE PlaceTask(f[n - 1], results[n])]
<1>1. L \in Nat /\ DOMAIN results = 1..L
  BY ResultsAreAList
<1>2. Placing(results, f, 0..L)
  <2>1. PICK h : Placing(results, h, 0..L)
    BY <1>1, PlacingExists
  <2> QED BY <2>1 DEF Placing
<1>3. TasksFromScenario(spec) = PadTasks(f[L], spec.expected.taskCounts)
  BY DEF TasksFromScenario
<1> HIDE DEF f, L
<1> DEFINE Ks == {k \in Nat : k \in 0..L => Placed(results, f[k], k)}
<1> HIDE DEF results
<1>4. 0 \in Ks
  <2>1. f[0] = <<>>
    BY <1>1, <1>2 DEF Placing
  <2>2. Placed(results, <<>>, 0)
    BY DEF Placed
  <2> QED BY <2>1, <2>2
<1>5. ASSUME NEW k \in Nat, k \in Ks PROVE k + 1 \in Ks
  <2> SUFFICES ASSUME k + 1 \in 0..L PROVE Placed(results, f[k + 1], k + 1)
    OBVIOUS
  <2>1. Placed(results, f[k], k) /\ k + 1 # 0 /\ (k + 1) - 1 = k
    BY <1>1, <1>5
  <2>2. f[k + 1] = PlaceTask(f[k], results[k + 1])
    BY <1>2, <2>1 DEF Placing
  <2> QED BY <2>1, <2>2, PlacingKeeps
<1>6. Nat \subseteq Ks
  <2> HIDE DEF Ks
  <2> QED BY <1>4, <1>5, NatSetInduction
<1> DEFINE tasks == f[L]
           missing == MissingTasks(tasks, spec.expected.taskCounts)
<1>7. Placed(results, tasks, L)
  BY <1>1, <1>6
<1> HIDE DEF tasks
<1>8. PICK t \in DOMAIN tasks : tasks[t].status = TaskStatusFrom(results[i].value)
  <2>1. i \in 1..L /\ \A j \in 1..L : j > i => ~MayReplace(results[j], results[i])
    BY <1>1 DEF LastResults, results
  <2> QED BY <1>7, <2>1 DEF Placed
<1>9. Cardinality(missing) \in Nat
  <2>1. ASSUME NEW s PROVE IsFiniteSet(WithStatus(tasks, s))
    <3>1. IsFiniteSet(1..Len(tasks)) /\ DOMAIN tasks = 1..Len(tasks)
      BY <1>7, FS_Interval DEF Placed
    <3>2. WithStatus(tasks, s) \subseteq 1..Len(tasks)
      BY <3>1 DEF WithStatus
    <3> QED BY <3>1, <3>2, FS_Subset
  <2>2. IsFiniteSet(missing)
    <3> HIDE DEF missing
    <3> QED BY <2>1, MissingIsFinite DEF missing
  <2> HIDE DEF missing
  <2> QED BY <2>2, FS_CardinalityType
<1>10. PICK pads : /\ TasksFromScenario(spec) = tasks \o pads
                   /\ pads = [n \in 1..Cardinality(missing) |-> pads[n]]
  <2> DEFINE counts == spec.expected.taskCounts
             order == CHOOSE g \in [1..Cardinality(MissingTasks(tasks, counts)) -> MissingTasks(tasks, counts)] :
                        \A m \in MissingTasks(tasks, counts) : \E x \in DOMAIN g : g[x] = m
             pad(x) == ScenarioTask(order[x], order[x][2], IF order[x][2] = "done" THEN "work" ELSE "review", NullValue)
             pads == [x \in 1..Cardinality(missing) |-> pad(x)]
  <2>1. TasksFromScenario(spec) = tasks \o pads
    BY <1>3 DEF PadTasks, tasks
  <2> HIDE DEF order
  <2>2. pads = [n \in 1..Cardinality(missing) |-> pads[n]]
    <3> HIDE DEF pad, missing
    <3> QED OBVIOUS
  <2> HIDE DEF pads
  <2> QED BY <2>1, <2>2
<1>11. DOMAIN (tasks \o pads) = 1..(Len(tasks) + Len(pads)) /\ Len(pads) \in Nat
       /\ Len(tasks) \in Nat
       /\ \A n \in 1..Len(tasks) : (tasks \o pads)[n] = tasks[n]
  <2>1. tasks = [n \in 1..Len(tasks) |-> tasks[n]] /\ Len(tasks) \in Nat
    BY <1>7 DEF Placed
  <2> QED BY <1>9, <1>10, <2>1
<1>12. TasksFromScenario(spec)[t] = tasks[t] /\ t \in DOMAIN TasksFromScenario(spec)
  <2>1. DOMAIN tasks = 1..Len(tasks)
    BY <1>7 DEF Placed
  <2>2. t \in 1..Len(tasks) /\ t \in 1..(Len(tasks) + Len(pads))
    BY <1>8, <1>11, <2>1
  <2> QED BY <1>10, <1>11, <2>2
<1>13. ProjectionFromScenario(spec).tasks = TasksFromScenario(spec)
  BY DEF ProjectionFromScenario
<1> QED BY <1>8, <1>12, <1>13 DEF TasksIn, results

\* What the evidence of a run says of the scenario it judged.
ReportOk(r) ==
    r.passed => /\ r.spec \in ScenarioFiles
                /\ Evaluate(r.spec, r.projection)
                /\ r.mode # "gateway_http" => r.projection = FixtureProjection(r.spec)
CommandOk ==
    /\ scenario.phase \notin {"idle", "ended"} => scenario.spec \in ScenarioFiles
    /\ scenario.phase \in {"collected", "evidence"} /\ scenario.mode # "gateway_http" =>
          scenario.projection = FixtureProjection(scenario.spec)
ScenarioFields == {"phase", "runs", "spec", "at", "known", "mode", "projection", "seeded"}
ScenarioInv ==
    /\ scenario = [k \in ScenarioFields |-> scenario[k]]
    /\ disk = [k \in {"evidence", "report"} |-> disk[k]]
    /\ CommandOk /\ ReportOk(disk.evidence) /\ ReportOk(disk.report)

LEMMA ScenarioInvInit == ScenarioInit => ScenarioInv
<1> SUFFICES ASSUME ScenarioInit PROVE ScenarioInv
  OBVIOUS
<1>1. scenario = [k \in ScenarioFields |-> scenario[k]] /\ scenario.phase = "idle"
  BY DEF ScenarioInit, IdleRun, ScenarioFields
<1>2. disk = [evidence |-> NoReport, report |-> NoReport] /\ ~NoReport.passed
  BY DEF ScenarioInit, NoReport
<1>3. disk = [k \in {"evidence", "report"} |-> disk[k]] /\ ~disk.evidence.passed /\ ~disk.report.passed
  <2> DEFINE none == NoReport
  <2> HIDE DEF none
  <2>1. disk = [evidence |-> none, report |-> none] /\ ~none.passed
    BY <1>2 DEF none
  <2> QED BY <2>1
<1> QED BY <1>1, <1>3 DEF ScenarioInv, CommandOk, ReportOk

\* A step of the command that leaves the run directory alone.
LEMMA CommandMoves ==
  ASSUME ScenarioInv, UNCHANGED disk, CommandOk',
         (scenario = [k \in ScenarioFields |-> scenario[k]])'
  PROVE  ScenarioInv'
BY DEF ScenarioInv, ReportOk

LEMMA CollectedIsOk ==
  ASSUME ScenarioInv, scenario.phase \in {"ready", "driving"}, UNCHANGED disk,
         NEW p, NEW mode, Collected(p, mode),
         mode = "gateway_http" \/ p = FixtureProjection(scenario.spec)
  PROVE  ScenarioInv'
<1>1. /\ scenario'.phase = "collected" /\ scenario'.projection = p /\ scenario'.mode = mode
      /\ scenario'.spec = scenario.spec
      /\ scenario' = [k \in ScenarioFields |-> scenario'[k]]
  BY DEF Collected, ScenarioInv, ScenarioFields
<1>2. scenario.spec \in ScenarioFiles
  BY DEF ScenarioInv, CommandOk
<1> QED BY <1>1, <1>2, CommandMoves DEF CommandOk

LEMMA BailIsOk ==
  ASSUME ScenarioInv, Bail
  PROVE  ScenarioInv'
<1>1. scenario'.phase = "ended" /\ scenario' = [k \in ScenarioFields |-> scenario'[k]]
  BY DEF Bail, ScenarioInv, ScenarioFields
<1> QED BY <1>1, CommandMoves DEF CommandOk, Bail

LEMMA ScenarioInvStep == ScenarioInv /\ [ScenarioNext]_scenarioVars => ScenarioInv'
<1> SUFFICES ASSUME ScenarioInv, [ScenarioNext]_scenarioVars PROVE ScenarioInv'
  OBVIOUS
<1>1. CASE ReadSpec
  <2>1. PICK spec \in ScenarioFiles :
          scenario' = [IdleRun(scenario.runs + 1) EXCEPT
                        !.phase = IF ValidateSpec(spec) THEN "ready" ELSE "ended", !.spec = spec]
    BY <1>1 DEF ReadSpec
  <2>2. /\ scenario'.spec = spec /\ scenario'.phase \in {"ready", "ended"}
        /\ scenario' = [k \in ScenarioFields |-> scenario'[k]]
    BY <2>1 DEF IdleRun, ScenarioFields
  <2> QED BY <1>1, <2>2, CommandMoves DEF CommandOk, ReadSpec
<1>2. CASE ReplayFixture
  BY <1>2, CollectedIsOk, BailIsOk DEF ReplayFixture
<1>3. CASE ProbeGateway
  <2>1. CASE Collected(FixtureProjection(scenario.spec), "offline_fixture")
    BY <1>3, <2>1, CollectedIsOk DEF ProbeGateway
  <2>2. CASE scenario' = [scenario EXCEPT !.phase = "driving", !.at = 1,
                !.known = ScenarioGoalIds(scenario.spec, FixtureProjection(scenario.spec))]
    <3>1. /\ scenario'.phase = "driving" /\ scenario'.spec = scenario.spec
          /\ scenario' = [k \in ScenarioFields |-> scenario'[k]]
      BY <2>2 DEF ScenarioInv, ScenarioFields
    <3>2. scenario.spec \in ScenarioFiles
      BY <1>3 DEF ScenarioInv, CommandOk, ProbeGateway
    <3> QED BY <1>3, <3>1, <3>2, CommandMoves DEF CommandOk, ProbeGateway
  <2> QED BY <1>3, <2>1, <2>2 DEF ProbeGateway
<1>4. CASE ExecuteAction
  <2>1. CASE Bail
    BY <2>1, BailIsOk
  <2>2. CASE ~Bail
    <3>1. PICK known : scenario' = [scenario EXCEPT !.at = @ + 1]
                     \/ scenario' = [[scenario EXCEPT !.at = @ + 1] EXCEPT !.known = known]
      BY <1>4, <2>2 DEF ExecuteAction
    <3>2. UNCHANGED disk /\ scenario.phase = "driving"
      BY <1>4, <2>2 DEF ExecuteAction
    <3>3. /\ scenario'.phase = "driving" /\ scenario'.spec = scenario.spec
          /\ scenario' = [k \in ScenarioFields |-> scenario'[k]]
      BY <3>1, <3>2 DEF ScenarioInv, ScenarioFields
    <3>4. scenario.spec \in ScenarioFiles
      BY <3>2 DEF ScenarioInv, CommandOk
    <3> QED BY <3>2, <3>3, <3>4, CommandMoves DEF CommandOk
  <2> QED BY <2>1, <2>2
<1>5. CASE PollProjection
  <2>1. CASE Bail
    BY <2>1, BailIsOk
  <2>2. CASE ~Bail
    <3>1. UNCHANGED disk /\ scenario.phase = "driving"
      BY <1>5, <2>2 DEF PollProjection
    <3>2. \/ Collected(FixtureProjection(scenario.spec), "gateway_http_with_fixture_projection")
          \/ \E p : Collected(p, "gateway_http")
      BY <1>5, <2>2 DEF PollProjection
    <3> QED BY <3>1, <3>2, CollectedIsOk
  <2> QED BY <2>1, <2>2
<1>6. CASE WriteEvidence
  <2> DEFINE r == [passed |-> Evaluate(scenario.spec, scenario.projection), mode |-> scenario.mode,
                   spec |-> scenario.spec, projection |-> scenario.projection]
  <2>1. disk' = [disk EXCEPT !.evidence = r]
    BY <1>6 DEF WriteEvidence
  <2>2. scenario.spec \in ScenarioFiles
    BY <1>6 DEF ScenarioInv, CommandOk, WriteEvidence
  <2>3. ReportOk(r)
    BY <1>6, <2>2 DEF ReportOk, ScenarioInv, CommandOk, WriteEvidence
  <2> HIDE DEF r
  <2>4. /\ disk'.evidence = r /\ disk'.report = disk.report
        /\ disk' = [k \in {"evidence", "report"} |-> disk'[k]]
    BY <2>1 DEF ScenarioInv
  <2>5. /\ scenario'.phase = "evidence" /\ scenario'.spec = scenario.spec
        /\ scenario'.mode = scenario.mode /\ scenario'.projection = scenario.projection
        /\ scenario' = [k \in ScenarioFields |-> scenario'[k]]
    BY <1>6 DEF ScenarioInv, ScenarioFields, WriteEvidence
  <2>6. CommandOk'
    BY <1>6, <2>2, <2>5 DEF ScenarioInv, CommandOk, WriteEvidence
  <2>7. ReportOk(disk'.evidence) /\ ReportOk(disk'.report)
    BY <2>3, <2>4 DEF ScenarioInv
  <2> QED BY <2>4, <2>5, <2>6, <2>7 DEF ScenarioInv
<1>7. CASE WriteReport
  <2>1. disk' = [disk EXCEPT !.report = disk.evidence]
    BY <1>7 DEF WriteReport
  <2>2. /\ disk'.evidence = disk.evidence /\ disk'.report = disk.evidence
        /\ disk' = [k \in {"evidence", "report"} |-> disk'[k]]
    BY <2>1 DEF ScenarioInv
  <2>3. scenario'.phase = "ended" /\ scenario' = [k \in ScenarioFields |-> scenario'[k]]
    BY <1>7 DEF ScenarioInv, ScenarioFields, WriteReport
  <2>4. CommandOk'
    BY <2>3 DEF CommandOk
  <2>5. ReportOk(disk'.evidence) /\ ReportOk(disk'.report)
    BY <2>2 DEF ScenarioInv
  <2> QED BY <2>2, <2>3, <2>4, <2>5 DEF ScenarioInv
<1>8. CASE SeedScenario
  <2>1. scenario'.phase = "ended" /\ scenario' = [k \in ScenarioFields |-> scenario'[k]]
    BY <1>8 DEF SeedScenario, ScenarioInv, ScenarioFields
  <2> QED BY <1>8, <2>1, CommandMoves DEF CommandOk, SeedScenario
<1>9. CASE EndProcess
  <2>1. scenario'.phase = "idle" /\ scenario' = [k \in ScenarioFields |-> scenario'[k]]
    BY <1>9 DEF EndProcess, IdleRun, ScenarioFields
  <2> QED BY <1>9, <2>1, CommandMoves DEF CommandOk, EndProcess
<1>10. CASE UNCHANGED scenarioVars
  BY <1>10 DEF scenarioVars, ScenarioInv, CommandOk, ReportOk, ScenarioFields
<1> QED
  BY <1>1, <1>2, <1>3, <1>4, <1>5, <1>6, <1>7, <1>8, <1>9, <1>10 DEF ScenarioNext

\* The statuses a worker may answer with that leave somebody waiting are shown
\* as such by the task.
LEMMA NeedsAreShown ==
  ASSUME NEW v, v.status \in BlockedTokens \cup {"failed"}
  PROVE  TaskStatusFrom(v) \in ActionNeededTokens
<1>1. CASE v.status \in BlockedTokens
  <2>1. TaskStatusFrom(v) = "blocked"
    BY <1>1 DEF TaskStatusFrom, BlockedTokens, ResumableWaits, CancelledTokens
  <2> QED BY <2>1 DEF ActionNeededTokens, BlockedTokens
<1>2. CASE v.status = "failed"
  <2>1. TaskStatusFrom(v) = "failed"
    BY <1>2 DEF TaskStatusFrom, BlockedTokens, ResumableWaits, CancelledTokens
  <2> QED BY <2>1 DEF ActionNeededTokens
<1> QED BY <1>1, <1>2

LEMMA ScenarioInvSettled == ScenarioInv => PassedIsSettled
<1> DEFINE r == disk.report
           spec == r.spec
           p == r.projection
<1> SUFFICES ASSUME ScenarioInv, r.passed, OneStatus(spec),
                    p.goalStatus \in CompletedTokens \cup CancelledTokens
             PROVE  /\ \A t \in TasksIn(p) : t.status \notin ActionNeededTokens
                    /\ r.mode # "gateway_http" /\ spec.projection = NoProjection =>
                         \A i \in LastResults(spec) :
                             ResultList(spec)[i].value.status \notin BlockedTokens \cup {"failed"}
  BY DEF PassedIsSettled
<1>1. /\ spec \in ScenarioFiles /\ Evaluate(spec, p)
      /\ r.mode # "gateway_http" => p = FixtureProjection(spec)
  BY DEF ScenarioInv, ReportOk
<1> HIDE DEF r, p
<1>2. ExpectationsMet(spec, p) /\ TerminalStateCheck(spec, p)
  BY <1>1 DEF Evaluate, StateMachineContract
<1> HIDE DEF spec
<1>3. Expectations(spec).goalStatus # "" => p.goalStatus = Expectations(spec).goalStatus
  BY <1>2 DEF ExpectationsMet
<1>4. Expectations(spec).goalStatus =
        IF spec.expectations.goalStatus # "" THEN spec.expectations.goalStatus
        ELSE spec.expected.goalStatus
  BY DEF Expectations
<1>5. ExpectedGoalStatus(spec, p) = p.goalStatus
  BY <1>3, <1>4 DEF ExpectedGoalStatus, OneStatus
<1>6. \A t \in TasksIn(p) : t.status \notin ActionNeededTokens
  BY <1>2, <1>5 DEF TerminalStateCheck
<1>7. ASSUME r.mode # "gateway_http", spec.projection = NoProjection, NEW i \in LastResults(spec),
             ResultList(spec)[i].value.status \in BlockedTokens \cup {"failed"}
      PROVE  FALSE
  <2>1. p = ProjectionFromScenario(spec)
    BY <1>1, <1>7 DEF FixtureProjection
  <2>2. PICK t \in TasksIn(p) : t.status = TaskStatusFrom(ResultList(spec)[i].value)
    BY <1>1, <2>1, FixtureHasTheLast
  <2> QED BY <1>6, <1>7, <2>2, NeedsAreShown
<1> QED BY <1>6, <1>7

\* A passed scenario with a terminal goal left nobody waiting: evaluate and
\* terminal_state_contract_check on the projection tasks_from_scenario makes.
THEOREM PassedStaysSettled == ScenarioSpec => []PassedIsSettled
<1>1. ScenarioInit => ScenarioInv
  BY ScenarioInvInit
<1>2. ScenarioInv /\ [ScenarioNext]_scenarioVars => ScenarioInv'
  BY ScenarioInvStep
<1>3. ScenarioInv => PassedIsSettled
  BY ScenarioInvSettled
<1> QED BY <1>1, <1>2, <1>3, PTL DEF ScenarioSpec
-----------------------------------------------------------------------------
(* The resolved doctrine keeps one item per id *)

LEMMA PresetItems ==
  ASSUME NEW p \in Presets
  PROVE  IsItems(PresetObjectives(p)) /\ IsItems(PresetGates(p))
<1>1. IsItems(PresetObjectives(p))
  <2>1. \A i \in PresetObjectives(p) : i = Item(i.id, TRUE, 8, TRUE)
    BY DEF PresetObjectives, Item
  <2>2. \A i \in PresetObjectives(p) :
            i = Item(i.id, i.required, i.min, i.blocks) /\ i.min = 8
    BY <2>1 DEF Item
  <2>3. OneEach(PresetObjectives(p))
    BY <2>1 DEF OneEach
  <2> QED BY <2>2, <2>3 DEF IsItems
<1>2. IsItems(PresetGates(p))
  <2>1. PICK ids, required : PresetGates(p) = {Item(id, id \in required, NoScore, TRUE) : id \in ids}
    BY DEF PresetGates
  <2>2. \A i \in PresetGates(p) :
            /\ i = Item(i.id, i.id \in required, NoScore, TRUE)
            /\ i.required = (i.id \in required) /\ i.min = NoScore /\ i.blocks = TRUE
    BY <2>1 DEF Item
  <2>3. NoScore \in Nat
    BY DEF NoScore
  <2> QED BY <2>2, <2>3 DEF IsItems, OneEach
<1> QED BY <1>1, <1>2

LEMMA InsertedItems ==
  ASSUME NEW items, IsItems(items), NEW more, IsItems(more)
  PROVE  IsItems(Inserted(items, more))
  BY DEF IsItems, OneEach, Inserted, Ids

LEMMA OverrideItems ==
  ASSUME NEW items, IsItems(items), NEW o, IsOverride(o)
  PROVE  IsItems(Override(items, o))
<1> DEFINE Then(i) == IF i.id = o.id THEN OverriddenItem(i, o) ELSE i
<1>1. CASE o.action = "Disable"
  BY <1>1 DEF Override, IsItems, OneEach
<1>2. CASE o.action # "Disable"
  <2>1. Override(items, o) = {Then(i) : i \in items}
    BY <1>2 DEF Override
  <2>2. ASSUME NEW i \in items
        PROVE  /\ Then(i) = Item(i.id, Then(i).required, Then(i).min, Then(i).blocks)
               /\ Then(i).min \in Nat /\ Then(i).id = i.id
    <3>1. i = Item(i.id, i.required, i.min, i.blocks) /\ i.min \in Nat
      BY DEF IsItems
    <3>2. CASE o.action = "Require"
      BY <3>1, <3>2 DEF OverriddenItem, Item
    <3>3. CASE o.action = "MakeOptional"
      BY <3>1, <3>3 DEF OverriddenItem, Item
    <3>4. CASE o.action = "SetMinScore"
      BY <3>1, <3>4 DEF OverriddenItem, Item, IsOverride
    <3> QED BY <1>2, <3>2, <3>3, <3>4 DEF IsOverride
  <2> HIDE DEF Then
  <2> QED BY <2>1, <2>2 DEF IsItems, OneEach
<1> QED BY <1>1, <1>2

\* The values of the fold over the first k presets, and over the first k overrides.
PresetsRun(f, k, presets, items) ==
    f = [n \in 0..k |-> IF n = 0 THEN {} ELSE Inserted(f[n - 1], items[presets[n]])]
OverridesRun(f, k, items, overrides, target) ==
    f = [n \in 0..k |-> IF n = 0 THEN items
                        ELSE IF overrides[n].target = target
                             THEN Override(f[n - 1], overrides[n]) ELSE f[n - 1]]

LEMMA PresetsRunExists ==
  ASSUME NEW presets, NEW items, NEW k \in Nat
  PROVE  \E f : PresetsRun(f, k, presets, items)
<1> DEFINE S == {m \in Nat : \E f : PresetsRun(f, m, presets, items)}
           Then(list, n) == Inserted(list, items[presets[n]])
<1>1. 0 \in S
  <2> DEFINE f == [n \in 0..0 |-> {}]
  <2>1. PresetsRun(f, 0, presets, items)
    BY DEF PresetsRun
  <2> QED BY <2>1
<1>2. ASSUME NEW m \in Nat, m \in S PROVE m + 1 \in S
  <2>1. PICK f : PresetsRun(f, m, presets, items)
    BY <1>2
  <2> DEFINE g == [n \in 0..m + 1 |-> IF n = m + 1 THEN Then(f[m], n) ELSE f[n]]
             h == [n \in 0..m + 1 |-> IF n = 0 THEN {} ELSE Then(g[n - 1], n)]
  <2>2. ASSUME NEW n \in 0..m + 1 PROVE g[n] = h[n]
    <3>1. CASE n = 0
      BY <2>1, <3>1 DEF PresetsRun
    <3>2. CASE n = m + 1
      BY <3>2
    <3>3. CASE n \in 1..m
      <4>1. g[n] = f[n] /\ g[n - 1] = f[n - 1] /\ n # 0 /\ n \in 0..m
        BY <3>3
      <4>2. f[n] = Then(f[n - 1], n)
        BY <2>1, <4>1 DEF PresetsRun
      <4> QED BY <3>3, <4>1, <4>2
    <3> QED BY <3>1, <3>2, <3>3
  <2>3. g = h
    BY <2>2
  <2>4. PresetsRun(g, m + 1, presets, items)
    BY <2>3 DEF PresetsRun
  <2> QED BY <2>4
<1> HIDE DEF S
<1>3. Nat \subseteq S
  BY <1>1, <1>2, NatSetInduction
<1> QED BY <1>3 DEF S

LEMMA OverridesRunExists ==
  ASSUME NEW items, NEW overrides, NEW target, NEW k \in Nat
  PROVE  \E f : OverridesRun(f, k, items, overrides, target)
<1> DEFINE S == {m \in Nat : \E f : OverridesRun(f, m, items, overrides, target)}
           Then(list, n) == IF overrides[n].target = target
                            THEN Override(list, overrides[n]) ELSE list
<1>1. 0 \in S
  <2> DEFINE f == [n \in 0..0 |-> items]
  <2>1. OverridesRun(f, 0, items, overrides, target)
    BY DEF OverridesRun
  <2> QED BY <2>1
<1>2. ASSUME NEW m \in Nat, m \in S PROVE m + 1 \in S
  <2>1. PICK f : OverridesRun(f, m, items, overrides, target)
    BY <1>2
  <2> DEFINE g == [n \in 0..m + 1 |-> IF n = m + 1 THEN Then(f[m], n) ELSE f[n]]
             h == [n \in 0..m + 1 |-> IF n = 0 THEN items ELSE Then(g[n - 1], n)]
  <2>2. ASSUME NEW n \in 0..m + 1 PROVE g[n] = h[n]
    <3>1. CASE n = 0
      BY <2>1, <3>1 DEF OverridesRun
    <3>2. CASE n = m + 1
      BY <3>2
    <3>3. CASE n \in 1..m
      <4>1. g[n] = f[n] /\ g[n - 1] = f[n - 1] /\ n # 0 /\ n \in 0..m
        BY <3>3
      <4>2. f[n] = Then(f[n - 1], n)
        BY <2>1, <4>1 DEF OverridesRun
      <4> QED BY <3>3, <4>1, <4>2
    <3> QED BY <3>1, <3>2, <3>3
  <2>3. g = h
    BY <2>2
  <2>4. OverridesRun(g, m + 1, items, overrides, target)
    BY <2>3 DEF OverridesRun
  <2> QED BY <2>4
<1> HIDE DEF S
<1>3. Nat \subseteq S
  BY <1>1, <1>2, NatSetInduction
<1> QED BY <1>3 DEF S

LEMMA PresetsKeepItems ==
  ASSUME NEW presets, presets \in Seq(Presets), NEW items, \A p \in Presets : IsItems(items[p])
  PROVE  IsItems(FromPresets(presets, items))
<1> DEFINE L == Len(presets)
           f == CHOOSE f : PresetsRun(f, L, presets, items)
<1>1. L \in Nat /\ \A n \in 1..L : presets[n] \in Presets
  OBVIOUS
<1>2. PresetsRun(f, L, presets, items)
  <2>1. \E g : PresetsRun(g, L, presets, items)
    BY <1>1, PresetsRunExists
  <2> QED BY <2>1, Zenon
<1>3. FromPresets(presets, items) = f[L]
  BY DEF FromPresets, PresetsRun
<1> HIDE DEF f, L
<1> DEFINE S == {n \in Nat : n <= L => IsItems(f[n])}
<1>4. 0 \in S
  <2>1. f[0] = {}
    BY <1>1, <1>2 DEF PresetsRun
  <2> QED BY <2>1 DEF IsItems, OneEach
<1>5. ASSUME NEW n \in Nat, n \in S PROVE n + 1 \in S
  <2> SUFFICES ASSUME n + 1 <= L PROVE IsItems(f[n + 1])
    OBVIOUS
  <2>1. n + 1 \in 1..L /\ n + 1 \in 0..L /\ n + 1 # 0 /\ (n + 1) - 1 = n
    BY <1>1
  <2>2. f[n + 1] = Inserted(f[n], items[presets[n + 1]])
    BY <1>2, <2>1 DEF PresetsRun
  <2>3. IsItems(f[n]) /\ IsItems(items[presets[n + 1]])
    BY <1>1, <1>5, <2>1
  <2> QED BY <2>2, <2>3, InsertedItems
<1> HIDE DEF S
<1>6. Nat \subseteq S
  BY <1>4, <1>5, NatSetInduction
<1> QED BY <1>1, <1>3, <1>6 DEF S

LEMMA OverridesKeepItems ==
  ASSUME NEW items, IsItems(items), NEW overrides, Len(overrides) \in Nat,
         \A n \in 1..Len(overrides) : IsOverride(overrides[n]), NEW target
  PROVE  IsItems(Overridden(items, overrides, target))
<1> DEFINE L == Len(overrides)
           f == CHOOSE f : OverridesRun(f, L, items, overrides, target)
<1>1. L \in Nat /\ \A n \in 1..L : IsOverride(overrides[n])
  OBVIOUS
<1>2. OverridesRun(f, L, items, overrides, target)
  <2>1. \E g : OverridesRun(g, L, items, overrides, target)
    BY <1>1, OverridesRunExists
  <2> QED BY <2>1, Zenon
<1>3. Overridden(items, overrides, target) = f[L]
  BY DEF Overridden, OverridesRun
<1> HIDE DEF f, L
<1> DEFINE S == {n \in Nat : n <= L => IsItems(f[n])}
<1>4. 0 \in S
  <2>1. f[0] = items
    BY <1>1, <1>2 DEF OverridesRun
  <2> QED BY <2>1
<1>5. ASSUME NEW n \in Nat, n \in S PROVE n + 1 \in S
  <2> SUFFICES ASSUME n + 1 <= L PROVE IsItems(f[n + 1])
    OBVIOUS
  <2>1. n + 1 \in 1..L /\ n + 1 \in 0..L /\ n + 1 # 0 /\ (n + 1) - 1 = n
    BY <1>1
  <2>2. f[n + 1] = IF overrides[n + 1].target = target
                   THEN Override(f[n], overrides[n + 1]) ELSE f[n]
    BY <1>2, <2>1 DEF OverridesRun
  <2>3. IsItems(f[n]) /\ IsOverride(overrides[n + 1])
    BY <1>1, <1>5, <2>1
  <2> QED BY <2>2, <2>3, OverrideItems
<1> HIDE DEF S
<1>6. Nat \subseteq S
  BY <1>4, <1>5, NatSetInduction
<1> QED BY <1>1, <1>3, <1>6 DEF S

\* resolved_objectives and resolved_validation_gates.
LEMMA ResolvedItems ==
  ASSUME NEW d, IsDoctrine(d)
  PROVE  IsItems(ResolvedObjectives(d)) /\ IsItems(ResolvedGates(d))
<1>1. /\ d.presets \in Seq(Presets) /\ Len(d.overrides) \in Nat
      /\ \A n \in 1..Len(d.overrides) : IsOverride(d.overrides[n])
  BY DEF IsDoctrine
<1>2. IsItems(AllObjectives(d.presets))
  <2> DEFINE items == [p \in Presets |-> PresetObjectives(p)]
  <2>1. \A p \in Presets : IsItems(items[p])
    BY PresetItems
  <2> HIDE DEF items
  <2>2. IsItems(FromPresets(d.presets, items))
    BY <1>1, <2>1, PresetsKeepItems
  <2> QED BY <2>2 DEF AllObjectives, items
<1>3. IsItems(AllGates(d.presets))
  <2> DEFINE items == [p \in Presets |-> PresetGates(p)]
  <2>1. \A p \in Presets : IsItems(items[p])
    BY PresetItems
  <2> HIDE DEF items
  <2>2. IsItems(FromPresets(d.presets, items))
    BY <1>1, <2>1, PresetsKeepItems
  <2> QED BY <2>2 DEF AllGates, items
<1>4. /\ IsItems(Inserted(AllObjectives(d.presets), d.objectives))
      /\ IsItems(Inserted(AllGates(d.presets), d.gates))
  BY <1>2, <1>3, InsertedItems DEF IsDoctrine
<1> QED BY <1>1, <1>4, OverridesKeepItems DEF ResolvedObjectives, ResolvedGates
-----------------------------------------------------------------------------
(* Verdicts *)

\* The stub's results for items that are one per id: one result each, which
\* has passed with the score and the evidence that is asked for.
LEMMA StubCovers ==
  ASSUME NEW d, IsDoctrine(d), Floor(d.minObjective, 0) <= 9
  PROVE  /\ ObjectivesMissing(d, StubObjectives(d)) = {}
         /\ GatesMissing(d, StubGates(d)) = {}
<1>1. IsItems(ResolvedObjectives(d)) /\ IsItems(ResolvedGates(d))
  BY ResolvedItems
<1>2. \A min \in Nat : StubScore(min) \in Nat /\ StubScore(min) >= 9
                       /\ (min # NoScore => StubScore(min) >= min)
  BY DEF StubScore, Floor, NoScore
<1>3. Floor(d.minObjective, 0) \in Nat
  BY DEF Floor, IsDoctrine
<1>4. ASSUME NEW i \in RequiredIn(ResolvedObjectives(d)),
             NEW r \in ResultsFor(StubObjectives(d), i)
      PROVE  /\ ~ObjectiveFailed(d, r) /\ r.evidence
             /\ ~(r.score < Floor(i.min, Floor(d.minObjective, 0)))
  <2>1. PICK j \in RequiredIn(ResolvedObjectives(d)) :
            r = [id |-> j.id, decision |-> "Pass", score |-> StubScore(j.min), evidence |-> TRUE]
    BY DEF ResultsFor, StubObjectives
  <2>2. j = i /\ i.min \in Nat
    BY <1>1, <2>1 DEF ResultsFor, RequiredIn, IsItems, OneEach
  <2>3. r.score = StubScore(i.min) /\ r.decision = "Pass" /\ r.evidence
    BY <2>1, <2>2
  <2>4. ~(r.score < Floor(i.min, Floor(d.minObjective, 0)))
    BY <1>2, <1>3, <2>2, <2>3 DEF Floor
  <2> QED BY <2>3, <2>4 DEF ObjectiveFailed
<1>5. ASSUME NEW i \in RequiredIn(ResolvedGates(d)), NEW r \in ResultsFor(StubGates(d), i)
      PROVE  r.passed /\ r.evidence /\ ~(r.score < Floor(i.min, 0))
  <2>1. PICK j \in RequiredIn(ResolvedGates(d)) :
            r = [id |-> j.id, passed |-> TRUE, score |-> StubScore(j.min), evidence |-> TRUE]
    BY DEF ResultsFor, StubGates
  <2>2. j = i /\ i.min \in Nat
    BY <1>1, <2>1 DEF ResultsFor, RequiredIn, IsItems, OneEach
  <2>3. r.score = StubScore(i.min) /\ r.passed /\ r.evidence
    BY <2>1, <2>2
  <2>4. ~(r.score < Floor(i.min, 0))
    BY <1>2, <2>2, <2>3 DEF Floor
  <2> QED BY <2>3, <2>4
<1>6. /\ \A i \in RequiredIn(ResolvedObjectives(d)) : ResultsFor(StubObjectives(d), i) # {}
      /\ \A i \in RequiredIn(ResolvedGates(d)) : ResultsFor(StubGates(d), i) # {}
  <2>1. ASSUME NEW i \in RequiredIn(ResolvedObjectives(d))
        PROVE  ResultsFor(StubObjectives(d), i) # {}
    <3> DEFINE r == [id |-> i.id, decision |-> "Pass", score |-> StubScore(i.min), evidence |-> TRUE]
    <3>1. r \in StubObjectives(d) /\ r.id = i.id
      BY DEF StubObjectives
    <3> QED BY <3>1 DEF ResultsFor
  <2>2. ASSUME NEW i \in RequiredIn(ResolvedGates(d))
        PROVE  ResultsFor(StubGates(d), i) # {}
    <3> DEFINE r == [id |-> i.id, passed |-> TRUE, score |-> StubScore(i.min), evidence |-> TRUE]
    <3>1. r \in StubGates(d) /\ r.id = i.id
      BY DEF StubGates
    <3> QED BY <3>1 DEF ResultsFor
  <2> QED BY <2>1, <2>2
<1>7. ObjectivesMissing(d, StubObjectives(d)) = {}
  BY <1>4, <1>6 DEF ObjectivesMissing
<1>8. GatesMissing(d, StubGates(d)) = {}
  BY <1>5, <1>6 DEF GatesMissing
<1> QED BY <1>7, <1>8

LEMMA StubReviewCovers ==
  ASSUME NEW task, IsDoctrine(task.doctrine), Floor(task.doctrine.minObjective, 0) <= 9
  PROVE  DoctrineMissing(task, StubReview(task.doctrine)) = {}
<1> DEFINE d == task.doctrine
           review == StubReview(d)
<1>1. /\ review.reward = 9 /\ review.objectives = StubObjectives(d)
      /\ review.gates = StubGates(d)
  BY DEF StubReview, NoReview
<1> HIDE DEF review
<1>2. review.reward # NoScore
  BY <1>1 DEF NoScore
<1>3. /\ ObjectivesMissing(d, review.objectives) = {} /\ GatesMissing(d, review.gates) = {}
  BY <1>1, StubCovers
<1> QED BY <1>2, <1>3 DEF DoctrineMissing, review

\* What a result with more evidence has, and what stays.
LEMMA EnrichedIs ==
  ASSUME NEW r, IsResult(r), NEW more
  PROVE  LET e == Enriched(r, more)
         IN  /\ r.artifacts \subseteq e.artifacts /\ r.checkpoints \subseteq e.checkpoints
             /\ r.tests \subseteq e.tests /\ (r.objects => e.objects)
             /\ e.status = r.status /\ e.children = r.children /\ e.thunks = r.thunks
             /\ e.git = r.git /\ e.confidence = r.confidence /\ e.research = r.research
             /\ e.researchConfidence = r.researchConfidence /\ e.marker = r.marker
             /\ e.attestation = r.attestation /\ e.vote = r.vote /\ e.review = r.review
<1>1. PICK artifacts, checkpoints, tests, objects :
        /\ artifacts = r.artifacts \cup more.artifacts
        /\ checkpoints = r.checkpoints \cup more.checkpoints
        /\ tests = r.tests \cup more.tests /\ objects = (r.objects \/ more.objects)
  OBVIOUS
<1> DEFINE e == Enriched(r, more)
<1>2. e = [r EXCEPT !.artifacts = artifacts, !.checkpoints = checkpoints, !.tests = tests,
                    !.objects = objects]
  BY <1>1 DEF Enriched
<1> HIDE DEF e
<1>3. /\ e.artifacts = artifacts /\ e.checkpoints = checkpoints /\ e.tests = tests
      /\ e.objects = objects
      /\ e.status = r.status /\ e.children = r.children /\ e.thunks = r.thunks
      /\ e.git = r.git /\ e.confidence = r.confidence /\ e.research = r.research
      /\ e.researchConfidence = r.researchConfidence /\ e.marker = r.marker
      /\ e.attestation = r.attestation /\ e.vote = r.vote /\ e.review = r.review
  BY <1>2 DEF IsResult
<1> QED BY <1>1, <1>3 DEF e

\* Each criterion that the result meets, the enriched one meets.
LEMMA EnrichedPasses ==
  ASSUME NEW task, NEW r, IsResult(r), NEW more, ReportPassed(task, r)
  PROVE  ReportPassed(task, Enriched(r, more))
<1> DEFINE e == Enriched(r, more)
<1>1. /\ r.artifacts \subseteq e.artifacts /\ r.checkpoints \subseteq e.checkpoints
      /\ r.tests \subseteq e.tests /\ (r.objects => e.objects)
      /\ e.status = r.status /\ e.children = r.children /\ e.thunks = r.thunks
      /\ e.git = r.git /\ e.confidence = r.confidence /\ e.research = r.research
      /\ e.researchConfidence = r.researchConfidence /\ e.marker = r.marker
      /\ e.attestation = r.attestation /\ e.vote = r.vote /\ e.review = r.review
  BY EnrichedIs
<1> HIDE DEF e
<1>2. r.status = "Done" /\ ContractMissing(r) = {} /\ CriteriaMissing(task, r) = {}
  BY DEF ReportPassed, MissingCriteria
<1>3. \A name, c : Missing(name, c) = {} <=> ~c
  BY DEF Missing
<1>4. ContractMissing(e) = ContractMissing(r)
  BY <1>1 DEF ContractMissing
<1>5. /\ Missing("artifact_exists", task.artifact /\ ~ArtifactExists(e)) = {}
      /\ Missing("checkpoint_required", NeedsCheckpoint(task) /\ e.checkpoints = {}) = {}
      /\ Missing("git_checkpoint_required",
            NeedsCheckpoint(task) /\ task.gitCheckpoint /\ e.checkpoints # {}
                /\ ~GitCheckpoint(e)) = {}
  <2>1. /\ ~(task.artifact /\ ~ArtifactExists(r))
        /\ ~(NeedsCheckpoint(task) /\ r.checkpoints = {})
        /\ ~(NeedsCheckpoint(task) /\ task.gitCheckpoint /\ r.checkpoints # {}
                /\ ~GitCheckpoint(r))
    BY <1>2, <1>3 DEF CriteriaMissing
  <2>2. (ArtifactExists(r) => ArtifactExists(e)) /\ (GitCheckpoint(r) => GitCheckpoint(e))
    BY <1>1 DEF ArtifactExists, GitCheckpoint
  <2> QED BY <1>1, <1>3, <2>1, <2>2
<1>6. TestsMissing(task, e) = {}
  <2>1. TestsMissing(task, r) = {}
    BY <1>2 DEF CriteriaMissing
  <2>2. CASE task.tests /\ (task.purpose \in WorkLikePurpose \/ task.role = "Tester")
    <3>1. r.tests # {} /\ "passed" \in r.tests
      BY <1>3, <2>1, <2>2 DEF TestsMissing
    <3> QED BY <1>1, <1>3, <3>1 DEF TestsMissing
  <2>3. CASE ~(task.tests /\ (task.purpose \in WorkLikePurpose \/ task.role = "Tester"))
    BY <2>3 DEF TestsMissing
  <2> QED BY <2>2, <2>3
<1>7. /\ EffectiveScore(e) = EffectiveScore(r) /\ StubMissing(task, e) = StubMissing(task, r)
      /\ ResearchMissing(task, e) = ResearchMissing(task, r)
      /\ VoteMissing(task, e) = VoteMissing(task, r)
  BY <1>1 DEF EffectiveScore, StubMissing, StubMarked, ReplayMarked, ResearchMissing, VoteMissing
<1>8. AttestationMissing(task, e) = {}
  <2>1. AttestationMissing(task, r) = {}
    BY <1>2 DEF CriteriaMissing
  <2>2. CASE task.guardrails
    <3>1. /\ ~(task.manifest /\ "manifest" \notin r.artifacts)
          /\ ~(task.attest /\ "enforceable" \notin r.attestation)
          /\ ~(task.attestStrong /\ "strong" \notin r.attestation)
      BY <1>3, <2>1, <2>2 DEF AttestationMissing
    <3>2. ~(task.manifest /\ "manifest" \notin e.artifacts)
      BY <1>1, <3>1
    <3> QED BY <1>1, <1>3, <3>1, <3>2 DEF AttestationMissing
  <2>3. CASE ~task.guardrails
    BY <2>3 DEF AttestationMissing
  <2> QED BY <2>2, <2>3
<1>9. CriteriaMissing(task, e) = {}
  <2> DEFINE Score(x) == Missing("validator_score_min",
                /\ task.minScore # NoScore /\ EffectiveScore(x) < task.minScore
                /\ task.purpose \in WorkLikePurpose \cup {"Research"})
             Review(x) == Missing("review_output",
                task.purpose \in UnificationPurpose \cup {"Review"} /\ x.review.reward = NoScore)
             Finding(x) == Missing("blocking_review_finding", \E f \in x.review.findings : Blocks(f))
  <2>1. /\ Score(e) = Score(r) /\ Review(e) = Review(r) /\ Finding(e) = Finding(r)
        /\ DoctrineMissing(task, e.review) = DoctrineMissing(task, r.review)
    BY <1>1, <1>7
  <2>2. /\ Score(r) = {} /\ Review(r) = {} /\ Finding(r) = {}
        /\ DoctrineMissing(task, r.review) = {} /\ StubMissing(task, r) = {}
        /\ ResearchMissing(task, r) = {} /\ VoteMissing(task, r) = {}
    BY <1>2 DEF CriteriaMissing
  <2>3. CriteriaMissing(task, e) =
            Missing("artifact_exists", task.artifact /\ ~ArtifactExists(e))
            \cup Missing("checkpoint_required", NeedsCheckpoint(task) /\ e.checkpoints = {})
            \cup Missing("git_checkpoint_required",
                    NeedsCheckpoint(task) /\ task.gitCheckpoint /\ e.checkpoints # {}
                        /\ ~GitCheckpoint(e))
            \cup TestsMissing(task, e) \cup Score(e) \cup StubMissing(task, e)
            \cup ResearchMissing(task, e) \cup VoteMissing(task, e) \cup Review(e)
            \cup AttestationMissing(task, e) \cup DoctrineMissing(task, e.review)
            \cup Finding(e)
    BY DEF CriteriaMissing
  <2> HIDE DEF Score, Review, Finding
  <2> QED BY <1>5, <1>6, <1>7, <1>8, <2>1, <2>2, <2>3
<1> QED BY <1>1, <1>2, <1>4, <1>9 DEF ReportPassed, MissingCriteria, e

\* A verdict is out on one of the requests.
VerdictInv ==
    verdict # NoVerdict => \E q \in Requests : verdict = VerdictOn(q, q.result)

\* For every doctrine, result and evidence: adding evidence keeps a result
\* accepted and is reported, and the stub's review is enough.
THEOREM EvidenceNeverHurts == VerdictSpec => []MoreEvidenceNeverHurts
<1>1. verdict = NoVerdict => VerdictInv
  BY DEF VerdictInv
<1>2. VerdictInv /\ [Validate]_verdict => VerdictInv'
  BY DEF VerdictInv, Validate
<1>3. ASSUME VerdictInv PROVE MoreEvidenceNeverHurts
  <2> SUFFICES ASSUME verdict # NoVerdict PROVE MoreEvidenceNeverHurts
    BY DEF MoreEvidenceNeverHurts
  <2>1. PICK q \in Requests : verdict = VerdictOn(q, q.result)
    BY <1>3 DEF VerdictInv
  <2> DEFINE e == Enriched(q.result, q.more)
  <2>2. IsDoctrine(q.task.doctrine) /\ IsResult(q.result)
    BY RequestsAssumption
  <2>3. /\ verdict.request = q /\ verdict.status = ReportStatus(q.task, q.result)
        /\ verdict.artifacts = ResultArtifacts(q.result)
    BY <2>1 DEF VerdictOn
  <2>4. VerdictOn(q, e).status = ReportStatus(q.task, e)
        /\ VerdictOn(q, e).artifacts = ResultArtifacts(e)
    BY DEF VerdictOn
  <2>5. ReportStatus(q.task, q.result) = "Done" => ReportStatus(q.task, e) = "Done"
    <3> SUFFICES ASSUME ReportStatus(q.task, q.result) = "Done"
                 PROVE  ReportStatus(q.task, e) = "Done"
      OBVIOUS
    <3>1. ReportPassed(q.task, q.result)
      BY <2>2 DEF ReportStatus, IsResult
    <3>2. ReportPassed(q.task, e) /\ e.status = "Done"
      BY <2>2, <3>1, EnrichedPasses DEF ReportPassed
    <3> QED BY <3>2 DEF ReportStatus
  <2>6. ResultArtifacts(q.result) \subseteq ResultArtifacts(e)
    BY <2>2, EnrichedIs DEF ResultArtifacts, Missing
  <2>7. Floor(q.task.doctrine.minObjective, 0) <= 9
            => DoctrineMissing(q.task, StubReview(q.task.doctrine)) = {}
    BY <2>2, StubReviewCovers
  <2> HIDE DEF e
  <2> QED BY <2>3, <2>4, <2>5, <2>6, <2>7 DEF MoreEvidenceNeverHurts, e
<1> QED BY <1>1, <1>2, <1>3, PTL DEF VerdictSpec
=============================================================================
