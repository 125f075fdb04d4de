-------------------------- MODULE GoalStore_proofs --------------------------
(***************************************************************************)
(* The event log of the goal store: it implements GoalLog on both          *)
(* backends, what was accepted is in it, the action queue follows the      *)
(* snapshots and drafts, and memory and tables answer alike.               *)
(***************************************************************************)
EXTENDS GoalStore, WellFoundedInduction, TLAPS

(* Induction.  The library states it for a predicate that is a parameter;    *)
(* for a set the provers can use it.                                         *)

LEMMA NatSetInduction ==
  ASSUME NEW S, 0 \in S, \A n \in Nat : n \in S => n + 1 \in S
  PROVE  Nat \subseteq S
<1> DEFINE R == OpToRel(<, Nat)
           T == Nat \ S
<1>1. IsWellFoundedOn(R, Nat)
  BY NatLessThanWellFounded
<1> SUFFICES ASSUME T # {} PROVE FALSE
  OBVIOUS
<1>2. PICK x \in T : \A y \in T : ~(<<y, x>> \in R)
  <2> HIDE DEF R, T
  <2>1. T \subseteq Nat
     BY DEF T
  <2> QED BY <1>1, <2>1, WFMin
<1>3. x # 0 /\ x - 1 \in Nat /\ x - 1 < x
  OBVIOUS
<1>4. <<x - 1, x>> \in R
  BY <1>3 DEF OpToRel
<1>5. x - 1 \in S
  BY <1>2, <1>3, <1>4
<1> QED BY <1>3, <1>5
-----------------------------------------------------------------------------
(* Sequences *)

IsSeq(s) == \E S : s \in Seq(S)

LEMMA AppendSeq ==
  ASSUME NEW s, IsSeq(s), NEW e
  PROVE  /\ IsSeq(Append(s, e)) /\ Len(s) \in Nat /\ Len(Append(s, e)) = Len(s) + 1
         /\ \A i \in 1..Len(s) : Append(s, e)[i] = s[i]
         /\ Append(s, e)[Len(s) + 1] = e
         /\ Range(Append(s, e)) = Range(s) \cup {e}
<1>1. PICK S : s \in Seq(S)
  BY DEF IsSeq
<1> DEFINE T == S \cup {e}
           t == Append(s, e)
<1>2. s \in Seq(T) /\ e \in T
  BY <1>1
<1>3. t \in Seq(T) /\ Len(s) \in Nat /\ Len(t) = Len(s) + 1
      /\ DOMAIN s = 1..Len(s) /\ DOMAIN t = 1..Len(s) + 1
  BY <1>2
<1>4. (\A i \in 1..Len(s) : t[i] = s[i]) /\ t[Len(s) + 1] = e
  BY <1>2
<1>5. Range(t) = Range(s) \cup {e}
  BY <1>3, <1>4 DEF Range
<1> QED BY <1>3, <1>4, <1>5 DEF IsSeq
-----------------------------------------------------------------------------
(* apply_event and a snapshot's events, one after the other *)

EventLog(es) == IsSeq(es) /\ \A a, b \in Range(es) : a # b => ~SameEvent(a, b)
\* fs is es with some of new behind it.
Extended(es, fs, new) == /\ EventLog(fs) /\ Range(es) \subseteq Range(fs)
                         /\ Range(fs) \subseteq Range(es) \cup new

LEMMA ApplyEventExtends ==
  ASSUME NEW es, EventLog(es), NEW e
  PROVE  /\ Extended(es, ApplyEvent(es, e), {e})
         /\ \E x \in Range(ApplyEvent(es, e)) : x = e \/ SameEvent(x, e)
<1>1. CASE \E x \in Range(es) : SameEvent(x, e)
  BY <1>1 DEF ApplyEvent, Extended
<1>2. CASE ~\E x \in Range(es) : SameEvent(x, e)
  <2> DEFINE fs == Append(es, e)
  <2>1. ApplyEvent(es, e) = fs
    BY <1>2 DEF ApplyEvent
  <2>2. IsSeq(fs) /\ Range(fs) = Range(es) \cup {e}
    BY AppendSeq DEF EventLog
  <2> HIDE DEF fs
  <2>3. \A a, b \in Range(fs) : a # b => ~SameEvent(a, b)
    BY <1>2, <2>2 DEF EventLog, SameEvent
  <2> QED BY <2>1, <2>2, <2>3 DEF Extended, EventLog
<1> QED BY <1>1, <1>2

\* The values of a fold over the first k events.
EventsRun(f, k, es, new) ==
    f = [n \in 0..k |-> IF n = 0 THEN es ELSE ApplyEvent(f[n - 1], new[n])]

LEMMA EventsRunExists ==
  ASSUME NEW es, NEW new, NEW k \in Nat
  PROVE  \E f : EventsRun(f, k, es, new)
<1> DEFINE S == {m \in Nat : \E f : EventsRun(f, m, es, new)}
<1>1. 0 \in S
  <2> DEFINE f == [n \in 0..0 |-> es]
  <2>1. EventsRun(f, 0, es, new)
    BY DEF EventsRun
  <2> QED BY <2>1
<1>2. ASSUME NEW m \in Nat, m \in S PROVE m + 1 \in S
  <2>1. PICK f : EventsRun(f, m, es, new)
    BY <1>2
  <2> DEFINE g == [n \in 0..m + 1 |-> IF n = m + 1 THEN ApplyEvent(f[m], new[n]) ELSE f[n]]
             h == [n \in 0..m + 1 |-> IF n = 0 THEN es ELSE ApplyEvent(g[n - 1], new[n])]
  <2>2. ASSUME NEW n \in 0..m + 1 PROVE g[n] = h[n]
    <3>1. CASE n = 0
      BY <2>1, <3>1 DEF EventsRun
    <3>2. CASE n = m + 1
      BY <3>2
    <3>3. CASE n \in 1..m
      <4>1. g[n] = f[n] /\ g[n - 1] = f[n - 1] /\ n # 0 /\ n \in 0..m
        BY <3>3
      <4>2. f[n] = ApplyEvent(f[n - 1], new[n])
        BY <2>1, <4>1 DEF EventsRun
      <4> QED BY <3>3, <4>1, <4>2
    <3> QED BY <3>1, <3>2, <3>3
  <2>3. g = h
    BY <2>2
  <2>4. EventsRun(g, m + 1, es, new)
    BY <2>3 DEF EventsRun
  <2> QED BY <2>4
<1> HIDE DEF S
<1>3. Nat \subseteq S
  BY <1>1, <1>2, NatSetInduction
<1> QED BY <1>3 DEF S

LEMMA ApplyEventsIsRun ==
  ASSUME NEW es, NEW new, Len(new) \in Nat
  PROVE  \E f : EventsRun(f, Len(new), es, new) /\ ApplyEvents(es, new) = f[Len(new)]
<1> DEFINE f == CHOOSE f : EventsRun(f, Len(new), es, new)
<1>1. EventsRun(f, Len(new), es, new)
  <2>1. \E g : EventsRun(g, Len(new), es, new)
    BY EventsRunExists
  <2> QED BY <2>1, Zenon
<1>2. ApplyEvents(es, new) = f[Len(new)]
  BY DEF ApplyEvents, EventsRun
<1> QED BY <1>1, <1>2

\* Posting a snapshot's events adds some of them and never a second one with
\* the same sequence number or key.
LEMMA ApplyEventsExtends ==
  ASSUME NEW es, EventLog(es), NEW new, new \in Seq(Range(new))
  PROVE  Extended(es, ApplyEvents(es, new), Range(new))
<1>1. Len(new) \in Nat /\ \A i \in 1..Len(new) : new[i] \in Range(new)
  BY DEF Range
<1>2. PICK f : /\ EventsRun(f, Len(new), es, new)
               /\ ApplyEvents(es, new) = f[Len(new)]
  BY <1>1, ApplyEventsIsRun
<1> DEFINE S == {n \in Nat : n <= Len(new) => Extended(es, f[n], Range(new))}
<1>3. 0 \in S
  <2>1. f[0] = es
    BY <1>1, <1>2 DEF EventsRun
  <2> QED BY <2>1 DEF Extended
<1>4. ASSUME NEW n \in Nat, n \in S PROVE n + 1 \in S
  <2> SUFFICES ASSUME n + 1 <= Len(new)
               PROVE  Extended(es, f[n + 1], Range(new))
    OBVIOUS
  <2>1. f[n + 1] = ApplyEvent(f[n], new[n + 1])
    BY <1>1, <1>2 DEF EventsRun
  <2>2. EventLog(f[n]) /\ Extended(es, f[n], Range(new)) /\ new[n + 1] \in Range(new)
    BY <1>1, <1>4 DEF Extended
  <2>3. Extended(f[n], f[n + 1], {new[n + 1]})
    BY <2>1, <2>2, ApplyEventExtends
  <2> QED BY <2>2, <2>3 DEF Extended
<1> HIDE DEF S
<1>5. Nat \subseteq S
  BY <1>3, <1>4, NatSetInduction
<1> QED BY <1>1, <1>2, <1>5 DEF S
-----------------------------------------------------------------------------
(* replay_journal *)

ReplayRun(f, k, lines) ==
    f = [n \in 0..k |-> IF n = 0 THEN EmptyStore ELSE Apply(f[n - 1], lines[n])]

LEMMA ReplayRunExists ==
  ASSUME NEW lines, NEW k \in Nat
  PROVE  \E f : ReplayRun(f, k, lines)
<1> DEFINE S == {m \in Nat : \E f : ReplayRun(f, m, lines)}
<1>1. 0 \in S
  <2> DEFINE f == [n \in 0..0 |-> EmptyStore]
  <2>1. ReplayRun(f, 0, lines)
    BY DEF ReplayRun
  <2> QED BY <2>1
<1>2. ASSUME NEW m \in Nat, m \in S PROVE m + 1 \in S
  <2>1. PICK f : ReplayRun(f, m, lines)
    BY <1>2
  <2> DEFINE g == [n \in 0..m + 1 |-> IF n = m + 1 THEN Apply(f[m], lines[n]) ELSE f[n]]
             h == [n \in 0..m + 1 |->
                      IF n = 0 THEN EmptyStore ELSE Apply(g[n - 1], lines[n])]
  <2>2. ASSUME NEW n \in 0..m + 1 PROVE g[n] = h[n]
    <3>1. CASE n = 0
      BY <2>1, <3>1 DEF ReplayRun
    <3>2. CASE n = m + 1
      BY <3>2
    <3>3. CASE n \in 1..m
      <4>1. g[n] = f[n] /\ g[n - 1] = f[n - 1] /\ n # 0 /\ n \in 0..m
        BY <3>3
      <4>2. f[n] = Apply(f[n - 1], lines[n])
        BY <2>1, <4>1 DEF ReplayRun
      <4> QED BY <3>3, <4>1, <4>2
    <3> QED BY <3>1, <3>2, <3>3
  <2>3. g = h
    BY <2>2
  <2>4. ReplayRun(g, m + 1, lines)
    BY <2>3 DEF ReplayRun
  <2> QED BY <2>4
<1> HIDE DEF S
<1>3. Nat \subseteq S
  BY <1>1, <1>2, NatSetInduction
<1> QED BY <1>3 DEF S

LEMMA ReplayIsRun ==
  ASSUME NEW lines, Len(lines) \in Nat
  PROVE  \E f : ReplayRun(f, Len(lines), lines) /\ Replay(lines) = f[Len(lines)]
<1> DEFINE f == CHOOSE f : ReplayRun(f, Len(lines), lines)
<1>1. ReplayRun(f, Len(lines), lines)
  <2>1. \E g : ReplayRun(g, Len(lines), lines)
    BY ReplayRunExists
  <2> QED BY <2>1, Zenon
<1>2. Replay(lines) = f[Len(lines)]
  BY DEF Replay, ReplayRun
<1> QED BY <1>1, <1>2

LEMMA ReplayEmpty == Replay(<<>>) = EmptyStore
<1>1. Len(<<>>) = 0
  OBVIOUS
<1>2. PICK f : ReplayRun(f, 0, <<>>) /\ Replay(<<>>) = f[0]
  BY <1>1, ReplayIsRun
<1> QED BY <1>2 DEF ReplayRun

\* A line at the end of the journal is applied last.
LEMMA ReplayAppend ==
  ASSUME NEW lines, IsSeq(lines), NEW w
  PROVE  Replay(Append(lines, w)) = Apply(Replay(lines), w)
<1> DEFINE L == Len(lines)
           more == Append(lines, w)
<1>1. /\ L \in Nat /\ Len(more) = L + 1 /\ more[L + 1] = w
      /\ \A i \in 1..L : more[i] = lines[i]
  BY AppendSeq
<1> HIDE DEF L, more
<1>2. PICK f : ReplayRun(f, L, lines) /\ Replay(lines) = f[L]
  BY <1>1, ReplayIsRun DEF L
<1>3. PICK g : ReplayRun(g, L + 1, more) /\ Replay(more) = g[L + 1]
  BY <1>1, ReplayIsRun
<1> DEFINE S == {n \in Nat : n <= L => g[n] = f[n]}
<1>4. 0 \in S
  BY <1>1, <1>2, <1>3 DEF ReplayRun
<1>5. ASSUME NEW n \in Nat, n \in S PROVE n + 1 \in S
  <2> SUFFICES ASSUME n + 1 <= L PROVE g[n + 1] = f[n + 1]
    OBVIOUS
  <2>1. f[n + 1] = Apply(f[n], lines[n + 1])
    BY <1>1, <1>2 DEF ReplayRun
  <2>2. g[n + 1] = Apply(g[n], more[n + 1])
    BY <1>1, <1>3 DEF ReplayRun
  <2> QED BY <1>1, <1>5, <2>1, <2>2
<1> HIDE DEF S
<1>6. Nat \subseteq S
  BY <1>4, <1>5, NatSetInduction
<1>7. g[L] = f[L]
  BY <1>1, <1>6 DEF S
<1>8. g[L + 1] = Apply(g[L], w)
  BY <1>1, <1>3 DEF ReplayRun
<1> QED BY <1>2, <1>3, <1>7, <1>8 DEF more
-----------------------------------------------------------------------------
(* What one write does to a store *)

IsStore(d) ==
    d = [goals |-> d.goals, tasks |-> d.tasks, artifacts |-> d.artifacts,
         approvals |-> d.approvals, events |-> d.events,
         operatorEvents |-> d.operatorEvents, snapshots |-> d.snapshots,
         plans |-> d.plans, drafts |-> d.drafts, actions |-> d.actions,
         chat |-> d.chat, sources |-> d.sources]

OperatorLog(es) == IsSeq(es) /\ \A a, b \in Range(es) : a # b => ~SameOperatorEvent(a, b)

ApplyToOperatorLog(es, e) ==
    IF \E x \in Range(es) : SameOperatorEvent(x, e) THEN es ELSE Append(es, e)

\* Both backends: how a write changes the two logs.
Logs(d, e, w) ==
    /\ e.events = CASE w.kind = "Snapshot" -> ApplyEvents(d.events, w.value.events)
                    [] w.kind = "Event" -> ApplyEvent(d.events, w.value)
                    [] OTHER -> d.events
    /\ e.operatorEvents = IF w.kind = "OperatorEvent"
                          THEN ApplyToOperatorLog(d.operatorEvents, w.value)
                          ELSE d.operatorEvents

LEMMA RowsLogs ==
  ASSUME NEW d, IsStore(d), NEW w, w.kind \in WriteKinds
  PROVE  IsStore(Rows(d, w)) /\ Logs(d, Rows(d, w), w)
<1>1. CASE w.kind = "Snapshot"
  <2>1. Rows(d, w) = SnapshotRows(d, w.value)
    BY <1>1 DEF Rows
  <2> QED BY <1>1, <2>1 DEF SnapshotRows, IsStore, Logs
<1>2. CASE w.kind = "Event"
  BY <1>2 DEF Rows, IsStore, Logs
<1>3. CASE w.kind = "OperatorEvent"
  <2>1. Rows(d, w) = OperatorEventRows(d, w.value)
    BY <1>3 DEF Rows
  <2> QED BY <1>3, <2>1 DEF OperatorEventRows, IsStore, Logs, ApplyToOperatorLog
<1>4. CASE w.kind = "Artifact"
  <2>1. Rows(d, w) = ArtifactRows(d, w.value)
    BY <1>4 DEF Rows
  <2> QED BY <1>4, <2>1 DEF ArtifactRows, IsStore, Logs
<1>5. CASE w.kind = "Plan"
  BY <1>5 DEF Rows, IsStore, Logs
<1>6. CASE w.kind = "Draft"
  <2>1. Rows(d, w) = DraftRows(d, w.value)
    BY <1>6 DEF Rows
  <2> QED BY <1>6, <2>1 DEF DraftRows, IsStore, Logs
<1>7. CASE w.kind = "Source"
  <2>1. Rows(d, w) = SourceRows(d, w.value)
    BY <1>7 DEF Rows
  <2> QED BY <1>7, <2>1 DEF SourceRows, IsStore, Logs
<1>8. CASE w.kind = "ChatTurn"
  <2>1. Rows(d, w) = ChatRows(d, w.value)
    BY <1>8 DEF Rows
  <2> QED BY <1>8, <2>1 DEF ChatRows, IsStore, Logs
<1> QED
  BY <1>1, <1>2, <1>3, <1>4, <1>5, <1>6, <1>7, <1>8 DEF WriteKinds

LEMMA ApplyLogs ==
  ASSUME NEW d, IsStore(d), NEW w, w.kind \in WriteKinds
  PROVE  IsStore(Apply(d, w)) /\ Logs(d, Apply(d, w), w)
<1>1. CASE w.kind = "Snapshot"
  <2>1. Apply(d, w) = ApplySnapshot(d, w.value)
    BY <1>1 DEF Apply
  <2> QED BY <1>1, <2>1 DEF ApplySnapshot, RebuildGoalActions, IsStore, Logs
<1>2. CASE w.kind = "Event"
  BY <1>2 DEF Apply, IsStore, Logs
<1>3. CASE w.kind = "OperatorEvent"
  <2>1. Apply(d, w) = ApplyOperatorEvent(d, w.value)
    BY <1>3 DEF Apply
  <2> QED BY <1>3, <2>1 DEF ApplyOperatorEvent, IsStore, Logs, ApplyToOperatorLog
<1>4. CASE w.kind = "Artifact"
  BY <1>4 DEF Apply, IsStore, Logs
<1>5. CASE w.kind = "Plan"
  BY <1>5 DEF Apply, IsStore, Logs
<1>6. CASE w.kind = "Draft"
  <2>1. Apply(d, w) = ApplyDraft(d, w.value)
    BY <1>6 DEF Apply
  <2> QED BY <1>6, <2>1 DEF ApplyDraft, IsStore, Logs
<1>7. CASE w.kind = "Source"
  BY <1>7 DEF Apply, IsStore, Logs
<1>8. CASE w.kind = "ChatTurn"
  BY <1>8 DEF Apply, IsStore, Logs
<1> QED
  BY <1>1, <1>2, <1>3, <1>4, <1>5, <1>6, <1>7, <1>8 DEF WriteKinds
-----------------------------------------------------------------------------
(* The log of a store *)

LogOf(d) == Tagged("Event", d.events) \cup Tagged("OperatorEvent", d.operatorEvents)
GoodLogs(d) == /\ IsStore(d) /\ EventLog(d.events) /\ OperatorLog(d.operatorEvents)
               /\ LogOf(d) \subseteq PostedEvents

\* What a request may carry.
Posted(w) ==
    /\ w.kind \in WriteKinds /\ w = [kind |-> w.kind, value |-> w.value]
    /\ w.kind \in {"Event", "OperatorEvent"} => w \in PostedEvents
    /\ w.kind = "Snapshot" =>
          /\ w.value.events \in Seq(Range(w.value.events))
          /\ Tagged("Event", w.value.events) \subseteq PostedEvents
          /\ \A r \in w.value.tasks \cup w.value.approvals : r.goal = w.value.id

Found(log, w) == \E r \in log : r = w \/ Clashing(r, w)

LEMMA WorkloadPosted ==
  ASSUME NEW load \in Workloads, NEW w \in load.writes
  PROVE  Posted(w)
<1>1. /\ w.kind \in WriteKinds /\ w = [kind |-> w.kind, value |-> w.value]
      /\ w.kind = "Snapshot" =>
            /\ w.value.events \in Seq(Range(w.value.events))
            /\ \A r \in w.value.tasks \cup w.value.approvals : r.goal = w.value.id
  BY StoreAssumption
<1>2. w \in UNION {l.writes : l \in Workloads}
  OBVIOUS
<1>3. w.kind \in {"Event", "OperatorEvent"} => w \in PostedEvents
  BY <1>2 DEF PostedEvents
<1>4. w.kind = "Snapshot" => Tagged("Event", w.value.events) \subseteq PostedEvents
  BY <1>2 DEF PostedEvents
<1> QED BY <1>1, <1>3, <1>4 DEF Posted

LEMMA OperatorLogExtends ==
  ASSUME NEW es, OperatorLog(es), NEW e
  PROVE  LET fs == ApplyToOperatorLog(es, e)
         IN  /\ OperatorLog(fs) /\ Range(es) \subseteq Range(fs)
             /\ Range(fs) \subseteq Range(es) \cup {e}
             /\ \E x \in Range(fs) : x = e \/ SameOperatorEvent(x, e)
<1>1. CASE \E x \in Range(es) : SameOperatorEvent(x, e)
  BY <1>1 DEF ApplyToOperatorLog
<1>2. CASE ~\E x \in Range(es) : SameOperatorEvent(x, e)
  <2> DEFINE fs == Append(es, e)
  <2>1. ApplyToOperatorLog(es, e) = fs
    BY <1>2 DEF ApplyToOperatorLog
  <2>2. IsSeq(fs) /\ Range(fs) = Range(es) \cup {e}
    BY AppendSeq DEF OperatorLog
  <2> HIDE DEF fs
  <2>3. \A a, b \in Range(fs) : a # b => ~SameOperatorEvent(a, b)
    BY <1>2, <2>2 DEF OperatorLog, SameOperatorEvent
  <2> QED BY <2>1, <2>2, <2>3 DEF OperatorLog
<1> QED BY <1>1, <1>2

LEMMA TaggedIs ==
  ASSUME NEW kind, NEW es
  PROVE  /\ \A x \in Range(es) : [kind |-> kind, value |-> x] \in Tagged(kind, es)
         /\ \A r \in Tagged(kind, es) :
               r.kind = kind /\ r.value \in Range(es) /\ r = [kind |-> kind, value |-> r.value]
  BY DEF Tagged

LEMMA LogHasNoClash ==
  ASSUME NEW d, GoodLogs(d)
  PROVE  \A a, b \in LogOf(d) : a # b => ~Clashing(a, b)
<1> SUFFICES ASSUME NEW a \in LogOf(d), NEW b \in LogOf(d), a # b, a.kind = b.kind
             PROVE  ~Clashing(a, b)
  BY DEF Clashing
<1>1. CASE a.kind = "Event"
  <2>1. a \in Tagged("Event", d.events) /\ b \in Tagged("Event", d.events)
    BY <1>1, TaggedIs DEF LogOf
  <2>2. a.value \in Range(d.events) /\ b.value \in Range(d.events) /\ a.value # b.value
    BY <2>1, TaggedIs
  <2> QED BY <1>1, <2>2 DEF GoodLogs, EventLog, Clashing
<1>2. CASE a.kind # "Event"
  <2>1. a \in Tagged("OperatorEvent", d.operatorEvents)
        /\ b \in Tagged("OperatorEvent", d.operatorEvents)
    BY <1>2, TaggedIs DEF LogOf
  <2>2. /\ a.value \in Range(d.operatorEvents) /\ b.value \in Range(d.operatorEvents)
        /\ a.value # b.value
    BY <2>1, TaggedIs
  <2> QED BY <1>2, <2>2 DEF GoodLogs, OperatorLog, Clashing
<1> QED BY <1>1, <1>2

\* A write adds what it carries, unless the log has it under its key.
LEMMA WriteLogs ==
  ASSUME NEW d, GoodLogs(d), NEW e, IsStore(e), NEW w, Posted(w), Logs(d, e, w)
  PROVE  /\ GoodLogs(e) /\ LogOf(d) \subseteq LogOf(e)
         /\ w.kind \in {"Event", "OperatorEvent"} => Found(LogOf(e), w)
<1>1. CASE w.kind = "OperatorEvent"
  <2>1. /\ e.events = d.events
        /\ e.operatorEvents = ApplyToOperatorLog(d.operatorEvents, w.value)
    BY <1>1 DEF Logs
  <2>2. /\ OperatorLog(e.operatorEvents)
        /\ Range(d.operatorEvents) \subseteq Range(e.operatorEvents)
        /\ Range(e.operatorEvents) \subseteq Range(d.operatorEvents) \cup {w.value}
        /\ \E x \in Range(e.operatorEvents) : x = w.value \/ SameOperatorEvent(x, w.value)
    BY <2>1, OperatorLogExtends DEF GoodLogs
  <2>3. /\ LogOf(d) \subseteq LogOf(e)
        /\ LogOf(e) \subseteq LogOf(d) \cup {[kind |-> "OperatorEvent", value |-> w.value]}
    BY <2>1, <2>2 DEF LogOf, Tagged
  <2>4. w = [kind |-> "OperatorEvent", value |-> w.value] /\ w \in PostedEvents
    BY <1>1 DEF Posted
  <2>5. Found(LogOf(e), w)
    <3>1. PICK x \in Range(e.operatorEvents) : x = w.value \/ SameOperatorEvent(x, w.value)
      BY <2>2
    <3> DEFINE r == [kind |-> "OperatorEvent", value |-> x]
    <3>2. r \in LogOf(e)
      BY TaggedIs DEF LogOf
    <3>3. r = w \/ Clashing(r, w)
      BY <1>1, <2>4, <3>1 DEF Clashing
    <3> QED BY <3>2, <3>3 DEF Found
  <2> QED BY <2>1, <2>2, <2>3, <2>4, <2>5 DEF GoodLogs
<1>2. CASE w.kind = "Event"
  <2>1. e.events = ApplyEvent(d.events, w.value) /\ e.operatorEvents = d.operatorEvents
    BY <1>2 DEF Logs
  <2>2. /\ EventLog(e.events)
        /\ Range(d.events) \subseteq Range(e.events)
        /\ Range(e.events) \subseteq Range(d.events) \cup {w.value}
        /\ \E x \in Range(e.events) : x = w.value \/ SameEvent(x, w.value)
    BY <2>1, ApplyEventExtends DEF GoodLogs, Extended
  <2>3. /\ LogOf(d) \subseteq LogOf(e)
        /\ LogOf(e) \subseteq LogOf(d) \cup {[kind |-> "Event", value |-> w.value]}
    BY <2>1, <2>2 DEF LogOf, Tagged
  <2>4. w = [kind |-> "Event", value |-> w.value] /\ w \in PostedEvents
    BY <1>2 DEF Posted
  <2>5. Found(LogOf(e), w)
    <3>1. PICK x \in Range(e.events) : x = w.value \/ SameEvent(x, w.value)
      BY <2>2
    <3> DEFINE r == [kind |-> "Event", value |-> x]
    <3>2. r \in LogOf(e)
      BY TaggedIs DEF LogOf
    <3>3. r = w \/ Clashing(r, w)
      BY <1>2, <2>4, <3>1 DEF Clashing
    <3> QED BY <3>2, <3>3 DEF Found
  <2> QED BY <2>1, <2>2, <2>3, <2>4, <2>5 DEF GoodLogs
<1>3. CASE w.kind = "Snapshot"
  <2>1. /\ e.events = ApplyEvents(d.events, w.value.events)
        /\ e.operatorEvents = d.operatorEvents
    BY <1>3 DEF Logs
  <2>2. Extended(d.events, e.events, Range(w.value.events))
    BY <1>3, <2>1, ApplyEventsExtends DEF GoodLogs, Posted
  <2>3. /\ LogOf(d) \subseteq LogOf(e)
        /\ LogOf(e) \subseteq LogOf(d) \cup Tagged("Event", w.value.events)
    BY <2>1, <2>2 DEF LogOf, Tagged, Extended
  <2> QED BY <1>3, <2>1, <2>2, <2>3 DEF GoodLogs, Extended, Posted
<1>4. CASE w.kind \notin {"Event", "OperatorEvent", "Snapshot"}
  <2>1. e.events = d.events /\ e.operatorEvents = d.operatorEvents
    BY <1>4 DEF Logs
  <2> QED BY <1>4, <2>1 DEF GoodLogs, LogOf
<1> QED BY <1>1, <1>2, <1>3, <1>4
-----------------------------------------------------------------------------
(* The action queue *)

IsAction(a) == a = [id |-> a.id, kind |-> a.kind, goal |-> a.goal, task |-> a.task,
                    ref |-> a.ref, status |-> a.status]
SameAction(a, b) == a.id = b.id /\ a.goal = b.goal

\* The actions that snapshots and drafts call for.
SnapshotCalls(snapshots) == UNION {ActionsFromSnapshot(s) : s \in snapshots}
DraftCalls(drafts) == UNION {DraftActions(x) : x \in drafts}
Calls(c, snapshots, drafts) == c \in SnapshotCalls(snapshots) \/ c \in DraftCalls(drafts)
OwnGoal(s) == \A r \in s.tasks \cup s.approvals : r.goal = s.id

QueueInv(d) ==
    /\ IsStore(d) /\ \A s \in d.snapshots : OwnGoal(s)
    /\ \A a \in d.actions :
          IsAction(a) /\ \E c : Calls(c, d.snapshots, d.drafts) /\ SameAction(a, c)
    /\ \A c : Calls(c, d.snapshots, d.drafts) => \E a \in d.actions : SameAction(a, c)

LEMMA CallsAre ==
  /\ \A c, snapshots : c \in SnapshotCalls(snapshots) <=>
                          \E s \in snapshots : c \in ActionsFromSnapshot(s)
  /\ \A c, drafts : c \in DraftCalls(drafts) <=> \E x \in drafts : c \in DraftActions(x)
  BY DEF SnapshotCalls, DraftCalls

LEMMA SnapshotActionsAre ==
  ASSUME NEW s, OwnGoal(s), NEW a \in ActionsFromSnapshot(s)
  PROVE  IsAction(a) /\ a.goal = s.id /\ a.id[1] \in {"approval", "task"}
<1>1. CASE \E p \in s.approvals : a = ActionFromApproval(p)
  BY <1>1 DEF ActionFromApproval, Action, IsAction, OwnGoal
<1>2. CASE \E t \in s.tasks : a = ActionFromTask(t)
  <2>1. PICK t \in s.tasks : a = ActionFromTask(t)
    BY <1>2
  <2>2. PICK kind : a = Action(<<"task", t.id, t.status>>, kind, t.goal, t.id, None)
    BY <2>1 DEF ActionFromTask
  <2> QED BY <2>2 DEF Action, IsAction, OwnGoal
<1> QED BY <1>1, <1>2 DEF ActionsFromSnapshot

LEMMA DraftActionsAre ==
  ASSUME NEW x
  PROVE  /\ \A a \in DraftActions(x) :
               IsAction(a) /\ a.goal = x.goal /\ a.id = <<"draft", x.id>> /\ a.id[1] = "draft"
         /\ \A a, b \in DraftActions(x) : a = b
  BY DEF DraftActions, Action, IsAction

LEMMA CallsAreActions ==
  ASSUME NEW snapshots, \A s \in snapshots : OwnGoal(s), NEW drafts,
         NEW a, Calls(a, snapshots, drafts)
  PROVE  IsAction(a)
  BY CallsAre, SnapshotActionsAre, DraftActionsAre DEF Calls

\* rebuild_goal_actions after a snapshot.
LEMMA SnapshotQueue ==
  ASSUME NEW d, QueueInv(d), NEW s, OwnGoal(s)
  PROVE  QueueInv(ApplySnapshot(d, s))
<1> DEFINE e == ApplySnapshot(d, s)
           rs == {r \in e.snapshots : r.id = s.id}
           xs == {x \in d.drafts : x.goal = s.id}
<1>1. /\ IsStore(e) /\ e.snapshots = Upsert(d.snapshots, s) /\ e.drafts = d.drafts
      /\ e.actions = {a \in d.actions : a.goal # s.id}
                        \cup SnapshotCalls(rs) \cup DraftCalls(xs)
  <2> DEFINE m == [d EXCEPT
            !.goals = Upsert(@, [id |-> s.id, status |-> s.status]),
            !.tasks = UpsertAll(@, s.tasks),
            !.artifacts = Others(@, s.id) \o s.artifacts,
            !.approvals = {a \in @ : a.goal # s.id} \cup s.approvals,
            !.events = ApplyEvents(@, s.events),
            !.snapshots = Upsert(@, s)]
  <2>1. e = RebuildGoalActions(m, s.id)
    BY DEF ApplySnapshot
  <2>2. /\ IsStore(m) /\ m.snapshots = Upsert(d.snapshots, s) /\ m.drafts = d.drafts
        /\ m.actions = d.actions
    <3>1. IsStore(d)
      BY DEF QueueInv
    <3>2. PICK goals, tasks, artifacts, approvals, events, snapshots :
            /\ snapshots = Upsert(d.snapshots, s)
            /\ m = [d EXCEPT !.goals = goals, !.tasks = tasks, !.artifacts = artifacts,
                             !.approvals = approvals, !.events = events,
                             !.snapshots = snapshots]
      OBVIOUS
    <3> HIDE DEF m
    <3> QED BY <3>1, <3>2 DEF IsStore
  <2> HIDE DEF m
  <2> DEFINE queue == {a \in m.actions : a.goal # s.id} \cup
        (UNION {ActionsFromSnapshot(r) : r \in {r \in m.snapshots : r.id = s.id}}) \cup
        (UNION {DraftActions(x) : x \in {x \in m.drafts : x.goal = s.id}})
  <2>3. e = [m EXCEPT !.actions = queue]
    BY <2>1 DEF RebuildGoalActions
  <2>4. queue = {a \in m.actions : a.goal # s.id}
                   \cup SnapshotCalls({r \in m.snapshots : r.id = s.id})
                   \cup DraftCalls({x \in m.drafts : x.goal = s.id})
    BY DEF SnapshotCalls, DraftCalls
  <2> HIDE DEF queue, e
  <2>5. IsStore(e) /\ e.snapshots = m.snapshots /\ e.drafts = m.drafts /\ e.actions = queue
    BY <2>2, <2>3 DEF IsStore
  <2> QED BY <2>2, <2>4, <2>5
<1> HIDE DEF e
<1>2. \A r \in e.snapshots : OwnGoal(r)
  BY <1>1 DEF Upsert, QueueInv
<1>3. \A r : r \in rs <=> r \in e.snapshots /\ r.id = s.id
  OBVIOUS
<1>4. \A x : x \in xs <=> x \in d.drafts /\ x.goal = s.id
  OBVIOUS
<1>5. \A r : r.id # s.id => (r \in e.snapshots <=> r \in d.snapshots)
  BY <1>1 DEF Upsert
<1> HIDE DEF rs, xs
<1> DEFINE Ours(c) == c \in SnapshotCalls(rs) \/ c \in DraftCalls(xs)
<1>6. \A c : Ours(c) => Calls(c, e.snapshots, e.drafts)
  BY <1>1, <1>3, <1>4, CallsAre DEF Calls
<1>7. ASSUME NEW c, Calls(c, e.snapshots, e.drafts), ~Ours(c)
      PROVE  Calls(c, d.snapshots, d.drafts) /\ c.goal # s.id
  <2>1. CASE \E r \in e.snapshots : c \in ActionsFromSnapshot(r)
    <3>1. PICK r \in e.snapshots : c \in ActionsFromSnapshot(r)
      BY <2>1
    <3>2. r.id # s.id
      BY <1>3, <1>7, <3>1, CallsAre
    <3>3. r \in d.snapshots
      BY <1>5, <3>1, <3>2
    <3>4. c.goal = r.id
      BY <1>2, <3>1, SnapshotActionsAre
    <3> QED BY <3>1, <3>2, <3>3, <3>4, CallsAre DEF Calls
  <2>2. CASE \E x \in d.drafts : c \in DraftActions(x)
    <3>1. PICK x \in d.drafts : c \in DraftActions(x)
      BY <2>2
    <3>2. x.goal # s.id
      BY <1>4, <1>7, <3>1, CallsAre
    <3>3. c.goal = x.goal
      BY <3>1, DraftActionsAre
    <3> QED BY <3>1, <3>2, <3>3, CallsAre DEF Calls
  <2> QED BY <1>1, <1>7, <2>1, <2>2, CallsAre DEF Calls
<1>8. ASSUME NEW c, Calls(c, d.snapshots, d.drafts), c.goal # s.id
      PROVE  Calls(c, e.snapshots, e.drafts)
  <2>1. CASE \E r \in d.snapshots : c \in ActionsFromSnapshot(r)
    <3>1. PICK r \in d.snapshots : c \in ActionsFromSnapshot(r)
      BY <2>1
    <3>2. c.goal = r.id
      BY <3>1, SnapshotActionsAre DEF QueueInv
    <3>3. r \in e.snapshots
      BY <1>5, <1>8, <3>1, <3>2
    <3> QED BY <3>1, <3>3, CallsAre DEF Calls
  <2>2. CASE \E x \in d.drafts : c \in DraftActions(x)
    BY <1>1, <2>2, CallsAre DEF Calls
  <2> QED BY <1>8, <2>1, <2>2, CallsAre DEF Calls
<1>9. \A a : a \in e.actions <=> (a \in d.actions /\ a.goal # s.id) \/ Ours(a)
  BY <1>1
<1> HIDE DEF Ours
<1>10. ASSUME NEW a \in e.actions
       PROVE  IsAction(a) /\ \E c : Calls(c, e.snapshots, e.drafts) /\ SameAction(a, c)
  <2>1. CASE Ours(a)
    <3>1. IsAction(a)
      BY <1>2, <1>6, <2>1, CallsAreActions
    <3> QED BY <1>6, <2>1, <3>1 DEF SameAction
  <2>2. CASE a \in d.actions /\ a.goal # s.id
    <3>1. PICK c : Calls(c, d.snapshots, d.drafts) /\ SameAction(a, c)
      BY <2>2 DEF QueueInv
    <3>2. IsAction(a) /\ c.goal # s.id
      BY <2>2, <3>1 DEF QueueInv, SameAction
    <3> QED BY <1>8, <3>1, <3>2
  <2> QED BY <1>9, <2>1, <2>2
<1>11. ASSUME NEW c, Calls(c, e.snapshots, e.drafts)
       PROVE  \E a \in e.actions : SameAction(a, c)
  <2>1. CASE Ours(c)
    BY <1>9, <2>1 DEF SameAction
  <2>2. CASE ~Ours(c)
    <3>1. Calls(c, d.snapshots, d.drafts) /\ c.goal # s.id
      BY <1>7, <1>11, <2>2
    <3>2. PICK a \in d.actions : SameAction(a, c)
      BY <3>1 DEF QueueInv
    <3> QED BY <1>9, <3>1, <3>2 DEF SameAction
  <2> QED BY <2>1, <2>2
<1> QED BY <1>1, <1>2, <1>10, <1>11 DEF QueueInv, e

\* apply_draft: the action of the draft it replaces goes, its own comes.
LEMMA DraftQueue ==
  ASSUME NEW d, QueueInv(d), NEW x
  PROVE  QueueInv(ApplyDraft(d, x))
<1> DEFINE clash == \E y \in d.drafts : y.id # x.id /\ y.key # None /\ y.key = x.key
           ids(y) == {p.id : p \in DraftActions(y)}
           stay == {a \in d.actions :
                       \A y \in d.drafts : y.id = x.id => a.id \notin ids(y)}
           e == [d EXCEPT !.drafts = Upsert(@, x),
                          !.actions = UpsertAll(stay, DraftActions(x))]
<1>1. CASE clash
  BY <1>1 DEF ApplyDraft
<1>2. CASE ~clash
  <2>1. ApplyDraft(d, x) = e
    BY <1>2 DEF ApplyDraft
  <2>2. /\ IsStore(e) /\ e.snapshots = d.snapshots /\ e.drafts = Upsert(d.drafts, x)
        /\ e.actions = UpsertAll(stay, DraftActions(x))
    <3>1. PICK drafts, actions : /\ drafts = Upsert(d.drafts, x)
                                 /\ actions = UpsertAll(stay, DraftActions(x))
                                 /\ e = [d EXCEPT !.drafts = drafts, !.actions = actions]
      OBVIOUS
    <3> HIDE DEF e
    <3> QED BY <3>1 DEF QueueInv, IsStore
  <2> HIDE DEF e
  <2>3. \A y : y \in e.drafts <=> y = x \/ (y \in d.drafts /\ y.id # x.id)
    BY <2>2 DEF Upsert
  <2>4. \A y : ids(y) \subseteq {<<"draft", y.id>>}
    BY DraftActionsAre
  <2>5. \A a : a \in e.actions <=>
           \/ a \in DraftActions(x)
           \/ a \in stay /\ \A n \in DraftActions(x) : a.id # n.id
    BY <2>2 DEF UpsertAll
  \* An action that the two filters take out is the action of a draft with x's id.
  <2>6. ASSUME NEW a \in d.actions, a.id # <<"draft", x.id>>
        PROVE  a \in e.actions
    <3>1. \A y \in d.drafts : y.id = x.id => a.id \notin ids(y)
      BY <2>4, <2>6
    <3>2. \A n \in DraftActions(x) : a.id # n.id
      BY <2>6, DraftActionsAre
    <3> QED BY <2>5, <3>1, <3>2
  <2>7. ASSUME NEW a \in e.actions
        PROVE  IsAction(a) /\ \E c : Calls(c, e.snapshots, e.drafts) /\ SameAction(a, c)
    <3>1. CASE a \in DraftActions(x)
      BY <2>3, <3>1, DraftActionsAre, CallsAre DEF Calls, SameAction
    <3>2. CASE a \in stay /\ a \notin DraftActions(x)
      <4>1. PICK c : Calls(c, d.snapshots, d.drafts) /\ SameAction(a, c)
        BY <3>2 DEF QueueInv
      <4>2. IsAction(a)
        BY <3>2 DEF QueueInv
      <4>3. CASE c \in SnapshotCalls(d.snapshots)
        BY <2>2, <4>1, <4>2, <4>3 DEF Calls
      <4>4. CASE \E y \in d.drafts : c \in DraftActions(y)
        <5>1. PICK y \in d.drafts : c \in DraftActions(y)
          BY <4>4
        <5>2. y.id # x.id
          <6>1. a.id \in ids(y)
            BY <4>1, <5>1 DEF SameAction
          <6> QED BY <3>2, <5>1, <6>1
        <5>3. y \in e.drafts
          BY <2>3, <5>1, <5>2
        <5> QED BY <4>1, <4>2, <5>1, <5>3, CallsAre DEF Calls
      <4> QED BY <4>1, <4>3, <4>4, CallsAre DEF Calls
    <3> QED BY <2>5, <3>1, <3>2
  <2>8. ASSUME NEW c, Calls(c, e.snapshots, e.drafts)
        PROVE  \E a \in e.actions : SameAction(a, c)
    <3>1. CASE c \in DraftActions(x)
      BY <2>5, <3>1 DEF SameAction
    <3>2. CASE \E y \in d.drafts : y.id # x.id /\ c \in DraftActions(y)
      <4>1. PICK y \in d.drafts : y.id # x.id /\ c \in DraftActions(y)
        BY <3>2
      <4>2. c.id = <<"draft", y.id>>
        BY <4>1, DraftActionsAre
      <4>3. Calls(c, d.snapshots, d.drafts)
        BY <4>1, CallsAre DEF Calls
      <4>4. PICK a \in d.actions : SameAction(a, c)
        BY <4>3 DEF QueueInv
      <4>5. <<"draft", y.id>> # <<"draft", x.id>>
        BY <4>1
      <4>6. a.id # <<"draft", x.id>>
        BY <4>2, <4>4, <4>5 DEF SameAction
      <4> QED BY <2>6, <4>4, <4>6
    <3>3. CASE c \in SnapshotCalls(d.snapshots)
      <4>1. PICK s \in d.snapshots : c \in ActionsFromSnapshot(s)
        BY <3>3, CallsAre
      <4>2. c.id[1] \in {"approval", "task"}
        BY <4>1, SnapshotActionsAre DEF QueueInv
      <4>3. PICK a \in d.actions : SameAction(a, c)
        BY <3>3 DEF QueueInv, Calls
      <4>4. a.id # <<"draft", x.id>>
        BY <4>2, <4>3 DEF SameAction
      <4> QED BY <2>6, <4>3, <4>4
    <3> QED BY <2>2, <2>3, <2>8, <3>1, <3>2, <3>3, CallsAre DEF Calls
  <2> QED BY <2>1, <2>2, <2>7, <2>8 DEF QueueInv
<1> QED BY <1>1, <1>2

\* resolve_actions_for_event closes actions and keeps them.
LEMMA OperatorEventQueue ==
  ASSUME NEW d, QueueInv(d), NEW event
  PROVE  QueueInv(ApplyOperatorEvent(d, event))
<1> DEFINE b == ResolveActions(d.actions, event)
           e == [d EXCEPT !.actions = b, !.operatorEvents = Append(@, event)]
<1>1. CASE \E x \in Range(d.operatorEvents) : SameOperatorEvent(x, event)
  BY <1>1 DEF ApplyOperatorEvent
<1>2. CASE ~\E x \in Range(d.operatorEvents) : SameOperatorEvent(x, event)
  <2>1. ApplyOperatorEvent(d, event) = e
    BY <1>2 DEF ApplyOperatorEvent
  <2>2. ASSUME NEW a, IsAction(a) PROVE IsAction(Close(a, event)) /\ SameAction(Close(a, event), a)
    BY <2>2 DEF Close, IsAction, SameAction
  <2>3. /\ \A p \in b : \E a \in d.actions : p = a \/ p = Close(a, event)
        /\ \A a \in d.actions : \E p \in b : p = a \/ p = Close(a, event)
    BY DEF ResolveActions
  <2> HIDE DEF b
  <2>4. IsStore(e) /\ e.snapshots = d.snapshots /\ e.drafts = d.drafts /\ e.actions = b
    <3>1. IsStore(d)
      BY DEF QueueInv
    <3>2. PICK log : e = [d EXCEPT !.actions = b, !.operatorEvents = log]
      OBVIOUS
    <3> HIDE DEF e
    <3> QED BY <3>1, <3>2 DEF IsStore
  <2> HIDE DEF e
  <2>5. ASSUME NEW p \in e.actions
        PROVE  IsAction(p) /\ \E c : Calls(c, e.snapshots, e.drafts) /\ SameAction(p, c)
    <3>1. PICK a \in d.actions : p = a \/ p = Close(a, event)
      BY <2>3, <2>4
    <3>2. IsAction(a) /\ \E c : Calls(c, d.snapshots, d.drafts) /\ SameAction(a, c)
      BY <3>1 DEF QueueInv
    <3>3. IsAction(p) /\ SameAction(p, a)
      BY <2>2, <3>1, <3>2 DEF SameAction
    <3> QED BY <2>4, <3>2, <3>3 DEF SameAction
  <2>6. ASSUME NEW c, Calls(c, e.snapshots, e.drafts)
        PROVE  \E p \in e.actions : SameAction(p, c)
    <3>1. PICK a \in d.actions : SameAction(a, c)
      BY <2>4, <2>6 DEF QueueInv
    <3>2. PICK p \in b : p = a \/ p = Close(a, event)
      BY <2>3, <3>1
    <3>3. SameAction(p, a)
      BY <2>2, <3>1, <3>2 DEF QueueInv, SameAction
    <3> QED BY <2>4, <3>1, <3>2, <3>3 DEF SameAction
  <2> QED BY <2>1, <2>4, <2>5, <2>6 DEF QueueInv
<1> QED BY <1>1, <1>2

LEMMA ApplyQueue ==
  ASSUME NEW d, QueueInv(d), NEW w, Posted(w)
  PROVE  QueueInv(Apply(d, w))
<1>1. CASE w.kind = "Snapshot"
  <2>1. Apply(d, w) = ApplySnapshot(d, w.value) /\ OwnGoal(w.value)
    BY <1>1 DEF Apply, Posted, OwnGoal
  <2> QED BY <2>1, SnapshotQueue
<1>2. CASE w.kind = "Draft"
  <2>1. Apply(d, w) = ApplyDraft(d, w.value)
    BY <1>2 DEF Apply
  <2> QED BY <2>1, DraftQueue
<1>3. CASE w.kind = "OperatorEvent"
  <2>1. Apply(d, w) = ApplyOperatorEvent(d, w.value)
    BY <1>3 DEF Apply
  <2> QED BY <2>1, OperatorEventQueue
<1>4. CASE w.kind \notin {"Snapshot", "Draft", "OperatorEvent"}
  <2> DEFINE e == Apply(d, w)
  <2>1. /\ IsStore(e) /\ e.snapshots = d.snapshots /\ e.drafts = d.drafts
        /\ e.actions = d.actions
    <3>1. w.kind \in {"Event", "Artifact", "Plan", "Source", "ChatTurn"} /\ IsStore(d)
      BY <1>4 DEF Posted, WriteKinds, QueueInv
    <3> QED BY <3>1 DEF Apply, IsStore
  <2> HIDE DEF e
  <2>2. QueueInv(e)
    BY <2>1 DEF QueueInv
  <2> QED BY <2>2 DEF e
<1> QED BY <1>1, <1>2, <1>3, <1>4
-----------------------------------------------------------------------------
(* The store *)

\* No write that was answered can have been lost.
Kept == backend = "postgres" \/ intact
Logged(w) == w.kind \in {"Event", "OperatorEvent"} => Found(DurableLog, w)

HandlerOK(h) ==
    /\ h = [id |-> h.id, at |-> h.at, write |-> h.write, fromPlan |-> h.fromPlan]
    /\ Posted(h.write)
    /\ Kept /\ h.at = "apply" => Logged(h.write)

\* The tables, memory and what the journal replays to are all stores of posted
\* records, whichever of them is in use.
StoreInv ==
    /\ workload \in Workloads /\ IsSeq(journal)
    /\ GoodLogs(db) /\ GoodLogs(Replay(journal))
    /\ QueueInv(mem) /\ QueueInv(Replay(journal))
    /\ \A h \in handlers : HandlerOK(h)
    /\ Kept => \A w \in accepted : Logged(w)

LEMMA EmptyStoreInv == GoodLogs(EmptyStore) /\ QueueInv(EmptyStore)
<1>1. IsStore(EmptyStore)
  BY DEF IsStore, EmptyStore
<1>2. IsSeq(<<>>) /\ Range(<<>>) = {}
  BY DEF IsSeq, Range
<1>3. GoodLogs(EmptyStore)
  BY <1>1, <1>2 DEF GoodLogs, EventLog, OperatorLog, LogOf, Tagged, EmptyStore
<1>4. QueueInv(EmptyStore)
  BY <1>1, CallsAre DEF QueueInv, Calls, EmptyStore
<1> QED BY <1>3, <1>4

LEMMA StoreInvInit ==
  ASSUME Init
  PROVE  StoreInv /\ DurableLog = {}
<1>1. Replay(journal) = EmptyStore /\ db = EmptyStore /\ mem = EmptyStore
  BY ReplayEmpty DEF Init
<1>2. IsSeq(journal)
  BY DEF Init, IsSeq
<1>3. DurableLog = {}
  <2>1. Range(<<>>) = {}
    BY DEF Range
  <2> QED BY <1>1, <2>1 DEF DurableLog, Durable, EmptyStore, Tagged
<1> QED BY <1>1, <1>2, <1>3, EmptyStoreInv DEF Init, StoreInv

LEMMA DurableLogIs == DurableLog = LogOf(Durable)
  BY DEF DurableLog, LogOf

\* What a step owes when it leaves tables and journal alone.
LEMMA SameLog ==
  ASSUME StoreInv, UNCHANGED <<backend, workload, db, journal>>, intact' => intact,
         QueueInv(mem'), \A h \in handlers' : HandlerOK(h)',
         Kept => \A w \in accepted' : Logged(w)
  PROVE  StoreInv' /\ DurableLog' = DurableLog
<1>1. DurableLog' = DurableLog
  BY DEF DurableLog, Durable
<1>2. Kept' => Kept
  BY DEF Kept
<1>3. \A w : Logged(w) => Logged(w)'
  BY <1>1 DEF Logged, Found
<1> QED BY <1>1, <1>2, <1>3 DEF StoreInv

\* A handler that was fine still is, when the log only grows.
LEMMA HandlerStays ==
  ASSUME NEW h, HandlerOK(h), Kept' => Kept, DurableLog \subseteq DurableLog'
  PROVE  HandlerOK(h)'
  BY DEF HandlerOK, Logged, Found

LEMMA PersistInv ==
  ASSUME StoreInv, NEW h \in handlers, Persist(h)
  PROVE  StoreInv' /\ (DurableLog' = DurableLog \/ Log!Append)
<1> DEFINE w == h.write
           advanced == [h EXCEPT !.at = "apply"]
<1>1. /\ HandlerOK(h) /\ Posted(w) /\ QueueInv(mem') /\ mem' = mem
      /\ UNCHANGED <<backend, workload, accepted>>
  BY DEF StoreInv, HandlerOK, Persist
<1>2. advanced = [id |-> h.id, at |-> "apply", write |-> h.write, fromPlan |-> h.fromPlan]
  BY <1>1 DEF HandlerOK
<1>3. \* A write that reaches the disk.
      ASSUME NEW d, GoodLogs(d), d = Durable, NEW e, e = Durable', IsStore(e),
             Logs(d, e, w), intact' = intact, Advance(h, "apply"),
             GoodLogs(db'), QueueInv(Replay(journal)'), IsSeq(journal'),
             GoodLogs(e) => GoodLogs(Replay(journal)')
      PROVE  StoreInv' /\ Log!Append
  <2>1. /\ GoodLogs(e) /\ LogOf(d) \subseteq LogOf(e)
        /\ w.kind \in {"Event", "OperatorEvent"} => Found(LogOf(e), w)
    BY <1>1, <1>3, WriteLogs
  <2>2. DurableLog = LogOf(d) /\ DurableLog' = LogOf(e)
    BY <1>3 DEF DurableLog, LogOf
  <2>3. Log!Append
    BY <2>1, <2>2, LogHasNoClash DEF Log!Append, Log!NoClash, GoodLogs
  <2>4. Kept' <=> Kept
    BY <1>1, <1>3 DEF Kept
  <2>5. \A v : Logged(v) => Logged(v)'
    BY <2>1, <2>2 DEF Logged, Found
  <2>6. \A g \in handlers' : HandlerOK(g)'
    <3>1. HandlerOK(advanced)'
      BY <1>1, <1>2, <2>1, <2>2 DEF HandlerOK, Logged
    <3>2. \A g \in handlers : HandlerOK(g)'
      BY <2>1, <2>2, <2>4, HandlerStays DEF StoreInv
    <3> QED BY <1>3, <3>1, <3>2 DEF Advance
  <2>7. GoodLogs(Replay(journal)') /\ QueueInv(mem')
    BY <1>1, <1>3, <2>1
  <2> QED BY <1>1, <1>3, <2>3, <2>4, <2>5, <2>6, <2>7 DEF StoreInv
<1>4. CASE /\ backend = "postgres" /\ Fits(db, w) /\ db' = Rows(db, w)
           /\ Advance(h, "apply") /\ UNCHANGED <<journal, faults, intact>>
  <2>1. IsStore(Rows(db, w)) /\ Logs(db, Rows(db, w), w)
    BY <1>1, RowsLogs DEF Posted, StoreInv, GoodLogs
  <2>2. db = Durable /\ db' = Durable'
    BY <1>1, <1>4 DEF Durable
  <2>3. GoodLogs(db')
    BY <1>1, <1>4, <2>1, WriteLogs DEF StoreInv
  <2>4. Replay(journal)' = Replay(journal) /\ IsSeq(journal')
    BY <1>4 DEF StoreInv
  <2> QED BY <1>3, <1>4, <2>1, <2>2, <2>3, <2>4 DEF StoreInv
<1>5. CASE /\ backend = "jsonl" /\ journal' = Append(journal, w)
           /\ Advance(h, "apply") /\ UNCHANGED <<db, faults, intact>>
  <2>1. IsSeq(journal') /\ Replay(journal)' = Apply(Replay(journal), w)
    BY <1>5, AppendSeq, ReplayAppend DEF StoreInv
  <2>2. /\ IsStore(Apply(Replay(journal), w))
        /\ Logs(Replay(journal), Apply(Replay(journal), w), w)
    BY <1>1, ApplyLogs DEF Posted, StoreInv, GoodLogs
  <2>3. QueueInv(Replay(journal)')
    BY <1>1, <2>1, ApplyQueue DEF StoreInv
  <2>4. Replay(journal) = Durable /\ Replay(journal)' = Durable'
    BY <1>1, <1>5 DEF Durable
  <2> QED BY <1>3, <1>5, <2>1, <2>2, <2>3, <2>4 DEF StoreInv
<1>6. CASE handlers' = handlers \ {h} /\ UNCHANGED <<db, journal, intact>>
  <2>1. DurableLog' = DurableLog
    BY <1>1, <1>6 DEF DurableLog, Durable
  <2>2. \A g \in handlers' : HandlerOK(g)'
    BY <1>1, <1>6, <2>1, HandlerStays DEF StoreInv, Kept
  <2> QED BY <1>1, <1>6, <2>2, SameLog DEF StoreInv
<1>7. CASE /\ backend = "jsonl" /\ intact' = FALSE /\ Advance(h, "apply")
           /\ UNCHANGED <<db, journal>>
  <2>1. ~Kept' /\ DurableLog' = DurableLog
    BY <1>1, <1>7 DEF Kept, DurableLog, Durable
  <2>2. HandlerOK(advanced)'
    BY <1>1, <1>2, <2>1 DEF HandlerOK
  <2>3. \A g \in handlers' : HandlerOK(g)'
    BY <1>1, <1>7, <2>1, <2>2, HandlerStays DEF StoreInv, Advance
  <2> QED BY <1>1, <1>7, <2>1, <2>3 DEF StoreInv
<1> QED BY <1>4, <1>5, <1>6, <1>7 DEF Persist

LEMMA ApplyToMemoryInv ==
  ASSUME StoreInv, NEW h \in handlers, ApplyToMemory(h)
  PROVE  StoreInv' /\ DurableLog' = DurableLog
<1>1. /\ HandlerOK(h) /\ Posted(h.write) /\ h.at = "apply" /\ mem' = Apply(mem, h.write)
      /\ UNCHANGED <<backend, workload, db, journal, intact>>
  BY DEF StoreInv, HandlerOK, ApplyToMemory
<1>2. QueueInv(mem')
  BY <1>1, ApplyQueue DEF StoreInv
<1>3. DurableLog' = DurableLog /\ (Kept' <=> Kept)
  BY <1>1 DEF DurableLog, Durable, Kept
<1>4. \A g \in handlers : HandlerOK(g)'
  BY <1>3, HandlerStays DEF StoreInv
<1>5. CASE handlers' = handlers \ {h} /\ accepted' = accepted \cup {h.write}
  <2>1. Kept => \A w \in accepted' : Logged(w)
    BY <1>1, <1>5 DEF StoreInv, HandlerOK
  <2> QED BY <1>1, <1>2, <1>4, <1>5, <2>1, SameLog
<1>6. CASE /\ \E x : handlers' = (handlers \ {h}) \cup
                        {Handler(h.id, [kind |-> "Draft", value |-> x], TRUE)}
           /\ UNCHANGED accepted
  <2>1. PICK x : handlers' = (handlers \ {h}) \cup
                    {Handler(h.id, [kind |-> "Draft", value |-> x], TRUE)}
    BY <1>6
  <2> DEFINE w == [kind |-> "Draft", value |-> x]
  <2>2. Posted(w)
    BY DEF Posted, WriteKinds
  <2>3. HandlerOK(Handler(h.id, w, TRUE))'
    BY <2>2 DEF HandlerOK, Handler
  <2>4. \A g \in handlers' : HandlerOK(g)'
    BY <1>4, <2>1, <2>3
  <2> QED BY <1>1, <1>2, <1>6, <2>4, SameLog DEF StoreInv
<1> QED BY <1>5, <1>6 DEF ApplyToMemory

\* A request that comes is at "persist" with what it carries.
LEMMA ReceiveInv ==
  ASSUME StoreInv, NEW w, Posted(w), NEW fromPlan, Start(w, fromPlan),
         UNCHANGED <<backend, workload, db, journal, mem, intact, accepted>>
  PROVE  StoreInv' /\ DurableLog' = DurableLog
<1>1. DurableLog' = DurableLog /\ (Kept' <=> Kept)
  BY DEF DurableLog, Durable, Kept
<1>2. PICK id : handlers' = handlers \cup {Handler(id, w, fromPlan)}
  BY DEF Start
<1>3. HandlerOK(Handler(id, w, fromPlan))'
  BY DEF HandlerOK, Handler
<1>4. \A g \in handlers' : HandlerOK(g)'
  BY <1>1, <1>2, <1>3, HandlerStays DEF StoreInv
<1> QED BY <1>4, SameLog DEF StoreInv

LEMMA StoreInvNext ==
  ASSUME StoreInv, [Next]_vars
  PROVE  StoreInv' /\ (DurableLog' = DurableLog \/ Log!Append)
<1>1. CASE UNCHANGED vars
  <2>1. DurableLog' = DurableLog
    BY <1>1 DEF vars, DurableLog, Durable
  <2>2. \A g \in handlers : HandlerOK(g)'
    BY <1>1, <2>1, HandlerStays DEF StoreInv, vars, Kept
  <2> QED BY <1>1, <2>2, SameLog DEF vars, StoreInv
<1>2. CASE \E write \in workload.writes : Receive(write)
  <2>1. PICK write \in workload.writes : Receive(write)
    BY <1>2
  <2>2. Posted(write)
    BY WorkloadPosted DEF StoreInv
  <2> QED BY <2>1, <2>2, ReceiveInv DEF Receive
<1>3. CASE \E command \in workload.plans : ReceivePlan(command)
  <2>1. PICK plan : Start([kind |-> "Plan", value |-> plan], TRUE)
    BY <1>3 DEF ReceivePlan
  <2>2. Posted([kind |-> "Plan", value |-> plan])
    BY DEF Posted, WriteKinds
  <2> QED BY <1>3, <2>1, <2>2, ReceiveInv DEF ReceivePlan
<1>4. CASE \E h \in handlers : Persist(h)
  BY <1>4, PersistInv
<1>5. CASE \E h \in handlers : ApplyToMemory(h)
  BY <1>5, ApplyToMemoryInv
<1>6. CASE Crash
  <2>1. QueueInv(mem') /\ handlers' = {}
    BY <1>6, EmptyStoreInv DEF Crash
  <2> QED BY <1>6, <2>1, SameLog DEF Crash, StoreInv
<1>7. CASE Restart
  <2>1. QueueInv(mem')
    BY <1>7, EmptyStoreInv DEF Restart, StoreInv
  <2>2. DurableLog' = DurableLog
    BY <1>7 DEF Restart, DurableLog, Durable
  <2>3. \A g \in handlers' : HandlerOK(g)'
    BY <1>7, <2>2, HandlerStays DEF Restart, StoreInv, Kept
  <2> QED BY <1>7, <2>1, <2>3, SameLog DEF Restart, StoreInv
<1> QED
  BY <1>1, <1>2, <1>3, <1>4, <1>5, <1>6, <1>7 DEF Next

LEMMA StoreInvAlways == Spec => []StoreInv
<1>1. Init => StoreInv
  BY StoreInvInit
<1>2. StoreInv /\ [Next]_vars => StoreInv'
  BY StoreInvNext
<1> QED BY <1>1, <1>2, PTL DEF Spec

\* Both backends implement an append-only log without clashing records: posts
\* repeated, concurrent and crossing, a failed write, a crash and a replay
\* either leave the log as it is or add records that clash with none.
THEOREM EventsAreALogRefines == Spec => EventsAreALog
<1>1. Init => Log!Init
  BY StoreInvInit DEF Log!Init
<1>2. StoreInv /\ [Next]_vars => [Log!Append]_DurableLog
  BY StoreInvNext
<1> QED BY <1>1, <1>2, StoreInvAlways, PTL DEF Spec, EventsAreALog, Log!Spec

\* An event that was answered with accepted is found under its key after any
\* crash, on Postgres and on a journal that lost no line.
THEOREM AcceptedStaysDurable == Spec => []AcceptedIsDurable
<1>1. ASSUME NEW w \in PostedEvents PROVE w.kind \in {"Event", "OperatorEvent"}
  BY DEF PostedEvents, Tagged
<1>2. StoreInv => AcceptedIsDurable
  BY <1>1 DEF StoreInv, AcceptedIsDurable, Kept, Logged, Found
<1> QED BY <1>2, StoreInvAlways, PTL

\* The action queue in memory names exactly what the last snapshots and the
\* drafts call for, after any writes and any replay.
THEOREM QueueStaysComplete == Spec => []QueueIsComplete
<1> DEFINE called == (UNION {ActionsFromSnapshot(s) : s \in mem.snapshots}) \cup
                     (UNION {DraftActions(d) : d \in mem.drafts})
<1>1. \A c : c \in called <=> Calls(c, mem.snapshots, mem.drafts)
  BY DEF Calls, SnapshotCalls, DraftCalls
<1>2. ListActions(mem, None, None, None) = mem.actions
  BY DEF ListActions, FilterActions, Allowed
<1>3. StoreInv => {a.id : a \in mem.actions} = {a.id : a \in called}
  <2> HIDE DEF called
  <2> QED BY <1>1 DEF StoreInv, QueueInv, SameAction
<1>4. StoreInv => QueueIsComplete
  BY <1>2, <1>3 DEF QueueIsComplete
<1> QED BY <1>4, StoreInvAlways, PTL
-----------------------------------------------------------------------------
(* Rows that a DELETE leaves, and rows put behind them *)

\* The values of a selection over the first k records.
SelectRun(f, k, s, S) ==
    f = [n \in 0..k |-> IF n = 0 THEN <<>>
                        ELSE IF s[n] \in S THEN Append(f[n - 1], s[n]) ELSE f[n - 1]]

LEMMA SelectRunExists ==
  ASSUME NEW s, NEW S, NEW k \in Nat
  PROVE  \E f : SelectRun(f, k, s, S)
<1> DEFINE T == {m \in Nat : \E f : SelectRun(f, m, s, S)}
           Then(list, n) == IF s[n] \in S THEN Append(list, s[n]) ELSE list
<1>1. 0 \in T
  <2> DEFINE f == [n \in 0..0 |-> <<>>]
  <2>1. SelectRun(f, 0, s, S)
    BY DEF SelectRun
  <2> QED BY <2>1
<1>2. ASSUME NEW m \in Nat, m \in T PROVE m + 1 \in T
  <2>1. PICK f : SelectRun(f, m, s, S)
    BY <1>2
  <2> DEFINE g == [n \in 0..m + 1 |-> IF n = m + 1 THEN Then(f[m], n) ELSE f[n]]
             h == [n \in 0..m + 1 |-> IF n = 0 THEN <<>> ELSE Then(g[n - 1], n)]
  <2>2. ASSUME NEW n \in 0..m + 1 PROVE g[n] = h[n]
    <3>1. CASE n = 0
      BY <2>1, <3>1 DEF SelectRun
    <3>2. CASE n = m + 1
      BY <3>2
    <3>3. CASE n \in 1..m
      <4>1. g[n] = f[n] /\ g[n - 1] = f[n - 1] /\ n # 0 /\ n \in 0..m
        BY <3>3
      <4>2. f[n] = Then(f[n - 1], n)
        BY <2>1, <4>1 DEF SelectRun
      <4> QED BY <3>3, <4>1, <4>2
    <3> QED BY <3>1, <3>2, <3>3
  <2>3. g = h
    BY <2>2
  <2>4. SelectRun(g, m + 1, s, S)
    BY <2>3 DEF SelectRun
  <2> QED BY <2>4
<1> HIDE DEF T
<1>3. Nat \subseteq T
  BY <1>1, <1>2, NatSetInduction
<1> QED BY <1>3 DEF T

LEMMA SelectIsRun ==
  ASSUME NEW s, NEW S, Len(s) \in Nat
  PROVE  \E f : SelectRun(f, Len(s), s, S) /\ Select(s, S) = f[Len(s)]
<1> DEFINE f == CHOOSE f : SelectRun(f, Len(s), s, S)
<1>1. SelectRun(f, Len(s), s, S)
  <2>1. \E g : SelectRun(g, Len(s), s, S)
    BY SelectRunExists
  <2> QED BY <2>1, Zenon
<1>2. Select(s, S) = f[Len(s)]
  BY DEF Select, SelectRun
<1> QED BY <1>1, <1>2

\* What is kept is what was there and is wanted.
LEMMA SelectKeeps ==
  ASSUME NEW s, IsSeq(s), NEW S
  PROVE  IsSeq(Select(s, S)) /\ Range(Select(s, S)) = Range(s) \cap S
<1>1. Len(s) \in Nat /\ Range(s) = {s[i] : i \in 1..Len(s)}
  BY DEF IsSeq, Range
<1>2. PICK f : SelectRun(f, Len(s), s, S) /\ Select(s, S) = f[Len(s)]
  BY <1>1, SelectIsRun
<1> DEFINE Good(n) == IsSeq(f[n]) /\ Range(f[n]) = {s[i] : i \in 1..n} \cap S
           T == {n \in Nat : n <= Len(s) => Good(n)}
<1>3. 0 \in T
  <2>1. f[0] = <<>>
    BY <1>1, <1>2 DEF SelectRun
  <2>2. IsSeq(<<>>) /\ Range(<<>>) = {}
    BY DEF IsSeq, Range
  <2> QED BY <2>1, <2>2
<1>4. ASSUME NEW n \in Nat, n \in T PROVE n + 1 \in T
  <2> SUFFICES ASSUME n + 1 <= Len(s) PROVE Good(n + 1)
    OBVIOUS
  <2>1. f[n + 1] = IF s[n + 1] \in S THEN Append(f[n], s[n + 1]) ELSE f[n]
    <3>1. n + 1 \in 0..Len(s) /\ n + 1 # 0 /\ (n + 1) - 1 = n
      BY <1>1
    <3> QED BY <1>2, <3>1 DEF SelectRun
  <2>2. IsSeq(f[n]) /\ Range(f[n]) = {s[i] : i \in 1..n} \cap S
    BY <1>1, <1>4
  <2>3. {s[i] : i \in 1..n + 1} = {s[i] : i \in 1..n} \cup {s[n + 1]}
    OBVIOUS
  <2>4. CASE s[n + 1] \in S
    <3>1. IsSeq(f[n + 1]) /\ Range(f[n + 1]) = Range(f[n]) \cup {s[n + 1]}
      BY <2>1, <2>2, <2>4, AppendSeq
    <3> QED BY <2>2, <2>3, <2>4, <3>1
  <2>5. CASE s[n + 1] \notin S
    BY <2>1, <2>2, <2>3, <2>5
  <2> QED BY <2>4, <2>5
<1> HIDE DEF T
<1>5. Nat \subseteq T
  BY <1>3, <1>4, NatSetInduction
<1>6. Good(Len(s))
  BY <1>1, <1>5 DEF T
<1> QED BY <1>1, <1>2, <1>6

LEMMA ConcatSeq ==
  ASSUME NEW s, IsSeq(s), NEW t, IsSeq(t)
  PROVE  IsSeq(s \o t) /\ Range(s \o t) = Range(s) \cup Range(t)
<1>1. PICK S, T : s \in Seq(S) /\ t \in Seq(T)
  BY DEF IsSeq
<1> DEFINE U == S \cup T
           c == s \o t
<1>2. s \in Seq(U) /\ t \in Seq(U)
  BY <1>1
<1>3. c \in Seq(U) /\ Len(c) = Len(s) + Len(t) /\ Len(s) \in Nat /\ Len(t) \in Nat
      /\ DOMAIN s = 1..Len(s) /\ DOMAIN t = 1..Len(t) /\ DOMAIN c = 1..Len(s) + Len(t)
  BY <1>2
<1>4. (\A i \in 1..Len(s) : c[i] = s[i]) /\ (\A i \in 1..Len(t) : c[Len(s) + i] = t[i])
  BY <1>2, <1>3
<1>5. \A i \in 1..Len(s) + Len(t) : i \in 1..Len(s) \/ \E j \in 1..Len(t) : i = Len(s) + j
  <2> TAKE i \in 1..Len(s) + Len(t)
  <2>1. CASE i > Len(s)
    <3>1. i - Len(s) \in 1..Len(t) /\ i = Len(s) + (i - Len(s))
      BY <1>3, <2>1
    <3> QED BY <3>1
  <2> QED BY <1>3, <2>1
<1>6. Range(c) = Range(s) \cup Range(t)
  <2> HIDE DEF c
  <2>1. ASSUME NEW x \in Range(c) PROVE x \in Range(s) \cup Range(t)
    <3>1. PICK i \in 1..Len(s) + Len(t) : x = c[i]
      BY <1>3 DEF Range
    <3>2. CASE i \in 1..Len(s)
      BY <1>3, <1>4, <3>1, <3>2 DEF Range
    <3>3. CASE \E j \in 1..Len(t) : i = Len(s) + j
      BY <1>3, <1>4, <3>1, <3>3 DEF Range
    <3> QED BY <1>5, <3>2, <3>3
  <2>2. Range(s) \subseteq Range(c)
    BY <1>3, <1>4 DEF Range
  <2>3. Range(t) \subseteq Range(c)
    BY <1>3, <1>4 DEF Range
  <2> QED BY <2>1, <2>2, <2>3
<1> QED BY <1>3, <1>6 DEF IsSeq

\* DELETE of a goal's artifacts and INSERT of those of its snapshot.
LEMMA OthersThen ==
  ASSUME NEW s, IsSeq(s), NEW goal, NEW new, IsSeq(new)
  PROVE  /\ IsSeq(Others(s, goal) \o new)
         /\ Range(Others(s, goal) \o new) = {r \in Range(s) : r.goal # goal} \cup Range(new)
<1> DEFINE S == {r \in Range(s) : r.goal # goal}
<1>1. IsSeq(Select(s, S)) /\ Range(Select(s, S)) = S
  BY SelectKeeps
<1> QED BY <1>1, ConcatSeq DEF Others
-----------------------------------------------------------------------------
(* Memory beside the tables *)

\* What memory and tables share as long as they see the same writes.  The
\* tables keep one artifact per id and one source approval per source and
\* reference, memory all artifacts and one approval per id.
Together(m, d) ==
    /\ m.goals = d.goals /\ m.tasks = d.tasks /\ m.approvals = d.approvals
    /\ m.plans = d.plans /\ m.drafts = d.drafts /\ m.chat = d.chat
    /\ m.events = d.events /\ m.operatorEvents = d.operatorEvents
    /\ Range(m.artifacts) = Range(d.artifacts)
    /\ {s.source : s \in m.sources} = {s.source : s \in d.sources}

\* A task was in a snapshot of its goal no newer than v.
Projected(t, v) ==
    \E s \in Carried(workload, "Snapshot") :
        t.goal = s.id /\ s.version <= v /\ t.id \in {a.id : a \in s.tasks}

\* Where the records of a store come from.
FromRequests(m) ==
    /\ \A t \in m.tasks : Projected(t, newest)
    /\ IsSeq(m.artifacts) /\ Range(m.artifacts) \subseteq CarriedArtifacts(workload)
    /\ m.sources \subseteq Carried(workload, "Source")
    /\ IsSeq(m.chat) /\ Range(m.chat) \subseteq Carried(workload, "ChatTurn")

HandlerFromRequests(h) ==
    /\ h.at \in {"persist", "apply"}
    /\ h.write.kind \in {"Plan", "Draft"} \/ h.write \in workload.writes
    /\ h.write.kind = "Snapshot" => h.write.value.version = newest

\* What the requests of one behaviour may carry.
LEMMA CarriedAre ==
  ASSUME workload \in Workloads
  PROVE  /\ \A w \in workload.writes : w.value \in Carried(workload, w.kind)
         /\ \A s \in Carried(workload, "Snapshot") :
               /\ OwnGoal(s) /\ s.version \in Nat /\ IsSeq(s.artifacts)
               /\ Range(s.artifacts) \subseteq CarriedArtifacts(workload)
         /\ Carried(workload, "Artifact") \subseteq CarriedArtifacts(workload)
<1>1. \A w \in workload.writes : w.value \in Carried(workload, w.kind)
  BY DEF Carried
<1>2. ASSUME NEW s \in Carried(workload, "Snapshot")
      PROVE  /\ OwnGoal(s) /\ s.version \in Nat /\ IsSeq(s.artifacts)
             /\ Range(s.artifacts) \subseteq CarriedArtifacts(workload)
  <2>1. PICK w \in workload.writes : w.kind = "Snapshot" /\ s = w.value
    BY DEF Carried
  <2>2. OwnGoal(s)
    BY <2>1, StoreAssumption DEF OwnGoal
  <2>3. s.version \in Nat /\ IsSeq(s.artifacts)
    BY ReferenceAssumption DEF IsSeq
  <2>4. Range(s.artifacts) \subseteq CarriedArtifacts(workload)
    BY DEF CarriedArtifacts
  <2> QED BY <2>2, <2>3, <2>4
<1>3. Carried(workload, "Artifact") \subseteq CarriedArtifacts(workload)
  BY DEF CarriedArtifacts
<1> QED BY <1>1, <1>2, <1>3

\* The lists that a snapshot changes in the same way on both sides, and those
\* it leaves.
AfterSnapshot(m, e, s) ==
    /\ IsStore(e)
    /\ e.goals = Upsert(m.goals, [id |-> s.id, status |-> s.status])
    /\ e.artifacts = Others(m.artifacts, s.id) \o s.artifacts
    /\ e.approvals = {a \in m.approvals : a.goal # s.id} \cup s.approvals
    /\ e.events = ApplyEvents(m.events, s.events)
    /\ e.plans = m.plans /\ e.drafts = m.drafts /\ e.chat = m.chat
    /\ e.operatorEvents = m.operatorEvents /\ e.sources = m.sources

LEMMA SnapshotInMemory ==
  ASSUME NEW m, IsStore(m), NEW s
  PROVE  /\ AfterSnapshot(m, ApplySnapshot(m, s), s)
         /\ ApplySnapshot(m, s).tasks = UpsertAll(m.tasks, s.tasks)
<1>1. PICK goals, tasks, artifacts, approvals, events, snapshots :
        /\ goals = Upsert(m.goals, [id |-> s.id, status |-> s.status])
        /\ tasks = UpsertAll(m.tasks, s.tasks)
        /\ artifacts = Others(m.artifacts, s.id) \o s.artifacts
        /\ approvals = {a \in m.approvals : a.goal # s.id} \cup s.approvals
        /\ events = ApplyEvents(m.events, s.events)
        /\ snapshots = Upsert(m.snapshots, s)
  OBVIOUS
<1> DEFINE n == [m EXCEPT !.goals = goals, !.tasks = tasks, !.artifacts = artifacts,
                          !.approvals = approvals, !.events = events,
                          !.snapshots = snapshots]
<1>2. ApplySnapshot(m, s) = RebuildGoalActions(n, s.id)
  BY <1>1 DEF ApplySnapshot
<1>3. PICK queue : ApplySnapshot(m, s) = [n EXCEPT !.actions = queue]
  <2> HIDE DEF n
  <2> QED BY <1>2 DEF RebuildGoalActions
<1>4. /\ IsStore(n) /\ n.goals = goals /\ n.tasks = tasks /\ n.artifacts = artifacts
      /\ n.approvals = approvals /\ n.events = events /\ n.plans = m.plans
      /\ n.drafts = m.drafts /\ n.chat = m.chat
      /\ n.operatorEvents = m.operatorEvents /\ n.sources = m.sources
  <2>1. n = [m EXCEPT !.goals = goals, !.tasks = tasks, !.artifacts = artifacts,
                      !.approvals = approvals, !.events = events,
                      !.snapshots = snapshots]
    OBVIOUS
  <2> HIDE DEF n
  <2>2. IsStore(m)
    OBVIOUS
  <2> QED BY <2>1, <2>2 DEF IsStore
<1> HIDE DEF n
<1> DEFINE e == [n EXCEPT !.actions = queue]
<1>5. /\ IsStore(e) /\ e.goals = goals /\ e.tasks = tasks /\ e.artifacts = artifacts
      /\ e.approvals = approvals /\ e.events = events /\ e.plans = m.plans
      /\ e.drafts = m.drafts /\ e.chat = m.chat
      /\ e.operatorEvents = m.operatorEvents /\ e.sources = m.sources
  BY <1>4 DEF IsStore
<1> HIDE DEF e
<1>6. ApplySnapshot(m, s) = e
  BY <1>3 DEF e
<1> QED BY <1>1, <1>5, <1>6 DEF AfterSnapshot

LEMMA SnapshotInTables ==
  ASSUME NEW d, IsStore(d), NEW s
  PROVE  /\ AfterSnapshot(d, SnapshotRows(d, s), s)
         /\ SnapshotRows(d, s).tasks = {t \in d.tasks : t.goal # s.id} \cup s.tasks
<1>1. PICK goals, tasks, artifacts, approvals, events, actions :
        /\ goals = Upsert(d.goals, [id |-> s.id, status |-> s.status])
        /\ tasks = {t \in d.tasks : t.goal # s.id} \cup s.tasks
        /\ artifacts = Others(d.artifacts, s.id) \o s.artifacts
        /\ approvals = {a \in d.approvals : a.goal # s.id} \cup s.approvals
        /\ events = ApplyEvents(d.events, s.events)
        /\ actions = {a \in d.actions : a.goal # s.id} \cup ActionsFromSnapshot(s)
  OBVIOUS
<1> DEFINE n == [d EXCEPT !.goals = goals, !.tasks = tasks, !.artifacts = artifacts,
                          !.approvals = approvals, !.events = events,
                          !.actions = actions]
<1>2. SnapshotRows(d, s) = n
  BY <1>1 DEF SnapshotRows
<1>3. /\ IsStore(n) /\ n.goals = goals /\ n.tasks = tasks /\ n.artifacts = artifacts
      /\ n.approvals = approvals /\ n.events = events /\ n.plans = d.plans
      /\ n.drafts = d.drafts /\ n.chat = d.chat
      /\ n.operatorEvents = d.operatorEvents /\ n.sources = d.sources
  <2>1. n = [d EXCEPT !.goals = goals, !.tasks = tasks, !.artifacts = artifacts,
                      !.approvals = approvals, !.events = events,
                      !.actions = actions]
    OBVIOUS
  <2> HIDE DEF n
  <2>2. IsStore(d)
    OBVIOUS
  <2> QED BY <2>1, <2>2 DEF IsStore
<1> HIDE DEF n
<1> QED BY <1>1, <1>2, <1>3 DEF AfterSnapshot

\* A snapshot's tasks replace, by their ids, the very tasks of its goal: an
\* older snapshot of the goal had no others.
LEMMA TasksOfTheGoal ==
  ASSUME workload \in Workloads, NEW tasks, \A t \in tasks : Projected(t, newest),
         NEW s \in Carried(workload, "Snapshot"), s.version = newest
  PROVE  UpsertAll(tasks, s.tasks) = {t \in tasks : t.goal # s.id} \cup s.tasks
<1> SUFFICES ASSUME NEW t \in tasks
             PROVE  (\A n \in s.tasks : t.id # n.id) <=> t.goal # s.id
  BY DEF UpsertAll
<1>1. PICK r \in Carried(workload, "Snapshot") :
        t.goal = r.id /\ r.version <= newest /\ t.id \in {a.id : a \in r.tasks}
  BY DEF Projected
<1>2. CASE t.goal = s.id
  <2>1. {a.id : a \in r.tasks} \subseteq {a.id : a \in s.tasks}
    BY <1>1, <1>2, ReferenceAssumption
  <2> QED BY <1>1, <1>2, <2>1
<1>3. CASE t.goal # s.id
  <2>1. ASSUME NEW n \in s.tasks, t.id = n.id PROVE FALSE
    <3>1. PICK a \in r.tasks : a.id = n.id
      BY <1>1, <2>1
    <3>2. r.id = s.id
      BY <3>1, ReferenceAssumption
    <3> QED BY <1>1, <1>3, <3>2
  <2> QED BY <1>3, <2>1
<1> QED BY <1>2, <1>3

LEMMA SnapshotRecords ==
  ASSUME workload \in Workloads, NEW m, FromRequests(m), NEW e, NEW s,
         s \in Carried(workload, "Snapshot"), s.version = newest,
         AfterSnapshot(m, e, s), e.tasks = {t \in m.tasks : t.goal # s.id} \cup s.tasks
  PROVE  /\ FromRequests(e)
         /\ Range(e.artifacts) =
               {a \in Range(m.artifacts) : a.goal # s.id} \cup Range(s.artifacts)
<1>1. /\ OwnGoal(s) /\ IsSeq(s.artifacts) /\ s.version \in Nat
      /\ Range(s.artifacts) \subseteq CarriedArtifacts(workload)
  BY CarriedAre
<1>2. \A t \in e.tasks : Projected(t, newest)
  <2>1. ASSUME NEW t \in s.tasks PROVE Projected(t, newest)
    BY <1>1 DEF OwnGoal, Projected
  <2> QED BY <2>1 DEF FromRequests
<1>3. /\ IsSeq(e.artifacts)
      /\ Range(e.artifacts) =
            {a \in Range(m.artifacts) : a.goal # s.id} \cup Range(s.artifacts)
  BY <1>1, OthersThen DEF FromRequests, AfterSnapshot
<1>4. e.sources = m.sources /\ e.chat = m.chat
  BY DEF AfterSnapshot
<1> QED BY <1>1, <1>2, <1>3, <1>4 DEF FromRequests

LEMMA TogetherSnapshot ==
  ASSUME workload \in Workloads, NEW m, IsStore(m), NEW d, IsStore(d),
         FromRequests(m), FromRequests(d), Together(m, d),
         NEW s \in Carried(workload, "Snapshot"), s.version = newest
  PROVE  /\ Together(ApplySnapshot(m, s), SnapshotRows(d, s))
         /\ FromRequests(ApplySnapshot(m, s)) /\ FromRequests(SnapshotRows(d, s))
<1> DEFINE em == ApplySnapshot(m, s)
           ed == SnapshotRows(d, s)
<1>1. /\ AfterSnapshot(m, em, s) /\ em.tasks = {t \in m.tasks : t.goal # s.id} \cup s.tasks
  <2>1. UpsertAll(m.tasks, s.tasks) = {t \in m.tasks : t.goal # s.id} \cup s.tasks
    BY TasksOfTheGoal DEF FromRequests
  <2> QED BY <2>1, SnapshotInMemory
<1>2. /\ AfterSnapshot(d, ed, s) /\ ed.tasks = {t \in d.tasks : t.goal # s.id} \cup s.tasks
  BY SnapshotInTables
<1> HIDE DEF em, ed
<1>3. /\ FromRequests(em)
      /\ Range(em.artifacts) =
            {a \in Range(m.artifacts) : a.goal # s.id} \cup Range(s.artifacts)
  BY <1>1, SnapshotRecords
<1>4. /\ FromRequests(ed)
      /\ Range(ed.artifacts) =
            {a \in Range(d.artifacts) : a.goal # s.id} \cup Range(s.artifacts)
  BY <1>2, SnapshotRecords
<1>5. Together(em, ed)
  BY <1>1, <1>2, <1>3, <1>4 DEF Together, AfterSnapshot
<1> QED BY <1>3, <1>4, <1>5 DEF em, ed

LEMMA TogetherArtifact ==
  ASSUME workload \in Workloads, NEW m, IsStore(m), NEW d, IsStore(d),
         FromRequests(m), FromRequests(d), Together(m, d),
         NEW a \in Carried(workload, "Artifact")
  PROVE  LET e == [m EXCEPT !.artifacts = Append(@, a)]
         IN  /\ Together(e, ArtifactRows(d, a))
             /\ FromRequests(e) /\ FromRequests(ArtifactRows(d, a))
<1> DEFINE list == IF \E b \in Range(d.artifacts) : b.id = a.id
                   THEN [i \in DOMAIN d.artifacts |->
                            IF d.artifacts[i].id = a.id THEN a ELSE d.artifacts[i]]
                   ELSE Append(d.artifacts, a)
           more == Append(m.artifacts, a)
<1>1. a \in CarriedArtifacts(workload)
  BY CarriedAre
<1>2. IsSeq(more) /\ Range(more) = Range(m.artifacts) \cup {a}
  BY AppendSeq DEF FromRequests
<1>3. IsSeq(list) /\ Range(list) = Range(d.artifacts) \cup {a}
  <2>1. CASE \E b \in Range(d.artifacts) : b.id = a.id
    <3>1. \A i \in DOMAIN d.artifacts : d.artifacts[i].id = a.id => d.artifacts[i] = a
      BY <1>1, ReferenceAssumption DEF FromRequests, Range
    <3>2. list = [i \in DOMAIN d.artifacts |-> d.artifacts[i]]
      BY <2>1, <3>1
    <3>3. list = d.artifacts
      BY <3>2 DEF FromRequests, IsSeq
    <3>4. a \in Range(d.artifacts)
      BY <2>1, <3>1 DEF Range
    <3> QED BY <3>3, <3>4 DEF FromRequests
  <2>2. CASE ~\E b \in Range(d.artifacts) : b.id = a.id
    BY <2>2, AppendSeq DEF FromRequests
  <2> QED BY <2>1, <2>2
<1>4. ArtifactRows(d, a) = [d EXCEPT !.artifacts = list]
  BY DEF ArtifactRows
<1> HIDE DEF list, more
<1> DEFINE e == [m EXCEPT !.artifacts = more]
           rows == [d EXCEPT !.artifacts = list]
<1>5. /\ e.goals = m.goals /\ e.tasks = m.tasks /\ e.approvals = m.approvals
      /\ e.plans = m.plans /\ e.drafts = m.drafts /\ e.chat = m.chat
      /\ e.events = m.events /\ e.operatorEvents = m.operatorEvents
      /\ e.sources = m.sources /\ e.artifacts = more
  BY DEF IsStore
<1>6. /\ rows.goals = d.goals /\ rows.tasks = d.tasks /\ rows.approvals = d.approvals
      /\ rows.plans = d.plans /\ rows.drafts = d.drafts /\ rows.chat = d.chat
      /\ rows.events = d.events /\ rows.operatorEvents = d.operatorEvents
      /\ rows.sources = d.sources /\ rows.artifacts = list
  BY DEF IsStore
<1> HIDE DEF e, rows
<1>7. Together(e, rows)
  BY <1>2, <1>3, <1>5, <1>6 DEF Together
<1>8. FromRequests(e) /\ FromRequests(rows)
  BY <1>1, <1>2, <1>3, <1>5, <1>6 DEF FromRequests
<1> QED BY <1>4, <1>7, <1>8 DEF e, rows, more

LEMMA TogetherSource ==
  ASSUME workload \in Workloads, NEW m, IsStore(m), NEW d, IsStore(d),
         FromRequests(m), FromRequests(d), Together(m, d),
         NEW s \in Carried(workload, "Source")
  PROVE  LET e == [m EXCEPT !.sources = Upsert(@, s)]
         IN  /\ Together(e, SourceRows(d, s))
             /\ FromRequests(e) /\ FromRequests(SourceRows(d, s))
<1> DEFINE more == Upsert(m.sources, s)
           list == {r \in d.sources : <<r.ref, r.source>> # <<s.ref, s.source>>} \cup {s}
           Shown(set) == {r.source : r \in set}
<1>1. more \subseteq Carried(workload, "Source") /\ list \subseteq Carried(workload, "Source")
  BY DEF FromRequests, Upsert
<1>2. Shown(more) = Shown(m.sources) \cup {s.source}
  <2>1. \A r \in m.sources : r.id = s.id => r.source = s.source
    BY ReferenceAssumption DEF FromRequests
  <2>2. \A r : r \in more <=> (r \in m.sources /\ r.id # s.id) \/ r = s
    BY DEF Upsert
  <2> HIDE DEF more
  <2> QED BY <2>1, <2>2
<1>3. Shown(list) = Shown(d.sources) \cup {s.source}
  <2>1. \A r : r \in list <=>
            (r \in d.sources /\ ~(r.ref = s.ref /\ r.source = s.source)) \/ r = s
    OBVIOUS
  <2> HIDE DEF list
  <2> QED BY <2>1
<1>4. SourceRows(d, s) = [d EXCEPT !.sources = list]
  BY DEF SourceRows
<1> HIDE DEF list, more
<1> DEFINE e == [m EXCEPT !.sources = more]
           rows == [d EXCEPT !.sources = list]
<1>5. /\ e.goals = m.goals /\ e.tasks = m.tasks /\ e.approvals = m.approvals
      /\ e.plans = m.plans /\ e.drafts = m.drafts /\ e.chat = m.chat
      /\ e.events = m.events /\ e.operatorEvents = m.operatorEvents
      /\ e.artifacts = m.artifacts /\ e.sources = more
  BY DEF IsStore
<1>6. /\ rows.goals = d.goals /\ rows.tasks = d.tasks /\ rows.approvals = d.approvals
      /\ rows.plans = d.plans /\ rows.drafts = d.drafts /\ rows.chat = d.chat
      /\ rows.events = d.events /\ rows.operatorEvents = d.operatorEvents
      /\ rows.artifacts = d.artifacts /\ rows.sources = list
  BY DEF IsStore
<1> HIDE DEF e, rows
<1>7. Together(e, rows)
  BY <1>2, <1>3, <1>5, <1>6 DEF Together
<1>8. FromRequests(e) /\ FromRequests(rows)
  BY <1>1, <1>5, <1>6 DEF FromRequests
<1> QED BY <1>4, <1>7, <1>8 DEF e, rows, more

LEMMA TogetherChat ==
  ASSUME workload \in Workloads, NEW m, IsStore(m), NEW d, IsStore(d),
         FromRequests(m), FromRequests(d), Together(m, d),
         NEW t \in Carried(workload, "ChatTurn")
  PROVE  LET e == [m EXCEPT !.chat = ApplyChatTurn(@, t)]
         IN  /\ Together(e, ChatRows(d, t))
             /\ FromRequests(e) /\ FromRequests(ChatRows(d, t))
<1> DEFINE more == ApplyChatTurn(m.chat, t)
<1>1. m.chat = d.chat
  BY DEF Together
<1>2. \A r \in Range(m.chat) : SameTurn(r, t) => r.session = t.session
  BY ReferenceAssumption DEF FromRequests, SameTurn, None
<1>3. more = IF \E r \in Range(m.chat) : SameTurn(r, t) THEN m.chat ELSE Append(m.chat, t)
  BY <1>2 DEF ApplyChatTurn
<1>4. IsSeq(more) /\ Range(more) \subseteq Carried(workload, "ChatTurn")
  <2>1. IsSeq(Append(m.chat, t)) /\ Range(Append(m.chat, t)) = Range(m.chat) \cup {t}
    BY AppendSeq DEF FromRequests
  <2> QED BY <1>3, <2>1 DEF FromRequests
<1>5. ChatRows(d, t) = [d EXCEPT !.chat = more]
  BY <1>1, <1>3 DEF ChatRows
<1> HIDE DEF more
<1> DEFINE e == [m EXCEPT !.chat = more]
           rows == [d EXCEPT !.chat = more]
<1>6. /\ e.goals = m.goals /\ e.tasks = m.tasks /\ e.approvals = m.approvals
      /\ e.plans = m.plans /\ e.drafts = m.drafts /\ e.sources = m.sources
      /\ e.events = m.events /\ e.operatorEvents = m.operatorEvents
      /\ e.artifacts = m.artifacts /\ e.chat = more
  BY DEF IsStore
<1>7. /\ rows.goals = d.goals /\ rows.tasks = d.tasks /\ rows.approvals = d.approvals
      /\ rows.plans = d.plans /\ rows.drafts = d.drafts /\ rows.sources = d.sources
      /\ rows.events = d.events /\ rows.operatorEvents = d.operatorEvents
      /\ rows.artifacts = d.artifacts /\ rows.chat = more
  BY DEF IsStore
<1> HIDE DEF e, rows
<1>8. Together(e, rows)
  BY <1>6, <1>7 DEF Together
<1>9. FromRequests(e) /\ FromRequests(rows)
  BY <1>4, <1>6, <1>7 DEF FromRequests
<1> QED BY <1>5, <1>8, <1>9 DEF e, rows, more

\* What FromRequests looks at does not change.
SameOrigins(m, e) ==
    e.tasks = m.tasks /\ e.artifacts = m.artifacts /\ e.sources = m.sources /\ e.chat = m.chat

\* Events, operator events and plans go into both sides in one way, and a
\* draft does when no other row has its key.
LEMMA TogetherOther ==
  ASSUME NEW m, IsStore(m), NEW d, IsStore(d), Together(m, d), NEW w, Fits(d, w),
         w.kind \in {"Event", "OperatorEvent", "Plan", "Draft"}
  PROVE  /\ Together(Apply(m, w), Rows(d, w))
         /\ SameOrigins(m, Apply(m, w)) /\ SameOrigins(d, Rows(d, w))
<1>1. CASE w.kind = "Event"
  <2> DEFINE em == Apply(m, w)
             ed == Rows(d, w)
  <2>1. /\ em = [m EXCEPT !.events = ApplyEvent(m.events, w.value)]
        /\ ed = [d EXCEPT !.events = ApplyEvent(d.events, w.value)]
    BY <1>1 DEF Apply, Rows
  <2> HIDE DEF em, ed
  <2>2. /\ em.events = ApplyEvent(m.events, w.value)
        /\ em.goals = m.goals /\ em.approvals = m.approvals /\ em.plans = m.plans
        /\ em.drafts = m.drafts /\ em.operatorEvents = m.operatorEvents
        /\ SameOrigins(m, em)
    BY <2>1 DEF IsStore, SameOrigins
  <2>3. /\ ed.events = ApplyEvent(d.events, w.value)
        /\ ed.goals = d.goals /\ ed.approvals = d.approvals /\ ed.plans = d.plans
        /\ ed.drafts = d.drafts /\ ed.operatorEvents = d.operatorEvents
        /\ SameOrigins(d, ed)
    BY <2>1 DEF IsStore, SameOrigins
  <2>4. Together(em, ed)
    BY <2>2, <2>3 DEF Together, SameOrigins
  <2> QED BY <2>2, <2>3, <2>4 DEF em, ed
<1>2. CASE w.kind = "Plan"
  <2> DEFINE em == Apply(m, w)
             ed == Rows(d, w)
  <2>1. /\ em = [m EXCEPT !.plans = Upsert(m.plans, w.value)]
        /\ ed = [d EXCEPT !.plans = Upsert(d.plans, w.value)]
    BY <1>2 DEF Apply, Rows
  <2> HIDE DEF em, ed
  <2>2. /\ em.plans = Upsert(m.plans, w.value)
        /\ em.goals = m.goals /\ em.approvals = m.approvals /\ em.events = m.events
        /\ em.drafts = m.drafts /\ em.operatorEvents = m.operatorEvents
        /\ SameOrigins(m, em)
    BY <2>1 DEF IsStore, SameOrigins
  <2>3. /\ ed.plans = Upsert(d.plans, w.value)
        /\ ed.goals = d.goals /\ ed.approvals = d.approvals /\ ed.events = d.events
        /\ ed.drafts = d.drafts /\ ed.operatorEvents = d.operatorEvents
        /\ SameOrigins(d, ed)
    BY <2>1 DEF IsStore, SameOrigins
  <2>4. Together(em, ed)
    BY <2>2, <2>3 DEF Together, SameOrigins
  <2> QED BY <2>2, <2>3, <2>4 DEF em, ed
<1>3. CASE w.kind = "OperatorEvent"
  <2> DEFINE em == Apply(m, w)
             ed == Rows(d, w)
  <2>1. em = ApplyOperatorEvent(m, w.value) /\ ed = OperatorEventRows(d, w.value)
    BY <1>3 DEF Apply, Rows
  <2> HIDE DEF em, ed
  <2>2. /\ em.operatorEvents = ApplyToOperatorLog(m.operatorEvents, w.value)
        /\ em.goals = m.goals /\ em.approvals = m.approvals /\ em.plans = m.plans
        /\ em.drafts = m.drafts /\ em.events = m.events /\ SameOrigins(m, em)
    BY <2>1 DEF ApplyOperatorEvent, ApplyToOperatorLog, IsStore, SameOrigins
  <2>3. /\ ed.operatorEvents = ApplyToOperatorLog(d.operatorEvents, w.value)
        /\ ed.goals = d.goals /\ ed.approvals = d.approvals /\ ed.plans = d.plans
        /\ ed.drafts = d.drafts /\ ed.events = d.events /\ SameOrigins(d, ed)
    BY <2>1 DEF OperatorEventRows, ApplyToOperatorLog, IsStore, SameOrigins
  <2>4. Together(em, ed)
    BY <2>2, <2>3 DEF Together, SameOrigins
  <2> QED BY <2>2, <2>3, <2>4 DEF em, ed
<1>4. CASE w.kind = "Draft"
  <2> DEFINE em == Apply(m, w)
             ed == Rows(d, w)
  <2>1. DraftFits(d, w.value) /\ d.drafts = m.drafts
    BY <1>4 DEF Fits, Together
  <2>2. ed = DraftRows(d, w.value)
    BY <1>4 DEF Rows
  <2>3. PICK actions : em = [m EXCEPT !.drafts = Upsert(@, w.value), !.actions = actions]
    BY <1>4, <2>1 DEF Apply, ApplyDraft, DraftFits
  <2> HIDE DEF em, ed
  <2>4. /\ em.drafts = Upsert(m.drafts, w.value)
        /\ em.goals = m.goals /\ em.approvals = m.approvals /\ em.plans = m.plans
        /\ em.operatorEvents = m.operatorEvents /\ em.events = m.events
        /\ SameOrigins(m, em)
    BY <2>3 DEF IsStore, SameOrigins
  <2>5. /\ ed.drafts = Upsert(d.drafts, w.value)
        /\ ed.goals = d.goals /\ ed.approvals = d.approvals /\ ed.plans = d.plans
        /\ ed.operatorEvents = d.operatorEvents /\ ed.events = d.events
        /\ SameOrigins(d, ed)
    BY <2>2 DEF DraftRows, IsStore, SameOrigins
  <2>6. Together(em, ed)
    BY <2>1, <2>4, <2>5 DEF Together, SameOrigins
  <2> QED BY <2>4, <2>5, <2>6 DEF em, ed
<1> QED BY <1>1, <1>2, <1>3, <1>4

\* A write that the tables take keeps memory beside them.
LEMMA TogetherWrite ==
  ASSUME workload \in Workloads, NEW m, IsStore(m), NEW d, IsStore(d),
         FromRequests(m), FromRequests(d), Together(m, d),
         NEW h, HandlerFromRequests(h), Posted(h.write), Fits(d, h.write)
  PROVE  /\ Together(Apply(m, h.write), Rows(d, h.write))
         /\ FromRequests(Apply(m, h.write)) /\ FromRequests(Rows(d, h.write))
<1> DEFINE w == h.write
<1>1. w.kind \notin {"Plan", "Draft"} => w.value \in Carried(workload, w.kind)
  BY CarriedAre DEF HandlerFromRequests
<1>2. CASE w.kind = "Snapshot"
  <2>1. Apply(m, w) = ApplySnapshot(m, w.value) /\ Rows(d, w) = SnapshotRows(d, w.value)
    BY <1>2 DEF Apply, Rows
  <2>2. w.value.version = newest /\ w.value \in Carried(workload, "Snapshot")
    BY <1>1, <1>2 DEF HandlerFromRequests
  <2> QED BY <2>1, <2>2, TogetherSnapshot
<1>3. CASE w.kind = "Artifact"
  <2>1. /\ Apply(m, w) = [m EXCEPT !.artifacts = Append(@, w.value)]
        /\ Rows(d, w) = ArtifactRows(d, w.value) /\ w.value \in Carried(workload, "Artifact")
    BY <1>1, <1>3 DEF Apply, Rows
  <2> QED BY <2>1, TogetherArtifact
<1>4. CASE w.kind = "Source"
  <2>1. /\ Apply(m, w) = [m EXCEPT !.sources = Upsert(@, w.value)]
        /\ Rows(d, w) = SourceRows(d, w.value) /\ w.value \in Carried(workload, "Source")
    BY <1>1, <1>4 DEF Apply, Rows
  <2> QED BY <2>1, TogetherSource
<1>5. CASE w.kind = "ChatTurn"
  <2>1. /\ Apply(m, w) = [m EXCEPT !.chat = ApplyChatTurn(@, w.value)]
        /\ Rows(d, w) = ChatRows(d, w.value) /\ w.value \in Carried(workload, "ChatTurn")
    BY <1>1, <1>5 DEF Apply, Rows
  <2> QED BY <2>1, TogetherChat
<1>6. CASE w.kind \in {"Event", "OperatorEvent", "Plan", "Draft"}
  <2>1. /\ Together(Apply(m, w), Rows(d, w))
        /\ SameOrigins(m, Apply(m, w)) /\ SameOrigins(d, Rows(d, w))
    BY <1>6, TogetherOther
  <2> QED BY <2>1 DEF SameOrigins, FromRequests
<1> QED BY <1>2, <1>3, <1>4, <1>5, <1>6 DEF Posted, WriteKinds

\* A Postgres store that handled its requests one at a time and never restarted.
Undisturbed == backend = "postgres" /\ ~overlapped /\ ~restarted /\ up

\* Memory when a request is through: its transaction may be there already.
MemoryAfter(h) == IF h.at = "apply" THEN Apply(mem, h.write) ELSE mem

Beside(m) == FromRequests(m) /\ Together(m, db)

TogetherInv ==
    Undisturbed =>
        /\ newest \in Nat /\ FromRequests(db)
        /\ \/ handlers = {} /\ Beside(mem)
           \/ \E h : handlers = {h} /\ HandlerFromRequests(h) /\ Beside(MemoryAfter(h))

LEMMA TogetherInit ==
  ASSUME Init
  PROVE  TogetherInv
<1>1. mem = EmptyStore /\ db = EmptyStore /\ handlers = {} /\ newest = 0
  BY DEF Init
<1>2. IsSeq(<<>>) /\ Range(<<>>) = {}
  BY DEF IsSeq, Range
<1>3. FromRequests(EmptyStore)
  BY <1>2 DEF FromRequests, EmptyStore
<1>4. Together(EmptyStore, EmptyStore)
  BY DEF Together
<1> QED BY <1>1, <1>3, <1>4 DEF TogetherInv, Beside

LEMMA NewestGrows ==
  ASSUME NEW m, FromRequests(m), workload \in Workloads, workload' = workload,
         newest \in Nat, newest' \in Nat, newest <= newest'
  PROVE  FromRequests(m)'
<1>1. ASSUME NEW t, Projected(t, newest) PROVE Projected(t, newest)'
  BY <1>1, CarriedAre DEF Projected
<1> QED BY <1>1 DEF FromRequests

\* The first request after the last is through.
LEMMA TogetherStart ==
  ASSUME StoreInv, TogetherInv, Undisturbed', NEW w, NEW fromPlan, Start(w, fromPlan),
         UNCHANGED <<backend, workload, db, mem, up, restarted>>,
         newest \in Nat => newest' \in Nat /\ newest <= newest',
         w.kind \in {"Plan", "Draft"} \/ w \in workload.writes,
         w.kind = "Snapshot" => w.value.version = newest'
  PROVE  TogetherInv'
<1>1. handlers = {} /\ Undisturbed
  BY DEF Start, Undisturbed
<1>2. newest \in Nat /\ FromRequests(db) /\ FromRequests(mem) /\ Together(mem, db)
  BY <1>1 DEF TogetherInv, Beside
<1>3. PICK id : handlers' = {Handler(id, w, fromPlan)}
  BY <1>1 DEF Start
<1> DEFINE h == Handler(id, w, fromPlan)
<1>4. h.at = "persist" /\ h.write = w
  BY DEF Handler
<1> HIDE DEF h
<1>5. newest' \in Nat /\ newest <= newest' /\ workload \in Workloads
  BY <1>2 DEF StoreInv
<1>6. FromRequests(db)' /\ FromRequests(mem)'
  <2>1. FromRequests(db)'
    BY <1>2, <1>5, NewestGrows DEF FromRequests, Projected
  <2>2. FromRequests(mem)'
    BY <1>2, <1>5, NewestGrows DEF FromRequests, Projected
  <2> QED BY <2>1, <2>2
<1>7. HandlerFromRequests(h)'
  BY <1>4 DEF HandlerFromRequests
<1>8. Beside(MemoryAfter(h))'
  BY <1>2, <1>4, <1>6 DEF MemoryAfter, Beside, Together
<1> QED BY <1>3, <1>5, <1>6, <1>7, <1>8 DEF TogetherInv, h

\* Requests, workload and version stay as they are.
LEMMA SameRequests ==
  ASSUME UNCHANGED <<workload, newest>>
  PROVE  /\ \A m : FromRequests(m) => FromRequests(m)'
         /\ \A h : HandlerFromRequests(h) => HandlerFromRequests(h)'
  BY DEF FromRequests, Projected, HandlerFromRequests

LEMMA TogetherPersist ==
  ASSUME StoreInv, TogetherInv, NEW h \in handlers, Persist(h), Undisturbed'
  PROVE  TogetherInv'
<1> DEFINE w == h.write
           advanced == [h EXCEPT !.at = "apply"]
<1>1. /\ Undisturbed /\ backend = "postgres" /\ h.at = "persist"
      /\ UNCHANGED <<workload, newest, mem>>
  BY DEF Persist, Undisturbed
<1>2. handlers = {h} /\ HandlerFromRequests(h) /\ newest \in Nat
  BY <1>1 DEF TogetherInv
<1>3. FromRequests(db) /\ FromRequests(mem) /\ Together(mem, db)
  BY <1>1, <1>2 DEF TogetherInv, MemoryAfter, Beside
<1>4. CASE Fits(db, w) /\ db' = Rows(db, w) /\ Advance(h, "apply")
  <2>1. /\ workload \in Workloads /\ IsStore(mem) /\ IsStore(db) /\ Posted(w)
        /\ h = [id |-> h.id, at |-> h.at, write |-> h.write, fromPlan |-> h.fromPlan]
    BY DEF StoreInv, GoodLogs, QueueInv, HandlerOK
  <2>2. advanced.at = "apply" /\ advanced.write = w
    BY <2>1
  <2>3. handlers' = {advanced}
    BY <1>2, <1>4 DEF Advance
  <2> HIDE DEF advanced
  <2>4. /\ Together(Apply(mem, w), Rows(db, w)) /\ FromRequests(Apply(mem, w))
        /\ FromRequests(Rows(db, w))
    BY <1>2, <1>3, <1>4, <2>1, TogetherWrite
  <2>5. HandlerFromRequests(advanced)
    BY <1>2, <2>2 DEF HandlerFromRequests
  <2>6. HandlerFromRequests(advanced)'
    BY <1>1, <2>5, SameRequests
  <2>7. PICK m, d : m = Apply(mem, w) /\ d = Rows(db, w)
    OBVIOUS
  <2>8. FromRequests(m)' /\ FromRequests(d)' /\ Together(m, d)
    BY <1>1, <2>4, <2>7, SameRequests
  <2>9. MemoryAfter(advanced)' = m /\ db' = d
    BY <1>1, <1>4, <2>2, <2>7 DEF MemoryAfter
  <2>10. FromRequests(db)' /\ Beside(MemoryAfter(advanced))'
    BY <2>8, <2>9 DEF Beside, FromRequests, Projected
  <2> QED BY <1>1, <1>2, <2>3, <2>6, <2>10 DEF TogetherInv
<1>5. CASE handlers' = handlers \ {h} /\ UNCHANGED db
  <2>1. handlers' = {}
    BY <1>2, <1>5
  <2>2. FromRequests(db)' /\ Beside(mem)'
    BY <1>1, <1>3, <1>5 DEF Beside, FromRequests, Projected
  <2> QED BY <1>1, <1>2, <2>1, <2>2 DEF TogetherInv
<1> QED BY <1>1, <1>4, <1>5 DEF Persist

LEMMA TogetherApply ==
  ASSUME TogetherInv, NEW h \in handlers, ApplyToMemory(h), Undisturbed'
  PROVE  TogetherInv'
<1>1. /\ Undisturbed /\ h.at = "apply" /\ mem' = Apply(mem, h.write)
      /\ UNCHANGED <<workload, newest, db>>
  BY DEF ApplyToMemory, Undisturbed
<1>2. handlers = {h} /\ newest \in Nat /\ FromRequests(db)
  BY <1>1 DEF TogetherInv
<1>3. Beside(mem)' /\ FromRequests(db)'
  BY <1>1, <1>2 DEF TogetherInv, MemoryAfter, Beside, FromRequests, Projected
<1>4. CASE handlers' = handlers \ {h}
  <2>1. handlers' = {}
    BY <1>2, <1>4
  <2> QED BY <1>1, <1>2, <1>3, <2>1 DEF TogetherInv
<1>5. CASE \E x : handlers' = (handlers \ {h}) \cup
                     {Handler(h.id, [kind |-> "Draft", value |-> x], TRUE)}
  <2>1. PICK x : handlers' = {Handler(h.id, [kind |-> "Draft", value |-> x], TRUE)}
    BY <1>2, <1>5
  <2> DEFINE g == Handler(h.id, [kind |-> "Draft", value |-> x], TRUE)
  <2>2. g.at = "persist" /\ g.write.kind = "Draft"
    BY DEF Handler
  <2> HIDE DEF g
  <2>3. HandlerFromRequests(g)' /\ MemoryAfter(g)' = mem'
    BY <2>2 DEF HandlerFromRequests, MemoryAfter
  <2>4. Beside(MemoryAfter(g))'
    BY <1>3, <2>3 DEF Beside
  <2> QED BY <1>1, <1>2, <1>3, <2>1, <2>3, <2>4 DEF TogetherInv, g
<1> QED BY <1>4, <1>5 DEF ApplyToMemory

LEMMA TogetherNext ==
  ASSUME StoreInv, TogetherInv, [Next]_vars
  PROVE  TogetherInv'
<1> SUFFICES ASSUME Undisturbed' PROVE TogetherInv'
  BY DEF TogetherInv
<1>1. CASE UNCHANGED vars
  BY <1>1 DEF vars, TogetherInv, Undisturbed, Beside, MemoryAfter, FromRequests, Projected,
     HandlerFromRequests
<1>2. CASE \E write \in workload.writes : Receive(write)
  <2>1. PICK write \in workload.writes : Receive(write)
    BY <1>2
  <2>2. newest \in Nat => newest' \in Nat /\ newest <= newest'
    <3>1. write.kind = "Snapshot" => write.value.version \in Nat
      BY CarriedAre DEF StoreInv
    <3> QED BY <2>1, <3>1 DEF Receive
  <2>3. write.kind = "Snapshot" => write.value.version = newest'
    BY <2>1 DEF Receive
  <2> QED BY <2>1, <2>2, <2>3, TogetherStart DEF Receive
<1>3. CASE \E command \in workload.plans : ReceivePlan(command)
  <2>1. PICK plan : Start([kind |-> "Plan", value |-> plan], TRUE)
    BY <1>3 DEF ReceivePlan
  <2>2. UNCHANGED <<backend, workload, db, mem, up, restarted, newest>>
    BY <1>3 DEF ReceivePlan
  <2>3. newest \in Nat => newest' \in Nat /\ newest <= newest'
    BY <2>2
  <2> QED BY <2>1, <2>2, <2>3, TogetherStart
<1>4. CASE \E h \in handlers : Persist(h)
  BY <1>4, TogetherPersist
<1>5. CASE \E h \in handlers : ApplyToMemory(h)
  BY <1>5, TogetherApply
<1>6. CASE Crash
  BY <1>6 DEF Crash, Undisturbed
<1>7. CASE Restart
  BY <1>7 DEF Restart, Undisturbed
<1> QED
  BY <1>1, <1>2, <1>3, <1>4, <1>5, <1>6, <1>7 DEF Next

LEMMA TogetherAlways == Spec => [](StoreInv /\ TogetherInv)
<1>1. Init => TogetherInv
  BY TogetherInit
<1>2. StoreInv /\ TogetherInv /\ [Next]_vars => TogetherInv'
  BY TogetherNext
<1> QED BY <1>1, <1>2, StoreInvAlways, PTL DEF Spec

\* What is shown of stores that are together is the same.
LEMMA TogetherAnswers ==
  ASSUME NEW m, FromRequests(m), NEW d, FromRequests(d), Together(m, d)
  PROVE  Answers(m) = Answers(d)
<1>1. \A s : FilterEvents(s, None) = Select(s, Range(s))
  BY DEF FilterEvents, Allowed
<1>2. /\ Range(ListArtifacts(m, None)) = Range(m.artifacts)
      /\ Range(ListArtifacts(d, None)) = Range(d.artifacts)
  <2>1. ASSUME NEW s, IsSeq(s) PROVE Range(FilterEvents(s, None)) = Range(s)
    <3>1. Range(Select(s, Range(s))) = Range(s) \cap Range(s)
      BY <2>1, SelectKeeps
    <3> QED BY <1>1, <3>1
  <2> QED BY <2>1 DEF ListArtifacts, FromRequests
<1>3. ListGoals(m, None) = ListGoals(d, None) /\ ListPlans(m, None) = ListPlans(d, None)
  BY DEF ListGoals, ListPlans, Together
<1>4. /\ ListTasks(m, None, None) = ListTasks(d, None, None)
      /\ ListApprovals(m, None, "Pending") = ListApprovals(d, None, "Pending")
      /\ ListDrafts(m, None, None) = ListDrafts(d, None, None)
  BY DEF ListTasks, ListApprovals, ListDrafts, Together
<1>5. /\ ListEvents(m, None) = ListEvents(d, None)
      /\ ListTimeline(m, None) = ListTimeline(d, None)
      /\ ListWorkerRuns(m, None) = ListWorkerRuns(d, None)
  BY DEF ListEvents, ListTimeline, ListWorkerRuns, ListOperatorEvents, Together
<1>6. /\ ListEvidence(m, None) = ListEvidence(d, None)
      /\ ListCheckpoints(m, None) = ListCheckpoints(d, None)
  BY <1>2 DEF ListEvidence, ListCheckpoints, EvidenceFrom, CheckpointsFrom, Together
<1>7. {s.source : s \in ListSources(m, None)} = {s.source : s \in ListSources(d, None)}
  <2>1. ListSources(m, None) = m.sources /\ ListSources(d, None) = d.sources
    BY DEF ListSources, FilterSources, Allowed
  <2> QED BY <2>1 DEF Together
<1>8. {ChatSession(m, t.session) : t \in Range(m.chat)}
         = {ChatSession(d, t.session) : t \in Range(d.chat)}
  BY DEF ChatSession, Together
<1> QED BY <1>3, <1>4, <1>5, <1>6, <1>7, <1>8 DEF Answers

\* As long as requests come one at a time and nothing restarts, memory and the
\* tables answer alike: on every history of snapshots, events, artifacts,
\* plans, drafts, source approvals and chat turns, and when a transaction
\* fails.
THEOREM BackendsStayTogether == Spec => []BackendsAgree
<1>1. ASSUME StoreInv, TogetherInv PROVE BackendsAgree
  <2> SUFFICES ASSUME Undisturbed, handlers = {} PROVE Answers(mem) = Answers(db)
    BY DEF BackendsAgree, Undisturbed
  <2>1. \A h : {h} # {}
    OBVIOUS
  <2>2. FromRequests(mem) /\ FromRequests(db) /\ Together(mem, db)
    BY <1>1, <2>1 DEF TogetherInv, Beside
  <2> QED BY <2>2, TogetherAnswers
<1> QED BY <1>1, TogetherAlways, PTL
=============================================================================
