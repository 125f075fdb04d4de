--------------------------- MODULE Notifier_proofs ---------------------------
(***************************************************************************)
(* The outbox of the notifier: what was not reached stays visible, an      *)
(* acknowledgement stays, and a restart shows what the service showed.     *)
(***************************************************************************)
EXTENDS Notifier, SequenceTheorems, FiniteSetTheorems, TLAPS

\* What an entry may say of a target that was never reached.
Good(id, e) == \/ id \in reached \/ e.status \in {"RetryScheduled", "DeadLettered"}
               \/ e.target.kind = "Email"

OutboxLines == {l \in [kind : {"outbox"}, id : issued, entry : Entry] : Good(l.id, l.entry)}
Lines == OutboxLines \cup {Thread}

Frames == [at : {"idle", "deliver", "pick", "redeliver", "append", "insert"},
           rest : Seq(Target), batch : Seq(Lines), due : SUBSET DOMAIN store,
           ack : SUBSET issued]

FrameOK(f) ==
    /\ f \in Frames
    /\ f.at = "idle" => f = Idle
    /\ f.at = "deliver" => f.rest # <<>>
    /\ f.at = "redeliver" => f.batch # <<>> /\ Head(f.batch) \in OutboxLines
    /\ f.at \in {"append", "insert"} => f.batch # <<>>
    /\ f.ack # {} => \E l \in OutboxLines :
          /\ f.batch = <<l>> /\ f.ack = {l.id} /\ l.entry.status = "Acknowledged"
          /\ f.at \in {"append", "insert"} /\ f.due = {}

\* k is where the file has its last entry of id.
LastOf(file, id, k) ==
    /\ k \in 1..Len(file) /\ file[k].kind = "outbox" /\ file[k].id = id
    /\ \A j \in 1..Len(file) : file[j].kind = "outbox" /\ file[j].id = id => j <= k

JournalOK ==
    /\ journal \in Seq(Lines \cup {Newline})
    /\ \A k \in 1..Len(journal) : journal[k].kind = "outbox" =>
          \E j : LastOf(journal, journal[k].id, j)

StoreOK ==
    /\ store = [id \in DOMAIN store |-> store[id]] /\ DOMAIN store \subseteq issued
    /\ \A id \in DOMAIN store : store[id] \in Entry /\ Good(id, store[id])

FramesOK ==
    /\ DOMAIN frame = Handlers /\ frame = [h \in Handlers |-> frame[h]]
    /\ \A h \in Handlers : FrameOK(frame[h])

OutboxInv ==
    /\ issued \subseteq Ids /\ acked \subseteq issued /\ threads \in Nat
    /\ phase \in {"up", "down"} /\ overlapped \in BOOLEAN
    /\ JournalOK /\ StoreOK /\ FramesOK
    /\ phase = "down" => \A h \in Handlers : frame[h] = Idle
-----------------------------------------------------------------------------
(* Lines and frames as the process goes on *)

LEMMA LineFacts ==
  /\ \A l \in OutboxLines : /\ l.kind = "outbox" /\ l.id \in issued /\ l.entry \in Entry
                            /\ Good(l.id, l.entry)
                            /\ l = Outbox(l.id, l.entry)
  /\ \A l \in Lines : l.kind = "outbox" <=> l \in OutboxLines
  /\ \A l \in Lines : l \notin OutboxLines => l = Thread
  /\ Newline.kind = "newline" /\ Thread.kind = "thread"
  /\ \A id \in issued, e \in Entry : Good(id, e) =>
        Outbox(id, e) \in OutboxLines /\ Outbox(id, e).id = id /\ Outbox(id, e).entry = e
        /\ Outbox(id, e).kind = "outbox"
  BY DEF OutboxLines, Lines, Outbox, Newline, Thread

LEMMA IdleFrame == FrameOK(Idle) /\ Idle.at = "idle" /\ Idle.ack = {} /\ Idle.batch = <<>>
                   /\ Idle.rest = <<>> /\ Idle.due = {}
<1>1. <<>> \in Seq(Target) /\ <<>> \in Seq(Lines)
  OBVIOUS
<1> QED BY <1>1 DEF FrameOK, Frames, Idle

LEMMA LinesGrow ==
  ASSUME issued \subseteq issued', reached \subseteq reached'
  PROVE  /\ OutboxLines \subseteq OutboxLines' /\ Lines \subseteq Lines'
         /\ \A s : s \in Seq(Lines) => s \in Seq(Lines')
         /\ \A s : s \in Seq(Lines \cup {Newline}) => s \in Seq(Lines' \cup {Newline})
<1>1. OutboxLines \subseteq OutboxLines'
  BY DEF OutboxLines, Good
<1>2. Lines \subseteq Lines' /\ Lines \cup {Newline} \subseteq Lines' \cup {Newline}
  BY <1>1 DEF Lines
<1> QED BY <1>1, <1>2, SeqMonotonic

LEMMA FrameStays ==
  ASSUME NEW f, FrameOK(f), issued \subseteq issued', reached \subseteq reached',
         DOMAIN store \subseteq DOMAIN store'
  PROVE  FrameOK(f)'
<1>1. f \in Frames'
  BY LinesGrow DEF FrameOK, Frames
<1> QED BY <1>1, LinesGrow DEF FrameOK

LEMMA DeliveryReports ==
  ASSUME NEW t \in Target, NEW r \in DeliverTarget(t)
  PROVE  r.delivered \in BOOLEAN /\ r.reached \in BOOLEAN
         /\ (r.delivered => r.reached \/ t.kind = "Email")
<1> DEFINE Fine(x) == /\ x.delivered \in BOOLEAN /\ x.reached \in BOOLEAN
                      /\ (x.delivered => x.reached)
<1>0. ASSUME NEW x \in Broken PROVE \E b \in BOOLEAN : x = Report(FALSE, "none", b)
  BY <1>0 DEF Broken
<1>1. \A x \in Broken \cup Refused : Fine(x)
  <2>1. \A b \in BOOLEAN : Fine(Report(FALSE, "none", b))
    BY DEF Report
  <2> HIDE DEF Fine
  <2> QED BY <1>0, <2>1 DEF Refused
<1>2. \A a : Fine(Report(TRUE, a, TRUE)) /\ Fine(Report(FALSE, a, FALSE))
  BY DEF Report
<1>3. \A a, x : x \in Posted(a) => Fine(x)
  BY <1>1, <1>2 DEF Posted
<1> HIDE DEF Fine
<1>4. CASE t.kind = "Email"
  <2>1. \A x \in DeliverEmail(t) : x.delivered \in BOOLEAN /\ x.reached \in BOOLEAN
    <3>1. \A x \in Broken \cup Refused : x.delivered \in BOOLEAN /\ x.reached \in BOOLEAN
      BY <1>1 DEF Fine
    <3>2. \A a, b : b \in BOOLEAN => /\ Report(TRUE, a, b).delivered \in BOOLEAN
                                     /\ Report(TRUE, a, b).reached \in BOOLEAN
      BY DEF Report
    <3> QED BY <3>1, <3>2 DEF DeliverEmail
  <2>2. r \in DeliverEmail(t)
    BY <1>4 DEF DeliverTarget, Trackers
  <2> QED BY <1>4, <2>1, <2>2
<1>5. CASE t.kind # "Email"
  <2>1. \A x \in DeliverWebhook(t) \cup DeliverSlack(t) \cup DeliverSqs(t)
                   \cup DeliverPagerduty(t) \cup DeliverTracker(t) : Fine(x)
    BY <1>1, <1>2, <1>3 DEF DeliverWebhook, DeliverSlack, DeliverSqs, DeliverPagerduty, 
       DeliverTracker
  <2>2. t.kind \in Kinds
    BY DEF Target
  <2>3. DeliverTarget(t) \subseteq
          DeliverWebhook(t) \cup DeliverSlack(t) \cup DeliverSqs(t) \cup DeliverPagerduty(t)
            \cup DeliverTracker(t) \cup Refused
            \cup {Report(TRUE, "thread", TRUE), Report(TRUE, "dashboard", TRUE)}
    BY <1>5, <2>2 DEF DeliverTarget, Kinds, Trackers
  <2>4. Fine(r)
    BY <1>1, <1>2, <2>1, <2>3
  <2> QED BY <2>4 DEF Fine
<1> QED BY <1>4, <1>5

LEMMA AttemptIs ==
  ASSUME NEW e \in Entry, NEW ok \in BOOLEAN
  PROVE  /\ Attempt(e, ok) \in Entry /\ Attempt(e, ok).target = e.target
         /\ ~ok => Attempt(e, ok).status \in {"RetryScheduled", "DeadLettered"}
<1> DEFINE s == IF ~ok THEN StatusAfterFailure(e.attempts + 1)
                ELSE IF e.target.requireAck THEN "AwaitingAck" ELSE "Delivered"
<1>1. s \in Status /\ (~ok => s \in {"RetryScheduled", "DeadLettered"})
  BY DEF StatusAfterFailure, Status
<1>2. Attempt(e, ok) = [e EXCEPT !.attempts = e.attempts + 1, !.status = s]
  BY DEF Attempt
<1> HIDE DEF s
<1>3. [e EXCEPT !.attempts = e.attempts + 1, !.status = s] \in Entry
  <2>1. e.attempts + 1 \in Nat /\ e = [e EXCEPT !.status = e.status]
    BY DEF Entry
  <2> DEFINE n == e.attempts + 1
  <2>2. n \in Nat
    BY <2>1
  <2> HIDE DEF n
  <2>3. [e EXCEPT !.attempts = n, !.status = s] \in Entry
    BY <1>1, <2>2 DEF Entry
  <2> QED BY <2>3 DEF n
<1>4. /\ [e EXCEPT !.attempts = e.attempts + 1, !.status = s].target = e.target
      /\ [e EXCEPT !.attempts = e.attempts + 1, !.status = s].status = s
  BY DEF Entry
<1> QED BY <1>1, <1>2, <1>3, <1>4

LEMMA AcknowledgeIs ==
  ASSUME NEW e \in Entry
  PROVE  /\ Acknowledge(e) \in Entry /\ Acknowledge(e).target = e.target
         /\ Acknowledge(e).status = "Acknowledged"
  BY DEF Acknowledge, Entry, Status

\* What replay_journal makes of a file.
Replay(file) ==
    LET outbox == {k \in 1..Len(file) : file[k].kind = "outbox"} IN
    [id \in {file[k].id : k \in outbox} |->
        file[CHOOSE k \in outbox : /\ file[k].id = id
                                   /\ \A j \in outbox : file[j].id = id => j <= k].entry]

ThreadLines(file) == {k \in 1..Len(file) : file[k].kind = "thread"}

\* The replay finds the last entry of each id.
LEMMA ReplayIs ==
  ASSUME NEW file,
         \A k \in 1..Len(file) : file[k].kind = "outbox" => \E j : LastOf(file, file[k].id, j)
  PROVE  /\ Replay(file) = [id \in DOMAIN Replay(file) |-> Replay(file)[id]]
         /\ \A id : id \in DOMAIN Replay(file) <=> \E k : LastOf(file, id, k)
         /\ \A id, k : LastOf(file, id, k) => Replay(file)[id] = file[k].entry
<1> DEFINE outbox == {k \in 1..Len(file) : file[k].kind = "outbox"}
           P(id, k) == /\ file[k].id = id
                       /\ \A j \in outbox : file[j].id = id => j <= k
           last(id) == CHOOSE k \in outbox : P(id, k)
           R == Replay(file)
<1>1. R = [id \in {file[k].id : k \in outbox} |-> file[last(id)].entry]
  BY DEF Replay
<1>2. ASSUME NEW id, NEW k PROVE LastOf(file, id, k) <=> k \in outbox /\ P(id, k)
  BY DEF LastOf
<1>3. ASSUME NEW id, NEW k, LastOf(file, id, k)
      PROVE  last(id) = k
  <2>1. k \in outbox /\ P(id, k)
    BY <1>2, <1>3
  <2>2. last(id) \in outbox /\ P(id, last(id))
    <3> HIDE DEF outbox, P
    <3> QED BY <2>1, Zenon
  <2>3. last(id) <= k /\ k <= last(id)
    BY <2>1, <2>2
  <2>4. last(id) \in Int /\ k \in Int
    BY <2>1, <2>2
  <2> HIDE DEF last
  <2> QED BY <2>3, <2>4
<1> HIDE DEF last
<1>4. \A id : id \in {file[k].id : k \in outbox} <=> \E k : LastOf(file, id, k)
  BY DEF LastOf
<1>5. DOMAIN R = {file[k].id : k \in outbox}
  BY <1>1
<1> HIDE DEF R
<1>6. \A id, k : LastOf(file, id, k) => R[id] = file[k].entry
  BY <1>1, <1>3, <1>4
<1>7. R = [id \in DOMAIN R |-> R[id]]
  BY <1>1, <1>5
<1> QED BY <1>4, <1>5, <1>6, <1>7 DEF R

LEMMA ReplayedIs ==
  /\ ReplayedOutbox = Replay(journal)
  /\ ReplayedThreads = Cardinality(ThreadLines(journal))
  BY DEF ReplayedOutbox, Replay, ReplayedThreads, ThreadLines
-----------------------------------------------------------------------------
(* What an append, an insert and a handler's step leave in place           *)

LEMMA InsertIs ==
  ASSUME NEW s, NEW id, NEW e
  PROVE  /\ DOMAIN Insert(s, id, e) = DOMAIN s \cup {id} /\ Insert(s, id, e)[id] = e
         /\ \A i \in DOMAIN s : i # id => Insert(s, id, e)[i] = s[i]
         /\ Insert(s, id, e) = [i \in DOMAIN Insert(s, id, e) |-> Insert(s, id, e)[i]]
  BY DEF Insert

\* An appended line is the last of its entry, and the others' last lines stay.
LEMMA AppendIs ==
  ASSUME OutboxInv, NEW l \in Lines \cup {Newline}, journal' = Append(journal, l)
  PROVE  /\ journal' \in Seq(Lines \cup {Newline})
         /\ Len(journal') = Len(journal) + 1 /\ journal'[Len(journal) + 1] = l
         /\ \A k \in 1..Len(journal) : journal'[k] = journal[k]
         /\ \A id, k : LastOf(journal, id, k) /\ ~(l.kind = "outbox" /\ l.id = id) =>
               LastOf(journal', id, k)
         /\ \A id, k : LastOf(journal', id, k) /\ ~(l.kind = "outbox" /\ l.id = id) =>
               LastOf(journal, id, k)
         /\ l.kind = "outbox" => LastOf(journal', l.id, Len(journal) + 1)
         /\ \A k \in 1..Len(journal') : journal'[k].kind = "outbox" =>
               \E j : LastOf(journal', journal'[k].id, j)
<1> DEFINE n == Len(journal)
<1>1. journal \in Seq(Lines \cup {Newline}) /\ n \in Nat
  BY DEF OutboxInv, JournalOK, StoreOK, FramesOK
<1>2. /\ journal' \in Seq(Lines \cup {Newline}) /\ Len(journal') = n + 1 /\ journal'[n + 1] = l
      /\ \A k \in 1..n : journal'[k] = journal[k]
  BY <1>1
<1>3. \A k : k \in 1..Len(journal') <=> k \in 1..n \/ k = n + 1
  BY <1>1, <1>2
<1>4. ASSUME NEW id, NEW k, ~(l.kind = "outbox" /\ l.id = id)
      PROVE  LastOf(journal, id, k) <=> LastOf(journal', id, k)
  <2>1. k \in 1..n => k # n + 1
    BY <1>1
  <2> HIDE DEF n
  <2> QED BY <1>2, <1>3, <1>4, <2>1 DEF LastOf, n
<1>5. l.kind = "outbox" => LastOf(journal', l.id, n + 1)
  BY <1>1, <1>2, <1>3 DEF LastOf
<1>6. ASSUME NEW k \in 1..Len(journal'), journal'[k].kind = "outbox"
      PROVE  \E j : LastOf(journal', journal'[k].id, j)
  <2>1. CASE l.kind = "outbox" /\ l.id = journal'[k].id
    BY <1>5, <2>1
  <2>2. CASE ~(l.kind = "outbox" /\ l.id = journal'[k].id)
    <3>1. k \in 1..n
      BY <1>2, <1>3, <1>6, <2>2
    <3>2. PICK j : LastOf(journal, journal'[k].id, j)
      BY <1>2, <1>6, <3>1 DEF OutboxInv, JournalOK, StoreOK, FramesOK
    <3> QED BY <1>4, <2>2, <3>2
  <2> QED BY <2>1, <2>2
<1> QED BY <1>2, <1>4, <1>5, <1>6

LEMMA PartsStay ==
  ASSUME OutboxInv, issued \subseteq issued', reached \subseteq reached'
  PROVE  /\ store' = store => StoreOK'
         /\ journal' = journal => JournalOK'
<1>1. store' = store => StoreOK'
  BY DEF OutboxInv, JournalOK, FramesOK, StoreOK, Good
<1>2. journal' = journal => JournalOK'
  BY LinesGrow DEF OutboxInv, StoreOK, FramesOK, JournalOK, LastOf
<1> QED BY <1>1, <1>2

LEMMA StepFrame ==
  ASSUME OutboxInv, NEW h \in Handlers, NEW f, frame' = [frame EXCEPT ![h] = f],
         FrameOK(f)', issued \subseteq issued', reached \subseteq reached',
         DOMAIN store \subseteq DOMAIN store'
  PROVE  FramesOK' /\ frame'[h] = f /\ \A g \in Handlers \ {h} : frame'[g] = frame[g]
<1>1. /\ DOMAIN frame' = Handlers /\ frame' = [g \in Handlers |-> frame'[g]]
      /\ frame'[h] = f /\ \A g \in Handlers \ {h} : frame'[g] = frame[g]
  BY DEF OutboxInv, JournalOK, StoreOK, FramesOK
<1>2. \A g \in Handlers : FrameOK(frame[g])'
  <2>1. TAKE g \in Handlers
  <2>2. CASE g = h
    BY <1>1, <2>2
  <2>3. CASE g # h
    <3>1. FrameOK(frame[g])
      BY DEF OutboxInv, JournalOK, StoreOK, FramesOK
    <3>2. \A x : FrameOK(x) => FrameOK(x)'
      BY FrameStays
    <3> QED BY <1>1, <2>3, <3>1, <3>2
  <2> QED BY <2>2, <2>3
<1> QED BY <1>1, <1>2 DEF FramesOK
-----------------------------------------------------------------------------
(* Requests keep the invariant                                             *)

LEMMA BeginStep ==
  ASSUME OutboxInv, NEW h \in Handlers, NEW f, FrameOK(f), Begin(h, f)
  PROVE  OutboxInv'
<1>1. FrameOK(f)'
  BY FrameStays DEF Begin
<1>2. FramesOK'
  BY <1>1, StepFrame DEF Begin
<1>3. StoreOK' /\ JournalOK'
  BY PartsStay DEF Begin
<1>4. phase' = "up" /\ overlapped' \in BOOLEAN /\ issued' = issued /\ acked' = acked
      /\ threads' = threads
  BY DEF Begin, OutboxInv, JournalOK, StoreOK, FramesOK
<1> QED BY <1>2, <1>3, <1>4 DEF OutboxInv

LEMMA BatchFrame ==
  ASSUME NEW l \in Lines, NEW a \in SUBSET issued,
         a # {} => l \in OutboxLines /\ a = {l.id} /\ l.entry.status = "Acknowledged",
         NEW f, f \in [at : {"append"}, rest : {<<>>}, batch : {<<l>>}, due : {{}}, ack : {a}]
  PROVE  FrameOK(f)
<1> DEFINE b == <<l>>
<1>1. b \in Seq(Lines) /\ b # <<>> /\ <<>> \in Seq(Target)
  OBVIOUS
<1>2. a # {} => \E x \in OutboxLines : b = <<x>> /\ a = {x.id} /\ x.entry.status = "Acknowledged"
  OBVIOUS
<1> HIDE DEF b
<1>3. f \in Frames /\ f.at = "append" /\ f.batch = b /\ f.ack = a /\ f.due = {}
  BY <1>1 DEF Frames, b
<1> QED BY <1>1, <1>2, <1>3 DEF FrameOK

LEMMA NotifyStep ==
  ASSUME OutboxInv, NEW h \in Handlers, Notify(h)
  PROVE  OutboxInv'
<1>1. PICK request \in Requests :
        Begin(h, IF request = <<>>
                 THEN [Idle EXCEPT !.at = "append", !.batch = <<Thread>>]
                 ELSE [Idle EXCEPT !.at = "deliver", !.rest = request])
  BY DEF Notify
<1>2. CASE request = <<>>
  <2> DEFINE f == [Idle EXCEPT !.at = "append", !.batch = <<Thread>>]
  <2>1. f \in [at : {"append"}, rest : {<<>>}, batch : {<<Thread>>}, due : {{}}, ack : {{}}]
    BY DEF Idle
  <2>2. Thread \in Lines
    BY DEF Lines
  <2>3. FrameOK(f)
    BY <2>1, <2>2, BatchFrame
  <2> QED BY <1>1, <1>2, <2>3, BeginStep
<1>3. CASE request # <<>>
  <2> DEFINE f == [Idle EXCEPT !.at = "deliver", !.rest = request]
  <2>1. request \in Seq(Target)
    BY NotifierAssumption
  <2>2. <<>> \in Seq(Lines)
    OBVIOUS
  <2>3. FrameOK(f)
    BY <1>3, <2>1, <2>2 DEF FrameOK, Frames, Idle
  <2> QED BY <1>1, <1>3, <2>3, BeginStep
<1> QED BY <1>2, <1>3

LEMMA AckLine ==
  ASSUME OutboxInv, NEW id \in DOMAIN store, CanAcknowledge(store[id])
  PROVE  LET l == Outbox(id, Acknowledge(store[id])) IN
         l \in OutboxLines /\ l.id = id /\ l.entry.status = "Acknowledged" /\ id \in issued
<1> DEFINE e == Acknowledge(store[id])
<1>1. /\ store[id] \in Entry /\ Good(id, store[id]) /\ id \in issued
      /\ e \in Entry /\ e.target = store[id].target /\ e.status = "Acknowledged"
  BY AcknowledgeIs DEF OutboxInv, JournalOK, StoreOK, FramesOK
<1>2. Good(id, e)
  BY <1>1 DEF Good, CanAcknowledge
<1> HIDE DEF e
<1>3. Outbox(id, e) \in OutboxLines /\ Outbox(id, e).id = id /\ Outbox(id, e).entry = e
  BY <1>1, <1>2, LineFacts
<1> QED BY <1>1, <1>3 DEF e

LEMMA AckStep ==
  ASSUME OutboxInv, NEW h \in Handlers, AckOutbox(h)
  PROVE  OutboxInv'
<1>1. PICK id \in DOMAIN store :
        /\ CanAcknowledge(store[id])
        /\ Begin(h, [Idle EXCEPT !.at = "append", !.ack = {id},
                         !.batch = <<Outbox(id, Acknowledge(store[id]))>>])
  BY DEF AckOutbox
<1> DEFINE l == Outbox(id, Acknowledge(store[id]))
           f == [Idle EXCEPT !.at = "append", !.ack = {id}, !.batch = <<l>>]
<1>2. l \in OutboxLines /\ l.id = id /\ l.entry.status = "Acknowledged" /\ id \in issued
  BY <1>1, AckLine
<1>3. f \in [at : {"append"}, rest : {<<>>}, batch : {<<l>>}, due : {{}}, ack : {{id}}]
  BY DEF Idle
<1>4. Begin(h, f)
  BY <1>1
<1> HIDE DEF l, f
<1>5. FrameOK(f)
  BY <1>2, <1>3, BatchFrame DEF Lines
<1> QED BY <1>4, <1>5, BeginStep

LEMMA DueFrame ==
  ASSUME NEW due \in SUBSET DOMAIN store
  PROVE  FrameOK([Idle EXCEPT !.at = "pick", !.due = due])
<1>1. <<>> \in Seq(Target) /\ <<>> \in Seq(Lines)
  OBVIOUS
<1> QED BY <1>1 DEF FrameOK, Frames, Idle

LEMMA RetryStep ==
  ASSUME OutboxInv, NEW h \in Handlers, RetryOutbox(h) \/ RetryDueOutbox(h)
  PROVE  OutboxInv'
<1>1. \E due \in SUBSET DOMAIN store : Begin(h, [Idle EXCEPT !.at = "pick", !.due = due])
  BY DEF RetryOutbox, RetryDueOutbox
<1> QED BY <1>1, DueFrame, BeginStep
-----------------------------------------------------------------------------
(* The steps of a handler keep the invariant                               *)

LEMMA FrameIs ==
  ASSUME OutboxInv, NEW h \in Handlers
  PROVE  /\ FrameOK(frame[h])
         /\ frame[h].at # "idle" => phase = "up"
  BY DEF OutboxInv, FramesOK, FrameOK, Idle

\* A step that leaves the store and the journal alone.
LEMMA QuietStep ==
  ASSUME OutboxInv, NEW h \in Handlers, frame[h].at # "idle",
         NEW f, frame' = [frame EXCEPT ![h] = f], FrameOK(f)',
         issued \subseteq issued', issued' \subseteq Ids, reached \subseteq reached',
         UNCHANGED <<store, journal, threads, phase, acked, overlapped>>
  PROVE  OutboxInv'
<1>1. FramesOK'
  BY StepFrame
<1>2. StoreOK' /\ JournalOK'
  BY PartsStay
<1>3. phase = "up"
  BY FrameIs
<1> QED BY <1>1, <1>2, <1>3 DEF OutboxInv

LEMMA PickStep ==
  ASSUME OutboxInv, NEW h \in Handlers, PickRetry(h)
  PROVE  OutboxInv'
<1> DEFINE F(id) == [frame[h] EXCEPT !.at = "redeliver", !.due = @ \ {id},
                                     !.batch = <<Outbox(id, store[id])>>]
           G(id) == IF Retryable(store[id].status) THEN F(id) ELSE Idle
<1>1. PICK id \in frame[h].due : frame' = [frame EXCEPT ![h] = G(id)]
  BY DEF PickRetry
<1>2. FrameOK(frame[h]) /\ frame[h].at = "pick"
  BY FrameIs DEF PickRetry
<1>3. id \in DOMAIN store /\ id \in issued /\ store[id] \in Entry /\ Good(id, store[id])
  BY <1>2 DEF FrameOK, Frames, OutboxInv, StoreOK
<1> DEFINE l == Outbox(id, store[id])
           b == <<l>>
<1>4. l \in OutboxLines
  BY <1>3, LineFacts
<1> HIDE DEF l
<1>5. b \in Seq(Lines) /\ b # <<>> /\ Head(b) \in OutboxLines
  BY <1>4 DEF Lines
<1> HIDE DEF b
<1>6. F(id) = [frame[h] EXCEPT !.at = "redeliver", !.due = @ \ {id}, !.batch = b]
  BY DEF b, l
<1>7. FrameOK(F(id))
  BY <1>2, <1>5, <1>6 DEF FrameOK, Frames
<1>8. FrameOK(G(id))
  BY <1>7, IdleFrame
<1> HIDE DEF F, G
<1>9. PICK f : f = G(id)
  OBVIOUS
<1>10. FrameOK(f) /\ issued' = issued /\ reached' = reached /\ store' = store
  BY <1>8, <1>9 DEF PickRetry
<1>11. FrameOK(f)' /\ frame' = [frame EXCEPT ![h] = f]
  BY <1>1, <1>9, <1>10, FrameStays
<1>12. UNCHANGED <<store, journal, threads, phase, acked, overlapped, issued, reached>>
  BY DEF PickRetry
<1> QED BY <1>2, <1>11, <1>12, QuietStep DEF OutboxInv

\* A report makes a good entry of the attempt.
LEMMA ReportedIs ==
  ASSUME OutboxInv, NEW id \in Ids, NEW e \in Entry, NEW r \in DeliverTarget(e.target),
         Reported(id, r)
  PROVE  /\ Outbox(id, Attempt(e, r.delivered)) \in OutboxLines'
         /\ issued \subseteq issued' /\ issued' \subseteq Ids /\ reached \subseteq reached'
         /\ UNCHANGED <<store, journal, threads, phase, acked, overlapped>>
<1>1. e.target \in Target
  BY DEF Entry
<1>2. r.delivered \in BOOLEAN /\ r.reached \in BOOLEAN
      /\ (r.delivered => r.reached \/ e.target.kind = "Email")
  BY <1>1, DeliveryReports
<1>3. /\ issued' = issued \cup {id} /\ reached \subseteq reached' /\ (r.reached => id \in reached')
      /\ UNCHANGED <<store, journal, threads, phase, acked, overlapped>>
  BY DEF Reported
<1> DEFINE a == Attempt(e, r.delivered)
<1>4. /\ a \in Entry /\ a.target = e.target
      /\ ~r.delivered => a.status \in {"RetryScheduled", "DeadLettered"}
  BY <1>2, AttemptIs
<1> HIDE DEF a
<1>5. Good(id, a)'
  BY <1>2, <1>3, <1>4 DEF Good
<1>6. Outbox(id, a) \in OutboxLines'
  BY <1>3, <1>4, <1>5 DEF OutboxLines, Outbox
<1> QED BY <1>3, <1>6 DEF OutboxInv, a

LEMMA RedeliverStep ==
  ASSUME OutboxInv, NEW h \in Handlers, Redeliver(h)
  PROVE  OutboxInv'
<1> DEFINE line == Head(frame[h].batch)
<1>1. PICK r \in DeliverTarget(line.entry.target) :
         /\ frame' = [frame EXCEPT ![h].at = "append",
              ![h].batch = <<Outbox(line.id, Attempt(line.entry, r.delivered))>>]
         /\ Reported(line.id, r)
  BY DEF Redeliver
<1>2. FrameOK(frame[h]) /\ frame[h].at = "redeliver" /\ line \in OutboxLines
  BY FrameIs DEF Redeliver, FrameOK
<1>3. line.id \in Ids /\ line.entry \in Entry
  BY <1>2, LineFacts DEF OutboxInv
<1> DEFINE l == Outbox(line.id, Attempt(line.entry, r.delivered))
           b == <<l>>
<1>4. /\ l \in OutboxLines'
      /\ issued \subseteq issued' /\ issued' \subseteq Ids /\ reached \subseteq reached'
      /\ UNCHANGED <<store, journal, threads, phase, acked, overlapped>>
  BY <1>1, <1>3, ReportedIs
<1>5. PICK f : f = [frame[h] EXCEPT !.at = "append", !.batch = b] /\ frame' = [frame EXCEPT ![h] = f]
  BY <1>1
<1> HIDE DEF line, l
<1>6. b \in Seq(Lines') /\ b # <<>>
  BY <1>4 DEF Lines
<1> HIDE DEF b
<1>8. frame[h] \in Frames /\ frame[h].ack = {}
  BY <1>2 DEF FrameOK
<1>9. f \in Frames' /\ f.at = "append" /\ f.batch = b /\ f.ack = {}
  <2>1. frame[h] \in [at : {"redeliver"}, rest : Seq(Target), batch : Seq(Lines),
                      due : SUBSET DOMAIN store', ack : SUBSET issued']
    BY <1>2, <1>4, <1>8 DEF Frames
  <2> QED BY <1>5, <1>6, <1>8, <2>1 DEF Frames
<1>10. FrameOK(f)'
  BY <1>6, <1>9 DEF FrameOK
<1> QED BY <1>2, <1>4, <1>5, <1>10, QuietStep

LEMMA DeliverStep ==
  ASSUME OutboxInv, NEW h \in Handlers, DeliverNext(h)
  PROVE  OutboxInv'
<1> DEFINE rest == frame[h].rest
           target == Head(rest)
           after == IF Tail(rest) = <<>> THEN <<Thread>> ELSE <<>>
           next == IF Tail(rest) = <<>> THEN "append" ELSE "deliver"
<1>1. PICK id \in FreshIds, r \in DeliverTarget(target) :
         /\ frame' = [frame EXCEPT ![h].at = next, ![h].rest = Tail(rest),
              ![h].batch = @ \o <<Outbox(id, Attempt(NewEntry(target), r.delivered))>> \o after]
         /\ Reported(id, r)
  BY DEF DeliverNext
<1>2. FrameOK(frame[h]) /\ frame[h].at = "deliver"
  BY FrameIs DEF DeliverNext
<1>3. /\ frame[h] \in Frames /\ frame[h].ack = {} /\ rest # <<>> /\ rest \in Seq(Target)
      /\ frame[h].batch \in Seq(Lines)
  BY <1>2 DEF FrameOK, Frames
<1>4. target \in Target /\ Tail(rest) \in Seq(Target) /\ id \in Ids
  BY <1>3 DEF FreshIds
<1> DEFINE e == NewEntry(target)
           l == Outbox(id, Attempt(e, r.delivered))
<1>5. e \in Entry /\ e.target = target
  BY <1>4 DEF NewEntry, Entry, Status
<1> HIDE DEF e
<1>6. /\ l \in OutboxLines'
      /\ issued \subseteq issued' /\ issued' \subseteq Ids /\ reached \subseteq reached'
      /\ UNCHANGED <<store, journal, threads, phase, acked, overlapped>>
  BY <1>1, <1>4, <1>5, ReportedIs DEF e
<1>7. Thread \in Lines'
  BY DEF Lines
<1> HIDE DEF l, target
<1>8. PICK b : b = frame[h].batch \o <<l>> \o after
  OBVIOUS
<1>9. frame[h].batch \in Seq(Lines')
  BY <1>3, <1>6, LinesGrow
<1>10. <<l>> \in Seq(Lines') /\ after \in Seq(Lines')
  <2>1. l \in Lines'
    BY <1>6 DEF Lines
  <2> QED BY <1>7, <2>1
<1> HIDE DEF after
<1>11. b \in Seq(Lines') /\ b # <<>>
  <2>1. frame[h].batch \o <<l>> \in Seq(Lines') /\ Len(frame[h].batch \o <<l>>) = Len(frame[h].batch) + 1
    BY <1>9, <1>10
  <2>2. b \in Seq(Lines') /\ Len(b) = Len(frame[h].batch) + 1 + Len(after)
    BY <1>8, <1>10, <2>1
  <2> QED BY <1>9, <1>10, <2>2
<1>12. PICK f : f = [frame[h] EXCEPT !.at = next, !.rest = Tail(rest), !.batch = b]
  OBVIOUS
<1>13. frame' = [frame EXCEPT ![h] = f]
  BY <1>1, <1>8, <1>12 DEF e, l, after
<1>14. f \in Frames' /\ f.at = next /\ f.rest = Tail(rest) /\ f.batch = b /\ f.ack = {}
  <2>1. frame[h] \in [at : {"deliver"}, rest : Seq(Target), batch : Seq(Lines),
                      due : SUBSET DOMAIN store', ack : SUBSET issued']
    BY <1>2, <1>3, <1>6 DEF Frames
  <2> QED BY <1>3, <1>4, <1>11, <1>12, <2>1 DEF Frames
<1>15. FrameOK(f)'
  BY <1>11, <1>14 DEF FrameOK
<1> QED BY <1>2, <1>6, <1>13, <1>15, QuietStep

LEMMA FailStep ==
  ASSUME OutboxInv, NEW h \in Handlers, JournalFails(h)
  PROVE  OutboxInv'
<1>1. PICK f : f = Idle
  OBVIOUS
<1>2. FrameOK(f) /\ frame' = [frame EXCEPT ![h] = f]
  BY <1>1, IdleFrame DEF JournalFails
<1>3. UNCHANGED <<store, journal, threads, phase, acked, overlapped, issued, reached>>
  BY DEF JournalFails
<1>4. FrameOK(f)'
  BY <1>2, <1>3, FrameStays
<1> QED BY <1>2, <1>3, <1>4, QuietStep DEF OutboxInv, JournalFails

LEMMA AppendStep ==
  ASSUME OutboxInv, NEW h \in Handlers, AppendJournal(h)
  PROVE  OutboxInv'
<1>1. FrameOK(frame[h]) /\ frame[h].at = "append" /\ phase = "up"
  BY FrameIs DEF AppendJournal
<1>2. Head(frame[h].batch) \in Lines
  BY <1>1 DEF FrameOK, Frames
<1>3. UNCHANGED <<store, threads, phase, acked, overlapped, issued, reached>>
  BY DEF AppendJournal
<1>4. Lines' = Lines
  BY <1>3 DEF Lines, OutboxLines, Good
<1>5. JournalOK'
  BY <1>2, <1>4, AppendIs DEF AppendJournal, JournalOK
<1>6. PICK f : f = [frame[h] EXCEPT !.at = "insert"]
  OBVIOUS
<1>7. FrameOK(f) /\ frame' = [frame EXCEPT ![h] = f]
  BY <1>1, <1>6 DEF FrameOK, Frames, AppendJournal
<1>8. FrameOK(f)'
  BY <1>3, <1>7, FrameStays
<1>9. FramesOK' /\ StoreOK'
  BY <1>3, <1>7, <1>8, StepFrame, PartsStay
<1> QED BY <1>1, <1>3, <1>5, <1>9 DEF OutboxInv

LEMMA InsertStep ==
  ASSUME OutboxInv, NEW h \in Handlers, InsertEntry(h)
  PROVE  OutboxInv'
<1> DEFINE line == Head(frame[h].batch)
           batch == Tail(frame[h].batch)
           next == IF batch # <<>> THEN "append"
                   ELSE IF frame[h].due # {} THEN "pick" ELSE "idle"
<1>1. FrameOK(frame[h]) /\ frame[h].at = "insert" /\ phase = "up" /\ frame[h] \in Frames
  BY FrameIs DEF InsertEntry, FrameOK
<1>2. line \in Lines /\ batch \in Seq(Lines) /\ frame[h].ack \subseteq issued
  BY <1>1 DEF FrameOK, Frames
<1>3. UNCHANGED <<journal, phase, overlapped, issued, reached>>
  BY DEF InsertEntry
<1>4. ASSUME line.kind = "outbox" PROVE StoreOK' /\ DOMAIN store \subseteq DOMAIN store'
  <2>1. line \in OutboxLines
    BY <1>2, <1>4, LineFacts
  <2>2. PICK s : s = Insert(store, line.id, line.entry) /\ store' = s
    BY <1>4 DEF InsertEntry
  <2>3. line.id \in issued /\ line.entry \in Entry /\ Good(line.id, line.entry)
    BY <2>1, LineFacts
  <2> HIDE DEF line
  <2>4. /\ DOMAIN store' = DOMAIN store \cup {line.id} /\ store'[line.id] = line.entry
        /\ \A i \in DOMAIN store : i # line.id => store'[i] = store[i]
        /\ store' = [i \in DOMAIN store' |-> store'[i]]
    <3>1. /\ DOMAIN s = DOMAIN store \cup {line.id} /\ s[line.id] = line.entry
          /\ \A i \in DOMAIN store : i # line.id => s[i] = store[i]
          /\ s = [i \in DOMAIN s |-> s[i]]
      BY <2>2 DEF Insert
    <3> QED BY <2>2, <3>1
  <2>5. DOMAIN store' \subseteq issued'
    BY <1>3, <2>3, <2>4 DEF OutboxInv, StoreOK
  <2>6. ASSUME NEW id \in DOMAIN store' PROVE store'[id] \in Entry /\ Good(id, store[id])'
    <3>1. store'[id] \in Entry /\ Good(id, store'[id])
      BY <2>3, <2>4 DEF OutboxInv, StoreOK
    <3> QED BY <1>3, <3>1 DEF Good
  <2> QED BY <2>4, <2>5, <2>6 DEF StoreOK
<1>5. ASSUME line.kind # "outbox" PROVE StoreOK' /\ DOMAIN store \subseteq DOMAIN store'
  <2>1. store' = store
    BY <1>5 DEF InsertEntry
  <2> QED BY <1>3, <2>1, PartsStay
<1>6. StoreOK' /\ DOMAIN store \subseteq DOMAIN store'
  BY <1>4, <1>5
<1>7. next # "idle" => frame[h].ack = {}
  <2>1. ASSUME frame[h].ack # {} PROVE next = "idle"
    <3>1. PICK l \in OutboxLines : frame[h].batch = <<l>> /\ frame[h].due = {}
      BY <1>1, <2>1 DEF FrameOK
    <3>2. Tail(<<l>>) = <<>>
      OBVIOUS
    <3> QED BY <3>1, <3>2
  <2> QED BY <2>1
<1> HIDE DEF line
<1>8. PICK b : b = batch
  OBVIOUS
<1>9. PICK f : f = IF next = "idle" THEN Idle ELSE [frame[h] EXCEPT !.at = next, !.batch = b]
  OBVIOUS
<1>10. frame' = [frame EXCEPT ![h] = f]
  BY <1>8, <1>9 DEF InsertEntry
<1>11. FrameOK(f)
  <2>1. CASE next = "idle"
    BY <1>9, <2>1, IdleFrame
  <2>2. CASE next # "idle"
    <3>1. f \in Frames /\ f.at = next /\ f.batch = b /\ f.ack = {}
      BY <1>1, <1>2, <1>7, <1>8, <1>9, <2>2 DEF Frames
    <3> QED BY <1>8, <2>2, <3>1 DEF FrameOK
  <2> QED BY <2>1, <2>2
<1>12. FrameOK(f)'
  BY <1>3, <1>6, <1>11, FrameStays
<1>13. FramesOK'
  BY <1>3, <1>6, <1>10, <1>12, StepFrame
<1>14. JournalOK'
  BY <1>3, PartsStay
<1>15. acked' \subseteq issued' /\ threads' \in Nat
  BY <1>2, <1>3 DEF InsertEntry, OutboxInv
<1> QED BY <1>1, <1>3, <1>6, <1>13, <1>14, <1>15 DEF OutboxInv
-----------------------------------------------------------------------------
(* So do the file and the process                                          *)

LEMMA NewlineStep ==
  ASSUME OutboxInv, WriteNewline
  PROVE  OutboxInv'
<1>1. UNCHANGED <<store, threads, phase, acked, overlapped, issued, reached, frame>>
  BY DEF WriteNewline
<1>2. Lines' = Lines
  BY <1>1 DEF Lines, OutboxLines, Good
<1>3. JournalOK'
  BY <1>2, AppendIs DEF WriteNewline, JournalOK
<1>4. StoreOK'
  BY <1>1, PartsStay
<1>5. FramesOK'
  BY <1>1, <1>2 DEF OutboxInv, FramesOK, FrameOK, Frames, OutboxLines, Good
<1> QED BY <1>1, <1>3, <1>4, <1>5 DEF OutboxInv

LEMMA IdleFrames ==
  ASSUME frame' = [h \in Handlers |-> Idle]
  PROVE  FramesOK' /\ \A h \in Handlers : frame'[h] = Idle
<1>1. <<>> \in Seq(Target) /\ <<>> \in Seq(Lines')
  OBVIOUS
<1>2. ASSUME NEW h \in Handlers PROVE FrameOK(frame[h])'
  <2>1. frame'[h] = Idle
    OBVIOUS
  <2> QED BY <1>1, <2>1 DEF FrameOK, Frames, Idle
<1> QED BY <1>2 DEF FramesOK

LEMMA CrashStep ==
  ASSUME OutboxInv, Crash
  PROVE  OutboxInv'
<1>1. StoreOK'
  BY DEF Crash, StoreOK
<1>2. JournalOK'
  BY PartsStay DEF Crash
<1> QED BY <1>1, <1>2, IdleFrames DEF OutboxInv, Crash

\* What the restart reads back is good.
LEMMA ReplayedOK ==
  ASSUME OutboxInv
  PROVE  /\ Replay(journal) = [id \in DOMAIN Replay(journal) |-> Replay(journal)[id]]
         /\ DOMAIN Replay(journal) \subseteq issued
         /\ \A id \in DOMAIN Replay(journal) :
               Replay(journal)[id] \in Entry /\ Good(id, Replay(journal)[id])
         /\ IsFiniteSet(ThreadLines(journal)) /\ Cardinality(ThreadLines(journal)) \in Nat
<1> DEFINE R == Replay(journal)
<1>1. /\ R = [id \in DOMAIN R |-> R[id]]
      /\ \A id : id \in DOMAIN R <=> \E k : LastOf(journal, id, k)
      /\ \A id, k : LastOf(journal, id, k) => R[id] = journal[k].entry
  BY ReplayIs DEF OutboxInv, JournalOK
<1> HIDE DEF R
<1>2. ASSUME NEW id \in DOMAIN R PROVE id \in issued /\ R[id] \in Entry /\ Good(id, R[id])
  <2>1. PICK k : LastOf(journal, id, k)
    BY <1>1
  <2>2. R[id] = journal[k].entry
    BY <1>1, <2>1
  <2>3. journal[k] \in OutboxLines /\ journal[k].id = id
    BY <2>1, LineFacts DEF LastOf, OutboxInv, JournalOK
  <2> QED BY <2>2, <2>3, LineFacts
<1>3. IsFiniteSet(ThreadLines(journal))
  <2>1. IsFiniteSet(1..Len(journal))
    BY FS_Interval DEF OutboxInv, JournalOK
  <2> QED BY <2>1, FS_Subset DEF ThreadLines
<1>4. Cardinality(ThreadLines(journal)) \in Nat
  BY <1>3, FS_CardinalityType
<1> QED BY <1>1, <1>2, <1>3, <1>4 DEF R

LEMMA StartStep ==
  ASSUME OutboxInv, Start
  PROVE  OutboxInv'
<1>1. /\ UNCHANGED <<journal, frame, issued, reached, acked, overlapped>> /\ phase' = "up"
      /\ store' = Replay(journal) /\ threads' = Cardinality(ThreadLines(journal))
  BY ReplayedIs DEF Start
<1> DEFINE R == Replay(journal)
<1>2. /\ R = [id \in DOMAIN R |-> R[id]] /\ DOMAIN R \subseteq issued
      /\ \A id \in DOMAIN R : R[id] \in Entry /\ Good(id, R[id])
  BY ReplayedOK
<1>3. store' = R /\ threads' \in Nat
  BY <1>1, ReplayedOK
<1> HIDE DEF R
<1>4. StoreOK'
  BY <1>1, <1>2, <1>3 DEF StoreOK, Good
<1>5. frame' = [h \in Handlers |-> Idle]
  BY <1>1 DEF OutboxInv, FramesOK, Start
<1>6. JournalOK'
  BY <1>1, PartsStay
<1> QED BY <1>1, <1>3, <1>4, <1>5, <1>6, IdleFrames DEF OutboxInv

LEMMA OutboxInit == Init => OutboxInv
<1> SUFFICES ASSUME Init PROVE OutboxInv
  OBVIOUS
<1>1. JournalOK /\ StoreOK /\ FramesOK
  BY IdleFrame DEF Init, JournalOK, StoreOK, FramesOK
<1>2. issued \subseteq Ids /\ acked \subseteq issued /\ threads \in Nat
      /\ phase = "up" /\ overlapped \in BOOLEAN
  BY DEF Init
<1> QED BY <1>1, <1>2 DEF OutboxInv

LEMMA OutboxStep ==
  ASSUME OutboxInv, [Next]_vars
  PROVE  OutboxInv'
<1>1. ASSUME NEW h \in Handlers, Work(h) PROVE OutboxInv'
  BY <1>1, PickStep, RedeliverStep, DeliverStep, AppendStep, FailStep, InsertStep DEF Work
<1>2. CASE UNCHANGED vars
  <2>1. UNCHANGED <<store, threads, journal, phase, acked, overlapped, issued, reached, frame>>
    BY <1>2 DEF vars
  <2>2. FramesOK'
    BY <2>1 DEF OutboxInv, FramesOK, FrameOK, Frames, Lines, OutboxLines, Good
  <2>3. StoreOK' /\ JournalOK'
    BY <2>1, PartsStay
  <2> QED BY <2>1, <2>2, <2>3 DEF OutboxInv
<1>3. CASE Quiescent
  BY <1>2, <1>3 DEF Quiescent
<1> QED BY <1>1, <1>2, <1>3, NotifyStep, AckStep, RetryStep, NewlineStep, CrashStep, StartStep
        DEF Next

LEMMA OutboxInvariant == Spec => []OutboxInv
  BY OutboxInit, OutboxStep, PTL DEF Spec

\* An entry that never reached its target is in the operator's queue, or is an
\* email kept in memory that somebody acknowledged: whatever the adapters report
\* and however the handlers' clones, the crashes and the replays interleave
\* (attempt_outbox_delivery, acknowledge_outbox_entry, replay_journal).
THEOREM UnreachedIsQueued == Spec => []UnreachedStaysVisible
<1>1. OutboxInv => UnreachedStaysVisible
  BY DEF OutboxInv, StoreOK, Good, UnreachedStaysVisible, InOperatorQueue
<1> QED BY <1>1, OutboxInvariant, PTL
-----------------------------------------------------------------------------
(* Requests one at a time                                                  *)

\* Only one handler is at work.
Solo == \A g, h \in Handlers : frame[g] # Idle /\ frame[h] # Idle => g = h

\* The memory is what the file replays to ...
Synced == store = Replay(journal) /\ threads = Cardinality(ThreadLines(journal))

\* ... or, between an append and its insert, lacks the appended line.
Lacks(l) ==
    /\ Replay(journal) = IF l.kind = "outbox" THEN Insert(store, l.id, l.entry) ELSE store
    /\ Cardinality(ThreadLines(journal)) = IF l.kind = "thread" THEN threads + 1 ELSE threads

ReplayInv ==
    phase = "up" =>
        /\ ~Inserting => Synced
        /\ \A h \in Handlers : frame[h].at = "insert" => Lacks(Head(frame[h].batch))

AckedIn(s, id) == id \in DOMAIN s /\ s[id].status = "Acknowledged"

\* No line that waits for the file takes an acknowledgement back.
KeepsAcked(f) ==
    /\ \A k \in 1..Len(f.batch) :
          f.batch[k].kind = "outbox" /\ f.batch[k].id \in acked =>
              f.batch[k].entry.status = "Acknowledged"
    /\ f.at = "redeliver" => f.batch[1].entry.status # "Acknowledged"

AckInv ==
    /\ \A id \in acked : AckedIn(Replay(journal), id)
    /\ phase = "up" => \A id \in acked : AckedIn(store, id)
    /\ \A h \in Handlers : KeepsAcked(frame[h])

SoloInv == overlapped \/ (Solo /\ ReplayInv /\ AckInv)

LEMMA ReplayInsert ==
  ASSUME OutboxInv, NEW l \in Lines, journal' = Append(journal, l)
  PROVE  /\ Replay(journal') =
              IF l.kind = "outbox" THEN Insert(Replay(journal), l.id, l.entry) ELSE Replay(journal)
         /\ Cardinality(ThreadLines(journal')) =
              IF l.kind = "thread" THEN Cardinality(ThreadLines(journal)) + 1
              ELSE Cardinality(ThreadLines(journal))
<1> DEFINE n == Len(journal)
<1>1. /\ n \in Nat /\ Len(journal') = n + 1 /\ journal'[n + 1] = l
      /\ \A k \in 1..n : journal'[k] = journal[k]
      /\ \A id, k : LastOf(journal, id, k) /\ ~(l.kind = "outbox" /\ l.id = id) =>
            LastOf(journal', id, k)
      /\ \A id, k : LastOf(journal', id, k) /\ ~(l.kind = "outbox" /\ l.id = id) =>
            LastOf(journal, id, k)
      /\ l.kind = "outbox" => LastOf(journal', l.id, n + 1)
      /\ \A k \in 1..Len(journal') : journal'[k].kind = "outbox" =>
            \E j : LastOf(journal', journal'[k].id, j)
  BY AppendIs DEF OutboxInv, JournalOK
<1>2. PICK old : old = Replay(journal)
  OBVIOUS
<1>3. PICK new : new = Replay(journal')
  OBVIOUS
<1>4. /\ old = [id \in DOMAIN old |-> old[id]]
      /\ \A id : id \in DOMAIN old <=> \E k : LastOf(journal, id, k)
      /\ \A id, k : LastOf(journal, id, k) => old[id] = journal[k].entry
  BY <1>2, ReplayIs DEF OutboxInv, JournalOK
<1>5. /\ new = [id \in DOMAIN new |-> new[id]]
      /\ \A id : id \in DOMAIN new <=> \E k : LastOf(journal', id, k)
      /\ \A id, k : LastOf(journal', id, k) => new[id] = journal'[k].entry
  <2>1. PICK file : file = journal'
    OBVIOUS
  <2>2. \A k \in 1..Len(file) : file[k].kind = "outbox" => \E j : LastOf(file, file[k].id, j)
    BY <1>1, <2>1
  <2>3. new = Replay(file)
    BY <1>3, <2>1
  <2>4. /\ Replay(file) = [id \in DOMAIN Replay(file) |-> Replay(file)[id]]
        /\ \A id : id \in DOMAIN Replay(file) <=> \E k : LastOf(file, id, k)
        /\ \A id, k : LastOf(file, id, k) => Replay(file)[id] = file[k].entry
    BY <2>2, ReplayIs
  <2> QED BY <2>1, <2>3, <2>4
<1> HIDE DEF n
<1>6. ASSUME NEW id, ~(l.kind = "outbox" /\ l.id = id)
      PROVE  (id \in DOMAIN new <=> id \in DOMAIN old)
             /\ (id \in DOMAIN old => new[id] = old[id])
  <2>1. id \in DOMAIN new <=> id \in DOMAIN old
    BY <1>1, <1>4, <1>5, <1>6
  <2>2. ASSUME id \in DOMAIN old PROVE new[id] = old[id]
    <3>1. PICK k : LastOf(journal, id, k)
      BY <1>4, <2>2
    <3>2. LastOf(journal', id, k)
      BY <1>1, <1>6, <3>1
    <3>3. k \in 1..n
      BY <3>1 DEF LastOf, n
    <3>4. new[id] = journal'[k].entry /\ old[id] = journal[k].entry
      BY <1>4, <1>5, <3>1, <3>2
    <3> QED BY <1>1, <3>3, <3>4
  <2> QED BY <2>1, <2>2
<1>7. CASE l.kind = "outbox"
  <2>1. l.id \in DOMAIN new /\ new[l.id] = l.entry
    BY <1>1, <1>5, <1>7
  <2>2. DOMAIN new = DOMAIN old \cup {l.id}
    BY <1>6, <2>1
  <2>3. new = Insert(old, l.id, l.entry)
    BY <1>5, <1>6, <2>1, <2>2 DEF Insert
  <2>4. ThreadLines(journal') = ThreadLines(journal)
    BY <1>1, <1>7 DEF ThreadLines, n
  <2> QED BY <1>2, <1>3, <1>7, <2>3, <2>4
<1>8. CASE l.kind # "outbox"
  <2>1. new = old
    BY <1>4, <1>5, <1>6, <1>8
  <2>2. l.kind = "thread"
    BY <1>8, LineFacts
  <2>3. ThreadLines(journal') = ThreadLines(journal) \cup {n + 1}
    BY <1>1, <2>2 DEF ThreadLines, n
  <2>4. n + 1 \notin ThreadLines(journal)
    BY <1>1 DEF ThreadLines, n
  <2>5. Cardinality(ThreadLines(journal')) = Cardinality(ThreadLines(journal)) + 1
    BY <2>3, <2>4, ReplayedOK, FS_AddElement
  <2> QED BY <1>2, <1>3, <1>8, <2>1, <2>2, <2>5
<1> QED BY <1>7, <1>8

LEMMA ReplayNewline ==
  ASSUME OutboxInv, journal' = Append(journal, Newline)
  PROVE  Replay(journal') = Replay(journal) /\ ThreadLines(journal') = ThreadLines(journal)
<1>1. Newline.kind = "newline"
  BY DEF Newline
<1>2. /\ Len(journal) \in Nat /\ Len(journal') = Len(journal) + 1
      /\ journal'[Len(journal) + 1] = Newline
      /\ \A k \in 1..Len(journal) : journal'[k] = journal[k]
      /\ \A id, k : LastOf(journal, id, k) <=> LastOf(journal', id, k)
      /\ \A k \in 1..Len(journal') : journal'[k].kind = "outbox" =>
            \E j : LastOf(journal', journal'[k].id, j)
  BY <1>1, AppendIs DEF OutboxInv, JournalOK
<1>3. PICK old : old = Replay(journal)
  OBVIOUS
<1>4. PICK new : new = Replay(journal')
  OBVIOUS
<1>5. /\ old = [id \in DOMAIN old |-> old[id]]
      /\ \A id : id \in DOMAIN old <=> \E k : LastOf(journal, id, k)
      /\ \A id, k : LastOf(journal, id, k) => old[id] = journal[k].entry
  BY <1>3, ReplayIs DEF OutboxInv, JournalOK
<1>6. /\ new = [id \in DOMAIN new |-> new[id]]
      /\ \A id : id \in DOMAIN new <=> \E k : LastOf(journal', id, k)
      /\ \A id, k : LastOf(journal', id, k) => new[id] = journal'[k].entry
  <2>1. PICK file : file = journal'
    OBVIOUS
  <2>2. \A k \in 1..Len(file) : file[k].kind = "outbox" => \E j : LastOf(file, file[k].id, j)
    BY <1>2, <2>1
  <2>3. new = Replay(file)
    BY <1>4, <2>1
  <2>4. /\ Replay(file) = [id \in DOMAIN Replay(file) |-> Replay(file)[id]]
        /\ \A id : id \in DOMAIN Replay(file) <=> \E k : LastOf(file, id, k)
        /\ \A id, k : LastOf(file, id, k) => Replay(file)[id] = file[k].entry
    BY <2>2, ReplayIs
  <2> QED BY <2>1, <2>3, <2>4
<1>7. DOMAIN new = DOMAIN old
  BY <1>2, <1>5, <1>6
<1>8. ASSUME NEW id \in DOMAIN old PROVE new[id] = old[id]
  <2>1. PICK k : LastOf(journal, id, k)
    BY <1>5
  <2>2. LastOf(journal', id, k)
    BY <1>2, <2>1
  <2>3. k \in 1..Len(journal)
    BY <2>1 DEF LastOf
  <2>4. new[id] = journal'[k].entry /\ old[id] = journal[k].entry
    BY <1>5, <1>6, <2>1, <2>2
  <2> QED BY <1>2, <2>3, <2>4
<1>9. new = old
  BY <1>5, <1>6, <1>7, <1>8
<1>10. ThreadLines(journal') = ThreadLines(journal)
  BY <1>1, <1>2 DEF ThreadLines
<1> QED BY <1>3, <1>4, <1>9, <1>10
-----------------------------------------------------------------------------
(* Requests one at a time keep memory and file together                    *)

LEMMA AlonePre ==
  ASSUME OutboxInv, Solo, NEW h \in Handlers, frame[h].at # "idle"
  PROVE  /\ \A g \in Handlers \ {h} : frame[g] = Idle
         /\ Inserting <=> frame[h].at = "insert"
  BY IdleFrame DEF Solo, Inserting

LEMMA AlonePost ==
  ASSUME OutboxInv, NEW h \in Handlers, \A g \in Handlers \ {h} : frame[g] = Idle,
         NEW f, frame' = [frame EXCEPT ![h] = f]
  PROVE  /\ Solo' /\ frame'[h] = f /\ \A g \in Handlers \ {h} : frame'[g] = Idle
         /\ Inserting' <=> f.at = "insert"
<1>1. frame'[h] = f /\ \A g \in Handlers \ {h} : frame'[g] = Idle
  BY DEF OutboxInv, FramesOK
<1>2. Idle.at # "insert"
  BY DEF Idle
<1> QED BY <1>1, <1>2 DEF Solo, Inserting

LEMMA IdleKeeps == KeepsAcked(Idle) /\ \A f : f = Idle => KeepsAcked(f)'
  BY DEF KeepsAcked, Idle

\* The step of a handler that touches neither the memory nor the file.
LEMMA QuietSolo ==
  ASSUME OutboxInv, Solo, ReplayInv, AckInv, NEW h \in Handlers,
         \A g \in Handlers \ {h} : frame[g] = Idle, frame[h].at # "insert",
         NEW f, frame' = [frame EXCEPT ![h] = f], KeepsAcked(f), f.at # "insert",
         UNCHANGED <<store, journal, threads, phase, acked>>
  PROVE  Solo' /\ ReplayInv' /\ AckInv'
<1>1. /\ Solo' /\ frame'[h] = f /\ \A g \in Handlers \ {h} : frame'[g] = Idle /\ ~Inserting'
      /\ ~Inserting
  <2>1. ~Inserting
    BY IdleFrame DEF Inserting
  <2> QED BY <2>1, AlonePost
<1>2. ReplayInv'
  <2>1. \A g \in Handlers : frame'[g].at # "insert"
    BY <1>1 DEF Inserting
  <2> QED BY <1>1, <2>1 DEF ReplayInv, Synced, ThreadLines
<1>3. \A g \in Handlers : KeepsAcked(frame[g])'
  <2>1. \A g \in Handlers : KeepsAcked(frame'[g])
    BY <1>1, IdleKeeps
  <2> QED BY <2>1 DEF KeepsAcked
<1>4. AckInv'
  BY <1>3 DEF AckInv
<1> QED BY <1>1, <1>2, <1>4

\* A new request: the handlers were all idle unless requests overlap now.
LEMMA BeginSolo ==
  ASSUME OutboxInv, SoloInv, NEW h \in Handlers, NEW f, Begin(h, f), KeepsAcked(f),
         f.at # "insert"
  PROVE  SoloInv'
<1>1. CASE overlapped'
  BY <1>1 DEF SoloInv
<1>2. CASE ~overlapped'
  <2>1. ~overlapped /\ \A g \in Handlers : frame[g] = Idle
    BY <1>2 DEF Begin
  <2>2. frame[h].at # "insert"
    BY <2>1, IdleFrame
  <2>3. Solo /\ ReplayInv /\ AckInv
    BY <2>1 DEF SoloInv
  <2>4. frame' = [frame EXCEPT ![h] = f] /\ UNCHANGED <<store, journal, threads, phase, acked>>
    BY DEF Begin
  <2>5. Solo' /\ ReplayInv' /\ AckInv'
    BY <2>1, <2>2, <2>3, <2>4, QuietSolo
  <2> QED BY <2>5 DEF SoloInv
<1> QED BY <1>1, <1>2

LEMMA NotifySolo ==
  ASSUME OutboxInv, SoloInv, NEW h \in Handlers, Notify(h)
  PROVE  SoloInv'
<1>1. PICK request \in Requests :
        Begin(h, IF request = <<>>
                 THEN [Idle EXCEPT !.at = "append", !.batch = <<Thread>>]
                 ELSE [Idle EXCEPT !.at = "deliver", !.rest = request])
  BY DEF Notify
<1>2. CASE request = <<>>
  <2>1. PICK f : f = [Idle EXCEPT !.at = "append", !.batch = <<Thread>>]
    OBVIOUS
  <2>2. f.at = "append" /\ f.batch = <<Thread>>
    BY <2>1 DEF Idle
  <2>3. KeepsAcked(f)
    BY <2>2 DEF KeepsAcked, Thread
  <2> QED BY <1>1, <1>2, <2>1, <2>2, <2>3, BeginSolo
<1>3. CASE request # <<>>
  <2>1. PICK f : f = [Idle EXCEPT !.at = "deliver", !.rest = request]
    OBVIOUS
  <2>2. f.at = "deliver" /\ f.batch = <<>>
    BY <2>1 DEF Idle
  <2>3. KeepsAcked(f)
    BY <2>2 DEF KeepsAcked
  <2> QED BY <1>1, <1>3, <2>1, <2>2, <2>3, BeginSolo
<1> QED BY <1>2, <1>3

LEMMA AckSolo ==
  ASSUME OutboxInv, SoloInv, NEW h \in Handlers, AckOutbox(h)
  PROVE  SoloInv'
<1>1. PICK id \in DOMAIN store :
        /\ CanAcknowledge(store[id])
        /\ Begin(h, [Idle EXCEPT !.at = "append", !.ack = {id},
                         !.batch = <<Outbox(id, Acknowledge(store[id]))>>])
  BY DEF AckOutbox
<1>2. PICK l : l = Outbox(id, Acknowledge(store[id]))
  OBVIOUS
<1>3. l.entry.status = "Acknowledged"
  BY <1>1, <1>2, AckLine
<1>4. PICK f : f = [Idle EXCEPT !.at = "append", !.ack = {id}, !.batch = <<l>>]
  OBVIOUS
<1>5. f.at = "append" /\ f.batch = <<l>>
  BY <1>4 DEF Idle
<1>6. KeepsAcked(f)
  BY <1>3, <1>5 DEF KeepsAcked
<1> QED BY <1>1, <1>2, <1>4, <1>5, <1>6, BeginSolo

LEMMA RetrySolo ==
  ASSUME OutboxInv, SoloInv, NEW h \in Handlers, RetryOutbox(h) \/ RetryDueOutbox(h)
  PROVE  SoloInv'
<1>1. PICK due \in SUBSET DOMAIN store : Begin(h, [Idle EXCEPT !.at = "pick", !.due = due])
  BY DEF RetryOutbox, RetryDueOutbox
<1>2. PICK f : f = [Idle EXCEPT !.at = "pick", !.due = due]
  OBVIOUS
<1>3. f.at = "pick" /\ f.batch = <<>>
  BY <1>2 DEF Idle
<1>4. KeepsAcked(f)
  BY <1>3 DEF KeepsAcked
<1> QED BY <1>1, <1>2, <1>3, <1>4, BeginSolo

\* A due entry that is retryable was not acknowledged.
LEMMA PickSolo ==
  ASSUME OutboxInv, Solo, ReplayInv, AckInv, NEW h \in Handlers, PickRetry(h)
  PROVE  Solo' /\ ReplayInv' /\ AckInv'
<1> DEFINE G(id) == IF Retryable(store[id].status)
                    THEN [frame[h] EXCEPT !.at = "redeliver", !.due = @ \ {id},
                                          !.batch = <<Outbox(id, store[id])>>]
                    ELSE Idle
<1>1. PICK id \in frame[h].due : frame' = [frame EXCEPT ![h] = G(id)]
  BY DEF PickRetry
<1>2. FrameOK(frame[h]) /\ frame[h].at = "pick" /\ phase = "up"
  BY FrameIs DEF PickRetry
<1>3. id \in DOMAIN store /\ frame[h] \in Frames
  BY <1>2 DEF FrameOK, Frames
<1>4. PICK f : f = G(id)
  OBVIOUS
<1>5. KeepsAcked(f) /\ f.at # "insert"
  <2>1. CASE Retryable(store[id].status)
    <3>1. PICK l : l = Outbox(id, store[id])
      OBVIOUS
    <3>2. l.id = id /\ l.entry = store[id]
      BY <3>1 DEF Outbox
    <3>3. store[id].status # "Acknowledged"
      BY <2>1 DEF Retryable
    <3>4. id \notin acked
      BY <1>2, <3>3 DEF AckInv, AckedIn
    <3>5. f = [frame[h] EXCEPT !.at = "redeliver", !.due = @ \ {id}, !.batch = <<l>>]
      BY <1>4, <2>1, <3>1
    <3>6. f.at = "redeliver" /\ f.batch = <<l>>
      BY <1>3, <3>5 DEF Frames
    <3> QED BY <3>2, <3>3, <3>4, <3>6 DEF KeepsAcked
  <2>2. CASE ~Retryable(store[id].status)
    BY <1>4, <2>2, IdleKeeps, IdleFrame
  <2> QED BY <2>1, <2>2
<1>6. frame' = [frame EXCEPT ![h] = f] /\ UNCHANGED <<store, journal, threads, phase, acked>>
  BY <1>1, <1>4 DEF PickRetry
<1> QED BY <1>2, <1>5, <1>6, AlonePre, QuietSolo

LEMMA RedeliverSolo ==
  ASSUME OutboxInv, Solo, ReplayInv, AckInv, NEW h \in Handlers, Redeliver(h)
  PROVE  Solo' /\ ReplayInv' /\ AckInv'
<1>1. PICK line : line = Head(frame[h].batch)
  OBVIOUS
<1>2. PICK r \in DeliverTarget(line.entry.target) :
         /\ frame' = [frame EXCEPT ![h].at = "append",
              ![h].batch = <<Outbox(line.id, Attempt(line.entry, r.delivered))>>]
         /\ Reported(line.id, r)
  BY <1>1 DEF Redeliver
<1>3. /\ FrameOK(frame[h]) /\ frame[h].at = "redeliver" /\ line \in OutboxLines
      /\ frame[h] \in Frames /\ frame[h].batch # <<>>
  BY <1>1, FrameIs DEF Redeliver, FrameOK
<1>4. frame[h].batch \in Seq(Lines)
  BY <1>3 DEF Frames
<1>5. line.id \notin acked
  <2>1. line = frame[h].batch[1] /\ 1 \in 1..Len(frame[h].batch)
    BY <1>1, <1>3, <1>4
  <2>2. line.kind = "outbox" /\ line.entry.status # "Acknowledged"
    BY <1>3, <2>1, LineFacts DEF AckInv, KeepsAcked
  <2> QED BY <2>1, <2>2 DEF AckInv, KeepsAcked
<1>6. PICK l : l = Outbox(line.id, Attempt(line.entry, r.delivered))
  OBVIOUS
<1>7. PICK f : f = [frame[h] EXCEPT !.at = "append", !.batch = <<l>>]
  OBVIOUS
<1>8. frame' = [frame EXCEPT ![h] = f]
  BY <1>2, <1>6, <1>7
<1>9. f.at = "append" /\ f.batch = <<l>> /\ l.id = line.id
  BY <1>3, <1>6, <1>7 DEF Frames, Outbox
<1>10. KeepsAcked(f)
  BY <1>5, <1>9 DEF KeepsAcked
<1>11. UNCHANGED <<store, journal, threads, phase, acked>>
  BY <1>2 DEF Reported
<1> QED BY <1>3, <1>8, <1>9, <1>10, <1>11, AlonePre, QuietSolo

\* An id that is fresh was never acknowledged.
LEMMA DeliverSolo ==
  ASSUME OutboxInv, Solo, ReplayInv, AckInv, NEW h \in Handlers, DeliverNext(h)
  PROVE  Solo' /\ ReplayInv' /\ AckInv'
<1> DEFINE rest == frame[h].rest
           target == Head(rest)
           next == IF Tail(rest) = <<>> THEN "append" ELSE "deliver"
<1>1. PICK after : after = IF Tail(rest) = <<>> THEN <<Thread>> ELSE <<>>
  OBVIOUS
<1>2. PICK id \in FreshIds, r \in DeliverTarget(target) :
         /\ frame' = [frame EXCEPT ![h].at = next, ![h].rest = Tail(rest),
              ![h].batch = @ \o <<Outbox(id, Attempt(NewEntry(target), r.delivered))>> \o after]
         /\ Reported(id, r)
  BY <1>1 DEF DeliverNext
<1>3. FrameOK(frame[h]) /\ frame[h].at = "deliver" /\ frame[h] \in Frames
  BY FrameIs DEF DeliverNext, FrameOK
<1>4. frame[h].batch \in Seq(Lines)
  BY <1>3 DEF Frames
<1>5. id \notin acked
  BY DEF FreshIds, OutboxInv
<1>6. PICK l : l = Outbox(id, Attempt(NewEntry(target), r.delivered))
  OBVIOUS
<1>7. PICK b : b = frame[h].batch \o <<l>> \o after
  OBVIOUS
<1>8. PICK f : f = [frame[h] EXCEPT !.at = next, !.rest = Tail(rest), !.batch = b]
  OBVIOUS
<1>9. frame' = [frame EXCEPT ![h] = f]
  BY <1>2, <1>6, <1>7, <1>8
<1>10. f.at = next /\ f.batch = b /\ l.id = id
  BY <1>3, <1>6, <1>8 DEF Frames, Outbox
<1>11. ASSUME NEW k \in 1..Len(b), b[k].kind = "outbox", b[k].id \in acked
       PROVE  b[k].entry.status = "Acknowledged"
  <2> DEFINE c == frame[h].batch \o <<l>>
             old == frame[h].batch
  <2>1. Len(old) \in Nat /\ Len(c) = Len(old) + 1 /\ c \in Seq(Lines \cup {l})
    BY <1>4
  <2>2. after = <<>> \/ after = <<Thread>>
    BY <1>1
  <2>3. /\ Len(b) = Len(c) + Len(after)
        /\ \A j \in 1..Len(c) : b[j] = c[j]
        /\ \A j \in 1..Len(b) : j > Len(c) => after = <<Thread>> /\ b[j] = Thread
    <3> DEFINE S == Lines \cup {l}
    <3>1. c \in Seq(S) /\ after \in Seq(S) /\ b = c \o after
      <4>1. Thread \in S
        BY DEF Lines
      <4>2. b = c \o after
        BY <1>7
      <4> HIDE DEF S, c
      <4>3. after \in Seq(S)
        <5>1. <<>> \in Seq(S) /\ <<Thread>> \in Seq(S)
          BY <4>1
        <5> QED BY <2>2, <5>1
      <4> QED BY <2>1, <4>2, <4>3 DEF S
    <3>2. Len(b) = Len(c) + Len(after) /\ \A j \in 1..Len(c) : b[j] = c[j]
      <4> HIDE DEF c, S
      <4> QED BY <3>1
    <3>3. after = <<Thread>> => Len(after) = 1 /\ b[Len(c) + 1] = Thread
      <4> HIDE DEF c
      <4> QED BY <3>1
    <3>4. after = <<>> => Len(after) = 0
      OBVIOUS
    <3> DEFINE m == Len(c)
    <3>5. m \in Nat
      BY <2>1
    <3>6. ASSUME NEW j \in 1..Len(b), j > m PROVE after = <<Thread>> /\ b[j] = Thread
      <4> HIDE DEF c
      <4>1. after # <<>>
        BY <3>2, <3>4, <3>5, <3>6 DEF m
      <4>2. after = <<Thread>> /\ Len(b) = m + 1 /\ b[m + 1] = Thread
        BY <2>2, <3>2, <3>3, <4>1 DEF m
      <4> HIDE DEF m
      <4>3. j = m + 1
        BY <3>5, <3>6, <4>2
      <4> QED BY <4>2, <4>3
    <3> HIDE DEF c
    <3> QED BY <3>2, <3>6
  <2>4. c[Len(old) + 1] = l /\ \A j \in 1..Len(old) : c[j] = old[j]
    BY <1>4
  <2>5. Thread.kind # "outbox"
    BY DEF Thread
  <2>6. k \in 1..Len(c)
    BY <1>11, <2>1, <2>3, <2>5
  <2>7. k \in 1..Len(old)
    BY <1>5, <1>10, <1>11, <2>1, <2>3, <2>4, <2>6
  <2>8. b[k] = old[k]
    BY <2>3, <2>4, <2>6, <2>7
  <2> QED BY <1>11, <2>7, <2>8 DEF AckInv, KeepsAcked
<1>12. KeepsAcked(f) /\ f.at # "insert"
  BY <1>10, <1>11 DEF KeepsAcked
<1>13. UNCHANGED <<store, journal, threads, phase, acked>>
  BY <1>2 DEF Reported
<1> QED BY <1>3, <1>9, <1>12, <1>13, AlonePre, QuietSolo

LEMMA FailSolo ==
  ASSUME OutboxInv, Solo, ReplayInv, AckInv, NEW h \in Handlers, JournalFails(h)
  PROVE  Solo' /\ ReplayInv' /\ AckInv'
<1>1. PICK f : f = Idle
  OBVIOUS
<1>2. KeepsAcked(f) /\ f.at # "insert"
  BY <1>1, IdleKeeps, IdleFrame
<1>3. frame' = [frame EXCEPT ![h] = f] /\ UNCHANGED <<store, journal, threads, phase, acked>>
  BY <1>1 DEF JournalFails
<1>4. frame[h].at = "append"
  BY DEF JournalFails
<1> QED BY <1>2, <1>3, <1>4, AlonePre, QuietSolo

\* The appended line is the one the memory now lacks, and takes no acknowledgement back.
LEMMA AppendSolo ==
  ASSUME OutboxInv, Solo, ReplayInv, AckInv, NEW h \in Handlers, AppendJournal(h)
  PROVE  Solo' /\ ReplayInv' /\ AckInv'
<1>1. /\ FrameOK(frame[h]) /\ frame[h].at = "append" /\ phase = "up"
      /\ frame[h] \in Frames /\ frame[h].batch # <<>>
  BY FrameIs DEF AppendJournal, FrameOK
<1>2. frame[h].batch \in Seq(Lines)
  BY <1>1 DEF Frames
<1>3. PICK l : l = Head(frame[h].batch)
  OBVIOUS
<1>4. l \in Lines /\ l = frame[h].batch[1] /\ 1 \in 1..Len(frame[h].batch)
  BY <1>1, <1>2, <1>3
<1>5. /\ journal' = Append(journal, l)
      /\ UNCHANGED <<store, threads, phase, acked>>
  BY <1>3 DEF AppendJournal
<1>6. PICK f : f = [frame[h] EXCEPT !.at = "insert"]
  OBVIOUS
<1>7. frame' = [frame EXCEPT ![h] = f] /\ f.at = "insert" /\ f.batch = frame[h].batch
  BY <1>1, <1>6 DEF AppendJournal, Frames
<1>8. ~Inserting /\ \A g \in Handlers \ {h} : frame[g] = Idle
  BY <1>1, AlonePre
<1>9. /\ Solo' /\ Inserting' /\ frame'[h] = f /\ \A g \in Handlers \ {h} : frame'[g] = Idle
  BY <1>7, <1>8, AlonePost
<1>10. Synced
  BY <1>1, <1>8 DEF ReplayInv
<1>11. /\ Replay(journal') = IF l.kind = "outbox" THEN Insert(store, l.id, l.entry) ELSE store
       /\ Cardinality(ThreadLines(journal')) = IF l.kind = "thread" THEN threads + 1 ELSE threads
  BY <1>4, <1>5, <1>10, ReplayInsert DEF Synced
<1>12. \A g \in Handlers : frame'[g].at = "insert" => g = h
  BY <1>9, IdleFrame
<1>13. ReplayInv'
  <2>1. Lacks(l)'
    BY <1>5, <1>11 DEF Lacks, ThreadLines
  <2>2. Head(frame'[h].batch) = l
    BY <1>3, <1>7, <1>9
  <2>3. ASSUME NEW g \in Handlers, frame'[g].at = "insert" PROVE Lacks(Head(frame[g].batch))'
    <3>1. g = h /\ Head(frame'[g].batch) = l
      BY <1>12, <2>2, <2>3
    <3> QED BY <2>1, <3>1 DEF Lacks
  <2> QED BY <1>9, <2>3 DEF ReplayInv
<1>14. AckInv'
  <2>1. KeepsAcked(f)
    BY <1>1, <1>7 DEF AckInv, KeepsAcked
  <2>2. \A g \in Handlers : KeepsAcked(frame'[g])
    BY <1>9, <2>1, IdleKeeps
  <2>3. \A g \in Handlers : KeepsAcked(frame[g])'
    BY <1>5, <2>2 DEF KeepsAcked
  <2>4. l.kind = "outbox" /\ l.id \in acked => l.entry.status = "Acknowledged"
    BY <1>4 DEF AckInv, KeepsAcked
  <2>5. \A id \in acked : AckedIn(store, id)
    BY <1>1 DEF AckInv
  <2>6. PICK new : new = Replay(journal')
    OBVIOUS
  <2>7. \A id \in acked : AckedIn(new, id)
    BY <1>11, <2>4, <2>5, <2>6 DEF AckedIn, Insert
  <2> QED BY <1>5, <2>3, <2>5, <2>6, <2>7 DEF AckInv
<1> QED BY <1>9, <1>13, <1>14

\* The insert brings in what the memory lacked, and answers the acknowledgement.
LEMMA InsertSolo ==
  ASSUME OutboxInv, Solo, ReplayInv, AckInv, NEW h \in Handlers, InsertEntry(h)
  PROVE  Solo' /\ ReplayInv' /\ AckInv'
<1> DEFINE batch == Tail(frame[h].batch)
           next == IF batch # <<>> THEN "append"
                   ELSE IF frame[h].due # {} THEN "pick" ELSE "idle"
<1>1. /\ FrameOK(frame[h]) /\ frame[h].at = "insert" /\ phase = "up"
      /\ frame[h] \in Frames /\ frame[h].batch # <<>>
  BY FrameIs DEF InsertEntry, FrameOK
<1>2. frame[h].batch \in Seq(Lines)
  BY <1>1 DEF Frames
<1>3. PICK l : l = Head(frame[h].batch)
  OBVIOUS
<1>4. l \in Lines /\ l = frame[h].batch[1] /\ 1 \in 1..Len(frame[h].batch)
  BY <1>1, <1>2, <1>3
<1>5. /\ store' = IF l.kind = "outbox" THEN Insert(store, l.id, l.entry) ELSE store
      /\ threads' = IF l.kind = "thread" THEN threads + 1 ELSE threads
      /\ acked' = acked \cup frame[h].ack
      /\ UNCHANGED <<journal, phase>>
  BY <1>3 DEF InsertEntry
<1>6. PICK b : b = batch
  OBVIOUS
<1>7. PICK f : f = IF next = "idle" THEN Idle ELSE [frame[h] EXCEPT !.at = next, !.batch = b]
  OBVIOUS
<1>8. frame' = [frame EXCEPT ![h] = f]
  BY <1>6, <1>7 DEF InsertEntry
<1>9. f = Idle \/ (next # "idle" /\ f.at \in {"append", "pick"} /\ f.batch = b)
  BY <1>1, <1>7 DEF Frames
<1>10. \A g \in Handlers \ {h} : frame[g] = Idle
  BY <1>1, AlonePre
<1>11. /\ Solo' /\ ~Inserting' /\ frame'[h] = f
       /\ \A g \in Handlers \ {h} : frame'[g] = Idle
  <2>1. f.at # "insert"
    BY <1>9, IdleFrame
  <2> QED BY <1>8, <1>10, <2>1, AlonePost
<1>12. store' = Replay(journal) /\ threads' = Cardinality(ThreadLines(journal))
  BY <1>1, <1>3, <1>5 DEF ReplayInv, Lacks
<1>13. ReplayInv'
  <2>1. Synced'
    BY <1>5, <1>12 DEF Synced, ThreadLines
  <2> QED BY <1>11, <2>1 DEF ReplayInv, Inserting
<1>14. frame[h].ack # {} =>
         /\ f = Idle /\ frame[h].ack = {l.id} /\ l.kind = "outbox"
         /\ l.entry.status = "Acknowledged"
  <2> SUFFICES ASSUME frame[h].ack # {}
               PROVE  /\ f = Idle /\ frame[h].ack = {l.id} /\ l.kind = "outbox"
                      /\ l.entry.status = "Acknowledged"
    OBVIOUS
  <2>1. PICK x \in OutboxLines :
          /\ frame[h].batch = <<x>> /\ frame[h].ack = {x.id}
          /\ x.entry.status = "Acknowledged" /\ frame[h].due = {}
    BY <1>1 DEF FrameOK
  <2>2. l = x /\ batch = <<>>
    BY <1>3, <2>1
  <2>3. next = "idle"
    BY <2>1, <2>2
  <2> QED BY <1>7, <2>1, <2>2, <2>3, LineFacts
<1>15. \A id \in acked' : AckedIn(store', id)
  <2>1. l.kind = "outbox" /\ l.id \in acked => l.entry.status = "Acknowledged"
    BY <1>4 DEF AckInv, KeepsAcked
  <2>2. \A id \in acked : AckedIn(store, id)
    BY <1>1 DEF AckInv
  <2>3. PICK s : s = store'
    OBVIOUS
  <2>4. l.kind = "outbox" =>
           DOMAIN s = DOMAIN store \cup {l.id}
           /\ \A i \in DOMAIN s : s[i] = IF i = l.id THEN l.entry ELSE store[i]
    BY <1>5, <2>3 DEF Insert
  <2>5. \A id \in acked : AckedIn(s, id)
    BY <1>5, <2>1, <2>2, <2>3, <2>4 DEF AckedIn
  <2>6. \A id \in frame[h].ack : AckedIn(s, id)
    BY <1>14, <2>4 DEF AckedIn
  <2> QED BY <1>5, <2>3, <2>5, <2>6
<1>16. AckInv'
  <2>1. KeepsAcked(f)'
    <3>1. CASE f = Idle
      BY <3>1, IdleKeeps
    <3>2. CASE f # Idle
      <4>1. acked' = acked /\ f.at # "redeliver" /\ f.batch = b
        BY <1>5, <1>9, <1>14, <3>2
      <4>2. b \in Seq(Lines) /\ \A k \in 1..Len(b) : k + 1 \in 1..Len(frame[h].batch)
                                                 /\ b[k] = frame[h].batch[k + 1]
        BY <1>1, <1>2, <1>6
      <4>3. KeepsAcked(frame[h])
        BY DEF AckInv
      <4> QED BY <4>1, <4>2, <4>3 DEF KeepsAcked
    <3> QED BY <3>1, <3>2
  <2>2. \A g \in Handlers : KeepsAcked(frame[g])'
    <3>1. \A x : x = f \/ x = Idle => KeepsAcked(x)'
      BY <2>1, IdleKeeps
    <3> QED BY <1>11, <3>1 DEF KeepsAcked
  <2>3. \A id \in acked' : AckedIn(Replay(journal'), id)
    BY <1>5, <1>12, <1>15
  <2> QED BY <1>15, <2>2, <2>3 DEF AckInv
<1> QED BY <1>11, <1>13, <1>16

LEMMA WorkSolo ==
  ASSUME OutboxInv, SoloInv, NEW h \in Handlers, Work(h)
  PROVE  SoloInv'
<1>1. overlapped' = overlapped
  BY DEF Work, PickRetry, Redeliver, DeliverNext, Reported, AppendJournal, JournalFails, InsertEntry
<1>2. CASE overlapped
  BY <1>1, <1>2 DEF SoloInv
<1>3. CASE ~overlapped
  <2>1. Solo /\ ReplayInv /\ AckInv
    BY <1>3 DEF SoloInv
  <2>2. Solo' /\ ReplayInv' /\ AckInv'
    BY <2>1, PickSolo, RedeliverSolo, DeliverSolo, AppendSolo, FailSolo, InsertSolo DEF Work
  <2> QED BY <2>2 DEF SoloInv
<1> QED BY <1>2, <1>3

\* Late newlines do not change what the file replays to.
LEMMA NewlineSolo ==
  ASSUME OutboxInv, SoloInv, WriteNewline
  PROVE  SoloInv'
<1>1. UNCHANGED <<store, threads, phase, frame, acked, overlapped>>
  BY DEF WriteNewline
<1>2. Replay(journal') = Replay(journal) /\ ThreadLines(journal') = ThreadLines(journal)
  BY ReplayNewline DEF WriteNewline
<1>3. Solo => Solo'
  BY <1>1 DEF Solo
<1>4. ReplayInv => ReplayInv'
  BY <1>1, <1>2 DEF ReplayInv, Synced, Lacks, Inserting, ThreadLines
<1>5. AckInv => AckInv'
  BY <1>1, <1>2 DEF AckInv, KeepsAcked
<1> QED BY <1>1, <1>3, <1>4, <1>5 DEF SoloInv

LEMMA CrashSolo ==
  ASSUME OutboxInv, SoloInv, Crash
  PROVE  SoloInv'
<1>1. \A h \in Handlers : frame'[h] = Idle
  BY DEF Crash
<1>2. journal' = journal /\ acked' = acked /\ overlapped' = overlapped /\ phase' = "down"
  BY DEF Crash
<1>3. Solo' /\ ReplayInv'
  BY <1>1, <1>2 DEF Solo, ReplayInv
<1>4. \A h \in Handlers : KeepsAcked(frame[h])'
  BY <1>1, IdleKeeps
<1>5. AckInv => AckInv'
  BY <1>2, <1>4 DEF AckInv
<1> QED BY <1>2, <1>3, <1>5 DEF SoloInv

LEMMA StartSolo ==
  ASSUME OutboxInv, SoloInv, Start
  PROVE  SoloInv'
<1>1. /\ UNCHANGED <<journal, frame, acked, overlapped>> /\ phase = "down"
      /\ store' = Replay(journal) /\ threads' = Cardinality(ThreadLines(journal))
  BY ReplayedIs DEF Start
<1>2. \A h \in Handlers : frame'[h] = Idle
  BY <1>1 DEF OutboxInv
<1>3. Solo' /\ ~Inserting'
  BY <1>2, IdleFrame DEF Solo, Inserting
<1>4. ReplayInv'
  BY <1>1, <1>3 DEF ReplayInv, Synced, Inserting, ThreadLines
<1>5. AckInv => AckInv'
  BY <1>1 DEF AckInv, KeepsAcked
<1> QED BY <1>1, <1>3, <1>4, <1>5 DEF SoloInv

LEMMA SoloInit == Init => SoloInv
<1> SUFFICES ASSUME Init PROVE SoloInv
  OBVIOUS
<1>1. Solo /\ \A h \in Handlers : frame[h] = Idle
  BY DEF Init, Solo
<1>2. ReplayInv
  <2>1. ~Inserting /\ \A h \in Handlers : frame[h].at # "insert"
    BY <1>1, IdleFrame DEF Inserting
  <2>2. journal = <<>> /\ store = <<>> /\ threads = 0
    BY DEF Init
  <2>3. {k \in 1..0 : journal[k].kind = "outbox"} = {} /\ ThreadLines(journal) = {}
    BY <2>2 DEF ThreadLines
  <2>4. DOMAIN Replay(journal) = {}
    BY <2>2, <2>3 DEF Replay
  <2>5. Replay(journal) = [id \in {} |-> Replay(journal)[id]]
    BY <2>2, <2>4, ReplayIs
  <2>6. Replay(journal) = store
    BY <2>2, <2>5
  <2>7. Cardinality(ThreadLines(journal)) = 0
    BY <2>3, FS_EmptySet
  <2> QED BY <2>1, <2>2, <2>6, <2>7 DEF ReplayInv, Synced
<1>3. AckInv
  BY <1>1, IdleKeeps DEF AckInv, Init
<1> QED BY <1>1, <1>2, <1>3 DEF SoloInv

LEMMA SoloStep ==
  ASSUME OutboxInv, SoloInv, [Next]_vars
  PROVE  SoloInv'
<1>1. CASE UNCHANGED vars
  BY <1>1 DEF vars, SoloInv, Solo, ReplayInv, AckInv, Synced, Lacks, Inserting, ThreadLines, KeepsAcked
<1>2. CASE Quiescent
  BY <1>1, <1>2 DEF Quiescent
<1> QED BY <1>1, <1>2, NotifySolo, AckSolo, RetrySolo, WorkSolo, NewlineSolo, CrashSolo, StartSolo
        DEF Next

LEMMA SoloInvariant == Spec => [](OutboxInv /\ SoloInv)
<1>1. Init => OutboxInv /\ SoloInv
  BY OutboxInit, SoloInit
<1>2. OutboxInv /\ SoloInv /\ [Next]_vars => (OutboxInv /\ SoloInv)'
  BY OutboxStep, SoloStep
<1> QED BY <1>1, <1>2, PTL DEF Spec

\* As long as requests came one at a time, a restart shows the outbox and the
\* threads that the service shows (replay_journal against the handlers' inserts).
THEOREM RestartIsFaithful == Spec => []RestartShowsTheSame
<1>1. SoloInv => RestartShowsTheSame
  BY ReplayedIs DEF SoloInv, ReplayInv, Synced, RestartShowsTheSame
<1> QED BY <1>1, SoloInvariant, PTL

\* As long as requests came one at a time, an entry whose acknowledgement was
\* answered stays acknowledged, over retries, due retries and restarts
\* (acknowledge_outbox_entry, retry_outbox_entry, replay_journal).
THEOREM AcknowledgementsStay == Spec => []AcknowledgedStays
<1>1. SoloInv => AcknowledgedStays
  BY DEF SoloInv, AckInv, AckedIn, AcknowledgedStays
<1> QED BY <1>1, SoloInvariant, PTL
=============================================================================
