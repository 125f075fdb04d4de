------------------------- MODULE EventGateway_proofs -------------------------
(***************************************************************************)
(* Theorems about EventGateway and, at the end, about the intake of        *)
(* deliveries (EventIntake), for every value of their constants.           *)
(***************************************************************************)
EXTENDS EventGateway, EventIntake, WellFoundedInduction, TLAPS

-----------------------------------------------------------------------------
(* The journal and the tables only gain events. *)

IsFile(d) == \E S : d \in Seq(S)

LEMMA RecordedMember ==
  ASSUME NEW r
  PROVE  r \in RecordedEvents <=>
            \E j \in 1..Len(disk) : disk[j].kind = "event" /\ r = disk[j].event
  BY DEF RecordedEvents, Entries

LEMMA RecordedMemberNext ==
  ASSUME NEW r
  PROVE  r \in RecordedEvents' <=>
            \E j \in 1..Len(disk') : disk'[j].kind = "event" /\ r = disk'[j].event
  BY DEF RecordedEvents, Entries

\* What an append does to the recorded events.
LEMMA AppendRecords ==
  ASSUME NEW entry, IsFile(disk), disk' = Append(disk, entry)
  PROVE  /\ IsFile(disk')
         /\ RecordedEvents \subseteq RecordedEvents'
         /\ entry.kind = "event" => entry.event \in RecordedEvents'
         /\ \A r \in RecordedEvents' :
               r \in RecordedEvents \/ (entry.kind = "event" /\ r = entry.event)
<1>1. PICK S : disk \in Seq(S)
  BY DEF IsFile
<1>2. disk' \in Seq(S \cup {entry})
  BY <1>1
<1>3. /\ Len(disk') = Len(disk) + 1 /\ Len(disk) \in Nat
      /\ \A j \in 1..Len(disk) : disk'[j] = disk[j]
      /\ disk'[Len(disk) + 1] = entry
  BY <1>1
<1>4. ASSUME NEW r \in RecordedEvents PROVE r \in RecordedEvents'
  <2>1. PICK j \in 1..Len(disk) : disk[j].kind = "event" /\ r = disk[j].event
    BY RecordedMember
  <2>2. j \in 1..Len(disk') /\ disk'[j] = disk[j]
    BY <1>3
  <2> QED
    BY <2>1, <2>2, RecordedMemberNext
<1>5. ASSUME entry.kind = "event" PROVE entry.event \in RecordedEvents'
  <2>1. Len(disk) + 1 \in 1..Len(disk')
    BY <1>3
  <2> QED
    BY <1>3, <1>5, <2>1, RecordedMemberNext
<1>6. ASSUME NEW r \in RecordedEvents'
      PROVE  r \in RecordedEvents \/ (entry.kind = "event" /\ r = entry.event)
  <2>1. PICK j \in 1..Len(disk') : disk'[j].kind = "event" /\ r = disk'[j].event
    BY RecordedMemberNext
  <2>2. j \in 1..Len(disk) \/ j = Len(disk) + 1
    BY <1>3
  <2> QED
    BY <1>3, <2>1, <2>2, RecordedMember
<1> QED
  BY <1>2, <1>4, <1>5, <1>6 DEF IsFile

\* An upsert replaces no event by something else.
LEMMA UpsertRecords ==
  ASSUME NEW entry, IsFile(disk), disk' = Upsert(entry)
  PROVE  /\ IsFile(disk')
         /\ RecordedEvents \subseteq RecordedEvents'
         /\ entry.kind = "event" => entry.event \in RecordedEvents'
<1>1. CASE \E k \in DOMAIN disk : Replaces(entry, disk[k])
  <2>1. PICK S : disk \in Seq(S)
    BY DEF IsFile
  <2>2. DOMAIN disk = 1..Len(disk) /\ Len(disk) \in Nat
    BY <2>1
  <2>3. disk' = [k \in 1..Len(disk) |->
                    IF Replaces(entry, disk[k]) THEN entry ELSE disk[k]]
    BY <1>1, <2>2 DEF Upsert
  <2>4. disk' \in Seq(S \cup {entry}) /\ Len(disk') = Len(disk)
    BY <2>1, <2>2, <2>3
  <2>5. ASSUME NEW r \in RecordedEvents PROVE r \in RecordedEvents'
    <3>1. PICK j \in 1..Len(disk) : disk[j].kind = "event" /\ r = disk[j].event
      BY RecordedMember
    <3>2. Replaces(entry, disk[j]) => disk[j] = entry
      BY <3>1 DEF Replaces
    <3>3. disk'[j] = disk[j]
      BY <2>3, <3>2
    <3> QED
      BY <2>4, <3>1, <3>3, RecordedMemberNext
  <2>6. ASSUME entry.kind = "event" PROVE entry.event \in RecordedEvents'
    <3>1. PICK k \in 1..Len(disk) : Replaces(entry, disk[k])
      BY <1>1, <2>2
    <3>2. disk'[k] = entry
      BY <2>3, <3>1
    <3> QED
      BY <2>4, <2>6, <3>2, RecordedMemberNext
  <2> QED
    BY <2>4, <2>5, <2>6 DEF IsFile
<1>2. CASE ~\E k \in DOMAIN disk : Replaces(entry, disk[k])
  <2>1. disk' = Append(disk, entry)
    BY <1>2 DEF Upsert
  <2> QED
    BY <2>1, AppendRecords
<1> QED
  BY <1>1, <1>2

LEMMA WriteRecords ==
  ASSUME NEW entry, IsFile(disk), Write(entry)
  PROVE  /\ IsFile(disk')
         /\ RecordedEvents \subseteq RecordedEvents'
         /\ entry.kind = "event" => entry.event \in RecordedEvents'
         /\ Backend = "jsonl" => \A r \in RecordedEvents' :
               r \in RecordedEvents \/ (entry.kind = "event" /\ r = entry.event)
<1>1. CASE Backend = "jsonl"
  BY <1>1, AppendRecords DEF Write
<1>2. CASE Backend # "jsonl"
  BY <1>2, UpsertRecords DEF Write
<1> QED
  BY <1>1, <1>2

-----------------------------------------------------------------------------
(* At most one goal per dedupe key. *)

\* A frame is idle, or has the fields of a request.
FrameShape(f) ==
    \/ f = Idle
    \/ /\ f = [at |-> f.at, event |-> f.event, via |-> f.via, sqs |-> f.sqs,
               deduped |-> f.deduped, trigger |-> f.trigger]
       /\ f.event \in Events
       /\ f.deduped \in BOOLEAN

FramesOK ==
    /\ frame = [h \in Handlers |-> frame[h]]
    /\ \A h \in Handlers : FrameShape(frame[h])

\* The handler may still call Restate.
Pending(h) ==
    \/ frame[h].at = "submit"
    \/ frame[h].at = "route" /\ ~frame[h].deduped

KeyRecorded(k) == \E r \in RecordedEvents : r.key = k

\* A handler that may still call Restate is the only one of its key, and
\* nobody called before.
OneCaller ==
    /\ \A h, j \in Handlers :
           Pending(h) /\ Pending(j) /\ frame[h].event.key = frame[j].event.key => h = j
    /\ \A h \in Handlers : Pending(h) => goals[frame[h].event.key] = 0

\* Whoever may call, or has called, is on record.
CallersRecorded ==
    /\ \A h \in Handlers : Pending(h) => KeyRecorded(frame[h].event.key)
    /\ \A k \in Keys : goals[k] = 1 => KeyRecorded(k)

\* A running journal backend knows the recorded keys.
KeysKnown ==
    up /\ Backend = "jsonl" => \A r \in RecordedEvents : r.key \in keys

OneGoalInv ==
    /\ IsFile(disk)
    /\ FramesOK
    /\ goals \in [Keys -> {0, 1}]
    /\ OneCaller
    /\ CallersRecorded
    /\ KeysKnown

\* A step on which no handler starts to be pending, no goal is counted and
\* no event is forgotten.
Calm ==
    /\ \A h \in Handlers :
           Pending(h)' => Pending(h) /\ frame'[h].event = frame[h].event
    /\ goals' = goals
    /\ RecordedEvents \subseteq RecordedEvents'

LEMMA CalmKeeps ==
  ASSUME OneGoalInv, Calm
  PROVE  goals' \in [Keys -> {0, 1}] /\ OneCaller' /\ CallersRecorded'
<1>1. \A k : KeyRecorded(k) => KeyRecorded(k)'
  BY DEF Calm, KeyRecorded
<1>2. OneCaller'
  BY Zenon DEF OneGoalInv, OneCaller, Calm
<1>3. CallersRecorded'
  BY <1>1, Zenon DEF OneGoalInv, CallersRecorded, Calm
<1> QED
  BY <1>2, <1>3 DEF OneGoalInv, Calm

\* One handler takes a step.
LEMMA FrameStep ==
  ASSUME NEW h \in Handlers, NEW f, FramesOK, FrameShape(f),
         frame' = [frame EXCEPT ![h] = f]
  PROVE  /\ FramesOK'
         /\ frame'[h] = f
         /\ \A j \in Handlers \ {h} : frame'[j] = frame[j]
  BY DEF FramesOK

\* ... and is not pending afterwards, or was before and goes on.
LEMMA CalmFrame ==
  ASSUME NEW h \in Handlers, NEW f, FramesOK, FrameShape(f),
         frame' = [frame EXCEPT ![h] = f],
         \/ f.at \notin {"submit", "route"}
         \/ f.at = "route" /\ f.deduped
         \/ f.at = "submit" /\ Pending(h) /\ f.event = frame[h].event
  PROVE  /\ FramesOK'
         /\ \A j \in Handlers :
               Pending(j)' => Pending(j) /\ frame'[j].event = frame[j].event
<1>1. /\ FramesOK' /\ frame'[h] = f
      /\ \A j \in Handlers \ {h} : frame'[j] = frame[j]
  BY FrameStep
<1> QED
  BY <1>1 DEF Pending

LEMMA IdleShape == FrameShape(Idle) /\ Idle.at = "idle"
  BY DEF FrameShape, Idle

LEMMA GotoFrame ==
  ASSUME NEW h \in Handlers, NEW s, FramesOK, frame[h] # Idle,
         s \notin {"submit", "route"}, Goto(h, s)
  PROVE  /\ FramesOK'
         /\ \A j \in Handlers :
               Pending(j)' => Pending(j) /\ frame'[j].event = frame[j].event
<1> DEFINE f == [frame[h] EXCEPT !.at = s]
<1>1. FrameShape(f) /\ f.at = s
  BY DEF FramesOK, FrameShape
<1>2. frame' = [frame EXCEPT ![h] = f]
  BY DEF Goto, FramesOK
<1> HIDE DEF f
<1> QED
  BY <1>1, <1>2, CalmFrame

LEMMA AnswerFrame ==
  ASSUME NEW h \in Handlers, NEW a, FramesOK, Answers(h, a)
  PROVE  /\ FramesOK'
         /\ \A j \in Handlers :
               Pending(j)' => Pending(j) /\ frame'[j].event = frame[j].event
  BY IdleShape, CalmFrame DEF Answers

LEMMA FinishFrame ==
  ASSUME NEW h \in Handlers, FramesOK, frame[h] # Idle, Finish(h)
  PROVE  /\ FramesOK'
         /\ \A j \in Handlers :
               Pending(j)' => Pending(j) /\ frame'[j].event = frame[j].event
  BY GotoFrame, AnswerFrame DEF Finish

\* Updates of two fields of a frame.
LEMMA TriggerShape ==
  ASSUME NEW r, FrameShape(r), r # Idle, NEW s, NEW t
  PROVE  LET q == [r EXCEPT !.at = s, !.trigger = t] IN
         FrameShape(q) /\ q.at = s
<1> DEFINE p == [r EXCEPT !.at = s]
           q == [p EXCEPT !.trigger = t]
<1>1. p = [at |-> s, event |-> r.event, via |-> r.via, sqs |-> r.sqs,
           deduped |-> r.deduped, trigger |-> r.trigger]
  BY DEF FrameShape
<1>2. r.event \in Events /\ r.deduped \in BOOLEAN
  BY DEF FrameShape
<1> HIDE DEF p
<1>3. q = [at |-> s, event |-> r.event, via |-> r.via, sqs |-> r.sqs,
           deduped |-> r.deduped, trigger |-> t]
  BY <1>1
<1> HIDE DEF q
<1>4. FrameShape(q) /\ q.at = s
  BY <1>2, <1>3 DEF FrameShape
<1> QED
  BY <1>4 DEF q, p

LEMMA DedupedShape ==
  ASSUME NEW r, FrameShape(r), r # Idle, NEW s, NEW t \in BOOLEAN
  PROVE  LET q == [r EXCEPT !.at = s, !.deduped = t] IN
         FrameShape(q) /\ q.at = s /\ q.deduped = t
<1> DEFINE p == [r EXCEPT !.at = s]
           q == [p EXCEPT !.deduped = t]
<1>1. p = [at |-> s, event |-> r.event, via |-> r.via, sqs |-> r.sqs,
           deduped |-> r.deduped, trigger |-> r.trigger]
  BY DEF FrameShape
<1>2. r.event \in Events /\ r.deduped \in BOOLEAN
  BY DEF FrameShape
<1> HIDE DEF p
<1>3. q = [at |-> s, event |-> r.event, via |-> r.via, sqs |-> r.sqs,
           deduped |-> t, trigger |-> r.trigger]
  BY <1>1
<1> HIDE DEF q
<1>4. FrameShape(q) /\ q.at = s /\ q.deduped = t
  BY <1>2, <1>3 DEF FrameShape
<1> QED
  BY <1>4 DEF q, p

\* The handler takes up a trigger.
LEMMA HoldFrame ==
  ASSUME NEW h \in Handlers, NEW s \in {"store", "project"}, NEW t,
         FramesOK, frame[h] # Idle,
         frame' = [frame EXCEPT ![h].at = s, ![h].trigger = t]
  PROVE  /\ FramesOK'
         /\ \A j \in Handlers :
               Pending(j)' => Pending(j) /\ frame'[j].event = frame[j].event
<1> DEFINE f == [frame[h] EXCEPT !.at = s, !.trigger = t]
<1>1. FrameShape(f) /\ f.at = s
  BY TriggerShape DEF FramesOK
<1>2. frame' = [frame EXCEPT ![h] = f]
  BY DEF FramesOK
<1> HIDE DEF f
<1> QED
  BY <1>1, <1>2, CalmFrame
-----------------------------------------------------------------------------
(* The steps. *)

\* A calm step that leaves the journal and the keys alone.
LEMMA QuietStep ==
  ASSUME OneGoalInv, FramesOK', goals' = goals,
         UNCHANGED <<disk, up, keys>>,
         \A h \in Handlers :
             Pending(h)' => Pending(h) /\ frame'[h].event = frame[h].event
  PROVE  OneGoalInv'
<1>1. RecordedEvents' = RecordedEvents
  BY DEF RecordedEvents, Entries
<1>2. Calm
  BY <1>1 DEF Calm
<1>3. KeysKnown'
  BY <1>1 DEF OneGoalInv, KeysKnown
<1>4. IsFile(disk')
  BY DEF OneGoalInv
<1> QED
  BY <1>2, <1>3, <1>4, CalmKeeps DEF OneGoalInv

\* A calm step that writes something other than an event.
LEMMA WriteStep ==
  ASSUME OneGoalInv, FramesOK', goals' = goals,
         NEW entry, entry.kind # "event", Write(entry), UNCHANGED <<up, keys>>,
         \A h \in Handlers :
             Pending(h)' => Pending(h) /\ frame'[h].event = frame[h].event
  PROVE  OneGoalInv'
<1>0. IsFile(disk)
  BY DEF OneGoalInv
<1>1. /\ IsFile(disk')
      /\ RecordedEvents \subseteq RecordedEvents'
      /\ Backend = "jsonl" => RecordedEvents' \subseteq RecordedEvents
  BY <1>0, WriteRecords
<1>2. Calm
  BY <1>1 DEF Calm
<1>3. KeysKnown'
  BY <1>1 DEF OneGoalInv, KeysKnown
<1> QED
  BY <1>1, <1>2, <1>3, CalmKeeps DEF OneGoalInv

LEMMA SameFrames ==
  ASSUME FramesOK, frame' = frame
  PROVE  /\ FramesOK'
         /\ \A h \in Handlers :
               Pending(h)' => Pending(h) /\ frame'[h].event = frame[h].event
  BY DEF FramesOK, Pending

\* Mutual exclusion of callers starts here: the event of a first delivery
\* was not on record, so nobody is pending for its key and no goal exists.
LEMMA FirstDelivery ==
  ASSUME OneGoalInv, NEW h \in Handlers, At(h, "record"),
         ~IsDuplicate(frame[h].event), Write(EventEntry(frame[h].event)),
         keys' = keys \cup {frame[h].event.key}, Goto(h, "route"),
         goals' = goals, up' = up
  PROVE  OneGoalInv'
<1> DEFINE e == frame[h].event
           f == [frame[h] EXCEPT !.at = "route"]
<1>1. FrameShape(frame[h]) /\ frame[h] # Idle
  BY DEF OneGoalInv, FramesOK, At, Idle
<1>2. FrameShape(f) /\ f.at = "route" /\ f.event = e
  BY <1>1 DEF FrameShape
<1>3. frame' = [frame EXCEPT ![h] = f]
  BY DEF Goto, OneGoalInv, FramesOK
<1> HIDE DEF f
<1>4. /\ FramesOK' /\ frame'[h] = f
      /\ \A j \in Handlers \ {h} : frame'[j] = frame[j]
  BY <1>2, <1>3, FrameStep DEF OneGoalInv
<1>5. /\ IsFile(disk')
      /\ RecordedEvents \subseteq RecordedEvents'
      /\ e \in RecordedEvents'
      /\ Backend = "jsonl" => \A r \in RecordedEvents' : r \in RecordedEvents \/ r = e
  <2>1. EventEntry(e).kind = "event" /\ EventEntry(e).event = e
    BY DEF EventEntry
  <2>2. IsFile(disk)
    BY DEF OneGoalInv
  <2> QED
    BY <2>1, <2>2, WriteRecords
<1>6. ~KeyRecorded(e.key)
  <2>1. CASE Backend = "jsonl"
    BY <2>1 DEF IsDuplicate, KeyRecorded, OneGoalInv, KeysKnown, At
  <2>2. CASE Backend # "jsonl"
    BY <2>2 DEF IsDuplicate, KeyRecorded
  <2> QED
    BY <2>1, <2>2
<1>7. e \in Events /\ e.key \in Keys
  BY <1>1 DEF FrameShape, Keys
<1>8. goals[e.key] = 0
  BY <1>6, <1>7 DEF OneGoalInv, CallersRecorded
<1>9. \A j \in Handlers : Pending(j) => frame[j].event.key # e.key
  BY <1>6 DEF OneGoalInv, CallersRecorded
<1>10. \A j \in Handlers \ {h} : Pending(j)' <=> Pending(j)
  BY <1>4 DEF Pending
<1>11. \A k : KeyRecorded(k) => KeyRecorded(k)'
  BY <1>5 DEF KeyRecorded
<1>12. OneCaller'
  <2>1. ASSUME NEW i \in Handlers, NEW j \in Handlers, Pending(i)', Pending(j)',
               frame'[i].event.key = frame'[j].event.key
        PROVE  i = j
    BY <2>1, <1>2, <1>4, <1>9, <1>10 DEF OneGoalInv, OneCaller
  <2>2. ASSUME NEW j \in Handlers, Pending(j)'
        PROVE  goals'[frame'[j].event.key] = 0
    BY <2>2, <1>2, <1>4, <1>8, <1>10 DEF OneGoalInv, OneCaller
  <2> QED
    BY <2>1, <2>2 DEF OneCaller
<1>13. CallersRecorded'
  <2>1. KeyRecorded(e.key)'
    BY <1>2, <1>4, <1>5 DEF KeyRecorded
  <2>2. ASSUME NEW j \in Handlers, Pending(j)'
        PROVE  KeyRecorded(frame[j].event.key)'
    BY <2>1, <2>2, <1>2, <1>4, <1>10, <1>11 DEF OneGoalInv, CallersRecorded
  <2>3. \A k \in Keys : goals'[k] = 1 => KeyRecorded(k)'
    BY <1>11 DEF OneGoalInv, CallersRecorded
  <2> QED
    BY <2>2, <2>3 DEF CallersRecorded
<1>14. KeysKnown'
  BY <1>5 DEF OneGoalInv, KeysKnown
<1> QED
  BY <1>4, <1>5, <1>12, <1>13, <1>14 DEF OneGoalInv

LEMMA RecordStep ==
  ASSUME OneGoalInv, NEW h \in Handlers, RecordEvent(h)
  PROVE  OneGoalInv'
<1> DEFINE e == frame[h].event
<1>1. CASE IsDuplicate(e)
  <2> DEFINE f == [frame[h] EXCEPT !.at = "route", !.deduped = TRUE]
  <2>1. frame[h] # Idle /\ FrameShape(frame[h])
    BY DEF RecordEvent, At, Idle, OneGoalInv, FramesOK
  <2>2. FrameShape(f) /\ f.at = "route" /\ f.deduped = TRUE
    BY <2>1, DedupedShape
  <2>3. /\ frame' = [frame EXCEPT ![h].at = "route", ![h].deduped = TRUE]
        /\ UNCHANGED <<disk, up, keys, goals>>
    BY <1>1 DEF RecordEvent, memory, durable, world
  <2>4. frame' = [frame EXCEPT ![h] = f]
    BY <2>3 DEF OneGoalInv, FramesOK
  <2> HIDE DEF f
  <2> QED
    BY <2>2, <2>3, <2>4, CalmFrame, QuietStep DEF OneGoalInv
<1>2. CASE ~IsDuplicate(e) /\ Write(EventEntry(e)) /\ Goto(h, "route")
           /\ keys' = keys \cup {e.key}
  BY <1>2, FirstDelivery DEF RecordEvent, world
<1>3. CASE Answers(h, "error") /\ keys' = KeysAfterFailure(e) /\ UNCHANGED durable
  <2>1. UNCHANGED <<disk, up, goals>> /\ keys \subseteq keys'
    BY <1>3 DEF RecordEvent, durable, world, KeysAfterFailure
  <2>2. /\ FramesOK'
        /\ \A j \in Handlers :
               Pending(j)' => Pending(j) /\ frame'[j].event = frame[j].event
    BY <1>3, AnswerFrame DEF OneGoalInv
  <2>3. RecordedEvents' = RecordedEvents
    BY <2>1 DEF RecordedEvents, Entries
  <2>4. Calm
    BY <2>1, <2>2, <2>3 DEF Calm
  <2>5. KeysKnown'
    BY <2>1, <2>3 DEF OneGoalInv, KeysKnown
  <2>6. IsFile(disk')
    BY <2>1 DEF OneGoalInv
  <2> QED
    BY <2>2, <2>4, <2>5, <2>6, CalmKeeps DEF OneGoalInv
<1> QED
  BY <1>1, <1>2, <1>3 DEF RecordEvent

LEMMA RouteStep ==
  ASSUME OneGoalInv, NEW h \in Handlers, RouteEvent(h)
  PROVE  OneGoalInv'
<1> DEFINE FramesCalm ==
             /\ FramesOK'
             /\ \A j \in Handlers :
                    Pending(j)' => Pending(j) /\ frame'[j].event = frame[j].event
<1>1. FramesOK /\ frame[h] # Idle /\ frame[h].at = "route"
  BY DEF RouteEvent, At, Idle, OneGoalInv
<1>2. ASSUME Finish(h) PROVE FramesCalm
  BY <1>1, <1>2, FinishFrame
<1>3. ASSUME NEW t, Hold(h, t) PROVE FramesCalm
  BY <1>1, <1>3, HoldFrame DEF Hold
<1>4. ASSUME RouteDuplicate(h) PROVE FramesCalm
  <2>1. CASE frame' = [frame EXCEPT ![h].at = "project",
                                    ![h].trigger = LastTrigger(frame[h].event)]
    BY <1>1, <2>1, HoldFrame
  <2> QED
    BY <1>2, <1>3, <1>4, <2>1 DEF RouteDuplicate
<1>5. ASSUME ~frame[h].deduped, Goto(h, "submit") PROVE FramesCalm
  <2> DEFINE f == [frame[h] EXCEPT !.at = "submit"]
  <2>1. FrameShape(f) /\ f.at = "submit" /\ f.event = frame[h].event
    BY <1>1 DEF FramesOK, FrameShape
  <2>2. frame' = [frame EXCEPT ![h] = f]
    BY <1>1, <1>5 DEF Goto, FramesOK
  <2>3. Pending(h)
    BY <1>1, <1>5 DEF Pending
  <2> HIDE DEF f
  <2> QED
    BY <1>1, <2>1, <2>2, <2>3, CalmFrame
<1>6. FramesCalm
  <2> HIDE DEF FramesCalm
  <2>1. \/ Finish(h)
        \/ RouteDuplicate(h)
        \/ \E t : Hold(h, t)
        \/ ~frame[h].deduped /\ Goto(h, "submit")
    BY Zenon DEF RouteEvent, RouteFirst, Deduped
  <2> QED
    BY <1>2, <1>3, <1>4, <1>5, <2>1
<1>7. UNCHANGED <<disk, up, keys, goals>>
  BY DEF RouteEvent, memory, durable, world
<1> QED
  BY <1>6, <1>7, QuietStep

LEMMA SubmitStep ==
  ASSUME OneGoalInv, NEW h \in Handlers, Submit(h)
  PROVE  OneGoalInv'
<1> DEFINE e == frame[h].event
<1>1. FramesOK /\ frame[h] # Idle /\ frame[h].at = "submit"
  BY DEF Submit, At, Idle, OneGoalInv
<1>2. PICK outcome \in SubmitOutcomes :
        /\ goals' = IF outcome = "refused" THEN goals
                    ELSE [goals EXCEPT ![e.key] = @ + 1]
        /\ Hold(h, NewTrigger(e, IF outcome = "taken" THEN "Submitted" ELSE "Failed",
                              TRUE))
  BY DEF Submit
<1>3. /\ FramesOK'
      /\ \A j \in Handlers :
             Pending(j)' => Pending(j) /\ frame'[j].event = frame[j].event
  BY <1>1, <1>2, HoldFrame DEF Hold
<1>4. UNCHANGED <<disk, up, keys>>
  BY DEF Submit, memory, durable
<1>5. CASE outcome = "refused"
  BY <1>2, <1>3, <1>4, <1>5, QuietStep
<1>6. CASE outcome # "refused"
  <2>1. Pending(h) /\ e \in Events /\ e.key \in Keys
    BY <1>1 DEF Pending, FramesOK, FrameShape, Keys
  <2>2. goals[e.key] = 0 /\ goals \in [Keys -> {0, 1}]
    BY <2>1 DEF OneGoalInv, OneCaller
  <2>3. goals' = [goals EXCEPT ![e.key] = 1]
    BY <1>2, <1>6, <2>1, <2>2
  <2>4. ~Pending(h)'
    <3>1. frame'[h].at = "store"
      BY <1>1, <1>2 DEF Hold, FramesOK, FrameShape
    <3> QED
      BY <3>1 DEF Pending
  <2>5. RecordedEvents' = RecordedEvents
    BY <1>4 DEF RecordedEvents, Entries
  <2>6. \A k : KeyRecorded(k)' <=> KeyRecorded(k)
    BY <2>5 DEF KeyRecorded
  <2>7. OneCaller'
    <3>1. ASSUME NEW i \in Handlers, NEW j \in Handlers, Pending(i)', Pending(j)',
                 frame'[i].event.key = frame'[j].event.key
          PROVE  i = j
      BY <1>3, <3>1 DEF OneGoalInv, OneCaller
    <3>2. ASSUME NEW j \in Handlers, Pending(j)'
          PROVE  goals'[frame'[j].event.key] = 0
      <4>1. j # h /\ Pending(j) /\ frame'[j].event = frame[j].event
        BY <1>3, <2>4, <3>2
      <4>2. frame[j].event.key # e.key /\ goals[frame[j].event.key] = 0
        BY <2>1, <4>1 DEF OneGoalInv, OneCaller
      <4> QED
        BY <2>2, <2>3, <4>1, <4>2
    <3> QED
      BY <3>1, <3>2 DEF OneCaller
  <2>8. CallersRecorded'
    <3>1. ASSUME NEW j \in Handlers, Pending(j)'
          PROVE  KeyRecorded(frame[j].event.key)'
      BY <1>3, <2>6, <3>1 DEF OneGoalInv, CallersRecorded
    <3>2. ASSUME NEW k \in Keys, goals'[k] = 1 PROVE KeyRecorded(k)'
      BY <2>1, <2>2, <2>3, <2>6, <3>2 DEF OneGoalInv, CallersRecorded
    <3> QED
      BY <3>1, <3>2 DEF CallersRecorded
  <2>9. KeysKnown'
    BY <1>4, <2>5 DEF OneGoalInv, KeysKnown
  <2>10. goals' \in [Keys -> {0, 1}]
    BY <2>1, <2>2, <2>3
  <2> QED
    BY <1>3, <1>4, <2>7, <2>8, <2>9, <2>10 DEF OneGoalInv
<1> QED
  BY <1>5, <1>6

LEMMA WorkStep ==
  ASSUME OneGoalInv, NEW h \in Handlers, Work(h)
  PROVE  OneGoalInv'
<1>1. CASE RecordEvent(h) \/ RouteEvent(h) \/ Submit(h)
  BY <1>1, RecordStep, RouteStep, SubmitStep
<1>2. FramesOK
  BY DEF OneGoalInv
<1>3. CASE StoreTrigger(h)
  <2>1. frame[h] # Idle /\ UNCHANGED <<up, keys, goals>>
    BY <1>3 DEF StoreTrigger, At, Idle, memory, world
  <2>2. CASE Write(TriggerEntry(frame[h].trigger)) /\ Goto(h, "push")
    <3>1. TriggerEntry(frame[h].trigger).kind # "event"
      BY DEF TriggerEntry
    <3> QED
      BY <1>2, <2>1, <2>2, <3>1, GotoFrame, WriteStep
  <2>3. CASE Answers(h, "error") /\ UNCHANGED durable
    BY <1>2, <2>1, <2>3, AnswerFrame, QuietStep DEF durable
  <2> QED
    BY <1>3, <2>2, <2>3 DEF StoreTrigger
<1>4. CASE PushTrigger(h)
  <2>1. frame[h] # Idle /\ UNCHANGED <<disk, up, keys, goals>>
    BY <1>4 DEF PushTrigger, At, Idle, durable, world
  <2>2. Goto(h, "project") \/ Finish(h)
    BY <1>4 DEF PushTrigger
  <2> QED
    BY <1>2, <2>1, <2>2, GotoFrame, FinishFrame, QuietStep
<1>5. CASE ProjectTrigger(h)
  <2>1. frame[h] # Idle /\ UNCHANGED <<disk, up, keys, goals>>
    BY <1>5 DEF ProjectTrigger, At, Idle, durable, memory
  <2>2. Goto(h, "mark") \/ Answers(h, "error") \/ Finish(h)
    BY <1>5 DEF ProjectTrigger
  <2> QED
    BY <1>2, <2>1, <2>2, GotoFrame, AnswerFrame, FinishFrame, QuietStep
<1>6. CASE MarkProjected(h)
  <2>1. frame[h] # Idle /\ UNCHANGED <<disk, up, keys, goals>> /\ Finish(h)
    BY <1>6 DEF MarkProjected, At, Idle, durable, world
  <2> QED
    BY <1>2, <2>1, FinishFrame, QuietStep
<1>7. CASE DeleteMessage(h)
  <2>1. UNCHANGED <<disk, up, keys, goals>> /\ Answers(h, "ok")
    BY <1>7 DEF DeleteMessage, durable, memory
  <2> QED
    BY <1>2, <2>1, AnswerFrame, QuietStep
<1> QED
  BY <1>1, <1>3, <1>4, <1>5, <1>6, <1>7 DEF Work

LEMMA BeginStep ==
  ASSUME OneGoalInv, NEW h \in Handlers, NEW e \in Events, NEW via, NEW sqs,
         Begin(h, e, via, sqs)
  PROVE  OneGoalInv'
<1> DEFINE f == [at |-> "record", event |-> e, via |-> via, sqs |-> sqs,
                 deduped |-> FALSE, trigger |-> NewTrigger(e, "Recorded", FALSE)]
<1>1. FrameShape(f) /\ f.at = "record"
  BY DEF FrameShape
<1>2. frame' = [frame EXCEPT ![h] = f] /\ UNCHANGED <<disk, up, keys, goals>>
  BY DEF Begin, memory, durable, world
<1> HIDE DEF f
<1> QED
  BY <1>1, <1>2, CalmFrame, QuietStep DEF OneGoalInv

LEMMA RequestStep ==
  ASSUME OneGoalInv, queue \subseteq Events, NEW h \in Handlers, Request(h)
  PROVE  OneGoalInv'
<1>1. \E e \in Events : \E via, sqs : Begin(h, e, via, sqs)
  BY Zenon DEF Request, Ingest, SqsPoll, TriggerGoal
<1> QED
  BY <1>1, BeginStep

\* Messages leave the queue and never enter it.
LEMMA QueueShrinks == [Next]_vars => queue' \subseteq queue
<1> SUFFICES ASSUME [Next]_vars PROVE queue' \subseteq queue
  OBVIOUS
<1>1. ASSUME NEW h \in Handlers, Request(h) PROVE queue' \subseteq queue
  BY <1>1 DEF Request, Ingest, SqsPoll, TriggerGoal, Begin, world
<1>2. ASSUME NEW h \in Handlers, Work(h) PROVE queue' \subseteq queue
  BY <1>2 DEF Work, RecordEvent, RouteEvent, Submit, StoreTrigger, PushTrigger,
              ProjectTrigger, MarkProjected, DeleteMessage, world
<1>3. CASE RegisterSource \/ WriteNewline \/ Crash \/ Start \/ Quiescent
  BY <1>3 DEF RegisterSource, WriteNewline, Crash, Start, Quiescent, vars, world
<1>4. CASE UNCHANGED vars
  BY <1>4 DEF vars, world
<1> QED
  BY <1>1, <1>2, <1>3, <1>4 DEF Next

LEMMA ProcessStep ==
  ASSUME OneGoalInv,
         RegisterSource \/ WriteNewline \/ Crash \/ Start \/ Quiescent
  PROVE  OneGoalInv'
<1>1. FramesOK /\ IsFile(disk)
  BY DEF OneGoalInv
<1>2. CASE RegisterSource
  <2>1. PICK r : Write(SourceEntry(r))
    BY <1>2 DEF RegisterSource
  <2>2. SourceEntry(r).kind # "event"
    BY DEF SourceEntry
  <2>3. UNCHANGED <<up, keys, frame, goals>>
    BY <1>2 DEF RegisterSource, world
  <2> QED
    BY <1>1, <2>1, <2>2, <2>3, SameFrames, WriteStep
<1>3. CASE WriteNewline
  <2>1. disk' = Append(disk, Newline) /\ UNCHANGED <<up, keys, frame, goals>>
    BY <1>3 DEF WriteNewline, memory, world
  <2>2. Newline.kind # "event"
    BY DEF Newline
  <2>3. IsFile(disk') /\ RecordedEvents' = RecordedEvents
    BY <1>1, <2>1, <2>2, AppendRecords
  <2>4. Calm /\ FramesOK'
    BY <1>1, <2>1, <2>3, SameFrames DEF Calm
  <2>5. KeysKnown'
    BY <2>1, <2>3 DEF OneGoalInv, KeysKnown
  <2> QED
    BY <2>3, <2>4, <2>5, CalmKeeps DEF OneGoalInv
<1>4. CASE Crash
  <2>1. /\ ~up' /\ UNCHANGED <<disk, goals>>
        /\ frame' = [h \in Handlers |-> Idle]
    BY <1>4 DEF Crash, world
  <2>2. FramesOK' /\ \A h \in Handlers : ~Pending(h)'
    BY <2>1, IdleShape DEF FramesOK, Pending
  <2>3. RecordedEvents' = RecordedEvents
    BY <2>1 DEF RecordedEvents, Entries
  <2>4. Calm
    BY <2>1, <2>2, <2>3 DEF Calm
  <2>5. KeysKnown' /\ IsFile(disk')
    BY <1>1, <2>1 DEF KeysKnown
  <2> QED
    BY <2>2, <2>4, <2>5, CalmKeeps DEF OneGoalInv
<1>5. CASE Start
  <2>1. UNCHANGED <<disk, frame, goals>> /\ keys' = ReplayedKeys
    BY <1>5 DEF Start, durable, world
  <2>2. RecordedEvents' = RecordedEvents
    BY <2>1 DEF RecordedEvents, Entries
  <2>3. Calm /\ FramesOK'
    BY <1>1, <2>1, <2>2, SameFrames DEF Calm
  <2>4. KeysKnown' /\ IsFile(disk')
    BY <1>1, <2>1, <2>2 DEF KeysKnown, ReplayedKeys
  <2> QED
    BY <2>3, <2>4, CalmKeeps DEF OneGoalInv
<1>6. CASE Quiescent
  BY <1>1, <1>6, SameFrames, QuietStep DEF Quiescent, vars, memory, durable, world
<1> QED
  BY <1>2, <1>3, <1>4, <1>5, <1>6

LEMMA InitOneGoal == Init => OneGoalInv
<1> SUFFICES ASSUME Init PROVE OneGoalInv
  OBVIOUS
<1>1. FramesOK /\ \A h \in Handlers : ~Pending(h)
  BY IdleShape DEF Init, FramesOK, Pending
<1>2. goals \in [Keys -> {0, 1}] /\ \A k \in Keys : goals[k] = 0
  BY DEF Init
<1>3. IsFile(disk) /\ \A j \in 1..Len(disk) : disk[j].kind # "event"
  <2>1. CASE disk = <<>>
    <3>1. disk \in Seq({}) /\ Len(disk) = 0
      BY <2>1
    <3> QED
      BY <3>1 DEF IsFile
  <2>2. CASE disk = <<SourceEntry(InitialRoute), Newline>>
    <3>1. disk \in Seq({SourceEntry(InitialRoute), Newline}) /\ Len(disk) = 2
      BY <2>2
    <3>2. disk[1].kind = "source" /\ disk[2].kind = "newline"
      BY <2>2 DEF SourceEntry, Newline
    <3> QED
      BY <3>1, <3>2 DEF IsFile
  <2>3. CASE disk = <<SourceEntry(InitialRoute)>>
    <3>1. disk \in Seq({SourceEntry(InitialRoute)}) /\ Len(disk) = 1
      BY <2>3
    <3>2. disk[1].kind = "source"
      BY <2>3 DEF SourceEntry
    <3> QED
      BY <3>1, <3>2 DEF IsFile
  <2> QED
    BY <2>1, <2>2, <2>3 DEF Init
<1>4. RecordedEvents = {}
  BY <1>3, RecordedMember
<1> QED
  BY <1>1, <1>2, <1>3, <1>4
     DEF OneGoalInv, OneCaller, CallersRecorded, KeysKnown

\* However the deliveries of a dedupe key interleave with each other, with
\* failing writes, lost answers, crashes and replays, Restate takes at most
\* one goal or steering call for it: record_event lets one delivery per key
\* through, and what it let through is on disk before trigger_goal_inner
\* calls Restate.
THEOREM AtMostOneGoalHolds == Spec => []AtMostOneGoal
<1> DEFINE Inv == OneGoalInv /\ queue \subseteq Events
<1>1. Init => Inv
  BY InitOneGoal DEF Init
<1>2. Inv /\ [Next]_vars => Inv'
  <2> SUFFICES ASSUME Inv, [Next]_vars PROVE OneGoalInv'
    BY QueueShrinks
  <2>1. ASSUME NEW h \in Handlers, Request(h) \/ Work(h) PROVE OneGoalInv'
    BY <2>1, RequestStep, WorkStep
  <2>2. CASE RegisterSource \/ WriteNewline \/ Crash \/ Start \/ Quiescent
    BY <2>2, ProcessStep
  <2>3. CASE UNCHANGED vars
    BY <2>3, SameFrames, QuietStep DEF OneGoalInv, vars, memory, durable, world
  <2> QED
    BY <2>1, <2>2, <2>3 DEF Next
<1>3. Inv => AtMostOneGoal
  BY DEF OneGoalInv, AtMostOneGoal
<1> QED
  BY <1>1, <1>2, <1>3, PTL DEF Spec

-----------------------------------------------------------------------------
(* What a trigger says is true. *)

\* A trigger that says Submitted has its goal, one marked as projected is in
\* the goal store.
Sound(t) ==
    /\ t \in Trigger
    /\ t.status = "Submitted" => goals[t.event.key] = 1
    /\ t.delivered => Projection(t) \in projected

DiskTrue == \A k \in 1..Len(disk) : disk[k].kind = "trigger" => Sound(disk[k].trigger)

TriggersTrue == IsFile(triggers) /\ \A k \in 1..Len(triggers) : Sound(triggers[k])

FrameTrue(f) ==
    f = Idle \/ /\ Sound(f.trigger)
                /\ f.at = "mark" => Projection(f.trigger) \in projected

FramesTrue == \A h \in Handlers : FrameTrue(frame[h])

TruthInv == DiskTrue /\ TriggersTrue /\ FramesTrue

\* Restate's goals and the goal store's projections stay.
Grows == /\ \A k \in Keys : goals[k] = 1 => goals'[k] = 1
         /\ projected \subseteq projected'

LEMMA SoundStays ==
  ASSUME Grows
  PROVE  \A t : Sound(t) => Sound(t)'
  BY DEF Grows, Sound, Trigger, Keys

LEMMA NewSound ==
  ASSUME NEW e \in Events, NEW s \in Statuses, NEW g \in BOOLEAN,
         s = "Submitted" => goals[e.key] = 1
  PROVE  Sound(NewTrigger(e, s, g))
  BY DEF Sound, NewTrigger, Trigger

\* One handler takes a step and the others' frames stay true.
LEMMA FrameTrueStep ==
  ASSUME NEW h \in Handlers, FramesOK, FramesTrue, Grows, NEW f, FrameTrue(f)',
         frame' = [frame EXCEPT ![h] = f]
  PROVE  FramesTrue'
<1>1. ASSUME NEW j \in Handlers PROVE FrameTrue(frame[j])'
  <2>1. CASE j = h
    <3>1. frame'[j] = f
      BY <2>1 DEF FramesOK
    <3> QED BY <3>1 DEF FrameTrue
  <2>2. CASE j # h
    <3>1. frame'[j] = frame[j]
      BY <2>2 DEF FramesOK
    <3>2. FrameTrue(frame[j])
      BY DEF FramesTrue
    <3> QED BY <3>1, <3>2, SoundStays DEF FrameTrue, Grows
  <2> QED BY <2>1, <2>2
<1> QED BY <1>1 DEF FramesTrue

LEMMA AnswerTrue ==
  ASSUME NEW h \in Handlers, NEW a, FramesOK, FramesTrue, Grows, Answers(h, a)
  PROVE  FramesTrue'
<1>1. \A f : f = Idle => FrameTrue(f)'
  BY DEF FrameTrue
<1> QED BY <1>1, FrameTrueStep DEF Answers

LEMMA GotoTrue ==
  ASSUME NEW h \in Handlers, NEW s, FramesOK, FramesTrue, Grows, frame[h] # Idle, Goto(h, s),
         s = "mark" => Projection(frame[h].trigger) \in projected'
  PROVE  FramesTrue'
<1>1. PICK f : f = [frame[h] EXCEPT !.at = s]
  OBVIOUS
<1>2. f.at = s /\ f.trigger = frame[h].trigger
  BY <1>1 DEF FramesOK, FrameShape
<1>3. Sound(f.trigger)'
  BY <1>2, SoundStays DEF FramesTrue, FrameTrue
<1>4. Projection(f.trigger)' = Projection(f.trigger)
  BY DEF Projection
<1>5. FrameTrue(f)'
  BY <1>2, <1>3, <1>4 DEF FrameTrue
<1>6. frame' = [frame EXCEPT ![h] = f]
  BY <1>1 DEF Goto, FramesOK
<1> QED BY <1>5, <1>6, FrameTrueStep

LEMMA FinishTrue ==
  ASSUME NEW h \in Handlers, FramesOK, FramesTrue, Grows, frame[h] # Idle, Finish(h)
  PROVE  FramesTrue'
  BY GotoTrue, AnswerTrue DEF Finish

LEMMA HoldTrue ==
  ASSUME NEW h \in Handlers, NEW s \in {"store", "project"}, NEW t,
         FramesOK, FramesTrue, Grows, frame[h] # Idle, Sound(t)',
         frame' = [frame EXCEPT ![h].at = s, ![h].trigger = t]
  PROVE  FramesTrue'
<1>1. PICK f : f = [frame[h] EXCEPT !.at = s, !.trigger = t]
  OBVIOUS
<1>2. f.at = s /\ f.trigger = t
  BY <1>1 DEF FramesOK, FrameShape
<1>3. FrameTrue(f)'
  BY <1>2 DEF FrameTrue
<1>4. frame' = [frame EXCEPT ![h] = f]
  BY <1>1 DEF FramesOK
<1> QED BY <1>3, <1>4, FrameTrueStep
-----------------------------------------------------------------------------
(* The lines a write leaves, the last trigger and the replayed ones *)

\* A write adds the entry and makes up no other line.
LEMMA WriteLines ==
  ASSUME IsFile(disk), NEW entry, Write(entry)
  PROVE  \A k \in 1..Len(disk') : disk'[k] = entry \/ \E j \in 1..Len(disk) : disk'[k] = disk[j]
<1>1. PICK S : disk \in Seq(S)
  BY DEF IsFile
<1>2. CASE disk' = Append(disk, entry)
  <2>1. Len(disk') = Len(disk) + 1 /\ Len(disk) \in Nat /\ disk'[Len(disk) + 1] = entry
        /\ \A k \in 1..Len(disk) : disk'[k] = disk[k]
    BY <1>1, <1>2
  <2> QED BY <2>1
<1>3. CASE disk' = [k \in DOMAIN disk |-> IF Replaces(entry, disk[k]) THEN entry ELSE disk[k]]
  <2>1. DOMAIN disk = 1..Len(disk) /\ Len(disk) \in Nat
    BY <1>1
  <2>2. disk' \in Seq(S \cup {entry}) /\ Len(disk') = Len(disk)
    <3>1. \A k \in DOMAIN disk : disk[k] \in S
      BY <1>1
    <3>2. disk' \in [1..Len(disk) -> S \cup {entry}]
      BY <1>3, <2>1, <3>1
    <3> QED BY <2>1, <3>2
  <2> QED BY <1>3, <2>1, <2>2
<1> QED BY <1>2, <1>3 DEF Write, Upsert

LEMMA DiskTrueWrite ==
  ASSUME IsFile(disk), DiskTrue, Grows, NEW entry, Write(entry),
         entry.kind = "trigger" => Sound(entry.trigger)
  PROVE  DiskTrue'
<1>1. ASSUME NEW k \in 1..Len(disk'), disk'[k].kind = "trigger" PROVE Sound(disk[k].trigger)'
  <2>1. PICK t : t = disk'[k].trigger
    OBVIOUS
  <2>2. Sound(t)
    BY <1>1, <2>1, WriteLines DEF DiskTrue
  <2>3. Sound(t)'
    BY <2>2, SoundStays
  <2> QED BY <2>1, <2>3 DEF Sound
<1> QED BY <1>1 DEF DiskTrue

\* The library's minimum of a set of naturals, seen from above.
LEMMA Greatest ==
  ASSUME NEW n \in Nat, NEW S \in SUBSET (1..n), S # {}
  PROVE  \E m \in S : \A j \in S : j <= m
<1> DEFINE R == OpToRel(<, Nat)
           T == {n - k : k \in S}
<1>1. IsWellFoundedOn(R, Nat)
  BY NatLessThanWellFounded
<1>2. T \subseteq Nat /\ T # {}
  <2>1. \A k \in S : k \in 1..n /\ n - k \in Nat
    OBVIOUS
  <2>2. PICK k \in S : TRUE
    OBVIOUS
  <2>3. n - k \in T
    BY <2>2
  <2> QED BY <2>1, <2>3
<1>3. PICK x \in T : \A y \in T : ~(<<y, x>> \in R)
  <2> HIDE DEF R, T
  <2> QED BY <1>1, <1>2, WFMin
<1>4. PICK m \in S : x = n - m
  OBVIOUS
<1>5. ASSUME NEW j \in S PROVE j <= m
  <2>1. n - j \in T /\ n - j \in Nat /\ x \in Nat
    BY <1>2
  <2>2. ~(n - j < x)
    BY <1>3, <2>1 DEF OpToRel
  <2>3. j \in Nat /\ m \in Nat
    OBVIOUS
  <2> QED BY <1>4, <2>2, <2>3
<1> QED BY <1>5

\* CHOOSE finds the last index of a set of triggers.
LEMMA LastIndex ==
  ASSUME IsFile(triggers), NEW S \in SUBSET DOMAIN triggers, S # {}
  PROVE  (CHOOSE k \in S : \A j \in S : j <= k) \in S
<1>1. PICK D : triggers \in Seq(D)
  BY DEF IsFile
<1>2. Len(triggers) \in Nat /\ S \subseteq 1..Len(triggers)
  BY <1>1
<1>3. \E k \in S : \A j \in S : j <= k
  BY <1>2, Greatest
<1> QED BY <1>3, Zenon

LEMMA LastTriggerSound ==
  ASSUME TriggersTrue, NEW e, TriggersOf(e) # {}
  PROVE  Sound(LastTrigger(e))
<1> DEFINE S == TriggersOf(e)
           k == CHOOSE i \in S : \A j \in S : j <= i
<1>1. S \subseteq DOMAIN triggers
  BY DEF TriggersOf
<1>2. k \in S
  <2> HIDE DEF S
  <2> QED BY <1>1, LastIndex DEF TriggersTrue, S
<1>3. LastTrigger(e) = triggers[k]
  BY DEF LastTrigger
<1>4. PICK D : triggers \in Seq(D)
  BY DEF TriggersTrue, IsFile
<1>5. DOMAIN triggers = 1..Len(triggers)
  BY <1>4
<1> HIDE DEF k, S
<1> QED BY <1>1, <1>2, <1>3, <1>5 DEF TriggersTrue

LEMMA SetInduction ==
  ASSUME NEW S, 0 \in S, \A n \in Nat : n \in S => n + 1 \in S
  PROVE  Nat \subseteq S
<1> DEFINE R == OpToRel(<, Nat)
           T == Nat \ S
<1>1. IsWellFoundedOn(R, Nat)
  BY NatLessThanWellFounded
<1> SUFFICES ASSUME T # {} PROVE FALSE
  OBVIOUS
<1>2. PICK x \in T : \A y \in T : ~(<<y, x>> \in R)
  <2> HIDE DEF R, T
  <2>1. T \subseteq Nat
     BY DEF T
  <2> QED BY <1>1, <2>1, WFMin
<1>3. x # 0 /\ x - 1 \in Nat /\ x - 1 < x
  OBVIOUS
<1>4. <<x - 1, x>> \in R
  BY <1>3 DEF OpToRel
<1>5. x - 1 \in S
  BY <1>2, <1>3, <1>4
<1> QED BY <1>3, <1>5

\* The reading of the first m lines.
Reading(f, m, kind) ==
    f = [n \in 0..m |->
            IF n = 0 THEN <<>>
            ELSE IF disk[n].kind = kind THEN Append(f[n - 1], disk[n]) ELSE f[n - 1]]

LEMMA ReadingExists ==
  ASSUME NEW kind, NEW m \in Nat
  PROVE  \E f : Reading(f, m, kind)
<1> DEFINE S == {n \in Nat : \E f : Reading(f, n, kind)}
<1>1. 0 \in S
  <2> DEFINE f == [n \in 0..0 |-> <<>>]
  <2>1. Reading(f, 0, kind)
    BY DEF Reading
  <2> QED BY <2>1
<1>2. ASSUME NEW n \in Nat, n \in S PROVE n + 1 \in S
  <2>1. PICK f : Reading(f, n, kind)
    BY <1>2
  <2> DEFINE next(s, i) == IF disk[i].kind = kind THEN Append(s, disk[i]) ELSE s
             g == [i \in 0..n + 1 |-> IF i = n + 1 THEN next(f[n], i) ELSE f[i]]
             h == [i \in 0..n + 1 |-> IF i = 0 THEN <<>> ELSE next(g[i - 1], i)]
  <2>2. \A i \in 0..n : f[i] = IF i = 0 THEN <<>> ELSE next(f[i - 1], i)
    BY <2>1 DEF Reading
  <2> HIDE DEF next
  <2>3. ASSUME NEW i \in 0..n + 1 PROVE g[i] = h[i]
    <3>1. CASE i = 0
      BY <2>2, <3>1
    <3>2. CASE i = n + 1
      BY <3>2
    <3>3. CASE i \in 1..n
      <4>1. g[i] = f[i] /\ g[i - 1] = f[i - 1] /\ i # 0 /\ i \in 0..n
        BY <3>3
      <4> QED BY <2>2, <4>1
    <3> QED BY <3>1, <3>2, <3>3
  <2>4. g = h
    BY <2>3
  <2>5. g = [i \in 0..n + 1 |-> IF i = 0 THEN <<>> ELSE next(g[i - 1], i)]
    BY <2>4
  <2> HIDE DEF g, h
  <2>6. Reading(g, n + 1, kind)
    BY <2>5 DEF Reading, next
  <2> QED BY <2>6
<1> HIDE DEF S
<1>3. Nat \subseteq S
  BY <1>1, <1>2, SetInduction
<1> QED BY <1>3 DEF S

\* Every line that is listed is a line of the file, of that kind.
LEMMA ListedIs ==
  ASSUME IsFile(disk), NEW kind
  PROVE  /\ IsFile(Listed(kind))
         /\ \A k \in 1..Len(Listed(kind)) :
               \E j \in 1..Len(disk) : Listed(kind)[k] = disk[j] /\ disk[j].kind = kind
<1> DEFINE N == Len(disk)
           L == {disk[j] : j \in {i \in 1..N : disk[i].kind = kind}}
           f == CHOOSE x : Reading(x, N, kind)
<1>1. N \in Nat
  BY DEF IsFile
<1>2. Reading(f, N, kind)
  BY <1>1, ReadingExists, Zenon
<1>3. Listed(kind) = f[N]
  BY DEF Listed, Reading
<1> HIDE DEF f
<1>4. \A n \in 0..N : f[n] = IF n = 0 THEN <<>>
                            ELSE IF disk[n].kind = kind THEN Append(f[n - 1], disk[n]) ELSE f[n - 1]
  BY <1>2 DEF Reading
<1> DEFINE S == {n \in Nat : n <= N => f[n] \in Seq(L)}
<1>5. 0 \in S
  <2>1. f[0] = <<>>
    BY <1>1, <1>4
  <2> HIDE DEF L
  <2>2. f[0] \in Seq(L)
    BY <2>1
  <2> QED BY <2>2
<1>6. ASSUME NEW n \in Nat, n \in S PROVE n + 1 \in S
  <2> SUFFICES ASSUME n + 1 <= N PROVE f[n + 1] \in Seq(L)
    BY <1>6
  <2>1. n + 1 \in 1..N /\ n + 1 \in 0..N /\ n + 1 # 0 /\ (n + 1) - 1 = n
    BY <1>1
  <2>2. f[n] \in Seq(L)
    BY <1>1, <1>6
  <2>3. f[n + 1] = IF disk[n + 1].kind = kind THEN Append(f[n], disk[n + 1]) ELSE f[n]
    BY <1>4, <2>1
  <2>4. disk[n + 1].kind = kind => disk[n + 1] \in L
    BY <2>1
  <2> HIDE DEF L
  <2> QED BY <2>2, <2>3, <2>4
<1>7. f[N] \in Seq(L)
  <2> HIDE DEF S
  <2>1. N \in S
    BY <1>1, <1>5, <1>6, SetInduction
  <2> QED BY <1>1, <2>1 DEF S
<1>8. \A k \in 1..Len(f[N]) : f[N][k] \in L
  <2> HIDE DEF L
  <2> QED BY <1>7
<1> QED BY <1>3, <1>7, <1>8 DEF IsFile
-----------------------------------------------------------------------------
(* The steps keep what triggers say true. *)

LEMMA SameWorldGrows == UNCHANGED <<goals, projected>> => Grows
  BY DEF Grows

LEMMA TruthQuiet ==
  ASSUME TruthInv, Grows, UNCHANGED <<disk, triggers>>, FramesTrue'
  PROVE  TruthInv'
<1>1. ASSUME NEW k \in 1..Len(disk), disk[k].kind = "trigger" PROVE Sound(disk[k].trigger)'
  <2>1. PICK t : t = disk[k].trigger
    OBVIOUS
  <2>2. Sound(t)'
    BY <1>1, <2>1, SoundStays DEF TruthInv, DiskTrue
  <2>3. disk'[k].trigger = t
    BY <2>1
  <2> QED BY <2>2, <2>3 DEF Sound
<1>2. ASSUME NEW k \in 1..Len(triggers) PROVE Sound(triggers[k])'
  <2>1. PICK t : t = triggers[k]
    OBVIOUS
  <2>2. Sound(t)'
    BY <2>1, SoundStays DEF TruthInv, TriggersTrue
  <2>3. triggers'[k] = t
    BY <2>1
  <2> QED BY <2>2, <2>3 DEF Sound
<1>3. DiskTrue'
  BY <1>1 DEF DiskTrue
<1>4. TriggersTrue'
  BY <1>2 DEF TriggersTrue, TruthInv
<1> QED BY <1>3, <1>4 DEF TruthInv

LEMMA TruthWrite ==
  ASSUME TruthInv, IsFile(disk), Grows, triggers' = triggers, FramesTrue',
         NEW entry, Write(entry), entry.kind = "trigger" => Sound(entry.trigger)
  PROVE  TruthInv'
<1>1. DiskTrue'
  BY DiskTrueWrite DEF TruthInv
<1>2. ASSUME NEW k \in 1..Len(triggers) PROVE Sound(triggers[k])'
  <2>1. PICK t : t = triggers[k]
    OBVIOUS
  <2>2. Sound(t)'
    BY <2>1, SoundStays DEF TruthInv, TriggersTrue
  <2>3. triggers'[k] = t
    BY <2>1
  <2> QED BY <2>2, <2>3 DEF Sound
<1>3. TriggersTrue'
  BY <1>2 DEF TriggersTrue, TruthInv
<1> QED BY <1>1, <1>3 DEF TruthInv

LEMMA RecordTruth ==
  ASSUME OneGoalInv, TruthInv, NEW h \in Handlers, RecordEvent(h)
  PROVE  TruthInv'
<1> DEFINE e == frame[h].event
<1>1. FramesOK /\ FramesTrue /\ IsFile(disk) /\ frame[h] # Idle
  BY DEF OneGoalInv, TruthInv, RecordEvent, At, Idle
<1>2. Grows /\ triggers' = triggers
  BY SameWorldGrows DEF RecordEvent, world, memory
<1>3. CASE /\ frame' = [frame EXCEPT ![h].at = "route", ![h].deduped = TRUE]
           /\ UNCHANGED disk
  <2>1. PICK f : f = [frame[h] EXCEPT !.at = "route", !.deduped = TRUE]
    OBVIOUS
  <2>2. f.at = "route" /\ f.trigger = frame[h].trigger
    BY <1>1, <2>1 DEF FramesOK, FrameShape
  <2>3. FrameTrue(f)'
    BY <1>1, <1>2, <2>2, SoundStays DEF FramesTrue, FrameTrue
  <2>4. frame' = [frame EXCEPT ![h] = f]
    BY <1>1, <1>3, <2>1 DEF FramesOK
  <2> QED BY <1>1, <1>2, <1>3, <2>3, <2>4, FrameTrueStep, TruthQuiet
<1>4. CASE Write(EventEntry(e)) /\ Goto(h, "route")
  <2>1. EventEntry(e).kind # "trigger"
    BY DEF EventEntry
  <2>2. FramesTrue'
    BY <1>1, <1>2, <1>4, GotoTrue
  <2> QED BY <1>1, <1>2, <1>4, <2>1, <2>2, TruthWrite
<1>5. CASE Answers(h, "error") /\ UNCHANGED durable
  BY <1>1, <1>2, <1>5, AnswerTrue, TruthQuiet DEF durable
<1> QED BY <1>3, <1>4, <1>5 DEF RecordEvent, durable

LEMMA PassiveStatuses == \A r \in DOMAIN PassiveStatus : PassiveStatus[r] \in Statuses \ {"Submitted"}
  BY DEF PassiveStatus, Statuses

LEMMA RouteTruth ==
  ASSUME OneGoalInv, TruthInv, NEW h \in Handlers, RouteEvent(h)
  PROVE  TruthInv'
<1> DEFINE e == frame[h].event
<1>1. FramesOK /\ FramesTrue /\ frame[h] # Idle /\ e \in Events
  BY DEF OneGoalInv, TruthInv, RouteEvent, At, Idle, FramesOK, FrameShape
<1>2. Grows /\ UNCHANGED <<disk, triggers, goals, projected>>
  BY SameWorldGrows DEF RouteEvent, world, memory, durable
<1>3. ASSUME Finish(h) PROVE FramesTrue'
  BY <1>1, <1>2, <1>3, FinishTrue
<1>4. ASSUME NEW s \in Statuses \ {"Submitted"}, NEW g \in BOOLEAN, Hold(h, NewTrigger(e, s, g))
      PROVE  FramesTrue'
  <2>1. PICK t : t = NewTrigger(e, s, g)
    OBVIOUS
  <2>2. Sound(t)'
    BY <1>1, <1>2, <2>1, NewSound, SoundStays
  <2> QED BY <1>1, <1>2, <1>4, <2>1, <2>2, HoldTrue DEF Hold
<1>5. ASSUME RouteDuplicate(h) PROVE FramesTrue'
  <2>1. CASE TriggersOf(e) = {}
    BY <1>4, <1>5, <2>1 DEF RouteDuplicate, Statuses
  <2>2. CASE TriggersOf(e) # {} /\ LastTrigger(e).delivered
    BY <1>3, <1>5, <2>2 DEF RouteDuplicate
  <2>3. CASE TriggersOf(e) # {} /\ ~LastTrigger(e).delivered
    <3>1. PICK t : t = LastTrigger(e)
      OBVIOUS
    <3>2. Sound(t)'
      BY <1>2, <2>3, <3>1, LastTriggerSound, SoundStays DEF TruthInv
    <3>3. frame' = [frame EXCEPT ![h].at = "project", ![h].trigger = t]
      BY <1>5, <2>3, <3>1 DEF RouteDuplicate
    <3> QED BY <1>1, <1>2, <3>2, <3>3, HoldTrue
  <2> QED BY <2>1, <2>2, <2>3
<1>6. ASSUME RouteFirst(h) PROVE FramesTrue'
  <2>1. PICK r : r = RouteOf(h)
    OBVIOUS
  <2>2. CASE r \in DOMAIN PassiveStatus
              /\ \E goal \in MayNameGoal(frame[h].via, r) :
                    Hold(h, NewTrigger(e, PassiveStatus[r], goal))
    <3>1. PICK goal \in BOOLEAN : Hold(h, NewTrigger(e, PassiveStatus[r], goal))
      BY <2>2 DEF MayNameGoal
    <3>2. PassiveStatus[r] \in Statuses \ {"Submitted"}
      BY <2>2, PassiveStatuses
    <3> QED BY <1>4, <3>1, <3>2
  <2>3. CASE Goto(h, "submit")
    BY <1>1, <1>2, <2>3, GotoTrue
  <2>4. CASE Hold(h, NewTrigger(e, "Recorded", TRUE))
    BY <1>4, <2>4 DEF Statuses
  <2> HIDE DEF e
  <2>5. \/ r \in DOMAIN PassiveStatus
           /\ \E goal \in MayNameGoal(frame[h].via, r) :
                 Hold(h, NewTrigger(e, PassiveStatus[r], goal))
        \/ Goto(h, "submit")
        \/ Hold(h, NewTrigger(e, "Recorded", TRUE))
    BY <1>6, <2>1, Zenon DEF RouteFirst, e
  <2> QED BY <2>2, <2>3, <2>4, <2>5
<1>7. FramesTrue'
  BY <1>3, <1>5, <1>6 DEF RouteEvent
<1> QED BY <1>2, <1>7, TruthQuiet

\* A goal is counted for a key that had none, and its trigger says so.
LEMMA SubmitTruth ==
  ASSUME OneGoalInv, TruthInv, NEW h \in Handlers, Submit(h)
  PROVE  TruthInv'
<1> DEFINE e == frame[h].event
<1>1. /\ FramesOK /\ FramesTrue /\ frame[h] # Idle
      /\ e \in Events /\ e.key \in Keys /\ Pending(h)
  BY DEF OneGoalInv, TruthInv, Submit, At, Idle, FramesOK, FrameShape, Keys, Pending
<1>2. goals \in [Keys -> {0, 1}] /\ goals[e.key] = 0
  BY <1>1 DEF OneGoalInv, OneCaller
<1>3. PICK outcome \in SubmitOutcomes :
        /\ goals' = IF outcome = "refused" THEN goals
                    ELSE [goals EXCEPT ![e.key] = @ + 1]
        /\ Hold(h, NewTrigger(e, IF outcome = "taken" THEN "Submitted" ELSE "Failed",
                              TRUE))
  BY DEF Submit
<1>4. UNCHANGED <<disk, triggers, projected>>
  BY DEF Submit, memory, durable
<1>5. outcome # "refused" => goals' = [goals EXCEPT ![e.key] = 1]
  BY <1>1, <1>2, <1>3
<1>6. Grows
  BY <1>1, <1>2, <1>3, <1>4, <1>5 DEF Grows
<1>7. outcome = "taken" => goals'[e.key] = 1
  BY <1>1, <1>2, <1>5
<1>8. PICK s \in Statuses : /\ s = IF outcome = "taken" THEN "Submitted" ELSE "Failed"
                            /\ s = "Submitted" => goals'[e.key] = 1
  BY <1>7 DEF Statuses
<1>9. PICK t : t = NewTrigger(e, s, TRUE)
  OBVIOUS
<1>10. /\ t \in Trigger /\ t.event = e /\ t.status = s /\ ~t.delivered
  BY <1>1, <1>9 DEF NewTrigger, Trigger
<1>11. Sound(t)'
  BY <1>8, <1>10 DEF Sound
<1>12. frame' = [frame EXCEPT ![h].at = "store", ![h].trigger = t]
  BY <1>3, <1>8, <1>9 DEF Hold
<1>13. FramesTrue'
  BY <1>1, <1>6, <1>11, <1>12, HoldTrue
<1> QED BY <1>4, <1>6, <1>13, TruthQuiet

LEMMA StoreTruth ==
  ASSUME OneGoalInv, TruthInv, NEW h \in Handlers, StoreTrigger(h)
  PROVE  TruthInv'
<1>1. /\ FramesOK /\ FramesTrue /\ IsFile(disk) /\ frame[h] # Idle
      /\ frame[h].at = "store" /\ Sound(frame[h].trigger)
  BY DEF OneGoalInv, TruthInv, StoreTrigger, At, Idle, FramesTrue, FrameTrue
<1>2. Grows /\ triggers' = triggers
  BY SameWorldGrows DEF StoreTrigger, world, memory
<1>3. CASE Write(TriggerEntry(frame[h].trigger)) /\ Goto(h, "push")
  <2>1. TriggerEntry(frame[h].trigger).trigger = frame[h].trigger
    BY DEF TriggerEntry
  <2>2. FramesTrue'
    BY <1>1, <1>2, <1>3, GotoTrue
  <2> QED BY <1>1, <1>2, <1>3, <2>1, <2>2, TruthWrite
<1>4. CASE Answers(h, "error") /\ UNCHANGED durable
  BY <1>1, <1>2, <1>4, AnswerTrue, TruthQuiet DEF durable
<1> QED BY <1>3, <1>4 DEF StoreTrigger

LEMMA PushTruth ==
  ASSUME OneGoalInv, TruthInv, NEW h \in Handlers, PushTrigger(h)
  PROVE  TruthInv'
<1>1. /\ FramesOK /\ FramesTrue /\ frame[h] # Idle /\ Sound(frame[h].trigger)
  BY DEF OneGoalInv, TruthInv, PushTrigger, At, Idle, FramesTrue, FrameTrue
<1>2. Grows /\ UNCHANGED <<disk, goals, projected>>
  BY SameWorldGrows DEF PushTrigger, world, durable
<1>3. FramesTrue'
  BY <1>1, <1>2, GotoTrue, FinishTrue DEF PushTrigger
<1>4. PICK t : t = frame[h].trigger
  OBVIOUS
<1>5. triggers' = Append(triggers, t)
  BY <1>4 DEF PushTrigger
<1>6. PICK D : triggers \in Seq(D)
  BY DEF TruthInv, TriggersTrue, IsFile
<1>7. /\ triggers' \in Seq(D \cup {t})
      /\ Len(triggers') = Len(triggers) + 1 /\ Len(triggers) \in Nat
      /\ triggers'[Len(triggers) + 1] = t
      /\ \A k \in 1..Len(triggers) : triggers'[k] = triggers[k]
  BY <1>5, <1>6
<1>8. ASSUME NEW k \in 1..Len(triggers') PROVE Sound(triggers[k])'
  <2>1. PICK x : x = triggers'[k]
    OBVIOUS
  <2>2. Sound(x)
    BY <1>1, <1>4, <1>7, <2>1 DEF TruthInv, TriggersTrue
  <2>3. Sound(x)'
    BY <1>2, <2>2, SoundStays
  <2> QED BY <2>1, <2>3 DEF Sound
<1>9. TriggersTrue'
  BY <1>7, <1>8 DEF TriggersTrue, IsFile
<1>10. ASSUME NEW k \in 1..Len(disk), disk[k].kind = "trigger" PROVE Sound(disk[k].trigger)'
  <2>1. PICK x : x = disk[k].trigger
    OBVIOUS
  <2>2. Sound(x)'
    BY <1>2, <1>10, <2>1, SoundStays DEF TruthInv, DiskTrue
  <2>3. disk'[k].trigger = x
    BY <1>2, <2>1
  <2> QED BY <2>2, <2>3 DEF Sound
<1>11. DiskTrue'
  BY <1>2, <1>10 DEF DiskTrue
<1> QED BY <1>3, <1>9, <1>11 DEF TruthInv

LEMMA ProjectTruth ==
  ASSUME OneGoalInv, TruthInv, NEW h \in Handlers, ProjectTrigger(h)
  PROVE  TruthInv'
<1>1. /\ FramesOK /\ FramesTrue /\ frame[h] # Idle
  BY DEF OneGoalInv, TruthInv, ProjectTrigger, At, Idle
<1>2. Grows /\ UNCHANGED <<disk, triggers>>
  BY DEF ProjectTrigger, memory, durable, Grows
<1>3. FramesTrue'
  BY <1>1, <1>2, GotoTrue, FinishTrue, AnswerTrue DEF ProjectTrigger
<1> QED BY <1>2, <1>3, TruthQuiet

\* The marked trigger has the projection that was accepted.
LEMMA MarkTruth ==
  ASSUME OneGoalInv, TruthInv, NEW h \in Handlers, MarkProjected(h)
  PROVE  TruthInv'
<1> DEFINE t == frame[h].trigger
           same == {k \in DOMAIN triggers : /\ triggers[k].event.id = t.event.id
                                            /\ triggers[k].goal = t.goal
                                            /\ triggers[k].status = t.status}
           last == CHOOSE k \in same : \A j \in same : j <= k
<1>1. /\ FramesOK /\ FramesTrue /\ frame[h] # Idle /\ TriggersTrue
      /\ Projection(t) \in projected
  BY DEF OneGoalInv, TruthInv, MarkProjected, At, Idle, FramesTrue, FrameTrue
<1>2. Grows /\ UNCHANGED <<disk, goals, projected>>
  BY SameWorldGrows DEF MarkProjected, world, durable
<1>3. FramesTrue'
  BY <1>1, <1>2, FinishTrue DEF MarkProjected
<1>4. CASE same = {}
  <2>1. triggers' = triggers
    BY <1>4 DEF MarkProjected
  <2> QED BY <1>2, <1>3, <2>1, TruthQuiet
<1>5. CASE same # {}
  <2>1. triggers' = [triggers EXCEPT ![last].delivered = TRUE]
    BY <1>5 DEF MarkProjected
  <2>2. last \in same
    <3>1. same \subseteq DOMAIN triggers
      OBVIOUS
    <3> HIDE DEF same
    <3> QED BY <1>1, <1>5, <3>1, LastIndex DEF TriggersTrue
  <2>3. PICK l : l = last
    OBVIOUS
  <2>4. PICK D : triggers \in Seq(D)
    BY <1>1 DEF TriggersTrue, IsFile
  <2>5. DOMAIN triggers = 1..Len(triggers) /\ Len(triggers) \in Nat
    BY <2>4
  <2>6. l \in 1..Len(triggers) /\ Projection(triggers[l]) = Projection(t)
    BY <2>2, <2>3, <2>5 DEF Projection
  <2>7. PICK x : x = [triggers[l] EXCEPT !.delivered = TRUE]
    OBVIOUS
  <2>8. triggers' = [triggers EXCEPT ![l] = x]
    BY <2>1, <2>3, <2>7
  <2>9. triggers' \in Seq(D \cup {x}) /\ Len(triggers') = Len(triggers)
    BY <2>4, <2>5, <2>6, <2>8
  <2>10. Sound(triggers[l]) /\ triggers[l] \in Trigger
    BY <1>1, <2>6 DEF TriggersTrue, Sound
  <2>11. x \in Trigger /\ x.status = triggers[l].status /\ x.event = triggers[l].event
         /\ x.goal = triggers[l].goal
    BY <2>7, <2>10 DEF Trigger
  <2>12. Projection(x) = Projection(t)
    BY <2>6, <2>11 DEF Projection
  <2>13. Sound(x)
    BY <1>1, <2>10, <2>11, <2>12 DEF Sound
  <2>14. ASSUME NEW k \in 1..Len(triggers) PROVE Sound(triggers[k])'
    <3>1. PICK y : y = triggers'[k]
      OBVIOUS
    <3>2. y = x \/ y = triggers[k]
      BY <2>4, <2>5, <2>8, <3>1
    <3>3. Sound(y)'
      BY <1>1, <1>2, <2>13, <3>2, SoundStays DEF TriggersTrue
    <3> QED BY <3>1, <3>3 DEF Sound
  <2>15. TriggersTrue'
    BY <2>9, <2>14 DEF TriggersTrue, IsFile
  <2>16. ASSUME NEW k \in 1..Len(disk), disk[k].kind = "trigger" PROVE Sound(disk[k].trigger)'
    <3>1. PICK y : y = disk[k].trigger
      OBVIOUS
    <3>2. Sound(y)'
      BY <1>2, <2>16, <3>1, SoundStays DEF TruthInv, DiskTrue
    <3>3. disk'[k].trigger = y
      BY <1>2, <3>1
    <3> QED BY <3>2, <3>3 DEF Sound
  <2>17. DiskTrue'
    BY <1>2, <2>16 DEF DiskTrue
  <2> QED BY <1>3, <2>15, <2>17 DEF TruthInv
<1> QED BY <1>4, <1>5

LEMMA DeleteTruth ==
  ASSUME OneGoalInv, TruthInv, NEW h \in Handlers, DeleteMessage(h)
  PROVE  TruthInv'
<1>1. /\ FramesOK /\ FramesTrue
      /\ Grows /\ UNCHANGED <<disk, triggers>> /\ Answers(h, "ok")
  BY SameWorldGrows DEF OneGoalInv, TruthInv, DeleteMessage, memory, durable
<1> QED BY <1>1, AnswerTrue, TruthQuiet

LEMMA RequestTruth ==
  ASSUME OneGoalInv, TruthInv, queue \subseteq Events, NEW h \in Handlers, Request(h)
  PROVE  TruthInv'
<1>1. PICK e \in Events : \E via, sqs : Begin(h, e, via, sqs)
  BY Zenon DEF Request, Ingest, SqsPoll, TriggerGoal
<1>2. PICK via, sqs : Begin(h, e, via, sqs)
  BY <1>1
<1>3. FramesOK /\ FramesTrue /\ Grows /\ UNCHANGED <<disk, triggers>>
  BY <1>2, SameWorldGrows DEF OneGoalInv, TruthInv, Begin, memory, durable, world
<1>4. PICK f : f = [at |-> "record", event |-> e, via |-> via, sqs |-> sqs,
                    deduped |-> FALSE, trigger |-> NewTrigger(e, "Recorded", FALSE)]
  OBVIOUS
<1>5. Sound(NewTrigger(e, "Recorded", FALSE))
  BY NewSound DEF Statuses
<1>6. Sound(f.trigger)'
  BY <1>3, <1>4, <1>5, SoundStays
<1>7. FrameTrue(f)'
  BY <1>4, <1>6 DEF FrameTrue
<1>8. frame' = [frame EXCEPT ![h] = f]
  BY <1>2, <1>4 DEF Begin
<1> QED BY <1>3, <1>7, <1>8, FrameTrueStep, TruthQuiet

\* A replay brings back triggers of the journal or the table.
LEMMA ReplayTruth ==
  ASSUME IsFile(disk), DiskTrue
  PROVE  /\ IsFile(ReplayedTriggers)
         /\ \A k \in 1..Len(ReplayedTriggers) : Sound(ReplayedTriggers[k])
<1>1. PICK rows : rows = Listed("trigger")
  OBVIOUS
<1>2. /\ IsFile(rows)
      /\ \A k \in 1..Len(rows) :
             \E j \in 1..Len(disk) : rows[k] = disk[j] /\ disk[j].kind = "trigger"
  BY <1>1, ListedIs
<1>3. DOMAIN rows = 1..Len(rows) /\ Len(rows) \in Nat
  BY <1>2 DEF IsFile
<1>4. \A k \in 1..Len(rows) : Sound(rows[k].trigger)
  BY <1>2 DEF DiskTrue
<1> DEFINE place(k) == IF Backend = "jsonl" THEN k ELSE Len(rows) + 1 - k
<1>5. \A k \in 1..Len(rows) : place(k) \in 1..Len(rows)
  BY <1>3
<1>6. PICK r : r = [k \in 1..Len(rows) |-> rows[place(k)].trigger]
  OBVIOUS
<1>7. ReplayedTriggers = r
  BY <1>1, <1>3, <1>6 DEF ReplayedTriggers
<1>8. \A k \in 1..Len(rows) : Sound(r[k])
  BY <1>4, <1>5, <1>6
<1> HIDE DEF place
<1>9. r \in Seq({rows[place(k)].trigger : k \in 1..Len(rows)}) /\ Len(r) = Len(rows)
  BY <1>3, <1>6
<1> QED BY <1>7, <1>8, <1>9 DEF IsFile

LEMMA ProcessTruth ==
  ASSUME OneGoalInv, TruthInv,
         RegisterSource \/ WriteNewline \/ Crash \/ Start \/ Quiescent
  PROVE  TruthInv'
<1>1. FramesOK /\ FramesTrue /\ IsFile(disk)
  BY DEF OneGoalInv, TruthInv
<1>2. Grows
  BY SameWorldGrows DEF RegisterSource, WriteNewline, Crash, Start, Quiescent, vars, world
<1>3. ASSUME frame' = frame PROVE FramesTrue'
  <2>1. ASSUME NEW h \in Handlers PROVE FrameTrue(frame[h])'
    <3>1. PICK f : f = frame[h]
      OBVIOUS
    <3>2. Sound(f.trigger) => Sound(f.trigger)'
      BY <1>2, SoundStays
    <3>3. frame'[h] = f
      BY <1>3, <3>1
    <3> QED BY <1>1, <1>2, <3>1, <3>2, <3>3 DEF FramesTrue, FrameTrue, Grows, Projection, Sound
  <2> QED BY <2>1 DEF FramesTrue
<1>4. CASE RegisterSource
  <2>1. PICK r : Write(SourceEntry(r))
    BY <1>4 DEF RegisterSource
  <2>2. SourceEntry(r).kind # "trigger"
    BY DEF SourceEntry
  <2>3. triggers' = triggers /\ frame' = frame
    BY <1>4 DEF RegisterSource
  <2> QED BY <1>1, <1>2, <1>3, <2>1, <2>2, <2>3, TruthWrite
<1>5. CASE WriteNewline
  <2>1. disk' = Append(disk, Newline) /\ UNCHANGED <<triggers, frame, goals, projected>>
    BY <1>5 DEF WriteNewline, memory, world
  <2>2. PICK S : disk \in Seq(S)
    BY <1>1 DEF IsFile
  <2>3. \A k \in 1..Len(disk') : disk'[k] = Newline \/ (k \in 1..Len(disk) /\ disk'[k] = disk[k])
    BY <2>1, <2>2
  <2>4. ASSUME NEW k \in 1..Len(disk'), disk'[k].kind = "trigger" PROVE Sound(disk[k].trigger)'
    <3>1. PICK x : x = disk'[k].trigger
      OBVIOUS
    <3>2. Sound(x)
      BY <2>3, <2>4, <3>1 DEF TruthInv, DiskTrue, Newline
    <3>3. Sound(x)'
      BY <1>2, <3>2, SoundStays
    <3> QED BY <3>1, <3>3 DEF Sound
  <2>5. DiskTrue'
    BY <2>4 DEF DiskTrue
  <2>6. TriggersTrue'
    BY <2>1 DEF TruthInv, TriggersTrue, Sound
  <2> QED BY <1>3, <2>1, <2>5, <2>6 DEF TruthInv
<1>6. CASE Crash
  <2>1. /\ triggers' = <<>> /\ UNCHANGED <<disk, goals, projected>>
        /\ frame' = [h \in Handlers |-> Idle]
    BY <1>6 DEF Crash, world
  <2>2. FramesTrue'
    BY <2>1 DEF FramesTrue, FrameTrue
  <2>3. triggers' \in Seq({}) /\ Len(triggers') = 0
    BY <2>1
  <2>4. TriggersTrue'
    BY <2>3 DEF TriggersTrue, IsFile
  <2>5. DiskTrue'
    BY <2>1 DEF TruthInv, DiskTrue, Sound
  <2> QED BY <2>2, <2>4, <2>5 DEF TruthInv
<1>7. CASE Start
  <2>1. UNCHANGED <<disk, frame, goals, projected>> /\ triggers' = ReplayedTriggers
    BY <1>7 DEF Start, durable, world
  <2>2. PICK r : r = ReplayedTriggers
    OBVIOUS
  <2>3. IsFile(r) /\ \A k \in 1..Len(r) : Sound(r[k])
    BY <1>1, <2>2, ReplayTruth DEF TruthInv
  <2>4. TriggersTrue'
    BY <2>1, <2>2, <2>3 DEF TriggersTrue, Sound
  <2>5. DiskTrue'
    BY <2>1 DEF TruthInv, DiskTrue, Sound
  <2> QED BY <1>3, <2>1, <2>4, <2>5 DEF TruthInv
<1>8. CASE Quiescent
  BY <1>2, <1>3, <1>8, TruthQuiet DEF Quiescent, vars, memory, durable
<1> QED BY <1>4, <1>5, <1>6, <1>7, <1>8

LEMMA InitTruth == Init => TruthInv
<1> SUFFICES ASSUME Init PROVE TruthInv
  OBVIOUS
<1>1. \A k \in 1..Len(disk) : disk[k].kind # "trigger"
  <2>1. CASE disk = <<>>
    BY <2>1
  <2>2. CASE disk = <<SourceEntry(InitialRoute), Newline>>
    BY <2>2 DEF SourceEntry, Newline
  <2>3. CASE disk = <<SourceEntry(InitialRoute)>>
    BY <2>3 DEF SourceEntry
  <2> QED BY <2>1, <2>2, <2>3 DEF Init
<1>2. triggers \in Seq({}) /\ Len(triggers) = 0
  BY DEF Init
<1> QED BY <1>1, <1>2 DEF Init, TruthInv, DiskTrue, TriggersTrue, IsFile, FramesTrue, FrameTrue

\* Whatever is delivered, fails, crashes and is replayed, a trigger the
\* gateway shows is true: one that says Submitted has its goal at Restate, and
\* what is marked as projected is in the goal store, so that a duplicate that
\* is answered from it neither asks for nor projects anything (trigger_goal_inner,
\* project_trigger_to_goal_store, mark_trigger_projected, replay_journal).
THEOREM TriggersTellTheTruth == Spec => []TriggersAreTrue
<1> DEFINE Inv == OneGoalInv /\ queue \subseteq Events /\ TruthInv
<1>1. Init => Inv
  BY InitOneGoal, InitTruth DEF Init
<1>2. Inv /\ [Next]_vars => Inv'
  <2> SUFFICES ASSUME Inv, [Next]_vars PROVE OneGoalInv' /\ TruthInv'
    BY QueueShrinks
  <2>1. ASSUME NEW h \in Handlers, Request(h) PROVE OneGoalInv' /\ TruthInv'
    BY <2>1, RequestStep, RequestTruth
  <2>2. ASSUME NEW h \in Handlers, Work(h) PROVE OneGoalInv' /\ TruthInv'
    BY <2>2, WorkStep, RecordTruth, RouteTruth, SubmitTruth, StoreTruth, PushTruth,
       ProjectTruth, MarkTruth, DeleteTruth DEF Work
  <2>3. CASE RegisterSource \/ WriteNewline \/ Crash \/ Start \/ Quiescent
    BY <2>3, ProcessStep, ProcessTruth
  <2>4. CASE UNCHANGED vars
    <3>1. OneGoalInv'
      BY <2>4, SameFrames, QuietStep DEF OneGoalInv, vars, memory, durable, world
    <3>2. TruthInv'
      BY <2>4 DEF TruthInv, DiskTrue, TriggersTrue, FramesTrue, FrameTrue, Sound, vars,
                  memory, durable, world
    <3> QED BY <3>1, <3>2
  <2> QED BY <2>1, <2>2, <2>3, <2>4 DEF Next
<1>3. Inv => TriggersAreTrue
  <2> SUFFICES ASSUME TriggersTrue, NEW k \in DOMAIN triggers PROVE Sound(triggers[k])
    BY DEF TruthInv, TriggersAreTrue, Sound
  <2>1. PICK D : triggers \in Seq(D)
    BY DEF TriggersTrue, IsFile
  <2> QED BY <2>1 DEF TriggersTrue
<1> QED BY <1>1, <1>2, <1>3, PTL DEF Spec

-----------------------------------------------------------------------------
(* Intake: a delivery that says which it is gets its key from what it says. *)

EventFields == {"id", "type", "kind", "subject", "key", "time", "payload", "meta"}

\* What the random id leaves of an event's key.
EventOf(s, d, fresh) ==
    CASE d.via = "sqs" -> NormalizeSqs(s, d, fresh)
      [] d.via = "generic" -> NormalizeGeneric(s, d, fresh)
      [] OTHER -> NormalizeWebhook(s, d, fresh)

LEMMA SignalKeepsTheKey ==
  ASSUME NEW e, DOMAIN e = EventFields, e = [x \in EventFields |-> e[x]]
  PROVE  /\ NormalizeSignal(e).key = e.key
         /\ DOMAIN NormalizeSignal(e) = EventFields
<1>1. CASE NormalizeSignal(e) = e
  BY <1>1
<1>2. CASE NormalizeSignal(e) = NormalizeIdeSignal(e)
  <2>1. NormalizeIdeSignal(e).key = e.key /\ DOMAIN NormalizeIdeSignal(e) = EventFields
    BY DEF NormalizeIdeSignal, EventFields
  <2> QED BY <1>2, <2>1
<1>3. CASE NormalizeSignal(e) = NormalizeChangeSignal(e)
  <2>1. NormalizeChangeSignal(e).key = e.key /\ DOMAIN NormalizeChangeSignal(e) = EventFields
    BY DEF NormalizeChangeSignal, EventFields
  <2> QED BY <1>3, <2>1
<1>4. NormalizeSignal(e) \in {e, NormalizeIdeSignal(e), NormalizeChangeSignal(e)}
  <2> DEFINE ide == NormalizeIdeSignal(e)
             change == NormalizeChangeSignal(e)
  <2>1. NormalizeSignal(e) = CASE e.kind \in {"IdeLsp", "IdeDiagnostics"} -> ide
                               [] ChangeProvider(e.kind) # <<"generic">> -> change
                               [] OTHER -> e
    BY DEF NormalizeSignal
  <2> HIDE DEF ide, change
  <2>2. CASE e.kind \in {"IdeLsp", "IdeDiagnostics"} /\ ChangeProvider(e.kind) # <<"generic">>
    <3>1. ChangeProvider(e.kind) = <<"generic">>
      BY <2>2 DEF ChangeProvider
    <3> QED BY <2>2, <3>1
  <2>3. CASE e.kind \in {"IdeLsp", "IdeDiagnostics"} /\ ChangeProvider(e.kind) = <<"generic">>
    BY <2>1, <2>3 DEF ide
  <2>4. CASE e.kind \notin {"IdeLsp", "IdeDiagnostics"}
    BY <2>1, <2>4 DEF ide, change
  <2> QED BY <2>2, <2>3, <2>4
<1> QED BY <1>1, <1>2, <1>3, <1>4

LEMMA BaseIsAnEvent ==
  ASSUME NEW s, NEW d, NEW fresh, NEW e, e = WebhookBaseEvent(s, d, fresh)
  PROVE  /\ e = [x \in EventFields |-> e[x]]
         /\ e.payload = Payload(d)
         /\ e.id = OrElse(Lookup(d.headers, "ce-id"), OrElse(Lookup(Payload(d), "id"), fresh))
BY DEF WebhookBaseEvent, EventFields

\* The event of a webhook before its headers are asked for a key.
ProviderEvent(s, base, d) ==
    CASE s.kind = "GitHubWebhook" -> NormalizeGithub(base, d)
      [] s.kind = "GitLabWebhook" -> NormalizeGitlab(base, d)
      [] s.kind = "SlackEvent" -> NormalizeSlack(base)
      [] s.kind = "StripeWebhook" -> NormalizeStripe(base)
      [] s.kind = "JiraWebhook" -> NormalizeJira(base)
      [] s.kind = "LinearWebhook" -> NormalizeLinear(base)
      [] s.kind = "PrometheusAlertmanager" -> NormalizeAlertmanager(base)
      [] s.kind = "DatadogWebhook" -> NormalizeDatadog(base)
      [] OTHER -> base

LEMMA ProviderMakesAnEvent ==
  ASSUME NEW s, NEW d, NEW e, e = [x \in EventFields |-> e[x]],
         NEW p, p = ProviderEvent(s, e, d)
  PROVE  p = [x \in EventFields |-> p[x]]
<1>1. CASE p = NormalizeGithub(e, d)
  BY <1>1 DEF NormalizeGithub, EventFields
<1>2. CASE p = NormalizeGitlab(e, d)
  BY <1>2 DEF NormalizeGitlab, EventFields
<1>3. CASE p = NormalizeSlack(e)
  BY <1>3 DEF NormalizeSlack, EventFields
<1>4. CASE p = NormalizeStripe(e)
  BY <1>4 DEF NormalizeStripe, EventFields
<1>5. CASE p = NormalizeJira(e)
  BY <1>5 DEF NormalizeJira, EventFields
<1>6. CASE p = NormalizeLinear(e)
  BY <1>6 DEF NormalizeLinear, EventFields
<1>7. CASE p = NormalizeAlertmanager(e)
  BY <1>7 DEF NormalizeAlertmanager, EventFields
<1>8. CASE p = NormalizeDatadog(e)
  BY <1>8 DEF NormalizeDatadog, EventFields
<1>9. CASE p = e
  BY <1>9
<1> QED BY <1>1, <1>2, <1>3, <1>4, <1>5, <1>6, <1>7, <1>8, <1>9 DEF ProviderEvent

LEMMA WebhookKey ==
  ASSUME NEW s, NEW d, NEW fresh, NEW e, e = WebhookBaseEvent(s, d, fresh)
  PROVE  NormalizeWebhook(s, d, fresh).key =
            OrElse(Lookup(d.headers, s.dedupeHeader), ProviderEvent(s, e, d).key)
<1> DEFINE p == ProviderEvent(s, e, d)
           k == OrElse(Lookup(d.headers, s.dedupeHeader), p.key)
           h == [p EXCEPT !.key = k]
<1>1. p = [x \in EventFields |-> p[x]]
  BY BaseIsAnEvent, ProviderMakesAnEvent
<1>2. NormalizeWebhook(s, d, fresh) = NormalizeSignal([p EXCEPT !.key = OrElse(Lookup(d.headers, s.dedupeHeader), @)])
  BY DEF NormalizeWebhook, ProviderEvent
<1> HIDE DEF p
<1>3. NormalizeWebhook(s, d, fresh) = NormalizeSignal(h)
  BY <1>1, <1>2
<1> HIDE DEF k
<1>4. h.key = k /\ h = [x \in EventFields |-> h[x]] /\ DOMAIN h = EventFields
  BY <1>1 DEF EventFields
<1> HIDE DEF h
<1>5. NormalizeSignal(h).key = h.key
  BY <1>4, SignalKeepsTheKey
<1> QED BY <1>3, <1>4, <1>5 DEF k, p

\* A provider's own id, or the text that identifies an alert, decides the key.
LEMMA ProviderIdDecides ==
  ASSUME NEW s, NEW d,
         NEW e, e = [x \in EventFields |-> e[x]], e.payload = Payload(d),
         NEW h, h = [x \in EventFields |-> h[x]], h.payload = Payload(d),
         \/ s.kind = "GitHubWebhook" /\ Lookup(d.headers, "x-github-delivery") # None
         \/ s.kind = "GitLabWebhook" /\ Lookup(d.headers, "x-gitlab-event-uuid") # None
         \/ s.kind = "SlackEvent" /\ Lookup(Payload(d), "event_id") # None
         \/ /\ s.kind = "PrometheusAlertmanager"
            /\ FirstString(Payload(d), <<"alerts.0.fingerprint", "groupKey">>) # None
         \/ /\ s.kind = "DatadogWebhook"
            /\ FirstString(Payload(d), <<"event_id", "alert_id", "monitor_id">>) # None
  PROVE  ProviderEvent(s, e, d).key = ProviderEvent(s, h, d).key
<1>1. CASE s.kind = "GitHubWebhook"
  <2>1. ASSUME NEW x, x = [f \in EventFields |-> x[f]]
        PROVE  NormalizeGithub(x, d).key = <<SourceId>> \o OrElse(Lookup(d.headers, "x-github-delivery"), x.id)
    BY <2>1 DEF NormalizeGithub, EventFields, KeyOf
  <2>2. ProviderEvent(s, e, d) = NormalizeGithub(e, d) /\ ProviderEvent(s, h, d) = NormalizeGithub(h, d)
    BY <1>1 DEF ProviderEvent
  <2>3. Lookup(d.headers, "x-github-delivery") # None
    BY <1>1
  <2> QED BY <2>1, <2>2, <2>3 DEF OrElse
<1>2. CASE s.kind = "GitLabWebhook"
  <2>1. ASSUME NEW x, x = [f \in EventFields |-> x[f]]
        PROVE  \E y : NormalizeGitlab(x, d).key =
                  <<SourceId>> \o OrElse(Lookup(d.headers, "x-gitlab-event-uuid"), y)
    BY <2>1 DEF NormalizeGitlab, EventFields, KeyOf
  <2>2. ProviderEvent(s, e, d) = NormalizeGitlab(e, d) /\ ProviderEvent(s, h, d) = NormalizeGitlab(h, d)
    BY <1>2 DEF ProviderEvent
  <2>3. Lookup(d.headers, "x-gitlab-event-uuid") # None
    BY <1>2
  <2> QED BY <2>1, <2>2, <2>3 DEF OrElse
<1>3. CASE s.kind = "SlackEvent"
  <2>1. ASSUME NEW x, x = [f \in EventFields |-> x[f]], x.payload = Payload(d)
        PROVE  NormalizeSlack(x).key = <<SourceId>> \o OrElse(Lookup(Payload(d), "event_id"), x.id)
    BY <2>1 DEF NormalizeSlack, EventFields, KeyOf
  <2>2. ProviderEvent(s, e, d) = NormalizeSlack(e) /\ ProviderEvent(s, h, d) = NormalizeSlack(h)
    BY <1>3 DEF ProviderEvent
  <2>3. Lookup(Payload(d), "event_id") # None
    BY <1>3
  <2> QED BY <2>1, <2>2, <2>3 DEF OrElse
<1>4. CASE s.kind = "PrometheusAlertmanager"
  <2> DEFINE P == Payload(d)
             print == FirstString(P, <<"alerts.0.fingerprint", "groupKey">>)
             status == OrElse(Lookup(P, "status"), <<"unknown">>)
             starts == Lookup(P, "alerts.0.startsAt")
             ends == Lookup(P, "alerts.0.endsAt")
             at == IF status = <<"resolved">> THEN OrElse(ends, starts) ELSE OrElse(starts, ends)
             group == OrElse(Lookup(P, "groupKey"), print)
  <2>1. ASSUME NEW x, x = [f \in EventFields |-> x[f]], x.payload = P, print # None
        PROVE  NormalizeAlertmanager(x).key =
                  <<SourceId>> \o StableEventId(<<"prometheus">>, AlertId(group, status, at))
    <3> HIDE DEF P
    <3>1. OrElse(print, x.id) = print
      BY <2>1 DEF OrElse
    <3> QED BY <2>1, <3>1 DEF NormalizeAlertmanager, EventFields, KeyOf
  <2>2. ProviderEvent(s, e, d) = NormalizeAlertmanager(e) /\ ProviderEvent(s, h, d) = NormalizeAlertmanager(h)
    BY <1>4 DEF ProviderEvent
  <2>3. print # None
    BY <1>4
  <2> HIDE DEF P, print, group, at, status
  <2> QED BY <2>1, <2>2, <2>3 DEF P
<1>5. CASE s.kind = "DatadogWebhook"
  <2> DEFINE P == Payload(d)
             monitor == FirstString(P, <<"event_id", "alert_id", "monitor_id">>)
             transition == OrElse(FirstString(P, <<"alert_transition", "status", "event_type">>), <<"event">>)
             at == FirstString(P, <<"date", "last_updated", "timestamp">>)
  <2>1. ASSUME NEW x, x = [f \in EventFields |-> x[f]], x.payload = P, monitor # None
        PROVE  NormalizeDatadog(x).key =
                  <<SourceId>> \o StableEventId(<<"datadog">>, AlertId(monitor, transition, at))
    <3> HIDE DEF P
    <3>1. OrElse(monitor, x.id) = monitor
      BY <2>1 DEF OrElse
    <3> QED BY <2>1, <3>1 DEF NormalizeDatadog, EventFields, KeyOf
  <2>2. ProviderEvent(s, e, d) = NormalizeDatadog(e) /\ ProviderEvent(s, h, d) = NormalizeDatadog(h)
    BY <1>5 DEF ProviderEvent
  <2>3. monitor # None
    BY <1>5
  <2> HIDE DEF P, monitor, transition, at
  <2> QED BY <2>1, <2>2, <2>3 DEF P
<1> QED BY <1>1, <1>2, <1>3, <1>4, <1>5

LEMMA GenericKey ==
  ASSUME NEW s, NEW d, NEW fresh
  PROVE  /\ NormalizeGeneric(s, d, fresh).key =
              OrElse(Lookup(d.headers, s.generic.dedupeHeader),
                     OrElse(Lookup(Payload(d), s.generic.dedupePointer),
                            <<SourceId>>
                              \o OrElse(Lookup(d.headers, "ce-id"),
                                    OrElse(Lookup(Payload(d), s.generic.idPointer),
                                           OrElse(Lookup(Payload(d), "id"), fresh)))
                              \o GenericType(s.generic, d)))
         /\ DOMAIN NormalizeGeneric(s, d, fresh) = EventFields
<1> DEFINE g == s.generic
           payload == Payload(d)
           type == GenericType(g, d)
           id == OrElse(Lookup(d.headers, "ce-id"),
                     OrElse(Lookup(payload, g.idPointer), OrElse(Lookup(payload, "id"), fresh)))
           key == OrElse(Lookup(d.headers, g.dedupeHeader),
                            OrElse(Lookup(payload, g.dedupePointer), <<SourceId>> \o id \o type))
           e == [id |-> id, type |-> type, kind |-> s.kind,
             subject |-> OrElse(Lookup(d.headers, "ce-subject"),
                                OrElse(Lookup(payload, g.subjectPointer), Lookup(payload, "subject"))),
             key |-> key,
             time |-> OrElse(Lookup(d.headers, "ce-time"), Lookup(payload, "time")),
             payload |-> payload, meta |-> NoMeta]
<1>1. NormalizeGeneric(s, d, fresh) = NormalizeSignal(e)
  BY DEF NormalizeGeneric
<1>2. e.key = key /\ e = [x \in EventFields |-> e[x]] /\ DOMAIN e = EventFields
  <2> HIDE DEF key, id, type, payload, g
  <2> QED BY DEF EventFields
<1> HIDE DEF e
<1>3. NormalizeSignal(e).key = e.key /\ DOMAIN NormalizeSignal(e) = EventFields
  BY <1>2, SignalKeepsTheKey
<1> QED BY <1>1, <1>2, <1>3

\* A message that SQS numbered becomes the same delivery every time.
LEMMA SqsIdDecides ==
  ASSUME NEW s, NEW d, NEW f, NEW h, d.message # None
  PROVE  SqsDelivery(s, d, f) = SqsDelivery(s, d, h)
<1>1. OrElse(d.message, f) = OrElse(d.message, h)
  BY DEF OrElse
<1> QED BY <1>1 DEF SqsDelivery


\* Such a delivery names the event: in its body or in the header it is given.
LEMMA SqsIsNamed ==
  ASSUME NEW s, NEW d \in Deliveries, NEW f, d.message # None,
         NEW m, m = SqsDelivery(s, d, f)
  PROVE  \/ Lookup(m.headers, "ce-id") # None
         \/ Lookup(Payload(m), s.generic.idPointer) # None
         \/ Lookup(Payload(m), "id") # None
<1> DEFINE payload == Payload(d)
           id == OrElse(Lookup(payload, s.generic.idPointer), Lookup(payload, "id"))
           type == OrElse(Lookup(payload, s.generic.typePointer), Lookup(payload, "type"))
           message == OrElse(d.message, f)
           given == [x \in {"x-sqs-message-id"} |-> message]
           found == [y \in {"ce-source", "ce-id", "ce-type"} |->
                        CASE y = "ce-source" -> <<SourceId>>
                          [] y = "ce-id" -> IF id = None THEN message ELSE None
                          [] y = "ce-type" -> IF type = None THEN <<"sqs.message">> ELSE None]
           headers == WithMetadata(given, found)
<1>1. m = [d EXCEPT !.headers = headers]
  BY DEF SqsDelivery
<1>2. m.headers = headers /\ m.json = d.json /\ m.fields = d.fields /\ m.body = d.body
  <2> HIDE DEF headers
  <2> QED BY <1>1, IntakeAssumption
<1>3. Payload(m) = payload
  BY <1>2 DEF Payload
<1>4. CASE id # None
  <2>1. Lookup(payload, s.generic.idPointer) # None \/ Lookup(payload, "id") # None
    BY <1>4 DEF OrElse
  <2> QED BY <1>3, <2>1
<1>5. CASE id = None
  <2>1. message = d.message
    BY DEF OrElse
  <2>2. found["ce-id"] = d.message
    <3> HIDE DEF message
    <3> QED BY <1>5, <2>1
  <2>3. "ce-id" \in DOMAIN found
    OBVIOUS
  <2> HIDE DEF found, given
  <2>4. "ce-id" \in DOMAIN headers /\ headers["ce-id"] = d.message
    BY <2>2, <2>3 DEF WithMetadata, Merge
  <2> QED BY <1>2, <2>4 DEF Lookup
<1> QED BY <1>4, <1>5

\* Delivered again, a delivery that says which it is gets the key it got.
LEMMA IdentifiedDecides ==
  ASSUME NEW s, NEW d \in Deliveries, Identified(s, d), NEW f, NEW h
  PROVE  EventOf(s, d, f).key = EventOf(s, d, h).key
<1>1. CASE d.via = "sqs"
  <2>1. d.message # None
    BY <1>1 DEF Identified
  <2> DEFINE m == SqsDelivery(s, d, f)
  <2>2. m = SqsDelivery(s, d, h)
    BY <2>1, SqsIdDecides
  <2>3. \/ Lookup(m.headers, "ce-id") # None
        \/ Lookup(Payload(m), s.generic.idPointer) # None
        \/ Lookup(Payload(m), "id") # None
    BY <2>1, SqsIsNamed
  <2>4. ASSUME NEW x, SqsDelivery(s, d, x) = m
        PROVE  EventOf(s, d, x).key = NormalizeGeneric(s, m, x).key
    <3> HIDE DEF m
    <3>1. DOMAIN NormalizeGeneric(s, m, x) = EventFields
      BY GenericKey
    <3>2. EventOf(s, d, x) = [NormalizeGeneric(s, m, x) EXCEPT
                                !.kind = "Sqs", !.meta = WithMetadata(@, [message_id |-> d.message])]
      BY <1>1, <2>4 DEF EventOf, NormalizeSqs
    <3> QED BY <3>1, <3>2 DEF EventFields
  <2>5. EventOf(s, d, f).key = NormalizeGeneric(s, m, f).key
    BY <2>4
  <2>6. EventOf(s, d, h).key = NormalizeGeneric(s, m, h).key
    BY <2>2, <2>4
  <2> HIDE DEF m
  <2> QED BY <2>3, <2>5, <2>6, GenericKey DEF OrElse
<1>2. CASE d.via = "generic"
  <2>1. /\ EventOf(s, d, f).key = NormalizeGeneric(s, d, f).key
        /\ EventOf(s, d, h).key = NormalizeGeneric(s, d, h).key
    BY <1>2 DEF EventOf
  <2>2. \/ Lookup(d.headers, "ce-id") # None \/ Lookup(Payload(d), "id") # None
        \/ Lookup(Payload(d), s.generic.idPointer) # None
        \/ Lookup(d.headers, s.generic.dedupeHeader) # None
        \/ Lookup(Payload(d), s.generic.dedupePointer) # None
    BY <1>2 DEF Identified
  <2> QED BY <2>1, <2>2, GenericKey DEF OrElse
<1>3. CASE d.via \notin {"sqs", "generic"}
  <2> DEFINE e == WebhookBaseEvent(s, d, f)
             b == WebhookBaseEvent(s, d, h)
             own == Lookup(d.headers, s.dedupeHeader)
  <2>1. /\ EventOf(s, d, f).key = NormalizeWebhook(s, d, f).key
        /\ EventOf(s, d, h).key = NormalizeWebhook(s, d, h).key
    BY <1>3 DEF EventOf
  <2>2. /\ NormalizeWebhook(s, d, f).key = OrElse(own, ProviderEvent(s, e, d).key)
        /\ NormalizeWebhook(s, d, h).key = OrElse(own, ProviderEvent(s, b, d).key)
    BY WebhookKey
  <2>3. /\ e = [x \in EventFields |-> e[x]] /\ e.payload = Payload(d)
        /\ b = [x \in EventFields |-> b[x]] /\ b.payload = Payload(d)
    BY BaseIsAnEvent
  <2>4. CASE own # None
    BY <2>1, <2>2, <2>4 DEF OrElse
  <2>5. CASE Lookup(d.headers, "ce-id") # None \/ Lookup(Payload(d), "id") # None
    <3>1. OrElse(Lookup(d.headers, "ce-id"), OrElse(Lookup(Payload(d), "id"), f))
            = OrElse(Lookup(d.headers, "ce-id"), OrElse(Lookup(Payload(d), "id"), h))
      BY <2>5 DEF OrElse
    <3>2. e = b
      BY <3>1 DEF WebhookBaseEvent
    <3> QED BY <2>1, <2>2, <3>2
  <2>6. CASE /\ own = None
             /\ Lookup(d.headers, "ce-id") = None /\ Lookup(Payload(d), "id") = None
    <3> HIDE DEF e, b
    <3>1. ProviderEvent(s, e, d).key = ProviderEvent(s, b, d).key
      BY <1>3, <2>3, <2>6, ProviderIdDecides DEF Identified
    <3> QED BY <2>1, <2>2, <3>1
  <2> QED BY <2>4, <2>5, <2>6
<1> QED BY <1>1, <1>2, <1>3

\* What is taken was made of its delivery, and marked by the keys before it.
TakenOk(list) ==
    /\ list = [k \in 1..Len(list) |-> list[k]] /\ Len(list) \in Nat
    /\ \A k \in 1..Len(list) :
          /\ list[k].delivery \in Deliveries
          /\ \E f : list[k].event = EventOf(list[k].source, list[k].delivery, f)
          /\ \A i \in 1..(k - 1) : list[i].event.key = list[k].event.key => list[k].deduped

LEMMA TakeKeeps ==
  ASSUME TakenOk(taken), NEW d \in Deliveries, NEW f, Take(d, EventOf(source, d, f))
  PROVE  TakenOk(taken)'
<1> DEFINE n == Len(taken)
           entry == [delivery |-> d, source |-> source, event |-> EventOf(source, d, f),
                     deduped |-> \E k \in DOMAIN taken : taken[k].event.key = EventOf(source, d, f).key]
<1>1. taken' = Append(taken, entry)
  BY DEF Take
<1>2. entry.delivery = d /\ entry.source = source /\ entry.event = EventOf(source, d, f)
  OBVIOUS
<1>3. \A k \in DOMAIN taken : taken[k].event.key = EventOf(source, d, f).key => entry.deduped
  OBVIOUS
<1> HIDE DEF entry
<1>4. n \in Nat /\ taken = [k \in 1..n |-> taken[k]]
  BY DEF TakenOk
<1>5. /\ Len(taken') = n + 1
      /\ taken' = [k \in 1..Len(taken') |-> taken'[k]]
      /\ taken'[n + 1] = entry
      /\ \A k \in 1..n : taken'[k] = taken[k]
  <2> DEFINE S == {taken[k] : k \in 1..n} \cup {entry}
  <2>1. entry \in S /\ \A k \in 1..n : taken[k] \in S
    OBVIOUS
  <2> HIDE DEF S
  <2>2. taken \in Seq(S)
    BY <1>4, <2>1
  <2>3. taken' \in Seq(S)
    BY <1>1, <2>1, <2>2
  <2>4. Len(taken') = n + 1
    BY <1>1, <2>1, <2>2
  <2>5. taken' = [k \in 1..Len(taken') |-> taken'[k]]
    BY <2>3
  <2>6. taken'[n + 1] = entry
    BY <1>1, <1>4, <2>1, <2>2
  <2>7. \A k \in 1..n : taken'[k] = taken[k]
    BY <1>1, <1>4, <2>1, <2>2
  <2> QED BY <2>4, <2>5, <2>6, <2>7
<1>6. ASSUME NEW k \in 1..(n + 1)
      PROVE  /\ taken'[k].delivery \in Deliveries
             /\ \E x : taken'[k].event = EventOf(taken'[k].source, taken'[k].delivery, x)
             /\ \A i \in 1..(k - 1) : taken'[i].event.key = taken'[k].event.key => taken'[k].deduped
  <2>1. CASE k = n + 1
    <3>1. \A i \in 1..(k - 1) : taken'[i] = taken[i] /\ i \in DOMAIN taken
      BY <1>4, <1>5, <2>1
    <3> QED BY <1>2, <1>3, <1>5, <2>1, <3>1
  <2>2. CASE k # n + 1
    <3>1. k \in 1..n /\ taken'[k] = taken[k] /\ \A i \in 1..(k - 1) : taken'[i] = taken[i]
      BY <1>4, <1>5, <2>2
    <3> QED BY <3>1 DEF TakenOk
  <2> QED BY <2>1, <2>2
<1> QED BY <1>4, <1>5, <1>6 DEF TakenOk

\* A delivery that its sender repeats is found to be a duplicate, whichever
\* normalisation made its key: normalize_webhook_event, normalize_generic_event
\* and normalize_sqs_message never mix a fresh id into one that identifies.
THEOREM RetriesAreFound == IntakeSpec => []RetriesAreDeduped
<1> DEFINE Inv == TakenOk(taken)
<1>1. IntakeInit => Inv
  BY DEF IntakeInit, TakenOk
<1>2. Inv /\ [IntakeNext]_intakeVars => Inv'
  <2> SUFFICES ASSUME Inv, [IntakeNext]_intakeVars PROVE Inv'
    OBVIOUS
  <2>1. ASSUME NEW d \in Deliveries, d.via = "webhook", Take(d, NormalizeWebhook(source, d, Fresh))
        PROVE  Inv'
    <3>1. EventOf(source, d, Fresh) = NormalizeWebhook(source, d, Fresh)
      BY <2>1 DEF EventOf
    <3> QED BY <2>1, <3>1, TakeKeeps
  <2>2. ASSUME NEW d \in Deliveries, d.via = "generic", Take(d, NormalizeGeneric(source, d, Fresh))
        PROVE  Inv'
    <3>1. EventOf(source, d, Fresh) = NormalizeGeneric(source, d, Fresh)
      BY <2>2 DEF EventOf
    <3> QED BY <2>2, <3>1, TakeKeeps
  <2>3. ASSUME NEW d \in Deliveries, d.via = "sqs", Take(d, NormalizeSqs(source, d, Fresh))
        PROVE  Inv'
    <3>1. EventOf(source, d, Fresh) = NormalizeSqs(source, d, Fresh)
      BY <2>3 DEF EventOf
    <3> QED BY <2>3, <3>1, TakeKeeps
  <2>4. CASE UNCHANGED taken
    BY <2>4 DEF TakenOk
  <2> QED
    BY <2>1, <2>2, <2>3, <2>4
    DEF IntakeNext, intakeVars, RegisterEventSource, WebhookEvent, GenericEvent, SqsEvent, Tick
<1>3. Inv => RetriesAreDeduped
  <2> SUFFICES ASSUME Inv, NEW j \in DOMAIN taken, NEW i \in 1..(j - 1),
                      taken[i].delivery = taken[j].delivery, taken[i].source = taken[j].source,
                      Identified(taken[j].source, taken[j].delivery)
               PROVE  taken[j].deduped
    BY DEF RetriesAreDeduped
  <2>1. j \in 1..Len(taken) /\ i \in 1..Len(taken)
    BY DEF TakenOk
  <2>2. PICK f, h : /\ taken[i].event = EventOf(taken[j].source, taken[j].delivery, f)
                    /\ taken[j].event = EventOf(taken[j].source, taken[j].delivery, h)
    BY <2>1 DEF TakenOk
  <2>3. taken[j].delivery \in Deliveries
    BY <2>1 DEF TakenOk
  <2>4. taken[i].event.key = taken[j].event.key
    BY <2>2, <2>3, IdentifiedDecides
  <2> QED BY <2>1, <2>4 DEF TakenOk
<1> QED BY <1>1, <1>2, <1>3, PTL DEF IntakeSpec
=============================================================================
