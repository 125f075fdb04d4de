------------------------------ MODULE Notifier ------------------------------
(***************************************************************************)
(* coat-notifier: the outbox of external deliveries and the thread ledger. *)
(* The store is a map behind a lock that no handler keeps across an await: *)
(* a handler clones an entry, waits for the delivery and the journal, and  *)
(* inserts the whole entry again.                                          *)
(*                                                                         *)
(* An entry keeps its status, its attempts and its target; timestamps,     *)
(* references and error texts follow the status and are left out.  Times   *)
(* are abstract: any scheduled retry may be due.                           *)
(***************************************************************************)
EXTENDS Jsonl, FiniteSets, NotificationTargets

CONSTANTS
    Handlers,       \* concurrent requests
    Ids,            \* bound: outbox entry ids that may be generated
    Requests,       \* notification requests: sequences of targets
    MaxAttempts,    \* COAT_NOTIFIER_MAX_ATTEMPTS
    MaxCalls,       \* bound: requests
    MaxCrashes      \* bound: crashes of the process

ASSUME NotifierAssumption ==
    /\ Ids \subseteq Nat
    /\ Requests \subseteq Seq(Target)
    /\ MaxAttempts \in Nat
    /\ MaxCalls \in Nat
    /\ MaxCrashes \in Nat

VARIABLES
    store,      \* NotificationStore.outbox, in memory
    threads,    \* number of entries in NotificationStore.threads
    journal,    \* the journal file
    owed,       \* newlines handed to the file but not written yet
    phase,      \* the process: up or down
    frame,      \* the request each handler is working on
    issued,     \* entry ids generated
    reached,    \* entries whose target was reached
    acked,      \* entries whose acknowledgement was answered with success
    overlapped, \* whether two requests were ever in progress together
    calls,
    crashes

vars == <<store, threads, journal, owed, phase, frame, issued, reached,
          acked, overlapped, calls, crashes>>

Status == {"Pending", "Delivered", "AwaitingAck", "Acknowledged",
           "RetryScheduled", "DeadLettered"}

Entry == [status : Status, attempts : Nat, target : Target]

NewEntry(target) == [status |-> "Pending", attempts |-> 0, target |-> target]

\* Journal entries.
Outbox(id, entry) == [kind |-> "outbox", id |-> id, entry |-> entry]
Thread == [kind |-> "thread"]

\* Mutant: forgets that an acknowledged entry is finished.
RetryableUnlessSent(status) == status \notin {"Delivered", "AwaitingAck"}

Retryable(status) == status \in {"Pending", "RetryScheduled", "DeadLettered"}

MaxTries == IF MaxAttempts = 0 THEN 1 ELSE MaxAttempts

StatusAfterFailure(attempts) ==
    IF attempts >= MaxTries THEN "DeadLettered" ELSE "RetryScheduled"

\* attempt_outbox_delivery on a clone, with the adapter's report.
Attempt(entry, ok) ==
    [entry EXCEPT
        !.attempts = @ + 1,
        !.status = IF ~ok THEN StatusAfterFailure(entry.attempts + 1)
                   ELSE IF entry.target.requireAck THEN "AwaitingAck"
                   ELSE "Delivered"]

\* acknowledge_outbox_entry refuses what was not delivered.
CanAcknowledge(entry) ==
    entry.status \notin {"Pending", "RetryScheduled", "DeadLettered"}

Acknowledge(entry) == [entry EXCEPT !.status = "Acknowledged"]

Insert(s, id, entry) ==
    [i \in DOMAIN s \cup {id} |-> IF i = id THEN entry ELSE s[i]]

\* A handler's local state: what it does next, the targets notify has still
\* to deliver, the entries it has still to journal, the ids left to retry,
\* and the entry it acknowledges.
Idle == [at |-> "idle", rest |-> <<>>, batch |-> <<>>, due |-> {}, ack |-> {}]

Begin(h, f) ==
    /\ phase = "up"
    /\ frame[h] = Idle
    /\ calls < MaxCalls
    /\ calls' = calls + 1
    /\ frame' = [frame EXCEPT ![h] = f]
    /\ overlapped' = (overlapped \/ \E g \in Handlers : frame[g] # Idle)
    /\ UNCHANGED <<store, threads, journal, owed, phase, issued, reached,
                   acked, crashes>>

Init ==
    /\ store = <<>>
    /\ threads = 0
    /\ journal = <<>>
    /\ owed = 0
    /\ phase = "up"
    /\ frame = [h \in Handlers |-> Idle]
    /\ issued = {}
    /\ reached = {}
    /\ acked = {}
    /\ overlapped = FALSE
    /\ calls = 0
    /\ crashes = 0

-----------------------------------------------------------------------------
(* Requests.                                                               *)

FreshIds == Ids \ issued

\* Deliveries that the running notify handlers have still to make.
Undelivered == UNION {{h} \X DOMAIN frame[h].rest : h \in Handlers}

\* Without targets notify only logs and records the thread entry.
Notify(h) ==
    \E request \in Requests :
        /\ Len(request) + Cardinality(Undelivered) <= Cardinality(FreshIds)
        /\ Begin(h, IF request = <<>>
                    THEN [Idle EXCEPT !.at = "append", !.batch = <<Thread>>]
                    ELSE [Idle EXCEPT !.at = "deliver", !.rest = request])

AckOutbox(h) ==
    \E id \in DOMAIN store :
        /\ CanAcknowledge(store[id])
        /\ Begin(h, [Idle EXCEPT !.at = "append", !.ack = {id},
                         !.batch = <<Outbox(id, Acknowledge(store[id]))>>])

RetryOutbox(h) ==
    \E id \in DOMAIN store :
        Begin(h, [Idle EXCEPT !.at = "pick", !.due = {id}])

RetryDueOutbox(h) ==
    \E due \in SUBSET {id \in DOMAIN store : store[id].status = "RetryScheduled"} :
        /\ due # {}
        /\ Begin(h, [Idle EXCEPT !.at = "pick", !.due = due])

-----------------------------------------------------------------------------
(* Steps of a handler between two awaits.                                  *)

\* retry_outbox_entry clones the entry; one that cannot be retried is an
\* error, which also ends retry_due_outbox.
PickRetry(h) ==
    /\ frame[h].at = "pick"
    /\ \E id \in frame[h].due :
           frame' = [frame EXCEPT ![h] =
               IF Retryable(store[id].status)
               THEN [frame[h] EXCEPT !.at = "redeliver", !.due = @ \ {id},
                                     !.batch = <<Outbox(id, store[id])>>]
               ELSE Idle]
    /\ UNCHANGED <<store, threads, journal, owed, phase, issued, reached,
                   acked, overlapped, calls, crashes>>

Reported(id, report) ==
    /\ issued' = issued \cup {id}
    /\ reached' = IF report.reached THEN reached \cup {id} ELSE reached
    /\ UNCHANGED <<store, threads, journal, owed, phase, acked, overlapped, calls, crashes>>

Redeliver(h) ==
    LET line == Head(frame[h].batch) IN
    /\ frame[h].at = "redeliver"
    /\ \E report \in DeliverTarget(line.entry.target) :
           /\ frame' = [frame EXCEPT ![h].at = "append",
                  ![h].batch = <<Outbox(line.id, Attempt(line.entry, report.delivered))>>]
           /\ Reported(line.id, report)

\* notify delivers to every target first; only then it journals the entries
\* and the thread entry.
DeliverNext(h) ==
    LET rest == frame[h].rest
        target == Head(rest)
        after == IF Tail(rest) = <<>> THEN <<Thread>> ELSE <<>>
        next == IF Tail(rest) = <<>> THEN "append" ELSE "deliver" IN
    /\ frame[h].at = "deliver"
    \* Uuid::new_v4; ids are interchangeable, so the least one stands for any.
    /\ \E id \in FreshIds, report \in DeliverTarget(target) :
           /\ \A j \in FreshIds : id <= j
           /\ frame' = [frame EXCEPT ![h].at = next, ![h].rest = Tail(rest),
                  ![h].batch = @ \o <<Outbox(id, Attempt(NewEntry(target), report.delivered))>>
                                 \o after]
           /\ Reported(id, report)

\* The entry reaches the file before write_all of the newline returns; the
\* newline itself is left to the file's background write.
AppendJournal(h) ==
    /\ frame[h].at = "append"
    /\ journal' = Append(journal, Head(frame[h].batch))
    /\ owed' = owed + 1
    /\ frame' = [frame EXCEPT ![h].at = "insert"]
    /\ UNCHANGED <<store, threads, phase, issued, reached, acked, overlapped, calls, crashes>>

\* The file cannot be opened or written: the handler answers with an error.
JournalFails(h) ==
    /\ frame[h].at = "append"
    /\ frame' = [frame EXCEPT ![h] = Idle]
    /\ UNCHANGED <<store, threads, journal, owed, phase, issued, reached,
                   acked, overlapped, calls, crashes>>

\* Insert what was journalled, then go on with the batch, the next due id or
\* the answer.
InsertEntry(h) ==
    LET line == Head(frame[h].batch)
        batch == Tail(frame[h].batch)
        next == IF batch # <<>> THEN "append"
                ELSE IF frame[h].due # {} THEN "pick" ELSE "idle" IN
    /\ frame[h].at = "insert"
    /\ store' = IF line.kind = "outbox" THEN Insert(store, line.id, line.entry)
                ELSE store
    /\ threads' = IF line.kind = "thread" THEN threads + 1 ELSE threads
    /\ acked' = acked \cup frame[h].ack
    /\ frame' = [frame EXCEPT ![h] = IF next = "idle" THEN Idle
                                     ELSE [frame[h] EXCEPT !.at = next, !.batch = batch]]
    /\ UNCHANGED <<journal, owed, phase, issued, reached, overlapped, calls, crashes>>

WriteNewline ==
    /\ owed > 0
    /\ owed' = owed - 1
    /\ journal' = Append(journal, Newline)
    /\ UNCHANGED <<store, threads, phase, frame, issued, reached, acked,
                   overlapped, calls, crashes>>

-----------------------------------------------------------------------------
(* The process.                                                            *)

Crash ==
    /\ phase = "up"
    /\ crashes < MaxCrashes
    /\ crashes' = crashes + 1
    /\ phase' = "down"
    /\ store' = <<>>
    /\ threads' = 0
    /\ owed' = 0
    /\ frame' = [h \in Handlers |-> Idle]
    /\ UNCHANGED <<journal, issued, reached, acked, overlapped, calls>>

\* Mutant: the replay keeps the first entry of an id.
ReplayedFirst ==
    LET outbox == {k \in 1..Len(journal) : journal[k].kind = "outbox"} IN
    [id \in {journal[k].id : k \in outbox} |->
        journal[CHOOSE k \in outbox : /\ journal[k].id = id
                                      /\ \A j \in outbox : journal[j].id = id => k <= j].entry]

\* apply_journal_entry over the file: the last entry of an id wins.
ReplayedOutbox ==
    LET outbox == {k \in 1..Len(journal) : journal[k].kind = "outbox"} IN
    [id \in {journal[k].id : k \in outbox} |->
        journal[CHOOSE k \in outbox : /\ journal[k].id = id
                                      /\ \A j \in outbox : journal[j].id = id => j <= k].entry]

ReplayedThreads == Cardinality({k \in 1..Len(journal) : journal[k].kind = "thread"})

\* main fails, and the process stays down, when the journal cannot be read.
Start ==
    /\ phase = "down"
    /\ Readable(journal)
    /\ phase' = "up"
    /\ store' = ReplayedOutbox
    /\ threads' = ReplayedThreads
    /\ UNCHANGED <<journal, owed, frame, issued, reached, acked, overlapped, calls, crashes>>

Work(h) ==
    \/ PickRetry(h)
    \/ Redeliver(h)
    \/ DeliverNext(h)
    \/ AppendJournal(h)
    \/ JournalFails(h)
    \/ InsertEntry(h)

\* No request comes, or every start fails on the journal.
Quiescent ==
    /\ \/ /\ phase = "up" /\ owed = 0
          /\ \A h \in Handlers : frame[h] = Idle
       \/ phase = "down" /\ ~Readable(journal)
    /\ UNCHANGED vars

Next ==
    \/ \E h \in Handlers :
           Notify(h) \/ AckOutbox(h) \/ RetryOutbox(h) \/ RetryDueOutbox(h) \/ Work(h)
    \/ WriteNewline
    \/ Crash
    \/ Start
    \/ Quiescent

Spec == Init /\ [][Next]_vars
-----------------------------------------------------------------------------
(* Properties *)

\* A handler is between its journal append and its insert.
Inserting == \E h \in Handlers : frame[h].at = "insert"

\* As long as requests came one at a time and the file can be read, a restart
\* would show exactly what the running service shows: replay_journal agrees
\* with the inserts.
RestartShowsTheSame ==
    phase = "up" /\ Readable(journal) /\ ~Inserting /\ ~overlapped =>
        store = ReplayedOutbox /\ threads = ReplayedThreads

\* When requests do not overlap, an acknowledgement that was answered with
\* success outlives every later retry and every restart.
AcknowledgedStays ==
    phase = "up" /\ ~overlapped =>
        \A id \in acked : store[id].status = "Acknowledged"

\* What did not reach its target stays in front of an operator: whichever
\* adapter failed, timed out or had nothing to send with, and whichever
\* handlers worked on clones of the entry, it is in the operator queue.  The
\* exception is an email kept in memory, once somebody acknowledged it.
UnreachedStaysVisible ==
    \A id \in DOMAIN store \ reached :
        \/ InOperatorQueue(store[id].status, store[id].target)
        \/ store[id].target.kind = "Email" /\ store[id].status = "Acknowledged"
=============================================================================
