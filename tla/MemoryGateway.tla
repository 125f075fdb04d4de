---------------------------- MODULE MemoryGateway ----------------------------
(***************************************************************************)
(* The memory gateway: a ledger of records and events in memory, the       *)
(* journal it is rebuilt from, and two external indexes, Graphiti and      *)
(* Qdrant, that every operation is forwarded to after the ledger changed.  *)
(* Writes, joins and retractions hold the write lock until the journal has *)
(* them; a search journals its read event after the lock is gone.  An      *)
(* edit is a retraction followed by a write, and a repair copies records   *)
(* it cloned at its start to the indexes.                                  *)
(***************************************************************************)
EXTENDS Naturals, Sequences, FiniteSets, Jsonl

CONSTANTS
    MemoryRequests,     \* requests clients may send
    MaxMemoryCalls,     \* bound: requests sent
    MaxMemoryInFlight,  \* bound: requests handled at a time
    MaxMemoryFaults     \* bound: crashes, failed appends, failed adapter calls

VARIABLES
    ledger,         \* MemoryStore: records and events
    memoryJournal,  \* the journal file
    graph,          \* Graphiti: the episode kept for each key
    points,         \* Qdrant: the point kept for each key
    memoryCalls,    \* requests in progress
    memoryUp, memorySent, memoryFaults,
    memoryIntact    \* history: every append so far has succeeded

memoryVars == <<ledger, memoryJournal, graph, points, memoryCalls, memoryUp,
                memorySent, memoryFaults, memoryIntact>>

EmptyLedger == [records |-> {}, events |-> <<>>]

\* MemoryRecord; `content` stands for its episode, `last` for its event.
MemoryRecord(key, goal, content) ==
    [key |-> key, goal |-> goal, content |-> content, last |-> "Write",
     promoted |-> FALSE, invalidated |-> FALSE]

\* One event per key; the keys of one operation are kept together.
MemoryEvent(goal, action, keys) == [goal |-> goal, action |-> action, keys |-> keys]

KnownKeys(records, keys) == {k \in keys : \E r \in records : r.key = k}

PutRecord(records, record) == {r \in records : r.key # record.key} \cup {record}

Promote(records, keys) ==
    {IF r.key \in keys THEN [r EXCEPT !.promoted = TRUE, !.last = "Join"] ELSE r : r \in records}
Invalidate(records, keys) ==
    {IF r.key \in keys THEN [r EXCEPT !.invalidated = TRUE] ELSE r : r \in records}
RetractRecords(records, keys) ==
    {IF r.key \in keys THEN [r EXCEPT !.invalidated = TRUE, !.last = "Retract"] ELSE r :
        r \in records}

Happened(store, records, events) ==
    [store EXCEPT !.records = records, !.events = @ \o events]

-----------------------------------------------------------------------------
(* The four changes of the ledger, and the entries they journal.           *)

WriteEntry(h) == [kind |-> "Write", goal |-> h.req.goal,
                  record |-> MemoryRecord(h.req.key, h.req.goal, h.content)]
WriteMemoryInner(store, h) ==
    LET record == MemoryRecord(h.req.key, h.req.goal, h.content)
    IN  Happened(store, PutRecord(store.records, record),
                 <<MemoryEvent(h.req.goal, "Write", {h.req.key})>>)

\* The keys of other goals are not asked for.
JoinEntry(store, h) ==
    [kind |-> "Join", goal |-> h.req.goal,
     promoted |-> KnownKeys(store.records, h.req.promote),
     invalidated |-> KnownKeys(store.records, h.req.invalidate)]
JoinMemoryInner(store, h) ==
    LET entry == JoinEntry(store, h)
    IN  Happened(store,
                 Invalidate(Promote(store.records, entry.promoted), entry.invalidated),
                 <<MemoryEvent(h.req.goal, "Join", entry.promoted),
                   MemoryEvent(h.req.goal, "Invalidate", entry.invalidated)>>)

\* A key of another goal is reported missing.
RetractEntry(store, h) ==
    [kind |-> "Retract", goal |-> h.req.goal,
     retracted |-> KnownKeys({r \in store.records : r.goal = h.req.goal}, h.req.keys)]
RetractMemoryInner(store, h) ==
    LET keys == RetractEntry(store, h).retracted
    IN  Happened(store, RetractRecords(store.records, keys),
                 <<MemoryEvent(h.req.goal, "Retract", keys)>>)

ReadEntry(h) == [kind |-> "Read", goal |-> h.req.goal]

\* search_memory_inner: what the ledger itself finds.
LedgerHits(h) ==
    {r.key : r \in {r \in ledger.records : r.goal = h.req.goal /\ ~r.invalidated}}

\* Mutant: a replayed join promotes and forgets what it invalidated.
ApplyJoinPromotesOnly(store, entry) ==
    CASE entry.kind = "Write" ->
            Happened(store, PutRecord(store.records, entry.record),
                     <<MemoryEvent(entry.goal, "Write", {entry.record.key})>>)
      [] entry.kind = "Read" -> Happened(store, store.records, <<MemoryEvent(entry.goal, "Read", {})>>)
      [] entry.kind = "Join" ->
            Happened(store, Promote(store.records, entry.promoted),
                     <<MemoryEvent(entry.goal, "Join", entry.promoted),
                       MemoryEvent(entry.goal, "Invalidate", entry.invalidated)>>)
      [] entry.kind = "Retract" ->
            Happened(store, RetractRecords(store.records, entry.retracted),
                     <<MemoryEvent(entry.goal, "Retract", entry.retracted)>>)

ApplyJournalEntry(store, entry) ==
    CASE entry.kind = "Write" ->
            Happened(store, PutRecord(store.records, entry.record),
                     <<MemoryEvent(entry.goal, "Write", {entry.record.key})>>)
      [] entry.kind = "Read" -> Happened(store, store.records, <<MemoryEvent(entry.goal, "Read", {})>>)
      [] entry.kind = "Join" ->
            Happened(store,
                     Invalidate(Promote(store.records, entry.promoted), entry.invalidated),
                     <<MemoryEvent(entry.goal, "Join", entry.promoted),
                       MemoryEvent(entry.goal, "Invalidate", entry.invalidated)>>)
      [] entry.kind = "Retract" ->
            Happened(store, RetractRecords(store.records, entry.retracted),
                     <<MemoryEvent(entry.goal, "Retract", entry.retracted)>>)

\* Blank lines are skipped.
LoadJournal(file) ==
    LET loaded[n \in 0..Len(file)] ==
            IF n = 0 THEN EmptyLedger
            ELSE IF IsEntry(file[n]) THEN ApplyJournalEntry(loaded[n - 1], file[n])
            ELSE loaded[n - 1]
    IN  loaded[Len(file)]

-----------------------------------------------------------------------------
(* What the indexes hold.                                                  *)

\* The payload of a point: of a write as the request had it, of a repair as
\* the cloned record has it.
WrittenPoint(h) ==
    [key |-> h.req.key, goal |-> h.req.goal, content |-> h.content,
     promoted |-> FALSE, invalidated |-> FALSE]
RecordPoint(r) ==
    [key |-> r.key, goal |-> r.goal, content |-> r.content,
     promoted |-> r.promoted, invalidated |-> r.invalidated]
\* Mutant: a repair writes the point the first write would have written.
RepairPointAsWritten(r) ==
    [key |-> r.key, goal |-> r.goal, content |-> r.content,
     promoted |-> FALSE, invalidated |-> FALSE]
RepairPoint(r) == RecordPoint(r)

\* Joins and retractions leave a point of their own, under a key per goal.
DecisionPoint(h, op) ==
    [key |-> op, goal |-> h.req.goal, content |-> h.content,
     promoted |-> FALSE, invalidated |-> FALSE]

Put(map, key, value) ==
    [k \in DOMAIN map \cup {key} |-> IF k = key THEN value ELSE map[k]]
RecordId(key) == <<"record", key>>

\* qdrant_filter: goal and scope, not whether the record was invalidated.
VectorHits(h) ==
    {points[k].key : k \in {k \in DOMAIN points : points[k].goal = h.req.goal}}

\* merge_hits: by key; the ledger's hit stays.
MergeHits(hits, vectorHits) == hits \cup vectorHits

-----------------------------------------------------------------------------
(* Requests.                                                               *)

\* Mutant: an edit writes first and retracts afterwards.
PhasesWriteFirst(op) ==
    CASE op = "edit" -> <<"write", "retract">>
      [] op = "context" -> <<"search">>
      [] op = "repair" -> <<>>
      [] op \in {"write", "search", "join", "retract"} -> <<op>>

\* The ledger operations of a request, in order.
Phases(op) ==
    CASE op = "edit" -> <<"retract", "write">>
      [] op = "context" -> <<"search">>
      [] op = "repair" -> <<>>
      [] op \in {"write", "search", "join", "retract"} -> <<op>>

Op(h) == Phases(h.req.op)[h.phase]

\* The write lock is held until the journal has the entry, except for reads.
Locked == \E h \in memoryCalls : h.at \in {"entry", "newline"} /\ Op(h) # "search"

\* The routes, which are also the tools of the MCP endpoint.
MemoryTools == {"write", "search", "context", "join", "retract", "edit", "repair"}

\* preview_memory_edit_inner: ready_to_edit
ReadyToEdit(req) ==
    /\ req.keys # {}
    /\ \A k \in req.keys : \E r \in ledger.records : r.key = k /\ r.goal = req.goal

MemoryInit ==
    /\ ledger = EmptyLedger
    /\ memoryJournal = <<>>
    /\ graph = <<>>
    /\ points = <<>>
    /\ memoryCalls = {}
    /\ memoryUp = TRUE
    /\ memorySent = 0
    /\ memoryFaults = 0
    /\ memoryIntact = TRUE

ReceiveMemory(req) ==
    /\ memoryUp
    /\ req.op \in MemoryTools
    /\ memorySent < MaxMemoryCalls
    /\ Cardinality(memoryCalls) < MaxMemoryInFlight
    /\ memorySent' = memorySent + 1
    /\ memoryCalls' = {[h EXCEPT !.alone = FALSE] : h \in memoryCalls} \cup
          {[req |-> req, content |-> memorySent + 1, phase |-> 1,
            at |-> IF req.op = "repair" THEN "clone" ELSE "ledger",
            entry |-> Newline, todo |-> {}, hits |-> {}, failed |-> FALSE,
            ready |-> req.op = "edit" /\ ReadyToEdit(req), alone |-> memoryCalls = {}]}
    /\ UNCHANGED <<ledger, memoryJournal, graph, points, memoryUp, memoryFaults, memoryIntact>>

Step(h, next) == memoryCalls' = (memoryCalls \ {h}) \cup {next}

\* The request ends with an error, what it changed so far stays.
MemoryError(h) == memoryCalls' = memoryCalls \ {h}

\* Under the write lock: memory changes, then the journal is appended to.
ChangeLedger(h) ==
    /\ memoryUp /\ h.at = "ledger" /\ Op(h) # "search" /\ ~Locked
    /\ \/ /\ Op(h) = "write"
          /\ ledger' = WriteMemoryInner(ledger, h)
          /\ Step(h, [h EXCEPT !.at = "entry", !.entry = WriteEntry(h)])
       \/ /\ Op(h) = "join"
          /\ ledger' = JoinMemoryInner(ledger, h)
          /\ Step(h, [h EXCEPT !.at = "entry", !.entry = JoinEntry(ledger, h)])
       \/ /\ Op(h) = "retract"
          /\ ledger' = RetractMemoryInner(ledger, h)
          /\ Step(h, [h EXCEPT !.at = "entry", !.entry = RetractEntry(ledger, h)])
    /\ UNCHANGED <<memoryJournal, graph, points, memoryUp, memorySent, memoryFaults, memoryIntact>>

\* A search reads under one lock and notes its read event under the next.
SearchLedger(h) ==
    /\ memoryUp /\ h.at = "ledger" /\ Op(h) = "search" /\ ~Locked
    /\ Step(h, [h EXCEPT !.at = "note", !.hits = LedgerHits(h)])
    /\ UNCHANGED <<ledger, memoryJournal, graph, points, memoryUp, memorySent, memoryFaults, memoryIntact>>

NoteRead(h) ==
    /\ memoryUp /\ h.at = "note" /\ ~Locked
    /\ ledger' = Happened(ledger, ledger.records, <<MemoryEvent(h.req.goal, "Read", {})>>)
    /\ Step(h, [h EXCEPT !.at = "entry", !.entry = ReadEntry(h)])
    /\ UNCHANGED <<memoryJournal, graph, points, memoryUp, memorySent, memoryFaults, memoryIntact>>

\* append_journal: the line and its newline are two writes; either may fail.
AppendMemoryJournal(h) ==
    /\ memoryUp /\ h.at \in {"entry", "newline"}
    /\ \/ /\ memoryJournal' = Append(memoryJournal, IF h.at = "entry" THEN h.entry ELSE Newline)
          /\ Step(h, [h EXCEPT !.at = IF h.at = "entry" THEN "newline" ELSE "graphiti"])
          /\ UNCHANGED <<memoryFaults, memoryIntact>>
       \/ /\ memoryFaults < MaxMemoryFaults
          /\ memoryFaults' = memoryFaults + 1
          /\ memoryIntact' = FALSE
          /\ MemoryError(h)
          /\ UNCHANGED memoryJournal
    /\ UNCHANGED <<ledger, graph, points, memoryUp, memorySent>>

\* An adapter call that fails is reported to the caller and changes nothing.
AdapterFails ==
    /\ memoryFaults < MaxMemoryFaults
    /\ memoryFaults' = memoryFaults + 1

\* The rest of a request after an adapter reported, failed or not.
AfterQdrant(h) ==
    IF h.phase < Len(Phases(h.req.op)) THEN [h EXCEPT !.phase = @ + 1, !.at = "ledger"]
    ELSE [h EXCEPT !.at = "done"]

\* graphiti_add_episode, graphiti_search: the answer of a search is only
\* reported, a join or a retraction adds an episode of its own.
ForwardToGraphiti(h) ==
    /\ memoryUp /\ h.at = "graphiti"
    /\ \/ /\ graph' = IF Op(h) = "write" THEN Put(graph, h.req.key, h.content) ELSE graph
          /\ Step(h, [h EXCEPT !.at = "qdrant"])
          /\ UNCHANGED memoryFaults
       \/ /\ AdapterFails
          /\ Step(h, [h EXCEPT !.at = "qdrant", !.failed = TRUE])
          /\ UNCHANGED graph
    /\ UNCHANGED <<ledger, memoryJournal, points, memoryUp, memorySent, memoryIntact>>

\* qdrant_upsert_text: embedding, collection and point, any of which may fail.
ForwardToQdrant(h) ==
    /\ memoryUp /\ h.at = "qdrant" /\ Op(h) # "search"
    /\ \/ /\ points' = IF Op(h) = "write" THEN Put(points, RecordId(h.req.key), WrittenPoint(h))
                       ELSE Put(points, <<Op(h), h.req.goal>>, DecisionPoint(h, Op(h)))
          /\ Step(h, AfterQdrant(h))
          /\ UNCHANGED memoryFaults
       \/ /\ AdapterFails
          /\ Step(h, [AfterQdrant(h) EXCEPT !.failed = TRUE])
          /\ UNCHANGED points
    /\ UNCHANGED <<ledger, memoryJournal, graph, memoryUp, memorySent, memoryIntact>>

\* qdrant_search
SearchQdrant(h) ==
    /\ memoryUp /\ h.at = "qdrant" /\ Op(h) = "search"
    /\ \/ /\ Step(h, [AfterQdrant(h) EXCEPT !.hits = MergeHits(@, VectorHits(h))])
          /\ UNCHANGED memoryFaults
       \/ /\ AdapterFails
          /\ Step(h, [AfterQdrant(h) EXCEPT !.failed = TRUE])
    /\ UNCHANGED <<ledger, memoryJournal, graph, points, memoryUp, memorySent, memoryIntact>>

\* repair_memory_with_adapters: the records are cloned under the read lock.
Selected(req, records) ==
    {r \in records : /\ r.goal = req.goal
                     /\ r.key \in req.keys
                     /\ req.includeInvalidated \/ ~r.invalidated}

CloneRecords(h) ==
    /\ memoryUp /\ h.at = "clone" /\ ~Locked
    /\ Step(h, [h EXCEPT !.at = "repair",
                         !.todo = IF h.req.dryRun THEN {}
                                  ELSE Selected(h.req, ledger.records) \X {"graphiti", "qdrant"}])
    /\ UNCHANGED <<ledger, memoryJournal, graph, points, memoryUp, memorySent, memoryFaults, memoryIntact>>

RepairRecord(h) ==
    /\ memoryUp /\ h.at = "repair"
    /\ \E job \in h.todo :
          \/ /\ job[2] = "graphiti"
             /\ graph' = Put(graph, job[1].key, job[1].content)
             /\ Step(h, [h EXCEPT !.todo = @ \ {job}])
             /\ UNCHANGED <<points, memoryFaults>>
          \/ /\ job[2] = "qdrant"
             /\ points' = Put(points, RecordId(job[1].key), RepairPoint(job[1]))
             /\ Step(h, [h EXCEPT !.todo = @ \ {job}])
             /\ UNCHANGED <<graph, memoryFaults>>
          \/ /\ AdapterFails
             /\ Step(h, [h EXCEPT !.todo = @ \ {job}, !.failed = TRUE])
             /\ UNCHANGED <<graph, points>>
    /\ UNCHANGED <<ledger, memoryJournal, memoryUp, memorySent, memoryIntact>>

RepairEnds(h) ==
    /\ memoryUp /\ h.at = "repair" /\ h.todo = {}
    /\ Step(h, [h EXCEPT !.at = "done"])
    /\ UNCHANGED <<ledger, memoryJournal, graph, points, memoryUp, memorySent, memoryFaults, memoryIntact>>

AnswerMemory(h) ==
    /\ memoryUp /\ h.at = "done"
    /\ memoryCalls' = memoryCalls \ {h}
    /\ UNCHANGED <<ledger, memoryJournal, graph, points, memoryUp, memorySent, memoryFaults, memoryIntact>>

MemoryCrash ==
    /\ memoryUp
    /\ memoryFaults < MaxMemoryFaults
    /\ memoryFaults' = memoryFaults + 1
    /\ memoryUp' = FALSE
    /\ ledger' = EmptyLedger
    /\ memoryCalls' = {}
    /\ UNCHANGED <<memoryJournal, graph, points, memorySent, memoryIntact>>

\* main: a line that is not one entry keeps the service from starting.
MemoryRestart ==
    /\ ~memoryUp
    /\ Readable(memoryJournal)
    /\ memoryUp' = TRUE
    /\ ledger' = LoadJournal(memoryJournal)
    /\ UNCHANGED <<memoryJournal, graph, points, memoryCalls, memorySent, memoryFaults, memoryIntact>>

MemoryNext ==
    \/ \E req \in MemoryRequests : ReceiveMemory(req)
    \/ \E h \in memoryCalls :
          \/ ChangeLedger(h) \/ SearchLedger(h) \/ NoteRead(h) \/ AppendMemoryJournal(h)
          \/ ForwardToGraphiti(h) \/ ForwardToQdrant(h) \/ SearchQdrant(h)
          \/ CloneRecords(h) \/ RepairRecord(h) \/ RepairEnds(h) \/ AnswerMemory(h)
    \/ MemoryCrash \/ MemoryRestart

MemorySpec == MemoryInit /\ [][MemoryNext]_memoryVars

-----------------------------------------------------------------------------
(* Properties.                                                             *)

Journalled == \A h \in memoryCalls : h.at \notin {"entry", "newline"}

\* The events that change records, in their order.
RecordChanges(events) ==
    LET kept[n \in 0..Len(events)] ==
            IF n = 0 THEN <<>>
            ELSE IF events[n].action # "Read" THEN Append(kept[n - 1], events[n])
            ELSE kept[n - 1]
    IN  kept[Len(events)]

\* A restart rebuilds the records the running gateway had, whatever order
\* concurrent operations came in, and the changes of the ledger in their
\* order; read events, journalled after the lock is gone, may change places.
\* Appends must have succeeded and not have met on one line
\* (write_memory_inner, join_memory_inner, retract_memory_inner against
\* apply_journal_entry).
MemoryRestartShowsTheSame ==
    memoryUp /\ memoryIntact /\ Journalled /\ Readable(memoryJournal)
      => LET loaded == LoadJournal(memoryJournal)
         IN  /\ loaded.records = ledger.records
             /\ RecordChanges(loaded.events) = RecordChanges(ledger.events)
             /\ Len(loaded.events) = Len(ledger.events)

\* A repair that nothing disturbed heals the indexes: whatever adapter calls
\* failed before, each selected record, invalidated or promoted since, is in
\* Graphiti and in Qdrant as the ledger has it (repair_memory_with_adapters).
RepairHeals ==
    \A h \in memoryCalls :
        h.req.op = "repair" /\ h.at = "done" /\ h.alone /\ ~h.failed /\ ~h.req.dryRun
          => \A r \in Selected(h.req, ledger.records) :
                /\ r.key \in DOMAIN graph /\ graph[r.key] = r.content
                /\ RecordId(r.key) \in DOMAIN points /\ points[RecordId(r.key)] = RecordPoint(r)

\* An edit that nothing disturbed leaves its replacement valid, also under a
\* key it replaces, and every other replaced key of its goal invalidated; if
\* its preview said ready, that is every key it named
\* (edit_memory_with_adapters, preview_memory_edit_inner).
EditReplaces ==
    \A h \in memoryCalls :
        h.req.op = "edit" /\ h.at = "done" /\ h.alone
          => /\ h.req.key \in LedgerHits(h)
             /\ h.ready => h.req.keys \cap LedgerHits(h) \subseteq {h.req.key}
             /\ \A r \in ledger.records :
                  /\ r.key = h.req.key => r.content = h.content
                  /\ r.key \in h.req.keys \ {h.req.key} /\ r.goal = h.req.goal => r.invalidated
=============================================================================
