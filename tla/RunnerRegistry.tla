--------------------------- MODULE RunnerRegistry ---------------------------
(***************************************************************************)
(* coat-runner-registry: the runners that registered, what their last      *)
(* heartbeat said, and the journal from which a restart rebuilds them.     *)
(* The map is changed under its lock; the line is handed to the journal    *)
(* file after the lock is released and written behind the handler's back,  *)
(* so two lines may change places and a crash loses those not yet written. *)
(* Append errors are only logged.  A registration's own content is its     *)
(* runner's and fixed; a record keeps when the runner was last heard of    *)
(* and what it reported.                                                   *)
(***************************************************************************)
EXTENDS ExecutionProfile, Capacity, Bags

CONSTANTS
    Runners,        \* runner ids
    Registration,   \* the registration each runner sends
    MaxTime,        \* bound: seconds that pass
    MaxFaults       \* bound: crashes and failed appends

VARIABLES
    runners,        \* AppState.runners: the records of the known runners
    journal,        \* lines of the journal file
    unwritten,      \* lines handed to the file and not written yet
    up,             \* the process is running
    now,            \* wall clock and monotonic clock
    heard,          \* history: when each runner was last answered
    intact,         \* history: every line was written, in the order of the changes
    faults

registryVars == <<runners, journal, unwritten, up, now, heard, intact, faults>>

Record(seen, running, capacity) == [seen |-> seen, running |-> running, capacity |-> capacity]

\* RunnerRecord::new.
NewRecord(r, seen) == Record(seen, 0, Registration[r].max)

\* The record replaces the one the runner had.
Insert(known, r, record) ==
    [x \in DOMAIN known \cup {r} |-> IF x = r THEN record ELSE known[x]]

Registered(r, at) == [kind |-> "registered", runner |-> r, at |-> at]
Heartbeat(r, running, capacity, at) ==
    [kind |-> "heartbeat", runner |-> r, running |-> running, capacity |-> capacity, at |-> at]

\* apply_journal_entry; a heartbeat of an unknown runner is dropped.
\* Mutant: the record is as fresh as the restart.
ApplyEntryAsNow(known, entry) ==
    IF entry.kind = "registered" THEN Insert(known, entry.runner, NewRecord(entry.runner, now))
    ELSE IF entry.runner \in DOMAIN known
         THEN [known EXCEPT ![entry.runner] = Record(now, entry.running, entry.capacity)]
    ELSE known

ApplyEntry(known, entry) ==
    IF entry.kind = "registered" THEN Insert(known, entry.runner, NewRecord(entry.runner, entry.at))
    ELSE IF entry.runner \in DOMAIN known
         THEN [known EXCEPT ![entry.runner] = Record(entry.at, entry.running, entry.capacity)]
    ELSE known

\* replay_journal: the lines in file order; instant_from_wall_clock gives a
\* record its age back.
Replay(lines) ==
    LET known[n \in 0..Len(lines)] ==
            IF n = 0 THEN <<>> ELSE ApplyEntry(known[n - 1], lines[n])
    IN  known[Len(lines)]

\* is_dispatchable and status.
Fresh(record, r) == now - record.seen <= Registration[r].ttl
Dispatchable(r) == Fresh(runners[r], r) /\ runners[r].capacity > 0

DispatchableRunners == {r \in Runners : r \in DOMAIN runners /\ Dispatchable(r)}

\* runner_pool_key and runner_pool_supplies.  running_tasks of a stale runner
\* still counts.
PoolOf(r) == Registration[r].pool

PoolSupplies ==
    [pool \in {PoolOf(r) : r \in DOMAIN runners} |->
        LET members == {r \in DOMAIN runners : PoolOf(r) = pool}
        IN  [dispatchable |-> Cardinality({r \in members : Dispatchable(r)}),
             running |-> MapThenSumSet(LAMBDA r : runners[r].running, members),
             pending |-> 0]]

RegistryInit ==
    /\ runners = <<>>
    /\ journal = <<>>
    /\ unwritten = EmptyBag
    /\ up = TRUE
    /\ now = 0
    /\ heard = [r \in Runners |-> 0]
    /\ intact = TRUE
    /\ faults = 0

\* append_journal: the line is handed to the file, or the append fails and
\* the failure is logged.
Append_journal(line) ==
    \/ /\ unwritten' = unwritten (+) SetToBag({line})
       /\ intact' = (intact /\ unwritten = EmptyBag)
       /\ faults' = faults
    \/ /\ faults < MaxFaults
       /\ faults' = faults + 1
       /\ unwritten' = unwritten
       /\ intact' = FALSE

\* The registration is inserted whether or not the runner was known.
RegisterRunner(r) ==
    /\ up
    /\ runners' = Insert(runners, r, NewRecord(r, now))
    /\ heard' = [heard EXCEPT ![r] = now]
    /\ Append_journal(Registered(r, now))
    /\ UNCHANGED <<journal, up, now>>

\* Mutant: a heartbeat is not journalled.
ReceiveHeartbeatUnjournalled(r, running, capacity) ==
    /\ up
    /\ IF r \in DOMAIN runners
       THEN /\ runners' = [runners EXCEPT ![r] = Record(now, running, capacity)]
            /\ heard' = [heard EXCEPT ![r] = now]
       ELSE UNCHANGED <<runners, heard>>
    /\ UNCHANGED <<journal, up, now, unwritten, intact, faults>>

\* An unknown runner is told so and nothing changes.
ReceiveHeartbeat(r, running, capacity) ==
    /\ up
    /\ IF r \in DOMAIN runners
       THEN /\ runners' = [runners EXCEPT ![r] = Record(now, running, capacity)]
            /\ heard' = [heard EXCEPT ![r] = now]
            /\ Append_journal(Heartbeat(r, running, capacity, now))
       ELSE UNCHANGED <<runners, heard, unwritten, intact, faults>>
    /\ UNCHANGED <<journal, up, now>>

WriteLine ==
    \E line \in BagToSet(unwritten) :
        /\ journal' = Append(journal, line)
        /\ unwritten' = unwritten (-) SetToBag({line})
        /\ UNCHANGED <<runners, up, now, heard, intact, faults>>

Tick ==
    /\ now < MaxTime
    /\ now' = now + 1
    /\ UNCHANGED <<runners, journal, unwritten, up, heard, intact, faults>>

RegistryCrash ==
    /\ up
    /\ faults < MaxFaults
    /\ faults' = faults + 1
    /\ up' = FALSE
    /\ runners' = <<>>
    /\ unwritten' = EmptyBag
    /\ intact' = (intact /\ unwritten = EmptyBag)
    /\ UNCHANGED <<journal, now, heard>>

\* main: the journal is replayed before the first request.
RegistryStart ==
    /\ ~up
    /\ up' = TRUE
    /\ runners' = Replay(journal)
    /\ UNCHANGED <<journal, unwritten, now, heard, intact, faults>>

=============================================================================
