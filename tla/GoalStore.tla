------------------------------ MODULE GoalStore ------------------------------
(***************************************************************************)
(* The goal store: projections of goals, tasks, approvals, artifacts and   *)
(* events that the coordinator posts, operator events, the action queue,   *)
(* plans, drafts and chat turns.  Every write persists first (a Postgres   *)
(* transaction, or a line of the journal) and changes memory afterwards;   *)
(* two handlers may do so in different orders.  Reads go to Postgres when  *)
(* it is the backend and to memory otherwise.                              *)
(***************************************************************************)
EXTENDS DurablePlan, Integers, Sequences, SequencesExt

CONSTANTS
    Backends,       \* backends to start with: "jsonl", "postgres"
    Workloads,      \* what clients may send: writes and plan commands, with
                    \* bounds on their number and on those in flight
    MaxFaults       \* bound: crashes and failed writes

WriteKinds == {"Snapshot", "Event", "OperatorEvent", "Artifact", "Plan", "Draft",
               "Source", "ChatTurn"}

\* A write is what its route decodes; from_state builds a snapshot from one
\* goal, whose id its tasks and approvals carry.
ASSUME StoreAssumption ==
    /\ Backends \subseteq {"jsonl", "postgres"}
    /\ MaxFaults \in Nat
    /\ \A load \in Workloads : \A w \in load.writes :
          /\ w.kind \in WriteKinds /\ w = [kind |-> w.kind, value |-> w.value]
          /\ w.kind = "Snapshot" =>
                /\ w.value.events \in Seq(Range(w.value.events))
                /\ \A r \in w.value.tasks \cup w.value.approvals : r.goal = w.value.id

Carried(load, kind) == {w.value : w \in {w \in load.writes : w.kind = kind}}
CarriedArtifacts(load) ==
    Carried(load, "Artifact") \cup
        (UNION {Range(s.artifacts) : s \in Carried(load, "Snapshot")})

\* What identifiers stand for, which the store does not check.  A goal never
\* loses a task, and task ids are minted; an artifact's id is a hash of its
\* goal, task and URI, that of a source approval of its source and reference;
\* a client repeats the id or the key of a chat turn in its session only.
ASSUME ReferenceAssumption ==
    \A load \in Workloads :
        /\ \A s \in Carried(load, "Snapshot") :
              s.version \in Nat /\ s.artifacts \in Seq(Range(s.artifacts))
        /\ \A s, t \in Carried(load, "Snapshot") :
              /\ s.id = t.id /\ s.version <= t.version
                    => {a.id : a \in s.tasks} \subseteq {a.id : a \in t.tasks}
              /\ (\E a \in s.tasks, b \in t.tasks : a.id = b.id) => s.id = t.id
        /\ \A a, b \in CarriedArtifacts(load) : a.id = b.id => a = b
        /\ \A a, b \in Carried(load, "Source") : a.id = b.id => a.source = b.source
        /\ \A a, b \in Carried(load, "ChatTurn") :
              a.id = b.id \/ (a.key # "none" /\ a.key = b.key) => a.session = b.session

VARIABLES
    backend,    \* chosen by the environment at the start
    workload,   \* the requests of this behaviour
    db,         \* the tables, when the backend is Postgres
    journal,    \* the lines of the file, when it is not
    mem,        \* the GoalStore in memory
    handlers,   \* requests in progress
    up, sent, faults,
    newest,     \* the version of the last snapshot the coordinator posted
    accepted,   \* history: the writes that were answered with accepted
    intact,     \* history: no journal line was lost
    overlapped, \* history: two requests were handled at a time
    restarted   \* history: the process was restarted

vars == <<backend, workload, db, journal, mem, handlers, up, sent, faults, newest, accepted, intact,
          overlapped, restarted>>

None == "none"
EmptyStore ==
    [goals |-> {}, tasks |-> {}, artifacts |-> <<>>, approvals |-> {}, events |-> <<>>,
     operatorEvents |-> <<>>, snapshots |-> {}, plans |-> {}, drafts |-> {},
     actions |-> {}, chat |-> <<>>, sources |-> {}]

\* Vec::retain, and the rows a DELETE leaves.
Select(records, kept) ==
    LET list[n \in 0..Len(records)] ==
            IF n = 0 THEN <<>>
            ELSE IF records[n] \in kept THEN Append(list[n - 1], records[n]) ELSE list[n - 1]
    IN  list[Len(records)]
Others(records, goal) == Select(records, {r \in Range(records) : r.goal # goal})

\* BTreeMap::insert and INSERT ... ON CONFLICT (id) DO UPDATE.
Upsert(records, record) == {r \in records : r.id # record.id} \cup {record}
UpsertAll(records, new) ==
    {r \in records : \A n \in new : r.id # n.id} \cup new

-----------------------------------------------------------------------------
(* The action queue.                                                       *)

Action(id, kind, goal, task, ref) ==
    [id |-> id, kind |-> kind, goal |-> goal, task |-> task, ref |-> ref,
     status |-> "pending"]

ActionNeeded == {"Blocked", "Failed", "WaitingApproval", "WaitingInput"}

ActionFromApproval(approval) ==
    Action(<<"approval", approval.id>>, "ResolveApproval", approval.goal, approval.task,
           approval.id)

ActionFromTask(task) ==
    Action(<<"task", task.id, task.status>>,
           CASE task.status = "WaitingInput" -> "ResumeThunk"
             [] task.status = "WaitingApproval" -> "ResolveApproval"
             [] task.status = "Failed" -> "RestartTask"
             [] OTHER -> "ReplanTask",
           task.goal, task.id, None)

\* actions_from_snapshot: a task with a pending approval has no own action.
ActionsFromSnapshot(snapshot) ==
    LET pending == {a \in snapshot.approvals : a.status = "Pending"}
    IN  {ActionFromApproval(a) : a \in pending} \cup
        {ActionFromTask(t) : t \in {t \in snapshot.tasks :
            t.status \in ActionNeeded /\ ~\E a \in pending : a.task = t.id}}

\* draft_action: the action, or none, of a draft.
DraftActions(draft) ==
    IF draft.goal = NoGoal \/ draft.status \in {"accepted", "discarded", "compiled"}
    THEN {}
    ELSE {Action(<<"draft", draft.id>>, "AcceptDraft", draft.goal, None, draft.id)}

StatusFor(transition) ==
    CASE transition \in {"DraftAccepted", "ThunkResumed", "ApprovalResolved", "GoalSatisfied"}
            -> "resolved"
      [] transition = "GoalCancelled" -> "cancelled"
      [] OTHER -> None

KindFor(transition) ==
    CASE transition = "DraftAccepted" -> "AcceptDraft"
      [] transition = "ThunkResumed" -> "ResumeThunk"
      [] transition = "ApprovalResolved" -> "ResolveApproval"
      [] OTHER -> None

\* What both backends ask of an action before an operator event closes it.
Addressed(action, event) ==
    /\ event.goal = action.goal
    /\ event.task \in {None, action.task}
    /\ KindFor(event.transition) \in {None, action.kind}
    /\ action.status = "pending"

\* action_matches_resolution_event: memory also compares the draft or the
\* approval the event names.
MatchesResolution(action, event) ==
    KindFor(event.transition) \in {"AcceptDraft", "ResolveApproval"}
        => event.ref \in {None, action.ref}

Close(action, event) == [action EXCEPT !.status = StatusFor(event.transition)]

\* resolve_actions_for_event
ResolveActions(actions, event) ==
    IF event.goal = NoGoal \/ StatusFor(event.transition) = None THEN actions
    ELSE {IF Addressed(a, event) /\ MatchesResolution(a, event) THEN Close(a, event) ELSE a :
             a \in actions}

\* update_actions_for_operator_event_postgres
UpdateActions(actions, event) ==
    IF event.goal = NoGoal \/ StatusFor(event.transition) = None THEN actions
    ELSE {IF Addressed(a, event) THEN Close(a, event) ELSE a : a \in actions}

-----------------------------------------------------------------------------
(* Changes of the store in memory (impl GoalStore).                        *)

SameEvent(a, b) == a.goal = b.goal /\ (a.sequence = b.sequence \/ a.key = b.key)
SameOperatorEvent(a, b) == a.id = b.id \/ a.key = b.key
SameTurn(a, b) == a.id = b.id \/ (a.key # None /\ a.key = b.key)

\* Mutant: only the sequence number is compared.
ApplyEventBySequence(events, event) ==
    IF \E e \in Range(events) : e.goal = event.goal /\ e.sequence = event.sequence
    THEN events ELSE Append(events, event)

ApplyEvent(events, event) ==
    IF \E e \in Range(events) : SameEvent(e, event) THEN events ELSE Append(events, event)

ApplyEvents(events, new) ==
    LET state[n \in 0..Len(new)] ==
            IF n = 0 THEN events ELSE ApplyEvent(state[n - 1], new[n])
    IN  state[Len(new)]

\* Mutant: the drafts of the goal are forgotten.
RebuildWithoutDrafts(store, goal) ==
    [store EXCEPT !.actions = {a \in @ : a.goal # goal} \cup
        (UNION {ActionsFromSnapshot(s) : s \in {s \in store.snapshots : s.id = goal}})]

RebuildGoalActions(store, goal) ==
    [store EXCEPT !.actions = {a \in @ : a.goal # goal} \cup
        (UNION {ActionsFromSnapshot(s) : s \in {s \in store.snapshots : s.id = goal}}) \cup
        (UNION {DraftActions(d) : d \in {d \in store.drafts : d.goal = goal}})]

ApplySnapshot(store, snapshot) ==
    RebuildGoalActions(
        [store EXCEPT
            !.goals = Upsert(@, [id |-> snapshot.id, status |-> snapshot.status]),
            !.tasks = UpsertAll(@, snapshot.tasks),
            !.artifacts = Others(@, snapshot.id) \o snapshot.artifacts,
            !.approvals = {a \in @ : a.goal # snapshot.id} \cup snapshot.approvals,
            !.events = ApplyEvents(@, snapshot.events),
            !.snapshots = Upsert(@, snapshot)],
        snapshot.id)

ApplyOperatorEvent(store, event) ==
    IF \E e \in Range(store.operatorEvents) : SameOperatorEvent(e, event) THEN store
    ELSE [store EXCEPT !.actions = ResolveActions(@, event),
                       !.operatorEvents = Append(@, event)]

\* apply_draft: ignored when another draft has its key.
ApplyDraft(store, draft) ==
    IF \E d \in store.drafts : d.id # draft.id /\ d.key # None /\ d.key = draft.key
    THEN store
    ELSE [store EXCEPT
            !.drafts = Upsert(@, draft),
            !.actions = UpsertAll(
                {a \in @ : \A d \in store.drafts :
                    d.id = draft.id => a.id \notin {p.id : p \in DraftActions(d)}},
                DraftActions(draft))]

ApplyChatTurn(turns, turn) ==
    IF \E t \in Range(turns) : t.session = turn.session /\ SameTurn(t, turn)
    THEN turns ELSE Append(turns, turn)

\* The entry of a journal line, applied to memory.
Apply(store, write) ==
    CASE write.kind = "Snapshot" -> ApplySnapshot(store, write.value)
      [] write.kind = "Event" -> [store EXCEPT !.events = ApplyEvent(@, write.value)]
      [] write.kind = "OperatorEvent" -> ApplyOperatorEvent(store, write.value)
      [] write.kind = "Artifact" -> [store EXCEPT !.artifacts = Append(@, write.value)]
      [] write.kind = "Plan" -> [store EXCEPT !.plans = Upsert(@, write.value)]
      [] write.kind = "Draft" -> ApplyDraft(store, write.value)
      [] write.kind = "Source" -> [store EXCEPT !.sources = Upsert(@, write.value)]
      [] write.kind = "ChatTurn" -> [store EXCEPT !.chat = ApplyChatTurn(@, write.value)]

\* replay_journal
Replay(lines) ==
    LET state[n \in 0..Len(lines)] ==
            IF n = 0 THEN EmptyStore ELSE Apply(state[n - 1], lines[n])
    IN  state[Len(lines)]

-----------------------------------------------------------------------------
(* Transactions on the tables.                                             *)

\* Mutant: the approvals of the goal are not deleted first.
SnapshotRowsKeepApprovals(tables, snapshot) ==
    [tables EXCEPT
        !.goals = Upsert(@, [id |-> snapshot.id, status |-> snapshot.status]),
        !.tasks = {t \in @ : t.goal # snapshot.id} \cup snapshot.tasks,
        !.approvals = @ \cup snapshot.approvals,
        !.events = ApplyEvents(@, snapshot.events),
        !.actions = {a \in @ : a.goal # snapshot.id} \cup ActionsFromSnapshot(snapshot)]

\* upsert_snapshot_postgres: the rows of the goal are deleted and inserted,
\* its events only added; drafts do not come back into the action queue.
SnapshotRows(tables, snapshot) ==
    [tables EXCEPT
        !.goals = Upsert(@, [id |-> snapshot.id, status |-> snapshot.status]),
        !.tasks = {t \in @ : t.goal # snapshot.id} \cup snapshot.tasks,
        !.artifacts = Others(@, snapshot.id) \o snapshot.artifacts,
        !.approvals = {a \in @ : a.goal # snapshot.id} \cup snapshot.approvals,
        !.events = ApplyEvents(@, snapshot.events),
        !.actions = {a \in @ : a.goal # snapshot.id} \cup ActionsFromSnapshot(snapshot)]

\* The actions are also closed by an event that was there already.
OperatorEventRows(tables, event) ==
    [tables EXCEPT
        !.operatorEvents = IF \E e \in Range(@) : SameOperatorEvent(e, event) THEN @
                           ELSE Append(@, event),
        !.actions = UpdateActions(@, event)]

ArtifactRows(tables, artifact) ==
    [tables EXCEPT !.artifacts =
        IF \E a \in Range(@) : a.id = artifact.id
        THEN [i \in DOMAIN @ |-> IF @[i].id = artifact.id THEN artifact ELSE @[i]]
        ELSE Append(@, artifact)]

\* The unique index on the key is not the conflict target: the row of another
\* draft makes the insert fail.
DraftFits(tables, draft) ==
    ~\E d \in tables.drafts : d.id # draft.id /\ d.key # None /\ d.key = draft.key

DraftRows(tables, draft) ==
    [tables EXCEPT !.drafts = Upsert(@, draft), !.actions = UpsertAll(@, DraftActions(draft))]

SourceRows(tables, source) ==
    [tables EXCEPT !.sources =
        {s \in @ : <<s.ref, s.source>> # <<source.ref, source.source>>} \cup {source}]

ChatRows(tables, turn) ==
    [tables EXCEPT !.chat = IF \E t \in Range(@) : SameTurn(t, turn) THEN @ ELSE Append(@, turn)]

Rows(tables, write) ==
    CASE write.kind = "Snapshot" -> SnapshotRows(tables, write.value)
      [] write.kind = "Event" -> [tables EXCEPT !.events = ApplyEvent(@, write.value)]
      [] write.kind = "OperatorEvent" -> OperatorEventRows(tables, write.value)
      [] write.kind = "Artifact" -> ArtifactRows(tables, write.value)
      [] write.kind = "Plan" -> [tables EXCEPT !.plans = Upsert(@, write.value)]
      [] write.kind = "Draft" -> DraftRows(tables, write.value)
      [] write.kind = "Source" -> SourceRows(tables, write.value)
      [] write.kind = "ChatTurn" -> ChatRows(tables, write.value)

\* Events and artifacts refer to a goal row; DraftFits for drafts; the artifacts
\* of a snapshot are inserted one by one under their ids.
Fits(tables, write) ==
    /\ write.kind = "Snapshot" =>
          \A i, j \in DOMAIN write.value.artifacts :
              write.value.artifacts[i].id = write.value.artifacts[j].id => i = j
    /\ write.kind = "Draft" => DraftFits(tables, write.value)
    /\ write.kind \in {"Event", "Artifact"} => \E g \in tables.goals : g.id = write.value.goal

-----------------------------------------------------------------------------
(* Reads.  A filter that is left out (None) admits everything; what the    *)
(* lists are sorted by, and their limits, are left out.                    *)

\* What the handlers read from.
Visible == IF backend = "postgres" THEN db ELSE mem

Allowed(value, filter) == filter = None \/ value = filter

FilterGoals(goals, status) == {g \in goals : Allowed(g.status, status)}
FilterTasks(tasks, goal, status) ==
    {t \in tasks : Allowed(t.goal, goal) /\ Allowed(t.status, status)}
FilterApprovals(approvals, goal, status) ==
    {a \in approvals : Allowed(a.goal, goal) /\ Allowed(a.status, status)}
FilterPlans(plans, status) == {p \in plans : Allowed(p.status, status)}
FilterDrafts(drafts, goal, status) ==
    {d \in drafts : Allowed(d.goal, goal) /\ Allowed(d.status, status)}
FilterActions(actions, goal, kind, status) ==
    {a \in actions :
        Allowed(a.goal, goal) /\ Allowed(a.kind, kind) /\ Allowed(a.status, status)}
FilterSources(sources, source) == {s \in sources : Allowed(s.source, source)}
FilterEvents(events, goal) == Select(events, {e \in Range(events) : Allowed(e.goal, goal)})

\* The newest first.
FilterOperatorEvents(events, goal) == Reverse(FilterEvents(events, goal))

TimelineFrom(events) ==
    [i \in DOMAIN events |-> [id |-> events[i].id, goal |-> events[i].goal,
                              task |-> events[i].task, title |-> events[i].transition]]

\* The results of workers, by run, and a run of its own for every task.  The
\* events come newest first and each replaces the one before: of two results
\* of a run the older is shown.
WorkerRunsFrom(events, tasks) ==
    LET results == Select(events, {e \in Range(events) : e.transition = "WorkerResultReceived"})
        RunId(e) == <<"worker-run", IF e.ref = None THEN e.id ELSE e.ref>>
        Kept == {i \in DOMAIN results :
                    \A j \in DOMAIN results : RunId(results[j]) = RunId(results[i]) => j <= i}
        StatusOf(task) == {t.status : t \in {t \in tasks : t.id = task}}
    IN  {[run |-> RunId(results[i]), goal |-> results[i].goal, task |-> results[i].task,
          status |-> StatusOf(results[i].task)] : i \in Kept} \cup
        {[run |-> <<"task-run", t.id>>, goal |-> t.goal, task |-> t.id, status |-> {t.status}] :
            t \in tasks}

EvidenceFrom(artifacts) ==
    {[id |-> a.id, goal |-> a.goal, checkpoint |-> a.checkpoint] : a \in Range(artifacts)}
CheckpointsFrom(artifacts) == {a.checkpoint : a \in Range(artifacts)} \ {None}

\* The list handlers, over what the backend holds.
ListGoals(store, status) == FilterGoals(store.goals, status)
ListTasks(store, goal, status) == FilterTasks(store.tasks, goal, status)
ListApprovals(store, goal, status) == FilterApprovals(store.approvals, goal, status)
ListPlans(store, status) == FilterPlans(store.plans, status)
ListDrafts(store, goal, status) == FilterDrafts(store.drafts, goal, status)
ListActions(store, goal, kind, status) == FilterActions(store.actions, goal, kind, status)
\* The tables keep one approval per reference and source, memory one per id.
ListSources(store, source) == FilterSources(store.sources, source)
ListEvents(store, goal) == FilterEvents(store.events, goal)
ListOperatorEvents(store, goal) == FilterOperatorEvents(store.operatorEvents, goal)
ListTimeline(store, goal) == TimelineFrom(ListOperatorEvents(store, goal))
ListWorkerRuns(store, goal) ==
    {r \in WorkerRunsFrom(ListOperatorEvents(store, goal), store.tasks) : Allowed(r.goal, goal)}
ListArtifacts(store, goal) == FilterEvents(store.artifacts, goal)
ListEvidence(store, goal) == EvidenceFrom(ListArtifacts(store, goal))
ListCheckpoints(store, goal) == CheckpointsFrom(ListArtifacts(store, goal))
ChatSession(store, session) == Select(store.chat, {t \in Range(store.chat) : t.session = session})

-----------------------------------------------------------------------------
Handler(id, write, plan) == [id |-> id, at |-> "persist", write |-> write, fromPlan |-> plan]

Init ==
    /\ backend \in Backends
    /\ workload \in Workloads
    /\ db = EmptyStore
    /\ journal = <<>>
    /\ mem = EmptyStore
    /\ handlers = {}
    /\ up = TRUE
    /\ sent = 0
    /\ faults = 0
    /\ newest = 0
    /\ accepted = {}
    /\ intact = TRUE
    /\ overlapped = FALSE
    /\ restarted = FALSE

Start(write, fromPlan) ==
    /\ LET free == {i \in 1..workload.inFlight : \A h \in handlers : h.id # i}
       IN  handlers' = handlers \cup
               {Handler(CHOOSE i \in free : \A j \in free : i <= j, write, fromPlan)}
    /\ overlapped' = (overlapped \/ handlers # {})

\* The routes of the writes; drafts, chat turns and sources that fail their
\* checks are refused before anything changes.  The workflow of a goal runs
\* one handler at a time and posts its snapshots in their order, though it
\* may give one up and post the next while the first is still handled.
Receive(write) ==
    /\ up
    /\ sent < workload.requests
    /\ Cardinality(handlers) < workload.inFlight
    /\ sent' = sent + 1
    /\ Start(write, FALSE)
    /\ newest' = IF write.kind = "Snapshot" THEN write.value.version ELSE newest
    /\ write.kind = "Snapshot" => write.value.version >= newest
    /\ UNCHANGED <<backend, workload, db, journal, mem, up, faults, accepted, intact, restarted>>

\* create_plan, revise_plan, compile_plan, vote_plan_candidate and
\* select_plan_candidate: the plan is loaded now and stored whole later.
PlanWrites(command) ==
    LET plans == ListPlans(Visible, None)
        Loaded == {p \in plans : p.id = command.plan}
        Candidates == {c \in plans : c.id = command.candidate}
    IN  CASE command.op = "create" ->
                {DraftPlan(command.plan, command.source, command.revision, Unset)}
          [] command.op = "revise" -> {ApplyRevision(p, command.revision, Unset) : p \in Loaded}
          [] command.op = "compile" -> {CompileGoal(p, command.goal) : p \in Loaded}
          [] command.op = "vote" ->
                {RecordCandidateVote(p, c.id, "operator") : p \in Loaded,
                    c \in {c \in Candidates : \A p \in Loaded : IsCandidateOf(c, p)}}
          [] command.op = "select" ->
                {SelectCandidate(p, c.id) : p \in Loaded,
                    c \in {c \in Candidates : c.goal # NoGoal /\
                              \A p \in Loaded : IsCandidateOf(c, p)}}

ReceivePlan(command) ==
    /\ up
    /\ sent < workload.requests
    /\ Cardinality(handlers) < workload.inFlight
    /\ sent' = sent + 1
    /\ \E plan \in PlanWrites(command) :
          ValidateActionItems(plan) /\ Start([kind |-> "Plan", value |-> plan], TRUE)
    /\ UNCHANGED <<backend, workload, db, journal, mem, up, faults, newest, accepted, intact, restarted>>

Advance(h, at) == handlers' = (handlers \ {h}) \cup {[h EXCEPT !.at = at]}

\* Mutant: the error of the transaction is only logged.
PersistUnchecked(h) ==
    /\ up /\ h.at = "persist"
    /\ \/ /\ backend = "postgres"
          /\ db' = IF Fits(db, h.write) THEN Rows(db, h.write) ELSE db
          /\ Advance(h, "apply")
          /\ UNCHANGED <<journal, faults, intact>>
       \/ /\ faults < MaxFaults
          /\ faults' = faults + 1
          /\ Advance(h, "apply")
          /\ intact' = (intact /\ backend = "postgres")
          /\ UNCHANGED <<db, journal>>
       \/ /\ backend = "jsonl"
          /\ journal' = Append(journal, h.write)
          /\ Advance(h, "apply")
          /\ UNCHANGED <<db, faults, intact>>
    /\ UNCHANGED <<backend, workload, mem, up, sent, newest, accepted, overlapped, restarted>>

\* A transaction that fails ends the request; a journal line that fails is
\* only logged.
Persist(h) ==
    /\ up /\ h.at = "persist"
    /\ \/ /\ backend = "postgres" /\ Fits(db, h.write)
          /\ db' = Rows(db, h.write)
          /\ Advance(h, "apply")
          /\ UNCHANGED <<journal, faults, intact>>
       \/ /\ backend = "postgres" /\ ~Fits(db, h.write)
          /\ handlers' = handlers \ {h}
          /\ UNCHANGED <<db, journal, faults, intact>>
       \/ /\ backend = "postgres" /\ faults < MaxFaults
          /\ faults' = faults + 1
          /\ handlers' = handlers \ {h}
          /\ UNCHANGED <<db, journal, intact>>
       \/ /\ backend = "jsonl"
          /\ journal' = Append(journal, h.write)
          /\ Advance(h, "apply")
          /\ UNCHANGED <<db, faults, intact>>
       \/ /\ backend = "jsonl" /\ faults < MaxFaults
          /\ faults' = faults + 1
          /\ intact' = FALSE
          /\ Advance(h, "apply")
          /\ UNCHANGED <<db, journal>>
    /\ UNCHANGED <<backend, workload, mem, up, sent, newest, accepted, overlapped, restarted>>

\* draft_from_plan
DraftsFromPlan(plan) ==
    IF plan.status \in {"Archived", "Superseded"} THEN {}
    ELSE {[id |-> plan.id, key |-> plan.id, goal |-> plan.goal,
           status |-> IF plan.status = "Compiled" THEN "compiled" ELSE "draft"]}

\* The write lock: memory follows, the request is answered; a plan goes on
\* with its draft, which is persisted and applied by itself.
ApplyToMemory(h) ==
    LET drafts == IF h.write.kind = "Plan" THEN DraftsFromPlan(h.write.value) ELSE {}
    IN  /\ up /\ h.at = "apply"
        /\ mem' = Apply(mem, h.write)
        /\ IF drafts = {}
           THEN /\ handlers' = handlers \ {h}
                /\ accepted' = accepted \cup {h.write}
           ELSE /\ \E d \in drafts :
                      handlers' = (handlers \ {h}) \cup
                          {Handler(h.id, [kind |-> "Draft", value |-> d], TRUE)}
                /\ UNCHANGED accepted
        /\ UNCHANGED <<backend, workload, db, journal, up, sent, faults, newest, intact, overlapped, restarted>>

Crash ==
    /\ up
    /\ faults < MaxFaults
    /\ faults' = faults + 1
    /\ up' = FALSE
    /\ mem' = EmptyStore
    /\ handlers' = {}
    /\ UNCHANGED <<backend, workload, db, journal, sent, newest, accepted, intact, overlapped, restarted>>

\* main: memory is replayed from the journal; with Postgres it starts empty.
Restart ==
    /\ ~up
    /\ up' = TRUE
    /\ restarted' = TRUE
    /\ mem' = IF backend = "postgres" THEN EmptyStore ELSE Replay(journal)
    /\ UNCHANGED <<backend, workload, db, journal, handlers, sent, faults, newest, accepted, intact, overlapped>>

Next ==
    \/ \E write \in workload.writes : Receive(write)
    \/ \E command \in workload.plans : ReceivePlan(command)
    \/ \E h \in handlers : Persist(h) \/ ApplyToMemory(h)
    \/ Crash \/ Restart

Spec == Init /\ [][Next]_vars

-----------------------------------------------------------------------------
(* Properties.                                                             *)

Tagged(kind, records) == {[kind |-> kind, value |-> r] : r \in Range(records)}

\* What a restart would find.
Durable == IF backend = "postgres" THEN db ELSE Replay(journal)

DurableLog ==
    LET found == Durable
    IN  Tagged("Event", found.events) \cup Tagged("OperatorEvent", found.operatorEvents)

Clashing(a, b) ==
    /\ a.kind = b.kind
    /\ IF a.kind = "Event" THEN SameEvent(a.value, b.value)
       ELSE SameOperatorEvent(a.value, b.value)

PostedEvents ==
    LET writes == UNION {load.writes : load \in Workloads}
    IN  {w \in writes : w.kind \in {"Event", "OperatorEvent"}} \cup
        (UNION {Tagged("Event", w.value.events) : w \in {w \in writes : w.kind = "Snapshot"}})

Log == INSTANCE GoalLog WITH Record <- PostedEvents, Clash <- Clashing, log <- DurableLog

\* Repeated, concurrent and crossing posts of events and of snapshots that
\* carry events, crashes and replays leave an append-only log with one record
\* per sequence number and key: the store implements GoalLog
\* (append_event, append_operator_event, apply_event, ON CONFLICT DO NOTHING).
EventsAreALog == Log!Spec

\* An event that was answered with accepted is in the log under its key, after
\* any crash; the journal must not have failed (its errors are only logged).
AcceptedIsDurable ==
    backend = "postgres" \/ intact
      => \A w \in accepted \cap PostedEvents :
            \E r \in DurableLog : r = w \/ Clashing(r, w)

\* The action queue in memory has exactly the actions that the last snapshot
\* of each goal and the open drafts call for, closed or not
\* (rebuild_goal_actions, apply_draft, resolve_actions_for_event).
QueueIsComplete ==
    {a.id : a \in ListActions(mem, None, None, None)} =
        {a.id : a \in (UNION {ActionsFromSnapshot(s) : s \in mem.snapshots}) \cup
                      (UNION {DraftActions(d) : d \in mem.drafts})}

\* What the two backends are to answer alike.
Answers(store) ==
    [goals |-> ListGoals(store, None), tasks |-> ListTasks(store, None, None),
     approvals |-> ListApprovals(store, None, "Pending"), plans |-> ListPlans(store, None),
     events |-> ListEvents(store, None), timeline |-> ListTimeline(store, None),
     runs |-> ListWorkerRuns(store, None), drafts |-> ListDrafts(store, None, None),
     evidence |-> ListEvidence(store, None), checkpoints |-> ListCheckpoints(store, None),
     sources |-> {s.source : s \in ListSources(store, None)},
     chat |-> {ChatSession(store, t.session) : t \in Range(store.chat)}]

\* As long as requests come one at a time and nothing fails, both backends
\* show the same goals, tasks, approvals, events, worker runs, plans, drafts,
\* evidence and chat sessions: memory, which a Postgres store keeps beside its tables, and the
\* tables agree (list_goals ... list_operator_worker_runs).
BackendsAgree ==
    backend = "postgres" /\ ~overlapped /\ ~restarted /\ handlers = {} /\ up
      => Answers(mem) = Answers(db)
=============================================================================
