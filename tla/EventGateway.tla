---------------------------- MODULE EventGateway ----------------------------
(***************************************************************************)
(* coat-event-gateway: external events are recorded once per dedupe key    *)
(* and routed to a goal.  Senders and SQS deliver an event any number of   *)
(* times, also concurrently; the process may crash between two steps of a  *)
(* request, and the journal, Restate or the goal store may fail.           *)
(*                                                                         *)
(* `disk` is what outlives a crash: the lines of the JSON Lines journal,   *)
(* or, with the Postgres backend, the rows of its tables in the order of   *)
(* their insertion.  One event source is modelled by its current route.    *)
(***************************************************************************)
EXTENDS Jsonl, FiniteSets

CONSTANTS
    Handlers,       \* concurrent requests
    Events,         \* deliveries: records with an event id and a dedupe key
    Routes,         \* the routes the source may be registered with
    InitialRoute,   \* the route it was registered with before
    Ingests,        \* how deliveries come: routed by the "source", or with "none"
    Backend,        \* "jsonl" or "postgres"
    Ingress,        \* COAT_RESTATE_INGRESS is configured
    GoalStore,      \* COAT_GOAL_STORE_URL is configured
    DeleteOnSuccess,\* the SQS source deletes what it ingested
    SubmitOutcomes, \* what a call to Restate may come to
    DiskFails,      \* the journal or the database may refuse a write
    MaxCalls,       \* bound: requests
    MaxCrashes      \* bound: crashes

Keys == {e.key : e \in Events}
EventIds == {e.id : e \in Events}

\* Routes that name no goal, and the status their trigger gets.
\* "unrouted" is an unknown or disabled source.
PassiveStatus == [record_only |-> "Recorded", no_template |-> "Recorded",
                  no_directive |-> "Failed", human_review |-> "AwaitingHumanReview"]
ActiveRoutes == {"create_goal", "steer_goal"}
AllRoutes == ActiveRoutes \cup DOMAIN PassiveStatus \cup {"unrouted"}

\* A call to Restate is taken and answered, taken with its answer lost, or
\* refused.
AllSubmitOutcomes == {"taken", "answer_lost", "refused"}

ASSUME GatewayAssumption ==
    /\ \A e \in Events : DOMAIN e = {"id", "key"}
    /\ Routes \subseteq AllRoutes
    /\ InitialRoute \in AllRoutes
    /\ Ingests \subseteq {"source", "none"}
    /\ Backend \in {"jsonl", "postgres"}
    /\ {Ingress, GoalStore, DeleteOnSuccess, DiskFails} \subseteq BOOLEAN
    /\ SubmitOutcomes \subseteq AllSubmitOutcomes
    /\ MaxCalls \in Nat
    /\ MaxCrashes \in Nat

VARIABLES
    keys,       \* EventGatewayState.dedupe_keys
    events,     \* EventGatewayState.events
    triggers,   \* EventGatewayState.triggered_goals
    route,      \* EventGatewayState.sources: the source's route
    disk,       \* journal lines or table rows
    owed,       \* newlines handed to the journal file but not written yet
    up,         \* the process runs
    frame,      \* the request each handler works on
    answer,     \* what each handler answered last
    queue,      \* messages in the SQS queue
    goals,      \* calls that Restate took, per dedupe key
    projected,  \* projections of triggers the goal store has
    calls,
    crashes

memory == <<keys, events, triggers, route>>
durable == <<disk, owed>>
world == <<queue, goals, projected>>
bounds == <<calls, crashes>>
vars == <<memory, durable, up, frame, answer, world, bounds>>

\* TriggeredGoalResponse: its event, status, whether it names a goal, and the
\* "goal_store_projection=delivered" diagnostic.
Statuses == {"Recorded", "Submitted", "AwaitingHumanReview", "Deduped", "Failed"}
Trigger == [event : Events, status : Statuses, goal : BOOLEAN, delivered : BOOLEAN]

NewTrigger(e, status, goal) ==
    [event |-> e, status |-> status, goal |-> goal, delivered |-> FALSE]

\* trigger_record_id: what the goal store tells projections apart by.
Projection(t) == [event |-> t.event.id, status |-> t.status, goal |-> t.goal]

EventEntry(e) == [kind |-> "event", event |-> e]
TriggerEntry(t) == [kind |-> "trigger", trigger |-> t]
SourceEntry(r) == [kind |-> "source", route |-> r]

Idle == [at |-> "idle"]

At(h, step) == up /\ frame[h].at = step
Goto(h, step) == frame' = [frame EXCEPT ![h].at = step]

\* The handler ends, with an answer or an error.
Answers(h, a) ==
    /\ frame' = [frame EXCEPT ![h] = Idle]
    /\ answer' = [answer EXCEPT ![h] = a]

\* The event has been dealt with; sqs_poll then deletes its message.
Finish(h) ==
    IF frame[h].sqs /\ DeleteOnSuccess
    THEN Goto(h, "delete") /\ UNCHANGED answer
    ELSE Answers(h, "ok")

\* The row an upsert updates: the source's, or the one with the same id,
\* which is made of what the trigger says.
Replaces(entry, row) == row = entry \/ (row.kind = "source" /\ entry.kind = "source")

\* An upsert leaves the row where it was: created_at is not updated.
Upsert(entry) ==
    IF \E k \in DOMAIN disk : Replaces(entry, disk[k])
    THEN [k \in DOMAIN disk |-> IF Replaces(entry, disk[k]) THEN entry ELSE disk[k]]
    ELSE Append(disk, entry)

\* One more line, whose newline the file still owes, or an upserted row.
Write(entry) ==
    IF Backend = "jsonl"
    THEN disk' = Append(disk, entry) /\ owed' = owed + 1
    ELSE disk' = Upsert(entry) /\ UNCHANGED owed

Entries(kind) == {disk[k] : k \in {j \in 1..Len(disk) : disk[j].kind = kind}}
RecordedEvents == {d.event : d \in Entries("event")}

Init ==
    /\ keys = {} /\ events = {} /\ triggers = <<>> /\ route = InitialRoute
    /\ disk = IF InitialRoute = "unrouted" THEN <<>>
              ELSE IF Backend = "jsonl" THEN <<SourceEntry(InitialRoute), Newline>>
              ELSE <<SourceEntry(InitialRoute)>>
    /\ owed = 0
    /\ up = TRUE
    /\ frame = [h \in Handlers |-> Idle]
    /\ answer = [h \in Handlers |-> "none"]
    /\ queue = Events
    /\ goals = [k \in Keys |-> 0]
    /\ projected = {}
    /\ calls = 0 /\ crashes = 0

-----------------------------------------------------------------------------
(* Requests.                                                               *)

Begin(h, e, via, sqs) ==
    /\ up /\ frame[h] = Idle /\ calls < MaxCalls
    /\ calls' = calls + 1
    /\ frame' = [frame EXCEPT ![h] =
           [at |-> "record", event |-> e, via |-> via, sqs |-> sqs,
            deduped |-> FALSE, trigger |-> NewTrigger(e, "Recorded", FALSE)]]
    /\ UNCHANGED <<memory, durable, up, answer, world, crashes>>

\* webhook_event always routes; generic_event and ingest_event may be asked
\* not to.
Ingest(h) == \E e \in Events, via \in Ingests : Begin(h, e, via, FALSE)

\* One message of a sqs_poll, which refuses an unknown or disabled source;
\* an error ends the poll and leaves the rest.
SqsPoll(h) ==
    /\ route # "unrouted"
    /\ \E e \in queue, via \in Ingests : Begin(h, e, via, TRUE)

\* trigger_goal brings its own route.
TriggerGoal(h) == \E e \in Events, r \in Routes \ {"unrouted"} : Begin(h, e, r, FALSE)

\* Journalled before the map changes; concurrent registrations are left out.
RegisterSource ==
    /\ up /\ calls < MaxCalls
    /\ \E r \in Routes \ {route} : route' = r /\ Write(SourceEntry(r))
    /\ calls' = calls + 1
    /\ UNCHANGED <<keys, events, triggers, up, frame, answer, world, crashes>>

-----------------------------------------------------------------------------
(* record_event: the write lock is kept until the journal has the event.   *)

\* Mutant: deduplicates by event id.
DuplicateById(e) == \E r \in RecordedEvents : r.id = e.id

IsDuplicate(e) ==
    IF Backend = "jsonl" THEN e.key \in keys
    ELSE \E r \in RecordedEvents : r.key = e.key \/ r.id = e.id

KeysAfterFailure(e) == IF Backend = "jsonl" THEN keys \cup {e.key} ELSE keys

RecordEvent(h) ==
    LET e == frame[h].event IN
    /\ At(h, "record")
    /\ \/ /\ IsDuplicate(e)
          /\ frame' = [frame EXCEPT ![h].at = "route", ![h].deduped = TRUE]
          /\ UNCHANGED <<memory, durable, answer>>
       \/ /\ ~IsDuplicate(e)
          /\ Write(EventEntry(e))
          /\ keys' = keys \cup {e.key}
          /\ events' = {x \in events : x.id # e.id} \cup {e}
          /\ Goto(h, "route")
          /\ UNCHANGED <<triggers, route, answer>>
       \/ /\ ~IsDuplicate(e)
          /\ DiskFails
          /\ keys' = KeysAfterFailure(e)
          /\ Answers(h, "error")
          /\ UNCHANGED <<events, triggers, route, durable>>
    /\ UNCHANGED <<up, world, bounds>>

-----------------------------------------------------------------------------
(* route_event_from_source and trigger_goal_inner.                         *)

TriggersOf(e) == {k \in DOMAIN triggers : triggers[k].event.id = e.id /\ triggers[k].goal}

LastTrigger(e) == triggers[CHOOSE k \in TriggersOf(e) : \A j \in TriggersOf(e) : j <= k]

RouteOf(h) == CASE frame[h].via = "source" -> route
                [] frame[h].via = "none" -> "unrouted"
                [] OTHER -> frame[h].via

Hold(h, t) ==
    /\ frame' = [frame EXCEPT ![h].at = "store", ![h].trigger = t]
    /\ UNCHANGED answer

\* Whether a passive route's trigger names a goal: one the request brought,
\* or the target of an incomplete steering route.
MayNameGoal(via, r) ==
    IF r = "no_directive" \/ (r = "human_review" /\ via # "source")
    THEN BOOLEAN ELSE {FALSE}

\* A duplicate replays the projection of the first trigger, or is answered
\* as Deduped when there is none.
RouteDuplicate(h) ==
    LET e == frame[h].event IN
    IF TriggersOf(e) = {} THEN Hold(h, NewTrigger(e, "Deduped", FALSE))
    ELSE IF LastTrigger(e).delivered THEN Finish(h)
    ELSE /\ frame' = [frame EXCEPT ![h].at = "project", ![h].trigger = LastTrigger(e)]
         /\ UNCHANGED answer

\* Mutant: looks the key up again, after record_event has inserted it.
KeyIsKnown(h) == frame[h].event.key \in keys

\* The `deduped` argument of trigger_goal_inner.
Deduped(h) == frame[h].deduped

\* The source is unknown or disabled, no routing was asked for, or the source
\* only records.
NotRouted(h) ==
    \/ RouteOf(h) = "unrouted"
    \/ RouteOf(h) = "record_only" /\ frame[h].via = "source"

RouteFirst(h) ==
    LET e == frame[h].event
        r == RouteOf(h) IN
    \/ /\ r \in DOMAIN PassiveStatus
       /\ \E goal \in MayNameGoal(frame[h].via, r) :
              Hold(h, NewTrigger(e, PassiveStatus[r], goal))
    \/ /\ r \in ActiveRoutes
       /\ IF Ingress THEN Goto(h, "submit") /\ UNCHANGED answer
                     ELSE Hold(h, NewTrigger(e, "Recorded", TRUE))

RouteEvent(h) ==
    /\ At(h, "route")
    /\ \/ NotRouted(h) /\ Finish(h)
       \/ ~NotRouted(h) /\ Deduped(h) /\ RouteDuplicate(h)
       \/ ~NotRouted(h) /\ ~Deduped(h) /\ RouteFirst(h)
    /\ UNCHANGED <<memory, durable, up, world, bounds>>

\* submit_goal or steer_goal.
Submit(h) ==
    LET e == frame[h].event IN
    /\ At(h, "submit")
    /\ \E outcome \in SubmitOutcomes :
           /\ goals' = IF outcome = "refused" THEN goals
                       ELSE [goals EXCEPT ![e.key] = @ + 1]
           /\ Hold(h, NewTrigger(e, IF outcome = "taken" THEN "Submitted" ELSE "Failed",
                                 TRUE))
    /\ UNCHANGED <<memory, durable, up, queue, projected, bounds>>

-----------------------------------------------------------------------------
(* append_trigger.                                                         *)

\* A row of triggered_goals refers to a row of external_events.
TriggerFits(t) == Backend = "jsonl" \/ \E e \in RecordedEvents : e.id = t.event.id

StoreTrigger(h) ==
    LET t == frame[h].trigger IN
    /\ At(h, "store")
    /\ \/ TriggerFits(t) /\ Write(TriggerEntry(t)) /\ Goto(h, "push") /\ UNCHANGED answer
       \/ /\ DiskFails \/ ~TriggerFits(t)
          /\ Answers(h, "error")
          /\ UNCHANGED durable
    /\ UNCHANGED <<memory, up, world, bounds>>

PushTrigger(h) ==
    /\ At(h, "push")
    /\ triggers' = Append(triggers, frame[h].trigger)
    /\ IF GoalStore /\ frame[h].trigger.goal
       THEN Goto(h, "project") /\ UNCHANGED answer
       ELSE Finish(h)
    /\ UNCHANGED <<keys, events, route, durable, up, world, bounds>>

\* Mutant: a failed projection is only logged.
ProjectionErrorIgnored(h) ==
    /\ At(h, "project")
    /\ projected' \in {projected, projected \cup {Projection(frame[h].trigger)}}
    /\ Goto(h, "mark")
    /\ UNCHANGED <<memory, durable, up, answer, queue, goals, bounds>>

\* project_trigger_to_goal_store; without a goal store there is nothing to do.
ProjectTrigger(h) ==
    /\ At(h, "project")
    /\ \/ /\ GoalStore
          /\ projected' = projected \cup {Projection(frame[h].trigger)}
          /\ Goto(h, "mark")
          /\ UNCHANGED answer
       \/ GoalStore /\ Answers(h, "error") /\ UNCHANGED projected
       \/ ~GoalStore /\ Finish(h) /\ UNCHANGED projected
    /\ UNCHANGED <<memory, durable, up, queue, goals, bounds>>

\* The mark is kept in memory only, on the latest trigger like this one.
MarkProjected(h) ==
    LET t == frame[h].trigger
        same == {k \in DOMAIN triggers : /\ triggers[k].event.id = t.event.id
                                         /\ triggers[k].goal = t.goal
                                         /\ triggers[k].status = t.status}
        last == CHOOSE k \in same : \A j \in same : j <= k IN
    /\ At(h, "mark")
    /\ triggers' = IF same = {} THEN triggers
                   ELSE [triggers EXCEPT ![last].delivered = TRUE]
    /\ Finish(h)
    /\ UNCHANGED <<keys, events, route, durable, up, world, bounds>>

\* A failed delete is only reported.
DeleteMessage(h) ==
    /\ At(h, "delete")
    /\ \/ queue' = queue \ {frame[h].event}
       \/ UNCHANGED queue
    /\ Answers(h, "ok")
    /\ UNCHANGED <<memory, durable, up, goals, projected, bounds>>

-----------------------------------------------------------------------------
(* The process and its journal.                                            *)

WriteNewline ==
    /\ owed > 0
    /\ owed' = owed - 1
    /\ disk' = Append(disk, Newline)
    /\ UNCHANGED <<memory, up, frame, answer, world, bounds>>

Crash ==
    /\ up /\ crashes < MaxCrashes
    /\ crashes' = crashes + 1
    /\ up' = FALSE
    /\ keys' = {} /\ events' = {} /\ triggers' = <<>> /\ route' = "unrouted"
    /\ owed' = 0
    /\ frame' = [h \in Handlers |-> Idle]
    /\ answer' = [h \in Handlers |-> "none"]
    /\ UNCHANGED <<disk, world, calls>>

CanStart == Backend = "postgres" \/ Readable(disk)

\* Mutant: the replay restores events but not their keys.
ReplayWithoutKeys == {}

ReplayedKeys == {e.key : e \in RecordedEvents}

\* The lines or rows of a kind, as they are read one after the other.
Listed(kind) ==
    LET read[n \in 0..Len(disk)] ==
            IF n = 0 THEN <<>>
            ELSE IF disk[n].kind = kind THEN Append(read[n - 1], disk[n]) ELSE read[n - 1]
    IN  read[Len(disk)]

\* The journal is read from its start; list_triggers_postgres lists the
\* newest row first.
ReplayedTriggers ==
    LET rows == Listed("trigger")
        place(k) == IF Backend = "jsonl" THEN k ELSE Len(rows) + 1 - k IN
    [k \in DOMAIN rows |-> rows[place(k)].trigger]

ReplayedRoute ==
    LET rows == Listed("source") IN
    IF rows = <<>> THEN "unrouted" ELSE rows[Len(rows)].route

\* replay_journal or load_postgres_state.
Start ==
    /\ ~up /\ CanStart
    /\ up' = TRUE
    /\ keys' = ReplayedKeys
    /\ events' = RecordedEvents
    /\ triggers' = ReplayedTriggers
    /\ route' = ReplayedRoute
    /\ UNCHANGED <<durable, frame, answer, world, bounds>>

\* No request comes, or every start fails on the journal.
Quiescent ==
    /\ \/ up /\ owed = 0 /\ \A h \in Handlers : frame[h] = Idle
       \/ ~up /\ ~CanStart
    /\ UNCHANGED vars

Work(h) ==
    \/ RecordEvent(h) \/ RouteEvent(h) \/ Submit(h) \/ StoreTrigger(h)
    \/ PushTrigger(h) \/ ProjectTrigger(h) \/ MarkProjected(h) \/ DeleteMessage(h)

Request(h) == Ingest(h) \/ SqsPoll(h) \/ TriggerGoal(h)

Next ==
    \/ \E h \in Handlers : Request(h) \/ Work(h)
    \/ RegisterSource
    \/ WriteNewline
    \/ Crash
    \/ Start
    \/ Quiescent

Spec == Init /\ [][Next]_vars

\* An HTTP handler that was started is run to its end by the tokio runtime.
Fairness == \A h \in Handlers : WF_vars(Work(h))
-----------------------------------------------------------------------------
(* Properties *)

Frames == {Idle} \cup
    [at : {"record", "route", "submit", "store", "push", "project", "mark", "delete"},
     event : Events, via : AllRoutes \cup {"source", "none"}, sqs : BOOLEAN,
     deduped : BOOLEAN, trigger : Trigger]

\* Type correctness; an event id and a dedupe key are in the maps together.
TypeOK ==
    /\ events \subseteq Events
    /\ {e.key : e \in events} \subseteq keys /\ keys \subseteq Keys
    /\ triggers \in Seq(Trigger)
    /\ route \in AllRoutes
    /\ owed \in Nat /\ (Backend = "postgres" => owed = 0)
    /\ up \in BOOLEAN
    /\ frame \in [Handlers -> Frames]
    /\ answer \in [Handlers -> {"none", "ok", "error"}]
    /\ queue \subseteq Events
    /\ goals \in [Keys -> Nat]
    /\ projected \subseteq [event : EventIds, status : Statuses, goal : BOOLEAN]
    /\ calls \in 0..MaxCalls /\ crashes \in 0..MaxCrashes

\* However often, wherever and however concurrently an event is delivered,
\* and whatever crashes in between, Restate takes at most one goal or
\* steering call for its dedupe key.
AtMostOneGoal == \A k \in Keys : goals[k] <= 1

\* A trigger tells what happened: one that says Submitted has a goal behind it,
\* and one marked as projected is what the goal store has, so that a duplicate
\* may skip both, whichever handler stored it, before or after a restart
\* (trigger_goal_inner, project_trigger_to_goal_store, mark_trigger_projected).
TriggersAreTrue ==
    \A k \in DOMAIN triggers :
        /\ triggers[k].status = "Submitted" => goals[triggers[k].event.key] = 1
        /\ triggers[k].delivered => Projection(triggers[k]) \in projected

\* A delivery that was recorded as the first of its key and is to be routed is
\* not lost silently: a stored trigger shows what came of it, its sender gets an
\* error, the source was disabled meanwhile, or the process crashed.  The
\* key's later deliveries are duplicates and will not make up for it.
FirstDeliveryIsRouted ==
    \A h \in Handlers :
        At(h, "route") /\ ~frame[h].deduped /\ RouteOf(h) \in ActiveRoutes
        ~> \/ At(h, "push") /\ frame[h].trigger.status # "Deduped"
           \/ At(h, "route") /\ RouteOf(h) \notin ActiveRoutes
           \/ answer[h] = "error" \/ ~up

-----------------------------------------------------------------------------
(* What the documentation says of the gateway. *)

\* "deletes the SQS message only when sqs.delete_on_success=true and ingest
\* succeeds": what left the queue is on record.
DeletedWasIngested ==
    \A e \in Events \ queue : \E r \in RecordedEvents : r.key = e.key
=============================================================================
