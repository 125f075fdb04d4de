# TLA+ verification of the technicolor task graph

This directory specifies the control plane of the repository in TLA+: the durable
goal workflow that the coordinator drives, the domain state machine it changes,
and the services around it that keep state of their own. TLC model-checks the
specifications on small instances; TLAPS proves the main theorems for every value
of the constants. `PROJECT.json` maps the definitions to the source lines they
translate, and lists runs, mutants, findings, hazards and theorems. A definition that is
not in the map is a fragment of the code of one that is: its lines are among those of the
definition that uses it.

## The system

A *goal* is a tree of tasks that LLM workers, reviewers and humans work on. Its
state, `GoalState`, lives in a Restate virtual object per goal. Workers never
change it: they answer a request, and the coordinator validates and applies the
answer.

```
 operator, CLI, UI ----> coordinator (GoalWorkflow object, AgentRunner,
 event gateway --------> ValidationService)  --dispatch--> runner registry
      |                      |        \--run task--> runner sidecars
      | events, triggers     | snapshots  \--approval requests--> notifier
      v                      v
   goal store  <-------------+            memory gateway, sandbox runner,
                                          tool registry: used by the runners
```

| Component | State | Operations | Hard behaviour | What makes it correct |
| --- | --- | --- | --- | --- |
| Goal workflow, `crates/coordinator` | one stored `GoalState`, the frame of the running handler | `run`, `cancel`, `steer`, `approve`, `restart`, `create_thunk`, `resume_thunk`, `branch`, votes, mechanism rounds; `drive_state` | a drive stores the state, calls workers, and can end with a terminal error between any two stores; it dispatches from a snapshot of the frontier | a cancelled goal stays as it is; gated attempts run only when approved; nothing waits for what cannot come; handlers end |
| Goal state machine, `crates/domain/src/lib.rs` | task tree, approvals, delayed compute thunks, review rounds, branch groups, mechanism rounds, restarts, steering and satisfaction | methods of `GoalState`, each ending in `refresh_goal_status`; `progress`, `compute_graph`, snapshots | long sequences of legal operator calls; voters, retries and selections in any order | Done work is reviewed; waits belong to the current attempt; a group is settled by the votes it asked for; what the operator is shown explains what the goal waits for |
| Operator actors, `crates/domain/src/operator.rs` | none: a projected status | `can_apply` | a second opinion on what a command may do | it agrees with the coordinator |
| Plans, policies, validation, in `crates/domain`, `crates/validator` | plan phases and revisions | revise, vote, select, compile; `ValidationReport::from_result`; capacity plan | documents whose parts interact | evidence never hurts; scaling stays inside its policy |
| Agent dispatch, in the coordinator | none: the call of each attempt | `run_task`: dispatch, call the runner, time out, fall back to the stub | a timed-out runner goes on; a crash repeats the step | a result belongs to its attempt and names who did it |
| Runner registry, `crates/runner-registry` | registrations, heartbeats; journal | register, heartbeat, dispatch, capacity plan | leases, journal behind the answer | tasks go to runners within their lease; a restart shows the same |
| Event gateway, `crates/event-gateway` | sources, events, dedupe keys, triggers; JSON Lines journal or Postgres | register source, ingest, webhook, generic event, SQS poll, trigger | repeated and concurrent deliveries in every provider's format, lost answers, crash between recording and submitting | at most one goal per dedupe key, nothing lost silently, duplicates are no news |
| Notifier, `crates/notifier` | outbox entries and threads; JSON Lines journal | notify, ack, retry, retry due; seven delivery adapters | clones of an entry edited across awaits, targets that answer late or never | what reached nobody stays visible; a restart shows the same |
| Goal store, `crates/goal-store` | snapshots, events, action queue, plans, drafts, artifacts, chat turns; journal or Postgres | record, append, list, plan life cycle | overlapping handlers that persist before they change memory, retries, crash | an append-only log without clashes; the backends answer alike |
| Memory gateway, `crates/memory-gateway` | ledger of records and events, journal, two external indexes | write, search, join, retract, edit, repair | one of several writes failing | repair restores agreement, an edit replaces, a restart shows the same |
| Sandbox runner and tool registry, `crates/sandbox-runner`, `crates/tool-registry` | workspace records, directories, jobs in the cluster | create, plan, run, snapshot, clean up, provision | no lock: creates, cleanups, commands and crashes meet in one directory | a repeated create heals; only plannable commands run |
| Terminal UI, `crates/cli/src/tui.rs` | the `App`, one request under way | keys, polling, refresh | selection moves while a request runs | drafts are submitted where they were made; cancelling takes two presses for one goal |
| Scenario runner, `crates/cli/src/scenario.rs` | the run directory | run, report, seed | a projection derived from the scenario's own text | a passed scenario is settled |
| Observability, CLI commands, web UI | none that the control plane relies on | | | |

Components talk by HTTP or Restate calls. The coordinator calls runner registry,
runners, validator and notifier from inside a drive and projects snapshots to the
goal store; the event gateway calls the coordinator through Restate ingress and
projects triggers to the goal store; nothing calls back.

## Modules

| Module | Models | Used by |
| --- | --- | --- |
| `GoalState` | `GoalState` and its methods as operators on a record | all goal modules |
| `GoalProjection` | progress, compute graph, task queries and the snapshot for the goal store | `GoalWorkflow` |
| `OperatorActors` | `can_apply` of the seven operator actors | `GoalViews` |
| `GoalViews` | what the actors and the snapshot make of the workflow's steps | `MCGoalWorkflow`, `GoalGates_proofs` |
| `GoalWorkflow`, `MCGoalWorkflow` | the virtual object's handlers and `drive_state`; answers and directives for TLC | runs `waits`, `review`, `steering`, `progress` |
| `GoalLifecycle` | abstract: the stages of tasks, one attempt at a time | refined by `GoalWorkflow` |
| `GoalClaims` | a statement of the documents that the code does not keep | run `last_round` |
| `GoalWorkflow_proofs`, `GoalGates_proofs` | theorems about `GoalWorkflow`: types and cancellation; approvals, waits, dependencies, reviews, actors and snapshots; its refinement of `GoalLifecycle` | TLAPS |
| `Jsonl` | the JSON Lines file the services append to | the services |
| `EventIntake`, `MCGateway` | how a delivery is authenticated, normalised and keyed; composed with `EventGateway` | run `gateway_postgres` |
| `EventGateway`, `MCEventGateway` | the event gateway on both backends | runs `gateway_*` |
| `EventGateway_proofs` | theorems about `EventGateway` and `EventIntake` | TLAPS |
| `NotificationTargets`, `Notifier`, `MCNotifier` | the delivery adapters; the outbox and the thread ledger | run `notifier` |
| `Notifier_proofs` | theorems about `Notifier` | TLAPS |
| `ExecutionProfile`, `Capacity` | the approval gate, matching and choice of runner and model; the capacity plan | `RunnerRegistry`, `SandboxPlan`, `RunnerPool` |
| `RunnerRegistry`, `AgentDispatch` | the registry; `run_task` with registry, runners and crashes | run `worker_services` |
| `AgentDispatch_proofs` | theorems about `AgentDispatch` and `RunnerRegistry` | TLAPS |
| `MemoryGateway` | ledger, journal, Graphiti and Qdrant | run `worker_services` |
| `SandboxPlan`, `Workspaces`, `MCWorkerServices` | what the sandbox runner decides; the workspace of a task | run `worker_services` |
| `WorkerServices_proofs` | theorems about `Workspaces` and `MemoryGateway` | TLAPS |
| `GoalLog` | abstract: an append-only log without clashes | refined by `GoalStore` |
| `DurablePlan`, `GoalStore`, `MCGoalStore` | plans; the goal store on both backends | run `goal_store` |
| `GoalStore_proofs` | theorems about `GoalStore`, its refinement of `GoalLog` among them | TLAPS |
| `Branches`, `Deliberation`, `Validation`, `Verdicts`, `RunnerPool`, `Console`, `ScenarioContract`, `ScenarioRunner`, `MCDecisions` | branch groups, mechanism rounds, reports and the service that makes them, a pool that follows its plan, the console, scenarios | run `decisions` |
| `Decisions_proofs` | theorems about `Branches`, `Deliberation`, `Verdicts`, `RunnerPool`, `Console` and `ScenarioRunner` | TLAPS |

Where parts share nothing, one run holds several of them: an initial choice
(`service`, `topic`, the intake or the recording of a delivery) says which part
the behaviour is about, and the others stand still. That loses no interleaving,
since no action of one reads what another changes.

### Goal state and goal workflow

`state` is the value under `STATE_KEY`, `handler` the frame of the one handler
Restate lets run on the object at a time, `calls` bounds the operator's calls. A
method of `GoalState` is an operator from a goal to a goal; a method that can
return `Err` has a companion `...Ok`. Tasks are numbers in the order of their
creation, task 1 is the root. `refresh_goal_status`, `ensure_review_frontier` and
the retirement of approvals and thunks are part of the operators of the methods
that call them.

`drive_state` is one action per step between two `ctx.set`: it checks the stop
conditions (`DriveStops`, `BudgetExhausted`), takes the runnable tasks
(`SnapshotFrontier`) or extends an empty frontier (`ExtendFrontier`), and walks the
snapshot: `DispatchTask` asks for approval or marks the task Running,
`WorkerAnswers` applies any of the configured answers, `ApplyReport` applies the
validation, the timeout and the review frontier. A `domain_error` is a terminal
error of Restate: the handler ends and the last stored state stays. So does a
projection that fails when projections are required (`Project`). A crash of the
coordinator is a stutter, since Restate replays the handler from its journal.

What is abstracted:

- The order of the walk over the snapshot is any order; the code sorts by
  priority, depth and id, which no property reads.
- The mean reward is reduced to whether it reaches the threshold
  (`min_satisfaction_score` and `reward_threshold` are equal in the defaults).
- `MaxDepth` and `MaxChildren` stand for the limits of spawn policy and budget
  that bind first; budgets are never decremented by the code.
- `approval_policy.evaluate` is the set `Gated` of tasks it gates.
- `TimeoutAction::RequestHumanApproval` behaves as `BlockAndNotify`. The expiry
  time of a thunk is stored by the code and never enforced.
- Refused and skipped calls and `inject_feedback` change only events or fields no
  modelled operator reads; they are stutters. So are votes and mechanism rounds
  here; they have their own state machine in `Deliberation`.
- A worker asks for children of purpose Work; `standard_review` without a target is
  `inject_task`, a research check is `request_research`.
- Branch groups are off, as `branching_policy.enabled` is by default. `Branches`
  models them on a goal without reviews, with the coordinator's turn (dispatch,
  result, validation, frontier) as one action, because nothing but an error in the
  vote is stored in between.

`GoalProjection` computes what the operator sees from the same record. In `GoalViews`,
`SnapshotExplainsTheGoal` holds it against what the workflow waits for, and
`ActorsPermit` asks the operator's actors about every step the coordinator takes. A
snapshot that says Done has nothing open only as long as nobody steered the goal:
steering a Done goal adds a task and leaves the status until the next drive.

`GoalLifecycle` is what all this amounts to for the tasks of a goal, in six actions: an
attempt is taken, answered, reported on or let go of; the operator arranges tasks while
no attempt is in hand; a goal is cancelled, once. The mapping (`Lifecycle` in `GoalViews`)
forgets rounds, waits, reviews, policies and the frame but for the task in hand, and
merges the two waiting statuses and the two stopped ones (`Stage`). `books` is the whole
goal: what the abstract specification does not move, such as the approvals of a
cancelled goal or anything while an answer is refused, the workflow must not move either. A
failed projection after `mark_running` is a `Take` whose caller has nothing in hand: the
task stays working until it is restarted or cancelled, as under the findings below.

### Journals

`Jsonl` is the file that event gateway, notifier and goal store append to. An
append opens the file, writes the encoded entry, then writes the newline. With
tokio's `File` the second `write_all` returns once the first write has reached the
file, while its own write is still under way. So an entry is in the file when the
append returns, its newline may be missing (`owed`), other appends may come in
between, and a crash loses what is owed. A line cut in the middle of an entry is
not modelled.

### Event gateway

`keys`, `events`, `triggers` and `route` are the fields of `EventGatewayState`
(one source, by its route), `disk` the journal or the tables, `goals` counts the
calls Restate took per dedupe key, `projected` is what the goal store got, `queue`
the SQS queue. A request goes through `RecordEvent`, `RouteEvent`, `Submit`,
`StoreTrigger`, `PushTrigger`, `ProjectTrigger`, `MarkProjected` and, from SQS,
`DeleteMessage`; every await is between two actions, and `record_event` on the
journal backend is one action because it keeps the write lock. Event id and dedupe
key are what is left of an event: provider payloads only determine these two.
Postgres constraints are modelled where they decide an outcome: `ON CONFLICT DO
NOTHING` on id and key, the upsert of triggers that keeps a row's place, the
foreign key from triggers to events, and the newest-first order of the load.
A poll takes one message at a time. The path of a journal is always configured.

`EventIntake` is what happens before: registration and its approval, tokens,
signatures and the age of a signed timestamp, and the normalisation of GitHub,
GitLab, Slack, Stripe, Jira, Linear, Alertmanager, Datadog, IDE, change-signal,
generic and SQS payloads. A
text is the sequence of the parts it is joined from, so that two different texts
are equal in the model exactly when joining makes them equal. An occurrence number
that no code reads tells a repetition from something new.

### Notifier

`store` and `threads` are the maps of `NotificationStore`, `frame` the locals of
each running handler, `delivered` what reached its target. A handler clones an
entry (`PickRetry`), delivers (`Redeliver`, `DeliverNext`), appends
(`AppendJournal` or `JournalFails`) and inserts (`InsertEntry`), with other
handlers in between. `NotificationTargets` gives for every kind of target the
reports it can end in and whether the target was reached, from its address, its
secret and what the other side does. Clocks are abstract: any scheduled retry may
be due.

### Runner registry and agent dispatch

`runners` is the registry's map, `journal` its file, `unwritten` the lines handed to
it: the write goes on behind the answer, so lines change places and a crash loses
them. `Decision` is the whole of `dispatch`: requirements, locality, labels, model
route, strategy and the stable hash as tie-break. `run_task` is one Restate step:
until its result is journalled a crash starts it again (`CoordinatorCrash`), while
the runner keeps working (`running`) on an execution nobody waits for.

### Goal store

`db` holds the tables, `journal` the lines, `mem` the maps every handler changes
after persisting. A handler is `Receive` (or `ReceivePlan`, which loads the plan it
will store whole), `Persist` and `ApplyToMemory`; two handlers overlap at each of
these. Lists are filters over the store a backend reads from. `Log` maps what a restart would find to `GoalLog`.
A snapshot `Fits` the tables when its artifacts have different ids, since they are inserted
one by one after the goal's old rows are deleted; `Others` is what a DELETE of a goal's rows leaves.

### Memory gateway

`ledger` has records and events, `graph` and `points` are the external indexes. A
call goes through its phases one adapter at a time; `alone` says that no other call
ran meanwhile. Contents are numbered by the call that wrote them.

### Sandbox runner and tool registry

The runner is stateless; `registered` is the record file, `folder` the directory with
its four manifests, `cluster` the ConfigMap and the Job, `processes` commands that run
and write their evidence when they end. `CreateSteps` is the order of writes of
`create_workspace_inner`, each of which may fail or be the last before a crash.
The tool registry is the `tool` of a request: it checks its token and forwards.

### Branches, rounds and pools

`goal` of `Branches` is the part of `GoalState` that branch groups read; a policy chosen at
the start stays. A voter or unifier passes its validation only with a vote for one of the
candidates it was spawned for (`Passed`). `rounds` and `ranking` of `Deliberation` are the mechanism rounds and the
priority votes of a goal. A ballot has at most one allocation per proposal; the code takes
a list and counts each of its entries. `pool` of `RunnerPool` is a pool whose
recommendations are carried out and whose runners come and go.

### Console and scenarios

`app` is the `App` of the terminal UI without text and layout; the gateway answers
any time later, or not at all within the client's timeout. `meant` records what the
operator asked to cancel, for the property only. `ScenarioContract` reads a scenario
the way the searches through its JSON do: a status is its normalised token, a text is
what the searches tell apart. `ScenarioRunner` runs it against the fixture or a
gateway whose views are any of a small set, and may die at any step.

## Runs

Deadlock checking is on in the goal, gateway and notifier runs: `Quiescent` is the
state in which the system waits for requests (or a process that cannot start from
its journal), so a handler that cannot go on is reported.

| Run | Checks | Bounds |
| --- | --- | --- |
| `waits` | `TypeOK`, `CancelledGoalIsQuiet`, `PendingApprovalIsCurrent`, `GatedRunsApproved`, `SnapshotExplainsTheGoal`, `ActorsPermit`, `LifecycleKept` (the refinement of `GoalLifecycle`) | a gated root, a guardrail review, children, timeouts, refused answers, failing projections, four operator calls: enough to wait, be approved or rejected, restart and cancel |
| `review` | `DoneWorkReviewed`, `DispatchRespectsDependencies` | nine tasks: work, two rounds of two critics, two unifiers, a retry and late work; two calls |
| `steering` | `WaitsHaveAWakeup` | every directive, three calls, a monitored goal |
| `progress` | `HandlersEnd` under `FairSpec` | every kind of answer, three rounds, one call; small because TLC evaluates the fairness of a drive slowly |
| `gateway_journal` | `AtMostOneGoal` | two handlers, one key under two event ids, three requests to a source that gets its route meanwhile, projection and SQS deletion, one crash, failing writes, lost answers |
| `gateway_postgres` | `TriggersAreTrue`; `FirstDeliveryIsRouted` under fairness of the handlers; `RetriesAreDeduped`, `DuplicatesAreNoNews` of the intake | the same handlers on Postgres, with changing routes; intake: two deliveries of every provider, a source registered anew, two ticks (a signature ages out at the second) |
| `notifier` | `RestartShowsTheSame`, `AcknowledgedStays`, `UnreachedStaysVisible` | two handlers, one entry with targets of every kind, two attempts, three requests, one crash |
| `worker_services` | `RestartShowsTheSame`, `LeaseHonoured`, `ResultNamesItsAuthor` of the registry and the dispatch; `MemoryRestartShowsTheSame`, `RepairHeals`, `EditReplaces`; `CreateHeals`, `RunningWasPlannable` | two runners, two attempts of a task, one heartbeat, one second, one fault; three memory calls over two keys, one of them only written by an edit; four workspace calls; two calls at a time, one fault |
| `goal_store` | `EventsAreALog` (the refinement of `GoalLog`), `AcceptedIsDurable`, `QueueIsComplete`, `BackendsAgree` | both backends, small workloads of writes that collide in id, sequence number or key, one fault |
| `decisions` | `GroupsKeepPace`, `SelectionHasTheVotes`; `DecidedRoundsStand`; `MoreEvidenceNeverHurts`; `PlanDoesNotOvershoot`; `SubmittedInContext`, `CancelWasArmed`; `PassedIsSettled`, `FixtureIsCoherent` | a group of two candidates with voters and unifier and one failure, or two groups with a vote each and no unifier; three voters and the mechanisms, support below zero included; presets, overrides and evidence; pools of at most three; five keys and one move of the gateway; a set of scenario files, one run |

Two handlers and two ids are enough for the services' properties: each relates one
key or one entry to the handlers that work on it, and two deliveries of one key
already make every pair of steps meet. Three requests let a third see what the
first two left; the crash comes anywhere. One fault is enough because each property
speaks of what a single failure leaves behind; several are several such states.
Deadlock is not checked where the bounds end the behaviour (`goal_store`,
`worker_services`, `decisions`): a console or a service with no request left stands
still.

Every property of a passing run has a mutant: a version of one mapped definition
with a plausible bug under which TLC finds the property violated.

Fairness is weak fairness of a handler's own next step, nothing else. In
`GoalWorkflow` it stands for Restate, which retries a handler until it ends, and
for the timeout of a runner call, without which a worker might never answer. In
`EventGateway` it stands for the tokio runtime, which runs a started request to
its end. Requests are never forced to come.

### Findings

Each of these runs ends in a counterexample to a sentence of the documentation,
quoted in `PROJECT.json`.

- `last_round`: a goal satisfied in the last frontier round is stored as Blocked.
- `gateway_deleted`: the dedupe key of an event whose journal append failed stays in
  memory; the redelivery is deduplicated and deleted from SQS unrecorded.

The models also show the following behaviour. No run is kept for it; each is a short
path of the modules, or was met while reading the code for them.

Goal workflow and goal state:

- A task that waits for its children pauses the goal, and a paused goal is not
  driven (`coordinator/src/main.rs:123`), so the children do not run, although
  `domain/src/lib.rs:3898` counts them as a concrete recovery path. Nothing wakes a
  task that waited for children when they have finished.
- An answer that the spawn policy refuses leaves its task Running: `drive_state`
  stored that status before it called the worker, and the terminal error drops the
  rest (`coordinator/src/main.rs:224`).
- Steering adds a task to a Done goal, where no drive runs it; branching a Done goal
  reopens it.
- A restarted task meets the rejection of its attempt again, and every drive ends in
  `ApprovalDenied` (`domain/src/lib.rs:3173`).
- With `max_frontier_rounds = 0`, `run` on a cancelled goal makes it Blocked.
- A task with two waits becomes Runnable when one is answered while the other stays
  pending; `TaskActor::can_apply` then refuses the second answer, which the
  coordinator accepts. The coordinator cancels a Done goal, `GoalActor` refuses it.
- A review frontier that the spawn policy refuses, or another error after the result
  was stored, loses the report (`coordinator/src/main.rs:231`) and leaves the task in
  NeedsValidation, where no drive takes it up. `create_delayed_thunk` accepts such a task,
  `TaskActor::can_apply` (`domain/src/operator.rs:588`) does not. `ActorsPermit` names this
  exception (`LostReport`); with `MinReviews` above `MaxChildren` its case occurs.
- The compute graph shows a continuation that several thunks reuse with the status of
  the oldest one, and a sub-goal whose tasks are all cancelled as Done.

Branches, rounds and validation:

- With the default `cancel_original_on_branch`, branching an open work task leaves a
  Cancelled one, so `work_done` never holds and the goal cannot be satisfied; what
  depended on the original never becomes runnable.
- Before voters are spawned any task may vote, and early votes count. A failed voter
  or a cancelled candidate leaves the group waiting until an operator selects.
  `UnifierDecision` counts the unifier's vote as one of many; `VoterQuorum` without
  voting waits for ever. `max_candidates` below two makes `clamp` panic.
- No operation ratifies a round that is `RatificationRequired`;
  `max_ballots_per_participant` is not enforced; the Vickrey price may be the winner's
  own second bid. A proposal nobody mentions has no score, so a round may be decided for
  one whose support adds up to less than zero. Priority votes are not deduplicated per voter.
- The stub review scores 0.9 and fails a `coverage.min_objective_score` above that.

Registry, stores and workers:

- `dispatch` reserves nothing, so two tasks may be given to a runner with one slot
  until its next heartbeat (`runner-registry/src/main.rs:220`). A runner whose
  registration was lost in a crash is answered `known=false` and does not register
  again.
- Two plan handlers that overlap lose one revision (`goal-store/src/main.rs:637`). A
  plan is stored although its draft is refused by the unique draft key. A journal
  with one unreadable line is replaced by an empty store (`:376`). The worker-run
  list shows the oldest result of a run id.
- An artifact row's id is a hash of goal, task and URI (`goal-store/src/main.rs:2878`), and
  `final_artifacts` keeps an artifact each time a task finishes with it: when two tasks of a goal
  finish with one URI, every later snapshot of the goal breaks the primary key of
  `coat.artifacts` and is refused by a Postgres store, and accepted by a journal.
- One URI posted as an artifact and as a checkpoint of the same task is one row of the tables,
  with the later kind, and two entries in memory.
- An edit whose write fails has retracted the old keys already; an overlapping repair
  writes a stale clone to the indexes; retracted keys can come back through Qdrant
  hits.
- A command that timed out keeps running and writes its evidence into a directory
  that was cleaned up meanwhile; `cleanup` says cleaned when the removal failed; two
  concurrent creates mix the record of one with manifests of the other; a Job that
  fails to apply leaves its ConfigMap.

Event gateway and notifier:

- On Postgres a duplicate with a new event id stores a trigger whose foreign key has
  no row, and is answered with an error (`event-gateway/src/main.rs:568`).
- `trigger_projection_sequence` (`:2085`) takes the last eight bytes of a UUID, whose
  top bit is set; a Postgres goal store converts it with `as_i64` and refuses it, so
  there no trigger is projected and the sender gets an error after the goal was
  submitted.
- Jira events are identified by kind and issue, GitLab's without their uuid header by
  the object: the next change of the kind is dropped as a duplicate. Deliveries with
  no id get a random one, so their repetitions are new events.
- A source whose approval record cannot be projected is active and answered with an
  error (`:223`).
- Two journal appends, or an append after a crash, can share a line; the notifier then
  refuses to start (`notifier/src/main.rs:1183`), although the journal is there to
  persist the outbox across restarts.
- Of two concurrent retries of one outbox entry the failing one may insert last and
  take a delivered entry out of `awaiting_ack` (`:512`). An email without an outbox
  directory is reported as delivered. A retry after a lost answer reaches SQS twice.

Console and scenarios:

- A failed chat reload after selecting or clearing a goal ends the console
  (`tui.rs:1533`); a refresh may replace the action queue between drawing and key, so
  that the index points at another row; a submit whose answer times out can be
  submitted again.
- A scenario without a fixture is judged against a projection derived from its own
  expectations. A worker result `budget_exhausted` becomes a done task. The goal that
  is polled is the smallest known id, not the submitted one. A run that fails early
  leaves the report of the run before. The seed counts no waiting thunk as open.

## Proofs

Eight modules prove the theorems that `PROJECT.json` lists, each for every value of the
constants that satisfies the named assumptions of the modules it is about. Every
property proved here is also checked by a run, itself or (`CancelledIsFinal`) as a part
of one that is, and the invariants that strengthen them
were tried with TLC on small instances before they were proved. Two conventions recur. An
operator that a handler is built from has one lemma that says what it keeps, so that the
proof of a step only composes lemmas. And what a fold computes (a replay, a list of
events that is applied, a sum of votes, a frontier that visits every group) is proved by
induction over a *set* of numbers: a recursive function is unfolded once per step, and
`NatSetInduction` (`SetInduction` in `EventGateway_proofs`) says that a set that holds 0
and with every number the next one holds all of them.

`GoalWorkflow_proofs`: for every size of the task pool, every policy and every set of
answers and directives that satisfies `ConstantsOK` and `WorkflowConstantsOK`,

- `TypeCorrect`: `Spec => []TypeOK`. `TypeOK` is not inductive: dispatch and answers
  need to know that the handler's task exists, and new ids that the pool has room.
  `TypeInv` adds that. Each operator of `GoalState` has a lemma that it maps goals to
  goals; a step of the workflow composes them.
- `CancelledQuiet`: `Spec => []CancelledGoalIsQuiet`, and `CancelledFinal`:
  `Spec => CancelledIsFinal`, both when `MaxRounds > 0`. The inductive invariant
  `CancelInv` says that a cancelled goal is quiet and that a handler running on it
  has not got past the first check of the drive. Each operator's lemma also says
  that it does not cancel a goal by itself (`Follows`), so only `Cancel` has to be
  shown to establish quietness. The assumption is needed: with no round at all,
  the statement after the loop makes a cancelled goal Blocked. `CancelledIsFinal` is
  what `LifecycleKept` says of `books` once the goal is `over`.

`GoalGates_proofs`, on the same assumptions:

- `ApprovalsCurrent`, `GatesHold`, `WaitsWoken`, `DependenciesFirst`:
  `PendingApprovalIsCurrent`, `GatedRunsApproved`, `WaitsHaveAWakeup` and
  `DispatchRespectsDependencies`. None of the first three is inductive. `GatesInv` is
  `PoolInv` (which ids are in use, and that an unborn task has no parent and never timed
  out), `ApprovalInv` (a pending approval is for the next attempt, and no attempt is asked
  about twice), `GateInv` (a gated attempt under way has its own approval), `Woken` (every
  waiting task has a waker), and `RoundInv`: what the frame of `drive_state` still holds
  when it resumes after an await. `RoundInv` is what makes the stale snapshot of the
  frontier harmless: what the tasks left in it depend on stays Done, and the task in hand is
  what the last step made it. `DependenciesFirst` follows from it as an
  action property (`StartsReady`).
- `FinishedWorkIsReviewed`: `DoneWorkReviewed`. A validation finishes work and the review
  frontier looks at it, and between the two the property is false; both are in one step of
  the handler. `ReviewInv` is therefore split into `Structure`, which holds in the middle
  of the step too (purposes, cancelled tasks, the shape of rounds), and `Settled`, which
  the frontier restores. All other operators are `Tame`: they finish no task and no goal.
  A goal whose `MaxRounds` is 0 is a case of its own, since no drive ever finishes work.
- `ActorsTakeEveryStep`, `SnapshotsExplain`: `ActorsPermit`, `SnapshotExplainsTheGoal`.
  `ViewInv` adds to the invariants above that parents and waits name tasks there are
  (`Rooted`), that a Done goal nobody steered has nothing open (`Unsteered`), and that the
  tasks left in a round are still Runnable and not the one in hand (`LeftInv`). That the
  graph has as many nodes as tasks, waits and approvals is a bijection with their ids. Trying
  to prove `ActorsPermit` showed its one exception: a handler that fails between a result and
  its report leaves a task whose actor refuses the thunk that the coordinator accepts.
- `LifecycleHolds`: `LifecycleKept`, the refinement of `GoalLifecycle`, when `MaxRounds > 0` as
  for `CancelledFinal`. Every operator of `GoalState` has a lemma about statuses and dependencies
  alone: control handlers and gates move tasks (`Moved`), steering and the review frontier
  add tasks behind those there are (`Bears`), an answer or a report gives the task in hand
  one new status (`Rests`) and then adds. Each kind of step is an abstract action
  (`ArrangeStep`, `TakeStep`, `AnswerStep`, `ReportStep`, `CancelStep`, `LetGoStep`) or a
  stutter (`IdleStep`). The invariants above supply the guards: `RoundInv` and `LeftInv` that
  what is taken from the stale snapshot is ready and its dependencies done, `PoolInv` that
  a new id was unborn, `CancelInv` that a cancelled goal only stutters. `HandInv` adds
  that outside of an attempt no task is in hand and that one at the validator has its answer.

`GoalStore_proofs`, on `StoreAssumption`: a workload's writes are records of a known kind,
a snapshot's rows carry the snapshot's goal id (they are rows of its own lists) and its
events are a list; for the last theorem also on `ReferenceAssumption`, that an identifier stands
for one thing: a later snapshot of a goal still has its tasks (`GoalState` never removes
one) and no other goal has them (their ids are minted), artifacts of one id have one
checkpoint, source approvals of one id one source (the id is a hash of both), and chat
turns of one id or key one session.

- `EventsAreALogRefines`: `GoalStore` implements `GoalLog`. Initial states map to initial
  states, and each step adds to the log a set of records that clash with none
  (`LogOf`, `Found`) or stutters. `apply_events` and `replay` are the folds here.
- `AcceptedStaysDurable`: `AcceptedIsDurable`; `QueueStaysComplete`: `QueueIsComplete`. `StoreInv`
  relates each handler's frame to the durable log (what was persisted is found there, on
  Postgres always and on the journal while it is `intact`) and says of memory that its
  queue is what snapshots and drafts call for (`QueueInv`), whichever was applied first.
- `BackendsStayTogether`: `BackendsAgree`. The two sides never hold the same things: memory keeps
  every artifact and one source approval per id, the tables one artifact per id and one approval
  per source and reference, and a snapshot's tasks replace rows by their ids on one side and
  by their goal on the other. `Together` says what they share; `FromRequests` says where the records
  come from, above all that every task was in a snapshot no newer than the `newest`
  (`Projected`), which makes the two replacements the same (`TasksOfTheGoal`). `TogetherInv` has
  memory one step behind while a request stands between its transaction and the lock
  (`MemoryAfter`). The proof needed the artifacts of a snapshot to have different ids, which
  no check grants: that is the guard `Fits` now has, and a point above. `Vec::retain` is a
  fold here too (`Select`, `SelectKeeps`).

`Notifier_proofs`, on `NotifierAssumption`:

- `UnreachedIsQueued`: `UnreachedStaysVisible`. `OutboxInv` says of every copy of an entry,
  in memory, in a journal line and in a handler's frame, that it is scheduled for a
  retry or dead-lettered when its target was not reached (`Good`; emails are excepted, as in
  the property). The last line of an id is what a replay shows (`LastOf`). Overlapping handlers only ever choose between copies that are
  all good.
- `RestartIsFaithful`, `AcknowledgementsStay`: `RestartShowsTheSame`, `AcknowledgedStays`. Both
  speak of requests that come one at a time, and so does `SoloInv`: memory is the replay
  of the journal (`Synced`), except for the one line that the running handler has in
  hand (`Lacks`), and no line or frame takes an acknowledgement back (`KeepsAcked`).

`EventGateway_proofs`, on `GatewayAssumption`: any number of handlers, events, routes and
requests, both backends and any failures,

- `AtMostOneGoalHolds`: `Spec => []AtMostOneGoal`. `OneGoalInv`, the
  inductive invariant, says that a key is on disk before anyone may submit for it
  (`CallersRecorded`), that a handler between recording and submitting is the only
  one of its key and no goal was counted before (`OneCaller`), and that a running
  journal backend has all recorded keys in memory (`KeysKnown`). Most steps are
  `Calm`: nobody begins to be pending, no goal is counted, no event forgotten. Only
  the first delivery of a key and the submission need an argument of their own.
- `TriggersTellTheTruth`: `TriggersAreTrue`. A trigger is `Sound` when it says Submitted
  only of a goal that Restate took and projected only of what the goal store has.
  `TruthInv` says so of every trigger on disk (`DiskTrue`), in memory (`TriggersTrue`) and
  in a handler's frame (`FramesTrue`); goals and projections are never taken back, so all
  of it survives a crash. That a replay lists only triggers that were on disk is an
  induction over the file. The attempt to prove it showed that the model had told two
  projections of the same goal apart that the goal store identifies
  (`event-gateway/src/main.rs:2668`); the model now has what is sent.
- `RetriesAreFound`: `IntakeSpec => []RetriesAreDeduped`, on `IntakeAssumption` (a delivery
  has headers and a body). Every taken event is what its delivery is normalised to with
  some random id, and `IdentifiedDecides` says, provider by provider, that the id does not
  reach the key of a delivery that identifies itself. Where it identifies itself is
  `Identified`; the proof made that exact for each way in (`ce-id` counts only as a header,
  an alert only with a group or a monitor).

`AgentDispatch_proofs`, on `DispatchAssumption` (a registration carries the id of its
runner and a lease time): any runners, tasks, number of attempts and of faults, with and
without the stub fallback,

- `ResultsNameTheirAuthors`: `DispatchSpec => []ResultNamesItsAuthor`. The property is not
  inductive: nothing in it says for whom a running execution works. `DispatchInv` adds
  that a runner only runs executions sent to it (`RunningIsOwn`), that a waiting call
  waits for an execution of its own task, attempt and runner (`WaitsForItsOwn`), and that
  an attempt under way has no result yet (`ResultsArePast`). Three lemmas carry the steps:
  `QuietStep` for what the invariant does not read, `CallsMove` for calls that go on
  without a result, and `CallsEnd` for the answers, timeouts and crashes that end calls.
- `RegistryRestartIsFaithful`: `RestartShowsTheSame`. `JournalInv`: as long as no line was
  lost or overtaken, the registry in memory is the replay of the journal followed by the
  lines still `unwritten`.
- `LeasesAreHonoured`: `LeaseHonoured`. `LeaseInv`: every time that the registry, the
  journal or a line not yet written has for a runner is the time of a message that the
  runner `Sent`, so a restart, in whatever order its lines are, cannot make a lease longer.

`WorkerServices_proofs`, for any requests, directories, keys and faults:

- `RunningStaysPlannable`, `CreateAlwaysHeals`: `RunningWasPlannable`, `CreateHeals`.
  `WorkspaceInv` says which manifests a folder may have (`FolderOk`), that a command under
  way was planned (`WorkspaceCallOk`), and how far a create that nothing disturbed has got
  (`CreateProgress`): what it has written is whole and its own.
- `MemoryRestartIsFaithful`: `MemoryRestartShowsTheSame`. `JournalFollows` says how far the
  journal lags behind the ledger: by the entry of the one call that holds the lock, and
  by the read events of searches that write theirs after it (`Readers`, `Notes`), in any order.
- `RepairAlwaysHeals`, `EditAlwaysReplaces`: `RepairHeals`, `EditReplaces`. `RepairProgress` and
  `EditProgress` say the same of an undisturbed call: which keys it is through with, and
  that the indexes, or the ledger, have them as it will answer.

`Decisions_proofs`:

- `DraftsStayInContext`, `CancelTakesTwoPresses`: `SubmittedInContext`, `CancelWasArmed`.
  `ConsoleInv`: the console is busy while a request is under way (`BusyWhilePending`), an
  armed goal is one the operator meant (`ArmedWasMeant`), and the draft on the screen and
  the one being submitted carry the context they were made in (`DraftOk`, `RequestOk`).
- `RoundsStand`: `DecidedRoundsStand`, on `DeliberationAssumption` (policies and ballots are
  numbers of the code's types; support may be negative). `RoundsInv` says that a closed
  round is settled: its quorum is in and its score is the highest (`TopExists`). Scores are
  sums over sets of allocations.
- `BranchGroupsKeepPace`, `SelectionIsWellFounded`: `GroupsKeepPace`, `SelectionHasTheVotes`, on
  `BranchesAssumption` (`max_candidates` is at least 2, below which `clamp` panics).
  `BranchInv` has the shape of a goal and its groups (`Shape`, `GroupOk`), that groups share
  no tasks (`Apart`), which tasks a group's status implies (`Reached`), that a vote names a
  finished candidate of its group and no voter has two (`VotesOk`), that a voter that passed
  has voted (`Voted`), that finished tasks have their reward (`Rewarded`), that what can be resolved is (`Resolved`), and `Pace`. The
  frontier handles one group after the other and selecting in one touches the tasks of
  others: it is the recursive function `turn`, and the induction over the groups
  (`TurnedTo`) carries what has been done for those before and what still holds of those
  after. A step may select in several groups; `Steady` and `SelectsWell` compose.
- `PlanHolds`: `PlanDoesNotOvershoot`, on `PoolAssumption` (a policy's numbers are u32).
  `PoolInv`: running and starting runners together are at most the policy's maximum, so
  their sum does not saturate, and after a step up at most what is desired.
- `EvidenceNeverHurts`: `MoreEvidenceNeverHurts`, on `RequestsAssumption` (a doctrine's lists hold
  one item per id, as the maps they come from do, and its options are the code's). The
  criteria of `ValidationReport::from_result` are taken one by one (`EnrichedPasses`). That the
  stub's results cover the objectives and gates is an induction over the presets and the
  overrides, which are folds (`ResolvedItems`): whatever they come to has one item per id
  and a minimum the stub meets unless the doctrine itself asks for more than its 0.9,
  which the property leaves out.
- `PassedStaysSettled`: `PassedIsSettled`, on `ScenarioAssumption` (actions and results are
  lists, counts are numbers of finitely many members). `ScenarioInv` says that evidence and
  report have judged an accepted scenario's own fixture, or what the gateway showed.
  The tasks of the fixture are a recursive function over a list that is one itself; the
  induction (`PlacingKeeps`) carries that the last result of a task is in its place. It made the
  property exact in three points: authors that state two different goal statuses,
  bring their own projection, or use a generated task id are left out.

### Only model-checked

- `HandlersEnd` and `FirstDeliveryIsRouted`: liveness under fairness needs ENABLED, which
  the prover does not have.
- `DuplicatesAreNoNews`, `FixtureIsCoherent`: statements about documents that are false for
  arbitrary ones: a sender may give two occurrences one id, a scenario's author may expect
  what his scenario does not lead to. The runs enumerate a set of each kind.
- The two runs that expect a violation.

## Plan

`Branches` inside the drive of `GoalWorkflow`, with reviews of the selected candidate.

## Not modelled

Observability, the commands of `crates/cli/src/main.rs`, the web UI, sidecars beyond
registration, heartbeat and execution: stateless or pure I/O. Of the scenario runner:
the evaluator's special-purpose checks and the reading of the gateway's JSON into a
projection, which are searches through documents without control of their own. Of
the terminal UI: drawing, scrolling and the text of rows. Generated schemas,
infrastructure and scripts. Identifiers that `uuid` generates outside `ctx.run` would
differ when Restate replays a handler; the model numbers tasks and does not see this.
