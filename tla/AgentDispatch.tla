---------------------------- MODULE AgentDispatch ----------------------------
(***************************************************************************)
(* The AgentRunner service of the coordinator with the runner registry and *)
(* the runner sidecars.  run_task journals one result per attempt: it asks *)
(* the registry for a runner, posts the task to it and waits with a        *)
(* timeout.  Until the result is journalled a crash of the coordinator     *)
(* makes Restate run the whole step again.  A runner keeps no record of    *)
(* what it was asked before and goes on with a task whose caller has gone. *)
(***************************************************************************)
EXTENDS RunnerRegistry

CONSTANTS
    Tasks,          \* tasks, with their execution profile
    Coordinator,    \* COAT_COORDINATOR_NODE_ID or "unset"
    AllowStub,      \* COAT_ALLOW_LOCAL_STUB_FALLBACK
    MaxAttempts,    \* bound: attempts of each task
    MaxBeats        \* bound: heartbeats sent

ASSUME DispatchAssumption ==
    /\ MaxAttempts \in Nat
    /\ AllowStub \in BOOLEAN
    /\ \A r \in Runners : Registration[r].id = r /\ Registration[r].ttl \in Nat

VARIABLES
    process,    \* per runner process: down, registering, or serving
    running,    \* per runner: the executions it works on
    message,    \* per runner: a heartbeat on its way, or none
    call,       \* per task: where run_task stands
    results,    \* the results of the attempts, as the workflow got them
    executions, \* history: every execution a runner began
    finished,   \* history: the executions that ended with an answer
    beats

dispatchVars == <<registryVars, process, running, message, call, results,
          executions, finished, beats>>

callVars == <<call, results>>
runnerVars == <<process, running, message, beats>>

NoExecution == 0
NoRunner == "none"

\* run_task's progress: idle, dispatch, post(runner), wait(execution).
Call == [at : {"idle", "dispatch", "post", "wait"}, attempt : Nat,
         runner : Runners \cup {NoRunner}, execution : Nat]

IdleCall(attempt) ==
    [at |-> "idle", attempt |-> attempt, runner |-> NoRunner, execution |-> NoExecution]

\* What the workflow gets: blocked_result, timeout_result, local_stub_result
\* or the runner's own answer with the runner the decision named.
Result(task, attempt, status, runner) ==
    [task |-> task, attempt |-> attempt, status |-> status, runner |-> runner]

StubRunner == "local-stub-fallback"

DispatchInit ==
    /\ RegistryInit
    /\ process = [r \in Runners |-> "registering"]
    /\ running = [r \in Runners |-> {}]
    /\ message = [r \in Runners |-> {}]
    /\ call = [t \in DOMAIN Tasks |-> IdleCall(0)]
    /\ results = {}
    /\ executions = <<>>
    /\ finished = {}
    /\ beats = 0

-----------------------------------------------------------------------------
(* Runner sidecars (registerAndHeartbeat, runTask).                        *)

StartRunner(r) ==
    /\ process[r] = "down"
    /\ process' = [process EXCEPT ![r] = "registering"]
    /\ UNCHANGED <<registryVars, running, message, callVars, executions, finished, beats>>

\* registerRunnerWithRetry: once per process, repeated until it is answered.
Register(r) ==
    /\ process[r] = "registering"
    /\ RegisterRunner(r)
    /\ process' = [process EXCEPT ![r] = "serving"]
    /\ UNCHANGED <<running, message, callVars, executions, finished, beats>>

\* sendHeartbeat composes what it knows now; the registry takes it later.
SendHeartbeat(r) ==
    /\ process[r] = "serving"
    /\ message[r] = {}
    /\ beats < MaxBeats
    /\ beats' = beats + 1
    /\ message' = [message EXCEPT ![r] = {Cardinality(running[r])}]
    /\ UNCHANGED <<registryVars, process, running, callVars, executions, finished>>

TakeHeartbeat(r) ==
    \E n \in message[r] :
        /\ ReceiveHeartbeat(r, n, SatSub(Registration[r].max, n))
        /\ message' = [message EXCEPT ![r] = {}]
        /\ UNCHANGED <<process, running, callVars, executions, finished, beats>>

LoseHeartbeat(r) ==
    /\ message[r] # {}
    /\ ~up
    /\ message' = [message EXCEPT ![r] = {}]
    /\ UNCHANGED <<registryVars, process, running, callVars, executions, finished, beats>>

\* The runner's answer: done, partial, blocked or failed.
Answers == {"Done", "Blocked"}

\* Mutant: the answer goes to whoever waits for the task.
FinishForTask(r) ==
    \E x \in running[r], status \in Answers :
        /\ running' = [running EXCEPT ![r] = @ \ {x}]
        /\ finished' = finished \cup {x}
        /\ LET waiting == {t \in DOMAIN Tasks :
                             call[t].at = "wait" /\ executions[x].task = t}
           IN  /\ results' = results \cup
                     {Result(t, call[t].attempt, status, r) : t \in waiting}
               /\ call' = [t \in DOMAIN Tasks |->
                     IF t \in waiting THEN IdleCall(call[t].attempt) ELSE call[t]]
        /\ UNCHANGED <<registryVars, process, message, executions, beats>>

\* A call that still waits for this execution gets the answer; the answer to
\* a call that was given up goes nowhere.
FinishExecution(r) ==
    \E x \in running[r], status \in Answers :
        /\ running' = [running EXCEPT ![r] = @ \ {x}]
        /\ finished' = finished \cup {x}
        /\ LET waiting == {t \in DOMAIN Tasks : call[t].at = "wait" /\ call[t].execution = x}
           IN  /\ results' = results \cup
                     {Result(t, call[t].attempt, status, r) : t \in waiting}
               /\ call' = [t \in DOMAIN Tasks |->
                     IF t \in waiting THEN IdleCall(call[t].attempt) ELSE call[t]]
        /\ UNCHANGED <<registryVars, process, message, executions, beats>>

-----------------------------------------------------------------------------
(* AgentRunner::run_task.                                                  *)

\* The workflow starts the next attempt of a task when the last one was not
\* done; the gate has seen the profile before.
StartAttempt(t) ==
    /\ call[t].at = "idle"
    /\ call[t].attempt < MaxAttempts
    /\ ~\E res \in results : res.task = t /\ res.status = "Done"
    /\ call' = [call EXCEPT ![t] = [IdleCall(@.attempt + 1) EXCEPT !.at = "dispatch"]]
    /\ UNCHANGED <<registryVars, runnerVars, results, executions, finished>>

\* A result other than the runner's own answer.
Return(t, status, runner) ==
    /\ call' = [call EXCEPT ![t] = IdleCall(@.attempt)]
    /\ results' = results \cup {Result(t, call[t].attempt, status, runner)}

\* With the fallback every failure but a timeout is answered by the stub.
ReturnFailure(t, runner) ==
    IF AllowStub THEN Return(t, "Done", StubRunner) ELSE Return(t, "Blocked", runner)

\* dispatch of the registry, on the runners that take tasks now.
Decisions ==
    [t \in DOMAIN Tasks |-> [available \in SUBSET Runners |->
        Choose(Tasks[t], Coordinator, {Registration[r] : r \in available})]]

Decision(t) == Decisions[t][DispatchableRunners]

\* dispatch_task and the cases before the call.
Dispatch(t) ==
    /\ call[t].at = "dispatch"
    /\ IF up /\ Decision(t) # {}
       THEN /\ \E reg \in Decision(t) :
                  call' = [call EXCEPT ![t] = [@ EXCEPT !.at = "post", !.runner = reg.id]]
            /\ UNCHANGED results
       ELSE ReturnFailure(t, NoRunner)
    /\ UNCHANGED <<registryVars, runnerVars, executions, finished>>

\* call_runner: the endpoint of a runner that is down refuses.
CallRunner(t) ==
    LET r == call[t].runner
        x == Len(executions) + 1
    IN  /\ call[t].at = "post"
        /\ IF process[r] = "down"
           THEN /\ ReturnFailure(t, r)
                /\ UNCHANGED <<running, executions>>
           ELSE /\ call' = [call EXCEPT ![t] = [@ EXCEPT !.at = "wait", !.execution = x]]
                /\ running' = [running EXCEPT ![r] = @ \cup {x}]
                /\ executions' = Append(executions,
                       [task |-> t, attempt |-> call[t].attempt, runner |-> r])
                /\ UNCHANGED results
        /\ UNCHANGED <<registryVars, process, message, finished, beats>>

\* tokio::time::timeout drops the request; the runner is not told.
TimeOut(t) ==
    /\ call[t].at = "wait"
    /\ Return(t, "TimedOut", call[t].runner)
    /\ UNCHANGED <<registryVars, runnerVars, executions, finished>>

-----------------------------------------------------------------------------
(* Failures.                                                               *)

\* The runner's process dies with its executions; their callers see the
\* connection break.
RunnerCrash(r) ==
    /\ process[r] # "down"
    /\ faults < MaxFaults
    /\ faults' = faults + 1
    /\ process' = [process EXCEPT ![r] = "down"]
    /\ running' = [running EXCEPT ![r] = {}]
    /\ message' = [message EXCEPT ![r] = {}]
    /\ LET cut == {t \in DOMAIN Tasks :
                     call[t].at = "wait" /\ call[t].execution \in running[r]}
       IN  /\ results' = results \cup
                 {IF AllowStub THEN Result(t, call[t].attempt, "Done", StubRunner)
                  ELSE Result(t, call[t].attempt, "Blocked", r) : t \in cut}
           /\ call' = [t \in DOMAIN Tasks |->
                 IF t \in cut THEN IdleCall(call[t].attempt) ELSE call[t]]
    /\ UNCHANGED <<runners, journal, unwritten, up, now, heard, intact, executions, finished, beats>>

\* The coordinator dies inside ctx.run: nothing of the step is journalled
\* and Restate runs the closure from its start.
CoordinatorCrash ==
    /\ faults < MaxFaults
    /\ \E t \in DOMAIN Tasks : call[t].at \in {"post", "wait"}
    /\ faults' = faults + 1
    /\ call' = [t \in DOMAIN Tasks |->
          IF call[t].at = "idle" THEN call[t]
          ELSE [IdleCall(call[t].attempt) EXCEPT !.at = "dispatch"]]
    /\ UNCHANGED <<runners, journal, unwritten, up, now, heard, intact, runnerVars, results, executions, finished>>

RunnerStep(r) ==
    StartRunner(r) \/ Register(r) \/ SendHeartbeat(r) \/ TakeHeartbeat(r)
        \/ LoseHeartbeat(r) \/ FinishExecution(r) \/ RunnerCrash(r)

RunTask(t) == Dispatch(t) \/ CallRunner(t) \/ TimeOut(t)

RegistryStep ==
    /\ WriteLine \/ Tick \/ RegistryCrash \/ RegistryStart
    /\ UNCHANGED <<runnerVars, callVars, executions, finished>>

DispatchNext ==
    \/ \E r \in Runners : RunnerStep(r)
    \/ \E t \in DOMAIN Tasks : StartAttempt(t) \/ RunTask(t)
    \/ RegistryStep
    \/ CoordinatorCrash

DispatchSpec == DispatchInit /\ [][DispatchNext]_dispatchVars

-----------------------------------------------------------------------------
(* Properties.                                                             *)

\* A task is only sent to a runner that reached the registry within its
\* lease, also when the registry has replayed its journal in between
\* (dispatch, apply_journal_entry, instant_from_wall_clock).
LeaseHonoured ==
    [][\A t \in DOMAIN Tasks :
         call[t].at = "dispatch" /\ call'[t].at = "post"
           => now - heard[call'[t].runner] <= Registration[call'[t].runner].ttl]_dispatchVars

\* When every line reached the file in the order of the changes, a restart
\* shows the runners as they are: known, with their last report and its age
\* (register_runner, heartbeat, replay_journal).
RestartShowsTheSame ==
    up /\ intact /\ unwritten = EmptyBag => Replay(journal) = runners

\* An attempt comes to one result, however often Restate ran its step; and if
\* it says a runner did the task, an execution of this very attempt on that
\* runner answered it, whatever timed out, crashed or was run twice before
\* (run_task, run_distributed_task).
ResultNamesItsAuthor ==
    /\ \A a, b \in results : a.task = b.task /\ a.attempt = b.attempt => a = b
    /\ \A res \in results :
        res.status = "Done" /\ res.runner # StubRunner
          => \E x \in finished :
                executions[x] = [task |-> res.task, attempt |-> res.attempt, runner |-> res.runner]
=============================================================================
