------------------------ MODULE AgentDispatch_proofs ------------------------
(***************************************************************************)
(* An attempt of a task has one result, and a result that names a runner   *)
(* was earned by it: proved for any runners, tasks, profiles, timeouts and *)
(* crashes; there the registry only matters by the runners it may answer   *)
(* with.  And as long as no line was lost or overtaken, the registry's     *)
(* journal rebuilds what the registry shows.                               *)
(***************************************************************************)
EXTENDS AgentDispatch, WellFoundedInduction, TLAPS

Execution == [task : DOMAIN Tasks, attempt : Nat, runner : Runners]

TypesOk ==
    /\ call \in [DOMAIN Tasks -> Call]
    /\ executions \in Seq(Execution)
    /\ finished \subseteq 1..Len(executions)
    /\ running \in [Runners -> SUBSET Nat]

\* A runner works on executions that were begun on it.
RunningIsOwn ==
    \A r \in Runners : \A x \in running[r] :
        x \in 1..Len(executions) /\ executions[x].runner = r

\* A call that waits, waits for an execution of its own attempt.
WaitsForItsOwn ==
    \A t \in DOMAIN Tasks :
        /\ call[t].at \in {"post", "wait"} => call[t].runner \in Runners
        /\ call[t].at = "wait" =>
            /\ call[t].execution \in 1..Len(executions)
            /\ executions[call[t].execution] =
                 [task |-> t, attempt |-> call[t].attempt, runner |-> call[t].runner]

\* The attempt under way has no result yet.
ResultsArePast ==
    \A res \in results :
        /\ res.task \in DOMAIN Tasks
        /\ res.attempt \in Nat
        /\ res.attempt <= call[res.task].attempt
        /\ call[res.task].at # "idle" => res.attempt < call[res.task].attempt

DispatchInv == TypesOk /\ RunningIsOwn /\ WaitsForItsOwn /\ ResultsArePast /\ ResultNamesItsAuthor

\* What the invariant reads.
Read == <<call, results, executions, finished, running>>

\* A decision names a registered runner (RunnerDispatchDecision::choose).
LEMMA DecisionIsARunner ==
    ASSUME NEW t \in DOMAIN Tasks, NEW reg \in Decision(t)
    PROVE  reg.id \in Runners
<1>1. DispatchableRunners \in SUBSET Runners
  BY DEF DispatchableRunners
<1>2. Decision(t) = Choose(Tasks[t], Coordinator, {Registration[r] : r \in DispatchableRunners})
  BY <1>1 DEF Decision, Decisions
<1>3. Decision(t) \subseteq {Registration[r] : r \in DispatchableRunners}
  BY <1>2 DEF Choose
<1> QED
  BY <1>1, <1>3, DispatchAssumption

\* A step that touches no call, result or execution keeps the invariant.
LEMMA QuietStep ==
    ASSUME DispatchInv, UNCHANGED Read
    PROVE  DispatchInv'
BY DEF DispatchInv, TypesOk, RunningIsOwn, WaitsForItsOwn, ResultsArePast,
       ResultNamesItsAuthor, Read

\* The calls of S end at once, each with one result of its attempt, which is not
\* a runner's Done unless an execution of that attempt has finished on it.
Ends(S, status, author) ==
    /\ \A t \in S : call[t].at # "idle"
    /\ call' = [t \in DOMAIN Tasks |-> IF t \in S THEN IdleCall(call[t].attempt) ELSE call[t]]
    /\ results' = results \cup {Result(t, call[t].attempt, status, author) : t \in S}
    /\ executions' = executions
    /\ finished \subseteq finished' /\ finished' \subseteq 1..Len(executions)
    /\ running' \in [Runners -> SUBSET Nat]
    /\ \A r \in Runners : running'[r] \subseteq running[r]
    /\ status = "Done" /\ author # StubRunner =>
         \A t \in S : \E x \in finished' :
            executions[x] = [task |-> t, attempt |-> call[t].attempt, runner |-> author]

\* Ending calls with one status and author keeps the invariant, provided a "Done"
\* of a runner comes from an execution that this step finishes.
LEMMA CallsEnd ==
    ASSUME DispatchInv, NEW S \in SUBSET DOMAIN Tasks, NEW status, NEW author,
           Ends(S, status, author)
    PROVE  DispatchInv'
<1> USE DEF DispatchInv, TypesOk, Ends
<1>1. \A t \in DOMAIN Tasks : call[t] \in Call /\ IdleCall(call[t].attempt) \in Call
  BY DEF Call, IdleCall, NoRunner, NoExecution
<1>2. TypesOk'
  BY <1>1
<1>3. RunningIsOwn'
  BY DEF RunningIsOwn
<1>4. \A t \in DOMAIN Tasks : /\ call'[t].attempt = call[t].attempt
                              /\ call'[t] = call[t] \/ call'[t].at = "idle"
                              /\ t \in S => call'[t].at = "idle"
  BY DEF IdleCall
<1>5. WaitsForItsOwn'
  BY <1>4 DEF WaitsForItsOwn
<1>6. \A res \in results' \ results : \E t \in S :
        res = [task |-> t, attempt |-> call[t].attempt, status |-> status, runner |-> author]
  BY DEF Result
<1>7. ResultsArePast'
  BY <1>1, <1>4, <1>6 DEF ResultsArePast, Call
<1>8. \A a, b \in results' : a.task = b.task /\ a.attempt = b.attempt => a = b
  <2> SUFFICES ASSUME NEW a \in results', NEW b \in results',
                      a.task = b.task, a.attempt = b.attempt
               PROVE  a = b
    OBVIOUS
  <2>1. CASE a \in results /\ b \in results
    BY <2>1 DEF ResultNamesItsAuthor
  <2>2. CASE a \notin results /\ b \notin results
    <3>1. PICK t \in S :
            a = [task |-> t, attempt |-> call[t].attempt, status |-> status, runner |-> author]
      BY <2>2, <1>6
    <3>2. PICK u \in S :
            b = [task |-> u, attempt |-> call[u].attempt, status |-> status, runner |-> author]
      BY <2>2, <1>6
    <3>3. t = u
      BY <3>1, <3>2
    <3> QED
      BY <3>1, <3>2, <3>3
  <2>3. ASSUME NEW old \in results, NEW new \in results' \ results,
               old.task = new.task, old.attempt = new.attempt
        PROVE  FALSE
    <3>1. PICK t \in S :
            new = [task |-> t, attempt |-> call[t].attempt, status |-> status, runner |-> author]
      BY <1>6
    <3>2. old.attempt \in Nat /\ old.attempt < call[old.task].attempt
      BY <2>3, <3>1 DEF ResultsArePast
    <3>3. call[t].attempt \in Nat
      BY <1>1 DEF Call
    <3> QED
      BY <2>3, <3>1, <3>2, <3>3
  <2> QED
    BY <2>1, <2>2, <2>3
<1>9. ASSUME NEW res \in results', res.status = "Done", res.runner # StubRunner
      PROVE  \E x \in finished' : executions'[x] =
                [task |-> res.task, attempt |-> res.attempt, runner |-> res.runner]
  <2>1. CASE res \in results
    BY <2>1, <1>9 DEF ResultNamesItsAuthor
  <2>2. CASE res \notin results
    BY <2>2, <1>9, <1>6
  <2> QED
    BY <2>1, <2>2
<1> QED
  BY <1>2, <1>3, <1>5, <1>7, <1>8, <1>9 DEF ResultNamesItsAuthor

\* The coordinator starts with no call, no execution and no result.
LEMMA InitInv == DispatchInit => DispatchInv
<1> SUFFICES ASSUME DispatchInit PROVE DispatchInv
  OBVIOUS
<1>1. TypesOk
  BY DEF DispatchInit, TypesOk, Call, IdleCall, NoRunner, NoExecution
<1> QED
  BY <1>1 DEF DispatchInit, DispatchInv, RunningIsOwn, WaitsForItsOwn, ResultsArePast,
              ResultNamesItsAuthor, IdleCall

\* StartAttempt: a higher attempt, which no result can have.
LEMMA StartAttemptKeeps ==
    ASSUME DispatchInv, NEW t \in DOMAIN Tasks, StartAttempt(t)
    PROVE  DispatchInv'
<1> USE DEF DispatchInv, TypesOk
<1>1. /\ UNCHANGED <<results, executions, finished, running>>
      /\ call' = [call EXCEPT ![t] = [IdleCall(call[t].attempt + 1) EXCEPT !.at = "dispatch"]]
  BY DEF StartAttempt, runnerVars
<1>2. /\ call[t] \in Call
      /\ call'[t] = [at |-> "dispatch", attempt |-> call[t].attempt + 1,
                     runner |-> NoRunner, execution |-> NoExecution]
  BY <1>1 DEF IdleCall
<1>3. call'[t] \in Call
  BY <1>2 DEF Call, NoExecution
<1>4. \A u \in DOMAIN Tasks \ {t} : call'[u] = call[u]
  BY <1>1
<1>5. TypesOk'
  BY <1>1, <1>3
<1>6. RunningIsOwn' /\ ResultNamesItsAuthor'
  BY <1>1 DEF RunningIsOwn, ResultNamesItsAuthor
<1>7. WaitsForItsOwn'
  BY <1>1, <1>2, <1>4 DEF WaitsForItsOwn
<1>8. \A u \in DOMAIN Tasks :
        call[u].attempt \in Nat /\ (u # t => call'[u] = call[u])
  BY <1>4 DEF Call
<1>9. ASSUME NEW res \in results
      PROVE  /\ res.task \in DOMAIN Tasks
             /\ res.attempt \in Nat
             /\ res.attempt <= call'[res.task].attempt
             /\ call'[res.task].at # "idle" => res.attempt < call'[res.task].attempt
  <2>1. /\ res.task \in DOMAIN Tasks /\ res.attempt \in Nat
        /\ res.attempt <= call[res.task].attempt
        /\ call[res.task].at # "idle" => res.attempt < call[res.task].attempt
    BY DEF ResultsArePast
  <2>2. CASE res.task = t
    BY <2>1, <2>2, <1>2, <1>8
  <2>3. CASE res.task # t
    BY <2>1, <2>3, <1>8
  <2> QED
    BY <2>1, <2>2, <2>3
<1>10. ResultsArePast'
  BY <1>1, <1>9 DEF ResultsArePast
<1> QED
  BY <1>5, <1>6, <1>7, <1>10

\* The task is handed over, or a crash begins its step anew: the calls change
\* but their attempts do not.
LEMMA CallsMove ==
    ASSUME DispatchInv, UNCHANGED <<results, executions, finished, running>>,
           call' \in [DOMAIN Tasks -> Call],
           \A t \in DOMAIN Tasks :
              \/ call'[t] = call[t]
              \/ /\ call[t].at # "idle" /\ call'[t].attempt = call[t].attempt
                 /\ \/ call'[t].at = "dispatch"
                    \/ call'[t].at = "post" /\ call'[t].runner \in Runners
    PROVE  DispatchInv'
<1> USE DEF DispatchInv, TypesOk
<1>1. TypesOk' /\ RunningIsOwn' /\ ResultNamesItsAuthor'
  BY DEF RunningIsOwn, ResultNamesItsAuthor
<1>2. WaitsForItsOwn'
  BY DEF WaitsForItsOwn
<1>3. ResultsArePast'
  BY DEF ResultsArePast
<1> QED
  BY <1>1, <1>2, <1>3

\* A call that returns without an answer of the runner.
LEMMA ReturnKeeps ==
    ASSUME DispatchInv, NEW t \in DOMAIN Tasks, NEW status, NEW author,
           call[t].at # "idle", Return(t, status, author),
           UNCHANGED <<executions, finished, running>>,
           status # "Done" \/ author = StubRunner
    PROVE  DispatchInv'
<1> DEFINE S == {t}
<1>1. call' = [u \in DOMAIN Tasks |-> IF u \in S THEN IdleCall(call[u].attempt) ELSE call[u]]
  BY DEF Return, DispatchInv, TypesOk
<1>2. results' = results \cup {Result(u, call[u].attempt, status, author) : u \in S}
  BY DEF Return
<1>3. S \in SUBSET DOMAIN Tasks /\ \A u \in S : call[u].at # "idle"
  OBVIOUS
<1>4. /\ finished \subseteq finished' /\ finished' \subseteq 1..Len(executions)
      /\ running' \in [Runners -> SUBSET Nat]
      /\ \A r \in Runners : running'[r] \subseteq running[r]
  BY DEF DispatchInv, TypesOk
<1>5. executions' = executions
  OBVIOUS
<1>6. status = "Done" /\ author # StubRunner =>
        \A u \in S : \E x \in finished' :
            executions[x] = [task |-> u, attempt |-> call[u].attempt, runner |-> author]
  OBVIOUS
<1>7. Ends(S, status, author)
  BY <1>1, <1>2, <1>3, <1>4, <1>5, <1>6 DEF Ends
<1> QED
  BY <1>3, <1>7, CallsEnd

\* The dispatch names a runner of the registry, or ends the attempt without one.
LEMMA DispatchKeeps ==
    ASSUME DispatchInv, NEW t \in DOMAIN Tasks, Dispatch(t)
    PROVE  DispatchInv'
<1>1. call[t].at = "dispatch" /\ UNCHANGED <<executions, finished, running>>
  BY DEF Dispatch, runnerVars
<1>2. CASE up /\ Decision(t) # {}
  <2>1. PICK reg \in Decision(t) :
          call' = [call EXCEPT ![t] = [@ EXCEPT !.at = "post", !.runner = reg.id]]
    BY <1>2 DEF Dispatch
  <2>2. UNCHANGED results
    BY <1>2 DEF Dispatch
  <2>3. reg.id \in Runners
    BY DecisionIsARunner
  <2>4. call[t] \in Call /\ call \in [DOMAIN Tasks -> Call]
    BY DEF DispatchInv, TypesOk
  <2>5. [call[t] EXCEPT !.at = "post", !.runner = reg.id] \in Call
    BY <2>3, <2>4 DEF Call
  <2>6. call' \in [DOMAIN Tasks -> Call]
    BY <2>1, <2>4, <2>5
  <2>7. \A u \in DOMAIN Tasks \ {t} : call'[u] = call[u]
    BY <2>1, <2>4
  <2>8. call'[t].at = "post" /\ call'[t].runner \in Runners /\ call'[t].attempt = call[t].attempt
    BY <2>1, <2>3, <2>4 DEF Call
  <2> QED
    BY <1>1, <2>2, <2>6, <2>7, <2>8, CallsMove
<1>3. CASE ~(up /\ Decision(t) # {})
  <2>1. ReturnFailure(t, NoRunner)
    BY <1>3 DEF Dispatch
  <2>2. CASE AllowStub
    BY <1>1, <2>1, <2>2, ReturnKeeps DEF ReturnFailure
  <2>3. CASE ~AllowStub
    BY <1>1, <2>1, <2>3, ReturnKeeps DEF ReturnFailure
  <2> QED
    BY <2>2, <2>3
<1> QED
  BY <1>2, <1>3

\* A timeout ends the attempt and credits nobody; its execution goes on.
LEMMA TimeOutKeeps ==
    ASSUME DispatchInv, NEW t \in DOMAIN Tasks, TimeOut(t)
    PROVE  DispatchInv'
<1>1. /\ call[t].at # "idle"
      /\ Return(t, "TimedOut", call[t].runner)
      /\ UNCHANGED <<executions, finished, running>>
  BY DEF TimeOut, runnerVars
<1> QED
  BY <1>1, ReturnKeeps

\* call_runner: a new execution of this attempt begins, or the runner is down.
LEMMA CallRunnerKeeps ==
    ASSUME DispatchInv, NEW t \in DOMAIN Tasks, CallRunner(t)
    PROVE  DispatchInv'
<1> USE DEF DispatchInv, TypesOk
<1> DEFINE r == call[t].runner
           x == Len(executions) + 1
           begun == [task |-> t, attempt |-> call[t].attempt, runner |-> r]
<1>1. call[t].at = "post" /\ UNCHANGED finished
  BY DEF CallRunner
<1>2. CASE process[r] = "down"
  <2>1. ReturnFailure(t, r) /\ UNCHANGED <<running, executions>>
    BY <1>2 DEF CallRunner
  <2>2. CASE AllowStub
    BY <1>1, <2>1, <2>2, ReturnKeeps DEF ReturnFailure
  <2>3. CASE ~AllowStub
    BY <1>1, <2>1, <2>3, ReturnKeeps DEF ReturnFailure
  <2> QED
    BY <2>2, <2>3
<1>3. CASE process[r] # "down"
  <2>1. /\ call' = [call EXCEPT ![t] = [call[t] EXCEPT !.at = "wait", !.execution = x]]
        /\ running' = [running EXCEPT ![r] = running[r] \cup {x}]
        /\ executions' = Append(executions, begun)
        /\ UNCHANGED results
    BY <1>3 DEF CallRunner
  <2>2. r \in Runners /\ call[t] \in Call /\ x \in Nat
    <3>1. r \in Runners
      BY <1>1 DEF WaitsForItsOwn
    <3>2. Len(executions) \in Nat
      OBVIOUS
    <3> QED
      BY <3>1, <3>2
  <2>3. begun \in Execution
    BY <2>2 DEF Execution, Call
  <2>4. /\ executions' \in Seq(Execution) /\ Len(executions') = x
        /\ executions'[x] = begun
        /\ \A y \in 1..Len(executions) : executions'[y] = executions[y]
    BY <2>1, <2>3
  <2>5. /\ call'[t] = [call[t] EXCEPT !.at = "wait", !.execution = x]
        /\ \A u \in DOMAIN Tasks \ {t} : call'[u] = call[u]
    BY <2>1
  <2>6. /\ call'[t] \in Call /\ call'[t].at = "wait" /\ call'[t].execution = x
        /\ call'[t].attempt = call[t].attempt /\ call'[t].runner = r
    BY <2>2, <2>5 DEF Call
  <2>7. TypesOk'
    BY <1>1, <2>1, <2>2, <2>4, <2>5, <2>6
  <2>8. RunningIsOwn'
    <3> SUFFICES ASSUME NEW q \in Runners, NEW y \in running'[q]
                 PROVE  y \in 1..Len(executions') /\ executions'[y].runner = q
      BY DEF RunningIsOwn
    <3>1. CASE y \in running[q]
      BY <2>2, <2>4, <3>1 DEF RunningIsOwn
    <3>2. CASE y \notin running[q]
      <4>1. q = r /\ y = x
        BY <2>1, <2>2, <3>2
      <4> QED
        BY <2>2, <2>4, <4>1
    <3> QED
      BY <3>1, <3>2
  <2>9. WaitsForItsOwn'
    <3> SUFFICES ASSUME NEW u \in DOMAIN Tasks
                 PROVE  /\ call'[u].at \in {"post", "wait"} => call'[u].runner \in Runners
                        /\ call'[u].at = "wait" =>
                            /\ call'[u].execution \in 1..Len(executions')
                            /\ executions'[call'[u].execution] =
                                 [task |-> u, attempt |-> call'[u].attempt, runner |-> call'[u].runner]
      BY DEF WaitsForItsOwn
    <3>1. CASE u = t
      BY <2>2, <2>4, <2>6, <3>1
    <3>2. CASE u # t
      BY <2>2, <2>4, <2>5, <3>2 DEF WaitsForItsOwn
    <3> QED
      BY <3>1, <3>2
  <2>10. ResultsArePast'
    <3>1. \A u \in DOMAIN Tasks : /\ call'[u].attempt = call[u].attempt
                                  /\ call'[u].at # "idle" => call[u].at # "idle"
      BY <1>1, <2>5, <2>6
    <3> QED
      BY <2>1, <3>1 DEF ResultsArePast
  <2>11. ResultNamesItsAuthor'
    BY <1>1, <2>1, <2>4 DEF ResultNamesItsAuthor
  <2> QED
    BY <2>7, <2>8, <2>9, <2>10, <2>11
<1> QED
  BY <1>2, <1>3

\* The answer of an execution ends the calls that wait for it, and no other.
LEMMA FinishExecutionKeeps ==
    ASSUME DispatchInv, NEW r \in Runners, FinishExecution(r)
    PROVE  DispatchInv'
<1> USE DEF DispatchInv, TypesOk
<1>1. PICK x \in running[r], status \in Answers :
        /\ running' = [running EXCEPT ![r] = running[r] \ {x}]
        /\ finished' = finished \cup {x}
        /\ LET waiting == {t \in DOMAIN Tasks : call[t].at = "wait" /\ call[t].execution = x}
           IN  /\ results' = results \cup
                     {Result(t, call[t].attempt, status, r) : t \in waiting}
               /\ call' = [t \in DOMAIN Tasks |->
                     IF t \in waiting THEN IdleCall(call[t].attempt) ELSE call[t]]
        /\ executions' = executions
  BY DEF FinishExecution
<1> DEFINE S == {t \in DOMAIN Tasks : call[t].at = "wait" /\ call[t].execution = x}
<1>2. x \in 1..Len(executions) /\ executions[x].runner = r
  BY <1>1 DEF RunningIsOwn
<1>3. ASSUME NEW t \in S
      PROVE  executions[x] = [task |-> t, attempt |-> call[t].attempt, runner |-> r]
  <2>1. t \in DOMAIN Tasks /\ call[t].at = "wait" /\ call[t].execution = x
    OBVIOUS
  <2>2. executions[x] = [task |-> t, attempt |-> call[t].attempt, runner |-> call[t].runner]
    BY <2>1 DEF WaitsForItsOwn
  <2>3. executions[x].runner = call[t].runner
    BY <2>2
  <2> QED
    BY <2>2, <2>3, <1>2
<1>4. /\ running' \in [Runners -> SUBSET Nat]
      /\ \A q \in Runners : running'[q] \subseteq running[q]
  BY <1>1
<1>5. Ends(S, status, r)
  BY <1>1, <1>2, <1>3, <1>4 DEF Ends
<1> QED
  BY <1>5, CallsEnd

\* A runner that dies ends the calls that wait for its executions.
LEMMA RunnerCrashKeeps ==
    ASSUME DispatchInv, NEW r \in Runners, RunnerCrash(r)
    PROVE  DispatchInv'
<1> USE DEF DispatchInv, TypesOk
<1> DEFINE S == {t \in DOMAIN Tasks : call[t].at = "wait" /\ call[t].execution \in running[r]}
           status == IF AllowStub THEN "Done" ELSE "Blocked"
           author == IF AllowStub THEN StubRunner ELSE r
<1>1. /\ running' = [running EXCEPT ![r] = {}]
      /\ call' = [t \in DOMAIN Tasks |-> IF t \in S THEN IdleCall(call[t].attempt) ELSE call[t]]
      /\ UNCHANGED <<executions, finished>>
  BY DEF RunnerCrash
<1>2. results' = results \cup
        {IF AllowStub THEN Result(t, call[t].attempt, "Done", StubRunner)
         ELSE Result(t, call[t].attempt, "Blocked", r) : t \in S}
  BY DEF RunnerCrash
<1>3. results' = results \cup {Result(t, call[t].attempt, status, author) : t \in S}
  BY <1>2
<1>4. /\ running' \in [Runners -> SUBSET Nat]
      /\ \A q \in Runners : running'[q] \subseteq running[q]
  BY <1>1
<1>5. ~(status = "Done" /\ author # StubRunner)
  OBVIOUS
<1>6. Ends(S, status, author)
  BY <1>1, <1>3, <1>4, <1>5 DEF Ends
<1> HIDE DEF status, author
<1> QED
  BY <1>6, CallsEnd

\* Calls under way begin their attempt again and forget whom they waited for.
LEMMA CoordinatorCrashKeeps ==
    ASSUME DispatchInv, CoordinatorCrash
    PROVE  DispatchInv'
<1>1. /\ call' = [t \in DOMAIN Tasks |->
            IF call[t].at = "idle" THEN call[t]
            ELSE [IdleCall(call[t].attempt) EXCEPT !.at = "dispatch"]]
      /\ UNCHANGED <<results, executions, finished, running>>
  BY DEF CoordinatorCrash, runnerVars
<1>2. \A t \in DOMAIN Tasks :
        /\ call[t] \in Call
        /\ [IdleCall(call[t].attempt) EXCEPT !.at = "dispatch"] =
             [at |-> "dispatch", attempt |-> call[t].attempt,
              runner |-> NoRunner, execution |-> NoExecution]
  BY DEF DispatchInv, TypesOk, IdleCall
<1>3. ASSUME NEW t \in DOMAIN Tasks
      PROVE  [IdleCall(call[t].attempt) EXCEPT !.at = "dispatch"] \in Call
  <2>1. call[t].attempt \in Nat
    BY <1>2 DEF Call
  <2>2. [at |-> "dispatch", attempt |-> call[t].attempt,
         runner |-> NoRunner, execution |-> NoExecution] \in Call
    BY <2>1 DEF Call, NoExecution
  <2> QED
    BY <1>2, <2>2
<1>4. call' \in [DOMAIN Tasks -> Call]
  BY <1>1, <1>2, <1>3
<1>5. \A t \in DOMAIN Tasks :
        \/ call'[t] = call[t]
        \/ /\ call[t].at # "idle" /\ call'[t].attempt = call[t].attempt
           /\ call'[t].at = "dispatch"
  BY <1>1, <1>2
<1> QED
  BY <1>1, <1>4, <1>5, CallsMove

\* Every step of the dispatch keeps the invariant.
LEMMA NextInv == DispatchInv /\ [DispatchNext]_dispatchVars => DispatchInv'
<1> SUFFICES ASSUME DispatchInv, [DispatchNext]_dispatchVars PROVE DispatchInv'
  OBVIOUS
<1>1. ASSUME NEW r \in Runners,
             StartRunner(r) \/ Register(r) \/ SendHeartbeat(r) \/ TakeHeartbeat(r)
               \/ LoseHeartbeat(r)
      PROVE  DispatchInv'
  <2>1. UNCHANGED Read
    BY <1>1 DEF StartRunner, Register, SendHeartbeat, TakeHeartbeat, LoseHeartbeat, Read, callVars
  <2> QED
    BY <2>1, QuietStep
<1>2. ASSUME NEW r \in Runners, FinishExecution(r) \/ RunnerCrash(r)
      PROVE  DispatchInv'
  BY <1>2, FinishExecutionKeeps, RunnerCrashKeeps
<1>3. ASSUME NEW t \in DOMAIN Tasks, StartAttempt(t) \/ RunTask(t)
      PROVE  DispatchInv'
  BY <1>3, StartAttemptKeeps, DispatchKeeps, CallRunnerKeeps, TimeOutKeeps DEF RunTask
<1>4. CASE RegistryStep
  <2>1. UNCHANGED Read
    BY <1>4 DEF RegistryStep, Read, runnerVars, callVars
  <2> QED
    BY <2>1, QuietStep
<1>5. CASE CoordinatorCrash
  BY <1>5, CoordinatorCrashKeeps
<1>6. CASE UNCHANGED dispatchVars
  <2>1. UNCHANGED Read
    BY <1>6 DEF dispatchVars, Read
  <2> QED
    BY <2>1, QuietStep
<1> QED
  BY <1>1, <1>2, <1>3, <1>4, <1>5, <1>6 DEF DispatchNext, RunnerStep

\* Whatever times out, crashes, is run twice or answers late, an attempt has one
\* result, and one that says a runner did the task was answered by an execution
\* of that attempt on that runner (AgentRunner::run_task).
THEOREM ResultsNameTheirAuthors == DispatchSpec => []ResultNamesItsAuthor
<1>1. DispatchInv => ResultNamesItsAuthor
  BY DEF DispatchInv
<1> QED
  BY <1>1, InitInv, NextInv, PTL DEF DispatchSpec
-----------------------------------------------------------------------------
(* Induction.  The library states it for a predicate that is a parameter;    *)
(* for a set the provers can use it.                                         *)

LEMMA NatSetInduction ==
  ASSUME NEW S, 0 \in S, \A n \in Nat : n \in S => n + 1 \in S
  PROVE  Nat \subseteq S
<1> DEFINE R == OpToRel(<, Nat)
           T == Nat \ S
<1>1. IsWellFoundedOn(R, Nat)
  BY NatLessThanWellFounded
<1> SUFFICES ASSUME T # {} PROVE FALSE
  OBVIOUS
<1>2. PICK x \in T : \A y \in T : ~(<<y, x>> \in R)
  <2> HIDE DEF R, T
  <2>1. T \subseteq Nat
     BY DEF T
  <2> QED BY <1>1, <2>1, WFMin
<1>3. x # 0 /\ x - 1 \in Nat /\ x - 1 < x
  OBVIOUS
<1>4. <<x - 1, x>> \in R
  BY <1>3 DEF OpToRel
<1>5. x - 1 \in S
  BY <1>2, <1>3, <1>4
<1> QED BY <1>3, <1>5
-----------------------------------------------------------------------------
(* What the replay of a journal computes.                                   *)

ReplayRun(f, k, lines) ==
    f = [n \in 0..k |-> IF n = 0 THEN <<>> ELSE ApplyEntry(f[n - 1], lines[n])]

LEMMA ReplayRunExists ==
  ASSUME NEW lines, NEW k \in Nat
  PROVE  \E f : ReplayRun(f, k, lines)
<1> DEFINE S == {m \in Nat : \E f : ReplayRun(f, m, lines)}
<1>1. 0 \in S
  <2> DEFINE f == [n \in 0..0 |-> <<>>]
  <2>1. ReplayRun(f, 0, lines)
    BY DEF ReplayRun
  <2> QED BY <2>1
<1>2. ASSUME NEW m \in Nat, m \in S PROVE m + 1 \in S
  <2>1. PICK f : ReplayRun(f, m, lines)
    BY <1>2
  <2> DEFINE g == [n \in 0..m + 1 |-> IF n = m + 1 THEN ApplyEntry(f[m], lines[n]) ELSE f[n]]
             h == [n \in 0..m + 1 |->
                      IF n = 0 THEN <<>> ELSE ApplyEntry(g[n - 1], lines[n])]
  <2>2. ASSUME NEW n \in 0..m + 1 PROVE g[n] = h[n]
    <3>1. CASE n = 0
      BY <2>1, <3>1 DEF ReplayRun
    <3>2. CASE n = m + 1
      BY <3>2
    <3>3. CASE n \in 1..m
      <4>1. g[n] = f[n] /\ g[n - 1] = f[n - 1] /\ n # 0 /\ n \in 0..m
        BY <3>3
      <4>2. f[n] = ApplyEntry(f[n - 1], lines[n])
        BY <2>1, <4>1 DEF ReplayRun
      <4> QED BY <3>3, <4>1, <4>2
    <3> QED BY <3>1, <3>2, <3>3
  <2>3. g = h
    BY <2>2
  <2>4. ReplayRun(g, m + 1, lines)
    BY <2>3 DEF ReplayRun
  <2> QED BY <2>4
<1> HIDE DEF S
<1>3. Nat \subseteq S
  BY <1>1, <1>2, NatSetInduction
<1> QED BY <1>3 DEF S

LEMMA ReplayIsRun ==
  ASSUME NEW lines, Len(lines) \in Nat
  PROVE  \E f : ReplayRun(f, Len(lines), lines) /\ Replay(lines) = f[Len(lines)]
<1> DEFINE f == CHOOSE f : ReplayRun(f, Len(lines), lines)
<1>1. ReplayRun(f, Len(lines), lines)
  <2>1. \E g : ReplayRun(g, Len(lines), lines)
    BY ReplayRunExists
  <2> QED BY <2>1, Zenon
<1>2. Replay(lines) = f[Len(lines)]
  BY DEF Replay, ReplayRun
<1> QED BY <1>1, <1>2

LEMMA ReplayEmpty == Replay(<<>>) = <<>>
<1>1. Len(<<>>) = 0
  OBVIOUS
<1>2. PICK f : ReplayRun(f, 0, <<>>) /\ Replay(<<>>) = f[0]
  BY <1>1, ReplayIsRun
<1> QED BY <1>2 DEF ReplayRun

IsSeq(s) == \E S : s \in Seq(S)

\* A line at the end of the journal is applied last.
LEMMA ReplayAppend ==
  ASSUME NEW lines, IsSeq(lines), NEW w
  PROVE  Replay(Append(lines, w)) = ApplyEntry(Replay(lines), w)
<1> DEFINE L == Len(lines)
           more == Append(lines, w)
<1>1. /\ L \in Nat /\ Len(more) = L + 1 /\ more[L + 1] = w
      /\ \A i \in 1..L : more[i] = lines[i]
  <2>1. PICK S : lines \in Seq(S)
    BY DEF IsSeq
  <2>2. lines \in Seq(S \cup {w}) /\ w \in S \cup {w}
    BY <2>1
  <2> QED BY <2>2
<1> HIDE DEF L, more
<1>2. PICK f : ReplayRun(f, L, lines) /\ Replay(lines) = f[L]
  BY <1>1, ReplayIsRun DEF L
<1>3. PICK g : ReplayRun(g, L + 1, more) /\ Replay(more) = g[L + 1]
  BY <1>1, ReplayIsRun
<1> DEFINE S == {n \in Nat : n <= L => g[n] = f[n]}
<1>4. 0 \in S
  BY <1>1, <1>2, <1>3 DEF ReplayRun
<1>5. ASSUME NEW n \in Nat, n \in S PROVE n + 1 \in S
  <2> SUFFICES ASSUME n + 1 <= L PROVE g[n + 1] = f[n + 1]
    OBVIOUS
  <2>1. f[n + 1] = ApplyEntry(f[n], lines[n + 1])
    BY <1>1, <1>2 DEF ReplayRun
  <2>2. g[n + 1] = ApplyEntry(g[n], more[n + 1])
    BY <1>1, <1>3 DEF ReplayRun
  <2> QED BY <1>1, <1>5, <2>1, <2>2
<1> HIDE DEF S
<1>6. Nat \subseteq S
  BY <1>4, <1>5, NatSetInduction
<1>7. g[L] = f[L]
  BY <1>1, <1>6 DEF S
<1>8. g[L + 1] = ApplyEntry(g[L], w)
  BY <1>1, <1>3 DEF ReplayRun
<1> QED BY <1>2, <1>3, <1>7, <1>8 DEF more
-----------------------------------------------------------------------------
(* The registry and its journal.                                            *)

\* As long as every line reached the file in the order of the changes, at most
\* one line is on its way, and the file shows the runners up to that line.
JournalInv ==
    /\ IsSeq(journal)
    /\ intact =>
        \/ unwritten = EmptyBag /\ (up => Replay(journal) = runners)
        \/ /\ up
           /\ \E line : /\ unwritten = SetToBag({line})
                        /\ ApplyEntry(Replay(journal), line) = runners

LEMMA BagOfOne ==
  ASSUME NEW line
  PROVE  /\ EmptyBag (+) SetToBag({line}) = SetToBag({line})
         /\ SetToBag({line}) (-) SetToBag({line}) = EmptyBag
         /\ BagToSet(SetToBag({line})) = {line}
         /\ BagToSet(EmptyBag) = {}
<1>1. EmptyBag (+) SetToBag({line}) = [e \in {} \cup {line} |-> 1]
  BY DEF EmptyBag, SetToBag, (+)
<1>2. SetToBag({line}) (-) SetToBag({line}) = [e \in {} |-> 1]
  BY DEF SetToBag, (-)
<1> QED BY <1>1, <1>2 DEF EmptyBag, SetToBag, BagToSet

LEMMA JournalInit == DispatchInit => JournalInv
<1>1. \A S : <<>> \in Seq(S)
  OBVIOUS
<1>2. Replay(<<>>) = <<>>
  BY ReplayEmpty
<1> QED BY <1>1, <1>2 DEF DispatchInit, RegistryInit, JournalInv, IsSeq

\* A change is in the map at once and in the journal as a line on its way.
LEMMA AppendKeepsJournal ==
  ASSUME JournalInv, up, up' = up, journal' = journal,
         NEW line, runners' = ApplyEntry(runners, line), Append_journal(line)
  PROVE  JournalInv'
<1>1. IsSeq(journal')
  BY DEF JournalInv
<1>2. ASSUME intact' PROVE up' /\ unwritten' = SetToBag({line})
                          /\ ApplyEntry(Replay(journal'), line) = runners'
  <2>1. intact /\ unwritten = EmptyBag /\ unwritten' = unwritten (+) SetToBag({line})
    BY <1>2 DEF Append_journal
  <2>2. \A x : SetToBag({x}) # EmptyBag
    BY BagOfOne, Zenon
  <2>3. Replay(journal) = runners
    BY <2>1, <2>2 DEF JournalInv
  <2> QED BY <2>1, <2>3, BagOfOne
<1> QED BY <1>1, <1>2 DEF JournalInv

LEMMA RegisterKeepsJournal ==
  ASSUME JournalInv, NEW r \in Runners, RegisterRunner(r)
  PROVE  JournalInv'
<1>1. runners' = ApplyEntry(runners, Registered(r, now))
  BY DEF RegisterRunner, ApplyEntry, Registered
<1> QED BY <1>1, AppendKeepsJournal DEF RegisterRunner

LEMMA HeartbeatKeepsJournal ==
  ASSUME JournalInv, NEW r \in Runners, NEW n, NEW capacity,
         ReceiveHeartbeat(r, n, capacity)
  PROVE  JournalInv'
<1>1. CASE r \in DOMAIN runners
  <2>1. runners' = ApplyEntry(runners, Heartbeat(r, n, capacity, now))
    BY <1>1 DEF ReceiveHeartbeat, ApplyEntry, Heartbeat
  <2> QED BY <1>1, <2>1, AppendKeepsJournal DEF ReceiveHeartbeat
<1>2. CASE r \notin DOMAIN runners
  BY <1>2 DEF ReceiveHeartbeat, JournalInv
<1> QED BY <1>1, <1>2

LEMMA WriteLineKeepsJournal ==
  ASSUME JournalInv, WriteLine
  PROVE  JournalInv'
<1>1. PICK line \in BagToSet(unwritten) : /\ journal' = Append(journal, line)
                                          /\ unwritten' = unwritten (-) SetToBag({line})
  BY DEF WriteLine
<1>2. UNCHANGED <<runners, up, intact>>
  BY DEF WriteLine
<1>3. IsSeq(journal')
  <2>1. PICK S : journal \in Seq(S)
    BY DEF JournalInv, IsSeq
  <2>2. Append(journal, line) \in Seq(S \cup {line})
    BY <2>1
  <2> QED BY <1>1, <2>2 DEF IsSeq
<1>4. ASSUME intact PROVE unwritten' = EmptyBag /\ Replay(journal') = runners
  <2>1. unwritten # EmptyBag
    BY <1>1, BagOfOne
  <2>2. PICK last : /\ unwritten = SetToBag({last})
                    /\ ApplyEntry(Replay(journal), last) = runners
    BY <1>4, <2>1 DEF JournalInv
  <2>3. last = line
    BY <1>1, <2>2, BagOfOne
  <2>4. Replay(journal') = ApplyEntry(Replay(journal), line)
    BY <1>1, ReplayAppend DEF JournalInv
  <2> QED BY <1>1, <2>2, <2>3, <2>4, BagOfOne
<1> QED BY <1>2, <1>3, <1>4 DEF JournalInv

\* Every step of the dispatch keeps the journal faithful.
LEMMA JournalNext == JournalInv /\ [DispatchNext]_dispatchVars => JournalInv'
<1> SUFFICES ASSUME JournalInv, [DispatchNext]_dispatchVars PROVE JournalInv'
  OBVIOUS
<1>1. ASSUME UNCHANGED <<runners, journal, unwritten, up, intact>> PROVE JournalInv'
  BY <1>1 DEF JournalInv
<1>2. ASSUME NEW r \in Runners, RunnerStep(r) PROVE JournalInv'
  <2>1. CASE Register(r)
    BY <2>1, RegisterKeepsJournal DEF Register
  <2>2. CASE TakeHeartbeat(r)
    BY <2>2, HeartbeatKeepsJournal DEF TakeHeartbeat
  <2>3. CASE StartRunner(r) \/ SendHeartbeat(r) \/ LoseHeartbeat(r) \/ FinishExecution(r)
               \/ RunnerCrash(r)
    BY <2>3, <1>1 DEF StartRunner, SendHeartbeat, LoseHeartbeat, FinishExecution, RunnerCrash,
                      registryVars
  <2> QED BY <1>2, <2>1, <2>2, <2>3 DEF RunnerStep
<1>3. ASSUME NEW t \in DOMAIN Tasks, StartAttempt(t) \/ RunTask(t) PROVE JournalInv'
  BY <1>3, <1>1 DEF StartAttempt, RunTask, Dispatch, CallRunner, TimeOut, registryVars
<1>4. CASE RegistryStep
  <2>1. CASE WriteLine
    BY <2>1, WriteLineKeepsJournal
  <2>2. CASE Tick
    BY <2>2, <1>1 DEF Tick
  <2>3. CASE RegistryCrash
    BY <2>3 DEF RegistryCrash, JournalInv
  <2>4. CASE RegistryStart
    BY <2>4 DEF RegistryStart, JournalInv
  <2> QED BY <1>4, <2>1, <2>2, <2>3, <2>4 DEF RegistryStep
<1>5. CASE CoordinatorCrash
  BY <1>5, <1>1 DEF CoordinatorCrash
<1>6. CASE UNCHANGED dispatchVars
  BY <1>6, <1>1 DEF dispatchVars, registryVars
<1> QED BY <1>2, <1>3, <1>4, <1>5, <1>6 DEF DispatchNext

\* When every line reached the file in the order of the changes, a restart of
\* the registry shows the runners as they are, for any runners, heartbeats,
\* writes and crashes (register_runner, heartbeat, replay_journal).
THEOREM RegistryRestartIsFaithful == DispatchSpec => []RestartShowsTheSame
<1>1. JournalInv => RestartShowsTheSame
  <2>1. \A x : SetToBag({x}) # EmptyBag
    BY BagOfOne, Zenon
  <2> QED BY <2>1 DEF JournalInv, RestartShowsTheSame
<1> QED
  BY <1>1, JournalInit, JournalNext, PTL DEF DispatchSpec
-----------------------------------------------------------------------------
(* Leases.                                                                  *)

\* A line, and what is known of the runners, are no younger than the last time
\* the registry answered the runner (in h).
Sent(h, line) == line.runner \in Runners /\ line.at \in 0..h[line.runner]
Seen(h, known) ==
    \A r \in DOMAIN known : r \in Runners /\ known[r].seen \in 0..h[r]

\* The memory, the file and the lines in between never show a runner as heard of
\* later than it was: a replay cannot make a lease longer.
LeaseInv ==
    /\ now \in Nat
    /\ heard \in [Runners -> 0..now]
    /\ Seen(heard, runners)
    /\ IsSeq(journal) /\ \A i \in 1..Len(journal) : Sent(heard, journal[i])
    /\ \A line \in BagToSet(unwritten) : Sent(heard, line)

LEMMA ApplyEntrySeen ==
  ASSUME NEW h, NEW known, Seen(h, known), NEW line, Sent(h, line)
  PROVE  Seen(h, ApplyEntry(known, line))
<1> DEFINE next == ApplyEntry(known, line)
<1>1. CASE line.kind = "registered"
  <2>1. next = Insert(known, line.runner, NewRecord(line.runner, line.at))
    BY <1>1 DEF ApplyEntry
  <2> QED BY <2>1 DEF Insert, Seen, Sent, NewRecord, Record
<1>2. CASE line.kind # "registered" /\ line.runner \in DOMAIN known
  <2>1. next = [known EXCEPT ![line.runner] = Record(line.at, line.running, line.capacity)]
    BY <1>2 DEF ApplyEntry
  <2> QED BY <2>1 DEF Seen, Sent, Record
<1>3. CASE line.kind # "registered" /\ line.runner \notin DOMAIN known
  BY <1>3 DEF ApplyEntry
<1> QED BY <1>1, <1>2, <1>3

LEMMA ReplaySeen ==
  ASSUME NEW h, NEW lines, IsSeq(lines), \A i \in 1..Len(lines) : Sent(h, lines[i])
  PROVE  Seen(h, Replay(lines))
<1>1. Len(lines) \in Nat
  BY DEF IsSeq
<1>2. PICK f : ReplayRun(f, Len(lines), lines) /\ Replay(lines) = f[Len(lines)]
  BY <1>1, ReplayIsRun
<1> DEFINE S == {n \in Nat : n <= Len(lines) => Seen(h, f[n])}
<1>3. 0 \in S
  <2>1. f[0] = <<>>
    BY <1>1, <1>2 DEF ReplayRun
  <2> QED BY <2>1 DEF Seen
<1>4. ASSUME NEW n \in Nat, n \in S PROVE n + 1 \in S
  <2> SUFFICES ASSUME n + 1 <= Len(lines) PROVE Seen(h, f[n + 1])
    OBVIOUS
  <2>1. f[n + 1] = ApplyEntry(f[n], lines[n + 1])
    BY <1>1, <1>2 DEF ReplayRun
  <2>2. Seen(h, f[n]) /\ Sent(h, lines[n + 1])
    BY <1>1, <1>4
  <2> QED BY <2>1, <2>2, ApplyEntrySeen
<1> HIDE DEF S
<1>5. Nat \subseteq S
  BY <1>3, <1>4, NatSetInduction
<1> QED BY <1>1, <1>2, <1>5 DEF S

LEMMA LeaseInit == DispatchInit => LeaseInv
<1>1. (\A S : <<>> \in Seq(S)) /\ Len(<<>>) = 0 /\ DOMAIN <<>> = {}
  OBVIOUS
<1>2. BagToSet(EmptyBag) = {}
  BY BagOfOne
<1> QED BY <1>1, <1>2 DEF DispatchInit, RegistryInit, LeaseInv, IsSeq, Seen

\* Time and answers make what was known older.
LEMMA LeaseLater ==
  ASSUME NEW h \in [Runners -> Nat], NEW k \in [Runners -> Nat],
         \A r \in Runners : h[r] <= k[r]
  PROVE  /\ \A known : Seen(h, known) => Seen(k, known)
         /\ \A line : Sent(h, line) => Sent(k, line)
BY DEF Seen, Sent

\* A runner is answered: what it says is known, and a line may be on its way.
LEMMA AnswerKeepsLease ==
  ASSUME LeaseInv, NEW r \in Runners, NEW line, line.runner = r, line.at = now,
         heard' = [heard EXCEPT ![r] = now],
         runners' = ApplyEntry(runners, line), Append_journal(line),
         UNCHANGED <<journal, now>>
  PROVE  LeaseInv'
<1>1. /\ heard' \in [Runners -> 0..now] /\ now \in Nat
      /\ heard \in [Runners -> Nat] /\ heard' \in [Runners -> Nat]
      /\ \A x \in Runners : heard[x] <= heard'[x]
  BY DEF LeaseInv
<1>2. /\ \A known : Seen(heard, known) => Seen(heard', known)
      /\ \A l : Sent(heard, l) => Sent(heard', l)
  BY <1>1, LeaseLater
<1>3. Sent(heard', line)
  BY <1>1 DEF Sent, LeaseInv
<1>4. Seen(heard', runners')
  BY <1>2, <1>3, ApplyEntrySeen DEF LeaseInv
<1>5. BagToSet(unwritten') \subseteq BagToSet(unwritten) \cup {line}
  BY DEF Append_journal, BagToSet, SetToBag, (+)
<1> QED BY <1>1, <1>2, <1>3, <1>4, <1>5 DEF LeaseInv

LEMMA RegistryStepKeepsLease ==
  ASSUME LeaseInv, WriteLine \/ Tick \/ RegistryCrash \/ RegistryStart
  PROVE  LeaseInv'
<1>1. CASE WriteLine
  <2>1. PICK line \in BagToSet(unwritten) : /\ journal' = Append(journal, line)
                                            /\ unwritten' = unwritten (-) SetToBag({line})
    BY <1>1 DEF WriteLine
  <2>2. UNCHANGED <<runners, now, heard>>
    BY <1>1 DEF WriteLine
  <2>3. BagToSet(unwritten') \subseteq BagToSet(unwritten)
    BY <2>1 DEF BagToSet, SetToBag, (-)
  <2>4. PICK S : journal \in Seq(S)
    BY DEF LeaseInv, IsSeq
  <2>5. journal \in Seq(S \cup {line})
    BY <2>4
  <2>6. /\ journal' \in Seq(S \cup {line}) /\ Len(journal) \in Nat
        /\ Len(journal') = Len(journal) + 1 /\ journal'[Len(journal) + 1] = line
        /\ \A i \in 1..Len(journal) : journal'[i] = journal[i]
    BY <2>1, <2>5
  <2>7. IsSeq(journal') /\ \A i \in 1..Len(journal') : Sent(heard, journal'[i])
    <3>1. ASSUME NEW i \in 1..Len(journal') PROVE Sent(heard, journal'[i])
      <4>1. i \in 1..Len(journal) \/ i = Len(journal) + 1
        BY <2>6
      <4> QED BY <4>1, <2>1, <2>6 DEF LeaseInv
    <3> QED BY <2>6, <3>1 DEF IsSeq
  <2> QED BY <2>2, <2>3, <2>7 DEF LeaseInv
<1>2. CASE Tick
  <2>1. UNCHANGED <<runners, journal, unwritten, heard>> /\ now' = now + 1
    BY <1>2 DEF Tick
  <2> QED BY <2>1 DEF LeaseInv
<1>3. CASE RegistryCrash
  <2>1. /\ UNCHANGED <<journal, now, heard>> /\ unwritten' = EmptyBag /\ runners' = <<>>
    BY <1>3 DEF RegistryCrash
  <2>2. BagToSet(unwritten') = {} /\ DOMAIN runners' = {}
    <3>1. BagToSet(EmptyBag) = {}
      BY BagOfOne
    <3> QED BY <2>1, <3>1
  <2> QED BY <2>1, <2>2 DEF LeaseInv, Seen
<1>4. CASE RegistryStart
  <2>1. UNCHANGED <<journal, unwritten, now, heard>> /\ runners' = Replay(journal)
    BY <1>4 DEF RegistryStart
  <2>2. Seen(heard, Replay(journal))
    BY ReplaySeen DEF LeaseInv
  <2> QED BY <2>1, <2>2 DEF LeaseInv
<1> QED BY <1>1, <1>2, <1>3, <1>4

LEMMA LeaseNext == LeaseInv /\ [DispatchNext]_dispatchVars => LeaseInv'
<1> SUFFICES ASSUME LeaseInv, [DispatchNext]_dispatchVars PROVE LeaseInv'
  OBVIOUS
<1>1. ASSUME UNCHANGED <<runners, journal, unwritten, now, heard>> PROVE LeaseInv'
  BY <1>1 DEF LeaseInv
<1>2. ASSUME NEW r \in Runners, RunnerStep(r) PROVE LeaseInv'
  <2>1. CASE Register(r)
    <3>1. /\ runners' = ApplyEntry(runners, Registered(r, now))
          /\ Registered(r, now).runner = r /\ Registered(r, now).at = now
      BY <2>1 DEF Register, RegisterRunner, ApplyEntry, Registered
    <3> QED BY <2>1, <3>1, AnswerKeepsLease DEF Register, RegisterRunner
  <2>2. CASE TakeHeartbeat(r)
    <3>1. PICK n \in message[r] : ReceiveHeartbeat(r, n, SatSub(Registration[r].max, n))
      BY <2>2 DEF TakeHeartbeat
    <3> DEFINE line == Heartbeat(r, n, SatSub(Registration[r].max, n), now)
    <3>2. CASE r \in DOMAIN runners
      <4>1. /\ runners' = ApplyEntry(runners, line) /\ line.runner = r /\ line.at = now
        BY <3>1, <3>2 DEF ReceiveHeartbeat, ApplyEntry, Heartbeat
      <4>2. /\ heard' = [heard EXCEPT ![r] = now] /\ Append_journal(line)
            /\ UNCHANGED <<journal, now>>
        BY <3>1, <3>2 DEF ReceiveHeartbeat
      <4> HIDE DEF line
      <4> QED BY <4>1, <4>2, AnswerKeepsLease
    <3>3. CASE r \notin DOMAIN runners
      BY <3>1, <3>3, <1>1 DEF ReceiveHeartbeat
    <3> QED BY <3>2, <3>3
  <2>3. CASE StartRunner(r) \/ SendHeartbeat(r) \/ LoseHeartbeat(r) \/ FinishExecution(r)
               \/ RunnerCrash(r)
    BY <2>3, <1>1 DEF StartRunner, SendHeartbeat, LoseHeartbeat, FinishExecution, RunnerCrash,
                      registryVars
  <2> QED BY <1>2, <2>1, <2>2, <2>3 DEF RunnerStep
<1>3. ASSUME NEW t \in DOMAIN Tasks, StartAttempt(t) \/ RunTask(t) PROVE LeaseInv'
  BY <1>3, <1>1 DEF StartAttempt, RunTask, Dispatch, CallRunner, TimeOut, registryVars
<1>4. CASE RegistryStep
  BY <1>4, RegistryStepKeepsLease DEF RegistryStep
<1>5. CASE CoordinatorCrash
  BY <1>5, <1>1 DEF CoordinatorCrash
<1>6. CASE UNCHANGED dispatchVars
  BY <1>6, <1>1 DEF dispatchVars, registryVars
<1> QED BY <1>2, <1>3, <1>4, <1>5, <1>6 DEF DispatchNext

\* A runner that takes tasks was heard of within its lease.
LEMMA DecisionIsFresh ==
  ASSUME LeaseInv, NEW t \in DOMAIN Tasks, NEW reg \in Decision(t)
  PROVE  now - heard[reg.id] <= Registration[reg.id].ttl
<1>1. DispatchableRunners \in SUBSET Runners
  BY DEF DispatchableRunners
<1>2. Decision(t) = Choose(Tasks[t], Coordinator, {Registration[r] : r \in DispatchableRunners})
  BY <1>1 DEF Decision, Decisions
<1>3. PICK r \in DispatchableRunners : reg = Registration[r]
  BY <1>2 DEF Choose
<1>4. reg.id = r /\ r \in Runners /\ Registration[r].ttl \in Nat
  BY <1>3, DispatchAssumption DEF DispatchableRunners
<1>5. r \in DOMAIN runners /\ now - runners[r].seen <= Registration[r].ttl
  BY <1>3 DEF DispatchableRunners, Dispatchable, Fresh
<1>6. now \in Nat /\ heard[r] \in Nat /\ runners[r].seen \in Nat /\ runners[r].seen <= heard[r]
  BY <1>4, <1>5 DEF LeaseInv, Seen
<1> QED BY <1>4, <1>5, <1>6

\* Only dispatch_task moves a call on to a runner.
LEMMA PostIsDispatched ==
  ASSUME DispatchInv, DispatchNext, NEW t \in DOMAIN Tasks,
         call[t].at = "dispatch", call'[t].at = "post"
  PROVE  \E reg \in Decision(t) : call'[t].runner = reg.id
<1>1. call \in [DOMAIN Tasks -> Call] /\ call[t] \in Call
  BY DEF DispatchInv, TypesOk
<1>2. ASSUME NEW r \in Runners, RunnerStep(r) PROVE FALSE
  <2>1. CASE FinishExecution(r) \/ RunnerCrash(r)
    <3>1. call'[t] = call[t] \/ call'[t] = IdleCall(call[t].attempt)
      BY <2>1 DEF FinishExecution, RunnerCrash
    <3> QED BY <3>1 DEF IdleCall
  <2>2. CASE ~(FinishExecution(r) \/ RunnerCrash(r))
    BY <1>2, <2>2 DEF RunnerStep, StartRunner, Register, SendHeartbeat, TakeHeartbeat,
                      LoseHeartbeat, callVars
  <2> QED BY <2>1, <2>2
<1>3. ASSUME NEW u \in DOMAIN Tasks, StartAttempt(u) \/ RunTask(u), u # t PROVE FALSE
  <2>1. call'[t] = call[t]
    BY <1>1, <1>3 DEF StartAttempt, RunTask, Dispatch, CallRunner, TimeOut, ReturnFailure,
                      Return, callVars
  <2> QED BY <2>1
<1>4. ASSUME StartAttempt(t) \/ RunTask(t) PROVE Dispatch(t)
  BY <1>4 DEF StartAttempt, RunTask, CallRunner, TimeOut
<1>5. CASE Dispatch(t)
  <2>1. CASE up /\ Decision(t) # {}
    <3>1. PICK reg \in Decision(t) :
            call' = [call EXCEPT ![t] = [@ EXCEPT !.at = "post", !.runner = reg.id]]
      BY <1>5, <2>1 DEF Dispatch
    <3>2. call'[t].runner = reg.id
      BY <1>1, <3>1 DEF Call
    <3> QED BY <3>2
  <2>2. CASE ~(up /\ Decision(t) # {})
    <3>1. call'[t] = IdleCall(call[t].attempt)
      BY <1>1, <1>5, <2>2 DEF Dispatch, ReturnFailure, Return
    <3> QED BY <3>1 DEF IdleCall
  <2> QED BY <2>1, <2>2
<1>6. CASE RegistryStep
  BY <1>6 DEF RegistryStep, callVars
<1>7. CASE CoordinatorCrash
  BY <1>1, <1>7 DEF CoordinatorCrash, IdleCall
<1> QED BY <1>2, <1>3, <1>4, <1>5, <1>6, <1>7 DEF DispatchNext

\* A task is only sent to a runner that the registry answered within the lease,
\* for any crashes, lost lines and replays in between (dispatch,
\* apply_journal_entry, instant_from_wall_clock).
THEOREM LeasesAreHonoured == DispatchSpec => LeaseHonoured
<1> DEFINE Step == \A t \in DOMAIN Tasks :
             call[t].at = "dispatch" /\ call'[t].at = "post"
               => now - heard[call'[t].runner] <= Registration[call'[t].runner].ttl
<1>1. DispatchInv /\ LeaseInv /\ [DispatchNext]_dispatchVars => [Step]_dispatchVars
  BY PostIsDispatched, DecisionIsFresh
<1>2. DispatchSpec => [][Step]_dispatchVars
  <2> HIDE DEF Step
  <2> QED BY <1>1, InitInv, NextInv, LeaseInit, LeaseNext, PTL DEF DispatchSpec
<1> QED BY <1>2 DEF LeaseHonoured
=============================================================================
