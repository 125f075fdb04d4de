------------------------------ MODULE Branches ------------------------------
(***************************************************************************)
(* Branch competition on one goal (GoalState in crates/domain/src/lib.rs): *)
(* a task is replaced by candidates that solve it independently; when all  *)
(* are done voters choose among them, a unifier joins the votes, and a     *)
(* selection, automatic or by an operator, settles the group.              *)
(*                                                                         *)
(* The coordinator runs one task at a time and applies its result, its     *)
(* validation and the branch frontier in one stored step.  The review      *)
(* policy is off; GoalState models it.  An Err leaves the goal unchanged,  *)
(* except that a result whose vote is refused was stored before.           *)
(***************************************************************************)
EXTENDS Naturals, FiniteSets, FiniteSetsExt, Sequences, SequencesExt

CONSTANTS
    BranchPolicies,     \* BranchingPolicy values, one of which the goal has
    BranchRequests,     \* what operators ask for: [target, count, strategy, models]
    MaxBranchTasks,     \* bound: size of the pool of task ids
    MaxFailures         \* bound: runs that do not pass, over all tasks

ASSUME BranchesAssumption ==
    /\ MaxBranchTasks \in Nat \ {0} /\ MaxFailures \in Nat
    /\ \A p \in BranchPolicies :
        p.maxCandidates \in Nat /\ p.maxCandidates >= 2 /\ p.minVotes \in Nat
    /\ \A r \in BranchRequests : r.count \in Nat

VARIABLE goal

BranchTasks == 1..MaxBranchTasks
RootTask == 1
None == 0
Strategies == {"Human", "VoterQuorum", "HighestScore", "UnifierDecision"}
GroupStatus == {"CandidatesSpawned", "VotingSpawned", "ReadyForUnification",
                "ReadyForSelection", "Selected"}
Purposes == {"Work", "CandidateBranch", "BranchVote", "BranchUnification"}

BranchGroup(original, strategy, candidates) ==
    [original |-> original, strategy |-> strategy, candidates |-> candidates,
     voters |-> {}, unifier |-> None, selected |-> None,
     status |-> "CandidatesSpawned"]

BranchVote(voter, group, selected, confidence) ==
    [voter |-> voter, group |-> group, selected |-> selected,
     confidence |-> confidence]
-----------------------------------------------------------------------------
(* Reading a goal *)

TerminalOk(g, t) == g.st[t] = "Done"

TasksTerminalOk(g, ts) == ts # {} /\ \A t \in ts : TerminalOk(g, t)

Born(g) == {t \in BranchTasks : t <= g.n}
TerminalTask(g, t) == g.st[t] \in {"Done", "Cancelled"}
WorkLikeTasks(g) == {t \in Born(g) : g.purpose[t] \in {"Work", "CandidateBranch"}}

\* satisfaction_report().satisfied without reviews and scores.
BranchesSatisfied(g) ==
    /\ TasksTerminalOk(g, WorkLikeTasks(g))
    /\ \A i \in DOMAIN g.groups : g.groups[i].status = "Selected"
    /\ \A t \in Born(g) : TerminalTask(g, t)

RefreshStatus(g) ==
    [g EXCEPT !.status =
        IF \E t \in Born(g) : g.st[t] = "Failed" THEN "Failed"
        ELSE IF BranchesSatisfied(g) THEN "Done" ELSE "Running"]
-----------------------------------------------------------------------------
(* Selecting a candidate *)

GroupVotes(g, i) == {v \in g.votes : v.group = i}
VotesFor(g, i, c) == {v \in GroupVotes(g, i) : v.selected = c}
Confidence(votes) == FoldSet(LAMBDA v, sum : sum + v.confidence, 0, votes)

\* Mutant: one confident voter outweighs two.
OutvotesByConfidence(g, i, c, d) ==
    Confidence(VotesFor(g, i, c)) >= Confidence(VotesFor(g, i, d))

\* The order of max_by: votes, then their confidence, then the later task id.
Outvotes(g, i, c, d) ==
    LET nc == Cardinality(VotesFor(g, i, c))
        nd == Cardinality(VotesFor(g, i, d))
        cc == Confidence(VotesFor(g, i, c))
        cd == Confidence(VotesFor(g, i, d))
    IN  nc > nd \/ (nc = nd /\ (cc > cd \/ (cc = cd /\ c >= d)))

Scored(g, i) == {c \in g.groups[i].candidates : g.reward[c] # None}

\* auto_selected_branch_task: the candidates it may return, at most one.
AutoSelected(g, i) ==
    IF g.groups[i].strategy = "HighestScore"
    THEN {c \in Scored(g, i) :
            \A d \in Scored(g, i) :
                g.reward[c] > g.reward[d] \/ (g.reward[c] = g.reward[d] /\ c >= d)}
    ELSE LET voted == {v.selected : v \in GroupVotes(g, i)}
         IN  {c \in voted : \A d \in voted : Outvotes(g, i, c, d)}

Selectable(g, i) ==
    /\ g.groups[i].status = "ReadyForSelection"
    /\ g.groups[i].strategy # "Human"
    /\ \E c \in AutoSelected(g, i) : TerminalOk(g, c)

\* try_auto_select_branch_groups
TryAutoSelect(g) ==
    [g EXCEPT !.groups =
        [i \in DOMAIN g.groups |->
            IF Selectable(g, i)
            THEN [g.groups[i] EXCEPT !.status = "Selected",
                                     !.selected = CHOOSE c \in AutoSelected(g, i) : TRUE]
            ELSE g.groups[i]]]
-----------------------------------------------------------------------------
(* Spawning *)

NextTasks(g, k) == (g.n + 1)..(g.n + k)

\* insert_child_task for k children; the pool stands for the spawn policy.
SpawnTasks(g, k, purpose, deps) ==
    [g EXCEPT !.n = @ + k,
              !.st = [t \in BranchTasks |-> IF t \in NextTasks(g, k) THEN "Runnable" ELSE @[t]],
              !.purpose = [t \in BranchTasks |-> IF t \in NextTasks(g, k) THEN purpose ELSE @[t]],
              !.deps = [t \in BranchTasks |-> IF t \in NextTasks(g, k) THEN deps ELSE @[t]]]
RoomFor(g, k) == g.n + k <= MaxBranchTasks

VoterCount(g) == Max({g.policy.minVotes, 1})

SpawnBranchVotes(g, i) ==
    [SpawnTasks(g, VoterCount(g), "BranchVote", g.groups[i].candidates) EXCEPT
        !.groups[i].voters = NextTasks(g, VoterCount(g)),
        !.groups[i].status = "VotingSpawned"]

SpawnBranchUnifier(g, i) ==
    [SpawnTasks(g, 1, "BranchUnification", g.groups[i].candidates \cup g.groups[i].voters) EXCEPT
        !.groups[i].unifier = g.n + 1,
        !.groups[i].status = "ReadyForUnification"]

Ready(g, i) == TryAutoSelect([g EXCEPT !.groups[i].status = "ReadyForSelection"])

\* One group's turn of ensure_branch_frontier.
GroupFrontier(g, i) ==
    LET group == g.groups[i]
    IN  CASE group.status = "CandidatesSpawned" ->
                IF ~TasksTerminalOk(g, group.candidates) THEN g
                ELSE IF g.policy.voting /\ group.voters = {} THEN SpawnBranchVotes(g, i)
                ELSE Ready(g, i)
          [] group.status = "VotingSpawned" ->
                IF ~TasksTerminalOk(g, group.voters) THEN g
                ELSE IF g.policy.unify /\ group.unifier = None THEN SpawnBranchUnifier(g, i)
                ELSE Ready(g, i)
          [] group.status = "ReadyForUnification" ->
                IF TasksTerminalOk(g, {group.unifier}) THEN Ready(g, i) ELSE g
          [] OTHER -> g

\* ensure_branch_frontier: the groups in order, then a refresh if any spawned.
EnsureBranchFrontier(g) ==
    LET turn[k \in 0..Len(g.groups)] ==
            IF k = 0 THEN g ELSE GroupFrontier(turn[k - 1], k)
        after == turn[Len(g.groups)]
    IN  IF ~g.policy.enabled THEN g
        ELSE IF after.n > g.n THEN RefreshStatus(after) ELSE after
-----------------------------------------------------------------------------
(* Votes and validation *)

\* validate_branch_vote; before voters are spawned any task may vote.
ValidVote(g, v) ==
    /\ v.group \in DOMAIN g.groups
    /\ v.selected \in g.groups[v.group].candidates
    /\ \/ g.groups[v.group].voters = {}
       \/ v.voter \in g.groups[v.group].voters \cup {g.groups[v.group].unifier}
    /\ TerminalOk(g, v.selected)

\* Mutant: a retried voter's second answer is added to its first.
RecordBranchVoteAgain(g, v) == [g EXCEPT !.votes = @ \cup {v}]

\* record_branch_vote: a voter's new answer replaces its old one.
RecordBranchVote(g, v) ==
    [g EXCEPT !.votes = {w \in @ : w.group # v.group \/ w.voter # v.voter} \cup {v}]

NoVote == BranchVote(None, None, None, None)
RecordVoteIfAny(g, v) == IF v = NoVote THEN g ELSE RecordBranchVote(g, v)

\* branch_candidate_ids: the candidates a voter or a unifier was spawned for.
CandidatesOf(g, t) ==
    UNION {g.groups[i].candidates :
            i \in {j \in DOMAIN g.groups : t \in g.groups[j].voters \cup {g.groups[j].unifier}}}

\* ValidationReport::from_result(..).passed: a voter must vote for one of the
\* candidates it was given.
Passed(g, t, o) ==
    /\ o.status = "Done" /\ o.criteria
    /\ g.purpose[t] \in {"BranchVote", "BranchUnification"} =>
            o.vote # NoVote /\ o.vote.selected \in CandidatesOf(g, t)

ValidatedStatus(g, t, o) ==
    IF Passed(g, t, o) THEN "Done" ELSE IF o.status = "Failed" THEN "Failed" ELSE "Runnable"

\* A passed unification makes its group ready.
Unified(g, t, passed) ==
    [g EXCEPT !.groups =
        [i \in DOMAIN g.groups |->
            IF /\ passed /\ g.purpose[t] = "BranchUnification"
               /\ g.groups[i].unifier = t /\ g.groups[i].status = "ReadyForUnification"
            THEN [g.groups[i] EXCEPT !.status = "ReadyForSelection"] ELSE g.groups[i]]]

\* apply_validation, with the learning signal of the report.
ApplyBranchValidation(g, t, o) ==
    LET status == ValidatedStatus(g, t, o)
        voted == [RecordVoteIfAny(g, o.vote) EXCEPT !.st[t] = status]
        learnt == [Unified(voted, t, status = "Done") EXCEPT !.reward[t] = o.reward]
    IN  RefreshStatus(TryAutoSelect(learnt))
-----------------------------------------------------------------------------
(* Operations *)

BranchInit ==
    \E p \in BranchPolicies :
        goal = [policy |-> p, status |-> "Running", n |-> 1,
                st |-> [t \in BranchTasks |-> IF t = RootTask THEN "Runnable" ELSE "Unborn"],
                purpose |-> [t \in BranchTasks |-> "Work"],
                deps |-> [t \in BranchTasks |-> {}],
                failures |-> 0,
                reward |-> [t \in BranchTasks |-> None],
                groups |-> <<>>, votes |-> {}]

\* branch_target_task names the task; the request clamps the candidate count.
CandidateCount(g, r) == Max({2, Min({r.count, g.policy.maxCandidates})})

\* Candidate executions that do not differ in their model are refused.
DiverseModels(g, r) == g.policy.diversity => r.models >= 2

CancelOriginal(g, t) ==
    IF g.policy.cancelOriginal /\ ~TerminalTask(g, t) THEN [g EXCEPT !.st[t] = "Cancelled"] ELSE g

\* branch_task, which asks nothing of the goal's status.
BranchTask(r) ==
    LET k == CandidateCount(goal, r)
        spawned == SpawnTasks(goal, k, "CandidateBranch", goal.deps[r.target])
    IN  /\ goal.policy.enabled
        /\ Len(goal.groups) < goal.policy.maxGroups
        /\ r.target \in Born(goal)
        /\ r.target = RootTask => goal.policy.onRoot
        /\ goal.st[r.target] # "Running"
        /\ DiverseModels(goal, r) /\ RoomFor(goal, k)
        /\ goal' = RefreshStatus(
                [CancelOriginal(spawned, r.target) EXCEPT
                    !.groups = Append(@, BranchGroup(r.target,
                        IF r.strategy = "default" THEN goal.policy.strategy ELSE r.strategy,
                        NextTasks(goal, k)))])

\* apply_branch_selection, whatever the group's status.
ApplyBranchSelection(i, c) ==
    /\ i \in DOMAIN goal.groups
    /\ c \in goal.groups[i].candidates
    /\ TerminalOk(goal, c)
    /\ goal' = RefreshStatus([goal EXCEPT !.groups[i].selected = c,
                                          !.groups[i].status = "Selected"])

RunnableTask(g, t) ==
    /\ g.status \notin {"Done", "Cancelled"}
    /\ g.st[t] = "Runnable"
    /\ \A d \in g.deps[t] : TerminalOk(g, d)

\* What a worker answers: its vote names any group and any task.
Outcomes(g, t) ==
    [status : {"Done", "Failed"}, criteria : BOOLEAN, reward : {1, 2},
     vote : {NoVote} \cup {BranchVote(t, i, c, conf) :
                i \in DOMAIN g.groups, c \in Born(g) \ {RootTask}, conf \in {1, 2}}]

\* Bound: the answers that differ in what the group does with them.
Interesting(g, t, o) ==
    /\ o.status = "Failed" => ~o.criteria /\ o.vote = NoVote /\ o.reward = 1
    /\ o.reward = 1 \/ g.policy.strategy = "HighestScore"
    /\ o.vote # NoVote => /\ o.vote.selected \in g.groups[o.vote.group].candidates
                          /\ \/ o.vote.confidence = 1
                             \/ g.purpose[t] = "BranchVote" /\ g.policy.minVotes > 1

\* A turn of drive_state: run the task, apply its result and validation, then
\* the frontier.
RunBranchTask(t, o) ==
    LET ran == [goal EXCEPT !.failures = @ + IF Passed(goal, t, o) THEN 0 ELSE 1]
        validated == EnsureBranchFrontier(ApplyBranchValidation(ran, t, o))
    IN  /\ RunnableTask(goal, t) /\ ran.failures <= MaxFailures
        /\ o.vote # NoVote => ValidVote(goal, o.vote)
        /\ validated.n <= MaxBranchTasks
        /\ goal' = validated

\* A refused vote ends the turn after the result was stored.
RefuseVote(t, o) ==
    /\ RunnableTask(goal, t)
    /\ o.vote # NoVote /\ ~ValidVote(goal, o.vote)
    /\ goal.failures < MaxFailures
    /\ goal' = [goal EXCEPT !.failures = @ + 1, !.st[t] = "NeedsValidation"]

\* With nothing runnable, drive_state only tries the frontier.
IdleFrontier ==
    /\ goal.status \notin {"Done", "Cancelled"}
    /\ \A t \in Born(goal) : ~RunnableTask(goal, t)
    /\ EnsureBranchFrontier(goal).n <= MaxBranchTasks
    /\ goal' = EnsureBranchFrontier(goal)

\* restart of a task that is neither running nor finished.
RestartBranchTask(t) ==
    /\ goal.status \notin {"Done", "Cancelled"}
    /\ goal.st[t] \in {"Failed", "NeedsValidation"}
    /\ goal' = RefreshStatus([goal EXCEPT !.st[t] = "Runnable"])

BranchNext ==
    \/ \E r \in BranchRequests : BranchTask(r)
    \/ \E i \in DOMAIN goal.groups, c \in Born(goal) : ApplyBranchSelection(i, c)
    \/ \E t \in Born(goal) : \E o \in Outcomes(goal, t) :
            Interesting(goal, t, o) /\ (RunBranchTask(t, o) \/ RefuseVote(t, o))
    \/ \E t \in Born(goal) : RestartBranchTask(t)
    \/ IdleFrontier

BranchSpec == BranchInit /\ [][BranchNext]_goal
-----------------------------------------------------------------------------
(* Properties *)

\* Before a group asks for a selection all of its candidates are done, and if
\* voters were spawned each of them is done and has exactly one vote on record,
\* for a finished candidate: neither a retry, a failure nor an operator's
\* selection in between makes a voter count twice or not at all
\* (ensure_branch_frontier, record_branch_vote).
VotesAreIn ==
    \A i \in DOMAIN goal.groups :
        LET group == goal.groups[i]
        IN  group.status \in {"ReadyForUnification", "ReadyForSelection"} =>
                /\ TasksTerminalOk(goal, group.candidates)
                /\ \A v \in group.voters :
                    /\ goal.st[v] = "Done"
                    /\ Cardinality({w \in GroupVotes(goal, i) : w.voter = v}) = 1
                    /\ \A w \in GroupVotes(goal, i) : goal.st[w.selected] = "Done"

\* A group whose tasks were all validated is selected in the same turn, unless
\* its strategy waits for an operator or there is no vote to go by: no order of
\* results, retries and frontier checks leaves it half way
\* (ensure_branch_frontier runs after every validation).
FinishedGroupsAreSettled ==
    \A i \in DOMAIN goal.groups :
        LET group == goal.groups[i]
            tasks == group.candidates \cup group.voters \cup ({group.unifier} \ {None})
        IN  TasksTerminalOk(goal, tasks) =>
                \/ group.status = "Selected"
                \/ /\ group.status = "ReadyForSelection"
                   /\ \/ group.strategy = "Human"
                      \/ group.strategy # "HighestScore" /\ GroupVotes(goal, i) = {}

\* A branch group keeps pace with its tasks: it asks for a selection when every
\* vote is in and not before, and is settled once all of its tasks are validated
\* (ensure_branch_frontier, record_branch_vote).
GroupsKeepPace == VotesAreIn /\ FinishedGroupsAreSettled

\* An automatic selection picks a finished candidate that no other candidate
\* beats in votes (or in reward, for HighestScore), whichever voter or unifier
\* answered last (auto_selected_branch_task).
SelectionHasTheVotes ==
    [][\A i \in DOMAIN goal.groups :
        LET before == goal.groups[i]
            after == goal'.groups[i]
        IN  /\ before.status # "Selected" /\ after.status = "Selected"
            /\ goal'.st # goal.st
            => /\ goal'.st[after.selected] = "Done"
               /\ before.strategy \in {"VoterQuorum", "UnifierDecision"} =>
                    \A c \in after.candidates :
                        Cardinality(VotesFor(goal', i, c))
                            <= Cardinality(VotesFor(goal', i, after.selected))
               /\ before.strategy = "HighestScore" =>
                    \A c \in after.candidates : goal'.reward[c] <= goal'.reward[after.selected]
      ]_goal
=============================================================================
