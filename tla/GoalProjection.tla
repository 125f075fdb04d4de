---------------------------- MODULE GoalProjection ----------------------------
(***************************************************************************)
(* What the coordinator shows of a goal: progress(), compute_graph(),      *)
(* find_tasks() and the snapshot that it posts to the goal store after a   *)
(* transition.  They are computed from the state independently of what     *)
(* drives the goal, and must tell the same story.                          *)
(***************************************************************************)
EXTENDS GoalState

Existing(g) == {t \in Tasks : g.st[t] # "Unborn"}
InStatus(g, s) == {t \in Tasks : g.st[t] = s}
ChildrenOf(g, t) == {c \in Existing(g) : g.parent[c] = t}
Pending(waits) == {w \in waits : w.status = "Pending"}

\* task_progress
IsRunnable(g, t) == g.st[t] = "Runnable" /\ \A d \in g.deps[t] : d \in Existing(g) /\ g.st[d] = "Done"
TaskProgress(g, t) ==
    [status |-> g.st[t], purpose |-> g.purpose[t], depth |-> g.depth[t],
     attempts |-> g.attempts[t], dependencies |-> Cardinality(g.deps[t]),
     children |-> Cardinality(ChildrenOf(g, t)), runnable |-> IsRunnable(g, t),
     blockedBy |-> {d \in g.deps[t] : d \in Existing(g) /\ g.st[d] # "Done"}]

\* subgoal_progress_for: the tasks that carry the subgoal's id.  A subgoal with
\* nothing open is Done, also when all its tasks were cancelled.
SubgoalStatus(g, members) ==
    IF members = {} THEN "Planned"
    ELSE IF members \cap InStatus(g, "Failed") # {} THEN "Failed"
    ELSE IF members \cap InStatus(g, "Blocked") # {} THEN "Blocked"
    ELSE IF members \cap OpenTasks(g) = {} THEN "Done"
    ELSE IF members \cap InStatus(g, "Running") # {} THEN "Running"
    ELSE "Open"
SubgoalProgress(g, members) ==
    [status |-> SubgoalStatus(g, members), total |-> Cardinality(members),
     open |-> Cardinality(members \cap OpenTasks(g)),
     terminalOk |-> Cardinality(members \cap InStatus(g, "Done")),
     runnable |-> {t \in members : IsRunnable(g, t)}]

-----------------------------------------------------------------------------
(* The compute graph.                                                      *)

GoalNodeStatus(s) == IF s = "WaitingApproval" THEN "Waiting" ELSE s
TaskNodeStatus(s) == IF s \in {"WaitingApproval", "WaitingInput"} THEN "Waiting" ELSE s
ThunkNodeStatus(s) == IF s = "Pending" THEN "Waiting" ELSE s

\* Ids keep the prefixes that keep the kinds apart.
GoalNode == <<"goal", 0, 0, "-", "-">>
TaskNode(t) == <<"task", t, 0, "-", "-">>
ThunkNode(w) == <<"thunk", w.task, w.cont, w.kind, w.status>>
ContinuationNode(w) == <<"continuation", w.cont, 0, "-", "-">>

\* push_compute_graph_node keeps the first node with an id: a continuation that
\* several thunks resume with shows the state of the oldest of them, so here
\* it may show any of theirs.
GraphNodes(g) ==
    {[id |-> GoalNode, shows |-> {GoalNodeStatus(g.status)}]}
        \cup {[id |-> TaskNode(t), shows |-> {TaskNodeStatus(g.st[t])}] : t \in Existing(g)}
        \cup {[id |-> ThunkNode(w), shows |-> {ThunkNodeStatus(w.status)}] : w \in g.thunks}
        \cup {[id |-> ContinuationNode(w),
               shows |-> {ThunkNodeStatus(v.status) : v \in {x \in g.thunks : x.cont = w.cont}}] :
                  w \in g.thunks}

Edge(from, to, kind) == [from |-> from, to |-> to, kind |-> kind]
OwnerNode(t) == IF t = NoTask THEN GoalNode ELSE TaskNode(t)
TreeEdges(g) ==
    {Edge(OwnerNode(g.parent[t]), TaskNode(t),
          IF g.parent[t] = NoTask THEN "Owns" ELSE "ParentChild") : t \in Existing(g)}
DependencyEdges(g) ==
    UNION {{Edge(TaskNode(d), TaskNode(t), "DependsOn") : d \in g.deps[t] \cap Existing(g)} :
              t \in Existing(g)}
\* Mutant: every thunk hangs on the goal.
ThunkEdgesOfGoal(g) ==
    UNION {{Edge(GoalNode, ThunkNode(w), "SuspendsInto"),
            Edge(ThunkNode(w), ContinuationNode(w), "ResumesWith")} : w \in g.thunks}
ThunkEdges(g) ==
    UNION {{Edge(OwnerNode(w.task), ThunkNode(w), "SuspendsInto"),
            Edge(ThunkNode(w), ContinuationNode(w), "ResumesWith")} : w \in g.thunks}

ComputeGraph(g) ==
    [nodes |-> GraphNodes(g), edges |-> TreeEdges(g) \cup DependencyEdges(g) \cup ThunkEdges(g),
     openThunks |-> Cardinality(Pending(g.thunks)), runnable |-> RunnableTasks(g),
     waiting |-> InStatus(g, "WaitingApproval") \cup InStatus(g, "WaitingInput")]

-----------------------------------------------------------------------------
(* progress() and find_tasks().                                            *)

Progress(g) ==
    [total |-> Cardinality(Existing(g)), open |-> Cardinality(OpenTasks(g)),
     terminalOk |-> Cardinality(InStatus(g, "Done")), blocked |-> Cardinality(InStatus(g, "Blocked")),
     failed |-> Cardinality(InStatus(g, "Failed")),
     waitingApproval |-> Cardinality(InStatus(g, "WaitingApproval")),
     waitingInput |-> Cardinality(InStatus(g, "WaitingInput")),
     pendingThunks |-> Cardinality(Pending(g.thunks)), graph |-> ComputeGraph(g),
     runnable |-> {t \in Existing(g) : TaskProgress(g, t).runnable}, satisfied |-> g.satisfied]

\* TaskQuery::matches; an empty set asks for anything.
QueryMatches(g, q, t) ==
    /\ q.statuses = {} \/ g.st[t] \in q.statuses
    /\ q.purposes = {} \/ g.purpose[t] \in q.purposes
    /\ q.runnableOnly => IsRunnable(g, t)

\* The limit cuts the list after sorting by priority, depth and id.
FindTasks(g, q) == {t \in Existing(g) : QueryMatches(g, q, t)}

-----------------------------------------------------------------------------
(* GoalStoreSnapshot and the coordinator's observation of a transition.    *)

\* TaskRecord::from_task
TaskRecord(g, t) ==
    [parent |-> g.parent[t], status |-> g.st[t], purpose |-> g.purpose[t], depth |-> g.depth[t],
     attempts |-> g.attempts[t], runnable |-> TaskProgress(g, t).runnable]

RootTaskId(g) == CHOOSE t \in Existing(g) : g.parent[t] = NoTask

GoalRecord(g, p) ==
    [status |-> g.status, total |-> p.total, open |-> p.open, blocked |-> p.blocked,
     failed |-> p.failed, done |-> p.terminalOk, root |-> RootTaskId(g), satisfied |-> g.satisfied]

\* GoalStoreSnapshot::from_state; the events are in GoalStore.
Snapshot(g, p) ==
    [goal |-> GoalRecord(g, p), graph |-> p.graph, approvals |-> g.approvals,
     tasks |-> [t \in Existing(g) |-> TaskRecord(g, t)]]

\* observe_transition counts for itself.
ObserveTransition(g, p) ==
    [status |-> g.status, total |-> Cardinality(Existing(g)),
     runnable |-> Cardinality(InStatus(g, "Runnable")), blocked |-> Cardinality(InStatus(g, "Blocked")),
     failed |-> Cardinality(InStatus(g, "Failed")), done |-> Cardinality(InStatus(g, "Done")),
     waitingApproval |-> Cardinality(InStatus(g, "WaitingApproval")),
     waitingInput |-> Cardinality(InStatus(g, "WaitingInput")),
     pendingApprovals |-> Cardinality(Pending(g.approvals)),
     pendingThunks |-> Cardinality(Pending(g.thunks)),
     nodes |-> Cardinality(p.graph.nodes), edges |-> Cardinality(p.graph.edges)]

\* What a reader of the goal store can tell: the graph has both ends of every
\* edge; what it calls runnable is what a task query finds and what the next
\* frontier would take; a waiting task is explained by a pending approval, by
\* a thunk it is suspended into that waits, or by its children; a goal
\* that is Done has nothing open and is not ahead of its subgoals, unless an
\* operator added to it.
SnapshotExplains(g) ==
    LET p == Progress(g)
        s == Snapshot(g, p)
        ids == {n.id : n \in s.graph.nodes}
        asked == FindTasks(g, [statuses |-> {}, purposes |-> {}, runnableOnly |-> TRUE])
        whole == SubgoalProgress(g, Existing(g))
        o == ObserveTransition(g, p)
    IN  /\ \A e \in s.graph.edges : e.from \in ids /\ e.to \in ids
        /\ s.graph.runnable = asked
        /\ s.graph.runnable = {t \in DOMAIN s.tasks : s.tasks[t].runnable}
        /\ s.graph.runnable = whole.runnable
        /\ \A t \in s.graph.waiting :
              \/ PendingFor(s.approvals, t)
              \/ \E n \in s.graph.nodes : /\ Edge(TaskNode(t), n.id, "SuspendsInto") \in s.graph.edges
                                          /\ "Waiting" \in n.shows
              \/ \E c \in DOMAIN s.tasks : Edge(TaskNode(t), TaskNode(c), "ParentChild") \in s.graph.edges
        /\ g.steers = 0 /\ s.goal.status = "Done" => s.goal.open = 0 /\ whole.status = "Done"
        /\ o.done = s.goal.done /\ o.waitingApproval + o.waitingInput = Cardinality(s.graph.waiting)
        /\ o.nodes = Cardinality(ids) /\ o.pendingThunks = s.graph.openThunks
=============================================================================
