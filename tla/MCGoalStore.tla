----------------------------- MODULE MCGoalStore -----------------------------
(***************************************************************************)
(* Requests for model checking the goal store: two snapshots of one goal,  *)
(* events with retries under new ids, operator events that close actions,  *)
(* drafts with a shared key, a plan with a candidate.                      *)
(***************************************************************************)
EXTENDS GoalStore

E(sequence, key) == [goal |-> "g", sequence |-> sequence, key |-> key]
T(id, status) == [id |-> id, goal |-> "g", status |-> status]
A(id, status) == [id |-> id, goal |-> "g", task |-> "t1", status |-> status]
Art(id, goal) == [id |-> id, goal |-> goal, checkpoint |-> IF id = "y" THEN "c" ELSE None]

Snapshot1 ==
    [id |-> "g", version |-> 1, status |-> "WaitingApproval", tasks |-> {T("t1", "WaitingApproval")},
     approvals |-> {A("a1", "Pending"), A("a2", "Pending")}, artifacts |-> <<>>,
     events |-> <<E(1, "k1")>>]
Snapshot2 ==
    [id |-> "g", version |-> 2, status |-> "Running", tasks |-> {T("t1", "Done"), T("t2", "WaitingInput")},
     approvals |-> {A("a1", "Approved"), A("a2", "Approved")},
     artifacts |-> <<Art("x", "g")>>, events |-> <<E(1, "k1"), E(2, "k2")>>]

\* Two tasks finished with an artifact of one URI, which is listed for each.
Snapshot3 == [Snapshot2 EXCEPT !.version = 3, !.artifacts = <<Art("x", "g"), Art("x", "g")>>]

Op(id, key, transition, task, ref) ==
    [id |-> id, key |-> key, goal |-> "g", transition |-> transition, task |-> task, ref |-> ref]
D(id, key, status) == [id |-> id, key |-> key, goal |-> "g", status |-> status]
W(kind, value) == [kind |-> kind, value |-> value]

Requests(n, inFlight, writes, plans) ==
    [requests |-> n, inFlight |-> inFlight, writes |-> writes, plans |-> plans]

\* Projections of a goal, its operator events and its drafts.
Projections ==
    Requests(3, 2,
        {W("Snapshot", Snapshot1), W("Snapshot", Snapshot2),
         W("Event", E(2, "k2")), W("Event", E(3, "k2")),
         W("OperatorEvent", Op("o1", "p1", "ApprovalResolved", "t1", "a1")),
         W("OperatorEvent", Op("o2", "p1", "ApprovalResolved", "t1", "a1")),
         W("OperatorEvent", Op("o3", "p3", "GoalCancelled", None, None)),
         W("Draft", D("d1", "q", "draft")), W("Draft", D("d1", "q", "discarded")),
         W("Draft", D("d2", "q", "draft"))}, {})

\* What has no action: worker results, artifacts, source approvals, chat turns.
Records ==
    Requests(3, 2,
        {W("Snapshot", Snapshot2), W("Snapshot", Snapshot3), W("Artifact", Art("x", "g")), W("Artifact", Art("y", "g")),
         W("OperatorEvent", Op("o4", "p4", "WorkerResultReceived", "t1", "run")),
         W("OperatorEvent", Op("o5", "p5", "WorkerResultReceived", "t2", "run")),
         W("Source", [id |-> "s1", ref |-> "r", source |-> "src"]),
         W("Source", [id |-> "s2", ref |-> "r", source |-> "src"]),
         W("ChatTurn", [id |-> "c1", key |-> "ck", session |-> "s"]),
         W("ChatTurn", [id |-> "c2", key |-> "ck", session |-> "s"])}, {})

Plan(op, plan, candidate) ==
    [op |-> op, plan |-> plan, candidate |-> candidate, goal |-> "g2",
     source |-> IF plan = "p2" THEN "p1" ELSE NoPlan,
     revision |-> Revision([q1 |-> IF op = "create" THEN "open" ELSE "answered"], "yes")]

\* A plan, its candidate branch and a draft under another id with its key.
Planning ==
    Requests(4, 1, {W("Draft", [id |-> "d9", key |-> "p2", goal |-> NoGoal, status |-> "draft"])},
        {Plan("create", "p1", NoPlan), Plan("create", "p2", NoPlan),
         Plan("revise", "p2", NoPlan), Plan("compile", "p2", NoPlan),
         Plan("vote", "p1", "p2"), Plan("select", "p1", "p2")})

AllWorkloads == {Projections, Records, Planning}
=============================================================================
