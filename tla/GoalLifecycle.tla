---------------------------- MODULE GoalLifecycle ----------------------------
(***************************************************************************)
(* What the goal workflow promises of the tasks of a goal, whatever the    *)
(* operator, the workers and the faults do: attempts are made one at a     *)
(* time, on tasks whose dependencies are done; a task is only finished by  *)
(* the report on the attempt in hand; the operator moves tasks only while  *)
(* no attempt is in hand, and takes finished work up again only as a whole *)
(* new attempt; and a cancelled goal is closed for good.                   *)
(***************************************************************************)
CONSTANTS
    Task,    \* ids of tasks
    Nobody   \* stands for no task

VARIABLES
    life,    \* the stage of each task
    after,   \* the tasks each one depends on
    hand,    \* the task a worker or the validator has, or Nobody
    over,    \* whether the goal was cancelled
    books    \* what else is kept of the goal

vars == <<life, after, hand, over, books>>

Ended == {"done", "cancelled"}
Existing == {t \in Task : life[t] # "unborn"}

Init == /\ \E t \in Task : life = [u \in Task |-> IF u = t THEN "ready" ELSE "unborn"]
        /\ after = [t \in Task |-> {}]
        /\ hand = Nobody /\ over = FALSE

\* Tasks are born ready, behind tasks that are there already: no dependency
\* changes later, so tasks never wait for each other in a ring.
Births ==
    /\ \A t \in Existing : after'[t] = after[t]
    /\ \A t \in Task \ Existing :
          \/ life'[t] = "unborn" /\ after'[t] = after[t]
          \/ life'[t] = "ready" /\ after'[t] \subseteq Existing
OthersStay == \A t \in Existing \ {hand} : life'[t] = life[t]

\* An attempt starts; the caller may have failed before it has it in hand.
Take(t) ==
    /\ hand = Nobody /\ ~over
    /\ life[t] = "ready" /\ \A d \in after[t] : life[d] = "done"
    /\ life' = [life EXCEPT ![t] = "working"] /\ hand' \in {t, Nobody}
    /\ UNCHANGED <<after, over>>

\* The worker's answer, with new tasks it asks for.
Answer ==
    /\ hand # Nobody /\ life[hand] = "working"
    /\ life'[hand] \in {"answered", "ready", "waiting", "stopped"}
    /\ OthersStay /\ Births /\ UNCHANGED <<hand, over>>

\* The report on an answer, and the review work that is due with it.
Report ==
    /\ hand # Nobody /\ life[hand] # "working"
    /\ life'[hand] \in {"done", "ready", "waiting", "stopped"}
    /\ OthersStay /\ Births /\ hand' = Nobody /\ UNCHANGED over

\* An answer or a report is refused: nothing is kept of it.
LetGo == hand # Nobody /\ hand' = Nobody /\ UNCHANGED <<life, after, over, books>>

\* The operator, or the frontier when it finds nothing to do: finished tasks
\* stay so or are taken up again, others wait, stop or are ready again.
Arrange ==
    /\ hand = Nobody /\ ~over
    /\ \A t \in Existing :
          \/ life'[t] = life[t] \/ life'[t] = "ready"
          \/ life[t] \notin Ended /\ life'[t] \in {"waiting", "stopped"}
    /\ Births /\ UNCHANGED <<hand, over>>

Cancel ==
    /\ hand = Nobody /\ ~over /\ over' = TRUE
    /\ life' = [t \in Task |-> IF life[t] \in Ended \cup {"unborn"} THEN life[t]
                                                                 ELSE "cancelled"]
    /\ UNCHANGED <<after, hand>>

Next == (\E t \in Task : Take(t)) \/ Answer \/ Report \/ LetGo \/ Arrange \/ Cancel

Spec == Init /\ [][Next]_vars
=============================================================================
