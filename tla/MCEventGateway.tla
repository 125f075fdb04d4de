--------------------------- MODULE MCEventGateway ---------------------------
(***************************************************************************)
(* Deliveries for model checking the event gateway: the same event sent    *)
(* again keeps its id and its key; a sender that names only the dedupe key *)
(* gets a new id for every delivery.                                       *)
(***************************************************************************)
EXTENDS EventGateway

First == [id |-> "e1", key |-> "k1"]
Renamed == [id |-> "e2", key |-> "k1"]
Other == [id |-> "e3", key |-> "k2"]

SameKey == {First, Renamed}
TwoKeys == {First, Other}

GoalRoute == {"create_goal"}
SomeRoutes == {"create_goal", "human_review", "no_directive"}
=============================================================================
