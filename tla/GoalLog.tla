------------------------------- MODULE GoalLog -------------------------------
(***************************************************************************)
(* What the goal store promises of its event records, whatever its backend *)
(* and whatever crashes: an append-only log in which no two records have   *)
(* the same sequence number or the same idempotency key.                   *)
(***************************************************************************)
CONSTANTS
    Record,     \* records that may be appended
    Clash(_, _) \* two records that must not both be in the log

VARIABLE log

NoClash(entries) == \A a, b \in entries : a # b => ~Clash(a, b)

Init == log = {}

Append ==
    /\ log \subseteq log'
    /\ log' \subseteq log \cup Record
    /\ NoClash(log')

Spec == Init /\ [][Append]_log
=============================================================================
