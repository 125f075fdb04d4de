----------------------------- MODULE MCNotifier -----------------------------
(***************************************************************************)
(* Targets and requests for model checking the notifier.                   *)
(***************************************************************************)
EXTENDS Notifier, TLC

To(kind, address) ==
    [kind |-> kind, address |-> address, secret |-> NoSecret, requireAck |-> kind = "Sqs"]
Requested == {<<>>, <<To("Sqs", "url")>>, <<To("Slack", "url"), To("Email", "text")>>}

\* Handlers are interchangeable.
Symmetry == Permutations(Handlers)
=============================================================================
