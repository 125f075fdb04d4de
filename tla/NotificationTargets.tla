------------------------- MODULE NotificationTargets -------------------------
(***************************************************************************)
(* The delivery adapters of coat-notifier: which reports a delivery to a   *)
(* target can end in, and whether the target was reached.  A request whose *)
(* connection fails may or may not have been taken by the other side.      *)
(***************************************************************************)
EXTENDS Naturals

CONSTANT EmailOutboxDir    \* whether COAT_EMAIL_OUTBOX_DIR is set

Trackers == {"GitHub", "Linear", "Jira"}
Kinds == Trackers \cup {"Thread", "Dashboard", "Webhook", "Slack", "Email", "Sqs",
                        "PagerDuty", "Other"}

\* An address is blank, an HTTP URL or some other text.
Addresses == {"blank", "url", "text"}

\* Providers other than these are left to production middleware.
Providers == {"Env", "LocalFile", "Managed"}
NoSecret == [provider |-> "none", found |-> FALSE]
Secrets == [provider : Providers, found : BOOLEAN] \cup {NoSecret}

Target == [kind : Kinds, address : Addresses, secret : Secrets, requireAck : BOOLEAN]

ResolveSecret(secret) == secret.provider \in {"Env", "LocalFile"} /\ secret.found

Report(delivered, ref, reached) == [delivered |-> delivered, ref |-> ref, reached |-> reached]
Reports == [delivered : BOOLEAN, reached : BOOLEAN,
            ref : {"none", "thread", "dashboard", "email", "sqs", "pagerduty", "tracker", "slack", "webhook"}]

Refused == {Report(FALSE, "none", FALSE)}
Broken == {Report(FALSE, "none", reached) : reached \in BOOLEAN}

\* Mutant: any answer counts as delivered.
PostedUnchecked(scheme) == {Report(TRUE, scheme, TRUE), Report(TRUE, scheme, FALSE)} \cup Broken

\* client.post ... send: only a success status is a delivery.
Posted(scheme) == {Report(TRUE, scheme, TRUE), Report(FALSE, scheme, FALSE)} \cup Broken

DeliverPagerduty(t) == IF ResolveSecret(t.secret) THEN Posted("pagerduty") ELSE Refused

\* A tracker needs an address, and a secret only if it names one.
BearerOk(t) == t.secret = NoSecret \/ ResolveSecret(t.secret)
DeliverTracker(t) == IF t.address # "blank" /\ BearerOk(t) THEN Posted("tracker") ELSE Refused
\* reqwest refuses an address that is no URL before it sends anything.
DeliverWebhook(t) ==
    IF ~BearerOk(t) THEN Refused ELSE IF t.address = "url" THEN Posted("webhook") ELSE Refused

DeliverSlack(t) ==
    IF t.address = "url" \/ ResolveSecret(t.secret) THEN Posted("slack") ELSE Refused

\* sqs_queue_url prefers the address.
SqsQueueUrl(t) == t.address # "blank" \/ ResolveSecret(t.secret)
DeliverSqs(t) == IF SqsQueueUrl(t) THEN {Report(TRUE, "sqs", TRUE)} \cup Broken ELSE Refused

\* Without a directory the message stays in memory, and nobody gets it.
DeliverEmail(t) ==
    IF EmailOutboxDir THEN {Report(TRUE, "email", TRUE)} \cup Refused
    ELSE {Report(TRUE, "email", FALSE)}

DeliverTarget(t) ==
    CASE t.kind = "Thread" -> {Report(TRUE, "thread", TRUE)}
      [] t.kind = "Dashboard" -> {Report(TRUE, "dashboard", TRUE)}
      [] t.kind = "Webhook" -> DeliverWebhook(t)
      [] t.kind = "Slack" -> DeliverSlack(t)
      [] t.kind = "Email" -> DeliverEmail(t)
      [] t.kind = "Sqs" -> DeliverSqs(t)
      [] t.kind = "PagerDuty" -> DeliverPagerduty(t)
      [] t.kind \in Trackers -> DeliverTracker(t)
      [] OTHER -> Refused

\* visible_in_operator_queue
InOperatorQueue(status, t) ==
    /\ status # "Acknowledged"
    /\ \/ status \in {"RetryScheduled", "DeadLettered"}
       \/ t.requireAck
       \/ t.kind \in {"Thread", "Dashboard", "Email"}
=============================================================================
