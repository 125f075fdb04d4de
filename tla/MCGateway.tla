------------------------------ MODULE MCGateway ------------------------------
(* The gateway on its database, and what providers deliver to it.  The     *)
(* intake of deliveries and the recording of events share nothing here, so *)
(* a behaviour exercises one of them while the other stands still.         *)
EXTENDS MCEventGateway, EventIntake

VARIABLE topic

NoGeneric == [auth |-> NoAuth, max |-> 0, types |-> {}, idPointer |-> "none", typePointer |-> "none",
              subjectPointer |-> "none", dedupeHeader |-> "none", dedupePointer |-> "none"]
Signed(kind) == [kind |-> kind, provider |-> "Env", secret |-> "s1", header |-> "none"]
Hook(kind, auth) ==
    [kind |-> kind, enabled |-> TRUE, webhook |-> auth, generic |-> NoGeneric, polled |-> FALSE,
     dedupeHeader |-> "none", requireApproval |-> FALSE, mode |-> "CreateGoal"]
Generic(kind, auth) ==
    [Hook(kind, NoAuth) EXCEPT !.generic =
        [NoGeneric EXCEPT !.auth = Signed(auth), !.max = 2, !.types = {<<"diagnostics">>, <<"push">>},
                          !.idPointer = "run_id", !.dedupePointer = "commit"]]

MCRegistrations ==
    {Hook("Manual", NoAuth), Hook("GitHubWebhook", Signed("HmacSha256")),
     Hook("GitLabWebhook", Signed("SharedSecretHeader")), Hook("SlackEvent", Signed("HmacSha256")),
     Hook("StripeWebhook", Signed("HmacSha256")), Hook("JiraWebhook", Signed("BearerToken")),
     Hook("LinearWebhook", Signed("None")), Hook("PrometheusAlertmanager", NoAuth),
     Hook("DatadogWebhook", NoAuth), [Hook("Webhook", Signed("None")) EXCEPT !.dedupeHeader = "x-dedupe"],
     Generic("IdeLsp", "BearerToken"), Generic("Ci", "HmacSha256"),
     [Hook("Sqs", NoAuth) EXCEPT !.polled = TRUE],
     [Hook("Other", Signed("OidcJwt")) EXCEPT !.enabled = FALSE],
     [Hook("Manual", NoAuth) EXCEPT !.mode = "RecordOnly"]}

NoFields == [x \in {} |-> None]
Sent(from, via, occurrence, headers, fields) ==
    [from |-> from, via |-> via, occurrence |-> occurrence, headers |-> headers, fields |-> fields,
     json |-> TRUE, body |-> occurrence, size |-> 1, message |-> None, bearer |-> "s1",
     stamp |-> NoStamp, signature |-> [header |-> SignatureHeader(from), secret |-> "s1",
                                       body |-> occurrence, stamp |-> NoStamp]]
Stamped(d, at) == [d EXCEPT !.stamp = at, !.signature.stamp = at]

One(name, text) == [x \in {name} |-> text]
GitHubPush(o) ==
    Sent("GitHubWebhook", "webhook", o, One("x-github-delivery", <<o>>),
         [action |-> <<"opened">>, after |-> <<o>>])
GitLab(o, headers) ==
    Sent("GitLabWebhook", "webhook", o, headers, One("object_attributes.id", <<"7">>))
Alertmanager(o, status) ==
    Sent("PrometheusAlertmanager", "webhook", o, NoFields,
         Merge([status |-> <<status>>, groupKey |-> <<"g">>], One("alerts.0.startsAt", <<"noon">>)))
MCDeliveries ==
    {GitHubPush("o1"), GitHubPush("o2"),
     [GitHubPush("o1") EXCEPT !.headers = NoFields],
     [GitHubPush("o1") EXCEPT !.signature.secret = "s2"],
     GitLab("o1", Merge(One("x-gitlab-event-uuid", <<"u1">>), One("x-gitlab-token", <<"s1">>))),
     GitLab("o2", One("x-gitlab-token", <<"s1">>)), GitLab("o3", One("x-gitlab-token", <<"s1">>)),
     Stamped(Sent("SlackEvent", "webhook", "o1", NoFields,
                  [event_id |-> <<"v1">>, type |-> <<"message">>]), 1),
     Stamped(Sent("StripeWebhook", "webhook", "o1", NoFields,
                  [id |-> <<"p1">>, type |-> <<"invoice">>]), 0),
     Sent("JiraWebhook", "webhook", "o1", NoFields,
          Merge([webhookEvent |-> <<"updated">>], One("issue.id", <<"9">>))),
     Sent("JiraWebhook", "webhook", "o2", NoFields,
          Merge([webhookEvent |-> <<"updated">>], One("issue.id", <<"9">>))),
     Sent("LinearWebhook", "webhook", "o1", NoFields, [id |-> <<"l1">>, action |-> Blank]),
     Alertmanager("o1", "firing"), Alertmanager("o2", "resolved"),
     Sent("DatadogWebhook", "webhook", "o1", NoFields,
          [monitor_id |-> <<"m">>, status |-> <<"alert">>, date |-> <<"noon">>]),
     Sent("DatadogWebhook", "webhook", "o2", NoFields,
          [monitor_id |-> <<"m">>, status |-> <<"ok">>, date |-> <<"noon">>, title |-> <<"slow">>]),
     Sent("Webhook", "webhook", "o1", One("x-dedupe", <<"k1">>), [id |-> <<"i1">>]),
     Sent("Webhook", "webhook", "o2", NoFields, [id |-> <<"i2">>, type |-> <<"t">>]),
     [Sent("Webhook", "webhook", "o3", NoFields, NoFields) EXCEPT !.json = FALSE],
     Sent("IdeLsp", "generic", "o1", One("ce-type", <<"diagnostics">>),
          [uri |-> <<"file", "a.rs">>, diagnostics |-> <<"warn", "1">>, run_id |-> <<"r1">>]),
     Sent("IdeLsp", "generic", "o2", One("ce-type", <<"typing">>), NoFields),
     Sent("Ci", "generic", "o1", NoFields,
          [type |-> <<"push">>, ref |-> <<"refs/heads", "main">>, repo |-> <<"r">>,
           commit |-> <<"c1">>]),
     [Sent("Ci", "generic", "o2", NoFields, [type |-> <<"push">>, id |-> <<"b2">>]) EXCEPT !.size = 3],
     [Sent("Sqs", "sqs", "o1", NoFields, NoFields) EXCEPT !.message = <<"q1">>],
     [Sent("Sqs", "sqs", "o2", NoFields, [id |-> <<"q2">>]) EXCEPT !.message = <<"q2">>]}

MCFreshIds == <<"new1", "new2">>

NoDelivery ==
    /\ source = Hook("Manual", NoAuth)
    /\ approvals = {} /\ taken = <<>> /\ sentCount = 0 /\ clock = 0

MCInit ==
    /\ topic \in {"gateway", "intake"}
    /\ Init
    /\ IF topic = "intake" THEN IntakeInit ELSE NoDelivery

MCNext ==
    /\ UNCHANGED topic
    /\ \/ topic = "gateway" /\ Next /\ UNCHANGED intakeVars
       \/ topic = "intake" /\ IntakeNext /\ UNCHANGED vars

MCSpec == MCInit /\ [][MCNext]_<<vars, intakeVars, topic>> /\ Fairness
=============================================================================
