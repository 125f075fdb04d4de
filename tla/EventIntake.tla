----------------------------- MODULE EventIntake -----------------------------
(***************************************************************************)
(* How coat-event-gateway reads a delivery before EventGateway records it: *)
(* who may send it, which event it is, and which dedupe key it gets.  A    *)
(* delivery that the provider sends again must get the key it got before,  *)
(* and two things that happened must not share one.                        *)
(*                                                                         *)
(* A text is the sequence of the parts it is joined from or split into, so *)
(* joining texts is concatenation; None is the absent text and Blank the   *)
(* empty one.  A payload maps the paths that hold a text to that text.     *)
(***************************************************************************)
EXTENDS Integers, Sequences, FiniteSets

CONSTANTS
    SourceId,           \* the event source
    Registrations,      \* how it may be registered
    Deliveries,         \* what providers may send
    FreshIds,           \* the random ids, in the order they are drawn
    GatewayToken,       \* COAT_EVENT_GATEWAY_TOKEN, or "none"
    RequireApproval,    \* COAT_REQUIRE_EVENT_SOURCE_APPROVAL
    Tolerance,          \* how old a signature's timestamp may be
    MaxDeliveries,      \* bound: requests that reach the gateway
    MaxClock            \* bound: the clock

\* A delivery has headers and a body, and the body is JSON or not.
ASSUME IntakeAssumption ==
    \A d \in Deliveries : {"headers", "json", "fields", "body"} \subseteq DOMAIN d

VARIABLES
    source,     \* EventGatewayState.sources: the registered source
    approvals,  \* approval references the goal store has
    taken,      \* the deliveries that passed, with the event made of each
    sentCount,  \* requests so far
    clock

intakeVars == <<source, approvals, taken, sentCount, clock>>

None == <<>>
Blank == <<"">>
NoMeta == [x \in {} |-> None]
NoAuth == [kind |-> "absent"]       \* no webhook or generic block

-----------------------------------------------------------------------------
(* Reading headers and payloads.                                           *)

Lookup(f, name) == IF name \in DOMAIN f THEN f[name] ELSE None
OrElse(a, b) == IF a # None THEN a ELSE b

\* first_string: the first of these paths that holds a text that is not blank.
FirstString(f, paths) ==
    LET filled == {k \in DOMAIN paths : Lookup(f, paths[k]) \notin {None, Blank}}
    IN  IF filled = {} THEN None
        ELSE f[paths[CHOOSE k \in filled : \A j \in filled : k <= j]]

Merge(f, g) == [x \in DOMAIN f \cup DOMAIN g |-> IF x \in DOMAIN g THEN g[x] ELSE f[x]]

\* payload_with_metadata: what was found is kept under a key of its own in the
\* payload, here `meta`; a name without a text is null, which reads as absent.
WithMetadata(meta, found) ==
    Merge(meta, [x \in {y \in DOMAIN found : found[y] # None} |-> found[x]])

\* A body that is not JSON becomes an object with the raw text.
Payload(d) == IF d.json THEN d.fields ELSE [x \in {"raw_utf8"} |-> <<d.body>>]

\* The event type of a provider: its name, the event and a named action.
ProviderEventType(provider, event, action) ==
    provider \o event \o (IF action = Blank THEN None ELSE action)

\* A v5 UUID, by what it is computed from.
StableEventId(prefix, raw) == prefix \o raw

-----------------------------------------------------------------------------
(* Webhooks.                                                               *)

KeyOf(e) == <<SourceId>> \o e.id

WebhookBaseEvent(s, d, fresh) ==
    LET payload == Payload(d)
        type == OrElse(Lookup(d.headers, "ce-type"),
                       OrElse(Lookup(payload, "type"), <<"webhook.received">>))
        id == OrElse(Lookup(d.headers, "ce-id"), OrElse(Lookup(payload, "id"), fresh))
    IN  [id |-> id, type |-> type, kind |-> s.kind,
         subject |-> OrElse(Lookup(d.headers, "ce-subject"), Lookup(payload, "subject")),
         key |-> OrElse(Lookup(d.headers, s.dedupeHeader), <<SourceId>> \o id \o type),
         time |-> Lookup(d.headers, "ce-time"), payload |-> payload, meta |-> NoMeta]

\* Mutant: the delivery header is left to the id of the base event.
NormalizeGithubBase(e, d) ==
    LET named == [e EXCEPT !.type = ProviderEventType(<<"github">>, <<"event">>,
                                                      Lookup(e.payload, "action"))]
    IN  [named EXCEPT !.key = KeyOf(named)]

NormalizeGithub(e, d) ==
    LET repo == Lookup(e.payload, "repository.full_name")
        number == OrElse(Lookup(e.payload, "pull_request.number"), Lookup(e.payload, "issue.number"))
        named == [e EXCEPT
            !.id = OrElse(Lookup(d.headers, "x-github-delivery"), e.id),
            !.type = ProviderEventType(<<"github">>,
                         OrElse(Lookup(d.headers, "x-github-event"),
                                OrElse(Lookup(e.payload, "event"), <<"event">>)),
                         Lookup(e.payload, "action")),
            !.subject = IF repo = None THEN e.subject ELSE repo \o number]
    IN  [named EXCEPT !.key = KeyOf(named)]

NormalizeGitlab(e, d) ==
    LET named == [e EXCEPT
            !.id = OrElse(Lookup(d.headers, "x-gitlab-event-uuid"),
                          OrElse(Lookup(e.payload, "object_attributes.id"), e.id)),
            !.type = ProviderEventType(<<"gitlab">>,
                         OrElse(Lookup(d.headers, "x-gitlab-event"),
                                OrElse(Lookup(e.payload, "object_kind"),
                                       OrElse(Lookup(e.payload, "event_name"), <<"event">>))), None),
            !.subject = OrElse(Lookup(e.payload, "project.path_with_namespace"),
                               OrElse(Lookup(e.payload, "project.web_url"), e.subject))]
    IN  [named EXCEPT !.key = KeyOf(named)]

NormalizeSlack(e) ==
    LET named == [e EXCEPT
            !.id = OrElse(Lookup(e.payload, "event_id"), e.id),
            !.type = ProviderEventType(<<"slack">>,
                         OrElse(Lookup(e.payload, "event.type"),
                                OrElse(Lookup(e.payload, "type"), <<"event">>)), None),
            !.subject = OrElse(Lookup(e.payload, "event.channel"),
                               OrElse(Lookup(e.payload, "event.user"), e.subject))]
    IN  [named EXCEPT !.key = KeyOf(named)]

NormalizeStripe(e) ==
    LET named == [e EXCEPT
            !.id = OrElse(Lookup(e.payload, "id"), e.id),
            !.type = <<"stripe">> \o OrElse(Lookup(e.payload, "type"), <<"event">>),
            !.subject = OrElse(Lookup(e.payload, "data.object.id"), e.subject),
            !.time = OrElse(Lookup(e.payload, "created"), e.time)]
    IN  [named EXCEPT !.key = KeyOf(named)]

\* The id is the kind of change and the issue: a second change of that kind
\* of the same issue has it too.
NormalizeJira(e) ==
    LET event == Lookup(e.payload, "webhookEvent")
        issue == Lookup(e.payload, "issue.id")
        named == [e EXCEPT
            !.id = IF None \in {event, issue} THEN e.id ELSE event \o issue,
            !.type = ProviderEventType(<<"jira">>, OrElse(event, <<"event">>), None),
            !.subject = OrElse(Lookup(e.payload, "issue.key"), e.subject)]
    IN  [named EXCEPT !.key = KeyOf(named)]

NormalizeLinear(e) ==
    LET named == [e EXCEPT
            !.id = OrElse(Lookup(e.payload, "id"), OrElse(Lookup(e.payload, "data.id"), e.id)),
            !.type = ProviderEventType(<<"linear">>, OrElse(Lookup(e.payload, "type"), <<"event">>),
                                       Lookup(e.payload, "action")),
            !.subject = OrElse(Lookup(e.payload, "data.identifier"),
                               OrElse(Lookup(e.payload, "data.title"), e.subject))]
    IN  [named EXCEPT !.key = KeyOf(named)]

\* observability_subject: service, alert and severity, those that are named.
ObservabilitySubject(service, alert, severity) ==
    LET Shown(text) == IF text = Blank THEN None ELSE text
        parts == Shown(service) \o Shown(alert) \o Shown(severity)
    IN  IF parts = None THEN <<"observability event">> ELSE parts

Observability(provider, status, alert, service, severity, environment, print, runbook, dashboard) ==
    [provider |-> provider, status |-> status, alertname |-> alert, service |-> service,
     severity |-> severity, environment |-> environment, fingerprint |-> print,
     runbook_url |-> runbook, dashboard_url |-> dashboard]

\* Mutant: firing and resolved are told apart by their time alone.
AlertIdByTime(group, status, at) == group \o OrElse(at, <<"unknown-time">>)

\* The group, its status and the time of that status name the alert.
AlertId(group, status, at) == group \o status \o OrElse(at, <<"unknown-time">>)

NormalizeAlertmanager(e) ==
    LET First(paths) == FirstString(e.payload, paths)
        status == OrElse(Lookup(e.payload, "status"), <<"unknown">>)
        alert == OrElse(First(<<"commonLabels.alertname", "alerts.0.labels.alertname">>), <<"alert">>)
        service == First(<<"commonLabels.service", "commonLabels.job", "alerts.0.labels.service",
                           "alerts.0.labels.job">>)
        severity == First(<<"commonLabels.severity", "alerts.0.labels.severity">>)
        environment == First(<<"commonLabels.environment", "commonLabels.env",
                               "alerts.0.labels.environment", "alerts.0.labels.env">>)
        print == OrElse(First(<<"alerts.0.fingerprint", "groupKey">>), e.id)
        starts == Lookup(e.payload, "alerts.0.startsAt")
        ends == Lookup(e.payload, "alerts.0.endsAt")
        at == IF status = <<"resolved">> THEN OrElse(ends, starts) ELSE OrElse(starts, ends)
        group == OrElse(Lookup(e.payload, "groupKey"), print)
        named == [e EXCEPT
            !.id = StableEventId(<<"prometheus">>, AlertId(group, status, at)),
            !.type = ProviderEventType(<<"prometheus.alertmanager">>, <<"alert">>, status),
            !.subject = ObservabilitySubject(service, alert, severity),
            !.time = OrElse(at, e.time),
            !.meta = WithMetadata(@, Observability(<<"prometheus">>, status, alert, service,
                severity, environment, print,
                First(<<"commonAnnotations.runbook_url", "commonAnnotations.runbook",
                        "alerts.0.annotations.runbook_url">>),
                First(<<"commonAnnotations.dashboard_url", "alerts.0.generatorURL",
                        "externalURL">>)))]
    IN  [named EXCEPT !.key = KeyOf(named)]

\* datadog_tags and datadog_tag_value: tags come as a list or with commas, and
\* the first "service:checkout" is here what the path "tags.service" holds.
DatadogTag(payload, name) == Lookup(payload, name)

NormalizeDatadog(e) ==
    LET First(paths) == FirstString(e.payload, paths)
        Tag(name) == DatadogTag(e.payload, name)
        transition == OrElse(First(<<"alert_transition", "status", "event_type">>), <<"event">>)
        title == First(<<"title", "monitor_name", "alert_title">>)
        monitor == OrElse(First(<<"event_id", "alert_id", "monitor_id">>), e.id)
        at == First(<<"date", "last_updated", "timestamp">>)
        service == OrElse(Tag("tags.service"), Lookup(e.payload, "service"))
        severity == OrElse(Tag("tags.severity"),
                           OrElse(Tag("tags.priority"), Lookup(e.payload, "priority")))
        environment == OrElse(Tag("tags.env"),
                              OrElse(Tag("tags.environment"), Lookup(e.payload, "environment")))
        named == [e EXCEPT
            !.id = StableEventId(<<"datadog">>, AlertId(monitor, transition, at)),
            !.type = ProviderEventType(<<"datadog.monitor">>, transition, None),
            !.subject = IF title # None THEN title
                        ELSE ObservabilitySubject(service, <<"monitor">>, severity),
            !.time = OrElse(at, e.time),
            !.meta = WithMetadata(@, Observability(<<"datadog">>, transition, title, service,
                severity, environment, monitor, First(<<"runbook_url", "runbook">>),
                First(<<"dashboard_url", "snapshot_url", "url">>)))]
    IN  [named EXCEPT !.key = KeyOf(named)]

-----------------------------------------------------------------------------
(* Signals of editors and of changes.                                      *)

Severities == <<"error", "warning", "information", "hint">>

\* diagnostic_severity: numbers, names and their short forms.
DiagnosticSeverity(text) ==
    CASE text \in {"1", "error"} -> "error"
      [] text \in {"2", "warning", "warn"} -> "warning"
      [] text \in {"3", "information", "info"} -> "information"
      [] text \in {"4", "hint"} -> "hint"
      [] OTHER -> "none"

Counted(diagnostics, severity) ==
    Cardinality({k \in DOMAIN diagnostics : DiagnosticSeverity(diagnostics[k]) = severity})

IdeMaxSeverity(diagnostics) ==
    LET found == {k \in DOMAIN Severities : Counted(diagnostics, Severities[k]) > 0}
    IN  IF found = {} THEN None ELSE <<Severities[CHOOSE k \in found : \A j \in found : k <= j]>>

\* A path from a file: URI; the file's path is its last part.
FilePathFromUri(uri) == IF uri # None /\ Head(uri) = "file" THEN Tail(uri) ELSE None

RepoAt(repo, place) == IF None \in {repo, place} THEN None ELSE repo \o place

FirstOf(texts) ==
    LET filled == {k \in DOMAIN texts : texts[k] \notin {None, Blank}}
    IN  IF filled = {} THEN None ELSE texts[CHOOSE k \in filled : \A j \in filled : k <= j]

IdePaths ==
    [provider |-> <<"provider", "ide">>,
     workspace |-> <<"workspace", "workspace_folder", "root_uri">>,
     repo |-> <<"repo", "repository">>, branch |-> <<"branch", "git.branch">>,
     commit_sha |-> <<"commit_sha", "git.sha">>,
     uri |-> <<"uri", "textDocument.uri", "document.uri">>,
     language_id |-> <<"language_id", "languageId">>]

NormalizeIdeSignal(e) ==
    LET found == [x \in DOMAIN IdePaths |-> FirstString(e.payload, IdePaths[x])]
        file == FirstOf(<<FirstString(e.payload, <<"file_path", "path">>),
                          FilePathFromUri(found.uri)>>)
    IN  [e EXCEPT
            !.subject = IF e.subject # None THEN e.subject
                        ELSE FirstOf(<<file, found.uri, RepoAt(found.repo, found.branch)>>),
            !.meta = WithMetadata(@, Merge([found EXCEPT !.provider = OrElse(@, <<"ide_lsp">>)],
                [file_path |-> file,
                 max_severity |-> IdeMaxSeverity(Lookup(e.payload, "diagnostics"))]))]

\* strip_git_ref: refs/heads/<branch> and refs/pull/<number> lose their prefix.
StripGitRef(ref) ==
    IF ref = Blank THEN None
    ELSE IF ref # None /\ Head(ref) \in {"refs/heads", "refs/pull"} THEN <<ref[2]>>
    ELSE ref

ChangeProvider(kind) ==
    CASE kind = "GitHubWebhook" -> <<"github">>
      [] kind \in {"GitLabWebhook", "GitLabPipelineCheck"} -> <<"gitlab">>
      [] kind \in {"Ci", "CiTestFailure"} -> <<"ci">>
      [] kind = "GitHubActionsCheck" -> <<"github_actions">>
      [] kind \in {"Git", "BranchActivity"} -> <<"git">>
      [] kind \in {"PullRequest", "PullRequestReview", "PullRequestCheck"} -> <<"pull_request">>
      [] OTHER -> <<"generic">>

ChangePaths ==
    [repo |-> <<"repository.full_name", "project.path_with_namespace", "repo", "repository">>,
     base_branch |-> <<"base_branch", "pull_request.base.ref", "merge_request.target_branch",
                       "object_attributes.target_branch">>,
     pull_request_number |-> <<"pull_request.number", "pull_request_number", "number",
                               "merge_request.iid", "object_attributes.iid">>,
     commit_sha |-> <<"after", "sha", "commit_sha", "head_sha", "pull_request.head.sha",
                      "workflow_run.head_sha", "check_run.head_sha", "pipeline.sha",
                      "object_attributes.sha", "commit.id">>,
     actor |-> <<"sender.login", "user.username", "actor", "pusher.name">>,
     workflow_name |-> <<"workflow_run.name", "workflow", "workflow_name", "check_run.name",
                         "job_name", "pipeline.name", "object_attributes.name">>,
     pull_request_url |-> <<"pull_request.html_url", "merge_request.url", "pr_url",
                            "pull_request_url">>,
     run_id |-> <<"workflow_run.id", "run_id", "check_run.id", "pipeline.id",
                  "object_attributes.id">>,
     status |-> <<"workflow_run.status", "status", "check_run.status", "pipeline.status",
                  "object_attributes.status">>,
     conclusion |-> <<"workflow_run.conclusion", "conclusion", "check_run.conclusion",
                      "pipeline.status", "object_attributes.status">>,
     failed_test_count |-> <<"failed_test_count", "tests.failed", "summary.failed">>,
     details_url |-> <<"workflow_run.html_url", "check_run.html_url", "pipeline.web_url",
                       "object_attributes.url", "object_attributes.web_url", "commit.url",
                       "details_url", "url">>]

BranchPaths ==
    <<"branch", "ref_name", "head_branch", "workflow_run.head_branch", "pull_request.head.ref",
      "merge_request.source_branch", "object_attributes.source_branch", "object_attributes.ref",
      "pipeline.ref">>

NormalizeChangeSignal(e) ==
    LET found == [x \in DOMAIN ChangePaths |-> FirstString(e.payload, ChangePaths[x])]
        branch == FirstOf(<<FirstString(e.payload, BranchPaths), StripGitRef(Lookup(e.payload, "ref"))>>)
    IN  [e EXCEPT
            !.subject = IF e.subject # None THEN e.subject
                        ELSE FirstOf(<<RepoAt(found.repo, found.pull_request_number),
                                       RepoAt(found.repo, branch), branch>>),
            !.meta = WithMetadata(@, Merge(found, [branch |-> branch,
                                                   provider |-> ChangeProvider(e.kind)]))]

NormalizeSignal(e) ==
    CASE e.kind \in {"IdeLsp", "IdeDiagnostics"} -> NormalizeIdeSignal(e)
      [] ChangeProvider(e.kind) # <<"generic">> -> NormalizeChangeSignal(e)
      [] OTHER -> e

\* normalize_webhook_event: by the kind of the source; a dedupe header that the
\* source names and the delivery has goes before the provider's key.
NormalizeWebhook(s, d, fresh) ==
    LET base == WebhookBaseEvent(s, d, fresh)
        event ==
            CASE s.kind = "GitHubWebhook" -> NormalizeGithub(base, d)
              [] s.kind = "GitLabWebhook" -> NormalizeGitlab(base, d)
              [] s.kind = "SlackEvent" -> NormalizeSlack(base)
              [] s.kind = "StripeWebhook" -> NormalizeStripe(base)
              [] s.kind = "JiraWebhook" -> NormalizeJira(base)
              [] s.kind = "LinearWebhook" -> NormalizeLinear(base)
              [] s.kind = "PrometheusAlertmanager" -> NormalizeAlertmanager(base)
              [] s.kind = "DatadogWebhook" -> NormalizeDatadog(base)
              [] OTHER -> base
    IN  NormalizeSignal([event EXCEPT !.key = OrElse(Lookup(d.headers, s.dedupeHeader), @)])

-----------------------------------------------------------------------------
(* Generic events and SQS messages.                                        *)

GenericType(g, d) ==
    OrElse(Lookup(d.headers, "ce-type"),
           OrElse(Lookup(Payload(d), g.typePointer),
                  OrElse(Lookup(Payload(d), "type"), <<"generic.received">>)))

\* Too large, or of a type the source does not allow.
GenericRefused(g, d) ==
    \/ g.max > 0 /\ d.size > g.max
    \/ g.types # {} /\ GenericType(g, d) \notin g.types

NormalizeGeneric(s, d, fresh) ==
    LET g == s.generic
        payload == Payload(d)
        type == GenericType(g, d)
        id == OrElse(Lookup(d.headers, "ce-id"),
                     OrElse(Lookup(payload, g.idPointer), OrElse(Lookup(payload, "id"), fresh)))
    IN  NormalizeSignal(
            [id |-> id, type |-> type, kind |-> s.kind,
             subject |-> OrElse(Lookup(d.headers, "ce-subject"),
                                OrElse(Lookup(payload, g.subjectPointer), Lookup(payload, "subject"))),
             key |-> OrElse(Lookup(d.headers, g.dedupeHeader),
                            OrElse(Lookup(payload, g.dedupePointer), <<SourceId>> \o id \o type)),
             time |-> OrElse(Lookup(d.headers, "ce-time"), Lookup(payload, "time")),
             payload |-> payload, meta |-> NoMeta])

\* A message becomes a generic delivery with headers of the gateway's own: its
\* id and type, where the body does not name them.
SqsDelivery(s, d, fresh) ==
    LET payload == Payload(d)
        id == OrElse(Lookup(payload, s.generic.idPointer), Lookup(payload, "id"))
        type == OrElse(Lookup(payload, s.generic.typePointer), Lookup(payload, "type"))
        message == OrElse(d.message, fresh)
    IN  [d EXCEPT !.headers =
            WithMetadata([x \in {"x-sqs-message-id"} |-> message],
                [y \in {"ce-source", "ce-id", "ce-type"} |->
                    CASE y = "ce-source" -> <<SourceId>>
                      [] y = "ce-id" -> IF id = None THEN message ELSE None
                      [] y = "ce-type" -> IF type = None THEN <<"sqs.message">> ELSE None])]

NormalizeSqs(s, d, fresh) ==
    [NormalizeGeneric(s, SqsDelivery(s, d, fresh), fresh) EXCEPT
        !.kind = "Sqs", !.meta = WithMetadata(@, [message_id |-> d.message])]

-----------------------------------------------------------------------------
(* Who may send.                                                           *)

\* require_gateway_auth
GatewayAuth(d) == GatewayToken = "none" \/ d.bearer = GatewayToken

\* resolve_secret: an environment variable or a file; anything else is left to
\* a middleware this service does not have.
Resolved(auth) == auth.provider \in {"Env", "LocalFile"} /\ auth.secret # "none"

\* provider_webhook_defaults
SecretHeader(kind) == IF kind = "GitLabWebhook" THEN "x-gitlab-token" ELSE "x-coat-webhook-secret"
SignatureHeader(kind) ==
    CASE kind = "GitHubWebhook" -> "x-hub-signature-256"
      [] kind = "GitLabWebhook" -> "x-gitlab-token"
      [] kind = "SlackEvent" -> "x-slack-signature"
      [] kind = "StripeWebhook" -> "stripe-signature"
      [] OTHER -> "x-coat-signature-256"

\* ensure_recent_unix_timestamp; NoStamp is a stamp that is missing.
NoStamp == -1
Recent(stamp) ==
    /\ stamp # NoStamp
    /\ stamp - clock <= Tolerance
    /\ clock - stamp <= Tolerance

\* verify_provider_hmac_sha256: Slack and Stripe sign the timestamp with the
\* body, the others the body alone.
Verified(kind, secret, d) ==
    /\ d.signature.secret = secret
    /\ d.signature.body = d.body
    /\ kind \in {"SlackEvent", "StripeWebhook"} => Recent(d.stamp) /\ d.signature.stamp = d.stamp

EventAuth(auth, kind, secretHeader, signatureHeader, d) ==
    LET Named(default) == IF auth.header # "none" THEN auth.header ELSE default
    IN  CASE auth.kind = "None" -> GatewayAuth(d)
          [] auth.kind = "SharedSecretHeader" ->
                /\ Lookup(d.headers, Named(secretHeader)) # None
                /\ Resolved(auth)
                /\ Lookup(d.headers, Named(secretHeader)) = <<auth.secret>>
          [] auth.kind = "BearerToken" -> Resolved(auth) /\ d.bearer = auth.secret
          [] auth.kind = "HmacSha256" ->
                /\ d.signature.header = Named(signatureHeader)
                /\ Resolved(auth)
                /\ Verified(kind, auth.secret, d)
          [] OTHER -> FALSE     \* basic, mTLS and OIDC are declared only

\* A source with no block for the endpoint is only known to the gateway's token.
WebhookAuth(s, d) ==
    IF s.webhook = NoAuth THEN GatewayAuth(d)
    ELSE EventAuth(s.webhook, s.kind, SecretHeader(s.kind), SignatureHeader(s.kind), d)

GenericAuth(s, d) ==
    IF s.generic.auth = NoAuth THEN GatewayAuth(d)
    ELSE EventAuth(s.generic.auth, "Generic", "x-coat-event-secret", "x-coat-signature-256", d)

-----------------------------------------------------------------------------
(* Registration and deliveries.                                            *)

\* event_source_is_risky
Risky(s) ==
    \/ s.webhook # NoAuth
    \/ s.generic.auth # NoAuth
    \/ s.polled
    \/ s.requireApproval
    \/ s.mode # "RecordOnly"
    \/ s.kind \notin {"Manual", "Other"}

NeedsApproval(s) == RequireApproval /\ s.enabled /\ Risky(s)

\* register_source: the approval goes to the goal store last, and when that fails
\* the caller sees an error but the source is registered.
RegisterEventSource ==
    \E s \in Registrations, approval \in {None, Blank, <<"a1">>}, stored \in BOOLEAN :
        /\ s # source
        /\ NeedsApproval(s) => approval \notin {None, Blank}
        /\ source' = s
        /\ approvals' = approvals \cup (IF NeedsApproval(s) /\ stored THEN {approval} ELSE {})
        /\ UNCHANGED <<taken, sentCount, clock>>

Fresh == <<FreshIds[sentCount + 1]>>

\* record_event knows a key it has seen.
Take(d, event) ==
    /\ sentCount' = sentCount + 1
    /\ taken' = Append(taken, [delivery |-> d, source |-> source, event |-> event,
            deduped |-> \E k \in DOMAIN taken : taken[k].event.key = event.key])
    /\ UNCHANGED <<source, approvals, clock>>

\* webhook_event
WebhookEvent ==
    \E d \in Deliveries :
        /\ sentCount < MaxDeliveries
        /\ d.via = "webhook" /\ d.from = source.kind
        /\ WebhookAuth(source, d)
        /\ Take(d, NormalizeWebhook(source, d, Fresh))

\* generic_event
GenericEvent ==
    \E d \in Deliveries :
        /\ sentCount < MaxDeliveries
        /\ d.via = "generic" /\ d.from = source.kind
        /\ GenericAuth(source, d)
        /\ ~GenericRefused(source.generic, d)
        /\ Take(d, NormalizeGeneric(source, d, Fresh))

\* sqs_poll: the gateway's own client fetched the message.  A message that is
\* refused stays in the queue and is only reported.
SqsEvent ==
    \E d \in Deliveries :
        /\ sentCount < MaxDeliveries
        /\ d.via = "sqs" /\ source.enabled /\ source.polled /\ d.from = source.kind
        /\ ~GenericRefused(source.generic, SqsDelivery(source, d, Fresh))
        /\ Take(d, NormalizeSqs(source, d, Fresh))

Tick ==
    /\ clock < MaxClock
    /\ clock' = clock + 1
    /\ UNCHANGED <<source, approvals, taken, sentCount>>

IntakeInit ==
    /\ source \in Registrations
    /\ ~NeedsApproval(source)
    /\ approvals = {} /\ taken = <<>> /\ sentCount = 0 /\ clock = 0

IntakeNext == RegisterEventSource \/ WebhookEvent \/ GenericEvent \/ SqsEvent \/ Tick

IntakeSpec == IntakeInit /\ [][IntakeNext]_intakeVars

-----------------------------------------------------------------------------
(* Properties.                                                             *)

\* The delivery says which delivery it is, in the place its sender uses for it,
\* or in one that the source was registered with.  Alerts carry no delivery id:
\* their group or monitor, status and time identify them.
Identified(s, d) ==
    LET header(h) == Lookup(d.headers, h) # None
        field(p) == Lookup(Payload(d), p) # None
        text(paths) == FirstString(Payload(d), paths) # None
        named == header("ce-id") \/ field("id")
    IN  CASE d.via = "sqs" -> d.message # None
          [] d.via = "generic" ->
                \/ named \/ field(s.generic.idPointer)
                \/ header(s.generic.dedupeHeader) \/ field(s.generic.dedupePointer)
          [] OTHER ->
                \/ named \/ header(s.dedupeHeader)
                \/ s.kind = "GitHubWebhook" /\ header("x-github-delivery")
                \/ s.kind = "GitLabWebhook" /\ header("x-gitlab-event-uuid")
                \/ s.kind = "SlackEvent" /\ field("event_id")
                \/ s.kind = "PrometheusAlertmanager" /\ text(<<"alerts.0.fingerprint", "groupKey">>)
                \/ s.kind = "DatadogWebhook" /\ text(<<"event_id", "alert_id", "monitor_id">>)

\* A delivery that its sender repeats, to a source that is registered as it
\* was, is found to be a duplicate, by whichever header or field it is
\* identified (normalize_webhook_event, normalize_generic_event,
\* normalize_sqs_message).
RetriesAreDeduped ==
    \A j \in DOMAIN taken : \A i \in 1..(j - 1) :
        (/\ taken[i].delivery = taken[j].delivery
         /\ taken[i].source = taken[j].source
         /\ Identified(taken[j].source, taken[j].delivery))
        => taken[j].deduped

\* A duplicate is dropped, so it must not be news: something that happened
\* once and says the same had been taken before.  An alert that resolves is
\* not a repetition of the one that fired.  (Deliveries that only name the
\* object they are about, as Jira's do, are repeated by the next change.)
DuplicatesAreNoNews ==
    \A j \in DOMAIN taken :
        LET t == taken[j]
        IN  t.deduped /\ Identified(t.source, t.delivery) =>
                \E i \in 1..(j - 1) :
                    /\ taken[i].delivery.occurrence = t.delivery.occurrence
                    /\ taken[i].source = t.source =>
                        /\ taken[i].event.type = t.event.type
                        /\ taken[i].event.meta = t.event.meta
=============================================================================
