SPECIFICATION MCSpec
CONSTANTS
    Handlers = {h1, h2}
    Events <- SameKey
    Routes <- SomeRoutes
    InitialRoute = "unrouted"
    Ingests = {"source"}
    Backend = "postgres"
    Ingress = TRUE
    GoalStore = TRUE
    DeleteOnSuccess = TRUE
    SubmitOutcomes = {"taken", "answer_lost", "refused"}
    DiskFails = TRUE
    MaxCalls = 3
    MaxCrashes = 1
    SourceId = "src"
    Registrations <- MCRegistrations
    Deliveries <- MCDeliveries
    FreshIds <- MCFreshIds
    GatewayToken = "s1"
    RequireApproval = TRUE
    Tolerance = 1
    MaxDeliveries = 2
    MaxClock = 2
INVARIANTS
    TriggersAreTrue
    RetriesAreDeduped
    DuplicatesAreNoNews
PROPERTIES
    FirstDeliveryIsRouted
