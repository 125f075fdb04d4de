SPECIFICATION Spec
CONSTANTS
    Handlers = {h1, h2}
    Events <- SameKey
    Routes <- GoalRoute
    InitialRoute = "unrouted"
    Ingests = {"source", "none"}
    Backend = "jsonl"
    Ingress = TRUE
    GoalStore = TRUE
    DeleteOnSuccess = TRUE
    SubmitOutcomes = {"taken", "answer_lost", "refused"}
    DiskFails = TRUE
    MaxCalls = 3
    MaxCrashes = 1
INVARIANTS
    AtMostOneGoal
