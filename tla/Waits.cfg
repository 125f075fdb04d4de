SPECIFICATION Spec
CONSTANTS
    MaxTasks = 3
    MaxDepth = 1
    MaxChildren = 2
    Gated = {1}
    Guardrails = {"security"}
    ReviewEnabled = FALSE
    MinReviews = 0
    JoinStrategy = "AllRequired"
    MinPassed = 0
    MaxReviewRounds = 0
    RequireUnification = FALSE
    MaxActorRetries = 0
    RestartEnabled = TRUE
    AllowedScopes <- AllScopes
    MaxGoalRestarts = 1
    MaxTaskRestarts = 1
    ResetOnRestart = FALSE
    OnTaskTimeout = "RestartIfAllowed"
    Monitor = FALSE
    SteeringAllowed <- AllKinds
    MaxSteering = 0
    MaxRounds = 2
    ProjectionRequired = TRUE
    Outcomes <- WaitOutcomes
    Directives <- NoDirectives
    MaxCalls = 4
    MaxRequested = 2
INVARIANTS
    TypeOK
    CancelledGoalIsQuiet
    PendingApprovalIsCurrent
    GatedRunsApproved
    SnapshotExplainsTheGoal
PROPERTIES
    LifecycleKept
    ActorsPermit
