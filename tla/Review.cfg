SPECIFICATION Spec
CONSTANTS
    MaxTasks = 9
    MaxDepth = 2
    MaxChildren = 2
    Gated = {}
    Guardrails = {}
    ReviewEnabled = TRUE
    MinReviews = 2
    JoinStrategy = "AllRequired"
    MinPassed = 0
    MaxReviewRounds = 2
    RequireUnification = TRUE
    MaxActorRetries = 1
    RestartEnabled = TRUE
    AllowedScopes <- AllScopes
    MaxGoalRestarts = 1
    MaxTaskRestarts = 1
    ResetOnRestart = FALSE
    OnTaskTimeout = "RestartIfAllowed"
    Monitor = FALSE
    SteeringAllowed <- AllKinds
    MaxSteering = 1
    MaxRounds = 7
    ProjectionRequired = FALSE
    Outcomes <- ReviewOutcomes
    Directives <- ReviewDirectives
    MaxCalls = 2
    MaxRequested = 2
INVARIANTS
    DoneWorkReviewed
PROPERTIES
    DispatchRespectsDependencies
