SPECIFICATION Spec
CONSTANTS
    MaxTasks = 2
    MaxDepth = 2
    MaxChildren = 2
    Gated = {}
    Guardrails = {}
    ReviewEnabled = FALSE
    MinReviews = 0
    JoinStrategy = "AllRequired"
    MinPassed = 0
    MaxReviewRounds = 0
    RequireUnification = FALSE
    MaxActorRetries = 0
    RestartEnabled = TRUE
    AllowedScopes <- AllScopes
    MaxGoalRestarts = 1
    MaxTaskRestarts = 1
    ResetOnRestart = FALSE
    OnTaskTimeout = "RestartIfAllowed"
    Monitor = FALSE
    SteeringAllowed <- AllKinds
    MaxSteering = 0
    MaxRounds = 1
    ProjectionRequired = FALSE
    Outcomes <- OnlySuccess
    Directives <- NoDirectives
    MaxCalls = 0
    MaxRequested = 2
INVARIANTS
    SatisfiedGoalIsDone
