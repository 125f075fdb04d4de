SPECIFICATION FairSpec
CONSTANTS
    MaxTasks = 2
    MaxDepth = 2
    MaxChildren = 2
    Gated = {2}
    Guardrails = {}
    ReviewEnabled = FALSE
    MinReviews = 0
    JoinStrategy = "AllRequired"
    MinPassed = 0
    MaxReviewRounds = 0
    RequireUnification = FALSE
    MaxActorRetries = 0
    RestartEnabled = TRUE
    AllowedScopes <- AllScopes
    MaxGoalRestarts = 1
    MaxTaskRestarts = 1
    ResetOnRestart = FALSE
    OnTaskTimeout = "Fail"
    Monitor = FALSE
    SteeringAllowed <- AllKinds
    MaxSteering = 0
    MaxRounds = 3
    ProjectionRequired = TRUE
    Outcomes <- LimitOutcomes
    Directives <- NoDirectives
    MaxCalls = 1
    MaxRequested = 2
PROPERTIES
    HandlersEnd
