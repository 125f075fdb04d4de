SPECIFICATION Spec
CONSTANTS
    Handlers = {h1, h2}
    Ids = {1, 2}
    Requests <- Requested
    MaxAttempts = 2
    MaxCalls = 3
    MaxCrashes = 1
    EmailOutboxDir = FALSE
INVARIANTS
    RestartShowsTheSame
    AcknowledgedStays
    UnreachedStaysVisible
SYMMETRY Symmetry
