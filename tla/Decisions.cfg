SPECIFICATION Spec
CONSTANTS
    BranchPolicies <- MCBranchPolicies
    BranchRequests <- MCBranchRequests
    MaxBranchTasks = 6
    MaxFailures = 1
    RankingPolicy <- MCRankingPolicy
    PriorityVotes <- MCPriorityVotes
    MaxPriorityVotes = 3
    MechanismPolicy <- MCMechanismPolicy
    RoundRequests <- MCRoundRequests
    Ballots <- MCBallots
    MaxU32 = 1000000
    PoolPolicies <- MCPoolPolicies
    Demands <- MCDemands
    InitialGoals <- MCInitialGoals
    PlanIds = {1, 2}
    NewGoal = 3
    GoalChanges <- MCGoalChanges
    MaxKeys = 5
    MaxMoves = 1
    Requests <- MCRequests
    ScenarioFiles <- MCScenarioFiles
    GatewayGoals = {1}
    MaxRuns = 1
INVARIANTS
    
    MoreEvidenceNeverHurts
    SubmittedInContext
    PassedIsSettled
    FixtureIsCoherent
PROPERTIES
    SelectionHasTheVotes
    DecidedRoundsStand
    PlanDoesNotOvershoot
    CancelWasArmed
CHECK_DEADLOCK FALSE
