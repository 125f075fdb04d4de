SPECIFICATION Spec
CONSTANTS
    Runners <- TwoRunners
    Registration <- TwoRegistrations
    Tasks <- OneTask
    Coordinator = "unset"
    AllowStub = FALSE
    MaxU32 = 1000000
    MaxTime = 1
    MaxFaults = 1
    MaxAttempts = 2
    MaxBeats = 1
    MemoryRequests <- MCMemoryRequests
    MaxMemoryCalls = 3
    MaxMemoryInFlight = 2
    MaxMemoryFaults = 1
    SandboxConfig <- MCSandboxConfig
    ToolConfig <- MCToolConfig
    WorkspaceRequests <- MCWorkspaceRequests
    MaxWorkspaceCalls = 4
    MaxWorkspaceInFlight = 2
    MaxWorkspaceFaults = 1
INVARIANTS
    RestartShowsTheSame
    ResultNamesItsAuthor
    MemoryRestartShowsTheSame
    RepairHeals
    EditReplaces
    RunningWasPlannable
    CreateHeals
PROPERTIES
    LeaseHonoured
CHECK_DEADLOCK FALSE
