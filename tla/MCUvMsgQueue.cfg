SPECIFICATION FairSpec
CONSTANTS
    Loop = {"main", "io", "log"}
    Task = {"start", "stop", "load", "line"}
    RunsOn <- MCRunsOn
    Posts <- MCPosts
    Stopping = {"stop"}
    None = "none"
    MaxPosts = 4
INVARIANTS
    NobodyWaitsForEver
PROPERTIES
    KeepsOrder
    EveryTaskRuns
CHECK_DEADLOCK FALSE
