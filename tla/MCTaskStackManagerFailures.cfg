SPECIFICATION Spec
CONSTANTS
    Name <- MCName
    Package <- MCPackage
    Affinity <- MCAffinity
    Mode <- MCTopMode
    Entry <- MCEntry
    Home = "home"
    Prompt = TRUE
    Reliable = FALSE
    FinishOnce = TRUE
    HomeStays = TRUE
    SystemUI = {}
    UiNewTask = TRUE
    PostHome = FALSE
    MaxActivities = 4
    MaxTasks = 3
    MaxProcs = 3
    MaxRequests = 2
INVARIANTS
    NeverUndefined
    StackedAreAlive
CHECK_DEADLOCK FALSE
