SPECIFICATION Spec
CONSTANTS
    Name <- MCName
    Package <- MCPackage
    Affinity <- MCAffinity
    Mode <- MCMode
    Entry <- MCEntry
    Home = "home"
    Prompt = TRUE
    Reliable = FALSE
    FinishOnce = TRUE
    HomeStays = TRUE
    SystemUI = {"ui"}
    UiNewTask = TRUE
    PostHome = FALSE
    MaxActivities = 4
    MaxTasks = 4
    MaxProcs = 3
    MaxRequests = 2
INVARIANTS
    NeverUndefined
    UiIsListed
CHECK_DEADLOCK FALSE
