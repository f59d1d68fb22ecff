SPECIFICATION Spec
CONSTANTS
    Name <- MCName
    Package <- MCPackage
    Affinity <- MCAffinity
    Mode <- MCMode
    Entry <- MCEntry
    Home = "home"
    Prompt = TRUE
    Reliable = TRUE
    FinishOnce = TRUE
    HomeStays = TRUE
    SystemUI = {"ui"}
    UiNewTask = TRUE
    PostHome = FALSE
    MaxActivities = 4
    MaxTasks = 4
    MaxProcs = 3
    MaxRequests = 4
INVARIANTS
    ForegroundIsShown
CHECK_DEADLOCK FALSE
