SPECIFICATION FairSpec
CONSTANTS
    Pid = {7, 8}
    Name = {"home", "player"}
    WithActivity = {"home", "player"}
    WithService = {"player"}
    Home = "home"
    Boot <- MCBoot
    SpawnSucceeds = FALSE
    Watcher = {"watcher"}
    Guest = {"guest"}
    MaxParts = 1
    MaxStale = 1
    MaxGuests = 1
INVARIANTS
    ListsAreSound
    TasksAwaitTheirProcess
    WatchersAgree
PROPERTIES
    LivesItsLife
    EveryProcessSettles
CHECK_DEADLOCK FALSE
