SPECIFICATION Spec
CONSTANTS
    Pid = {7, 8}
    Name = {"home", "player"}
    WithActivity = {"home", "player"}
    WithService = {"player"}
    Home = "home"
    Boot <- MCBootHome
    SpawnSucceeds = TRUE
    Watcher = {"watcher"}
    Guest = {"guest"}
    MaxParts = 1
    MaxStale = 1
    MaxGuests = 1
PROPERTIES
    BootIsStarted
CHECK_DEADLOCK FALSE
