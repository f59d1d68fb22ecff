SPECIFICATION Spec
CONSTANTS
    Pid = {"home", "player", "radio"}
    Null = "null"
    Level <- MCLevel
    ServiceLevel <- MCServiceLevel
    Cfg <- MCCfg
    Arena = 20971520
    Memory <- MCMemory
INVARIANTS
    ListIsSound
    NeverUndefined
    RunningIsMonitored
PROPERTIES
    KeepsOrder
    LastShownIsSpared
    HomeKeepsPlace
