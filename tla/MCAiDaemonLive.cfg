\* The manager, one client that may leave, changing modes and failing loads under fairness.
SPECIFICATION FairSpec
CONSTANTS
    c1 = c1
    c2 = c2
    w1 = w1
    w2 = w2
    Clients = {c1}
    Managers = {manager}
    Main = main
    Watchdog = watchdog
    NoTask = NoTask
    Engines = {w1, w2}
    NoEngine = NoEngine
    Timeouts = {1}
    MinTimeout = 1
    MaxIdle = 1
    MaxAbandoned = 1
    Kinds = {"generate", "stream", "setmode"}
    ConfigModes = {"always"}
    ModeInputs = {"always", "ondemand"}
    LoadMayFail = TRUE
PROPERTIES
    RequestsAnswered
    ReadyModelReleased
    ManagerLeavesUnloaded
