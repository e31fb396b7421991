SPECIFICATION Spec
CONSTANTS
    c1 = c1
    c2 = c2
    w1 = w1
    w2 = w2
    Clients = {c1, c2}
    Managers = {}
    Main = main
    Watchdog = watchdog
    NoTask = NoTask
    Engines = {w1, w2}
    NoEngine = NoEngine
    Timeouts = {1}
    MinTimeout = 1
    MaxIdle = 1
    MaxAbandoned = 1
    Kinds = {"stream", "generate", "quick", "setmode"}
    ConfigModes = {"ondemand", "preload"}
    ModeInputs = {"ondemand", "preload", "turbo"}
    LoadMayFail = TRUE
SYMMETRY Symm
INVARIANTS NoOrphanedModel GenerationNeverLost UnloadedMeansNoEngine
