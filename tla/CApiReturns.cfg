SPECIFICATION FairSpec
CONSTANTS
    t1 = t1
    t2 = t2
    Targets = {t1, t2}
    Callers = {c1}
    None = None
    Backend <- MixedBackend
    Modes = {"SAMPLING", "SNAPSHOT"}
    Faults = {"configure", "operations", "marker", "restore", "files", "clock"}
    Operations = {"configure", "reset", "start", "startPaused", "pause", "resume", "stop", "read", "startAll", "startAllPaused"}
PROPERTIES
    CallsReturn
