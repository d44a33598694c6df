SPECIFICATION Spec
CONSTANTS
    t1 = t1
    t2 = t2
    Targets = {t1, t2}
    Callers = {c1}
    None = None
    Backend <- MixedBackend
    Modes = {"SNAPSHOT"}
    Faults = {"operations"}
    Operations = {"configure", "start", "startAll", "stop"}
INVARIANTS
    StartSuffices
