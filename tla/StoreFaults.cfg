SPECIFICATION Spec
CONSTANTS
    t1 = t1
    t2 = t2
    value = value
    delta = delta
    Targets = {t1, t2}
    Metrics = {value, delta}
    DeltaMetrics = {delta}
    Lifecycle = Lifecycle
    BatchSize = 2
    LastTick <- Uneven
    MaxEvents <- OneCropped
    Readings = {{value, delta}, {delta}}
    Windows <- SecondTick
    Operations = {"read", "visit", "get", "crop", "rollback"}
    Faults = {"collector", "clock", "remove", "start", "pause", "stop", "write", "crop"}
    None = None
INVARIANTS
    TypeOK
    KeptInv
    AcceptedAreKept
    MemoryIsBounded
    UncachedStaysInMemory
    SnapshotIsFresh
PROPERTIES
    FirstOutputIsComplete
    ImplementsLog
