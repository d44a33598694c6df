SPECIFICATION Spec
CONSTANTS
    t1 = t1
    t2 = t2
    value = value
    delta = delta
    Targets = {t1, t2}
    Metrics = {value, delta}
    DeltaMetrics = {delta}
    Lifecycle = Lifecycle
    BatchSize = 2
    LastTick <- Uneven
    MaxEvents <- OneCropped
    Readings = {{value, delta}, {delta}}
    Windows <- Always
    Operations = {"read", "visit"}
    Faults = {}
    None = None
INVARIANT SnapshotIsOnlyAnOptimization
