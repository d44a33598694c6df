SPECIFICATION Spec
CONSTANTS
    a = a
    d = d
    r = r
    Events = {a}
    Metrics = {d, r}
    EventOf <- OneEvent
    Kind <- RateAndResidency
    Rank <- Order
    Counter <- Resetting
    Offset = 1
    BatchSize = 2
    Microsecond = 1
    Faults = {"operations", "remove", "clock", "software", "timestamp"}
    Requests <- Either
    LastTime = 2
    MaxId = 3
    MaxStore = 3
    None = None
INVARIANTS
    TypeOK
    SamplesInOrder
    NoDeltaAcrossPause
    DeltasJoin
    RoutedRight
    ReplayIsComplete
    JoinInv
    PauseInv
    ReplayInv
