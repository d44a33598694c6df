SPECIFICATION Spec
CONSTANTS
    a = a
    d = d
    r = r
    Events = {a}
    Metrics = {d, r}
    EventOf <- OneEvent
    Kind <- DeltaAndValue
    Rank <- Order
    Counter <- Rising
    Offset = 1
    BatchSize = 2
    Microsecond = 1
    Faults = {}
    Requests <- JustOne
    LastTime = 2
    MaxId = 2
    MaxStore = 4
    None = None
INVARIANTS
    PauseSplitsDeltas
