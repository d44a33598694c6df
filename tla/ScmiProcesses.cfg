SPECIFICATION Spec
CONSTANTS
    P = P
    Q = Q
    p1 = p1
    p2 = p2
    p3 = p3
    q1 = q1
    s1 = s1
    s2 = s2
    s3 = s3
    a = a
    b = b
    x = x
    y = y
    Processes = {P, Q}
    Sockets = {s1, s2, s3}
    Events = {a, b, x, y}
    Collectors = {p1, p2, p3, q1}
    ProcessOf <- Process
    SocketOf <- Socket
    Ioctl = {p3}
    Wanted <- WantedBy
    Parties <- TogetherOrAlone
    Stamped = {a, b, x}
    ReadOnly <- TelemetryReadOnly
    InitiallyOn <- SomeOn
    SoftwareClock = {TRUE, FALSE}
    Faults = {"read", "lock", "write", "rate", "operation", "crash"}
    MaxFaults = 1
    None = None
INVARIANTS
    TypeOK
    LockFollowsReferences
    OwnChangesStayOn
    EventsAreRestored
    IdleOwesNothing
