SPECIFICATION FairSpec
CONSTANTS
    t1 = t1
    t2 = t2
    p1 = p1
    p2 = p2
    None = None
    Panel = Panel
    Threads = {t1, t2}
    Ports = {p1, p2}
    Arms = {p1}
    Explicit <- Asked
    Required = {}
    MaxStarts = 1
    MaxFaults = 1
INVARIANT RouteInvariant
PROPERTY ConnectHeals
CHECK_DEADLOCK FALSE
