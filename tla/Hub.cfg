CONSTANTS
    p1 = p1  p2 = p2  w1 = w1  w2 = w2
    Ports = {p1, p2}
    Arms = {p1, p2}
    Scripts = {}
    Workers = {w1, w2}
    None = None
    MaxAsked = 3
CHECK_DEADLOCK FALSE
SPECIFICATION FairSpec
INVARIANTS
    HubInvariant
    TagTrue
PROPERTIES
    NamesKept
    RefreshAnswered
