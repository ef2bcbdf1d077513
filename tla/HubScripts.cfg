CONSTANTS
    p1 = p1  s1 = s1  s2 = s2  w1 = w1  w2 = w2
    Ports = {p1}
    Arms = {p1}
    Scripts = {s1, s2}
    Workers = {w1, w2}
    None = None
    MaxAsked = 2
CHECK_DEADLOCK FALSE
SPECIFICATION Spec
INVARIANTS
    HubInvariant
    ScriptsSeen
