CHECK_DEADLOCK FALSE
CONSTANTS

    Local = {l1}
    Remote = {r1}
    Conns = {k1, k2}
    None = None  Garbled = Garbled  Header = Header
    LateReplies = FALSE
    MaxRequests = 3
    MaxFaults = 2
SPECIFICATION FairSpec
INVARIANTS
    LinkInvariant
    OneFaultOneFailure
PROPERTIES
    CallsImplemented
    CallsEnd
    HandlersEnd
