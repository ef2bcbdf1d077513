CHECK_DEADLOCK FALSE
SPECIFICATION FairSpec
CONSTANTS
    s1 = s1
    s2 = s2
    None = None
    Streams = {s1, s2}
    WatchdogFailures = 2
    Flaps = FALSE
    MaxFaults = 1
    MaxPosted = 1
INVARIANTS
    PanelInvariant
    JogHasButton
PROPERTIES
    AnswerShown
    AlarmShown
    ClosedIsQuiet
    SilenceNoticed
