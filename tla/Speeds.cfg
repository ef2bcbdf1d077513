CONSTANTS
    a1 = a1  a2 = a2  s1 = s1  s2 = s2
    Arms = {a1, a2}
    Own = a1
    Scripts = {s1, s2}
    ArmOf <- Drives
    Gui = Gui
    Ratios <- Few
    Default = 40
    None = None
    Hasty = FALSE
    MaxSets = 2
    MaxFaults = 2
CHECK_DEADLOCK FALSE
SPECIFICATION FairSpec
INVARIANTS
    SpeedsInvariant
    SettledAgree
PROPERTIES
    SliderFollows
