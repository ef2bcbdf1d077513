CONSTANTS
    script = script  other = other  robot = robot  panel = panel
    m1 = m1  m2 = m2   b1 = b1  s1 = s1  h1 = h1
    Moves = {m1}
    OutOfReach = {b1}
    Settings = {}
    Homings = {h1}
    None = None
    Threads <- PairThreads
    Dobots <- PairDobots
    DobotOf <- PairDobotOf
    MaxDepth = 0
    MaxFailures = 1
SPECIFICATION PanelSpec
INVARIANTS
    OkMeansDone
    IdleMeansDone
    HomeEndsAlarm
