CONSTANTS
    script = script  other = other  robot = robot  panel = panel
    m1 = m1  m2 = m2   b1 = b1  s1 = s1  h1 = h1
    Moves = {m1}
    OutOfReach = {b1}
    Settings = {s1}
    Homings = {h1}
    None = None
    Threads <- SoloThreads
    Dobots <- SoloDobots
    DobotOf <- SoloDobotOf
    MaxDepth = 2
    MaxFailures = 1
SPECIFICATION SoloSpec
INVARIANTS
    TypeOK
    OkMeansDone
    HomeEndsAlarm
    IdleMeansDone
    BatchRuns
    BatchHeld
    AlarmDiscards
