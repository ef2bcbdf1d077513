CONSTANTS
    script = script  other = other  robot = robot  panel = panel
    m1 = m1  m2 = m2   b1 = b1  s1 = s1  h1 = h1
    Moves = {m1}
    OutOfReach = {b1}
    Settings = {s1}
    Homings = {}
    None = None
    Threads <- SoloThreads
    Dobots <- SoloDobots
    DobotOf <- SoloDobotOf
    MaxDepth = 1
    MaxFailures = 0
SPECIFICATION SoloFairSpec
PROPERTIES
    CallsReturn
