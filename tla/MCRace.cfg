CONSTANTS
    Node <- MCNode
    Zone = {za}
    P = p
    Part = {p}
    Score <- MCScore
    MaxScore = 3
    Thread = {t1}
    Host <- MCHost
    MaxTerm = 3
    Worlds <- MCRaceWorlds
SPECIFICATION Spec
INVARIANT OneNodePerTerm
CHECK_DEADLOCK FALSE
