CONSTANTS
    Node <- MCNode
    Zone = {za}
    P = p
    Part = {p}
    Score <- MCScore
    MaxScore = 3
    Thread = {t1}
    Host <- MCHost
    MaxTerm = 3
    Worlds <- MCWorlds
SPECIFICATION Spec
INVARIANTS TypeOK FenceCovers NoFenceAboveClaims
PROPERTY PromiseKept
CHECK_DEADLOCK FALSE
