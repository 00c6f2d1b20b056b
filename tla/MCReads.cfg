CONSTANTS
    Node = {a, b, x}
    Copies = {a, b}
    Keys = 3
    Drawn = {i1}
    MaxDeaths = 2
    Tasks <- MCTasks
SPECIFICATION ReadsSpec
INVARIANTS ReadsTypeOK NotFoundIsTrue ScanIsExact PiecesCover
CHECK_DEADLOCK FALSE
