CONSTANTS
    Node <- MCNode
    Zone = {za, zb}
    Part <- MCPart
    Score <- MCScore
    MaxScore = 1
    Self = 1
    SelfZone = za
    Attempts = 2
    MaxGeneration = 4
    MaxRegistrations = 1
    Piece = {1, 2}
    MaxFiles = 3
SPECIFICATION ReconcileSpec
INVARIANTS TypeOK WalkTypeOK WholeIsTaken
PROPERTIES VouchedHeldThroughout ChangeIsTried WalkEnds
