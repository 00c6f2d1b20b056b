CONSTANTS
    Node <- MCNode
    Zone = {za, zb, zc}
    Part <- MCPart
    Score <- MCScore
    MaxScore <- MCMaxScore
SPECIFICATION RegistrySpec
INVARIANTS LeaderHoldsCopy LoopFindsOwner
PROPERTIES OnlyItsShareMoves PreviousHolderIsAsked
