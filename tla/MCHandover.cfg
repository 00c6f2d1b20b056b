CONSTANTS
    Node <- MCNode
    Zone = {"a"}
    Part = {"p"}
    Score <- MCScore
    MaxScore = 3
    P = "p"
    ZoneOf <- MCZoneOf
    MaxVersion = 2
    Torn = TRUE
SPECIFICATION Spec
INVARIANT TypeOK
PROPERTY ZoneKeepsNewest
