CONSTANTS
    Call = {r1, r2}
    None = None
    Members = 2
    Connections = 4
    Cache = 1
SPECIFICATION ApartSpec
SYMMETRY Symmetry
INVARIANTS TypeOK OwnAnswer PoolIsSpare AsksEveryMember StopIsHeard
CHECK_DEADLOCK FALSE
