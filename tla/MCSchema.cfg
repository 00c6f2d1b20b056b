CONSTANTS
    Node = {n1, n2}
    Doc = {"doc", "other"}
    Op = {"a", "b"}
    Requests <- MCRequests
    MaxTerm = 2
    Faults = {"late", "restart", "refused", "merge"}
SPECIFICATION SchemaSpec
SYMMETRY Symmetry
INVARIANTS SchemaTypeOK StampNamesOneEntry
