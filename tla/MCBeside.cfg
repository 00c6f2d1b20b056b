CONSTANTS
    n3 = n3
    n1 = n1
    n2 = n2
    Node = {n3, n1, n2}
    Copies = {n1, n2}
    Write = {w1, w2}
    MaxTerm = 2
    MaxCount = 2
SPECIFICATION Spec
SYMMETRY Symmetry
INVARIANT AnsweredInOrder
CHECK_DEADLOCK FALSE
