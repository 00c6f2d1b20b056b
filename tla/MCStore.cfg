CONSTANTS
    Thread = {t1, t2}
    NoThread = none
    Key = {1, 2}
    Version <- MCVersion
    File <- MCFile
    Ops = {"write", "import", "clear"}
    Block = 4
    MaxBlocks = 6
SPECIFICATION ApartSpec
SYMMETRY Symmetry
INVARIANTS TypeOK TermRemembered
PROPERTIES TermNeverFalls CountsRise
