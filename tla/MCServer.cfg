CONSTANTS
    Session = {s1, s2}
    Call = {c1, c2}
SPECIFICATION FairSpec
INVARIANTS TypeOK OnlyWaitersAreCut StoreOutlivesUsers
PROPERTY ServingEnds
