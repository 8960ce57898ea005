SPECIFICATION FairSpec
CONSTANTS
    Nobody = Nobody
    Readers = {a1, a2}
    Writers = {w1}
    TTL = 2
    MaxLoad = 1
    Faults = TRUE
    MaxWrites = 2
    MaxTime = 3
INVARIANTS
    TypeOK
    FreshBound
PROPERTIES
    RegisterSpec
    GetReturns
