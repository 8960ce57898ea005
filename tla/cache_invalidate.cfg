SPECIFICATION Spec
CONSTANTS
    Nobody = Nobody
    Readers = {a1, a2}
    Writers = {w1}
    TTL = 2
    MaxLoad = 1
    Faults = FALSE
    MaxWrites = 1
    MaxTime = 1
INVARIANTS
    NextGetReloads
