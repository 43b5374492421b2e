CONSTANTS
    Commands = {c1, c2}
    Gateways = {g1, g2}
    None = None
    MaxPolls = 1
    MaxFaults = 1
SPECIFICATION Spec
SYMMETRY Symmetry
INVARIANTS
    TypeOK
    SentAtMostOnce
    ToldResultStands
PROPERTIES
    KeepsPromise
    SentInOrder
