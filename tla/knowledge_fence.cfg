SPECIFICATION Spec
CONSTANTS
    Docs = {d}
    Workers = {w1, w2}
    MaxAttempts = 2
    MaxRevision = 2
    MaxCrashes = 1
    Owner = Owner
    None = None
SYMMETRY Symmetry
PROPERTY PublicationIsFenced
