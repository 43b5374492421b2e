SPECIFICATION Spec
CONSTANTS
    Writers = {w1, w2}
    Cleaners = {c1, c2}
    Verifiers = {v}
    Window = 1
    MaxClock = 3
    None = None
SYMMETRY Symmetry
CHECK_DEADLOCK FALSE
INVARIANTS TypeOK ChainVerifies RecordedEventsStay QuietVerificationIsRight
