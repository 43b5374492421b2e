SPECIFICATION Spec
CONSTANTS
    lamp = lamp plug = plug both = both single = single weird = weird banned = banned
    Requests = {r1, r2}
    Keys = {k1, k2}
    Targets = {lamp, plug}
    Proposals = {both, single, weird, banned}
    TargetsOf <- MCTargetsOf
    Forbidden = {banned}
    Malformed = {weird}
    Changing = {}
    MaxAuditFailures = 2
    MaxCrashes = 0
    None = None
SYMMETRY Symmetry
CHECK_DEADLOCK FALSE
INVARIANT AuditFailureKeepsConfirmation
