SPECIFICATION FairSpec
CONSTANTS
    lamp = lamp plug = plug both = both single = single weird = weird banned = banned
    Requests = {r1, r2, r3}
    Keys = {k1}
    Targets = {lamp, plug}
    Proposals = {both, single, weird, banned}
    TargetsOf <- MCTargetsOf
    Forbidden = {banned}
    Malformed = {weird}
    Changing = {plug}
    MaxAuditFailures = 1
    MaxCrashes = 1
    None = None
CHECK_DEADLOCK FALSE
INVARIANTS TypeOK PerformedOncePerKey RepliesAreTrue
PROPERTIES KeepsActionPromise ClaimsAreSettled
