SPECIFICATION FairSpec
CONSTANTS
    Docs = {d}
    Workers = {w}
    MaxAttempts = 3
    MaxRevision = 3
    MaxCrashes = 2
    Owner = Owner
    None = None
PROPERTIES IndexedStays JobsEnd NothingIsLeftBehind
