SPECIFICATION FairSpec
CONSTANTS
    MaxTurns = 2
    MaxText = 1
    MaxEvents = 3
    None = None
CHECK_DEADLOCK FALSE
INVARIANTS TypeOK CompletionMeansStored ShownIsStored
PROPERTIES SettledOnce TurnsSettle
