CONSTANTS
    Commands = {c1, c2}
    Gateways = {g1}
    None = None
    MaxPolls = 1
    MaxFaults = 1
SPECIFICATION FairSpec
PROPERTIES
    CallersReturn
    QueueKeepsMoving
    SettlesWithoutFaults
