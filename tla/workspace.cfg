SPECIFICATION Spec
CHECK_DEADLOCK FALSE
CONSTANTS
    MaxVoice = 3
    MaxFragments = 3
    MaxDeviceEvents = 2
    MaxPolls = 1
    GatewayDevices = {lamp}
    PanelDevices = {light}
    MaxShellEvents = 4
    MaxLoads = 1
    MaxWrites = 2
    MaxSubmissions = 2
INVARIANTS
    PagesTypeOK
    NeverHearsItself
    AnswersAreHonest
    CompletedWorkIsReported
    SelectionIsSaved
    SavedIsShown
    ContactIsHonest
PROPERTIES
    SpeaksWholeAnswer
    ShownNeverGoesBack
    WritesAreAuthorised
    PagesSettle
