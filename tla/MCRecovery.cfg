SPECIFICATION RecoverySpec
CONSTANTS
    p1 = p1
    p2 = p2
    b1 = b1
    u1 = u1
    u2 = u2
    s1 = s1
    s2 = s2
    noUrl = noUrl
    noSocket = noSocket
    noBot = noBot
    Strategies = {balanced, aggressive}
    Balanced = balanced
    WireCap = 1
    MaxSelections = 2
    MaxOthers = 1
    MaxTabs = 1
    MaxUsed = 3
    MaxFaults = 1
    None = None
    Sections = {"fills"}
    Clearable = {"fills"}
    RowsPerPage = 1
    HistoryRows = 2
    LastPage = 3
    HistoryPlans <- MCHistoryPlans
    NoAnswer = NoAnswer
INVARIANTS
    TypeOK
    ConfirmedIsShown
    AnswersKeepTheirPage
    PastEndExplained
PROPERTIES
    KillSwitchQuiesces
    PauseQuiesces
    Reconnects
    Converges
    PagesCatchUp
