SPECIFICATION Spec
CONSTANTS
    d1 = d1
    d2 = d2
    r1 = r1
    p1 = p1
    p2 = p2
    Browsers = {d1, d2}
    Remote = {r1}
    Start <- MCStart
    Stored <- MCStored
    MaxBots = 3
    MaxPosts = 2
    Plans <- MCPlans
    None = None
    Scripts <- MCScripts
    PanelPlans <- MCPanelPlans
    NoData = NoData
    Operators = {d1, d2}
    Pairs = {p1}
    Decimals = {1, 2}
    Invalid = 0
    StartDecimal = 1
    ControlPlans <- MCControlPlans
    Unknown = Unknown
    Sheets <- MCSheets
    Readings <- MCReadings
    MaxMoves = 4
    NoFigure = NoFigure
    TablePages <- MCTablePages
    NoValue = NoValue
    Maps <- MCMaps
    LookupOf <- MCLookupOf
    KnownExchanges = {"known"}
    MaxShown = 2
    MaxLookups = 1
    NoPlace = NoPlace
SYMMETRY Symmetry
CHECK_DEADLOCK FALSE
INVARIANTS
    TopologiesWellFormed
    RefusedForFields
    DisconnectedIsMarked
    NeverBackwards
    LogTellsState
    KillSwitchObeyed
    AlertsAreBreaches
    TopBreachesAreTheWorst
    TableShowsPage
    MarkersFollowTopology
    NoMarkerHidden
PROPERTIES
    PlacesSurvive
    DropsExplained
    SavesOwnEdits
