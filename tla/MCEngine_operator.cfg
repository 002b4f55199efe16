SPECIFICATION Spec
CONSTANTS
    p1 = p1
    p2 = p2
    h1 = h1
    h2 = h2
    Pairs = {p1, p2}
    StartPairs = {p1}
    OrderSize = 2
    Presets <- MCBalanced
    PairConfigs <- MCConfigs
    Hedgers = {}
    MaxTicks = 1
    MaxHedges = 0
INVARIANTS
    TypeOK
    FillsCovered
PROPERTIES
    QuotesAsPromised
    TickNeverExposes
