SPECIFICATION Spec
CONSTANTS
    p1 = p1
    p2 = p2
    h1 = h1
    h2 = h2
    Pairs = {p1}
    StartPairs = {p1}
    OrderSize = 2
    Presets <- MCBalanced
    PairConfigs <- MCNoConfigs
    Hedgers = {h1, h2}
    MaxTicks = 2
    MaxHedges = 2
INVARIANTS
    BooksBalance
PROPERTIES
    LedgerKept
SYMMETRY HedgerSymmetry
