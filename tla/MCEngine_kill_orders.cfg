SPECIFICATION Spec
CONSTANTS
    p1 = p1
    p2 = p2
    h1 = h1
    h2 = h2
    Pairs = {p1}
    StartPairs = {p1}
    OrderSize = 2
    Presets <- MCBalanced
    PairConfigs <- MCConfigs
    Hedgers = {h1}
    MaxTicks = 1
    MaxHedges = 1
PROPERTIES
    NoOrdersWhileKilled
