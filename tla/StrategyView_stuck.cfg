CONSTANTS
    Strategies = {balanced, aggressive}
    Balanced = balanced
    WireCap = 2
    MaxSelections = 1
    MaxOthers = 1
    MaxTabs = 0
    MaxUsed = 2
    MaxFaults = 0
    None = None
SPECIFICATION FairSpec
PROPERTY ServerDataTakesOver
