SPECIFICATION Spec
CHECK_DEADLOCK FALSE
CONSTANTS
    b1 = b1
    b2 = b2
    Bots = {b1, b2}
    Default = b1
    Names <- MCNames
    IdOf <- MCIdOf
    BotIds <- MCOwnIds
    LegacyIds = {"bot", "bot1", "bot-1"}
    Tables <- MCTables
    MaxRows = 1
    Budgets <- MCBudgets
    RelayCap = 2
    TickRows = 1
    PageSize = 1
INVARIANTS
    FillsAreOwn
