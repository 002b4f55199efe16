SPECIFICATION Spec
CONSTANTS
    b1 = b1
    b2 = b2
    u1 = u1
    u2 = u2
    c1 = c1
    a1 = a1
    a2 = a2
    s1 = s1
    s2 = s2
    s3 = s3
    noUrl = noUrl
    noSocket = noSocket
    noBot = noBot
    Bots = {b1, b2}
    Urls = {u1, u2}
    Clients = {c1}
    Alerts = {a1}
    SocketIds = {s1, s2}
    HistoryCap = 1
    MaxPayloads = 1
    MaxTopologies = 1
    NoUrl = noUrl
    NoSocket = noSocket
    NoBot = noBot
INVARIANTS
    TypeOK
    NoLeakedSocket
    RetryArmed
    ListenersAreOpen
    AnnouncedAreCurrent
SYMMETRY Symmetry
