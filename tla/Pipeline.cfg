SPECIFICATION MCPFairSpec
CONSTANTS
    c1 = c1
    u1 = u1
    u2 = u2
    r1 = r1
    r2 = r2
    r3 = r3
    m1 = m1
    m2 = m2
    Chats = {c1}
    Users = {u1, u2}
    RouteIds = {r1, r2, r3}
    Updates = {m1}
    Requests = {h1, h2}
    NoUpdate = NoUpdate
    ChatOf <- AllInOneChat
    UserOf <- Owners
    MessageOf <- Messages
    FilterOf <- AllModes
    IgnoreBots = {r1}
    Mishaps = {"fault", "crash", "admin", "prune", "contention", "retire"}
    MaxMishaps = 1
    MaxAttempts = 1
INVARIANTS
    NothingLost
    TwiceHasCause
PROPERTIES
    EveryUpdateSettles
