SPECIFICATION MCSpec
CONSTANTS
    c1 = c1
    u1 = u1
    u2 = u2
    r1 = r1
    r2 = r2
    r3 = r3
    m1 = m1
    m2 = m2
    Chats = {c1}
    Users = {u1, u2}
    RouteIds = {r1, r2}
    Updates = {m1}
    Requests = {h1, h2}
    NoUpdate = NoUpdate
    ChatOf <- AllInOneChat
    UserOf <- Owners
    MessageOf <- Messages
    FilterOf <- Modes
    IgnoreBots = {r1}
    Mishaps = {"admin"}
    MaxMishaps = 1
PROPERTIES
    DisabledGroupIsSilent
