SPECIFICATION MCSpec
CONSTANTS
    c1 = c1
    u1 = u1
    u2 = u2
    r1 = r1
    r2 = r2
    i1 = i1
    i2 = i2
    Chats = {c1}
    Users = {u1, u2}
    RouteIds = {r1, r2}
    Invites = {i1, i2}
    Requests = {h1, h2}
    NoLink = NoLink
    ChatOf <- AllInOneChat
    UserOf <- Owners
    ScopeOf <- ScopesOf
    Links <- BothWays
    Mishaps = {"fault", "crash", "admin", "report"}
    MaxMishaps = 2
INVARIANTS
    TypeOK
    OneUsePerInvite
    StrangersStayOut
    RoutesAreGranted
PROPERTIES
    RevokedIsFinal
SYMMETRY Symmetry
