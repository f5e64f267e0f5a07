SPECIFICATION MCFairSpec
CONSTANTS
    j1 = j1
    r1 = r1
    u1 = u1
    j2 = j2
    Jobs = {j1, j2}
    Slots = {w1}
    Routes = {r1}
    Users = {u1}
    RouteOf <- OneRoute
    UserOf <- OneUser
    NoCopy = NoCopy
    MaxAttempts = 2
    Threshold = 1
    Mishaps = {"overrun", "crash", "database", "reply"}
    MaxMishaps = 3
PROPERTIES
    EveryJobSettles
    LoopComesBack
CHECK_DEADLOCK FALSE
