SPECIFICATION MCSpec
CONSTANTS
    j1 = j1
    r1 = r1
    u1 = u1
    j2 = j2
    Jobs = {j1}
    Slots = {w1}
    Routes = {r1}
    Users = {u1}
    RouteOf <- OneRoute
    UserOf <- OneUser
    NoCopy = NoCopy
    MaxAttempts = 2
    Threshold = 1
    Mishaps = {}
    MaxMishaps = 2
PROPERTY
    PermanentGoesDead
CHECK_DEADLOCK FALSE
