SPECIFICATION MCSpec
CONSTANTS
    j1 = j1
    r1 = r1
    u1 = u1
    j2 = j2
    Jobs = {j1}
    Slots = {w1, w2}
    Routes = {r1}
    Users = {u1}
    RouteOf <- OneRoute
    UserOf <- OneUser
    NoCopy = NoCopy
    MaxAttempts = 2
    Threshold = 2
    Mishaps = {"overrun", "crash", "database", "reply", "admin"}
    MaxMishaps = 2
INVARIANTS
    TypeOK
    NoStrandedJob
    NoFalseSuccess
    DeadLetterEarned
    OneCurrentCopy
    DuplicateHasCause
    NoHollowMessage
PROPERTIES
    FinishedIsFinal
    ImplementsPromise
SYMMETRY Symmetry
CHECK_DEADLOCK FALSE
