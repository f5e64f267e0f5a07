SPECIFICATION MCSpec
CONSTANTS
    Sections = {"MAX Users", "Invites", "Routes", "Delivery Queue"}
    Ids = {1, 2}
    OptionIds = {1}
    Slots = {k1, k2}
    None = None
INVARIANTS
    TypeOK
    NeverOutOfRange
    ActionsFitTheirRecords
PROPERTIES
    DangerIsConfirmed
    MenuKeepsItsRecord
SYMMETRY Symmetry
