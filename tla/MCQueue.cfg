\* Two users, one service update, two calls, one change of a role or setting.
SPECIFICATION Spec
CONSTANTS
    Users = {u1, u2}
    Proposals = {p1}
    Calls = {c1, c2}
    ServiceUpdates = {p1}
    Creations = {}
    None = None
    InitialRanks = {4}
    MaxChanges = 1
    Faults = TRUE
SYMMETRY Symmetric
INVARIANTS
    TypeOK
    ResolutionsAreTrue
    ApprovalsAreGated
PROPERTIES
    DecisionsKept
    RefinesLifecycle
CHECK_DEADLOCK FALSE
