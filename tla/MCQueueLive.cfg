\* No faults: two users, the creation of an item and two calls.
SPECIFICATION FairSpec
CONSTANTS
    Users = {u1, u2}
    Proposals = {p1}
    Calls = {c1, c2}
    ServiceUpdates = {}
    Creations = {p1}
    None = None
    InitialRanks = {4}
    MaxChanges = 0
    Faults = FALSE
PROPERTIES
    ResolutionsSettle
    TasksTellWhoActs
CHECK_DEADLOCK FALSE
