\* An apply over a connection without a write API version.
SPECIFICATION Spec
CONSTANTS
    Users = {u1, u2}
    Proposals = {p1}
    Calls = {c1, c2}
    ServiceUpdates = {p1}
    Creations = {}
    None = None
    InitialRanks = {4}
    MaxChanges = 0
    Faults = FALSE
SYMMETRY Symmetric
INVARIANT NotAllowedLeavesPending
CHECK_DEADLOCK FALSE
