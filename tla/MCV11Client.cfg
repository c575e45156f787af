\* Two requests, two retries each (the code makes three).
SPECIFICATION FairSpec
CONSTANTS
    Requests = {r1, r2}
    MaxRetries = 2
INVARIANTS
    LoadBounded
PROPERTIES
    RetriesWithFreshToken
    EveryRequestEnds
CHECK_DEADLOCK FALSE
