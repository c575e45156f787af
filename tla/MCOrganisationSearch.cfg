\* Every page of up to 3, of every list of up to 6 ids in pages of up to 3;
\* three pages read at a time, and two ids per list request.
SPECIFICATION FairSpec
CONSTANTS
    Totals = {0, 1, 2, 3, 4, 5, 6}
    PageSizes = {1, 2, 3}
    Pages = {1, 2, 3}
    Sizes = {0, 1, 2, 3}
    BatchSize = 2
    Concurrency = 3
    Failing = {1, 2}
    NoResult = NoResult
INVARIANTS
    MapsInOrder
    SearchIsExact
PROPERTIES
    SearchEnds
CHECK_DEADLOCK FALSE
