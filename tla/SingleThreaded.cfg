SPECIFICATION FairSpec
CONSTANTS
    filters <- AllFilters
    producers <- AllProducers
    paths <- AllPaths
    iterations = 3
    UIntSize = 16
    MayReject = {"first", "timed"}
INVARIANTS TypeOK FreshData
PROPERTY StreamFairSpec
CHECK_DEADLOCK FALSE
