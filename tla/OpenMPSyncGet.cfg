\* The job in which they do.
SPECIFICATION FairSpec
CONSTANTS
    Configurations <- UnsafeSyncGet
    MayReject = {}
    ULongSize = 16
INVARIANT SyncGetGetsData
CHECK_DEADLOCK FALSE
