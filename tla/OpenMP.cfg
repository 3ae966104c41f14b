\* All jobs of MCOpenMP but those in which modules that are not thread safe get
\* data while they work.
SPECIFICATION FairSpec
CONSTANTS
    Configurations <- Jobs
    MayReject = {"rejecting"}
    ULongSize = 16
INVARIANTS TypeOK AssertionsHold
PROPERTY ProcessesAllUnlessStranded
CHECK_DEADLOCK FALSE
