SPECIFICATION FairSpec
CONSTANT Configurations <- Jobs
INVARIANTS TypeOK GetsItsData OneAtATime QuietBetweenEvents
PROPERTY Finishes
CHECK_DEADLOCK FALSE
