\* Two threads, one event in which two paths need the same producer at the
\* same time.  The stream stops after the event.
CONSTANTS
    Threads = {h1, h2}
    Producers = {"alpha", "beta"}
    Filters = {"first", "left", "right"}
    Paths = {"p", "q", "r"}
    Gets <- DiamondGets
    PathFilters <- DiamondFilters
    m_paths <- ThreePaths
    RunQueue <- DiamondQueue
    NoQueue = "none"
    HasAcquire = {}
    MayThrow = {"alpha", "right"}
    AcquireThrows = {}
    NEvents = 1
SPECIFICATION FairSpec
INVARIANT GetsItsData
PROPERTIES StreamFairUnlessStranded
CHECK_DEADLOCK FALSE
