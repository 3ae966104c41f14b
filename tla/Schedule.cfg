\* Two threads, two events, five modules on two paths.  A thread can be stopped
\* at any point of an event while the other does the rest of it and begins the
\* next.  A stream stops when it has failed or has no more events.
CONSTANTS
    Threads = {h1, h2}
    Producers = {"alpha", "beta", "gamma"}
    Filters = {"first", "left", "right"}
    Paths = {"p", "q"}
    Gets <- ChainGets
    PathFilters <- ChainFilters
    m_paths <- TwoPaths
    HasAcquire = {"beta"}
    MayThrow = {"alpha", "beta", "left"}
    AcquireThrows = {}
    RunQueue <- ChainQueue
    NoQueue = "none"
    NEvents = 2
SPECIFICATION FairSpec
INVARIANTS TypeOK GetsItsData QuietBetweenEvents
PROPERTIES StreamFairUnlessStranded
CHECK_DEADLOCK FALSE
