\* As ScheduleDiamond.cfg, with a second event.
CONSTANTS
    Threads = {h1, h2}
    Producers = {"alpha", "beta"}
    Filters = {"first", "left", "right"}
    Paths = {"p", "q", "r"}
    Gets <- DiamondGets
    PathFilters <- DiamondFilters
    m_paths <- ThreePaths
    RunQueue <- DiamondQueue
    NoQueue = "none"
    HasAcquire = {}
    MayThrow = {}
    AcquireThrows = {}
    NEvents = 2
SPECIFICATION Spec
INVARIANT GetsItsData
CHECK_DEADLOCK FALSE
