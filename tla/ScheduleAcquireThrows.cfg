\* As ScheduleDiamond.cfg, with an acquire() that throws.
CONSTANTS
    Threads = {h1, h2}
    Producers = {"alpha", "beta"}
    Filters = {"first", "left", "right"}
    Paths = {"p", "q", "r"}
    Gets <- DiamondGets
    PathFilters <- DiamondFilters
    m_paths <- ThreePaths
    RunQueue <- DiamondQueue
    NoQueue = "none"
    HasAcquire = {"alpha"}
    MayThrow = {}
    AcquireThrows = {"alpha"}
    NEvents = 1
SPECIFICATION Spec
INVARIANT ExceptionHandedOn
CHECK_DEADLOCK FALSE
