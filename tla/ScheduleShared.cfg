\* Two paths that meet at their second filter.
CONSTANTS
    Threads = {h1, h2}
    Producers = {}
    Filters = {"left", "right", "shared"}
    Paths = {"p", "q"}
    Gets <- SharedGets
    PathFilters <- SharedFilters
    m_paths <- TwoPaths
    RunQueue <- SharedQueue
    NoQueue = "none"
    HasAcquire = {}
    MayThrow = {}
    AcquireThrows = {}
    NEvents = 2
SPECIFICATION Spec
INVARIANT FiltersInSequence
CHECK_DEADLOCK FALSE
