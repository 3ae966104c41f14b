\* As WaitingTaskList.cfg, with reset() as soon as every waiter has run.
CONSTANTS
    Threads = {h1, h2, h3}
    Waiters = {w1, w2, w3}
    InitialSize = 2
    MaxUses = 2
    Null = Null
SPECIFICATION EarlySpec
INVARIANT NoDanglingNode
SYMMETRY Symmetric
CHECK_DEADLOCK FALSE
