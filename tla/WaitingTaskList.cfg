\* Three threads (two concurrent adders and the one that calls doneWaiting, or
\* two announcers and an adder), one waiter more than the cache has nodes, and
\* two more uses: one after the reset() that expands the cache, and one after
\* a reset() that does not have to.
\* A behaviour ends when all uses are over.
CONSTANTS
    Threads = {h1, h2, h3}
    Waiters = {w1, w2}
    InitialSize = 1
    MaxUses = 3
    Null = Null
SPECIFICATION FairSpec
INVARIANTS TypeOK NoDanglingNode NothingLeftOver
PROPERTIES SignalFairSpec
CHECK_DEADLOCK FALSE
