\* Three tasks of two groups, two threads, two pauses (so that they can nest).
\* A behaviour ends when every task has run and every pause is used up.
CONSTANTS
    t1 = t1  t2 = t2  t3 = t3  g1 = g1  g2 = g2
    Threads = {h1, h2}
    Tasks <- MCTasks
    Groups <- MCGroups
    GroupOf <- MCGroupOf
    MaxPauses = 2
    NoTask = NoTask
    NoGroup = NoGroup
SPECIFICATION FairSpec
INVARIANTS TypeOK MutualExclusion NothingLost OnlyLostRaceStrands IndInv
PROPERTIES PauseStopsNewPicks ExecutorSpec PushExecutedUnlessLostRace
CHECK_DEADLOCK FALSE
