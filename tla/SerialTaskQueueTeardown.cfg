\* Three tasks of two groups and the destructor's marker, two threads.
\* A behaviour ends with the destructor.
CONSTANTS
    t1 = t1  t2 = t2  t3 = t3  t4 = t4  g1 = g1  g2 = g2  g3 = g3
    Threads = {h1, h2}
    Destroyer = h1
    Marker = t4
    Tasks <- MCTasks
    Groups <- MCGroups
    GroupOf <- MCGroupOf
    MaxPauses = 1
    NoTask = NoTask
    NoGroup = NoGroup
SPECIFICATION TFairSpec
INVARIANTS WaitedMeansCompleted
PROPERTIES DestructorEnds
CHECK_DEADLOCK FALSE
