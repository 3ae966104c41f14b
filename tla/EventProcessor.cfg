\* All of what finishSetup can find with four modules, a job with every class of
\* module, and jobs with up to three streams and three events.  A job ends, unless
\* a call is stranded in the run queue.
SPECIFICATION FairSpec
CONSTANTS
    Configurations <- Jobs
    MaxConcurrentEvents = 3
INVARIANTS TypeOK ModuleHasOneQueue SchedulesAreApart WaitsForWhatOthersAsk ReturnsAfterAll EveryEventOnce LastTaskIsLast
PROPERTIES SchedulesStayPut FinishesUnlessStranded
CHECK_DEADLOCK FALSE
