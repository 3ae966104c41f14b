--------------------------- MODULE EventProcessor ---------------------------
(***************************************************************************)
(* processAll of the TBB framework: several streams, each with a Schedule  *)
(* and a task group of its own, take events from the source one by one;    *)
(* lastTask ends the job when nobody holds it any more; the main thread    *)
(* starts the streams and then waits for the groups, one after the other.  *)
(*                                                                         *)
(* What a stream does with an event is in Schedule.  Here an event may go  *)
(* once through the run queue that the streams share, and then ends, with  *)
(* an exception or without.                                                *)
(***************************************************************************)
EXTENDS Configuration

CONSTANT MaxConcurrentEvents

\* At least one event at a time: with none, processAll takes the first of no
\* task groups.
ASSUME EventProcessorAssumption ==
    /\ MaxConcurrentEvents \in Nat
    /\ \A c \in Configurations : /\ c.nSimultaneousEvents \in 1 .. MaxConcurrentEvents
                                 /\ c.nThreads \in Nat \ {0}
                                 /\ c.iterations \in Nat

VARIABLES
    capacity, buffer,   \* of the vector m_schedules: its size in memory, and
                        \* how often it has moved
    nEvents,            \* the counter of processAll's loops
    m_seenEvents,       \* of the source
    place,              \* for a stream: where it is
    pushed, serving,    \* the run queue: who waits in it, whose call it runs
    m_fatalJobErrorOccured,
    holders, failed, lastTask,
                        \* of lastTask: its reference count, whether it was told
                        \* of an exception, where it is
    handled             \* history: how often each event was taken

constructed == <<setup, constructions>>
memory  == <<m_schedules, capacity, buffer>>
streams == <<m_seenEvents, place, pushed, serving, m_fatalJobErrorOccured, handled>>
ending  == <<holders, failed, lastTask>>
vars == <<phase, constructed, memory, nEvents, streams, ending>>

iNumConcurrentEvents == pConfig.nSimultaneousEvents
Streams == 0 .. iNumConcurrentEvents - 1
Events  == 0 .. pConfig.iterations - 1

\* Modules that all streams use and that run one at a time.
ShareQueue  == \E id \in DOMAIN modules : modules[id].threadType # "kThreadSafeBetweenInstances"
SomeThrow   == \E id \in DOMAIN modules : modules[id].throws

None == -1
NotSpawned == [at |-> "held", group |-> None]

EPInit ==
    /\ Init
    /\ capacity = 1 /\ buffer = 0
    /\ nEvents = 0
    /\ m_seenEvents = 0
    /\ place = [s \in Streams |-> "none"]
    /\ pushed = <<>> /\ serving = None
    /\ m_fatalJobErrorOccured = FALSE
    /\ holders = 0 /\ failed = FALSE /\ lastTask = NotSpawned
    /\ handled = [i \in Events |-> 0]

SetupStep == /\ Setup
             /\ UNCHANGED <<capacity, buffer, nEvents, streams, ending>>

-----------------------------------------------------------------------------
(* What tasks there are. *)

\* The task group of s has a task that runs or will run.
Busy(s) == \/ place[s] \in {"work", "serve", "served", "next", "broken"}
           \/ lastTask.at \in {"spawned", "done"} /\ lastTask.group = s

\* With one thread, tasks run while that thread waits for a group.
TasksRun == pConfig.nThreads > 1 \/ (phase = "wait" /\ nEvents \in Streams /\ Busy(nEvents))

\* Somebody drops a holder of lastTask that spawns it in the group of s.
DropHolder(s) ==
    /\ holders' = holders - 1
    /\ lastTask' = IF holders = 1 THEN [at |-> "spawned", group |-> s] ELSE lastTask

-----------------------------------------------------------------------------
(* A stream. *)

\* SimpleSource::setEventInfo: the counter is atomic.
HasNextEvent == pConfig.iterations >= m_seenEvents + 1

\* Mutant of CountEvent: another thread may put back what it has read before.
CountEventLost(s) ==
    /\ m_seenEvents' \in {m_seenEvents, m_seenEvents + 1}
    /\ place' = [place EXCEPT ![s] = IF HasNextEvent THEN "work" ELSE "ended"]
    /\ handled' = IF HasNextEvent THEN [handled EXCEPT ![m_seenEvents] = @ + 1] ELSE handled

CountEvent(s) ==
    /\ m_seenEvents' = m_seenEvents + 1
    /\ place' = [place EXCEPT ![s] = IF HasNextEvent THEN "work" ELSE "ended"]
    /\ handled' = IF HasNextEvent THEN [handled EXCEPT ![m_seenEvents] = @ + 1] ELSE handled

\* handleNextEventAsync, from the recursiveTask of s.
NextEvent(s) ==
    /\ TasksRun
    /\ place[s] = "next"
    /\ CountEvent(s)
    /\ IF HasNextEvent THEN UNCHANGED <<holders, lastTask>> ELSE DropHolder(s)
    /\ UNCHANGED <<phase, constructed, memory, nEvents, pushed, serving,
                   m_fatalJobErrorOccured, failed>>

\* The recursiveTask of an event that failed: h.doneWaiting(*iPtr).
StreamFails(s) ==
    /\ TasksRun
    /\ place[s] = "broken"
    /\ place' = [place EXCEPT ![s] = "ended"]
    /\ failed' = TRUE
    /\ DropHolder(s)
    /\ UNCHANGED <<phase, constructed, memory, nEvents, m_seenEvents, pushed, serving,
                   m_fatalJobErrorOccured, handled>>

\* SerialTaskQueue::pickNextTask takes the first call and spawns it in its group.
pickNextTask(queue, where) ==
    /\ serving' = Head(queue)
    /\ pushed' = Tail(queue)
    /\ place' = [where EXCEPT ![Head(queue)] = "serve"]

\* Another thread can still be in pickNextTask for an earlier call.  It may have
\* chosen to pick when there is nothing to pick, and what is pushed then waits.
OthersPick == pConfig.nThreads > 1

\* SerialTaskQueue::push of a module's call: if no call is run, the queue spawns
\* the first one.  Else, or if another thread has the choice, s has no task any more.
Push(s) ==
    /\ TasksRun
    /\ ShareQueue
    /\ place[s] = "work"
    /\ LET queue == Append(pushed, s)
           where == [place EXCEPT ![s] = "queued"]
       IN \/ serving = None /\ pickNextTask(queue, where)
          \/ /\ serving # None \/ OthersPick
             /\ pushed' = queue /\ place' = where /\ UNCHANGED serving
    /\ UNCHANGED <<phase, constructed, memory, nEvents, m_seenEvents,
                   m_fatalJobErrorOccured, handled, ending>>

\* Mutant of Served: the queue is not asked for the next call.
ServedWithoutPick(s) ==
    /\ TasksRun
    /\ place[s] = "serve"
    /\ serving' = None /\ UNCHANGED pushed
    /\ place' = [place EXCEPT ![s] = "served"]
    /\ UNCHANGED <<phase, constructed, memory, nEvents, m_seenEvents,
                   m_fatalJobErrorOccured, handled, ending>>

\* The call ends; the queue spawns the next one in its own group.
Served(s) ==
    /\ TasksRun
    /\ place[s] = "serve"
    /\ LET where == [place EXCEPT ![s] = "served"]
       IN IF pushed = <<>>
            THEN serving' = None /\ place' = where /\ UNCHANGED pushed
            ELSE pickNextTask(pushed, where)
    /\ UNCHANGED <<phase, constructed, memory, nEvents, m_seenEvents,
                   m_fatalJobErrorOccured, handled, ending>>

\* The thread that had the choice looks at the queue again and finds the call.
\* Or it has looked before: the race of OnlyLostRaceStrands in SerialTaskQueue.
PickLate ==
    /\ OthersPick
    /\ serving = None /\ pushed # <<>>
    /\ pickNextTask(pushed, place)
    /\ UNCHANGED <<phase, constructed, memory, nEvents, m_seenEvents,
                   m_fatalJobErrorOccured, handled, ending>>

\* AllPathsDoneTask: the event ends.  Where a module throws it ends without
\* exception only if paths have ended early, after a fatal error.
EventEnds(s, exception) ==
    /\ TasksRun
    /\ place[s] \in {"work", "served"}
    /\ exception => SomeThrow
    /\ SomeThrow /\ ~exception => m_fatalJobErrorOccured
    /\ m_fatalJobErrorOccured' = (m_fatalJobErrorOccured \/ exception)
    /\ place' = [place EXCEPT ![s] = IF exception THEN "broken" ELSE "next"]
    /\ UNCHANGED <<phase, constructed, memory, nEvents, m_seenEvents, pushed, serving,
                   handled, ending>>

\* lastTask sets done ...
LastTask ==
    /\ TasksRun
    /\ lastTask.at = "spawned"
    /\ lastTask' = [lastTask EXCEPT !.at = "done"]
    /\ UNCHANGED <<phase, constructed, memory, nEvents, streams, holders, failed>>

\* ... and is deleted, and its group has no task any more.
LastTaskGone ==
    /\ TasksRun
    /\ lastTask.at = "done"
    /\ lastTask' = [lastTask EXCEPT !.at = "gone"]
    /\ UNCHANGED <<phase, constructed, memory, nEvents, streams, holders, failed>>

-----------------------------------------------------------------------------
(* The main thread in processAll. *)

\* Where a vector of some capacity has to be after a call.
Grows(size) == buffer' = IF size > capacity THEN buffer + 1 ELSE buffer

\* Mutant of Reserve: no memory is reserved.
ReserveNothing ==
    /\ phase = "reserve"
    /\ phase' = "loop" /\ nEvents' = 1
    /\ UNCHANGED <<constructed, memory, streams, ending>>

Reserve ==
    /\ phase = "reserve"
    /\ phase' = "loop" /\ nEvents' = 1
    /\ Grows(iNumConcurrentEvents)
    /\ capacity' = IF iNumConcurrentEvents > capacity THEN iNumConcurrentEvents ELSE capacity
    /\ UNCHANGED <<constructed, m_schedules, streams, ending>>

\* The stream of this turn of the loop: the first one comes last.
Current == IF nEvents < iNumConcurrentEvents THEN nEvents ELSE 0

\* The holder h of this turn.  If lastTask has been spawned already, it is one
\* of memory that is or will be free: what comes then is undefined.
MakeHolder ==
    /\ phase = "loop"
    /\ IF lastTask.at = "held"
         THEN /\ holders' = holders + 1
              /\ phase' = IF Current = 0 THEN "start" ELSE "clone"
         ELSE /\ phase' = "dangling" /\ UNCHANGED holders
    /\ UNCHANGED <<constructed, memory, nEvents, streams, failed, lastTask>>

\* m_schedules[0]->clone(), put behind the others.
CloneSchedule ==
    /\ phase = "clone"
    /\ phase' = "start"
    /\ m_schedules' = Append(m_schedules, Clone(m_schedules[1], nEvents + 1))
    /\ Grows(Len(m_schedules) + 1)
    /\ capacity' = IF Len(m_schedules) = capacity THEN 2 * capacity ELSE capacity
    /\ UNCHANGED <<constructed, nEvents, streams, ending>>

\* Mutant of StartStream: the stream has no holder of its own.
StartStreamUncounted ==
    /\ phase = "start"
    /\ phase' = "drop"
    /\ CountEvent(Current)
    /\ UNCHANGED <<constructed, memory, nEvents, pushed, serving, m_fatalJobErrorOccured, ending>>

\* handleNextEventAsync, called with a copy of h.
StartStream ==
    /\ phase = "start"
    /\ phase' = "drop"
    /\ CountEvent(Current)
    /\ holders' = IF HasNextEvent THEN holders + 1 ELSE holders
    /\ UNCHANGED <<constructed, memory, nEvents, pushed, serving,
                   m_fatalJobErrorOccured, failed, lastTask>>

\* The end of the turn: h goes.
EndTurn ==
    /\ phase = "drop"
    /\ DropHolder(Current)
    /\ IF nEvents < iNumConcurrentEvents
         THEN phase' = "loop" /\ nEvents' = nEvents + 1
         ELSE phase' = "wait" /\ nEvents' = 0
    /\ UNCHANGED <<constructed, memory, streams, failed>>

\* waitGroup.wait() returns when the group has no task.
WaitReturns ==
    /\ phase = "wait" /\ nEvents < iNumConcurrentEvents
    /\ ~Busy(nEvents)
    /\ nEvents' = nEvents + 1
    /\ UNCHANGED <<phase, constructed, memory, streams, ending>>

done == lastTask.at \in {"done", "gone"}

\* Mutant of Leave: all groups have been waited for, that is enough.
LeaveAtOnce ==
    /\ phase = "wait" /\ nEvents = iNumConcurrentEvents
    /\ nEvents' = nEvents
    /\ phase' = IF failed THEN "threw"
                ELSE IF \E s \in Streams : Busy(s) THEN "missing_wait" ELSE "returned"
    /\ UNCHANGED <<constructed, memory, streams, ending>>

\* All groups have been waited for: again, if done is not set.  Else the
\* exception is thrown again, or the groups are destroyed, and TBB throws
\* missing_wait if one of them has a task then.
Leave ==
    /\ phase = "wait" /\ nEvents = iNumConcurrentEvents
    /\ IF ~done
         THEN nEvents' = 0 /\ UNCHANGED phase
         ELSE /\ nEvents' = nEvents
              /\ phase' = IF failed THEN "threw"
                          ELSE IF \E s \in Streams : Busy(s) THEN "missing_wait" ELSE "returned"
    /\ UNCHANGED <<constructed, memory, streams, ending>>

-----------------------------------------------------------------------------
MainThread == \/ SetupStep
              \/ Reserve     \/ MakeHolder \/ CloneSchedule
              \/ StartStream \/ EndTurn    \/ WaitReturns   \/ Leave

StreamStep(s) == \/ NextEvent(s) \/ StreamFails(s)
                 \/ Push(s)      \/ Served(s)
                 \/ \E exception \in BOOLEAN : EventEnds(s, exception)

Ended == {"returned", "threw", "missing_wait", "exit"}

\* After "dangling" anything may happen: the model says nothing of it.
Next == /\ phase # "dangling"
        /\ \/ MainThread
           \/ \E s \in Streams : StreamStep(s)
           \/ PickLate
           \/ LastTask \/ LastTaskGone

Spec == EPInit /\ [][Next]_vars

\* The main thread goes on, and every task that is ready is run.  PickLate has no
\* fairness: nobody may come to look at the queue again.
FairSpec == /\ Spec
            /\ WF_vars(phase # "dangling" /\ MainThread)
            /\ \A s \in 0 .. MaxConcurrentEvents - 1 :
                  WF_vars(phase # "dangling" /\ s \in Streams /\ StreamStep(s))
            /\ WF_vars(phase # "dangling" /\ (LastTask \/ LastTaskGone))

-----------------------------------------------------------------------------
(* Properties. *)

TypeOK ==
    /\ phase \in Ended \cup {"filters", "producers", "paths", "finish", "reserve", "loop",
                             "clone", "start", "drop", "wait", "dangling"}
    /\ Len(m_schedules) \in 1 .. capacity
    /\ buffer \in 0 .. 1
    /\ nEvents \in 0 .. iNumConcurrentEvents
    /\ m_seenEvents \in 0 .. pConfig.iterations + iNumConcurrentEvents
    /\ place \in [Streams -> {"none", "work", "queued", "serve", "served", "next",
                              "broken", "ended"}]
    /\ Range(pushed) = {s \in Streams : place[s] = "queued"}
    /\ {s \in Streams : place[s] = "serve"} = {serving} \ {None}
    /\ m_fatalJobErrorOccured \in BOOLEAN
    /\ holders \in 0 .. iNumConcurrentEvents + 1
    /\ failed \in BOOLEAN
    /\ lastTask \in [at : {"held", "spawned", "done", "gone"}, group : Streams \cup {None}]

Started == {s \in Streams : place[s] # "none"}

\* processAll leaves its loop after all streams have ended, by throwing if and
\* only if one of them failed.  A group can have a task then: lastTask, which has
\* set done but is not gone; but only if a stream can be in a queue, with no task
\* in its group, when the main thread waits for that group.
ReturnsAfterAll ==
    phase \in Ended \ {"exit"} =>
        /\ \A s \in Streams : place[s] = "ended"
        /\ pushed = <<>> /\ serving = None
        /\ (phase = "threw") <=> m_fatalJobErrorOccured
        /\ phase = "missing_wait" => ShareQueue

\* Every event is processed by one stream, and if none fails all of them are.
EveryEventOnce ==
    /\ \A i \in Events : handled[i] <= 1
    /\ phase \in {"returned", "missing_wait"} => \A i \in Events : handled[i] = 1

\* lastTask runs when nobody holds it: when all streams that were started have
\* ended.  That more are to be started after that is the only way in which the
\* main thread comes to hold a task that has run.
LastTaskIsLast ==
    /\ lastTask.at # "held" => holders = 0 /\ \A s \in Started : place[s] = "ended"
    /\ phase = "dangling" => Started # Streams /\ \A s \in Started : place[s] = "ended"

\* m_schedules does not move in memory when a stream may look into it.
SchedulesStayPut == [][buffer' # buffer => Started = {}]_vars

\* main comes to an end, unless it holds a task that has run, or the run queue
\* loses the race and nobody pushes to it any more: with several threads a call
\* can stay in it though none is run.
StrandedCall == OthersPick /\ serving = None /\ pushed # <<>>

FinishesUnlessStranded == <>(phase \in Ended \cup {"dangling"}) \/ <>[]StrandedCall
=============================================================================
