------------------------------- MODULE OpenMP -------------------------------
(***************************************************************************)
(* The framework on OpenMP.  main builds the job as Configuration says,    *)
(* but never calls finishSetup.  processAll is one parallel region: what   *)
(* is spawned are tasks of its team, and it ends when none is left.        *)
(* A module that gets data by its label opens a region of its own while    *)
(* it works, and waits for the tasks of that team.                         *)
(*                                                                         *)
(* A wrapper is a pair of a stream and a datum, which is a label and a     *)
(* product; the one of a filter has no product.  What a thread does is a   *)
(* sequence of the calls it has still to make.                             *)
(***************************************************************************)
EXTENDS Configuration, BagsExt

CONSTANTS
    MayReject,      \* the filters that may reject an event
    ULongSize       \* how many values an unsigned long has

\* Labels differ, and there are classes for what they say.
ASSUME OpenMPAssumption ==
    /\ ULongSize \in Nat \ {0}
    /\ \A c \in Configurations :
          /\ \A i, j \in DOMAIN (c.filters \o c.producers) :
                (c.filters \o c.producers)[i].label = (c.filters \o c.producers)[j].label => i = j
          /\ c.iterations \in Nat /\ c.nSimultaneousEvents \in Nat

VARIABLES
    omp,            \* OpenMP's running tasks, the references to tasks, which
                    \* tasks were told of an exception, and the run queues
    m_workStarted, m_keep, m_wasCached,
                    \* the wrappers of which each is true
    lists,          \* the WaitingTaskLists, of wrappers and of paths
    m_fatalJobErrorOccured,
    m_seenEvents,   \* of the source
    runs, completed, threw
                    \* history: how often a wrapper's module has worked in the
                    \* event, how many events are over, has a module thrown

wrapperState == <<m_workStarted, m_keep, m_wasCached, lists>>
processing == <<m_fatalJobErrorOccured, m_seenEvents, completed>>
history    == <<runs, threw>>
build == <<setup, m_schedules, constructions>>
vars  == <<phase, build, omp, wrapperState, processing, history>>

-----------------------------------------------------------------------------
(* Tasks.  A WaitingTaskHolder counts as a reference; the task whose last one *)
(* goes is spawned.  eventLoopWaitTask and the doneTask of a get are kept by  *)
(* whoever made them, and never are.                                          *)

RunTask(w)        == <<"run", w>>           \* of doWorkAsync, after prefetching
NextTask(s, p, i) == <<"next", s, p, i>>    \* of runFilterAsync
AllPathsDone(s)   == <<"paths", s>>         \* of processAsync
RecursiveTask(s)  == <<"event", s>>         \* of handleNextEventAsync
GetTask(w, key)   == <<"get", w, key>>
LoopTask          == <<"loop">>

IsKept(t) == t[1] \in {"get", "loop"}

\* An OpenMP task of some team.
spawn(d, team, calls) == [d EXCEPT !.running = BagAdd(@, [team |-> team, calls |-> calls])]

\* FunctorWaitingTask::doSpawn looks at its own exceptionPtr.
doSpawn(d, t) == <<[op |-> t[1], task |-> t, exception |-> t \in d.told]>>

dependentTaskFailed(d, t) == [d EXCEPT !.told = @ \cup {t}]

\* A new holder of a task, and the copy of one.
Hold(d, t) == [d EXCEPT !.holders = BagAdd(@, t)]

\* WaitingTaskHolder::doneWaiting, by a thread of some team.
doneWaiting(d, team, t, exception) ==
    LET told == IF exception THEN dependentTaskFailed(d, t) ELSE d
        gone == [told EXCEPT !.holders = BagRemove(@, t)]
    IN IF IsKept(t) THEN told
       ELSE IF CopiesIn(t, gone.holders) > 0 THEN gone
       ELSE spawn([gone EXCEPT !.told = @ \ {t}], team, doSpawn(told, t))

-----------------------------------------------------------------------------
(* SerialTaskQueue.  Each call is one step: its steps, and what can happen   *)
(* between them, are in the module of that name.  What a pick can do to a    *)
(* push meanwhile is kept: it holds m_taskChosen, finds no task, and the     *)
(* pushed one, which came after that, is left in the queue.  History of a    *)
(* queue: how many tasks have finished, counted up to two, and whether what  *)
(* is in it was left there.                                                  *)

NewQueue == [m_tasks |-> <<>>, m_taskChosen |-> FALSE, m_pauseCount |-> 0,
             finished |-> 0, left |-> FALSE]

QueueOf(d, q) == IF q \in DOMAIN d.queues THEN d.queues[q] ELSE NewQueue
SetQueue(d, q, r) == [d EXCEPT !.queues = Join(@, [x \in {q} |-> r])]

\* QueuedTask::doSpawn: the action, and then the queue goes on.
QueuedTask(q, action) == action \o <<[op |-> "finished", queue |-> q]>>

\* The task that is picked is spawned.
pickNextTask(d, team, q) ==
    LET r == QueueOf(d, q)
    IN IF r.m_pauseCount = 0 /\ ~r.m_taskChosen /\ r.m_tasks # <<>>
         THEN spawn(SetQueue(d, q, [r EXCEPT !.m_taskChosen = TRUE, !.m_tasks = Tail(@),
                                             !.left = FALSE]),
                    team, Head(r.m_tasks))
         ELSE d

\* A thread may be where its pick has seen a task that is no longer there: that
\* task has finished, and one before it, for whose end the pick was begun.
MayBeLeft(r) == r.m_pauseCount = 0 /\ ~r.m_taskChosen /\ r.finished = 2

\* What pushTask can lead to.
pushTask(d, team, q, task) ==
    LET r == [QueueOf(d, q) EXCEPT !.m_tasks = Append(@, task)]
    IN {pickNextTask(SetQueue(d, q, r), team, q)}
          \cup IF MayBeLeft(r) THEN {SetQueue(d, q, [r EXCEPT !.left = TRUE])} ELSE {}

push(d, team, q, action) == pushTask(d, team, q, QueuedTask(q, action))

\* Mutant of finishedTask: m_taskChosen is not cleared.
finishedTaskUncleared(d, team, q) == pickNextTask(d, team, q)

finishedTask(d, team, q) ==
    pickNextTask(SetQueue(d, q, [QueueOf(d, q) EXCEPT
        !.m_taskChosen = FALSE, !.finished = IF @ < 2 THEN @ + 1 ELSE @]), team, q)

resume(d, team, q) ==
    LET r == QueueOf(d, q)
        resumed == [r EXCEPT !.m_pauseCount = (@ + ULongSize - 1) % ULongSize]
    IN IF resumed.m_pauseCount = 0
         THEN pickNextTask(SetQueue(d, q, resumed), team, q)
         ELSE SetQueue(d, q, resumed)

-----------------------------------------------------------------------------
(* The parts of a Schedule. *)

Schedules == DOMAIN m_schedules
NPaths(s) == Len(m_schedules[s].m_paths)

\* Entries of an Event's lookup, with their producers' wrappers.
Data(s) == {s} \X DOMAIN m_schedules[s].m_lookupMap

label(filterWrapper) == modules[filterWrapper.m_module].label
FilterWrappers(s) ==
    {<<s, <<label(f), "">>>> : f \in Range(m_schedules[s].m_filters)}

WrapperOf(w) ==
    IF w \in Data(w[1]) THEN m_schedules[w[1]].m_lookupMap[w[2]]
    ELSE CHOOSE f \in Range(m_schedules[w[1]].m_filters) : label(f) = w[2][1]

moduleOf(w) == modules[WrapperOf(w).m_module]
runQueue(w) == WrapperOf(w).m_runQueue

\* The filters of a path, FilterOnPathWrappers, by their index.
m_filter(s, p, i) ==
    LET f == m_schedules[s].m_paths[p][i]
    IN <<f.schedule, <<label(m_schedules[f.schedule].m_filters[f.filter]), "">>>>
NFilters(s, p) == Len(m_schedules[s].m_paths[p])

m_callback(s, p) == <<"path", s, p>>

NewList == [m_waiting |-> TRUE, m_exceptionPtr |-> FALSE, tasks |-> <<>>]
List(l) == IF l \in DOMAIN lists THEN lists[l] ELSE NewList
SetList(l, r) == lists' = Join(lists, [x \in {l} |-> r])

\* WaitingTaskList::reset, which asserts that the list is empty.
resetList(r) == [r EXCEPT !.m_waiting = TRUE, !.m_exceptionPtr = FALSE]
ResetLists(s) == lists' = [l \in DOMAIN lists |->
                              IF l \in s THEN resetList(lists[l]) ELSE lists[l]]

-----------------------------------------------------------------------------
(* main, up to the parallel region *)

OpenMPInit ==
    /\ Init
    /\ omp = [running |-> EmptyBag, holders |-> EmptyBag, told |-> {}, queues |-> <<>>]
    /\ m_workStarted = {} /\ m_keep = {} /\ m_wasCached = {} /\ lists = <<>>
    /\ m_fatalJobErrorOccured = FALSE
    /\ m_seenEvents = 0
    /\ runs = <<>> /\ completed = 0 /\ threw = FALSE

idle == <<omp, wrapperState, processing, history>>

MakeFilter   == AddFilter /\ UNCHANGED idle
MakeProducer == AddProducer /\ UNCHANGED idle
MakePath     == AddPath /\ UNCHANGED idle
ReadOn       == NextList /\ UNCHANGED idle

\* processAll, with its holder of eventLoopWaitTask.
Process ==
    /\ phase = "finish"
    /\ phase' = "process"
    /\ omp' = spawn(omp, <<>>, <<[op |-> "loop", nEvents |-> 1]>>)
    /\ UNCHANGED <<build, wrapperState, processing, history>>

\* The region has ended.
Return ==
    /\ phase = "process" /\ omp.running = EmptyBag
    /\ phase' = IF LoopTask \in omp.told THEN "threw" ELSE "returned"
    /\ UNCHANGED <<build, omp, wrapperState, processing, history>>

-----------------------------------------------------------------------------
(* Threads.  In each step one of them, r, makes its next call. *)

Running == BagToSet(omp.running)
Call(r)  == Head(r.calls)
Later(r) == Tail(r.calls)
Does(r, op) == phase = "process" /\ Call(r).op = op

\* r goes on with other calls, or its task is over.
GoOn(d, r, calls) ==
    LET without == [d EXCEPT !.running = BagRemove(@, r)]
    IN IF calls = <<>> THEN without ELSE spawn(without, r.team, calls)

Path(s, p)      == [op |-> "path", stream |-> s, path |-> p]
Add(w, t)       == [op |-> "add", wrapper |-> w, task |-> t]
Prefetch(w, it) == [op |-> "prefetch", wrapper |-> w, rest |-> it]
Tell(l, tasks)  == [op |-> "tell", list |-> l, tasks |-> tasks]

\* list.doneWaiting(iPtr): the list waits no more; announce() takes its tasks.
Announce(l, exception) ==
    SetList(l, [m_waiting |-> FALSE, m_exceptionPtr |-> exception, tasks |-> <<>>])

\* announce() tells the tasks one by one, the last one first.
TellNext(r) ==
    /\ Does(r, "tell")
    /\ LET tasks == Call(r).tasks
       IN omp' = IF tasks = <<>> THEN GoOn(omp, r, Later(r))
                 ELSE GoOn(doneWaiting(omp, r.team, Head(tasks), List(Call(r).list).m_exceptionPtr),
                           r, <<Tell(Call(r).list, Tail(tasks))>> \o Later(r))
    /\ UNCHANGED <<phase, build, wrapperState, processing, history>>

-----------------------------------------------------------------------------
(* The loop of processAll and the events of a stream *)

Handle(s) == [op |-> "handle", stream |-> s]

\* m_schedules[0]->clone(), for the event with the next index.
AnotherSchedule == Append(m_schedules, Clone(m_schedules[1], Len(m_schedules) + 1))

\* The next stream begins with its first event; the first one comes last.
StartStream(r) ==
    /\ Does(r, "loop")
    /\ LET n == Call(r).nEvents
       IN IF n < pConfig.nSimultaneousEvents
            THEN /\ m_schedules' = AnotherSchedule
                 /\ omp' = GoOn(omp, r, <<Handle(n + 1), [op |-> "loop", nEvents |-> n + 1]>>)
            ELSE /\ omp' = GoOn(omp, r, <<Handle(1)>>)
                 /\ UNCHANGED m_schedules
    /\ UNCHANGED <<phase, setup, constructions, wrapperState, processing, history>>

\* SimpleSource::setEventInfo, whose counter is atomic.
HasNextEvent == pConfig.iterations >= m_seenEvents + 1
setEventInfo == m_seenEvents' = m_seenEvents + 1

\* Event::reset of the data and their producers, Schedule::reset of the filters.
ResetWrappers(s, filters) ==
    LET own == Data(s) \cup filters
    IN /\ m_wasCached' = m_wasCached \ Data(s)
       /\ m_workStarted' = m_workStarted \ own
       /\ m_keep' = m_keep \ filters
       /\ ResetLists(own)
       /\ runs' = [w \in DOMAIN runs \ own |-> runs[w]]

\* What Schedule::processAsync makes: allPathsDone, with a holder of it for its
\* loop over the paths.  It has one of recursiveTask.
processAsync(d, r, s) ==
    IF NPaths(s) = 0
      THEN GoOn(doneWaiting(Hold(d, RecursiveTask(s)), r.team, RecursiveTask(s), FALSE), r, Later(r))
      ELSE GoOn(Hold(Hold(d, RecursiveTask(s)), AllPathsDone(s)), r, <<Path(s, 1)>> \o Later(r))

\* handleNextEventAsync
HandleNextEvent(r) ==
    /\ Does(r, "handle")
    /\ setEventInfo
    /\ LET s == Call(r).stream
       IN IF HasNextEvent
            THEN /\ ResetWrappers(s, FilterWrappers(s))
                 /\ omp' = processAsync(omp, r, s)
            ELSE /\ ResetWrappers(s, {})
                 /\ omp' = GoOn(omp, r, Later(r))
    /\ UNCHANGED <<phase, build, m_fatalJobErrorOccured, completed, threw>>

\* recursiveTask: the event is over.
EventDone(r) ==
    /\ Does(r, "event")
    /\ completed' = completed + 1
    /\ omp' = IF Call(r).exception
                THEN GoOn(doneWaiting(omp, r.team, LoopTask, TRUE), r, Later(r))
                ELSE GoOn(omp, r, <<Handle(Call(r).task[2])>> \o Later(r))
    /\ UNCHANGED <<phase, build, wrapperState, m_fatalJobErrorOccured, m_seenEvents, history>>

\* allPathsDone
PathsDone(r) ==
    /\ Does(r, "paths")
    /\ m_fatalJobErrorOccured' = (m_fatalJobErrorOccured \/ Call(r).exception)
    /\ omp' = GoOn(doneWaiting(omp, r.team, RecursiveTask(Call(r).task[2]), Call(r).exception),
                   r, Later(r))
    /\ UNCHANGED <<phase, build, wrapperState, m_seenEvents, completed, history>>

-----------------------------------------------------------------------------
(* Paths *)

\* Path::runAsync of the next path, with a copy of the holder, which becomes
\* the only task in m_callback; or the end of the loop, and of the holder.
RunPath(r) ==
    /\ Does(r, "path")
    /\ LET s == Call(r).stream
           p == Call(r).path
           l == m_callback(s, p)
           more == <<Path(s, p + 1)>> \o Later(r)
       IN IF p > NPaths(s)
            THEN /\ omp' = GoOn(doneWaiting(omp, r.team, AllPathsDone(s), FALSE), r, Later(r))
                 /\ UNCHANGED lists
            ELSE IF NFilters(s, p) = 0
              THEN /\ Announce(l, FALSE)
                   /\ omp' = GoOn(Hold(omp, AllPathsDone(s)), r,
                                  <<Tell(l, <<AllPathsDone(s)>>)>> \o more)
              ELSE /\ SetList(l, [NewList EXCEPT !.tasks = <<AllPathsDone(s)>>])
                   /\ omp' = GoOn(Hold(omp, AllPathsDone(s)), r,
                                  <<[op |-> "filter", stream |-> s, path |-> p, index |-> 1]>> \o more)
    /\ UNCHANGED <<phase, build, m_workStarted, m_keep, m_wasCached, processing, history>>

\* Path::runFilterAsync
RunFilter(r) ==
    /\ Does(r, "filter")
    /\ LET s == Call(r).stream
           p == Call(r).path
           t == NextTask(s, p, Call(r).index)
           l == m_callback(s, p)
       IN IF m_fatalJobErrorOccured
            THEN /\ Announce(l, FALSE)
                 /\ omp' = GoOn(omp, r, <<Tell(l, List(l).tasks)>> \o Later(r))
            ELSE /\ omp' = GoOn(Hold(omp, t), r, <<Add(m_filter(s, p, Call(r).index), t)>> \o Later(r))
                 /\ UNCHANGED lists
    /\ UNCHANGED <<phase, build, m_workStarted, m_keep, m_wasCached, processing, history>>

\* Path::filterFinished
FilterFinished(r) ==
    /\ Does(r, "next")
    /\ LET s == Call(r).task[2]
           p == Call(r).task[3]
           i == Call(r).task[4]
           l == m_callback(s, p)
       IN IF /\ ~Call(r).exception /\ ~m_fatalJobErrorOccured
             /\ m_filter(s, p, i) \in m_keep
             /\ i < NFilters(s, p)
            THEN /\ omp' = GoOn(omp, r, <<[op |-> "filter", stream |-> s, path |-> p, index |-> i + 1]>>
                                           \o Later(r))
                 /\ UNCHANGED lists
            ELSE /\ Announce(l, Call(r).exception)
                 /\ omp' = GoOn(omp, r, <<Tell(l, List(l).tasks)>> \o Later(r))
    /\ UNCHANGED <<phase, build, m_workStarted, m_keep, m_wasCached, processing, history>>

-----------------------------------------------------------------------------
(* ModuleWrapper *)

\* m_waitingTasks.add(iTask): a list that does not wait lets the task go.
AddTask(r) ==
    /\ Does(r, "add")
    /\ LET w == Call(r).wrapper
           t == Call(r).task
           start == <<[op |-> "start", wrapper |-> w]>> \o Later(r)
       IN IF List(w).m_waiting
            THEN /\ SetList(w, [List(w) EXCEPT !.tasks = <<t>> \o @])
                 /\ omp' = GoOn(omp, r, start)
            ELSE /\ omp' = GoOn(doneWaiting(omp, r.team, t, List(w).m_exceptionPtr), r, start)
                 /\ UNCHANGED lists
    /\ UNCHANGED <<phase, build, m_workStarted, m_keep, m_wasCached, processing, history>>

\* Mutant of StartWork: the exchange always succeeds.
StartWorkAgain(r) ==
    /\ Does(r, "start")
    /\ LET w == Call(r).wrapper
       IN /\ m_workStarted' = m_workStarted \cup {w}
          /\ omp' = GoOn(Hold(omp, RunTask(w)), r,
                         <<Prefetch(w, moduleOf(w).m_getters)>> \o Later(r))
    /\ UNCHANGED <<phase, build, m_keep, m_wasCached, lists, processing, history>>

\* doWorkAsync: the first to exchange m_workStarted prefetches, with a holder of
\* the task that is to follow.
StartWork(r) ==
    /\ Does(r, "start")
    /\ LET w == Call(r).wrapper
       IN IF w \in m_workStarted
            THEN /\ omp' = GoOn(omp, r, Later(r))
                 /\ UNCHANGED m_workStarted
            ELSE /\ m_workStarted' = m_workStarted \cup {w}
                 /\ omp' = GoOn(Hold(omp, RunTask(w)), r,
                                <<Prefetch(w, moduleOf(w).m_getters)>> \o Later(r))
    /\ UNCHANGED <<phase, build, m_keep, m_wasCached, lists, processing, history>>

\* Mutant of getAsync: the copy of the holder is not counted.
getAsyncUncounted(d, w, key) == d

\* Event::getAsync, with a copy of the holder.
getAsync(d, w, key) == Hold(d, RunTask(w))

\* Nothing is known of the datum: getAsyncImpl ends the program.
GiveUpJob == phase' = "exit" /\ omp' = [omp EXCEPT !.running = EmptyBag]

\* Module::prefetchAsync: the next datum is asked for, or the holder goes.
PrefetchNext(r) ==
    /\ Does(r, "prefetch")
    /\ LET w == Call(r).wrapper
           keys == Call(r).rest
       IN CASE keys = <<>> ->
                 /\ omp' = GoOn(doneWaiting(omp, r.team, RunTask(w), FALSE), r, Later(r))
                 /\ UNCHANGED phase
            [] keys # <<>> /\ <<w[1], Head(keys)>> \in Data(w[1]) ->
                 /\ omp' = GoOn(getAsync(omp, w, Head(keys)), r,
                                <<Add(<<w[1], Head(keys)>>, RunTask(w)), Prefetch(w, Tail(keys))>>
                                   \o Later(r))
                 /\ UNCHANGED phase
            [] OTHER -> GiveUpJob
    /\ UNCHANGED <<build, wrapperState, processing, history>>

\* runModuleAfterAsyncPrefetch
Module(w, exception) ==
    IF exception THEN <<[op |-> "done", wrapper |-> w, exception |-> TRUE]>>
    ELSE <<[op |-> "work", wrapper |-> w,
            rest |-> IF moduleOf(w).byLabel THEN moduleOf(w).reads ELSE <<>>]>>

\* The task that was held while prefetching runs the module or pushes that.
RunModule(r) ==
    /\ Does(r, "run")
    /\ LET w == Call(r).task[2]
           do == Module(w, Call(r).exception)
       IN IF runQueue(w) = NoQueue THEN omp' = GoOn(omp, r, do \o Later(r))
          ELSE \E d \in push(omp, r.team, runQueue(w), do) : omp' = GoOn(d, r, Later(r))
    /\ UNCHANGED <<phase, build, wrapperState, processing, history>>

\* The task of a queue has done its work.
QueueGoesOn(r) ==
    /\ Does(r, "finished")
    /\ omp' = GoOn(finishedTask(omp, r.team, Call(r).queue), r, Later(r))
    /\ UNCHANGED <<phase, build, wrapperState, processing, history>>

-----------------------------------------------------------------------------
(* What a module does to the Event *)

\* edm::Event::get of a module that is not thread safe resumes the queue of all
\* such modules, which nobody has paused.
Unlock(d, r, w) ==
    IF moduleOf(w).threadType = "kThreadUnsafe" THEN resume(d, r.team, s_non_thread_safe_queue)
    ELSE d

\* Event::get by label.  If the datum is not there a region is opened for the
\* producer, and the thread waits for its end.
SyncGet(r) ==
    /\ Does(r, "work") /\ Call(r).rest # <<>>
    /\ LET w == Call(r).wrapper
           key == Head(Call(r).rest)
           datum == <<w[1], key>>
           then == <<[op |-> "value", wrapper |-> w, key |-> key],
                     [Call(r) EXCEPT !.rest = Tail(@)]>> \o Later(r)
           d == Unlock(omp, r, w)
       IN CASE datum \in m_wasCached -> omp' = GoOn(d, r, then) /\ UNCHANGED phase
            [] datum \in Data(w[1]) \ m_wasCached ->
                 /\ omp' = spawn(GoOn(d, r, <<[op |-> "barrier", wrapper |-> w, key |-> key]>> \o then),
                                 <<w>>, <<Add(datum, GetTask(w, key))>>)
                 /\ UNCHANGED phase
            [] OTHER -> GiveUpJob
    /\ UNCHANGED <<build, wrapperState, processing, history>>

\* The region ends when its team has no task left.  An exception goes on.
RegionEnds(r) ==
    /\ Does(r, "barrier")
    /\ LET w == Call(r).wrapper
           t == GetTask(w, Call(r).key)
           d == [omp EXCEPT !.told = @ \ {t}]
       IN /\ \A x \in Running : x.team # <<w>>
          /\ omp' = IF t \in omp.told
                      THEN GoOn(d, r, <<[op |-> "done", wrapper |-> w, exception |-> TRUE]>>
                                         \o SubSeq(r.calls, 4, Len(r.calls)))
                      ELSE GoOn(d, r, Later(r))
    /\ UNCHANGED <<phase, build, wrapperState, processing, history>>

\* The value is read, whether it is there or not.
ReadValue(r) ==
    /\ Does(r, "value")
    /\ omp' = GoOn(omp, r, Later(r))
    /\ UNCHANGED <<phase, build, wrapperState, processing, history>>

Finished(r, exception) ==
    /\ omp' = GoOn(omp, r, <<[op |-> "done", wrapper |-> Call(r).wrapper, exception |-> exception]>>
                             \o Later(r))
    /\ threw' = (threw \/ exception)
    /\ LET w == Call(r).wrapper
       IN runs' = Join(runs, [x \in {w} |-> IF w \in DOMAIN runs THEN runs[w] + 1 ELSE 1])
    /\ UNCHANGED <<phase, build, m_workStarted, lists, processing>>

Works(r, base, throws) ==
    /\ Does(r, "work") /\ Call(r).rest = <<>>
    /\ moduleOf(Call(r).wrapper).base = base
    /\ moduleOf(Call(r).wrapper).throws = throws
    /\ Finished(r, throws)

\* FilterWrapper::implDoWork
FilterWorks(r) ==
    /\ Works(r, "filter", FALSE)
    /\ LET w == Call(r).wrapper
       IN \E keep \in IF w[2][1] \in MayReject THEN BOOLEAN ELSE {moduleOf(w).keep} :
             m_keep' = IF keep THEN m_keep \cup {w} ELSE m_keep \ {w}
    /\ UNCHANGED m_wasCached

\* ProducerWrapper::implDoWork puts what it has registered: DataCache::setValue.
ProducerWorks(r) ==
    /\ Works(r, "producer", FALSE)
    /\ m_wasCached' = m_wasCached \cup {Call(r).wrapper}
    /\ UNCHANGED m_keep

\* The module throws, and what it throws is caught.
ModuleThrows(r) ==
    /\ \E base \in {"filter", "producer"} : Works(r, base, TRUE)
    /\ UNCHANGED <<m_keep, m_wasCached>>

\* m_waitingTasks.doneWaiting(iPtr)
ModuleDone(r) ==
    /\ Does(r, "done")
    /\ LET w == Call(r).wrapper
       IN /\ Announce(w, Call(r).exception)
          /\ omp' = GoOn(omp, r, <<Tell(w, List(w).tasks)>> \o Later(r))
    /\ UNCHANGED <<phase, build, m_workStarted, m_keep, m_wasCached, processing, history>>

-----------------------------------------------------------------------------
Thread(r) ==
    \/ StartStream(r)  \/ HandleNextEvent(r) \/ EventDone(r)    \/ PathsDone(r)
    \/ RunPath(r)      \/ RunFilter(r)       \/ FilterFinished(r)
    \/ AddTask(r)      \/ StartWork(r)       \/ PrefetchNext(r) \/ TellNext(r)
    \/ RunModule(r)    \/ QueueGoesOn(r)     \/ ModuleDone(r)
    \/ SyncGet(r)      \/ RegionEnds(r)      \/ ReadValue(r)
    \/ FilterWorks(r)  \/ ProducerWorks(r)   \/ ModuleThrows(r)

Next == \/ MakeFilter \/ MakeProducer \/ MakePath \/ ReadOn
        \/ Process \/ Return
        \/ \E r \in Running : Thread(r)

\* Some thread goes on: every task is run by one, sooner or later.
FairSpec == OpenMPInit /\ [][Next]_vars /\ WF_vars(Next)

-----------------------------------------------------------------------------
(* Properties. *)

Ended == {"returned", "threw", "exit"}

\* The state is what its variables are for; and in an event no module has
\* worked twice.
TypeOK ==
    /\ phase \in Ended \cup {"filters", "producers", "paths", "finish", "process"}
    /\ \A s \in {m_workStarted, m_keep, m_wasCached} :
          s \subseteq UNION {Data(x) \cup FilterWrappers(x) : x \in Schedules}
    /\ \A q \in DOMAIN omp.queues : omp.queues[q].m_pauseCount \in 0 .. ULongSize - 1
    /\ \A t \in BagToSet(omp.holders) : ~IsKept(t)
    /\ m_seenEvents \in 0 .. pConfig.iterations + Len(m_schedules)
    /\ completed \in 0 .. pConfig.iterations
    /\ \A w \in DOMAIN runs : runs[w] = 1

\* The assertions of Event::get and of WaitingTaskList::reset hold: what a
\* module has prefetched has been put when it works, and nobody waits in a list
\* of an event that begins, in none of a path that does.
AssertionsHold == phase = "process" => \A r \in Running :
    CASE Call(r).op = "work" ->
            LET w == Call(r).wrapper
            IN ~moduleOf(w).byLabel =>
                 \A i \in DOMAIN moduleOf(w).reads : <<w[1], moduleOf(w).reads[i]>> \in m_wasCached
      [] Call(r).op = "handle" ->
            \A w \in Data(Call(r).stream) \cup FilterWrappers(Call(r).stream) : List(w).tasks = <<>>
      [] Call(r).op = "path" -> List(m_callback(Call(r).stream, Call(r).path)).tasks = <<>>
      [] OTHER -> TRUE

\* No task waits in a queue or in a list or is held, and all events are over or
\* processAll throws.
WorkIsOver ==
    /\ \A q \in DOMAIN omp.queues : omp.queues[q].m_tasks = <<>>
    /\ \A l \in DOMAIN lists : lists[l].tasks = <<>>
    /\ omp.holders = EmptyBag
    /\ phase = "returned" => completed = pConfig.iterations

\* There are tasks in queues, all of them left there by a push, and an event that
\* waits for them.
WorkIsStranded ==
    /\ \E q \in DOMAIN omp.queues : omp.queues[q].left
    /\ \A q \in DOMAIN omp.queues : omp.queues[q].m_tasks # <<>> => omp.queues[q].left
    /\ omp.holders # EmptyBag

\* The parallel region ends, every queue is free, and processAll has not thrown
\* unless a module has.  Then all work is done, and processAll has thrown if a
\* module has, unless a push left its task in a run queue.
ProcessesAllUnlessStranded ==
    <>(\/ phase = "exit"
       \/ /\ phase \in {"returned", "threw"}
          /\ \A q \in DOMAIN omp.queues : ~omp.queues[q].m_taskChosen
          /\ phase = "threw" => threw
          /\ \/ WorkIsOver /\ (threw => phase = "threw")
             \/ WorkIsStranded)

\* "synchronously get data": what Event::get returns to a module that is not
\* thread safe, and resumes the queue for it, has been put.
SyncGetGetsData == phase = "process" => \A r \in Running :
    Call(r).op = "value" => <<Call(r).wrapper[1], Call(r).key>> \in m_wasCached
=============================================================================
