------------------------------ MODULE Schedule ------------------------------
(***************************************************************************)
(* How the TBB framework processes the events of one stream: the Schedule  *)
(* with its Paths and AllPathsDoneTask, the ModuleWrappers of the filters  *)
(* and of the Event's producers, and the loop of handleNextEventAsync.     *)
(*                                                                         *)
(* All of it is tasks with reference counts.  Whoever has to tell a task   *)
(* something holds a reference to it (a WaitingTaskHolder); the one that   *)
(* drops the last makes the task ready, for any thread of the pool.  What  *)
(* a thread does between two tasks is a stack of the calls it is inside.   *)
(*                                                                         *)
(* A WaitingTaskList is a set of tasks here, with the steps of add() and   *)
(* announce() that tell when a task gets into it and out of it; a          *)
(* SerialTaskQueue runs its calls one at a time.  Both are modelled in     *)
(* detail in WaitingTaskList and SerialTaskQueue.                          *)
(***************************************************************************)
EXTENDS Integers, Sequences, Functions

CONSTANTS
    Threads,
    Producers, Filters, Paths,
    Gets,           \* for a module: its m_getters, the producers they are for
    PathFilters,    \* for a path: its m_filters
    m_paths,        \* the paths, in the order of the Schedule
    HasAcquire,     \* the modules with an acquire()
    MayThrow,       \* the modules whose work may throw
    AcquireThrows,  \* the modules whose acquire() may throw
    RunQueue,       \* for a module: its m_runQueue
    NoQueue,        \* the null SerialTaskQueue*
    NEvents         \* the source's m_nEvents

Modules == Producers \cup Filters

ASSUME ScheduleAssumption ==
    /\ Gets \in [Modules -> Seq(Producers)]
    /\ PathFilters \in [Paths -> Seq(Filters)]
    /\ m_paths \in Seq(Paths) /\ Range(m_paths) = Paths
    /\ \A i, j \in DOMAIN m_paths : m_paths[i] = m_paths[j] => i = j
    /\ \A m \in Modules : \A i, j \in DOMAIN Gets[m] : Gets[m][i] = Gets[m][j] => i = j
    /\ HasAcquire \subseteq Modules
    /\ MayThrow \subseteq Modules /\ AcquireThrows \subseteq HasAcquire
    /\ DOMAIN RunQueue = Modules
    /\ NEvents \in Nat

\* The tasks: RunModuleTask and the functor made for after acquire() of a
\* module, NextFilterTask of a path, AllPathsDoneTask and recursiveTask.
RunTask(m)      == <<"run", m>>
AfterAcquire(m) == <<"after", m>>
NextTask(p)     == <<"next", p>>
AllPathsDone    == <<"all">>
RecursiveTask   == <<"event">>

Tasks == {RunTask(m) : m \in Modules} \cup {AfterAcquire(m) : m \in HasAcquire}
            \cup {NextTask(p) : p \in Paths} \cup {AllPathsDone, RecursiveTask}

VARIABLES
    m_workStarted,  \* of each ModuleWrapper
    m_waiting, m_exceptionPtr, listed,
                    \* its m_waitingTasks: with the tasks still in it
    m_wasCached,    \* of each producer's DataCache
    m_keep,         \* of each FilterWrapper
    m_index,        \* of each NextFilterTask, counted from 1
    refCount, except,
                    \* of each task: references, and whether m_ptr is set
    ready,          \* the tasks in the task group
    pushed,         \* what waits in the run queues
    outside,        \* the modules whose acquire() gave its holder to another thread
    fatal,          \* m_fatalJobErrorOccured
    m_seenEvents,
    outcome,        \* what the stream told lastTask: "none", "done" or "failed"
    stack,          \* for a thread: the calls it is inside, the innermost first
    open, runs, threw
                    \* history: an event is being processed, how often each
                    \* module ran to its end in it, and which threw

wrappers == <<m_workStarted, m_waiting, m_exceptionPtr, listed, m_wasCached, m_keep>>
tasks    == <<refCount, except, ready>>
stream   == <<m_seenEvents, outcome, open>>
history  == <<runs, threw>>
vars == <<wrappers, m_index, tasks, pushed, outside, fatal, stream, stack, history>>

-----------------------------------------------------------------------------
(* The calls a thread can be inside. *)

Handle         == [op |-> "handle"]                         \* handleNextEventAsync
RunPaths(rest) == [op |-> "paths", rest |-> rest]           \* the loop of processAsync
RunFilter(p)   == [op |-> "filter", path |-> p]             \* Path::runFilterAsync
Add(m, t)      == [op |-> "add", mod |-> m, task |-> t]     \* m_waitingTasks.add
Insert(m, t)   == [op |-> "insert", mod |-> m, task |-> t]
Recheck(m)     == [op |-> "recheck", mod |-> m]
Start(m)       == [op |-> "start", mod |-> m]               \* doWorkAsync: m_workStarted
Prefetch(m, rest) == [op |-> "prefetch", mod |-> m, rest |-> rest]
Acquire(m)     == [op |-> "acquire", mod |-> m]             \* implDoAcquire
Work(m)        == [op |-> "work", mod |-> m]                \* implDoWork
Fail(m)        == [op |-> "fail", mod |-> m]                \* doneWaiting(iPtr) without work
Announce(m)    == [op |-> "announce", mod |-> m]            \* m_waitingTasks.announce
Tell(m, batch) == [op |-> "tell", mod |-> m, batch |-> batch]
Serve(q)       == [op |-> "serve", queue |-> q]             \* the run queue's own call

Idle(th) == stack[th] = <<>>
Top(th) == Head(stack[th])
Inside(th, op) == ~Idle(th) /\ Top(th).op = op

\* The innermost call of th becomes the calls of s.
Become(th, s) == stack' = [stack EXCEPT ![th] = s \o Tail(@)]
Begin(th, s)  == stack' = [stack EXCEPT ![th] = s]

Init ==
    /\ m_workStarted = [m \in Modules |-> FALSE]
    /\ m_waiting = [m \in Modules |-> TRUE]
    /\ m_exceptionPtr = [m \in Modules |-> FALSE]
    /\ listed = [m \in Modules |-> {}]
    /\ m_wasCached = [n \in Producers |-> FALSE]
    /\ m_keep = [f \in Filters |-> FALSE]
    /\ m_index = [p \in Paths |-> 1]
    /\ refCount = [t \in Tasks |-> 0] /\ except = [t \in Tasks |-> FALSE]
    /\ ready = {} /\ pushed = {} /\ outside = {}
    /\ fatal = FALSE
    /\ m_seenEvents = 0 /\ outcome = "none" /\ open = FALSE
    /\ \E th \in Threads : stack = [x \in Threads |-> IF x = th THEN <<Handle>> ELSE <<>>]
    /\ runs = [m \in Modules |-> 0] /\ threw = {}

-----------------------------------------------------------------------------
(* References to tasks. *)

\* A WaitingTaskHolder lets go of t, after telling it of an exception or not.
Release(t, exception) ==
    /\ except' = [except EXCEPT ![t] = @ \/ exception]
    /\ refCount' = [refCount EXCEPT ![t] = @ - 1]
    /\ ready' = IF refCount[t] = 1 THEN ready \cup {t} ELSE ready

Retain(t) == /\ refCount' = [refCount EXCEPT ![t] = @ + 1]
             /\ UNCHANGED <<except, ready>>

\* An idle thread takes t from the task group.
Take(th, t) == /\ Idle(th)
               /\ t \in ready
               /\ ready' = ready \ {t}

-----------------------------------------------------------------------------
(* ModuleWrapper: doWorkAsync and what follows from it. *)

\* m_waitingTasks.add(iTask): a list that waits no more lets the task go.
AddTask(th) ==
    /\ Inside(th, "add")
    /\ LET m == Top(th).mod
           t == Top(th).task
       IN IF m_waiting[m]
            THEN Become(th, <<Insert(m, t), Start(m)>>) /\ UNCHANGED tasks
            ELSE Become(th, <<Start(m)>>) /\ Release(t, m_exceptionPtr[m])
    /\ UNCHANGED <<wrappers, m_index, pushed, outside, fatal, stream, history>>

\* The task is in the list.  The first one's thread looks at m_waiting again.
InsertTask(th) ==
    /\ Inside(th, "insert")
    /\ LET m == Top(th).mod
       IN /\ listed' = [listed EXCEPT ![m] = @ \cup {Top(th).task}]
          /\ Become(th, IF listed[m] = {} THEN <<Recheck(m)>> ELSE <<>>)
    /\ UNCHANGED <<m_workStarted, m_waiting, m_exceptionPtr, m_wasCached, m_keep,
                   m_index, tasks, pushed, outside, fatal, stream, history>>

RecheckWaiting(th) ==
    /\ Inside(th, "recheck")
    /\ LET m == Top(th).mod
       IN Become(th, IF m_waiting[m] THEN <<>> ELSE <<Announce(m)>>)
    /\ UNCHANGED <<wrappers, m_index, tasks, pushed, outside, fatal, stream, history>>

\* Mutant of StartWork: the test of m_workStarted is left out.
StartWorkAgain(th) ==
    /\ Inside(th, "start")
    /\ LET m == Top(th).mod
       IN /\ m_workStarted' = [m_workStarted EXCEPT ![m] = TRUE]
          /\ Retain(RunTask(m))
          /\ Become(th, <<Prefetch(m, Gets[m])>>)
    /\ UNCHANGED <<m_waiting, m_exceptionPtr, listed, m_wasCached, m_keep,
                   m_index, pushed, outside, fatal, stream, history>>

\* The first to exchange m_workStarted prefetches for the module.
StartWork(th) ==
    /\ Inside(th, "start")
    /\ LET m == Top(th).mod
       IN IF m_workStarted[m]
            THEN /\ Become(th, <<>>)
                 /\ UNCHANGED <<m_workStarted, tasks>>
            ELSE /\ m_workStarted' = [m_workStarted EXCEPT ![m] = TRUE]
                 /\ Retain(RunTask(m))
                 /\ Become(th, <<Prefetch(m, Gets[m])>>)
    /\ UNCHANGED <<m_waiting, m_exceptionPtr, listed, m_wasCached, m_keep,
                   m_index, pushed, outside, fatal, stream, history>>

\* Mutant of PrefetchNext: the copy of the holder is not counted.
PrefetchNextUncounted(th) ==
    /\ Inside(th, "prefetch")
    /\ LET m == Top(th).mod
           rest == Top(th).rest
       IN /\ rest # <<>>
          /\ Become(th, <<Add(rest[1], RunTask(m)), Prefetch(m, Tail(rest))>>)
    /\ UNCHANGED <<wrappers, m_index, tasks, pushed, outside, fatal, stream, history>>

\* Module::prefetchAsync, which keeps its own holder of the RunModuleTask: a
\* copy of it waits for the next producer.
PrefetchNext(th) ==
    /\ Inside(th, "prefetch")
    /\ LET m == Top(th).mod
           rest == Top(th).rest
       IN /\ rest # <<>>
          /\ Retain(RunTask(m))
          /\ Become(th, <<Add(rest[1], RunTask(m)), Prefetch(m, Tail(rest))>>)
    /\ UNCHANGED <<wrappers, m_index, pushed, outside, fatal, stream, history>>

\* All data has been asked for, the holder goes.
PrefetchEnd(th) ==
    /\ Inside(th, "prefetch")
    /\ Top(th).rest = <<>>
    /\ Release(RunTask(Top(th).mod), FALSE)
    /\ Become(th, <<>>)
    /\ UNCHANGED <<wrappers, m_index, pushed, outside, fatal, stream, history>>

\* Run a call for module m at once or, if it has a queue, push it there.
Dispatch(th, m, call) ==
    IF RunQueue[m] = NoQueue
      THEN Begin(th, <<call>>) /\ UNCHANGED pushed
      ELSE pushed' = pushed \cup {call} /\ UNCHANGED stack

\* RunModuleTask::execute, with the exception of what was prefetched if any.
RunModule(th, m) ==
    /\ Take(th, RunTask(m))
    /\ Dispatch(th, m, IF except[RunTask(m)] THEN Fail(m)
                       ELSE IF m \in HasAcquire THEN Acquire(m) ELSE Work(m))
    /\ UNCHANGED <<wrappers, m_index, refCount, except, outside, fatal, stream, history>>

\* The functor that runs when nobody holds what acquire() was given.
RunAfterAcquire(th, m) ==
    /\ Take(th, AfterAcquire(m))
    /\ Dispatch(th, m, IF except[AfterAcquire(m)] THEN Fail(m) ELSE Work(m))
    /\ UNCHANGED <<wrappers, m_index, refCount, except, outside, fatal, stream, history>>

\* A run queue runs its calls one at a time, if a thread comes to serve it.
ServeQueue(th) ==
    /\ Idle(th)
    /\ \E call \in pushed :
         LET q == RunQueue[call.mod]
         IN /\ \A x \in Threads : Serve(q) \notin Range(stack[x])
            /\ pushed' = pushed \ {call}
            /\ Begin(th, <<call, Serve(q)>>)
    /\ UNCHANGED <<wrappers, m_index, tasks, outside, fatal, stream, history>>

QueueServed(th) ==
    /\ Inside(th, "serve")
    /\ Become(th, <<>>)
    /\ UNCHANGED <<wrappers, m_index, tasks, pushed, outside, fatal, stream, history>>

\* acquire() gives its holder to somebody else who will do the work.
AcquireHandsOver(th) ==
    /\ Inside(th, "acquire")
    /\ LET m == Top(th).mod
       IN /\ outside' = outside \cup {m}
          /\ refCount' = [refCount EXCEPT ![AfterAcquire(m)] = 1]
          /\ except' = [except EXCEPT ![AfterAcquire(m)] = FALSE]
    /\ Become(th, <<>>)
    /\ UNCHANGED <<wrappers, m_index, ready, pushed, fatal, stream, history>>

\* acquire() ends with its holder, by returning or by throwing.  The exception
\* is caught and stays in iPtr.
AcquireEnds(th, exception) ==
    /\ Inside(th, "acquire")
    /\ LET m == Top(th).mod
       IN /\ exception => m \in AcquireThrows
          /\ except' = [except EXCEPT ![AfterAcquire(m)] = FALSE]
          /\ ready' = ready \cup {AfterAcquire(m)}
          /\ threw' = IF exception THEN threw \cup {m} ELSE threw
    /\ Become(th, <<>>)
    /\ UNCHANGED <<wrappers, m_index, refCount, pushed, outside, fatal, stream, runs>>

\* Somebody else calls doneWaiting on the holder.
OutsideDone(m, exception) ==
    /\ m \in outside
    /\ exception => m \in MayThrow
    /\ outside' = outside \ {m}
    /\ Release(AfterAcquire(m), exception)
    /\ threw' = IF exception THEN threw \cup {m} ELSE threw
    /\ UNCHANGED <<wrappers, m_index, pushed, fatal, stream, runs, stack>>

\* m_waitingTasks.doneWaiting(iPtr)
DoneWaiting(th, m, exception) ==
    /\ m_waiting' = [m_waiting EXCEPT ![m] = FALSE]
    /\ m_exceptionPtr' = [m_exceptionPtr EXCEPT ![m] = exception]
    /\ Become(th, <<Announce(m)>>)
    /\ UNCHANGED <<m_workStarted, listed, m_index, tasks, pushed, outside, fatal, stream>>

\* Event::put, by a producer; a filter's decision is kept.
PutData(n) == /\ m_wasCached' = [m_wasCached EXCEPT ![n] = TRUE]
              /\ UNCHANGED m_keep
KeepResult(f, keep) == /\ m_keep' = [m_keep EXCEPT ![f] = keep]
                       /\ UNCHANGED m_wasCached

\* implDoWork() returns.
WorkDone(th, keep) ==
    /\ Inside(th, "work")
    /\ LET m == Top(th).mod
       IN /\ DoneWaiting(th, m, FALSE)
          /\ IF m \in Producers THEN PutData(m) ELSE KeepResult(m, keep)
          /\ runs' = [runs EXCEPT ![m] = @ + 1]
    /\ UNCHANGED threw

\* implDoWork() throws.
WorkThrows(th) ==
    /\ Inside(th, "work")
    /\ Top(th).mod \in MayThrow
    /\ DoneWaiting(th, Top(th).mod, TRUE)
    /\ threw' = threw \cup {Top(th).mod}
    /\ UNCHANGED <<m_wasCached, m_keep, runs>>

\* Something it gets, or its acquire(), has failed: the module does not run.
WorkSkipped(th) ==
    /\ Inside(th, "fail")
    /\ DoneWaiting(th, Top(th).mod, TRUE)
    /\ UNCHANGED <<m_wasCached, m_keep, history>>

\* announce(): take all tasks of the list ...
TakeListed(th) ==
    /\ Inside(th, "announce")
    /\ LET m == Top(th).mod
       IN /\ listed' = [listed EXCEPT ![m] = {}]
          /\ Become(th, IF listed[m] = {} THEN <<>> ELSE <<Tell(m, listed[m])>>)
    /\ UNCHANGED <<m_workStarted, m_waiting, m_exceptionPtr, m_wasCached, m_keep,
                   m_index, tasks, pushed, outside, fatal, stream, history>>

\* ... and tell them of the exception and let them go, one by one.
TellOne(th) ==
    /\ Inside(th, "tell")
    /\ LET m == Top(th).mod
           batch == Top(th).batch
       IN \E t \in batch :
             /\ Release(t, m_exceptionPtr[m])
             /\ Become(th, IF batch = {t} THEN <<>> ELSE <<Tell(m, batch \ {t})>>)
    /\ UNCHANGED <<wrappers, m_index, pushed, outside, fatal, stream, history>>

-----------------------------------------------------------------------------
(* Path *)

\* runFilterAsync: the filter is asked for, unless the job has failed.
AskFilter(th) ==
    /\ Inside(th, "filter")
    /\ LET p == Top(th).path
       IN IF fatal
            THEN Release(AllPathsDone, FALSE) /\ Become(th, <<>>)
            ELSE /\ Retain(NextTask(p))
                 /\ Become(th, <<Add(PathFilters[p][m_index[p]], NextTask(p))>>)
    /\ UNCHANGED <<wrappers, m_index, pushed, outside, fatal, stream, history>>

\* Mutant of FilterFinished: the result of the filter is not looked at.
FilterFinishedKeepsAll(th, p) ==
    /\ Take(th, NextTask(p))
    /\ m_index[p] < Len(PathFilters[p]) /\ ~except[NextTask(p)]
    /\ m_index' = [m_index EXCEPT ![p] = @ + 1]
    /\ Begin(th, <<RunFilter(p)>>)
    /\ UNCHANGED <<wrappers, refCount, except, pushed, outside, fatal, stream, history>>

\* NextFilterTask::execute: go on with the next filter, or the path is done.
FilterFinished(th, p) ==
    /\ Idle(th) /\ NextTask(p) \in ready
    /\ IF /\ ~except[NextTask(p)] /\ ~fatal
          /\ m_keep[PathFilters[p][m_index[p]]]
          /\ m_index[p] < Len(PathFilters[p])
         THEN /\ Take(th, NextTask(p))
              /\ m_index' = [m_index EXCEPT ![p] = @ + 1]
              /\ Begin(th, <<RunFilter(p)>>)
              /\ UNCHANGED <<refCount, except>>
         ELSE /\ except' = [except EXCEPT ![AllPathsDone] = @ \/ except[NextTask(p)]]
              /\ refCount' = [refCount EXCEPT ![AllPathsDone] = @ - 1]
              /\ ready' = (ready \ {NextTask(p)})
                             \cup (IF refCount[AllPathsDone] = 1 THEN {AllPathsDone} ELSE {})
              /\ UNCHANGED <<m_index, stack>>
    /\ UNCHANGED <<wrappers, pushed, outside, fatal, stream, history>>
-----------------------------------------------------------------------------
(* Schedule and the stream's part of EventProcessor *)

\* processAsync's loop: start the next path.  The loop holds a reference to
\* AllPathsDoneTask, and every path gets another.
StartPath(th) ==
    /\ Inside(th, "paths")
    /\ LET rest == Top(th).rest
           p == rest[1]
       IN /\ rest # <<>>
          /\ IF PathFilters[p] = <<>>
               THEN /\ Become(th, <<RunPaths(Tail(rest))>>)
                    /\ UNCHANGED <<m_index, refCount>>
               ELSE /\ Become(th, <<RunFilter(p), RunPaths(Tail(rest))>>)
                    /\ m_index' = [m_index EXCEPT ![p] = 1]
                    /\ refCount' = [refCount EXCEPT ![AllPathsDone] = @ + 1]
    /\ UNCHANGED <<wrappers, except, ready, pushed, outside, fatal, stream, history>>

PathsStarted(th) ==
    /\ Inside(th, "paths")
    /\ Top(th).rest = <<>>
    /\ Release(AllPathsDone, FALSE)
    /\ Become(th, <<>>)
    /\ UNCHANGED <<wrappers, m_index, pushed, outside, fatal, stream, history>>

\* AllPathsDoneTask::execute
AllPathsDoneExecute(th) ==
    /\ Idle(th) /\ AllPathsDone \in ready
    /\ fatal' = (fatal \/ except[AllPathsDone])
    /\ except' = [except EXCEPT ![RecursiveTask] = @ \/ except[AllPathsDone]]
    /\ refCount' = [refCount EXCEPT ![RecursiveTask] = @ - 1]
    /\ ready' = (ready \ {AllPathsDone})
                  \cup (IF refCount[RecursiveTask] = 1 THEN {RecursiveTask} ELSE {})
    /\ UNCHANGED <<wrappers, m_index, pushed, outside, stream, stack, history>>

\* recursiveTask: the event is over.  A failed one is reported to lastTask.
EventDone(th) ==
    /\ Take(th, RecursiveTask)
    /\ open' = FALSE
    /\ IF except[RecursiveTask]
         THEN outcome' = "failed" /\ UNCHANGED stack
         ELSE Begin(th, <<Handle>>) /\ UNCHANGED outcome
    /\ UNCHANGED <<wrappers, m_index, refCount, except, pushed, outside, fatal,
                   m_seenEvents, history>>

\* The wrappers of the modules in s, and their lists, are reset.
ResetModules(s) ==
    /\ m_workStarted' = [m \in Modules |-> m_workStarted[m] /\ m \notin s]
    /\ m_waiting' = [m \in Modules |-> m_waiting[m] \/ m \in s]
    /\ m_exceptionPtr' = [m \in Modules |-> m_exceptionPtr[m] /\ m \notin s]
    /\ m_wasCached' = [n \in Producers |-> m_wasCached[n] /\ n \notin s]
    /\ m_keep' = [f \in Filters |-> m_keep[f] /\ f \notin s]
    /\ UNCHANGED listed

\* SimpleSource::setEventInfo, which counts the call that finds nothing too.
HasNextEvent == m_seenEvents < NEvents
CountEvent   == m_seenEvents' = m_seenEvents + 1

\* handleNextEventAsync without another event: the Event has been reset, and
\* the holder of lastTask goes.
NoMoreEvents(th) ==
    /\ Inside(th, "handle")
    /\ ~HasNextEvent
    /\ CountEvent
    /\ ResetModules(Producers)
    /\ outcome' = "done"
    /\ Become(th, <<>>)
    /\ UNCHANGED <<m_index, tasks, pushed, outside, fatal, open, history>>

\* Mutant of NextEvent: processAsync has no reference of its own.
NextEventWithoutHolder(th) ==
    /\ Inside(th, "handle")
    /\ HasNextEvent
    /\ CountEvent
    /\ ResetModules(Modules)
    /\ refCount' = [refCount EXCEPT ![RecursiveTask] = 1, ![AllPathsDone] = 0]
    /\ except' = [except EXCEPT ![RecursiveTask] = FALSE]
    /\ Become(th, <<RunPaths(m_paths)>>)
    /\ open' = TRUE /\ runs' = [m \in Modules |-> 0] /\ threw' = {}
    /\ UNCHANGED <<m_index, ready, pushed, outside, fatal, outcome>>

\* handleNextEventAsync and processAsync up to its loop: reset the Event, take
\* the next from the source, reset the filters, and make the next task.  All of
\* it is one step: nothing else of the stream runs then (QuietBetweenEvents).
NextEvent(th) ==
    /\ Inside(th, "handle")
    /\ HasNextEvent
    /\ CountEvent
    /\ ResetModules(Modules)
    /\ except' = [except EXCEPT ![RecursiveTask] = FALSE]
    /\ IF m_paths = <<>>
         THEN /\ ready' = ready \cup {RecursiveTask}
              /\ UNCHANGED refCount
              /\ Become(th, <<>>)
         ELSE /\ refCount' = [refCount EXCEPT ![RecursiveTask] = 1, ![AllPathsDone] = 1]
              /\ UNCHANGED ready
              /\ Become(th, <<RunPaths(m_paths)>>)
    /\ open' = TRUE /\ runs' = [m \in Modules |-> 0] /\ threw' = {}
    /\ UNCHANGED <<m_index, pushed, outside, fatal, outcome>>

\* The AllPathsDoneTask of another stream sees an exception.
OtherStreamFails ==
    /\ ~fatal
    /\ fatal' = TRUE
    /\ UNCHANGED <<wrappers, m_index, tasks, pushed, outside, stream, stack, history>>

-----------------------------------------------------------------------------
\* What a thread does inside a call.
Proceed(th) ==
    \/ AddTask(th)        \/ InsertTask(th)   \/ RecheckWaiting(th)
    \/ StartWork(th)
    \/ PrefetchNext(th)   \/ PrefetchEnd(th)
    \/ QueueServed(th)
    \/ AcquireHandsOver(th)
    \/ \E exception \in BOOLEAN : AcquireEnds(th, exception)
    \/ \E keep \in BOOLEAN : WorkDone(th, keep)
    \/ WorkThrows(th)     \/ WorkSkipped(th)
    \/ TakeListed(th)     \/ TellOne(th)
    \/ AskFilter(th)
    \/ StartPath(th)      \/ PathsStarted(th)
    \/ NextEvent(th)      \/ NoMoreEvents(th)

\* What an idle thread may take from the task group.
TakeReady(th) ==
    \/ \E m \in Modules : RunModule(th, m)
    \/ \E m \in HasAcquire : RunAfterAcquire(th, m)
    \/ \E p \in Paths : FilterFinished(th, p)
    \/ AllPathsDoneExecute(th)
    \/ EventDone(th)

\* What an idle thread may begin.
Execute(th) == TakeReady(th) \/ ServeQueue(th)

Finish == \E m \in outside, exception \in BOOLEAN : OutsideDone(m, exception)

Next == \/ \E th \in Threads : Proceed(th) \/ Execute(th)
        \/ Finish
        \/ OtherStreamFails

Spec == Init /\ [][Next]_vars

\* Threads go on with what they are inside, some thread takes what the task
\* group has, and whoever holds what acquire() gave away lets go of it.  That a
\* run queue serves what is pushed into it is not assumed: two threads that look
\* at the queue at the same time may leave a call in it (SerialTaskQueue).
FairSpec == /\ Spec
            /\ \A th \in Threads : WF_vars(Proceed(th))
            /\ WF_vars(\E th \in Threads : TakeReady(th))
            /\ WF_vars(Finish)

-----------------------------------------------------------------------------
(* Properties. *)

TypeOK ==
    /\ m_workStarted \in [Modules -> BOOLEAN]
    /\ m_waiting \in [Modules -> BOOLEAN]
    /\ m_exceptionPtr \in [Modules -> BOOLEAN]
    /\ listed \in [Modules -> SUBSET Tasks]
    /\ m_wasCached \in [Producers -> BOOLEAN]
    /\ m_keep \in [Filters -> BOOLEAN]
    /\ \A p \in Paths : m_index[p] \in 1 .. Len(PathFilters[p]) \cup {1}
    /\ refCount \in [Tasks -> Nat]
    /\ except \in [Tasks -> BOOLEAN]
    /\ ready \subseteq Tasks
    /\ \A call \in pushed : call.op \in {"acquire", "work", "fail"}
    /\ outside \subseteq HasAcquire
    /\ fatal \in BOOLEAN /\ open \in BOOLEAN
    /\ m_seenEvents \in 0 .. NEvents + 1
    /\ outcome \in {"none", "done", "failed"}
    /\ DOMAIN stack = Threads
    /\ runs \in [Modules -> Nat]
    /\ threw \subseteq Modules

\* Event::get asserts that what a module gets has been put before, in this
\* event: a module works when every producer it gets from has.
GetsItsData ==
    \A th \in Threads : Inside(th, "work") =>
        \A n \in Range(Gets[Top(th).mod]) : m_wasCached[n]

\* When the last task of an event is ready nothing of the event is left: no
\* task waits, is held or ready, no module runs, no thread is about to look at
\* a wrapper or its list.  So the resets, which are not thread safe, meet nobody.
Between == RecursiveTask \in ready \/ \E th \in Threads : Inside(th, "handle")

QuietBetweenEvents == Between =>
    /\ ready \subseteq {RecursiveTask}
    /\ \A t \in Tasks : refCount[t] = 0
    /\ \A m \in Modules : listed[m] = {}
    /\ pushed = {} /\ outside = {}
    /\ \A th \in Threads : \A call \in Range(stack[th]) :
          call.op \in {"handle", "serve"}

\* Every event is processed as EventStream says.
Stream == INSTANCE EventStream
    WITH event <- IF m_seenEvents <= NEvents THEN m_seenEvents ELSE NEvents,
         asked <- {m \in Modules : m_workStarted[m] \/ runs[m] > 0},
         kept <- {f \in Filters : m_keep[f]},
         broken <- {m \in Modules : ~m_waiting[m] /\ m_exceptionPtr[m]},
         failed <- outcome = "failed",
         MayThrow <- MayThrow \cup AcquireThrows

StreamSpec == Stream!Spec

\* A call is in run queue q, and nobody serves the queue.
Stranded(q) ==
    /\ \E call \in pushed : RunQueue[call.mod] = q
    /\ \A th \in Threads : Serve(q) \notin Range(stack[th])

\* Every event is processed as EventStream says and is over in the end, as is
\* the stream, unless a call stays in a run queue that nobody serves any more.
StreamFairUnlessStranded ==
    /\ StreamSpec
    /\ \/ Stream!Fairness
       \/ \E q \in Range(RunQueue) \ {NoQueue} : <>[]Stranded(q)

\* "Filters are placed in sequence into a Path", and they "decide if we should
\* continue processing an Event": a filter runs when the filters before it on
\* one of its paths have accepted the event.
FiltersInSequence ==
    \A f \in Filters : m_workStarted[f] =>
        \E p \in Paths : \E i \in DOMAIN PathFilters[p] :
            /\ PathFilters[p][i] = f
            /\ \A j \in 1 .. i - 1 : m_keep[PathFilters[p][j]]

\* "If the task we were waiting on threw an exception iPtr will not be 'null'"
ExceptionHandedOn == \A m \in threw : ~m_waiting[m] => m_exceptionPtr[m]

=============================================================================
