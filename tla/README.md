# A TLA+ model of toy-mt-framework

The repository is a small event processing framework in the style of CMS, built four times: on TBB
(`TBBProcessingDemo`), on OpenMP (`OpenMPProcessingDemo`), on libdispatch (`DispatchProcessingDemo`, no longer
supported) and with one thread (`SingleThreadedProcessingDemo`). An *event* is a set of data made by *producers* and judged by
*filters*; filters stand in sequence on *paths*, paths are independent, and a producer runs the first
time its data is asked for. Several events are processed at once, each by one *stream*.

All four are modelled. The TBB version, on which the others are based, is modelled in most detail: its queue and its list
at every access to memory, the processing of an event at every step of a call. Of the others the models
say how they differ. Paths
below are relative to `src/TBBProcessingDemo/TBBFrameworkCore/` unless they begin with `src/`.

Contents: 1 the system, 2 the modules, 3 the runs, 4 fairness, 5 what is proved, 6 disagreements
between code and documentation, 7 what is not modelled, 8 what is left.

## 1. The system

### Components

| Component | State | Operations | Used by |
|---|---|---|---|
| `SerialTaskQueue` (`Queues`: the one for thread-unsafe modules) | `m_tasks` (concurrent FIFO), `m_taskChosen`, `m_pauseCount` | `push`, `pause`, `resume`, `isPaused`, destructor; inside: `pickNextTask`, `spawn`, `finishedTask` | `ModuleWrapper` (run queues), unit tests |
| `WaitingTaskList` | `m_head` and the chain of `WaitNode`s, node cache, `m_exceptionPtr`, `m_waiting` | `add`, `doneWaiting`, `announce`, `reset` | every `ModuleWrapper` |
| `WaitingTask`, `WaitingTaskHolder`, `WaitingTaskWithArenaHolder` | reference count, `m_ptr` | copy and move of holders, `doneWaiting`; the last release gives the task to its task group | everybody |
| `ModuleWrapper`, `FilterWrapper`, `ProducerWrapper` | `m_workStarted`, the list of waiters, `m_keep`, `m_wasRun` | `doWorkAsync`, `RunModuleTask::execute`, acquire, `reset` | `Path`, `Event` |
| `Event`, `DataCache`, `Getter`, `Module` | a value and `m_wasCached` per product; the getters of a module | `getAsync`, `get`, `put`, `prefetchAsync`, `reset` | modules |
| `Path`, `Schedule` | position on the path, `AllPathsDoneTask`, the flag for fatal errors | `processAsync`, `runAsync`, `filterFinished`, `reset` | `EventProcessor` |
| `EventProcessor`, `SimpleSource` | schedules, number of events taken, `lastTask`, `done` | `handleNextEventAsync`, `processAll`, `finishSetup` | `main` |
| Factories and configuration | `pConfig`; the modules; wrappers, run queues, lookup and paths of the first `Schedule` | `FactoryManager::create`, `addFilter`, `addProducer`, `addPath`, `clone`, `finishSetup` | `main` |
| Test modules | what they registered | constructors, `filter`, `produce`, `acquire` | wrappers |
| OpenMP framework | as TBB, on `shared_ptr` tasks; one parallel region for the job and one for each synchronous `get` | as TBB | its `main` |
| Dispatch framework | groups, serial queues with suspension; `m_wasRun`, `m_requestedPrefetch` of a wrapper | `doPrefetchAndWork`, `getAsync`, `get`, `processAll` | its `main` |
| Single threaded framework | `m_wasRun` of a module, the values of its getters | `process` of schedule, path, filter; `get`, which runs producers | its `main` |
| Unit tests, unused helpers, calibration, data, scripts | | | |

### How they interact

* All work is tasks. Whoever has to tell a task something holds a reference to it
  (`WaitingTaskHolder`); dropping the last gives the task to a `tbb::task_group`.
* An event begins in `handleNextEventAsync`: the `Event` is reset, the source is asked, and
  `Schedule::processAsync` resets the filters and starts each path. A path asks for its first filter with
  `doWorkAsync(NextFilterTask)`; when the filter is done that task looks at its decision and asks for the
  next, or drops its reference to `AllPathsDoneTask`. The last of these references ends the event
  and `recursiveTask` begins the next one on the same stream.
* `doWorkAsync` puts the caller's task on the module's `WaitingTaskList` and, if it is the first to
  exchange `m_workStarted`, prefetches: `doWorkAsync(RunModuleTask)` of every producer the module gets data from. When
  these are done `RunModuleTask` runs the module, directly or through its `SerialTaskQueue`, or hands
  it to `acquire()` first; `doneWaiting` then releases whoever waits for the module.
* Streams share the source, the flag for fatal errors, `lastTask`, and the run queues of modules that may not
  run twice at the same time.

### What is hard about it, and what makes each component correct

| Component | Hard behaviour | Correct when |
|---|---|---|
| `SerialTaskQueue` | lock-free choice of who runs the next task, undone by a plain store when there was none; tasks of several groups; pauses that overlap picks; a destructor concurrent with the last lambda | one task at a time; none lost, doubled or overtaken; a pushed task runs; a pause admits no new pick; a destructed queue has nothing left |
| `WaitingTaskList` | `add` racing `doneWaiting`, two `announce`s, a node in the list before it is linked, nodes from a cache that `reset` replaces | every waiter released once, after `doneWaiting`, with its exception; no access to freed nodes; nothing left at `reset` |
| wrappers, `Path`, `Schedule` | several paths asking for the same module; a task released inside the call that started it; exceptions on every step; the next event beginning as a consequence of a release deep in a call stack | a module runs once per event, after everything it gets; filters in sequence; an event ends once, when nothing of it is left |
| `EventProcessor` | streams ending at different times, `lastTask` with holders made one by one, wait groups that are empty while work goes on elsewhere | every event of the source is processed; `processAll` returns after all of them, with the exception if there was one |
| `finishSetup` | recursion over the graph of dependencies | what is to be checked is what the dependencies say |
| configuration, `clone` | wrappers are copied for each stream, and share what they must (the queue of a module) and nothing else (event, list, filters of a path) | one queue for each module that needs one; schedules are apart |
| OpenMP framework | as TBB, with an end that counts tasks only; clones made while streams run; regions inside regions; a resume without a pause | the region ends when all is done, but for the stranded task of 6.1; what a module gets is there |
| Dispatch framework | groups that become empty too early; queues suspended by the module that waits for another; a counter that is not atomic | data there, modules as exclusive as their type says, an event over before the next, no deadlock |
| Single threaded framework | memory that is not initialized; a module that serves several paths | the data of this event, the order of `EventStream` |

`PROJECT.json` lists the hazards at their lines, with the properties that cover them.

## 2. The modules

```
SerialExecutor  <-- implements --  SerialTaskQueue  <-- extends --  SerialTaskQueueTeardown
OneShotSignal   <-- implements --  WaitingTaskList
EventStream     <-- implements --  Schedule   (composes the wrappers, lists, queues, paths and the event loop)
                <-- implements --  SingleThreaded  -- extends -->  SingleThreadedTestModules
CommonTestModules  <-- extends --  Configuration   <-- extends --  EventProcessor   (TBB, several streams)
                                                   <-- extends --  OpenMP
DispatchTestModules  <-- extends --  Dispatch

proofs:  SerialTaskQueueProofs (with the destructor)    EventProcessorProofs (with the configuration)
         WaitingTaskListProofs                          SingleThreadedProofs
         ScheduleProofs  <-- extends --  ScheduleRefinement
         DispatchSteps  <-- extends --  DispatchProofs
```

Each `MC*` module gives a module the constants that a `.cfg` cannot write.

**SerialTaskQueue.** One action per access to shared state: a thread's `pc` names its next
access in `pickNextTask`, whose two compare-exchanges, two `try_pop`s, two stores of `false` and the
`empty()` between them are all separate steps. `m_tasks` is a sequence (`tbb::concurrent_queue` is a library;
its push and pop are atomic and in order). `spawn` decides between
running the picked task in the current lambda (same group) and giving it to its own group, whence any idle thread may
take it (`Begin`). `execute()` lets no exception out (`SerialTaskQueue.h`, `QueuedTask`), so a
task is one step. History variables record the order of pushes and executions, and whether the
race of section 6, number 1 was ever lost.

**SerialTaskQueueTeardown** adds the destructor, one step per read of the
queue, the marker task it pushes and its loop around `wait()`.

**WaitingTaskList.** Again one action per access. Nodes live at addresses that are
never used twice, and memory is a function on the allocated ones, so an access to a freed node is an access outside
its domain. A new node's `next` is itself until it is linked, as in the code, and `announce` spins on
that. `Reset` replaces the cache when it was too small. `QuietReset` is the documented use
("reset is not thread safe"); `EarlyReset` is what the framework does, see section 6.

**Schedule.** The composition: one stream of the framework with any modules, paths,
getters and run queues. A thread is a stack of the calls it is in, because `doWorkAsync` of a module calls
`doWorkAsync` of the producers it needs, `announce` can be reached from an `add`, and so on: what a thread has
still to do after a call is what makes the late steps of section 6 possible. A frame is a record with
the call and its arguments; `Become` replaces the innermost. Tasks have `refCount`, `except`
(`m_ptr`) and are `ready` when the last reference went. Lists and queues are used at the grain
their own modules justify: a list is the set of tasks in it, with the steps at which `add` tests
`m_waiting`, inserts, tests again, and `announce` takes and tells; a run queue runs its calls one
at a time in any order (weaker than `SerialExecutor`, which is FIFO), and may leave a call unserved for ever though it
is free (`Stranded`): so may the code, after 6.1, and nothing here says when. Modules are chosen freely: they keep or reject,
return or throw, and `acquire` ends by itself or leaves its holder to somebody outside.
`handleNextEventAsync` up to the loop over paths is one step, as nothing else of the stream runs then; this is not assumed
but is the invariant `QuietBetweenEvents`. Other streams appear by what they do to this one: they
may set the flag for fatal errors at any time (`OtherStreamFails`).

**CommonTestModules, DispatchTestModules, SingleThreadedTestModules** have one operator for each class of test module: a
record of what its constructor registers and of what it will do to the `Event`. The times they wait are
left out.

**Configuration.** How `main` turns a configuration into modules, wrappers with their run queues, the lookup
of an `Event` and paths, or gives up; `clone`; and `finishSetup` with its helpers as recursive functions over the IDs of modules.
A state is a place in the configuration file, and an action an entry of it.

**EventProcessor.** `processAll` of TBB with several streams, each with a task group: the vector of schedules that must not move, the
clones, the holders of `lastTask` that the loop makes and drops one by one, the loop around the waits, and events that may go through
a run queue which another stream's thread serves. With several threads a push into a free queue may leave its call there, until another push, or a
thread that is late in its pick (`PickLate`), takes the first one, or for ever (6.1); the code needs two earlier calls for that, the model does not ask for them.
What happens inside an event is in `Schedule`; here it ends, with
an exception if the job has a module that throws. `"dangling"` and `"missing_wait"` are places where the code does what no
assertion catches, see section 6.

**OpenMP.** The whole framework, from `main` to its return. `omp` is what OpenMP and the tasks of the framework have in common: a
bag of running tasks, each with its team and the calls it has still to make; a bag of holders (the
`shared_ptr` count of a task is how often it is in there); the tasks that were told of an exception; and the run queues. A wrapper is
a pair of a stream and a datum. A list's `add` and a queue's pick are one step each, their inner steps being those of
`WaitingTaskList` and `SerialTaskQueue`, whose code is the same but for the flag (`atomic_flag` for `atomic<bool>`). What that hides
is 6.2 and 6.6. 6.1 is kept: a push into a free queue may leave its task there (`MayBeLeft`). For that another thread must still be in
the pick it began when a task had finished, after having seen the next one, which has finished too; so two tasks of the queue must have finished,
and the model asks for no more than that. `left` remembers it. Releasing the tasks of a list is one step for each. Two things of OpenMP are assumed: a region ends when its team has no
task left, and a task is begun sooner or later. The number of threads is left out: a task that waits for a
region keeps its place, as the code gives it a nested team. `finishSetup` is there in the OpenMP version and never called, and its build
has no module with `acquire`.

**Dispatch.** The whole framework, from `main` to the return of `processAll`. `gcd` is libdispatch: groups that
count who has entered and know what to submit when all have left, serial queues that run one block and can be suspended,
and the global queue. A block is the sequence of calls it has still to make. Most calls of the library are steps of their own: whoever is the
last to leave a group submits what waits for it one block after the other, and the paths of an event are started one by one. The suspension of a queue
with the push that follows it, and what one request does to the groups of the two modules, are one step
each. A wait of a group is a step that is enabled when the group is empty. The source's counter is not atomic (`SimpleSource.cpp:23`), so a stream reads it in
one step and writes it in another; with two streams the same event may be taken twice. The properties say what still holds then.
`QuietBetweenEvents` looks at the blocks and at the groups: that of the stream's paths, those of its producers and those of its wrappers'
requests must be empty when its next event begins. Left out
are the index of an event (it only chooses how long a module waits), the flag for fatal errors (nothing sets it) and
the limit of threads of the global queue. After the end of the last event the blocks that resume queues may still
run while `processAll` returns.

**SingleThreaded.** `main`, `processAll` and everything below as the stack of calls of the only thread. A datum is the number of
the event it was put in, so that old data is told from new. `m_wasRun` is not initialized by the constructor; its first value is
chosen freely. The mapping to `EventStream` begins with the second event: the modules asked for are those that a call on the stack
works for and those that have run.

**SerialExecutor, OneShotSignal, EventStream** are the abstract specifications: FIFO
one-at-a-time execution; a signal that releases each waiter once; and events one after another, in which modules are
asked for by paths and by other modules, run once, after what they need, or fail, and which end when
all paths are over.

State and code correspond by name: `m_...` variables are the members of that name; `map` in
`PROJECT.json` gives the lines of every definition. Definitions described as a *mutant* are what
the code would be with one plausible mistake; no specification uses them.

## 3. The runs

| Run | Instance | Shows |
|---|---|---|
| `queue` | 2 threads, 3 tasks in 2 groups, 2 pauses; 44 thousand states | type, mutual exclusion, nothing lost, the inductive invariant of section 5; only the lost race leaves a task behind; a pause admits no new pick; implements `SerialExecutor`; pushed tasks run unless the race was lost |
| `queue_stranded` | the same, no pause | violation: a pushed task may never run (6.1) |
| `teardown` | 2 threads, 3 tasks and the marker, 1 pause; 58 thousand states | when the destructor waits, all tasks have run; it ends, unless left paused or the marker is stranded |
| `list` | 3 threads, 2 waiters, cache of 1, 3 uses; 51 thousand states | no dangling node, nothing left at reset, implements `OneShotSignal` with its liveness |
| `schedule` | 2 threads, 2 events, 2 paths, 6 modules, with a throwing module, an acquire and a shared run queue; 89 thousand states | implements `EventStream`, with liveness unless a call stays in a run queue that nobody serves; data is there when used; nothing of an event is left at the next |
| `schedule_diamond` | 2 threads, 1 event, 3 paths (one without filters), 5 modules | the same within an event when two threads ask for the same producer, one of them also through another producer; it has no run queue, so the liveness has no exception |
| `schedule_next_event` | the same, 2 events | violation: a late `announce` (6.2) |
| `event_processor` | the 315 ways in which three producers and a filter can get data of those before them, jobs with every class of module, up to 3 streams and 3 events, with 1 and 2 threads, exceptions, and what `main` refuses; 9 thousand states | each module has one queue; schedules are apart; what `finishSetup` finds is what is reachable without the module; `processAll` ends after all streams, with the exception if there was one; it does end, unless a call stays in the run queue that nobody serves; every event is taken once; `lastTask` is last |
| `openmp` | 14 jobs with up to 2 streams and 3 events: two streams that share queues, a diamond of requests, a rejecting filter, exceptions of a producer and of a filter, data got while a module works, no paths, what `main` or `getAsync` gives up; 91 thousand states | the assertions of `Event::get` and of the lists hold; no module works twice in an event; the region ends, with all work done unless a push has left its task in a run queue |
| `openmp_sync_get` | one event, a filter and a producer that are not thread safe | violation: `get` returns what nobody has put (6.3) |
| `dispatch` | 5 jobs: two streams with a module that waits for another, two paths that ask for the same in two events, a filter on two paths, a producer shared by two streams, every class | data is there when it is used and of this event; modules run as their type allows; nothing of an event is left at the next; the job ends |
| `single_threaded` | 3 events, 3 paths, every class of module, any first memory; 39 thousand states | no data of an event before; implements `EventStream` with its liveness from the second event on |

The exact numbers of configurations and states are TLC's to print; those above are rounded.

Four more `.cfg` files are kept beside the runs. They show, each in seconds and each with one violated property, disagreements 4 to 7 of section 6:
`SerialTaskQueueTeardownDoc.cfg` (`MCSerialTaskQueueTeardown`), `WaitingTaskListEarlyReset.cfg` (`MCWaitingTaskList`),
`ScheduleShared.cfg` and `ScheduleAcquireThrows.cfg` (both `MCSchedule`).

**Why the bounds are enough for the interesting cases.**
In the queue two threads meet at every pair of accesses of `pickNextTask`, including the second choice (which needs a push between
a failed `try_pop` and the store); three tasks are the least with which a task is stranded behind a
second choice, two groups the least with which a pick changes group, two pauses the least that nest.
In the list three threads give two announcers and an adder, or two adders and a `doneWaiting`; two waiters with a cache of one
node give a node outside the cache, a cache that grows at `reset`, and then a `reset` that
need not grow. In the schedule two threads are enough for one to stop anywhere in an event while the other does all the rest; two
events show what is carried from one to the next.

For `finishSetup` all ways in which four modules can get each other's data (without cycles) are tried; its recursion distinguishes
the module itself, its direct and its indirect dependencies and other modules that ask for them, and four modules have
all of these. In `EventProcessor` three streams are the least with which one ends while a second works and a third is not yet made.
In `OpenMP` and `Dispatch` two streams are the least that share a queue, two paths the least that ask for the same, and a second
event shows what is left of the first. In `SingleThreaded` the third event is the second one whose beginning is not decided by
memory that was never set.

The run `schedule` deliberately uses modules that are not asked for by two threads at once across events: where they are, the
code has 6.2 and 6.6. Within one event concurrent
requests are what `schedule_diamond` checks. All bounds are constants of the `.cfg`
files (`MaxPauses`, `MaxUses`, `NEvents`) and appear in guards; a behaviour that has used them up stops, which is why deadlock is
not checked: a queue, list or stream with nothing to do is a legal end, and that work is not *stuck* is said by
the liveness properties.

Every property of a passing run has a mutant in `PROJECT.json`, a version of one mapped definition with one
mistake in it (a second look left out, a store for an exchange, a reference not counted, a test not made), under which
the property fails.

## 4. Fairness

* Threads go on with the call they are in (`WF` of `Step` or `Proceed` for each): the operating system schedules them,
  and no step waits on a lock. The spin in `announce` is a step that is not enabled until the other thread
  has linked its node.
* A task given to a task group is begun by some thread (`WF` of `Begin`, of `TakeReady`): TBB promises
  this to whoever waits for the group, as `processAll` and the destructor do. It is weak fairness over all ready tasks and
  threads together, not for each.
* That a run queue serves the calls pushed into it is a promise of `SerialTaskQueue` and not of TBB, and the queue breaks it (6.1). So `ServeQueue` of
  `Schedule` and `PickLate` of `EventProcessor` have no fairness, and the liveness properties of both have the exception that a call stays in a queue that nobody
  serves (`<>[]Stranded(q)`, `<>[]StrandedCall`). When that can be is what the run `queue` says: `PushExecutedUnlessLostRace`. Put together, an
  event ends, and a job, unless the race is lost in one of its run queues. `Schedule` leaves open when a queue may do so; in `EventProcessor` it takes several
  threads, and in `OpenMP` two tasks of the queue that have finished.
* In the queue clients balance each `pause()` by a `resume()`, which the class demands of them
  (`SerialTaskQueue.h:86-87`). The teardown run has no such assumption and states the exception
  instead.
* In the schedule somebody who was given a holder by `acquire()` drops it in the end.
* Nothing is assumed of clients otherwise: pushes, adds, `doneWaiting`, failures of other streams may or may not happen.
  No strong fairness is used.
* In `EventProcessor` the main thread, each stream, and the last task go on (`WF` of each): with a task in a group
  somebody waits for, or with a thread besides the main one, TBB runs it. With one thread tasks run only while it waits, which is a guard.
* In `OpenMP`, `Dispatch` and `SingleThreaded` `WF` of `Next` is enough, and the least that can be assumed: some thread goes on as
  long as one can. Nothing in these jobs can be overtaken for ever, since every job has finitely many steps.

## 5. What is proved

Every theorem holds for all values of the constants that satisfy the assumptions of its module, named below. The method is the same
everywhere: an inductive invariant in named parts, one lemma for each action, one step for each part the action can disturb;
TLC checked the invariant on the instances of section 3 before it was proved, but for `EventInv` of `Dispatch`, which says of what form things are:
TLC cannot enumerate the forms. That of the queues it checked on the jobs of the run `dispatch`.

### The run queue

`SerialTaskQueueProofs`, under `QueueAssumption` (every
task has a group, the null task and null group are no task and no group, the bound is a number):

| Theorem | Statement |
|---|---|
| `Invariance` | `Spec => []IndInv` |
| `TypeCorrect` | `Spec => []TypeOK` |
| `Exclusion` | `Spec => []MutualExclusion`: one task at a time, whatever thread or group |
| `Conservation` | `Spec => []NothingLost`: executed, in hand and queued tasks are the pushed ones in order |
| `Stranding` | `Spec => []OnlyLostRaceStrands`: only the race at the second clear can leave a task in a quiet queue |
| `PauseStops` | `Spec => PauseStopsNewPicks` |
| `Refinement` | `Spec => ExecutorSpec`: the queue implements `SerialExecutor` |

The inductive invariant `IndInv` is one the run `queue` checks too:

* `TaskHeld`: a thread has a task in its hand exactly at the labels where the code has one.
* `ChosenMeansHeld`: `m_taskChosen` is possession. It is set exactly when one thread is between
  winning and giving up the choice, or one task is spawned and not begun, and never two of these. Mutual exclusion
  by itself is not inductive: a state with two spawned tasks and no thread at `run` satisfies it.
  What needs the whole conjunct is the plain store of `false`: it is right only because nobody else can hold the choice.
* `NothingLost`: needs `ChosenMeansHeld`, as a pop may happen only with nothing in hand
  (`NothingInHand`, `OneInHand`).
* `SomeoneWillLook`: with tasks queued and no pause somebody has the choice or is on the way
  to try for it, as long as the race was not lost. It is why the code has the `empty()` between its two choices, and
  `Recheck` left out breaks it.

`Refinement` maps `started` to the number of tasks popped: `Pop` is `Start`, `Execute` is
`Complete`, everything else stutters.

The last part of the module adds the destructor, and there alone `TeardownAssumption` is used (one of the threads is the destroyer, the marker has a group of its own).
`TeardownIsQueue` (`TSpec => Spec`) shows that the destructor makes the queue take no step it could not take
before, so every theorem above holds during destruction. `WaitedForAll` (`TSpec => []WaitedMeansCompleted`): a
destructor that waited leaves after all tasks. Its invariant adds to `IndInv` that no task is pushed twice and that the
marker is the last (`MarkerIsLast`); with `NothingLost` the marker has then run after all others.

### The list of waiting tasks

`WaitingTaskListProofs`, under `ListAssumption` (sizes and bounds are numbers, the null address is no address and no thread):

| Theorem | Statement |
|---|---|
| `Invariance`, `TypeCorrect` | `Spec => []IndInv`, `Spec => []TypeOK` |
| `NoneDangles` | `Spec => []NoDanglingNode`: no access to a node that was freed |
| `NoneLeft` | `Spec => []NothingLeftOver`: when nobody is in the list and it waits no more, nobody is left in it |
| `Refinement` | `Spec => SignalSpec`: each waiter is released once, after `doneWaiting`, with its exception |

Reachability through pointers would need induction over data. The module therefore carries the order of nodes as
history (`list`, `batch`), and the invariant says how memory relates to it:

* `HeadsAgree`: `m_head` is the first of the list, a thread's `node` the first of its batch and `other` the second.
* `OnePlace`: a node is in one place of one list or batch, or in the hands of one adder that has not swapped it in.
* `Links`: `next` of a node is the one after it or, as long as its adder has not linked it, itself. The adder between swap and link knows
  where its node is; the batch may have been taken by another thread meanwhile. This is what the spin in `announce` relies on.
* `Allocated`: a node outside the cache exists only as long as it is in use, and one of the cache is handed out once.
* `InOrder`: nothing is released before `doneWaiting`.
* `SomeoneWillTake`: a list that waits no more and is not empty has a thread that will take it, the one that found it empty when it added, until it has looked again.
* `OneTask`: an added waiter is in one node, in one thread's hands, or has been released once.

`NoDanglingNode` holds for the documented use of `reset` only; what the framework does is 6.5.

### The events of a stream

`ScheduleProofs`, under `ScheduleAssumption` (types of the constants; no path is twice in the `Schedule`, and no producer
twice among the getters of a module), for any modules, paths, queues, threads and number of events:

| Theorem | Statement |
|---|---|
| `TypeCorrectness` | `Spec /\ []NoLateLook => []TypeOK` |
| `DataInTime` | `Spec /\ []NoLateLook => []GetsItsData` |
| `QuietResets` | `Spec /\ []NoLateLook => []QuietBetweenEvents` |
| `FirstEvent` | `Spec => [](m_seenEvents <= 1 => TypeOK /\ GetsItsData /\ NothingHeld)` |
| `OneThread` | with one thread, `Spec => [](TypeOK /\ GetsItsData /\ QuietBetweenEvents)` |

`GetsItsData` does not hold of the code as it is: the run `schedule_next_event` shows how it fails (6.2). The first three theorems say that nothing else can make
it fail. `NoLateLook` is that: when an event is over no thread is still about to look again at a list (`recheck`), to
exchange `m_workStarted` (`start`), or to take a list (`announce`). These are the calls that hold no reference to
a task, so they do not keep the event open. It is the hypothesis of just the step that begins the next event: all other steps preserve the
invariant without it. `FirstEvent` and `OneThread` have no such hypothesis: in the first event there is no event before it
to be late from, and a thread that is alone takes `recursiveTask` only when it has left every call. `NothingHeld` is `QuietBetweenEvents` but for the late
calls: even when there are some, nothing is held and no module runs when an event is over.

The invariant `IndInv` says where everything is. Its parts:

* `Counted`: a task that can wait has at least as many references as there are holders of it, calls or lists, so it cannot get
  ready while somebody is still to tell it something. Calls are counted by their places in the stacks of the threads, since
  two equal calls may be under way. It is "at least" and not "as many": the next conjuncts need no more.
* `OneStage`: a started module is in one place, from its prefetching through its tasks and queues to its end, and its list waits as
  long. `PathsInOrder` is the same for a path, `OneEvent` for the stream.
* `NoneInCircle`: of any set of modules that are started and wait, one has a waiter in its list who is not the task of a module in the
  set. It is why no module can keep an event from ending without somebody who waits, in the end, for a path: when all paths are done, the set of all modules that wait
  must be empty. Modules that get data from each other in a circle are not excluded by an assumption: they wait for ever, and the event
  is not over. Stated module by module it would not be inductive.
* `Looks`: a module that nobody has started has a waiter in its list, or about to enter it, before anybody looks at `m_workStarted`.
* `Prefetched`: for each producer a module gets from, the answer is there or somebody who holds the module's task is on the way to it. `Produced` and `DataThere` follow the data
  from the producer to the module's call, in the queue, at `acquire()` and outside.

### The stream implements `EventStream`

`ScheduleRefinement` extends `ScheduleProofs`. It has no further assumption.

| Theorem | Statement |
|---|---|
| `ScheduleImplementsStream` | `Spec /\ []NoLateLook => StreamSpec` |
| `OneThreadImplementsStream` | with one thread, `Spec => StreamSpec` |

`StreamSpec` is what the runs `schedule` and `schedule_diamond` check, without the fairness. The hypothesis is the one above, and cannot be left
out: after 6.2 a module works before its data is there, which no step of `EventStream` allows.

The mapping reads the flags of the wrappers (`asked` are the modules with `m_workStarted`, `kept` is `m_keep`, `broken` are the modules whose
list has been told of an exception). Most actions change nothing of that; `StartWork` is `Ask`, the three ends of a
call of the module are `Run` and `Break`, `EventDone` is `End`, `NextEvent` is `Begin`. That each of them may take its step is where the work
is, and `IndInv` does not say it: it follows references, not decisions and exceptions. `StreamInv` adds

* `Marks`: what the flags of a wrapper say of each other in an event, and of how often it ran.
* `Opened`: between events nothing is there but the call that begins the next one, and it comes only after an event without exceptions.
* `MetAt`: a task is in the list of a module, or on its way there, only if it is the task of a module that gets from it, or of the path that
  has come to it. With `Looks` of `IndInv`, somebody is in the list of every module that gets started, so that `StartWork` is an `Ask`.
* `OnPaths`: a path that is at its filter has been kept by those before; a path that is nowhere is over, by a filter that did not keep the
  event or by the flag for fatal errors. `EventDone` needs it for each path.
* `Excepted`: a task is told of an exception only when a module failed that it waits for. A module fails only for a reason.
* `Noticed`: as long as the event is open and a module of it has failed, the exception is on its way: in a started module that gets from
  the failed one, in a path that is at it, or in the tasks at the end. It is why `EventDone` cannot miss a failure. Only the first exception a
  task is told of is kept; so it speaks of some exception and not of each, which would be false.

Where this needs `IndInv` most is the end of an event: `NoneInCircle` gives that no started module waits and `Counted` that no task
has a reference; what is then left of `OnItsWay` is that the task that ends the event has the exception. TLC checked `StreamInv` on the instances
of `schedule` and `schedule_diamond`, as far as `NoLateLook` holds, before it was proved.

### The event loop and the configuration

`EventProcessorProofs`, under `EventProcessorAssumption` (a configuration has at least one stream and one thread, and
`MaxConcurrentEvents` bounds its streams):

| Theorem | Statement |
|---|---|
| `Invariance`, `TypeCorrect` | `Spec => []IndInv`, `Spec => []TypeOK` |
| `LastIsLast` | `Spec => []LastTaskIsLast`: the last task runs after all streams that were started |
| `OnceEach` | `Spec => []EveryEventOnce` |
| `AllReturned` | `Spec => []ReturnsAfterAll`: all streams have ended, nobody is in the run queue, it throws if and only if one failed |
| `SchedulesStay` | `Spec => SchedulesStayPut`: the vector does not move when a stream holds a reference into it |

`Counted` is the part that carries the others: the count of holders of `lastTask` is one for each stream that has started and not
ended and one for the main thread within a turn of its loop. It is a statement about cardinalities, and each step changes the set of active streams by at
most one element. `GivenOut` bounds how often the source is asked too often, `FailureKept` follows an exception from a stream
to `lastTask`, `RoomForAll` relates the vector to the turn of the loop. `QueueAgrees` says who is in the run queue and who is served, and not that somebody
is served when the queue has calls, which 6.1 makes false.

The second part of the module adds what the wrappers, lookups and paths are, for any configuration:

| Theorem | Statement |
|---|---|
| `BuiltAsConfigured` | `Spec => []Built` |
| `OneQueue` | `Spec => []ModuleHasOneQueue`: the wrappers of a module share its queue in all streams, and those of different modules have the queue their type asks for |
| `ApartAlways` | `Spec => []SchedulesAreApart`: no wrapper, lookup or path of a stream reaches into another stream's |

`ConfigurationAssumption` has besides types that two producers of a configuration make no datum of the same label: with two of
them `Event::addProducer` leaves an entry whose producer `clone` does not find, and what the code does then is undefined.
`WrappersAreOf` says that a wrapper is determined by its module, its owner and its stream; the owner is the wrapper it
is a clone of, which is what `clone` keeps and the constructor makes anew.

### The single threaded framework

`SingleThreadedProofs`, under `SingleThreadedAssumption` (types of the configuration, labels used once, a number of iterations that fits
into an `unsigned int` with one to spare):

| Theorem | Statement |
|---|---|
| `Invariance`, `TypeCorrect` | `Spec => []IndInv`, `Spec => []TypeOK` |
| `ReadsFreshData` | `Spec => []FreshData`: no module reads data of an earlier event, but for the first event with a `m_wasRun` that was garbage |
| `PathsInSequence` | `Spec => [](Ran /\ InSequence)`: how far the paths are is what the stack says, and what counts as run has run in this event |
| `ImplementsStream` | `Spec => StreamSpec`: from the second event on it implements `EventStream`, but for the fairness |

The program is one recursive call and its invariant describes a stack. `StackMade` says what each call is to the one that
made it (`CalledBy`: a `set` belongs to the `prefetch` below it, which has got everything it has asked for except this key), and of the innermost call alone what has been
done so far (`Innermost`). A stronger statement about all frames would be false: producers may get from each other in a
circle, and then a call further down has the same module. That such a circle is not entered a second time comes out of
`RunMeansPut`: a module works when all it gets has been got, so all its makers have run, but the maker in a call
further down has not. The `Getter`s and the lookup keep their data from one event to the next; `RunMeansPut` is what tells new from
old: a producer that has run in this event has put in this event.

`ImplementsStream` is proved of any configuration, jobs that end in the middle of an event included. Its invariant `StreamInv` adds four
parts. `AsConfigured` and `PathsRead` relate what main has made to the configuration, on which the `Gets` and the paths of `EventStream`
depend. `Ran` is the converse of the part of `IndInv` that makes a module run once: what counts as run has run in *this* event. It is what the
resets are for, and why the first event is left out: there it holds of the filters on paths only. `InSequence` says how far the
Schedule is: the paths before the one that the stack shows are over, that one has come to the filter it shows, and those after it are
what is left. When a module is asked for, `InSequence` gives the path that has come to it, or the stack the module that gets
from it and has not run; when it runs, `Innermost` says that all it gets has been got, and `Ran` that their producers have run; and when
`Schedule::process` returns, no call is left, so nothing that was asked for can be still to run.

### The libdispatch framework

`DispatchSteps` and `DispatchProofs`, under `DispatchAssumption` (types of the configuration, labels used once; the
number of events at once is a number and may be 0, for which `main` makes one stream):

| Theorem | Statement |
|---|---|
| `InOrderAlways` | `Spec => []EventInv` |
| `NothingIsLeftOver` | `Spec => []QuietBetweenEvents`: when a stream begins an event, nothing of the one before can still happen |
| `QueuesInOrder` | `Spec => [](EventInv /\ QueueInv(gcd, m_wasRun))` |
| `ModulesOneAtATime` | `Spec => []OneAtATime`: no module is in two threads unless its type allows that, and of those that are not thread safe all but one wait |
| `DispatchTypeOK` | `Spec => []TypeOK`: among others, no group is left more often than entered and no queue resumed more often than suspended |

The code never says that an event is over; it says that a group is empty. `EventInv` therefore counts. What a call *owes* (`One`) is a leave of a group,
by itself or at the end of what it begins, or that a stream goes on; `Count` is the sum over the blocks that run (as many copies as there are), those that
wait in a queue and those that wait for a group. `DispatchSteps` shows what each function of libdispatch does to these sums, whatever the calls are, and
what each handler does to them; `DispatchProofs` puts the steps together. The parts of the invariant:

* `Groups`: a group has been entered exactly as often as somebody owes it a leave. Exactly and not "at least", as both
  directions are used: nobody leaves a group that nobody has entered, and an empty group means that nothing is owed.
* `Blocks`: each block has a list of calls that the code can make, in that order (`Fits`): a module that works ends its work later in the same block,
  a call that prefetches leaves the group it works for, and so on. What waits for a group is of the form the code gives it.
* `EventLoop`: each stream is gone on with at most once, and while its paths are not over somebody has said, or is about to
  say, what to do when they are.
* `NoneInCircle`: of any set of producers that somebody is busy with, one is waited for by a module outside the set. This is why producers that get from each
  other in a circle cannot let an event end: they would wait for ever, and the group of the path stays entered. As in `Schedule`, it is a
  statement about sets; of single modules it is not inductive.
* `Requests`: a module that has not got its data has somebody, or a block at its group, to go on when it has. It would be false without the extra entry that
  `prefetchAsync` makes for its own time.
* `Locks`: the group of a module that waits in `Event::get` for the queue is left only by the block it waits for.
* `Begun`: only streams that were started have anything to do.

`QuietBetweenEvents` follows. A stream that begins an event is gone on with once, so the paths' group, on which that depends, owes nothing. A producer that
somebody is busy with would be in the largest set of such producers; by `NoneInCircle` one of them is waited for by a filter or a module outside,
which is itself busy, works for a path, and the path would owe the group. With no producer and no filter busy nothing is owed to any request, and with nothing owed all groups are
empty by `Groups`, and no block that has anything to do for the stream is left.

`OneAtATime` needs a second invariant on top of the first. A module that is not thread safe suspends the queue of its instances, has the
queue of all such modules suspended by a block in that queue, works in the global queue and resumes both; in `Event::get` it resumes the second and asks for it
again. That a serial queue runs one block (`Serial`) says nothing of such a module, which is not in its queue; `QueueInv` says what stands for it:

* `Shapes`: each block is where its calls may be made, whether it runs, waits in a queue or waits for a group. A module that is not thread safe works with two resumes behind it,
  the others in the queue of their type; the block that is to suspend a queue runs in it; the block that lends a queue waits for its lock before it works. It is
  a statement about a sequence of calls and what comes after each of them, so making the first call of a block leaves the rest as it was.
* `OwnQueues`: the queue of a module's instances is suspended at most once, and at most one resume of it is owed (`Count` again), only while it is suspended.
* `UnsafeQueue`: a block that has the queue of all modules that are not thread safe and has not lent it (`Holder`) is the only one, and the queue is
  suspended. One that waits for its lock is a holder as soon as the lock's group is empty, before it has noticed; this is where `Locks` of
  `EventInv` is needed: nobody but the block it waits for leaves that group, and that block runs in the queue itself.
* `OtherQueues`: no other queue is ever suspended, so no module that runs in its queue is stopped.

`QueueInv` depends on `m_wasRun`: a filter that has run is called again by the next path without a queue, and does nothing. `OneAtATime` then follows case by case: two blocks
inside a module that is not thread safe owe a resume of one queue, which is owed once; two inside another share a serial queue; and two that hold the queue of all are one.
`TypeOK` follows from both invariants and from which wrappers there are.

The theorems hold with the race of the source's counter in them, and for configurations whose producers get data in circles or that nobody makes.
What modules do when `get` finds nothing does not matter to them.

### What is only model-checked

* All liveness, out of the proof system's reach: what `queue`, `teardown`, `list`, `schedule`, `event_processor`, `openmp`, `dispatch` and
  `single_threaded` say of it. The refinements of `EventStream` are runs with fairness; all but the fairness is proved.
* `WaitsForWhatOthersAsk`: the recursion of `finishSetup` is induction over the graph of modules, which the installed provers cannot
  do. TLC compares it with reachability for all graphs of four modules.
* `GetsItsData` of `Dispatch`, and `TypeOK` and `AssertionsHold` of `OpenMP`: see section 8.

TLC covers these for the instances above and nothing is claimed beyond them.

## 6. Where code and documentation disagree

Numbers 1 to 3 are findings of runs; 4 to 7 are shown by the `.cfg` files named in section 3.

1. *A stranded task* (`queue_stranded`, `SerialTaskQueue.cpp:114`). A thread finds the queue empty, undoes its choice,
   sees a task that has come meanwhile, chooses again and finds that another thread has already taken it (and finished). It
   undoes its choice and returns without looking a third time. A push whose compare-exchange failed because of that second
   choice has returned already; its task waits until some later `push` or `resume`. `SerialTaskQueue.h:107`
   promises that it will run. If the task is a module's call and nothing else is pushed, its event never ends: on TBB the stream stops, `lastTask` keeps a holder, and
   `processAll` goes round its loop of waits for ever; on OpenMP (lines 75-81 there) no task is left, so the region ends and `processAll`
   returns, with an event that is not over. Three calls in one queue are enough, if nothing is pushed after the third. That is the exception in
   `StreamFairUnlessStranded`, `FinishesUnlessStranded` and `ProcessesAllUnlessStranded`.
2. *A late announce* (`schedule_next_event`, `WaitingTaskList.cpp:99`). After `m_waiting` is false the waiters can be released by
   an `add` that looks again, so the event can end before `doneWaiting` gets to its own
   `m_head.exchange`. That then takes a waiter of the next event and releases it before its data is there.
3. *A resume without a pause* (`openmp_sync_get`, `src/OpenMPProcessingDemo/OpenMPFrameworkCore/Event.cpp:197`). The comment
   above it says that the calling module has halted the queue of modules that are not thread safe; nothing halts it. The
   unsigned pause count wraps to its greatest value and the queue picks no task any more. The region that `get` opens for the producer has nothing to do and ends, `get`
   returns a value that was not put, and in the end `processAll` returns although events wait in the queue.
4. *The inverted `isPaused`* (`SerialTaskQueue.h:79`, `SerialTaskQueueTeardownDoc.cfg`). It returns
   `m_pauseCount==0`. The destructor therefore does not wait for a queue that is not paused, not empty, and between a
   `finishedTask` and the next choice.
5. *A freed node* (`WaitingTaskList.cpp:117`, `WaitingTaskListEarlyReset.cfg`). `announce` reads `m_fromCache` of a node
   after it has released the node's task. The comment at line 94 says the next event may begin as soon as that; its `reset` may delete the cache
   the node is in.
6. *A late start* (`ModuleWrapper.cpp:121`, `ScheduleShared.cfg`). As 2, for `m_workStarted`: a path that has added its
   task and has not yet made the exchange does not keep the event open when another path does the work. Its exchange in the next event
   starts the filter ahead of the filters before it.
7. *A lost exception* (`ModuleWrapper.cpp:158`, `ScheduleAcquireThrows.cfg`). What `acquire` throws is assigned to a
   parameter nobody reads again, while the holder destroyed by the unwinding starts the module as if all were well.

Seen while modelling, with nothing in the repository that says otherwise, and so described and not claimed as findings:

* `lastTask` may have run before `processAll` makes its next holder of it (`EventProcessor.cpp:224`), when the streams started so far have all
  ended, as they do in a job without events. The phase `"dangling"` is that; `LastTaskIsLast` says that it happens in no other way.
* `processAll` may leave its loop with `lastTask` not yet gone from a group that was waited for before (`"missing_wait"`).
  `ReturnsAfterAll` says that this needs modules that share a queue.
* `finishSetup` recurses for ever when the configuration has a cycle; what it computes is read by nobody.
* A producer with two products would get a wrapper, a queue and a deleter for each. No test module has two.
* `processAll(0)` uses the first of no task groups (TBB); a test module takes the index modulo the number of its `eventTimes`, which may be
  0. Assumptions of the models exclude both.
* The source of the single threaded framework keeps its counts in `unsigned int`s: a number of iterations that does not fit is cut off, and
  with the greatest one the counter wraps and the job never ends (`src/SingleThreadedProcessingDemo/main.cpp:44`); excluded by assumption.
* A producer of the single threaded framework may never run in the first event, if the memory it is made in says that it has: `m_wasRun` is
  first set by the first `reset`, which only filters on paths get before the first event. `FreshData` has the exception.
* `Event::get` by label of the OpenMP framework returns without the data also when the producer was started by somebody else, or
  waits in a queue another team's thread serves (`Event.cpp:70` there): the region waits for its own tasks. The run `openmp` keeps to producers that
  nobody else asks for and that have no queue.
* Of the Dispatch framework: two streams may take the same event or more events than there are (`SimpleSource.cpp:23`), and
  queues may be resumed through a wrapper after `processAll` has returned (`PrefetchAndWorkWrapper.cpp:46`).

A weaker reading was taken in one place: the comment on `pause()` (`SerialTaskQueue.h:84-85`) can be read as saying that no
task is started after it. The code guarantees `PauseStopsNewPicks`: a pick that has
passed its test of `m_pauseCount` may still take one task.

## 7. What is not modelled, and why

* Deletion of tasks and wrappers: `WaitingTask`s made by `make_waiting_task` are freed after they have
  run. In the models tasks are not objects in memory.
* Memory orders. All atomics are sequentially consistent in the models, as they are in the code, which names no other order.
* The values of data (only which event they are from, where it matters), the timing of test modules, logging, JSON, the measurement of
  times, the number of threads but where it decides what can run (`EventProcessor`).
* `mustWaitFor`, `isADependentModule`, the mightGet lists beyond `finishSetup`, `pushAndWait`, `ModuleThreadStack`, `task_helpers.h`,
  `PathFilteringCallback` of TBB and OpenMP: no framework code calls them (a unit test calls `pushAndWait`).
* TBB's synchronous `Event::get`: `Schedule` has prefetched data only. Those of OpenMP and Dispatch are modelled.
* A filter on two paths in `OpenMP`, with several events: it has 6.6, which the coarser steps would hide. The `dispatch` run has one, in one event.
* Exceptions in the Dispatch and the single threaded framework: they catch none.
* Unit tests (read for how the classes are meant to be used), calibration, data, scripts, slides.

## 8. What is left

1. Proofs: `GetsItsData` of `Dispatch`, which has to follow data from `put` to `reads` through the groups. Then `OpenMP`: its tasks are those of `Schedule`
   with several streams, so `Counted`, `OneStage` and `NoneInCircle` are the invariants to begin with.
2. Life of tasks: a model of `WaitingTask` and its holders with deletion, and the run of a task in an arena.
3. The synchronous `get` of TBB in `Schedule`, which runs other tasks inside the call.
