------------------------------ MODULE Dispatch ------------------------------
(***************************************************************************)
(* The framework on libdispatch: main builds the job, processAll makes a   *)
(* Schedule for each stream, and from then on everything is a block in a   *)
(* queue.  Groups tell when data has been got and when paths are over; a   *)
(* module runs in a serial queue of its own, and one that is not thread    *)
(* safe suspends that queue and the one all such modules share.            *)
(*                                                                         *)
(* A wrapper is a pair of a stream and a datum, the pair of a label and a  *)
(* product; the one of a filter has no product.  A block is the sequence   *)
(* of the calls it has still to make.                                      *)
(***************************************************************************)
EXTENDS DispatchTestModules, Integers, Functions

Bags == INSTANCE BagsExt

CONSTANT Configurations     \* what the configuration file may be

\* Lists of filters, producers and paths, with labels that differ.
ASSUME DispatchAssumption ==
    \A c \in Configurations :
        /\ c.filters \in Seq(Range(c.filters)) /\ c.producers \in Seq(Range(c.producers))
        /\ c.paths \in Seq(Seq(STRING))
        /\ \A m \in Range(c.filters) \cup Range(c.producers) : m.toGet \in Seq(Range(m.toGet))
        /\ \A i, j \in DOMAIN (c.filters \o c.producers) :
              (c.filters \o c.producers)[i].label = (c.filters \o c.producers)[j].label => i = j
        /\ c.nSimultaneousEvents \in Nat

VARIABLES
    pConfig,        \* what it is
    phase,          \* what main is at
    rest,           \* of the list it reads
    module,         \* the modules made so far, by label
    m_lookupMap,    \* the keys of every Event
    m_paths,        \* sequences of filters
    m_schedules,    \* how many there are
    m_wasRun, m_requestedPrefetch, m_keep, m_wasCached,
                    \* the wrappers of which each is true
    m_seenEvents,   \* of the source
    gcd,            \* libdispatch: groups, queues and running blocks
    taken, datum    \* history: the events each stream has begun, and the one
                    \* a datum was last put in

setup    == <<pConfig, rest, module, m_lookupMap, m_paths, m_schedules>>
wrappers == <<m_wasRun, m_requestedPrefetch, m_keep, m_wasCached>>
source   == <<m_seenEvents, taken>>
vars     == <<phase, setup, wrappers, source, gcd, datum>>

NStreams == IF pConfig.nSimultaneousEvents > 1 THEN pConfig.nSimultaneousEvents ELSE 1
Streams == 0 .. NStreams - 1

-----------------------------------------------------------------------------
(* The calls that blocks make. *)

submit(q, block) == [call |-> "submit", queue |-> q, block |-> block]
leave(g)  == [call |-> "leave", group |-> g]
wait(g)   == [call |-> "wait", group |-> g]
resume(q) == [call |-> "resume", queue |-> q]

event(s)         == [call |-> "event", stream |-> s]
count(s, seen)   == [call |-> "count", stream |-> s, seen |-> seen]
startPaths(s, p) == [call |-> "startPaths", stream |-> s, path |-> p]
path(s, p)       == [call |-> "path", stream |-> s, path |-> p]
scheduleDone(s)  == [call |-> "scheduleDone", stream |-> s]

\* What is to be done by w, or by the filter w at a place of a path.
Job(name, w, at) == [call |-> name, wrapper |-> w, at |-> at]

getAll(w, keys)     == [call |-> "getAll", wrapper |-> w, keys |-> keys]
getMissing(w, n)    == [call |-> "getMissing", wrapper |-> w, producer |-> n]
awaitProducer(w, n) == [call |-> "awaitProducer", wrapper |-> w, producer |-> n]
produceImpl(n)      == [call |-> "produceImpl", wrapper |-> n]

reads(w, keys) == [call |-> "reads", wrapper |-> w, keys |-> keys]
syncGet(n)     == [call |-> "syncGet", producer |-> n]
sync(w)        == [call |-> "sync", wrapper |-> w]
lock(w)        == [call |-> "lock", wrapper |-> w]
filtered(w)    == [call |-> "filtered", wrapper |-> w]
put(n)         == [call |-> "put", wrapper |-> n]
ran(n)         == [call |-> "ran", wrapper |-> n]

-----------------------------------------------------------------------------
(* libdispatch.  A group counts who has entered it, and knows what to submit *)
(* when all have left.  A serial queue runs one block at a time, and begins  *)
(* none while it is suspended.  The global queue runs all it is given.       *)

Global == <<"global">>      \* s_thread_safe_queue

QueueOf(d, q) == IF q \in DOMAIN d.queues THEN d.queues[q]
                 ELSE [blocks |-> <<>>, suspended |-> 0, busy |-> FALSE]
SetQueue(d, q, r) ==
    [d EXCEPT !.queues = [x \in DOMAIN @ \cup {q} |-> IF x = q THEN r ELSE @[x]]]

dispatch_async(d, q, block) ==
    IF q = Global
      THEN [d EXCEPT !.running = Bags!BagAdd(@, [queue |-> q, calls |-> block])]
      ELSE SetQueue(d, q, [QueueOf(d, q) EXCEPT !.blocks = Append(@, block)])

dispatch_suspend(d, q) == SetQueue(d, q, [QueueOf(d, q) EXCEPT !.suspended = @ + 1])
dispatch_resume(d, q)  == SetQueue(d, q, [QueueOf(d, q) EXCEPT !.suspended = @ - 1])

CopiesIn(x, bag) == IF x \in DOMAIN bag THEN bag[x] ELSE 0

Entered(d, g) == CopiesIn(g, d.groups)

dispatch_group_enter(d, g) == [d EXCEPT !.groups = Bags!BagAdd(@, g)]

\* Blocks that wait until all have left.
Waiting(d, g) == IF g \in DOMAIN d.notify THEN d.notify[g] ELSE <<>>

dispatch_group_notify(d, g, q, block) ==
    IF Entered(d, g) = 0 THEN dispatch_async(d, q, block)
    ELSE [d EXCEPT !.notify = [x \in DOMAIN @ \cup {g} |->
                                  IF x = g THEN Append(Waiting(d, g), submit(q, block)) ELSE @[x]]]

\* Whoever is the last to leave has to submit them.
IsLast(d, g) == Entered(d, g) <= 1

dispatch_group_leave(d, g) ==
    [d EXCEPT !.groups = Bags!BagRemove(@, g),
              !.notify = IF IsLast(d, g) THEN [x \in DOMAIN @ \ {g} |-> @[x]] ELSE @]

ToSubmit(d, g) == IF IsLast(d, g) THEN Waiting(d, g) ELSE <<>>

dispatch_group_async(d, g, q, block) ==
    dispatch_async(dispatch_group_enter(d, g), q, Append(block, leave(g)))

\* Block b goes on with other calls, or ends.
GoOn(d, b, calls) ==
    LET without == [d EXCEPT !.running = Bags!BagRemove(@, b)]
    IN IF calls # <<>>
         THEN [without EXCEPT !.running = Bags!BagAdd(@, [b EXCEPT !.calls = calls])]
         ELSE IF b.queue = Global THEN without
                ELSE SetQueue(without, b.queue, [QueueOf(d, b.queue) EXCEPT !.busy = FALSE])

-----------------------------------------------------------------------------
(* The queues and groups of the framework. *)

s_non_thread_safe_queue == <<"non_thread_safe">>

ThreadType(w) == module[w[2][1]].threadType

\* Mutant of runQueue: each wrapper has a queue of its own.
runQueueOfItsOwn(w) == <<"run", w[1], w[2]>>

\* That of the first Schedule, unless instances may run at once.
runQueue(w) ==
    <<"run", IF ThreadType(w) = "kThreadSafeBetweenInstances" THEN w[1] ELSE 0, w[2]>>

prefetchGroup(w)      == <<"prefetch", w>>
m_group(w)            == <<"produce", w>>
m_allPathsDoneGroup(s) == <<"paths", s>>
m_eventLoopGroup      == <<"loop">>

FilterAt(s, p, i) == <<s, <<m_paths[p][i], "">>>>

-----------------------------------------------------------------------------
(* main, up to processAll *)

Join(f, g) == [x \in DOMAIN f \cup DOMAIN g |-> IF x \in DOMAIN g THEN g[x] ELSE f[x]]

Becomes(next, list) == phase' = next /\ rest' = list

Init ==
    /\ pConfig \in Configurations
    /\ phase = "filters" /\ rest = pConfig.filters
    /\ module = <<>> /\ m_lookupMap = {} /\ m_paths = <<>>
    /\ m_schedules = 1
    /\ m_wasRun = {} /\ m_requestedPrefetch = {} /\ m_keep = {} /\ m_wasCached = {}
    /\ m_seenEvents = 0
    /\ gcd = [groups |-> <<>>, notify |-> <<>>, queues |-> <<>>, running |-> <<>>]
    /\ taken = [s \in Streams |-> 0] /\ datum = <<>>

unchangedBySetup == <<pConfig, m_schedules, wrappers, source, gcd, datum>>

\* The next filter of the file is made and wrapped.
addFilter ==
    /\ phase = "filters"
    /\ IF rest = <<>>
         THEN Becomes("producers", pConfig.producers) /\ UNCHANGED module
         ELSE LET f == CreateFilter(Head(rest))
              IN IF f = NoModule
                   THEN Becomes("exit", <<>>) /\ UNCHANGED module
                   ELSE /\ Becomes("filters", Tail(rest))
                        /\ module' = Join(module, [l \in {f.label} |-> f])
    /\ UNCHANGED <<m_lookupMap, m_paths, unchangedBySetup>>

\* Event::addProducer makes a DataCache for each product.
Entries(n) == {n.label} \X n.m_products

\* The next producer.
addProducer ==
    /\ phase = "producers"
    /\ IF rest = <<>>
         THEN Becomes("paths", pConfig.paths) /\ UNCHANGED <<module, m_lookupMap>>
         ELSE LET n == CreateProducer(Head(rest))
              IN IF n = NoModule
                   THEN Becomes("exit", <<>>) /\ UNCHANGED <<module, m_lookupMap>>
                   ELSE /\ Becomes("producers", Tail(rest))
                        /\ module' = Join(module, [l \in {n.label} |-> n])
                        /\ m_lookupMap' = m_lookupMap \cup Entries(n)
    /\ UNCHANGED <<m_paths, unchangedBySetup>>

\* Schedule::findFilter
FilterFound(l) == l \in DOMAIN module /\ module[l].base = "filter"

\* Schedule::addPath: the filters of a path must have been found.
PathMade(names) == \A l \in Range(names) : FilterFound(l)

\* The next path.
addPath ==
    /\ phase = "paths"
    /\ IF rest = <<>>
         THEN Becomes("clone", <<>>) /\ UNCHANGED m_paths
         ELSE IF PathMade(Head(rest))
                THEN /\ Becomes("paths", Tail(rest))
                     /\ m_paths' = Append(m_paths, Head(rest))
                ELSE Becomes("exit", <<>>) /\ UNCHANGED m_paths
    /\ UNCHANGED <<module, m_lookupMap, unchangedBySetup>>

-----------------------------------------------------------------------------
(* EventProcessor::processAll *)

\* LoopContext::filter, get_and_process_one_event_f
AnotherEvent(d, s) == dispatch_group_async(d, m_eventLoopGroup, Global, <<event(s)>>)

\* A copy of the first Schedule begins with its first event.
Clone ==
    /\ phase = "clone" /\ m_schedules < pConfig.nSimultaneousEvents
    /\ gcd' = AnotherEvent(gcd, m_schedules)
    /\ m_schedules' = m_schedules + 1
    /\ UNCHANGED <<phase, pConfig, rest, module, m_lookupMap, m_paths, wrappers, source, datum>>

\* So does the first Schedule when there are enough.
StartFirst ==
    /\ phase = "clone" /\ m_schedules >= pConfig.nSimultaneousEvents
    /\ gcd' = AnotherEvent(gcd, 0)
    /\ phase' = "wait"
    /\ UNCHANGED <<setup, wrappers, source, datum>>

\* dispatch_group_wait
Return ==
    /\ phase = "wait" /\ Entered(gcd, m_eventLoopGroup) = 0
    /\ phase' = "done"
    /\ UNCHANGED <<setup, wrappers, source, gcd, datum>>

-----------------------------------------------------------------------------
(* Blocks.  In each step one of them makes its next call. *)

Alive == phase \in {"clone", "wait", "done"}
Running == DOMAIN gcd.running
Call(b) == Head(b.calls)
Later(b) == Tail(b.calls)
Does(b, name) == Alive /\ Call(b).call = name

unchangedByGcd == <<phase, setup, wrappers, source, datum>>

\* A serial queue starts its next block.
Start ==
    /\ Alive
    /\ \E q \in DOMAIN gcd.queues :
         LET r == gcd.queues[q]
         IN /\ r.blocks # <<>> /\ r.suspended = 0 /\ ~r.busy
            /\ gcd' = [SetQueue(gcd, q, [r EXCEPT !.blocks = Tail(@), !.busy = TRUE])
                        EXCEPT !.running = Bags!BagAdd(@, [queue |-> q, calls |-> Head(r.blocks)])]
    /\ UNCHANGED unchangedByGcd

\* dispatch_group_leave: the last to leave submits what has waited.
Leave(b) ==
    LET g == Call(b).group
    IN /\ Does(b, "leave")
       /\ gcd' = GoOn(dispatch_group_leave(gcd, g), b, ToSubmit(gcd, g) \o Later(b))
       /\ UNCHANGED unchangedByGcd

Submit(b) ==
    /\ Does(b, "submit")
    /\ gcd' = GoOn(dispatch_async(gcd, Call(b).queue, Call(b).block), b, Later(b))
    /\ UNCHANGED unchangedByGcd

Resume(b) ==
    /\ Does(b, "resume")
    /\ gcd' = GoOn(dispatch_resume(gcd, Call(b).queue), b, Later(b))
    /\ UNCHANGED unchangedByGcd

Wait(b) ==
    /\ Does(b, "wait") /\ Entered(gcd, Call(b).group) = 0
    /\ gcd' = GoOn(gcd, b, Later(b))
    /\ UNCHANGED unchangedByGcd

-----------------------------------------------------------------------------
(* The event loop *)

Of(s) == {s} \X m_lookupMap

\* Event::reset.  ++m_seenEvents is no atomic operation: it is read here ...
ResetEvent(b) ==
    LET s == Call(b).stream
    IN /\ Does(b, "event")
       /\ m_wasRun' = m_wasRun \ Of(s)
       /\ m_requestedPrefetch' = m_requestedPrefetch \ Of(s)
       /\ m_wasCached' = m_wasCached \ Of(s)
       /\ gcd' = GoOn(gcd, b, <<count(s, m_seenEvents + 1)>> \o Later(b))
       /\ UNCHANGED <<phase, setup, m_keep, source, datum>>

\* The wrappers of a stream's filters.
OwnFilters(s) == {s} \X {<<l, "">> : l \in {x \in DOMAIN module : module[x].base = "filter"}}

\* ... and written here.  If it is not too large, Schedule::process resets the
\* filters and goes on.
SetEventInfo(b) ==
    LET s == Call(b).stream
    IN /\ Does(b, "count")
       /\ m_seenEvents' = Call(b).seen
       /\ IF pConfig.iterations >= Call(b).seen
            THEN /\ m_wasRun' = m_wasRun \ OwnFilters(s)
                 /\ m_keep' = m_keep \ OwnFilters(s)
                 /\ m_requestedPrefetch' = m_requestedPrefetch \ OwnFilters(s)
                 /\ taken' = [taken EXCEPT ![s] = @ + 1]
                 /\ gcd' = GoOn(dispatch_group_enter(gcd, m_eventLoopGroup), b,
                                <<IF m_paths = <<>> THEN scheduleDone(s) ELSE startPaths(s, 1)>>
                                   \o Later(b))
            ELSE /\ gcd' = GoOn(gcd, b, Later(b))
                 /\ UNCHANGED <<m_wasRun, m_keep, m_requestedPrefetch, taken>>
       /\ UNCHANGED <<phase, setup, m_wasCached, datum>>

\* Schedule::process: a block for each path, and one for when all are over.
StartPaths(b) ==
    LET s == Call(b).stream
        p == Call(b).path
        g == m_allPathsDoneGroup(s)
    IN /\ Does(b, "startPaths")
       /\ gcd' = IF p <= Len(m_paths)
                   THEN GoOn(dispatch_group_async(gcd, g, Global, <<path(s, p)>>), b,
                             <<startPaths(s, p + 1)>> \o Later(b))
                   ELSE GoOn(dispatch_group_notify(gcd, g, Global, <<scheduleDone(s)>>), b,
                             Later(b))
       /\ UNCHANGED unchangedByGcd

\* do_schedule_callback_f: LoopContext::filter.
ScheduleDone(b) ==
    /\ Does(b, "scheduleDone")
    /\ gcd' = GoOn(AnotherEvent(gcd, Call(b).stream), b, <<leave(m_eventLoopGroup)>> \o Later(b))
    /\ UNCHANGED unchangedByGcd

-----------------------------------------------------------------------------
(* Paths.  No module fails, and so no path ends for a fatal error. *)

\* Path::runFilterAsync, FilterOnPathWrapper::filterAsync
runFilterAsync(s, p, i) ==
    LET w == FilterAt(s, p, i)
    IN Job(IF w \in m_wasRun THEN "work" ELSE "prefetch", w, <<p, i>>)

\* Mutant of RunPath: the group is not entered.
RunPathUnentered(b) ==
    LET s == Call(b).stream
        p == Call(b).path
    IN /\ Does(b, "path")
       /\ gcd' = GoOn(gcd, b, <<IF m_paths[p] = <<>> THEN leave(m_allPathsDoneGroup(s))
                                ELSE runFilterAsync(s, p, 1)>> \o Later(b))
       /\ UNCHANGED unchangedByGcd

\* Schedule::processPresentPath and Path::runAsync
RunPath(b) ==
    LET s == Call(b).stream
        p == Call(b).path
    IN /\ Does(b, "path")
       /\ gcd' = GoOn(dispatch_group_enter(gcd, m_allPathsDoneGroup(s)), b,
                      <<IF m_paths[p] = <<>> THEN leave(m_allPathsDoneGroup(s))
                        ELSE runFilterAsync(s, p, 1)>> \o Later(b))
       /\ UNCHANGED unchangedByGcd

\* Path::doNextIfSuccess: the next filter, or PathFilteringCallback.
doNextIfSuccess(b) ==
    LET w == Call(b).wrapper
        p == Call(b).at[1]
        i == Call(b).at[2]
    IN /\ Does(b, "next")
       /\ gcd' = GoOn(gcd, b, <<IF w \in m_keep /\ i + 1 <= Len(m_paths[p])
                                  THEN runFilterAsync(w[1], p, i + 1)
                                  ELSE leave(m_allPathsDoneGroup(w[1]))>> \o Later(b))
       /\ UNCHANGED unchangedByGcd

-----------------------------------------------------------------------------
(* Getting data beforehand *)

\* Module::prefetchAsync, in the group that is left when all has been asked for.
GetAll(w, keys) == IF keys = <<>> THEN leave(prefetchGroup(w)) ELSE getAll(w, keys)

\* ModuleWrapper::prefetchAsync: whoever comes first gets the data.
PrefetchAsync(b) ==
    LET w == Call(b).wrapper
        toGet == module[w[2][1]].m_getters
    IN /\ Does(b, "prefetch")
       /\ m_requestedPrefetch' = IF toGet # <<>> THEN m_requestedPrefetch \cup {w}
                                 ELSE m_requestedPrefetch
       /\ gcd' = GoOn(dispatch_group_enter(gcd, prefetchGroup(w)), b,
                      <<GetAll(w, IF w \in m_requestedPrefetch THEN <<>> ELSE toGet),
                        Job("notifyPrefetched", w, Call(b).at)>> \o Later(b))
       /\ UNCHANGED <<phase, setup, m_wasRun, m_keep, m_wasCached, source, datum>>

\* ProducerWrapper::doProduceAsync: the group of n, entered unless n has run.
doProduceAsync(d, n) ==
    IF n \in m_wasRun THEN d
    ELSE dispatch_group_async(d, m_group(n), Global, <<produceImpl(n)>>)

\* Event::getAsyncImpl looks whether the datum is there ...
GetAsync(b) ==
    LET w == Call(b).wrapper
        keys == Call(b).keys
        n == <<w[1], Head(keys)>>
    IN /\ Does(b, "getAll")
       /\ IF n[2] \notin m_lookupMap
            THEN phase' = "exit" /\ UNCHANGED gcd
            ELSE /\ gcd' = GoOn(gcd, b, (IF n \in m_wasCached THEN <<>> ELSE <<getMissing(w, n)>>)
                                           \o <<GetAll(w, Tail(keys))>> \o Later(b))
                 /\ UNCHANGED phase
       /\ UNCHANGED <<setup, wrappers, source, datum>>

\* Mutant of GetMissing: the group is not entered, and left all the same.
GetMissingUnentered(b) ==
    LET w == Call(b).wrapper
        n == Call(b).producer
    IN /\ Does(b, "getMissing")
       /\ gcd' = GoOn(doProduceAsync(gcd, n), b, <<awaitProducer(w, n)>> \o Later(b))
       /\ UNCHANGED unchangedByGcd

\* ... and if not, whoever waits for w waits for the producer too.
GetMissing(b) ==
    LET w == Call(b).wrapper
        n == Call(b).producer
    IN /\ Does(b, "getMissing")
       /\ gcd' = GoOn(dispatch_group_enter(doProduceAsync(gcd, n), prefetchGroup(w)), b,
                      <<awaitProducer(w, n)>> \o Later(b))
       /\ UNCHANGED unchangedByGcd

\* getasynchimpl_done_with_get is submitted when the producer is done.
AwaitProducer(b) ==
    /\ Does(b, "awaitProducer")
    /\ gcd' = GoOn(dispatch_group_notify(gcd, m_group(Call(b).producer), Global,
                                         <<leave(prefetchGroup(Call(b).wrapper))>>), b, Later(b))
    /\ UNCHANGED unchangedByGcd

\* PrefetchAndWorkWrapper::doPrefetchAndWork: the block that runs when all data
\* of w has been got, which works or first suspends the queue it runs in.
NotifyPrefetched(b) ==
    LET w == Call(b).wrapper
        task == IF ThreadType(w) # "kThreadUnsafe" THEN "work" ELSE "suspendOwn"
    IN /\ Does(b, "notifyPrefetched")
       /\ gcd' = GoOn(dispatch_group_notify(gcd, prefetchGroup(w), runQueue(w),
                                            <<Job(task, w, Call(b).at)>>), b, Later(b))
       /\ UNCHANGED unchangedByGcd

\* do_suspend_run_queue_before_work_task
SuspendRunQueue(b) ==
    LET w == Call(b).wrapper
    IN /\ Does(b, "suspendOwn")
       /\ gcd' = GoOn(dispatch_async(dispatch_suspend(gcd, runQueue(w)), s_non_thread_safe_queue,
                                     <<Job("suspendUnsafe", w, Call(b).at)>>), b, Later(b))
       /\ UNCHANGED unchangedByGcd

\* do_suspend_thread_unsafe_queue_before_work_task, which submits
\* do_work_and_resume_queues_task
SuspendThreadUnsafeQueue(b) ==
    LET w == Call(b).wrapper
    IN /\ Does(b, "suspendUnsafe")
       /\ gcd' = GoOn(dispatch_async(dispatch_suspend(gcd, s_non_thread_safe_queue), Global,
                                     <<Job("work", w, Call(b).at),
                                       resume(s_non_thread_safe_queue), resume(runQueue(w))>>),
                      b, Later(b))
       /\ UNCHANGED unchangedByGcd

\* ProducerWrapper::doProduceAsyncImpl
doProduceAsyncImpl(b) ==
    LET n == Call(b).wrapper
    IN /\ Does(b, "produceImpl")
       /\ gcd' = IF n \in m_wasRun THEN GoOn(gcd, b, Later(b))
                 ELSE GoOn(dispatch_group_enter(gcd, m_group(n)), b,
                           <<Job("prefetch", n, <<>>)>> \o Later(b))
       /\ UNCHANGED unchangedByGcd

-----------------------------------------------------------------------------
(* A module's work *)

Lock(w) == <<"lock", w>>

\* Mutant of Unlock: the queue stays suspended.
UnlockNothing(d, w) == d

\* edm::Event::get: a module that is not thread safe lets others run ...
Unlock(d, w) ==
    IF ThreadType(w) = "kThreadUnsafe" THEN dispatch_resume(d, s_non_thread_safe_queue) ELSE d

\* Mutant of Relock: the queue is not suspended again.
RelockNothing(w) == <<>>

\* ... until it has got the datum.
Relock(w) == IF ThreadType(w) = "kThreadUnsafe" THEN <<sync(w)>> ELSE <<>>

Reads(w, keys) == IF keys = <<>> THEN <<>> ELSE <<reads(w, keys)>>

\* What the module gets by label when it works.
GetByLabel(w) ==
    LET m == module[w[2][1]] IN IF m.byLabel THEN Reads(w, m.reads) ELSE <<>>

ReadNext(b) ==
    LET w == Call(b).wrapper
        keys == Call(b).keys
    IN /\ Does(b, "reads")
       /\ gcd' = GoOn(Unlock(gcd, w), b, <<syncGet(<<w[1], Head(keys)>>)>> \o Relock(w)
                                            \o Reads(w, Tail(keys)) \o Later(b))
       /\ UNCHANGED unchangedByGcd

\* Event::get(label, product): the thread waits for the group of the producer.
GetAndWait(b) ==
    LET n == Call(b).producer
    IN /\ Does(b, "syncGet")
       /\ IF n[2] \notin m_lookupMap
            THEN phase' = "exit" /\ UNCHANGED gcd
            ELSE /\ gcd' = IF n \in m_wasCached THEN GoOn(gcd, b, Later(b))
                           ELSE GoOn(doProduceAsync(gcd, n), b, <<wait(m_group(n))>> \o Later(b))
                 /\ UNCHANGED phase
       /\ UNCHANGED <<setup, wrappers, source, datum>>

\* dispatch_sync_f: another block suspends the queue, and this one waits for it.
Sync(b) ==
    LET w == Call(b).wrapper
    IN /\ Does(b, "sync")
       /\ gcd' = GoOn(dispatch_async(dispatch_group_enter(gcd, Lock(w)), s_non_thread_safe_queue,
                                     <<lock(w)>>), b, <<wait(Lock(w))>> \o Later(b))
       /\ UNCHANGED unchangedByGcd

\* event_get_suspend_non_thread_safe_queue
SuspendAgain(b) ==
    /\ Does(b, "lock")
    /\ gcd' = GoOn(dispatch_group_leave(dispatch_suspend(gcd, s_non_thread_safe_queue),
                                        Lock(Call(b).wrapper)), b, Later(b))
    /\ UNCHANGED unchangedByGcd

\* FilterOnPathWrapper::doWork: FilterWrapper::doFilter begins, unless the
\* filter has run ...
BeginFilter(b) ==
    LET w == Call(b).wrapper
    IN /\ Does(b, "work") /\ Call(b).at # <<>>
       /\ gcd' = GoOn(gcd, b, (IF w \in m_wasRun THEN <<>> ELSE GetByLabel(w) \o <<filtered(w)>>)
                                 \o <<Job("next", w, Call(b).at)>> \o Later(b))
       /\ UNCHANGED unchangedByGcd

\* ... and ends.
EndFilter(b) ==
    LET w == Call(b).wrapper
    IN /\ Does(b, "filtered")
       /\ m_keep' = IF module[w[2][1]].keep THEN m_keep \cup {w} ELSE m_keep \ {w}
       /\ m_wasRun' = m_wasRun \cup {w}
       /\ gcd' = GoOn(gcd, b, Later(b))
       /\ UNCHANGED <<phase, setup, m_requestedPrefetch, m_wasCached, source, datum>>

\* ProducerWrapper::doWork begins: whoever has asked waits for the group ...
BeginProduce(b) ==
    LET n == Call(b).wrapper
    IN /\ Does(b, "work") /\ Call(b).at = <<>>
       /\ gcd' = GoOn(gcd, b, (IF n \in m_wasRun THEN <<>>
                               ELSE GetByLabel(n) \o <<put(n), ran(n)>>)
                                 \o <<leave(m_group(n))>> \o Later(b))
       /\ UNCHANGED unchangedByGcd

\* ... the producer puts its data ...
Put(b) ==
    LET n == Call(b).wrapper
        own == {n[1]} \X Entries(module[n[2][1]])
    IN /\ Does(b, "put")
       /\ m_wasCached' = m_wasCached \cup own
       /\ datum' = Join(datum, [w \in own |-> taken[n[1]]])
       /\ gcd' = GoOn(gcd, b, Later(b))
       /\ UNCHANGED <<phase, setup, m_wasRun, m_requestedPrefetch, m_keep, source>>

\* ... and has run.
EndProduce(b) ==
    /\ Does(b, "ran")
    /\ m_wasRun' = m_wasRun \cup {Call(b).wrapper}
    /\ gcd' = GoOn(gcd, b, Later(b))
    /\ UNCHANGED <<phase, setup, m_requestedPrefetch, m_keep, m_wasCached, source, datum>>

-----------------------------------------------------------------------------
BlockStep(b) ==
    \/ Leave(b) \/ Submit(b) \/ Resume(b) \/ Wait(b)
    \/ ResetEvent(b) \/ SetEventInfo(b) \/ StartPaths(b) \/ ScheduleDone(b)
    \/ RunPath(b) \/ doNextIfSuccess(b)
    \/ PrefetchAsync(b) \/ GetAsync(b) \/ GetMissing(b) \/ AwaitProducer(b)
    \/ NotifyPrefetched(b) \/ SuspendRunQueue(b) \/ SuspendThreadUnsafeQueue(b)
    \/ doProduceAsyncImpl(b)
    \/ ReadNext(b) \/ GetAndWait(b) \/ Sync(b) \/ SuspendAgain(b)
    \/ BeginFilter(b) \/ EndFilter(b) \/ BeginProduce(b) \/ Put(b) \/ EndProduce(b)

Next == \/ addFilter \/ addProducer \/ addPath
        \/ Clone \/ StartFirst \/ Return
        \/ Start
        \/ \E b \in Running : BlockStep(b)

Spec == Init /\ [][Next]_vars

\* libdispatch has threads enough: while a block can go on, something does.
FairSpec == Spec /\ WF_vars(Next)

-----------------------------------------------------------------------------
(* Properties. *)

Wrappers == Streams \X (m_lookupMap \cup {<<l, "">> : l \in DOMAIN module})
SerialQueues == {q \in DOMAIN gcd.queues : gcd.queues[q].busy}

\* What a serial queue runs is one block, and no queue is resumed more often
\* than it was suspended.
TypeOK ==
    /\ phase \in {"filters", "producers", "paths", "clone", "wait", "done", "exit"}
    /\ m_schedules \in 1 .. NStreams
    /\ m_wasRun \cup m_requestedPrefetch \cup m_keep \cup m_wasCached \subseteq Wrappers
    /\ m_seenEvents \in Nat
    /\ \A g \in DOMAIN gcd.groups : gcd.groups[g] \in Nat \ {0}
    /\ \A b \in Running : gcd.running[b] \in Nat \ {0}
    /\ \A q \in DOMAIN gcd.queues : gcd.queues[q].suspended \in Nat
    /\ \A b \in Running : b.calls # <<>> /\ (b.queue = Global \/ b.queue \in SerialQueues)
    /\ DOMAIN datum \subseteq Wrappers

\* A block is inside a module while its work has still to end.
Ends == {"filtered", "put"}
Inside(b) == {b.calls[i].wrapper : i \in {j \in DOMAIN b.calls : b.calls[j].call \in Ends}}

\* It has what it gets: what is left is to end, or to give the queue up.
HoldsQueue(b) == Call(b).call \in Ends \cup {"reads"}

\* A module works on the data of its own event, all of which has been put:
\* the groups have told so, whoever else waited for them.
GetsItsData ==
    \A b \in Running : b.calls # <<>> /\ Call(b).call \in Ends =>
        LET w == Call(b).wrapper
        IN \A key \in Range(module[w[2][1]].reads) :
              /\ <<w[1], key>> \in m_wasCached
              /\ datum[<<w[1], key>>] = taken[w[1]]

\* No module is in two threads at once unless its type allows that of two
\* events, and of those that are not thread safe all but one are waiting.
OneAtATime ==
    LET inside == {b \in Running : Inside(b) # {}}
    IN \A b, c \in inside : b # c \/ CopiesIn(b, gcd.running) > 1 =>
         \A w \in Inside(b), v \in Inside(c) :
            /\ w[2] = v[2] => w # v /\ ThreadType(w) = "kThreadSafeBetweenInstances"
            /\ {ThreadType(w), ThreadType(v)} = {"kThreadUnsafe"} =>
                  ~(HoldsQueue(b) /\ HoldsQueue(c))

\* The stream a call is for.
StreamOf(c) ==
    CASE "stream" \in DOMAIN c   -> {c.stream}
      [] "wrapper" \in DOMAIN c  -> {c.wrapper[1]}
      [] "producer" \in DOMAIN c -> {c.producer[1]}
      [] OTHER                   -> {}

\* The blocks that run or wait, and those that are still to be submitted.
Waiters == UNION {Range(gcd.notify[g]) : g \in DOMAIN gcd.notify}
Submits == {c \in UNION {Range(b.calls) : b \in Running} : c.call = "submit"}
Pending ==
    {b.calls : b \in Running}
      \cup (UNION {Range(gcd.queues[q].blocks) : q \in DOMAIN gcd.queues})
      \cup {c.block : c \in Waiters \cup Submits}

Busy(s, calls) == \E i \in DOMAIN calls : s \in StreamOf(calls[i])

\* When a stream begins another event nothing is left of the one before: the
\* block that begins it is the only one that has anything to do for the stream,
\* but for queues to be resumed, and the groups of its paths, producers and
\* requests are empty.
QuietBetweenEvents ==
    \A b \in Running : \A s \in Streams :
        Call(b).call \in {"event", "count"} /\ Call(b).stream = s =>
            /\ \A calls \in Pending : Busy(s, calls) => calls = b.calls
            /\ CopiesIn(b, gcd.running) = 1
            /\ Entered(gcd, m_allPathsDoneGroup(s)) = 0
            /\ \A n \in Of(s) : Entered(gcd, m_group(n)) = 0
            /\ \A w \in Of(s) \cup OwnFilters(s) : Entered(gcd, prefetchGroup(w)) = 0

\* The job comes to its end: no module waits for a queue that is kept
\* suspended by one that waits for it.
Finishes == <>(phase = "done")

=============================================================================
