--------------------------- MODULE Configuration ---------------------------
(***************************************************************************)
(* How main builds an EventProcessor of the TBB framework from a           *)
(* configuration: modules from factories, wrappers that give each module   *)
(* its run queue, the lookup of an Event, paths, and the search of         *)
(* finishSetup for requests that could deadlock.                           *)
(*                                                                         *)
(* A module's ID is its number here, counted from 1; a pointer to a        *)
(* FilterWrapper is its Schedule and its place in that Schedule.           *)
(***************************************************************************)
EXTENDS CommonTestModules, Integers, FiniteSetsExt, SequencesExt, Functions

CONSTANT Configurations     \* what the configuration file may be

VARIABLES
    pConfig,        \* what it is
    phase,          \* what main is at
    rest,           \* of the list it reads
    modules,        \* those made so far, by ID
    m_filters, m_producers,     \* of the EventProcessor: IDs, IDs by label
    m_schedules,    \* of the EventProcessor, the first one being filled here
    constructions,  \* how many wrappers were made, other than by copying
    m_dependentModulesToCheck   \* of each module

setup == <<pConfig, rest, modules, m_filters, m_producers, m_dependentModulesToCheck>>

NoModule == [label |-> "", base |-> "none"]

\* FactoryManager<Filter>::create, with the types that register themselves.
CreateFilter(c) ==
    CASE c.type = "demo::BusyWaitPassFilter"             -> BusyWaitPassFilter(c)
      [] c.type = "demo::SleepingPassFilter"             -> SleepingPassFilter(c)
      [] c.type = "demo::FastPassFilter"                 -> FastPassFilter(c)
      [] c.type = "demo::EventTimesBusyWaitPassFilter"   -> EventTimesBusyWaitPassFilter(c)
      [] c.type = "demo::EventTimesSleepingPassFilter"   -> EventTimesSleepingPassFilter(c)
      [] c.type = "demo::EventTimesBusyWaitParallelForPassFilter" ->
            EventTimesBusyWaitParallelForPassFilter(c)
      [] c.type = "demo::EventTimesSleepingParallelForPassFilter" ->
            EventTimesSleepingParallelForPassFilter(c)
      [] c.type = "demo::EventTimesBusyWaitTaskStealingParallelForPassFilter" ->
            EventTimesBusyWaitTaskStealingParallelForPassFilter(c)
      [] c.type = "demo::EventTimesSleepingTaskStealingParallelForPassFilter" ->
            EventTimesSleepingTaskStealingParallelForPassFilter(c)
      [] c.type = "demo::EventTimesSyncGetSleepingPassFilter" ->
            EventTimesSyncGetSleepingPassFilter(c)
      [] c.type = "demo::PassFilter"                     -> PassFilter(c)
      [] c.type = "demo::ThreadSaferGetterFilter"        -> ThreadSaferGetterFilter(c)
      [] c.type = "demo::ThrowingFilter"                 -> ThrowingFilter(c)
      [] OTHER                                           -> NoModule

\* FactoryManager<Producer>::create
CreateProducer(c) ==
    CASE c.type = "demo::BusyWaitProducer"               -> BusyWaitProducer(c)
      [] c.type = "demo::SleepingProducer"               -> SleepingProducer(c)
      [] c.type = "demo::FastProducer"                   -> FastProducer(c)
      [] c.type = "demo::SleepingWithAcquireProducer"    -> SleepingWithAcquireProducer(c)
      [] c.type = "demo::ThrowingProducer"               -> ThrowingProducer(c)
      [] c.type = "demo::EventTimesBusyWaitProducer"     -> EventTimesBusyWaitProducer(c)
      [] c.type = "demo::EventTimesSleepingProducer"     -> EventTimesSleepingProducer(c)
      [] c.type = "demo::EventTimesSyncGetSleepingProducer" ->
            EventTimesSyncGetSleepingProducer(c)
      [] c.type = "demo::ThreadSafeProducer"             -> ThreadSafeProducer(c)
      [] OTHER                                           -> NoModule

\* The keys of what a producer of the configuration makes.
DataKeys(c) == IF CreateProducer(c) = NoModule THEN {}
               ELSE {CreateProducer(c).label} \X CreateProducer(c).m_products

ThreadType == {"kThreadUnsafe", "kThreadSafeBetweenModules", "kThreadSafeBetweenInstances"}

\* thread_type_from_config asserts that a module has one of the three types.  Two
\* producers of the same data are outside of the model: Event::addProducer
\* destroys the second, with the wrapper that owns it, and then asks for its ID.
ASSUME ConfigurationAssumption ==
    \A c \in Configurations :
        /\ c.filters \in Seq(Range(c.filters))
        /\ c.producers \in Seq(Range(c.producers))
        /\ c.paths \in Seq(Seq(STRING))
        /\ \A m \in Range(c.filters) :
              CreateFilter(m) # NoModule => CreateFilter(m).threadType \in ThreadType
        /\ \A m \in Range(c.producers) :
              CreateProducer(m) # NoModule => CreateProducer(m).threadType \in ThreadType
        /\ \A i, j \in DOMAIN c.producers :
              i # j => DataKeys(c.producers[i]) \cap DataKeys(c.producers[j]) = {}

-----------------------------------------------------------------------------
(* The first Schedule *)

\* A SerialTaskQueue has the number of the wrapper it was made for.
NoQueue == -1
s_non_thread_safe_queue == 0

choseQueue(threadType, n) ==
    CASE threadType = "kThreadSafeBetweenModules"   -> n
      [] threadType = "kThreadUnsafe"               -> s_non_thread_safe_queue
      [] threadType = "kThreadSafeBetweenInstances" -> NoQueue

ModuleWrapper(id, module, event, n) ==
    [m_module |-> id, m_event |-> event, m_runQueue |-> choseQueue(module.threadType, n)]

Join(f, g) == [x \in DOMAIN f \cup DOMAIN g |-> IF x \in DOMAIN g THEN g[x] ELSE f[x]]

\* A wrapper made from a module, the n-th of all wrappers.  It owns the module
\* (m_producer, m_filter are shared_ptr) together with the copies of it.
ProducerWrapper(id, producer, event, n) == Join(ModuleWrapper(id, producer, event, n), [owner |-> n])
FilterWrapper(id, filter, event, n)     == Join(ModuleWrapper(id, filter, event, n), [owner |-> n])

\* What an Event keeps for a product.  The datum itself is in Schedule.
DataCache(id, producer, event, n) == ProducerWrapper(id, producer, event, n)

FilterOnPathWrapper(schedule, filter) == [schedule |-> schedule, filter |-> filter]

EmptySchedule == [m_filters |-> <<>>, m_lookupMap |-> <<>>, m_producers |-> <<>>, m_paths |-> <<>>]

\* Event::addProducer: an entry of the lookup for each product that has none, and
\* the wrapper in that of the last is found by the ID too.
addProducer(schedule, id, module) ==
    LET keys == SetToSeq({module.label} \X module.m_products)
    IN [schedule EXCEPT
          !.m_lookupMap = Join([key \in Range(keys) |->
                DataCache(id, module, 1, constructions + SelectInSeq(keys, LAMBDA k : k = key))], @),
          !.m_producers = IF keys = <<>> THEN @ ELSE Join(@, [i \in {id} |-> Last(keys)])]

addFilter(schedule, id, module) ==
    [schedule EXCEPT !.m_filters = Append(@, FilterWrapper(id, module, 1, constructions + 1))]

\* The place of the first filter with this label, 0 if there is none.
findFilter(schedule, label) ==
    SelectInSeq(schedule.m_filters, LAMBDA w : modules[w.m_module].label = label)

addPath(schedule, names) ==
    [schedule EXCEPT !.m_paths = Append(@,
        [i \in DOMAIN names |-> FilterOnPathWrapper(1, findFilter(schedule, names[i]))])]

-----------------------------------------------------------------------------
(* main, up to finishSetup *)

Init ==
    /\ pConfig \in Configurations
    /\ phase = "filters" /\ rest = pConfig.filters
    /\ modules = <<>> /\ m_filters = <<>> /\ m_producers = <<>>
    /\ m_schedules = <<EmptySchedule>>
    /\ constructions = 0
    /\ m_dependentModulesToCheck = <<>>

Becomes(next, list) == phase' = next /\ rest' = list

\* EventProcessor::addFilter and addProducer: a module gets its ID, and the
\* EventProcessor and its first Schedule keep it.
KeepFilter(f) ==
    /\ modules' = Append(modules, f)
    /\ m_filters' = Append(m_filters, Len(modules'))
    /\ m_schedules' = <<addFilter(m_schedules[1], Len(modules'), f)>>
    /\ constructions' = constructions + 1

KeepProducer(n) ==
    /\ modules' = Append(modules, n)
    /\ m_producers' = Join(m_producers, [l \in {n.label} |-> Len(modules')])
    /\ m_schedules' = <<addProducer(m_schedules[1], Len(modules'), n)>>
    /\ constructions' = constructions + Cardinality(n.m_products)

\* EventProcessor::addPath; nobody uses a path's name.
KeepPath(names) == m_schedules' = <<addPath(m_schedules[1], names)>>

GiveUp == Becomes("exit", <<>>)

\* The next filter of the file.
AddFilter ==
    /\ phase = "filters" /\ rest # <<>>
    /\ LET f == CreateFilter(Head(rest))
       IN IF f = NoModule
            THEN GiveUp /\ UNCHANGED <<modules, m_filters, m_schedules, constructions>>
            ELSE Becomes("filters", Tail(rest)) /\ KeepFilter(f)
    /\ UNCHANGED <<pConfig, m_producers, m_dependentModulesToCheck>>

\* The next producer.
AddProducer ==
    /\ phase = "producers" /\ rest # <<>>
    /\ LET n == CreateProducer(Head(rest))
       IN IF n = NoModule
            THEN GiveUp /\ UNCHANGED <<modules, m_producers, m_schedules, constructions>>
            ELSE Becomes("producers", Tail(rest)) /\ KeepProducer(n)
    /\ UNCHANGED <<pConfig, m_filters, m_dependentModulesToCheck>>

\* The next path, whose filters must have been added.
AddPath ==
    /\ phase = "paths" /\ rest # <<>>
    /\ IF \E i \in DOMAIN Head(rest) : findFilter(m_schedules[1], Head(rest)[i]) = 0
         THEN GiveUp /\ UNCHANGED m_schedules
         ELSE Becomes("paths", Tail(rest)) /\ KeepPath(Head(rest))
    /\ UNCHANGED <<pConfig, modules, m_filters, m_producers, constructions,
                   m_dependentModulesToCheck>>

\* One list of the file has been read.
NextList ==
    /\ rest = <<>>
    /\ CASE phase = "filters"   -> Becomes("producers", pConfig.producers)
         [] phase = "producers" -> Becomes("paths", pConfig.paths)
         [] phase = "paths"     -> Becomes("finish", <<>>)
         [] OTHER               -> FALSE
    /\ UNCHANGED <<pConfig, modules, m_filters, m_producers, m_schedules, constructions,
                   m_dependentModulesToCheck>>

-----------------------------------------------------------------------------
(* finishSetup *)

Labels(getters) == [i \in DOMAIN getters |-> getters[i][1]]
prefetchItems(id) == Labels(modules[id].m_getters)
mightGet(id)      == Labels(modules[id].m_mightGetters)

\* iProds.find(getter.label()), for each getter.
Found(labels) == [i \in DOMAIN labels |-> m_producers[labels[i]]]

\* For a producer, the modules that get from it: the consumers of iDeps.
addDependencies ==
    LET gets(id) == Range(Found(prefetchItems(id))) \cup Range(Found(mightGet(id)))
        ids == Range(m_filters) \cup Range(m_producers)
    IN [n \in UNION {gets(id) : id \in ids} |-> {id \in ids : n \in gets(id)}]

\* Mutant of alternateDependencyPaths: the way through iParentID counts too.
AlternateThroughParent(iParentID, iDeps) ==
    LET found[child \in DOMAIN modules] ==
            child \in DOMAIN iDeps => \E parent \in iDeps[child] : found[parent]
    IN found

\* From a child, going from consumer to consumer, one that nobody gets from can
\* be reached without iParentID.
alternateDependencyPaths(iParentID, iDeps) ==
    LET found[child \in DOMAIN modules] ==
            child \in DOMAIN iDeps =>
                \E parent \in iDeps[child] : parent # iParentID /\ found[parent]
    IN found

\* The calls return at once: when a producer is called for, it is in iDeps.
recursivelyCheckPrefetchItems(id) == Range(Found(prefetchItems(id)))

\* oToCheck, with what the call for module id adds to it.
recursivelyCheckGetItems(iStartID, iAlreadyPrefetched, iDeps) ==
    LET alternate == alternateDependencyPaths(iStartID, iDeps)
        check[id \in DOMAIN modules, oToCheck \in SUBSET DOMAIN modules] ==
            IF \/ mightGet(id) = <<>> /\ prefetchItems(id) = <<>>
               \/ id \in oToCheck
              THEN oToCheck
              ELSE FoldLeft(LAMBDA s, n : check[n, s],
                            IF id \notin iAlreadyPrefetched /\ alternate[id]
                              THEN oToCheck \cup {id} ELSE oToCheck,
                            Found(mightGet(id)) \o Found(prefetchItems(id)))
    IN check

correctPossibleDeadlocks(id, iDeps) ==
    LET check == recursivelyCheckGetItems(id, recursivelyCheckPrefetchItems(id), iDeps)
    IN FoldLeft(LAMBDA s, n : check[n, s], {}, Found(mightGet(id)))

finishSetup ==
    /\ phase = "finish"
    /\ phase' = "reserve"
    /\ LET iDeps == addDependencies
       IN m_dependentModulesToCheck' =
            [id \in DOMAIN modules |-> correctPossibleDeadlocks(id, iDeps)]
    /\ m_filters' = <<>> /\ m_producers' = <<>>
    /\ UNCHANGED <<pConfig, rest, modules, m_schedules, constructions>>

Setup == AddFilter \/ AddProducer \/ AddPath \/ NextList \/ finishSetup

-----------------------------------------------------------------------------
(* Schedule::clone, in processAll *)

\* Mutant of CopyWrapper: the copy chooses a queue for itself.
CopyWrapperAnew(w, event) ==
    [w EXCEPT !.m_event = event,
              !.m_runQueue = choseQueue(modules[w.m_module].threadType, constructions + event)]

\* A copy of a wrapper for another Event.
CopyWrapper(w, event) ==
    [w EXCEPT !.m_event = event,
              !.m_runQueue = IF modules[w.m_module].threadType # "kThreadSafeBetweenInstances"
                               THEN @ ELSE NoQueue]

\* The lookup of the copied Event, and the wrappers in it by their IDs.
CopyLookup(schedule, event) ==
    LET map == [key \in DOMAIN schedule.m_lookupMap |-> CopyWrapper(schedule.m_lookupMap[key], event)]
    IN [schedule EXCEPT
          !.m_lookupMap = map,
          !.m_producers = [id \in {map[key].m_module : key \in DOMAIN map} |->
                              CHOOSE key \in DOMAIN map : map[key].m_module = id]]

\* Mutant of ClonePath: the new path goes on with the wrappers of the old one.
ClonePathOld(path, wrappers, event) == path

\* A path through the new wrappers that have the labels of the old ones.
ClonePath(path, wrappers, event) ==
    [i \in DOMAIN path |->
        FilterOnPathWrapper(event, SelectInSeq(wrappers, LAMBDA w :
             modules[w.m_module].label =
                modules[m_schedules[path[i].schedule].m_filters[path[i].filter].m_module].label))]

\* The Schedule that becomes the event-th.
Clone(schedule, event) ==
    LET wrappers == [i \in DOMAIN schedule.m_filters |-> CopyWrapper(schedule.m_filters[i], event)]
    IN [CopyLookup(schedule, event) EXCEPT
          !.m_filters = wrappers,
          !.m_paths = [p \in DOMAIN schedule.m_paths |->
                          ClonePath(schedule.m_paths[p], wrappers, event)]]

-----------------------------------------------------------------------------
(* Properties. *)

Wrappers(schedule) == Range(schedule.m_filters) \cup Range(schedule.m_lookupMap)

AllWrappers == UNION {Wrappers(m_schedules[s]) : s \in DOMAIN m_schedules}

\* "kThreadSafeBetweenModules: can run simultaneously with other modules but
\* not itself": all wrappers of a module, in whatever Schedule, share the queue
\* that runs it, no two modules of that kind share one, and those that are not
\* thread safe all run on the same.  And no two owners will delete a module.
ModuleHasOneQueue ==
    \A v, w \in AllWrappers :
        LET type == modules[v.m_module].threadType
        IN /\ v.m_module = w.m_module => v.owner = w.owner
           /\ CASE type = "kThreadSafeBetweenModules" ->
                     /\ v.m_runQueue \notin {NoQueue, s_non_thread_safe_queue}
                     /\ (v.m_runQueue = w.m_runQueue) <=> (v.m_module = w.m_module)
                [] type = "kThreadUnsafe" -> v.m_runQueue = s_non_thread_safe_queue
                [] OTHER -> v.m_runQueue = NoQueue

\* A Schedule works with wrappers of its own only: those of its paths, in the
\* order of the configuration, and those its Event finds, by key and by ID.
SchedulesAreApart ==
    \A s \in DOMAIN m_schedules :
        LET sch == m_schedules[s]
        IN /\ \A w \in Wrappers(sch) : w.m_event = s
           /\ \A p \in DOMAIN sch.m_paths : \A i \in DOMAIN sch.m_paths[p] :
                 /\ sch.m_paths[p][i].schedule = s
                 /\ modules[sch.m_filters[sch.m_paths[p][i].filter].m_module].label
                        = pConfig.paths[p][i]
           /\ \A key \in DOMAIN sch.m_lookupMap :
                 modules[sch.m_lookupMap[key].m_module].label = key[1]
           /\ \A id \in DOMAIN modules : modules[id].base = "producer" =>
                 sch.m_lookupMap[sch.m_producers[id]].m_module = id

Asks(id, n) == /\ modules[n].base = "producer"
               /\ \E g \in Range(modules[id].m_getters) \cup Range(modules[id].m_mightGetters) :
                     g[1] = modules[n].label
MightAsk(id, n) == \E g \in Range(modules[id].m_mightGetters) : g[1] = modules[n].label

\* What is in s, and what is asked for by it, directly or not; without what is in
\* avoid, and without what only that asks for.
AskedFrom(s, avoid) ==
    LET within[steps \in Nat] ==
            IF steps = 0 THEN s \ avoid
            ELSE LET x == within[steps - 1]
                 IN x \cup {n \in DOMAIN modules \ avoid : \E i \in x : Asks(i, n)}
    IN within[Len(modules)]

\* "search back up the inheritance hierarchy. If the only way to reach iModule
\* is to go through iStartID then we can keep this as 'mightGet'": what a module
\* must wait for are the producers with data of their own to get, which it may
\* come to through what it might get and does not prefetch itself, and which
\* something else in the job comes to without it.
WaitsForWhatOthersAsk ==
    phase = "reserve" =>
        \A id \in DOMAIN modules :
            LET nobodyAsks == {t \in DOMAIN modules : \A i \in DOMAIN modules : ~Asks(i, t)}
                reached == AskedFrom({n \in DOMAIN modules : MightAsk(id, n)}, {})
                others == AskedFrom(nobodyAsks, {id})
            IN m_dependentModulesToCheck[id] =
                 {n \in reached :
                    /\ \E m \in DOMAIN modules : Asks(n, m)
                    /\ \A g \in Range(modules[id].m_getters) : g[1] # modules[n].label
                    /\ n \in others}
=============================================================================
