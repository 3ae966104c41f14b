------------------------ MODULE DispatchTestModules ------------------------
(***************************************************************************)
(* The test modules of the libdispatch framework and its factories.  The   *)
(* fields of a configuration and of a module are those of                  *)
(* CommonTestModules.                                                      *)
(***************************************************************************)
EXTENDS Naturals, Sequences

Common == INSTANCE CommonTestModules

thread_type_from_config(c) == Common!thread_type_from_config(c)

Filter(c, threadType)   == Common!Filter(c, threadType)
Producer(c, threadType) == Common!Producer(c, threadType)

\* Each label of toGet is registered, and read when the module works.
ReadsAll(m, toGet) == [m EXCEPT !.m_getters = toGet, !.reads = toGet]

BusyWaitPassFilter(c) ==
    ReadsAll(Filter(c, thread_type_from_config(c)), Common!Blank(c.toGet))

SleepingPassFilter(c) ==
    ReadsAll(Filter(c, thread_type_from_config(c)), Common!Blank(c.toGet))

EventTimesPassFilterBase(c) ==
    [ReadsAll(Filter(c, thread_type_from_config(c)), Common!Blank(c.toGet)) EXCEPT
        !.m_eventTimes = Len(c.eventTimes)]

EventTimesBusyWaitPassFilter(c) == EventTimesPassFilterBase(c)
EventTimesSleepingPassFilter(c) == EventTimesPassFilterBase(c)

\* Nothing is registered: the data is got by label when the filter works.
EventTimesSyncGetPassFilterBase(c) ==
    [Filter(c, thread_type_from_config(c)) EXCEPT
        !.reads = Common!Blank(c.toGet), !.byLabel = TRUE,
        !.m_eventTimes = Len(c.eventTimes)]

EventTimesSyncGetSleepingPassFilter(c) == EventTimesSyncGetPassFilterBase(c)

PassFilter(c) ==
    [Filter(c, "kThreadSafeBetweenModules") EXCEPT !.keep = Common!BusyWaitIsPositive(10000)]

ThreadSaferGetterFilter(c) ==
    [Filter(c, "kThreadSafeBetweenModules") EXCEPT !.m_getters = Common!Exact(c.toGet)]

BusyWaitProducer(c) ==
    [ReadsAll(Producer(c, thread_type_from_config(c)), Common!Blank(c.toGet)) EXCEPT
        !.m_products = {""}]

SleepingProducer(c) ==
    [ReadsAll(Producer(c, thread_type_from_config(c)), Common!Blank(c.toGet)) EXCEPT
        !.m_products = {""}]

EventTimesProducerBase(c) ==
    [ReadsAll(Producer(c, thread_type_from_config(c)), Common!Blank(c.toGet)) EXCEPT
        !.m_products = {""}, !.m_eventTimes = Len(c.eventTimes)]

EventTimesBusyWaitProducer(c) == EventTimesProducerBase(c)
EventTimesSleepingProducer(c) == EventTimesProducerBase(c)

EventTimesSyncGetProducerBase(c) ==
    [Producer(c, thread_type_from_config(c)) EXCEPT
        !.m_products = {""}, !.reads = Common!Blank(c.toGet), !.byLabel = TRUE,
        !.m_eventTimes = Len(c.eventTimes)]

EventTimesSyncGetSleepingProducer(c) == EventTimesSyncGetProducerBase(c)

ThreadSafeProducer(c) ==
    [Producer(c, "kThreadSafeBetweenInstances") EXCEPT
        !.m_products = {c.productLabel}, !.adds = c.value + Common!BusyWaitLastDigit]

\* Has no factory: a job cannot be configured with it.
ThreadSafeWhichReadsProducer(c) ==
    [ReadsAll(Producer(c, "kThreadSafeBetweenModules"), Common!Exact(c.toGet)) EXCEPT
        !.m_products = {c.productLabel}, !.adds = c.value + Common!BusyWaitLastDigit]

-----------------------------------------------------------------------------
(* FactoryManager<Filter>::create and FactoryManager<Producer>::create, with *)
(* the types that register themselves.                                       *)

NoModule == [label |-> "", base |-> "none"]

CreateFilter(c) ==
    CASE c.type = "demo::BusyWaitPassFilter"                  -> BusyWaitPassFilter(c)
      [] c.type = "demo::SleepingPassFilter"                  -> SleepingPassFilter(c)
      [] c.type = "demo::EventTimesBusyWaitPassFilter"        -> EventTimesBusyWaitPassFilter(c)
      [] c.type = "demo::EventTimesSleepingPassFilter"        -> EventTimesSleepingPassFilter(c)
      [] c.type = "demo::EventTimesSyncGetSleepingPassFilter" ->
                                                   EventTimesSyncGetSleepingPassFilter(c)
      [] c.type = "demo::PassFilter"                          -> PassFilter(c)
      [] c.type = "demo::ThreadSaferGetterFilter"             -> ThreadSaferGetterFilter(c)
      [] OTHER                                                -> NoModule

CreateProducer(c) ==
    CASE c.type = "demo::BusyWaitProducer"                  -> BusyWaitProducer(c)
      [] c.type = "demo::SleepingProducer"                  -> SleepingProducer(c)
      [] c.type = "demo::EventTimesBusyWaitProducer"        -> EventTimesBusyWaitProducer(c)
      [] c.type = "demo::EventTimesSleepingProducer"        -> EventTimesSleepingProducer(c)
      [] c.type = "demo::EventTimesSyncGetSleepingProducer" ->
                                                   EventTimesSyncGetSleepingProducer(c)
      [] c.type = "demo::ThreadSafeProducer"                -> ThreadSafeProducer(c)
      [] OTHER                                              -> NoModule
=============================================================================
