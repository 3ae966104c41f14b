--------------------- MODULE SingleThreadedTestModules ---------------------
(***************************************************************************)
(* The test modules of the single threaded framework, which knows no       *)
(* thread types, and its factories.  The fields of a configuration and of  *)
(* a module are those of CommonTestModules.                                *)
(***************************************************************************)
EXTENDS Sequences

Common == INSTANCE CommonTestModules

\* What Module, Filter and Producer are constructed from: the label alone.
Filter(c)   == Common!Filter(c, "none")
Producer(c) == Common!Producer(c, "none")

BusyWaitPassFilter(c) ==
    [Filter(c) EXCEPT !.m_getters = Common!Blank(c.toGet), !.reads = Common!Blank(c.toGet)]

SleepingPassFilter(c) ==
    [Filter(c) EXCEPT !.m_getters = Common!Blank(c.toGet), !.reads = Common!Blank(c.toGet)]

EventTimesPassFilterBase(c) ==
    [Filter(c) EXCEPT !.m_getters = Common!Blank(c.toGet), !.reads = Common!Blank(c.toGet),
                      !.m_eventTimes = Len(c.eventTimes)]

EventTimesBusyWaitPassFilter(c) == EventTimesPassFilterBase(c)
EventTimesSleepingPassFilter(c) == EventTimesPassFilterBase(c)

PassFilter(c) == [Filter(c) EXCEPT !.keep = Common!BusyWaitIsPositive(10000)]

ThreadSaferGetterFilter(c) == [Filter(c) EXCEPT !.m_getters = Common!Exact(c.toGet)]

BusyWaitProducer(c) ==
    [Producer(c) EXCEPT !.m_products = {""},
                        !.m_getters = Common!Blank(c.toGet), !.reads = Common!Blank(c.toGet)]

SleepingProducer(c) ==
    [Producer(c) EXCEPT !.m_products = {""},
                        !.m_getters = Common!Blank(c.toGet), !.reads = Common!Blank(c.toGet)]

EventTimesProducerBase(c) ==
    [Producer(c) EXCEPT !.m_products = {""},
                        !.m_getters = Common!Blank(c.toGet), !.reads = Common!Blank(c.toGet),
                        !.m_eventTimes = Len(c.eventTimes)]

EventTimesBusyWaitProducer(c) == EventTimesProducerBase(c)
EventTimesSleepingProducer(c) == EventTimesProducerBase(c)

-----------------------------------------------------------------------------
(* FactoryManager<Filter>::create and FactoryManager<Producer>::create, with *)
(* the types that register themselves.                                       *)

NoModule == [label |-> "", base |-> "none"]

CreateFilter(c) ==
    CASE c.type = "demo::BusyWaitPassFilter"           -> BusyWaitPassFilter(c)
      [] c.type = "demo::SleepingPassFilter"           -> SleepingPassFilter(c)
      [] c.type = "demo::EventTimesBusyWaitPassFilter" -> EventTimesBusyWaitPassFilter(c)
      [] c.type = "demo::EventTimesSleepingPassFilter" -> EventTimesSleepingPassFilter(c)
      [] c.type = "demo::PassFilter"                   -> PassFilter(c)
      [] c.type = "demo::ThreadSaferGetterFilter"      -> ThreadSaferGetterFilter(c)
      [] OTHER                                         -> NoModule

CreateProducer(c) ==
    CASE c.type = "demo::BusyWaitProducer"           -> BusyWaitProducer(c)
      [] c.type = "demo::SleepingProducer"           -> SleepingProducer(c)
      [] c.type = "demo::EventTimesBusyWaitProducer" -> EventTimesBusyWaitProducer(c)
      [] c.type = "demo::EventTimesSleepingProducer" -> EventTimesSleepingProducer(c)
      [] OTHER                                       -> NoModule
=============================================================================
