------------------------- MODULE CommonTestModules -------------------------
(***************************************************************************)
(* The modules a job can be made of, as the framework sees them: what each *)
(* class registers when it is constructed from its configuration, and what *)
(* it does to the Event when it works.  How long it waits is left out.     *)
(*                                                                         *)
(* A configuration has the fields label ("@label"), type ("@type"),        *)
(* threadType, toGet (a sequence of records with a label and a product),   *)
(* eventTimes (a sequence), productLabel and value.                        *)
(***************************************************************************)
EXTENDS Naturals, Sequences

thread_type_from_config(c) ==
    CASE c.threadType = "ThreadUnsafe"               -> "kThreadUnsafe"
      [] c.threadType = "ThreadSafeBetweenModules"   -> "kThreadSafeBetweenModules"
      [] c.threadType = "ThreadSafeBetweenInstances" -> "kThreadSafeBetweenInstances"

\* busyWait(iCount) adds up sines: the sum is 0 when there is none but sin(0).
\* The repository's README gives 43.3487 for 100000 of them.
BusyWaitIsPositive(iCount) == iCount > 1
BusyWaitLastDigit == 43 % 10

\* What is not said below: no data asked for, nothing made, a filter keeps the
\* event, a producer puts the sum of what it reads and adds.
Constructed(c, base, threadType) ==
    [label |-> c.label, base |-> base, threadType |-> threadType,
     m_getters |-> <<>>,        \* registerGet
     m_mightGetters |-> <<>>,   \* registerMightGet
     m_products |-> {},         \* registerProduct
     hasAcquire |-> FALSE,
     reads |-> <<>>,            \* what it gets from the Event when it works
     byLabel |-> FALSE,         \* with Event::get(label, product), not a Getter
     m_eventTimes |-> 1,        \* the size, where the index of the Event is divided by it
     throws |-> FALSE, keep |-> TRUE, adds |-> 0]

Filter(c, threadType)   == Constructed(c, "filter", threadType)
Producer(c, threadType) == Constructed(c, "producer", threadType)

\* The data of the modules in toGet, whose name is the empty one.
Blank(toGet) == [i \in DOMAIN toGet |-> <<toGet[i].label, "">>]
Exact(toGet) == [i \in DOMAIN toGet |-> <<toGet[i].label, toGet[i].product>>]

-----------------------------------------------------------------------------
(* Filters that read all they get. *)

BusyWaitPassFilter(c) ==
    [Filter(c, thread_type_from_config(c)) EXCEPT
        !.m_getters = Blank(c.toGet), !.reads = Blank(c.toGet)]

SleepingPassFilter(c) ==
    [Filter(c, thread_type_from_config(c)) EXCEPT
        !.m_getters = Blank(c.toGet), !.reads = Blank(c.toGet)]

FastPassFilter(c) ==
    [Filter(c, thread_type_from_config(c)) EXCEPT
        !.m_getters = Blank(c.toGet), !.reads = Blank(c.toGet)]

\* Mutant of EventTimesPassFilterBase: the data is not asked for beforehand.
EventTimesPassFilterBaseUnregistered(c) ==
    [Filter(c, thread_type_from_config(c)) EXCEPT
        !.reads = Blank(c.toGet), !.m_eventTimes = Len(c.eventTimes)]

EventTimesPassFilterBase(c) ==
    [Filter(c, thread_type_from_config(c)) EXCEPT
        !.m_getters = Blank(c.toGet), !.reads = Blank(c.toGet),
        !.m_eventTimes = Len(c.eventTimes)]

EventTimesBusyWaitPassFilter(c) == EventTimesPassFilterBase(c)
EventTimesSleepingPassFilter(c) == EventTimesPassFilterBase(c)
EventTimesBusyWaitParallelForPassFilter(c) == EventTimesPassFilterBase(c)
EventTimesSleepingParallelForPassFilter(c) == EventTimesPassFilterBase(c)
EventTimesBusyWaitTaskStealingParallelForPassFilter(c) == EventTimesPassFilterBase(c)
EventTimesSleepingTaskStealingParallelForPassFilter(c) == EventTimesPassFilterBase(c)

(* Filters that do not. *)

PassFilter(c) ==
    [Filter(c, "kThreadSafeBetweenModules") EXCEPT !.keep = BusyWaitIsPositive(10000)]

ThreadSaferGetterFilter(c) ==
    [Filter(c, "kThreadSafeBetweenModules") EXCEPT !.m_getters = Exact(c.toGet)]

ThrowingFilter(c) ==
    [Filter(c, thread_type_from_config(c)) EXCEPT
        !.m_getters = Blank(c.toGet), !.throws = TRUE]

\* Reads when it works and not before.
EventTimesSyncGetPassFilterBase(c) ==
    [Filter(c, thread_type_from_config(c)) EXCEPT
        !.m_mightGetters = Blank(c.toGet), !.reads = Blank(c.toGet), !.byLabel = TRUE,
        !.m_eventTimes = Len(c.eventTimes)]

EventTimesSyncGetSleepingPassFilter(c) == EventTimesSyncGetPassFilterBase(c)

-----------------------------------------------------------------------------
(* Producers. *)

BusyWaitProducer(c) ==
    [Producer(c, thread_type_from_config(c)) EXCEPT
        !.m_products = {""}, !.m_getters = Blank(c.toGet), !.reads = Blank(c.toGet)]

SleepingProducer(c) ==
    [Producer(c, thread_type_from_config(c)) EXCEPT
        !.m_products = {""}, !.m_getters = Blank(c.toGet), !.reads = Blank(c.toGet)]

FastProducer(c) ==
    [Producer(c, thread_type_from_config(c)) EXCEPT
        !.m_products = {""}, !.m_getters = Blank(c.toGet), !.reads = Blank(c.toGet)]

SleepingWithAcquireProducer(c) ==
    [Producer(c, thread_type_from_config(c)) EXCEPT
        !.m_products = {""}, !.m_getters = Blank(c.toGet), !.reads = Blank(c.toGet),
        !.hasAcquire = TRUE]

ThrowingProducer(c) ==
    [Producer(c, thread_type_from_config(c)) EXCEPT
        !.m_products = {""}, !.m_getters = Blank(c.toGet), !.reads = Blank(c.toGet),
        !.throws = TRUE]

EventTimesProducerBase(c) ==
    [Producer(c, thread_type_from_config(c)) EXCEPT
        !.m_products = {""}, !.m_getters = Blank(c.toGet), !.reads = Blank(c.toGet),
        !.m_eventTimes = Len(c.eventTimes)]

EventTimesBusyWaitProducer(c) == EventTimesProducerBase(c)
EventTimesSleepingProducer(c) == EventTimesProducerBase(c)

EventTimesSyncGetProducerBase(c) ==
    [Producer(c, thread_type_from_config(c)) EXCEPT
        !.m_products = {""}, !.m_mightGetters = Blank(c.toGet),
        !.reads = Blank(c.toGet), !.byLabel = TRUE,
        !.m_eventTimes = Len(c.eventTimes)]

EventTimesSyncGetSleepingProducer(c) == EventTimesSyncGetProducerBase(c)

ThreadSafeProducer(c) ==
    [Producer(c, "kThreadSafeBetweenInstances") EXCEPT
        !.m_products = {c.productLabel}, !.adds = c.value + BusyWaitLastDigit]

\* Has no factory: a job cannot be configured with it.
ThreadSafeWhichReadsProducer(c) ==
    [Producer(c, "kThreadSafeBetweenModules") EXCEPT
        !.m_products = {c.productLabel}, !.m_getters = Exact(c.toGet),
        !.reads = Exact(c.toGet), !.adds = c.value + BusyWaitLastDigit]
=============================================================================
