----------------------------- MODULE MCDispatch -----------------------------
(* The jobs that TLC checks. *)
EXTENDS Dispatch

Get(labels) == [i \in DOMAIN labels |-> [label |-> labels[i], product |-> ""]]

Config(label, type, threadType, labels) ==
    [label |-> label, type |-> type, threadType |-> threadType, toGet |-> Get(labels),
     eventTimes |-> <<"short", "long">>, productLabel |-> "", value |-> 1]

JobOf(f, p, names, events, concurrent) ==
    [filters |-> f, producers |-> p, paths |-> names, iterations |-> events,
     nSimultaneousEvents |-> concurrent]

SyncGetFilter(label, threadType, labels) ==
    Config(label, "demo::EventTimesSyncGetSleepingPassFilter", threadType, labels)
SleepingFilter(label, threadType, labels) ==
    Config(label, "demo::SleepingPassFilter", threadType, labels)
BusyWait(label, threadType, labels) ==
    Config(label, "demo::BusyWaitProducer", threadType, labels)

\* Two events at once, and a module that waits for another when neither is
\* thread safe.
TwoStreams ==
    JobOf(<<SyncGetFilter("first", "ThreadUnsafe", <<"alpha">>)>>,
        <<BusyWait("alpha", "ThreadUnsafe", <<>>)>>,
        << <<"first">> >>, 1, 2)

\* One event after the other; in each, two paths ask for the same.
TwoPaths ==
    JobOf(<<SyncGetFilter("first", "ThreadUnsafe", <<"alpha">>),
          SleepingFilter("second", "ThreadSafeBetweenInstances", <<"alpha">>)>>,
        <<BusyWait("alpha", "ThreadSafeBetweenModules", <<>>)>>,
        << <<"first">>, <<"second">> >>, 2, 1)

\* A filter on two paths, and data that needs data.
OneFilterTwice ==
    JobOf(<<SleepingFilter("first", "ThreadUnsafe", <<"alpha">>)>>,
        <<BusyWait("alpha", "ThreadUnsafe", <<"beta">>),
          Config("beta", "demo::SleepingProducer", "ThreadSafeBetweenModules", <<>>)>>,
        << <<"first">>, <<"first">> >>, 1, 1)

\* Two events share a producer, and the filter that waits for it is reentrant.
SharedProducer ==
    JobOf(<<SyncGetFilter("first", "ThreadSafeBetweenInstances", <<"alpha">>)>>,
        <<BusyWait("alpha", "ThreadSafeBetweenModules", <<>>)>>,
        << <<"first">> >>, 1, 2)

-----------------------------------------------------------------------------
(* Every class that has a factory, and a path without filters. *)

FilterTypes == <<
    "demo::BusyWaitPassFilter", "demo::SleepingPassFilter", "demo::EventTimesBusyWaitPassFilter",
    "demo::EventTimesSleepingPassFilter", "demo::EventTimesSyncGetSleepingPassFilter",
    "demo::PassFilter", "demo::ThreadSaferGetterFilter" >>
ProducerTypes == <<
    "demo::BusyWaitProducer", "demo::SleepingProducer", "demo::EventTimesBusyWaitProducer",
    "demo::EventTimesSleepingProducer", "demo::EventTimesSyncGetSleepingProducer",
    "demo::ThreadSafeProducer" >>
FilterLabels   == <<"fa", "fb", "fc", "fd", "fe", "ff", "fg">>
ProducerLabels == <<"pa", "pb", "pc", "pd", "pe", "pf">>

EveryClass ==
    JobOf([i \in DOMAIN FilterTypes |->
            Config(FilterLabels[i], FilterTypes[i], "ThreadSafeBetweenInstances",
                   SubSeq(ProducerLabels, 1, 1))],
        [i \in DOMAIN ProducerTypes |->
            Config(ProducerLabels[i], ProducerTypes[i], "ThreadSafeBetweenInstances",
                   SubSeq(ProducerLabels, 1, i - 1))],
        << <<>>, FilterLabels >>, 1, 0)

Jobs == {TwoStreams, TwoPaths, OneFilterTwice, SharedProducer, EveryClass}
=============================================================================
