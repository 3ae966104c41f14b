-------------------------- MODULE MCEventProcessor --------------------------
(* The configurations that TLC checks. *)
EXTENDS EventProcessor, TLC

Gets(labels) == [i \in DOMAIN labels |-> [label |-> labels[i], product |-> ""]]

Module(label, type, threadType, labels) ==
    [label |-> label, type |-> type, threadType |-> threadType, toGet |-> Gets(labels),
     eventTimes |-> <<"short">>, productLabel |-> "", value |-> 1]

Job(f, p, names, events, concurrent, threads) ==
    [filters |-> f, producers |-> p, paths |-> names, iterations |-> events,
     nSimultaneousEvents |-> concurrent, nThreads |-> threads]

-----------------------------------------------------------------------------
(* What finishSetup finds: three producers and a filter, each of which gets  *)
(* any of the producers before it, beforehand or while it works.             *)

Instances == "ThreadSafeBetweenInstances"

Producers(label, before) ==
    {Module(label, "demo::SleepingProducer", Instances, SetToSeq(s)) : s \in SUBSET before} \cup
    {Module(label, "demo::EventTimesSyncGetSleepingProducer", Instances, SetToSeq(s)) :
        s \in SUBSET before \ {{}}}

Filters(before) ==
    {Module("f", "demo::SleepingPassFilter", Instances, SetToSeq(s)) : s \in SUBSET before} \cup
    {Module("f", "demo::EventTimesSyncGetSleepingPassFilter", Instances, SetToSeq(s)) :
        s \in SUBSET before \ {{}}}

Dependencies ==
    {Job(<<f>>, <<Module("p1", "demo::FastProducer", Instances, <<>>), p2, p3>>, << <<"f">> >>,
         0, 1, 1) :
        f \in Filters({"p1", "p2", "p3"}),
        p2 \in Producers("p2", {"p1"}),
        p3 \in Producers("p3", {"p1", "p2"})}

-----------------------------------------------------------------------------
(* Every class, and three streams that share their modules. *)

FilterTypes == <<
    "demo::BusyWaitPassFilter", "demo::SleepingPassFilter", "demo::FastPassFilter",
    "demo::EventTimesBusyWaitPassFilter", "demo::EventTimesSleepingPassFilter",
    "demo::EventTimesBusyWaitParallelForPassFilter",
    "demo::EventTimesSleepingParallelForPassFilter",
    "demo::EventTimesBusyWaitTaskStealingParallelForPassFilter",
    "demo::EventTimesSleepingTaskStealingParallelForPassFilter",
    "demo::EventTimesSyncGetSleepingPassFilter", "demo::PassFilter",
    "demo::ThreadSaferGetterFilter" >>

ProducerTypes == <<
    "demo::BusyWaitProducer", "demo::SleepingProducer", "demo::FastProducer",
    "demo::SleepingWithAcquireProducer", "demo::EventTimesBusyWaitProducer",
    "demo::EventTimesSleepingProducer", "demo::EventTimesSyncGetSleepingProducer",
    "demo::ThreadSafeProducer" >>

ThreadTypes == <<"ThreadUnsafe", "ThreadSafeBetweenModules", "ThreadSafeBetweenInstances">>

FilterLabels   == <<"fa", "fb", "fc", "fd", "fe", "ff", "fg", "fh", "fi", "fj", "fk", "fl">>
ProducerLabels == <<"pa", "pb", "pc", "pd", "pe", "pf", "pg", "ph">>

\* Each filter gets two producers, each producer the one before it.
AllFilters == [i \in DOMAIN FilterTypes |->
    Module(FilterLabels[i], FilterTypes[i], ThreadTypes[(i % 3) + 1],
           <<ProducerLabels[(i % 8) + 1], ProducerLabels[((i + 2) % 8) + 1]>>)]
AllProducers == [i \in DOMAIN ProducerTypes |->
    Module(ProducerLabels[i], ProducerTypes[i], ThreadTypes[(i % 3) + 1],
           IF i = 1 THEN <<>> ELSE <<ProducerLabels[i - 1]>>)]
AllPaths == << SubSeq(FilterLabels, 1, 7), Reverse(SubSeq(FilterLabels, 6, 12)), <<>> >>

AllClasses(events, concurrent, threads) ==
    Job(AllFilters, AllProducers, AllPaths, events, concurrent, threads)

(* Small jobs: modules that share nothing, one that throws. *)

Free(events, concurrent, threads) ==
    Job(<<Module("f", "demo::FastPassFilter", Instances, <<"p">>)>>,
        <<Module("p", "demo::FastProducer", Instances, <<>>)>>,
        << <<"f">> >>, events, concurrent, threads)

ThrowingFilterJob(events, concurrent, threads) ==
    Job(<<Module("f", "demo::ThrowingFilter", "ThreadUnsafe", <<"p">>)>>,
        <<Module("p", "demo::FastProducer", Instances, <<>>)>>,
        << <<"f">> >>, events, concurrent, threads)

ThrowingProducerJob(events, concurrent, threads) ==
    Job(<<Module("f", "demo::FastPassFilter", Instances, <<"p">>)>>,
        <<Module("p", "demo::ThrowingProducer", "ThreadSafeBetweenModules", <<>>)>>,
        << <<"f">> >>, events, concurrent, threads)

(* Jobs that main gives up. *)

Unknown == {
    Job(<<Module("f", "demo::NoFilter", Instances, <<>>)>>, <<>>, <<>>, 1, 1, 1),
    Job(<<>>, <<Module("p", "demo::NoProducer", Instances, <<>>)>>, <<>>, 1, 1, 1),
    Job(<<Module("f", "demo::PassFilter", Instances, <<>>)>>, <<>>, << <<"f", "g">> >>, 1, 1, 1) }

Jobs == Dependencies \cup Unknown
    \cup {AllClasses(3, 3, 2), AllClasses(3, 2, 1)}
    \cup {Free(0, 2, 1), Free(1, 3, 2), Free(3, 2, 2), Free(3, 3, 1)}
    \cup {ThrowingFilterJob(3, 3, 2), ThrowingProducerJob(3, 3, 1)}
=============================================================================
