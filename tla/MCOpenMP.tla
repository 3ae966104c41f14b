------------------------------ MODULE MCOpenMP ------------------------------
(* The jobs that TLC checks. *)
EXTENDS OpenMP

Get(labels) == [i \in DOMAIN labels |-> [label |-> labels[i], product |-> ""]]

Config(l, type, threadType, labels) ==
    [label |-> l, type |-> type, threadType |-> threadType, toGet |-> Get(labels),
     eventTimes |-> <<"short", "long">>, productLabel |-> "", value |-> 1]

Job(f, p, names, events, concurrent) ==
    [filters |-> f, producers |-> p, paths |-> names, iterations |-> events,
     nSimultaneousEvents |-> concurrent]

Unsafe    == "ThreadUnsafe"
Modules   == "ThreadSafeBetweenModules"
Instances == "ThreadSafeBetweenInstances"

\* Two streams, whose modules share the queue of those that are not thread safe
\* and one of a module.
TwoStreams ==
    Job(<<Config("first", "demo::SleepingPassFilter", Unsafe, <<"alpha">>)>>,
        <<Config("alpha", "demo::BusyWaitProducer", Modules, <<>>)>>,
        << <<"first">> >>, 2, 2)

\* Two paths; on one of them a module gets a producer, and another one that gets
\* it too.
Diamond ==
    Job(<<Config("left", "demo::FastPassFilter", Instances, <<"beta", "alpha">>),
          Config("right", "demo::FastPassFilter", Unsafe, <<"alpha">>)>>,
        <<Config("alpha", "demo::FastProducer", Instances, <<>>),
          Config("beta", "demo::FastProducer", Unsafe, <<"alpha">>)>>,
        << <<"left">>, <<"right">> >>, 2, 1)

\* Filters that follow each other and may reject; a path without filters.
Sequence ==
    Job(<<Config("rejecting", "demo::PassFilter", Modules, <<>>),
          Config("second", "demo::SleepingPassFilter", Modules, <<"alpha">>)>>,
        <<Config("alpha", "demo::FastProducer", Unsafe, <<>>)>>,
        << <<"rejecting", "second">>, <<>> >>, 2, 1)

\* A producer that throws, and a path that goes on; modules of two streams that
\* may reject or throw.
Throws ==
    Job(<<Config("left", "demo::FastPassFilter", Unsafe, <<"alpha">>),
          Config("right", "demo::PassFilter", Modules, <<>>),
          Config("second", "demo::PassFilter", Modules, <<>>)>>,
        <<Config("alpha", "demo::ThrowingProducer", Modules, <<>>)>>,
        << <<"left">>, <<"right", "second">> >>, 2, 1)
Rejects ==
    Job(<<Config("rejecting", "demo::PassFilter", Modules, <<>>),
          Config("second", "demo::PassFilter", Unsafe, <<>>)>>, <<>>,
        << <<"rejecting", "second">> >>, 2, 2)
FilterThrows ==
    Job(<<Config("left", "demo::ThrowingFilter", Unsafe, <<"alpha">>)>>,
        <<Config("alpha", "demo::FastProducer", Instances, <<>>)>>,
        << <<"left">> >>, 3, 2)

\* Data that a filter gets while it works, from a producer that nobody else
\* asks for; one of them throws.
SyncGets(type) ==
    Job(<<Config("left", "demo::EventTimesSyncGetSleepingPassFilter", Instances,
                 <<"alpha", "beta">>)>>,
        <<Config("alpha", "demo::FastProducer", Instances, <<>>),
          Config("beta", type, Instances, <<"alpha">>)>>,
        << <<"left">> >>, 2, 2)

NoPaths == Job(<<>>, <<Config("alpha", "demo::FastProducer", Instances, <<>>)>>, <<>>, 2, 2)

\* Jobs that main or the framework gives up.
Unknown == {
    Job(<<Config("left", "demo::NoFilter", Instances, <<>>)>>, <<>>, <<>>, 1, 1),
    Job(<<>>, <<Config("alpha", "demo::NoProducer", Instances, <<>>)>>, <<>>, 1, 1),
    Job(<<Config("left", "demo::PassFilter", Instances, <<>>)>>, <<>>, << <<"right">> >>, 1, 1),
    Job(<<Config("left", "demo::FastPassFilter", Instances, <<"alpha">>)>>, <<>>,
        << <<"left">> >>, 1, 1),
    Job(<<Config("left", "demo::EventTimesSyncGetSleepingPassFilter", Instances, <<"alpha">>)>>,
        <<>>, << <<"left">> >>, 1, 1) }

Jobs == Unknown \cup {TwoStreams, Diamond, Sequence, Throws, Rejects, FilterThrows, NoPaths,
                      SyncGets("demo::FastProducer"), SyncGets("demo::ThrowingProducer")}

\* Two modules that are not thread safe, one of which gets the other's data while
\* it works.
UnsafeSyncGet ==
    {Job(<<Config("left", "demo::EventTimesSyncGetSleepingPassFilter", Unsafe, <<"alpha">>)>>,
         <<Config("alpha", "demo::FastProducer", Unsafe, <<>>)>>,
         << <<"left">> >>, 1, 1)}
=============================================================================
