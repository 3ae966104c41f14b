-------------------------- MODULE MCSingleThreaded --------------------------
(* A configuration with every class of the test modules. *)
EXTENDS SingleThreaded, TLC

Get(labels) == [i \in DOMAIN labels |-> [label |-> labels[i], product |-> ""]]

Config(label, type, labels) ==
    [label |-> label, type |-> type, toGet |-> Get(labels), eventTimes |-> <<"short", "long">>]

AllFilters == <<
    Config("first",  "demo::PassFilter", <<>>),
    Config("busy",   "demo::BusyWaitPassFilter", <<"beta">>),
    Config("sleepy", "demo::SleepingPassFilter", <<"alpha", "gamma">>),
    Config("timed",  "demo::EventTimesBusyWaitPassFilter", <<"delta">>),
    Config("slow",   "demo::EventTimesSleepingPassFilter", <<"beta", "delta">>),
    Config("last",   "demo::ThreadSaferGetterFilter", <<"alpha">>) >>

\* delta gets beta and gamma, which both get alpha.
AllProducers == <<
    Config("alpha", "demo::BusyWaitProducer", <<>>),
    Config("beta",  "demo::SleepingProducer", <<"alpha">>),
    Config("gamma", "demo::EventTimesBusyWaitProducer", <<"alpha">>),
    Config("delta", "demo::EventTimesSleepingProducer", <<"beta", "gamma">>) >>

\* A filter on two paths, and a path that begins with what needs most.
AllPaths == << <<"first", "busy", "sleepy">>, <<"timed", "busy", "last">>, <<"slow">> >>
=============================================================================
