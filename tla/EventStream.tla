---------------------------- MODULE EventStream ----------------------------
(***************************************************************************)
(* What the framework promises of the events of one stream, which are      *)
(* processed one after the other.  In an event a filter runs when a path   *)
(* has come to it, a producer when a module that gets its data has been    *)
(* asked for, each once and after everything it gets from; a module fails  *)
(* when it throws or something it needs has failed; and the event is over  *)
(* when every path is, with nothing left to run, failed if a module was.   *)
(***************************************************************************)
EXTENDS Naturals, Sequences, Functions

CONSTANTS
    Producers, Filters, Paths,
    Gets,           \* for a module: the producers it gets data from
    PathFilters,    \* for a path: its filters, in sequence
    MayThrow,       \* the modules that may throw
    NEvents

Modules == Producers \cup Filters

VARIABLES
    event,      \* how many events have begun
    open,       \* one is being processed
    asked,      \* the modules it has asked for
    runs,       \* how often each has run to its end in it
    kept,       \* the filters that accepted it
    broken,     \* the modules that failed in it
    fatal,      \* the job has failed: every path may end early
    failed      \* this stream has failed, it does not go on

vars == <<event, open, asked, runs, kept, broken, fatal, failed>>

Init == /\ event = 0 /\ open = FALSE
        /\ asked = {} /\ runs = [m \in Modules |-> 0]
        /\ kept = {} /\ broken = {}
        /\ fatal = FALSE /\ failed = FALSE

\* Path p has come to its i-th filter, or to its end.
Reached(p, i) == \A j \in 1 .. i - 1 : PathFilters[p][j] \in kept

Settled(m) == runs[m] > 0 \/ m \in broken

PathOver(p) ==
    \/ fatal
    \/ Reached(p, Len(PathFilters[p]) + 1)
    \/ \E i \in DOMAIN PathFilters[p] :
          Reached(p, i) /\ Settled(PathFilters[p][i]) /\ PathFilters[p][i] \notin kept

Begin ==
    /\ ~open /\ ~failed /\ event < NEvents
    /\ event' = event + 1 /\ open' = TRUE
    /\ asked' = {} /\ runs' = [m \in Modules |-> 0]
    /\ kept' = {} /\ broken' = {}
    /\ UNCHANGED <<fatal, failed>>

Ask(m) ==
    /\ open /\ m \notin asked
    /\ \/ \E p \in Paths : \E i \in DOMAIN PathFilters[p] :
             PathFilters[p][i] = m /\ Reached(p, i)
       \/ \E a \in asked : m \in Range(Gets[a]) /\ ~Settled(a)
    /\ asked' = asked \cup {m}
    /\ UNCHANGED <<event, open, runs, kept, broken, fatal, failed>>

Run(m, keep) ==
    /\ open /\ m \in asked /\ ~Settled(m)
    /\ \A n \in Range(Gets[m]) : runs[n] > 0
    /\ runs' = [runs EXCEPT ![m] = 1]
    /\ kept' = IF keep /\ m \in Filters THEN kept \cup {m} ELSE kept
    /\ UNCHANGED <<event, open, asked, broken, fatal, failed>>

Break(m) ==
    /\ open /\ m \in asked /\ ~Settled(m)
    /\ \A n \in Range(Gets[m]) : Settled(n)
    /\ m \in MayThrow \/ Range(Gets[m]) \cap broken # {}
    /\ broken' = broken \cup {m}
    /\ UNCHANGED <<event, open, asked, runs, kept, fatal, failed>>

JobFails ==
    /\ fatal' = TRUE
    /\ UNCHANGED <<event, open, asked, runs, kept, broken, failed>>

End ==
    /\ open
    /\ \A p \in Paths : PathOver(p)
    /\ \A m \in asked : Settled(m)
    /\ broken # {} => fatal
    /\ failed' = (broken # {})
    /\ open' = FALSE
    /\ UNCHANGED <<event, asked, runs, kept, broken, fatal>>

Progress == \/ Begin
            \/ End
            \/ \E m \in Modules : \/ Ask(m)
                                  \/ Break(m)
                                  \/ \E keep \in BOOLEAN : Run(m, keep)

Spec == Init /\ [][Progress \/ JobFails]_vars

Fairness == WF_vars(Progress)

FairSpec == Spec /\ Fairness
=============================================================================
