--------------------------- MODULE SerialExecutor ---------------------------
(***************************************************************************)
(* What demo::SerialTaskQueue promises its callers: the tasks handed to    *)
(* it run one at a time, in the order in which they were accepted, and     *)
(* each of them once.  How tasks are picked and which thread runs them is  *)
(* left to the implementation, see SerialTaskQueue.                        *)
(***************************************************************************)
EXTENDS Naturals, Sequences

CONSTANT Tasks

VARIABLES
    accepted,   \* the tasks handed to push(), in order
    started,    \* how many of them have been chosen to run
    done        \* the tasks that ran to their end, in order

vars == <<accepted, started, done>>

Init == /\ accepted = <<>>
        /\ started = 0
        /\ done = <<>>

\* A caller hands over a task.
Submit(t) ==
    /\ \A i \in 1..Len(accepted) : accepted[i] # t
    /\ accepted' = Append(accepted, t)
    /\ UNCHANGED <<started, done>>

\* The oldest task is chosen, once the previous one has ended.
Start ==
    /\ started = Len(done)
    /\ started < Len(accepted)
    /\ started' = started + 1
    /\ UNCHANGED <<accepted, done>>

\* The chosen task ends.
Complete ==
    /\ started = Len(done) + 1
    /\ done' = Append(done, accepted[started])
    /\ UNCHANGED <<accepted, started>>

Next == (\E t \in Tasks : Submit(t)) \/ Start \/ Complete

Spec == Init /\ [][Next]_vars
=============================================================================
