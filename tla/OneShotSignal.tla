--------------------------- MODULE OneShotSignal ---------------------------
(***************************************************************************)
(* What demo::WaitingTaskList promises: every waiter added to the list is  *)
(* released once, after doneWaiting() and never before, and is told of the *)
(* exception if there was one.  reset() prepares the list for another use. *)
(***************************************************************************)
EXTENDS Naturals

CONSTANT Waiters

VARIABLES
    waiting,    \* doneWaiting() has not happened
    failed,     \* it was given an exception
    added,      \* the waiters added since the last reset
    released,   \* how often each of them was released
    told        \* those that were told of the exception

vars == <<waiting, failed, added, released, told>>

Init == /\ waiting = TRUE
        /\ failed = FALSE
        /\ added = {}
        /\ released = [w \in Waiters |-> 0]
        /\ told = {}

Add(w) == /\ w \notin added
          /\ added' = added \cup {w}
          /\ UNCHANGED <<waiting, failed, released, told>>

Finish(exception) ==
    /\ waiting
    /\ waiting' = FALSE
    /\ failed' = exception
    /\ UNCHANGED <<added, released, told>>

Release(w) ==
    /\ ~waiting
    /\ w \in added /\ released[w] = 0
    /\ released' = [released EXCEPT ![w] = 1]
    /\ told' = IF failed THEN told \cup {w} ELSE told
    /\ UNCHANGED <<waiting, failed, added>>

Reset == /\ ~waiting
         /\ \A w \in added : released[w] = 1
         /\ waiting' = TRUE
         /\ failed' = FALSE
         /\ added' = {}
         /\ released' = [w \in Waiters |-> 0]
         /\ told' = {}

Next == \/ \E w \in Waiters : Add(w) \/ Release(w)
        \/ \E exception \in BOOLEAN : Finish(exception)
        \/ Reset

Spec == Init /\ [][Next]_vars

FairSpec == Spec /\ \A w \in Waiters : WF_vars(Release(w))
=============================================================================
