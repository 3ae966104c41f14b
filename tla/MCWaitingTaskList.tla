------------------------- MODULE MCWaitingTaskList -------------------------
(* Symmetry for TLC, used where no liveness is checked. *)
EXTENDS WaitingTaskList, TLC

Symmetric == Permutations(Threads) \cup Permutations(Waiters)
=============================================================================
