--------------------- MODULE MCSerialTaskQueueTeardown ---------------------
(* Constants for TLC. *)
EXTENDS SerialTaskQueueTeardown, TLC

CONSTANTS t1, t2, t3, t4, g1, g2, g3

MCTasks == {t1, t2, t3, t4}
MCGroups == {g1, g2, g3}
MCGroupOf == t1 :> g1 @@ t2 :> g1 @@ t3 :> g2 @@ t4 :> g3
=============================================================================
