------------------------- MODULE MCSerialTaskQueue -------------------------
(* Constants for TLC. *)
EXTENDS SerialTaskQueue, TLC

CONSTANTS t1, t2, t3, g1, g2

MCTasks == {t1, t2, t3}
MCGroups == {g1, g2}
MCGroupOf == t1 :> g1 @@ t2 :> g1 @@ t3 :> g2
=============================================================================
