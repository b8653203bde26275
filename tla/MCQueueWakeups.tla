--------------------------- MODULE MCQueueWakeups ---------------------------
(* Instances of QueueWakeups for TLC. *)
EXTENDS QueueWakeups, TLC

CONSTANTS t1, t2, t3, s1, s2

Owner == (t1 :> s1) @@ (t2 :> s1) @@ (t3 :> s2)
=============================================================================
