----------------------------- MODULE MCTaskTree -----------------------------
(* Instances of TaskTree for TLC. *)
EXTENDS TaskTree, TLC

CONSTANTS t1, t2, d1, d2, v1, v2

FirstRetries == [s \in Steps |-> IF s = t1 THEN 1 ELSE 0]
NoRetry == [s \in Steps |-> 0]
=============================================================================
