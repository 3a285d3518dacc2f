---------------------------- MODULE MCSettlement ----------------------------
(* Instances of Settlement for TLC. *)
EXTENDS Settlement, TLC

CONSTANTS s1, s2, r1, r2

OnePoll == [s \in Steps |-> r1]
NoStepRetry == [s \in Steps |-> 0]
OneStepRetry == [s \in Steps |-> IF s = s1 THEN 1 ELSE 0]
=============================================================================
