---------------------------- MODULE MCStepClaim ----------------------------
(* Instances of StepClaim for TLC. *)
EXTENDS StepClaim, TLC

CONSTANTS s1, s2, w1, w2

OneRetry == [s \in Steps |-> 1]
NoRetry == [s \in Steps |-> 0]
AllTimeouts == [s \in Steps |-> TRUE]
NoTimeouts == [s \in Steps |-> FALSE]

WorkerSymmetry == Permutations(Workers)
=============================================================================
