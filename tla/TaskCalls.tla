------------------------------ MODULE TaskCalls ------------------------------
(***************************************************************************)
(* What a `type: task` step may rely on about the child jobs it starts,    *)
(* whichever replicas dispatch it: a child is made at one commit, it ends  *)
(* once with one outcome, and its outcome is handed to the parent step at  *)
(* most once and never before the end.  A hand-over may be missing (the    *)
(* process may die), never repeated.                                       *)
(***************************************************************************)
EXTENDS Naturals

CONSTANTS Children, Pins, Outcomes, None

VARIABLES
  pin,       \* [Children -> Pins or None]: the commit the child was made at
  outcome,   \* [Children -> Outcomes or None]
  told       \* [Children -> Nat]: how often its outcome was handed over

vars == <<pin, outcome, told>>

Init ==
  /\ pin = [c \in Children |-> None]
  /\ outcome = [c \in Children |-> None]
  /\ told = [c \in Children |-> 0]

(* A child may be over when it is made. *)
Make(c) ==
  /\ pin[c] = None
  /\ \E p \in Pins : pin' = [pin EXCEPT ![c] = p]
  /\ \E o \in Outcomes \cup {None} : outcome' = [outcome EXCEPT ![c] = o]
  /\ UNCHANGED told

End(c) ==
  /\ pin[c] # None /\ outcome[c] = None
  /\ \E o \in Outcomes : outcome' = [outcome EXCEPT ![c] = o]
  /\ UNCHANGED <<pin, told>>

Tell(c) ==
  /\ outcome[c] # None /\ told[c] = 0
  /\ told' = [told EXCEPT ![c] = 1]
  /\ UNCHANGED <<pin, outcome>>

Next == \E c \in Children : Make(c) \/ End(c) \/ Tell(c)

Spec == Init /\ [][Next]_vars
=============================================================================
