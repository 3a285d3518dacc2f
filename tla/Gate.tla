-------------------------------- MODULE Gate --------------------------------
(***************************************************************************)
(* The dependency gate of a flow step: crates/stroem-common/src/gate.rs    *)
(* and depends_on.rs.  A step waits until every step its depends_on tree   *)
(* names is terminal; then the tree is evaluated once, and the step is     *)
(* either open or omitted.                                                 *)
(***************************************************************************)
EXTENDS Naturals, FiniteSets

CONSTANT Entries     \* every entry of every depends_on tree, nested ones too

(* An entry is a leaf that accepts some outcomes of one step, or a group.  *)
(* The uniform shape leaves "step" and "accept" unused in a group and "of" *)
(* empty in a leaf.                                                        *)
Leaf(s, accept) == [op |-> "step", step |-> s, accept |-> accept, of |-> {}]
Group(op, of) == [op |-> op, step |-> "none", accept |-> {}, of |-> of]

(* The trees are finite. *)
ASSUME EntriesAssumption ==
  /\ IsFiniteSet(Entries)
  /\ \A e \in Entries : e.op \in {"step", "all", "any"} /\ e.of \subseteq Entries
  /\ \E depth \in [Entries -> 0 .. Cardinality(Entries)] :
       \A e \in Entries : \A c \in e.of : depth[c] < depth[e]

(* The schema outcomes of a terminal dependency. *)
AnyOutcome == {"completed", "failed", "cancelled", "skipped", "omitted"}

(* A bare name, and a {step: ...} entry without accept. *)
Name(s) == Leaf(s, {"completed"})

(* DepOutcome::from_row: a skip that was the step's own choice stays a     *)
(* skip, any other is an omission; everything not terminal is pending.     *)
FromRow(r) ==
  CASE r.status \in {"completed", "failed", "cancelled"} -> r.status
    [] r.status = "skipped" /\ r.reason \in {"condition", "empty"} -> "skipped"
    [] r.status = "skipped" /\ r.reason \notin {"condition", "empty"} -> "omitted"
    [] OTHER -> "pending"

(* all_terminal: no step the entry names, however deep, is pending. *)
AllTerminal(outcome) ==
  LET terminal[e \in Entries] ==
        IF e.op = "step" THEN outcome[e.step] # "pending"
                         ELSE \A c \in e.of : terminal[c]
  IN terminal

(* satisfied. *)
Satisfied(outcome) ==
  LET sat[e \in Entries] ==
        IF e.op = "step" THEN outcome[e.step] \in e.accept
        ELSE IF e.op = "all" THEN \A c \in e.of : sat[c]
        ELSE \E c \in e.of : sat[c]
  IN sat

(* gate: the top level is an implicit "all". *)
GateOf(dependsOn, outcome) ==
  IF \E e \in dependsOn : ~AllTerminal(outcome)[e] THEN "wait"
  ELSE IF \A e \in dependsOn : Satisfied(outcome)[e] THEN "open"
  ELSE "omitted"
=============================================================================
