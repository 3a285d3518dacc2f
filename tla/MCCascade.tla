----------------------------- MODULE MCCascade -----------------------------
(* Flows for TLC: a branch with alternatives, and loops. *)
EXTENDS Cascade, TLC

CONSTANTS hc, h1, h2, a, b, c, d, p, z

(* b -> d (always, if its condition holds); a, b, d -> c (a completed, and *)
(* b failed or d skipped).  The reports of a and b overtake each other.    *)
BranchSteps == {a, b, c, d}
BranchAny == Group("any", {Leaf(b, {"failed"}), Leaf(d, {"skipped"})})
BranchDepends ==
  [s \in BranchSteps |-> CASE s = c -> {Name(a), BranchAny}
                           [] s = d -> {Leaf(b, AnyOutcome)}
                           [] OTHER -> {}]
BranchEntries ==
  {BranchAny, Leaf(b, {"failed"}), Leaf(d, {"skipped"}), Leaf(b, AnyOutcome), Name(a)}
BranchWhen ==
  [s \in BranchSteps |-> IF s = d THEN {"false", "error"} ELSE {"none"}]

(* a -> p (for_each) -> z (when p is completed or failed) *)
LoopSteps == {a, p, z}
LoopDepends ==
  [s \in LoopSteps |-> CASE s = p -> {Name(a)}
                         [] s = z -> {Leaf(p, {"completed", "failed"})}
                         [] OTHER -> {}]
LoopEntries == {Name(a), Leaf(p, {"completed", "failed"})}
LoopWhen == [s \in LoopSteps |-> {"none"}]
LoopItems == [x \in {p} |-> {0, 2, 3}]

NoLoops == {}
NoItems == <<>>
HandlerSymmetry == Permutations({h1, h2})
=============================================================================
