--------------------------- MODULE Cascade_proofs ---------------------------
(***************************************************************************)
(* Proofs about Cascade, for any flow: any steps and depends_on trees, any *)
(* loops and item counts, any number of advances in progress at the same   *)
(* time and a cancel at any moment.                                        *)
(***************************************************************************)
EXTENDS Cascade, FiniteSetTheorems, WellFoundedInduction, TLAPS

(* The parts of the inductive invariant that speak of the rows alone; they *)
(* hold of the database, of every snapshot and after every phase of run.   *)

(* The rows of the flow exist, and a loop has no instance before it opens. *)
StepsPresent(f) == \A s \in FlowSteps : f[s].status # "absent"
NoOrphans(f) ==
  \A r \in Instances : f[r[1]].status = "pending" => f[r].status = "absent"

(* GateRespected, of any rows: each step's value x is one its gate allows. *)
Judged(f, s, x) ==
  /\ (\/ x.status \in {"ready", "running", "completed"}
      \/ x.reason \in {"condition", "empty"})
       => GateFor(f, s) = "open"
  /\ x.reason = "unreachable" => GateFor(f, s) = "omitted"
GateOK(f) == \A s \in FlowSteps : Judged(f, s, f[s])

(* LoopOrder and RollupExact, of any rows. *)
OrderOK(f) ==
  \A r, q \in Instances :
    (r[1] = q[1] /\ r[1] \in Sequential /\ r[2] < q[2]
       /\ f[q].status \in {"ready", "running", "completed"}) =>
      /\ Done(f, r)
      /\ r[1] \notin Tolerated => f[r].status = "completed"
RollupOK(f) ==
  \A p \in Placeholders :
    (f[p].status \in {"completed", "failed"} /\ InstancesOf(f, p) # {}) =>
      /\ \A r \in InstancesOf(f, p) : Done(f, r)
      /\ f[p].status = "completed" =>
           \A r \in InstancesOf(f, p) : f[r].status # "failed"

(* As long as a sequential loop has a pending instance, whatever left      *)
(* pending before it did so in order.                                      *)
PrefixOK(f) ==
  \A r, q, t \in Instances :
    (r[1] = q[1] /\ q[1] = t[1] /\ r[1] \in Sequential /\ r[2] < q[2] /\ q[2] < t[2]
       /\ f[t].status = "pending" /\ f[q].status \notin {"absent", "pending"}) =>
      Done(f, r)

(* An instance is skipped for a failed or a cancelled one. *)
SkipsHaveCause(f) ==
  \A r \in Instances : f[r].status = "skipped" =>
    \E q \in Instances : q[1] = r[1] /\ f[q].status \in {"failed", "cancelled"}

LoopsOK(f) == OrderOK(f) /\ PrefixOK(f) /\ SkipsHaveCause(f) /\ RollupOK(f)
RowsOK(f) == f \in RowState /\ StepsPresent(f) /\ NoOrphans(f) /\ GateOK(f) /\ LoopsOK(f)

(* What the rows g may have become since they were f, without late         *)
(* reports: an ended row stays as it is, no row becomes pending again, and *)
(* instances appear with the opening of their loop.                        *)
Keeps(f, g) == \A r \in Rows : Done(f, r) => g[r] = f[r]
Evolves(f, g) ==
  /\ Keeps(f, g)
  /\ \A r \in Rows :
       /\ f[r].status # "absent" => g[r].status # "absent"
       /\ g[r].status = "pending" => f[r].status \in {"absent", "pending"}
  /\ \A r \in Instances :
       f[r].status = "absent" /\ g[r].status # "absent" =>
         f[r[1]].status = "pending" /\ g[r[1]].status # "pending"

(* A snapshot was a state of the rows; an outcome that was read is final.  *)
HandlersOK ==
  \A h \in Handlers :
    /\ At(h, "apply") => RowsOK(snap[h]) /\ Evolves(snap[h], row)
    /\ At(h, "settle") => AllDone /\ handler[h].outcome = Outcome

(* The rows a cancel matched exist, and of a loop it matched it matched    *)
(* every instance that still waits.                                        *)
MatchedOK ==
  cancelPc = "matched" =>
    /\ \A r \in matched : row[r].status # "absent"
    /\ \A r, q \in Instances :
         r \in matched /\ q[1] = r[1] /\ row[q].status = "pending" => q \in matched

(* TypeOK, of what the cascade itself reads and writes, and SettledIsExact *)
(* as it holds as long as no report is late.                               *)
KindsOK ==
  /\ job \in Live \cup {"completed", "failed", "cancelled"}
  /\ row \in RowState
  /\ handler \in [Handlers ->
       [pc : {"idle", "read", "snapshot", "apply", "decide", "settle"},
        attempt : 0 .. MaxAttempts,
        outcome : {"none", "completed", "failed", "cancelled"}]]
  /\ snap \in [Handlers -> RowState]
  /\ cancelPc \in {"idle", "stamped", "matched", "swept", "done"}
  /\ matched \subseteq Rows
SettledOK ==
  /\ job \in {"completed", "failed"} => AllDone
  /\ job = "completed" => Outcome = "completed"

(* The inductive invariant, as long as no report is late. *)
IInv == KindsOK /\ RowsOK(row) /\ HandlersOK /\ MatchedOK /\ SettledOK

(* What run makes of any rows, late reports or not.  *)
Orderly(f) == StepsPresent(f) /\ NoOrphans(f)
Moves(f, g) ==
  /\ \A r \in Rows :
       /\ f[r].status # "absent" => g[r].status # "absent"
       /\ g[r].status = "pending" => f[r].status \in {"absent", "pending"}
       /\ g[r].status = "ready" => f[r].status \in {"absent", "pending", "ready"}
  /\ \A r \in Instances :
       f[r].status = "absent" /\ g[r].status # "absent" =>
         f[r[1]].status = "pending" /\ g[r[1]].status # "pending"

(* The invariant of CancelLeavesOnly: what the cancel matched is there,    *)
(* and what it did not match of the flow waits for no one but a retry.     *)
(* Whoever is about to settle the job has decided it.                      *)
Settlers == \A h \in Handlers : At(h, "settle") => handler[h].outcome # "none"
Retriable(r) == FlowStepOf(r) \in Retried /\ row[r].status = "ready"
Swept ==
  /\ Orderly(row) /\ \A h \in Handlers : At(h, "apply") => Orderly(snap[h])
  /\ claimed \cap Placeholders = {} /\ \A r \in claimed : row[r].status # "absent"
  /\ cancelPc \in {"matched", "swept", "done"} => \A r \in matched : row[r].status # "absent"
  /\ cancelPc = "matched" =>
       \A s \in FlowSteps : Unclaimed(s) => s \in matched \/ Retriable(s)
  /\ cancelPc \in {"swept", "done"} =>
       \A r \in Rows : Unclaimed(r) => r \in Instances \ matched \/ Retriable(r)

(* For NoLostWakeup: the rows that a pass would change.  They do not       *)
(* depend on what conditions and expressions evaluate to.                  *)
CanDecide(f, s) == s \in FlowSteps /\ f[s].status = "pending" /\ GateFor(f, s) # "wait"
CanRollup(f, p) ==
  p \in Placeholders /\ LoopOpen(f, p) /\ \A r \in InstancesOf(f, p) : Done(f, r)
CanFollow(f, r) ==
  /\ r \in Instances /\ LoopOpen(f, r[1]) /\ f[r].status = "pending"
  /\ \/ SkipsRest(f, r[1])
     \/ r[1] \in Sequential /\ r[2] > 0 /\ Done(f, <<r[1], r[2] - 1>>)
Work(f) == {r \in Rows : CanDecide(f, r) \/ CanRollup(f, r) \/ CanFollow(f, r)}

(* The loops of a live job: a loop that runs has instances, numbered       *)
(* without gaps, and only those of a running sequential loop wait.         *)
OpenLoops(f) ==
  /\ \A p \in Placeholders :
       /\ f[p].status # "ready"
       /\ f[p].status = "running" => \E r \in Instances : r[1] = p /\ f[r].status # "absent"
  /\ \A r \in Instances :
       /\ f[r].status # "absent" /\ r[2] > 0 => f[<<r[1], r[2] - 1>>].status # "absent"
       /\ f[r].status = "pending" =>
            f[r[1]].status = "running" /\ r[1] \in Sequential /\ r[2] > 0

(* Between f and g rows were only started or retried; between f and g no   *)
(* plan was applied; some work of f was done by g.                         *)
Same(f, g) ==
  \A r \in Rows :
    \/ g[r] = f[r]
    \/ /\ r \notin Placeholders /\ f[r].status \in {"ready", "running"}
       /\ g[r] \in {Cell("ready"), Cell("running")}
Fresh(f, g) ==
  \A r \in Rows : f[r].status \in {"absent", "pending"} \/ r \in Placeholders => g[r] = f[r]
Overtaken(f, g) == \E r \in Work(f) : g[r].status # f[r].status

(* Snapshots are states of the rows, one after the other.                  *)
SnapshotsOrdered ==
  \A h, k \in Handlers :
    At(h, "apply") /\ At(k, "apply") => Evolves(snap[h], snap[k]) \/ Evolves(snap[k], snap[h])

LoopsAreOpen ==
  OpenLoops(row) /\ \A h \in Handlers : At(h, "apply") => OpenLoops(snap[h])

(* A plan that has something to do was overtaken, or nothing was applied   *)
(* since its snapshot.                                                     *)
PlansAreExact ==
  \A h \in Handlers : At(h, "apply") =>
    Work(snap[h]) = {} \/ Fresh(snap[h], row) \/ Overtaken(snap[h], row)

(* An advance that will go on when another one overtakes it.               *)
InReserve(h) ==
  \/ At(h, "read")
  \/ At(h, "snapshot") /\ handler[h].attempt < MaxAttempts
  \/ /\ At(h, "apply") /\ handler[h].attempt < MaxAttempts
     /\ Work(snap[h]) # {} /\ Fresh(snap[h], row)

(* A plan that can still be applied has seen every report, or whoever      *)
(* reported since is in reserve.                                           *)
ReportersInReserve ==
  \A k \in Handlers :
    At(k, "apply") /\ Work(snap[k]) # {} /\ Fresh(snap[k], row) =>
      Same(snap[k], row) \/ \E h \in Handlers \ {k} : InReserve(h)

(* An advance that sees to all the work there is.                          *)
Sees(h) ==
  \/ At(h, "read") \/ At(h, "snapshot")
  \/ At(h, "apply") /\ Same(snap[h], row)
  \/ At(h, "apply") /\ Overtaken(snap[h], row) /\ handler[h].attempt < MaxAttempts

WorkIsSeen ==
  \/ Work(row) = {} /\ ~AllDone
  \/ \E h \in Handlers : Sees(h)
  \/ AllDone /\ \E h \in Handlers : At(h, "decide") \/ At(h, "settle")

(* The inductive invariant of NoLostWakeup, to be added to IInv.           *)
WakeInv ==
  job \in Live =>
    /\ cancelPc = "idle" /\ LoopsAreOpen /\ SnapshotsOrdered
    /\ PlansAreExact /\ ReportersInReserve /\ WorkIsSeen

-----------------------------------------------------------------------------
(***************************************************************************)
(* Loops of the code                                                       *)
(***************************************************************************)

(* Induction over the natural numbers, for a set of them. *)
LEMMA NatInduct ==
  ASSUME NEW T \in SUBSET Nat, 0 \in T, \A n \in T : n + 1 \in T
  PROVE  T = Nat
<1> SUFFICES ASSUME Nat \ T # {} PROVE FALSE
  OBVIOUS
<1>1. PICK x \in Nat \ T : \A y \in Nat \ T : ~(<<y, x>> \in OpToRel(<, Nat))
  BY NatLessThanWellFounded, WFMin
<1>2. x # 0 /\ x - 1 \in Nat
  OBVIOUS
<1>3. <<x - 1, x>> \in OpToRel(<, Nat)
  BY <1>2 DEF OpToRel
<1>4. x - 1 \in T
  BY <1>1, <1>2, <1>3
<1>5. (x - 1) + 1 \in T
  BY <1>4
<1>6. QED
  BY <1>2, <1>5

(* A function on S, and its iteration from x. *)
Maps(S) == [S -> S]
Iterates(it, S, F, x) ==
  it \in [Nat -> S] /\ it[0] = x /\ \A n \in Nat : it[n + 1] = F[it[n]]

(* Any function on S can be iterated. *)
LEMMA Iteration ==
  ASSUME NEW S, NEW F \in Maps(S), NEW x \in S
  PROVE  \E it : Iterates(it, S, F, x)
<1>0. F \in [S -> S]
  BY DEF Maps
<1> DEFINE Chain(n, s) ==
             s \in [0 .. n -> S] /\ s[0] = x /\ \A k \in 0 .. n : k < n => s[k + 1] = F[s[k]]
           T == {n \in Nat : \E s : Chain(n, s)}
           Agree(n) == \A m, l \in Nat : \A s, t :
                         n <= m /\ n <= l /\ Chain(m, s) /\ Chain(l, t) => s[n] = t[n]
           U == {n \in Nat : Agree(n)}
<1>1. 0 \in T
  <2>1. Chain(0, [k \in 0 .. 0 |-> x])
    OBVIOUS
  <2>2. QED
    BY <2>1
<1>2. ASSUME NEW n \in T PROVE n + 1 \in T
  <2>1. PICK s : Chain(n, s)
    OBVIOUS
  <2> DEFINE t == [k \in 0 .. (n + 1) |-> IF k = n + 1 THEN F[s[n]] ELSE s[k]]
  <2>2. t \in [0 .. (n + 1) -> S] /\ t[0] = x
    BY <1>0, <2>1
  <2>3. \A k \in 0 .. (n + 1) : k < n + 1 => t[k + 1] = F[t[k]]
    BY <2>1
  <2>4. Chain(n + 1, t)
    BY <2>2, <2>3
  <2>5. QED
    BY <2>4
<1>3. T = Nat
  <2> HIDE DEF T
  <2>1. T \in SUBSET Nat
    BY DEF T
  <2>2. QED
    BY <1>1, <1>2, <2>1, NatInduct
<1>4. 0 \in U
  OBVIOUS
<1>5. ASSUME NEW n \in U PROVE n + 1 \in U
  <2>1. n \in Nat /\ Agree(n)
    OBVIOUS
  <2>2. ASSUME NEW m \in Nat, NEW l \in Nat, NEW s, NEW t,
               n + 1 <= m, n + 1 <= l, Chain(m, s), Chain(l, t)
        PROVE  s[n + 1] = t[n + 1]
    <3>1. n \in Nat /\ n <= m /\ n <= l /\ n < m /\ n < l /\ n \in 0 .. m /\ n \in 0 .. l
      BY <2>1, <2>2
    <3>2. s[n] = t[n]
      <4> HIDE DEF Chain, U
      <4>1. QED
        BY <2>1, <2>2, <3>1
    <3>3. s[n + 1] = F[s[n]] /\ t[n + 1] = F[t[n]]
      BY <2>2, <3>1
    <3>4. QED
      BY <3>2, <3>3
  <2>3. Agree(n + 1)
    <3> HIDE DEF Chain, U
    <3>1. QED
      BY <2>2
  <2> HIDE DEF Agree
  <2>4. QED
    BY <2>1, <2>3
<1>6. U = Nat
  <2> HIDE DEF U
  <2>1. U \in SUBSET Nat
    BY DEF U
  <2>2. QED
    BY <1>4, <1>5, <2>1, NatInduct
<1> DEFINE of(n) == CHOOSE s : Chain(n, s)
           it == [n \in Nat |-> of(n)[n]]
<1>7. \A n \in Nat : Chain(n, of(n))
  <2> TAKE n \in Nat
  <2>1. \E s : Chain(n, s)
    BY <1>3
  <2> HIDE DEF Chain
  <2>2. QED
    BY <2>1
<1>8. it \in [Nat -> S] /\ it[0] = x
  <2>1. \A n \in Nat : of(n)[n] \in S /\ n \in 0 .. n
    <3> HIDE DEF of
    <3>1. QED
      BY <1>7
  <2>2. of(0)[0] = x
    <3> HIDE DEF of
    <3>1. QED
      BY <1>7
  <2> HIDE DEF of
  <2>3. QED
    BY <2>1, <2>2
<1>9. ASSUME NEW n \in Nat PROVE it[n + 1] = F[it[n]]
  <2>1. n + 1 \in Nat /\ n \in 0 .. (n + 1) /\ n < n + 1
    OBVIOUS
  <2>2. of(n + 1)[n + 1] = F[of(n + 1)[n]]
    <3>1. Chain(n + 1, of(n + 1))
      BY <1>7, <2>1
    <3> HIDE DEF of
    <3>2. QED
      BY <2>1, <3>1
  <2>3. of(n + 1)[n] = of(n)[n]
    <3>1. Chain(n + 1, of(n + 1)) /\ Chain(n, of(n)) /\ n <= n + 1 /\ n <= n /\ n \in U
      <4> HIDE DEF of, Chain, U
      <4>1. QED
        BY <1>6, <1>7, <2>1
    <3>2. Agree(n)
      BY <3>1
    <3> HIDE DEF of, Chain
    <3>3. QED
      BY <2>1, <3>1, <3>2
  <2> HIDE DEF of
  <2>4. QED
    BY <2>1, <2>2, <2>3
<1> HIDE DEF it
<1>10. Iterates(it, S, F, x)
  BY <1>8, <1>9 DEF Iterates
<1>11. QED
  BY <1>10

(* A loop that changes the rows, unrolled once. *)
LEMMA UntilStableDef ==
  ASSUME NEW C \in [RowState -> RowState], NEW n \in Nat, NEW f \in RowState
  PROVE  UntilStable(C, n, f) =
           IF n = 0 \/ C[f] = f THEN f ELSE UntilStable(C, n - 1, C[f])
<1> DEFINE Again(t) == [g \in RowState |-> IF C[g] = g THEN g ELSE t[C[g]]]
           Loops == [RowState -> RowState]
           Step == [t \in Loops |-> Again(t)]
           Stop == [g \in RowState |-> g]
<1>1. Step \in Maps(Loops) /\ Stop \in Loops
  BY DEF Maps
<1>2. PICK it : Iterates(it, Loops, Step, Stop)
  <2> HIDE DEF Step, Stop, Loops
  <2>1. QED
    BY <1>1, Iteration
<1> DEFINE Body(t) == [k \in Nat |-> [g \in RowState |->
                         LET h == C[g] IN IF k = 0 \/ h = g THEN g ELSE t[k - 1][h]]]
<1>3. it = Body(it)
  <2>1. ASSUME NEW k \in Nat
        PROVE  it[k] = [g \in RowState |-> LET h == C[g] IN IF k = 0 \/ h = g THEN g ELSE it[k - 1][h]]
    <3>1. CASE k = 0
      BY <1>2, <3>1 DEF Iterates
    <3>2. CASE k # 0
      <4>1. k - 1 \in Nat /\ (k - 1) + 1 = k
        BY <3>2
      <4>2. it[k] = Step[it[k - 1]] /\ it[k - 1] \in Loops
        <5> HIDE DEF Step, Loops
        <5>1. QED
          BY <1>2, <4>1 DEF Iterates
      <4>3. it[k] = Again(it[k - 1])
        BY <4>2
      <4>4. QED
        BY <3>2, <4>3
    <3>3. QED
      BY <3>1, <3>2
  <2>2. QED
    BY <1>2, <2>1 DEF Iterates
<1> DEFINE times == CHOOSE t : t = Body(t)
<1>4. times = Body(times)
  <2> HIDE DEF Body
  <2>1. QED
    BY <1>3
<1>5. UntilStable(C, n, f) = times[n][f] /\ UntilStable(C, n - 1, C[f]) = times[n - 1][C[f]]
  BY DEF UntilStable
<1> HIDE DEF times
<1>6. times[n][f] = IF n = 0 \/ C[f] = f THEN f ELSE times[n - 1][C[f]]
  BY <1>4
<1>7. QED
  BY <1>5, <1>6

(* A loop that changes rows within a set of them ends in that set.         *)
LEMMA StaysWithin ==
  ASSUME NEW C \in [RowState -> RowState], NEW n \in Nat, NEW X \in SUBSET RowState,
         NEW f \in X, \A g \in X : C[g] \in X
  PROVE  UntilStable(C, n, f) \in X
<1> DEFINE T == {k \in Nat : \A g \in X : UntilStable(C, k, g) \in X}
<1>1. 0 \in T
  BY UntilStableDef
<1>2. ASSUME NEW k \in T PROVE k + 1 \in T
  <2>1. k + 1 \in Nat /\ k + 1 # 0 /\ (k + 1) - 1 = k
    OBVIOUS
  <2>2. ASSUME NEW g \in X PROVE UntilStable(C, k + 1, g) \in X
    <3>1. UntilStable(C, k + 1, g) = IF C[g] = g THEN g ELSE UntilStable(C, k, C[g])
      BY <2>1, UntilStableDef
    <3>2. QED
      BY <3>1
  <2>3. QED
    BY <2>1, <2>2
<1>3. T = Nat
  <2> HIDE DEF T
  <2>1. T \in SUBSET Nat
    BY DEF T
  <2>2. QED
    BY <1>1, <1>2, <2>1, NatInduct
<1>4. QED
  BY <1>3

(* A loop that makes a measure grow, within a set that has no more members *)
(* than the loop has turns, ends where nothing changes.                    *)
LEMMA Settles ==
  ASSUME NEW C \in [RowState -> RowState], NEW n \in Nat, NEW X \in SUBSET RowState,
         NEW f \in X, \A g \in X : C[g] \in X,
         NEW B, IsFiniteSet(B), NEW M \in [X -> SUBSET B], Cardinality(B) <= n,
         \A g \in X : C[g] # g => M[g] \subseteq M[C[g]] /\ M[g] # M[C[g]]
  PROVE  C[UntilStable(C, n, f)] = UntilStable(C, n, f)
<1> DEFINE Left(g) == Cardinality(B \ M[g])
           Stops(k, g) == C[UntilStable(C, k, g)] = UntilStable(C, k, g)
           T == {k \in Nat : \A g \in X : Left(g) <= k => Stops(k, g)}
<1>1. \A g \in X : IsFiniteSet(B \ M[g]) /\ Left(g) \in Nat /\ Left(g) <= Cardinality(B)
  BY FS_Subset, FS_CardinalityType
<1>2. ASSUME NEW g \in X, C[g] # g PROVE Left(C[g]) < Left(g)
  <2>1. C[g] \in X /\ B \ M[C[g]] \subseteq B \ M[g] /\ B \ M[C[g]] # B \ M[g]
    BY <1>2
  <2>2. /\ Cardinality(B \ M[C[g]]) <= Cardinality(B \ M[g])
        /\ Cardinality(B \ M[g]) = Cardinality(B \ M[C[g]]) => B \ M[g] = B \ M[C[g]]
    BY <1>1, <2>1, FS_Subset
  <2>3. Left(g) \in Nat /\ Left(C[g]) \in Nat /\ Left(C[g]) <= Left(g) /\ Left(g) # Left(C[g])
    <3> HIDE DEF Left
    <3>1. Left(g) \in Nat /\ Left(C[g]) \in Nat
      BY <1>1, <2>1
    <3>2. QED
      BY <2>1, <2>2, <3>1 DEF Left
  <2> HIDE DEF Left
  <2>4. QED
    BY <2>3
<1>3. \A k \in Nat, g \in X : UntilStable(C, k, g) = IF k = 0 \/ C[g] = g THEN g ELSE UntilStable(C, k - 1, C[g])
  BY UntilStableDef
<1>4. 0 \in T
  <2> HIDE DEF Left
  <2>1. ASSUME NEW g \in X, Left(g) <= 0 PROVE Stops(0, g)
    <3>1. C[g] = g
      <4>1. CASE C[g] # g
        <5>1. C[g] \in X /\ Left(g) \in Nat /\ Left(C[g]) \in Nat /\ Left(C[g]) < Left(g)
          BY <1>1, <1>2, <4>1
        <5>2. QED
          BY <2>1, <5>1
      <4>2. QED
        BY <4>1
    <3>2. QED
      BY <1>3, <3>1
  <2>2. QED
    BY <2>1
<1>5. ASSUME NEW k \in T PROVE k + 1 \in T
  <2>1. k \in Nat /\ k + 1 \in Nat /\ k + 1 # 0 /\ (k + 1) - 1 = k
    OBVIOUS
  <2> HIDE DEF Left
  <2>2. ASSUME NEW g \in X, Left(g) <= k + 1 PROVE Stops(k + 1, g)
    <3>1. UntilStable(C, k + 1, g) = IF C[g] = g THEN g ELSE UntilStable(C, k, C[g])
      BY <1>3, <2>1
    <3>2. CASE C[g] = g
      BY <3>1, <3>2
    <3>3. CASE C[g] # g
      <4>1. C[g] \in X /\ Left(C[g]) <= k
        <5>1. C[g] \in X /\ Left(g) \in Nat /\ Left(C[g]) \in Nat /\ Left(C[g]) < Left(g)
          BY <1>1, <1>2, <3>3
        <5>2. QED
          BY <2>1, <2>2, <5>1
      <4>2. Stops(k, C[g])
        BY <4>1
      <4>3. QED
        BY <3>1, <3>3, <4>2
    <3>4. QED
      BY <3>2, <3>3
  <2> HIDE DEF Stops
  <2>3. QED
    BY <2>1, <2>2
<1>6. T = Nat
  <2> HIDE DEF T
  <2>1. T \in SUBSET Nat
    BY DEF T
  <2>2. QED
    BY <1>4, <1>5, <2>1, NatInduct
<1>7. Cardinality(B) \in Nat /\ Left(f) \in Nat /\ Left(f) <= Cardinality(B)
  BY <1>1, FS_CardinalityType
<1> HIDE DEF Left, Stops
<1>8. n \in T /\ Left(f) <= n
  <2> HIDE DEF T
  <2>1. QED
    BY <1>6, <1>7
<1>9. Stops(n, f)
  BY <1>8
<1>10. QED
  BY <1>9 DEF Stops

-----------------------------------------------------------------------------
(***************************************************************************)
(* The gate                                                                *)
(***************************************************************************)

Verdicts == [Entries -> BOOLEAN]

(* What an entry is worth depends on what its members are worth.           *)
Local(F) ==
  \A t, u \in Verdicts, e \in Entries :
    (\A c \in e.of : t[c] = u[c]) => F[t][e] = F[u][e]

(* The trees are finite, so such verdicts exist. *)
LEMMA TreeFixpoint ==
  ASSUME NEW F \in Maps(Verdicts), Local(F)
  PROVE  \E t \in Verdicts : F[t] = t
<1>1. PICK depth \in [Entries -> 0 .. Cardinality(Entries)] :
             \A e \in Entries : \A c \in e.of : depth[c] < depth[e]
  BY EntriesAssumption
<1>2. Cardinality(Entries) \in Nat
  BY EntriesAssumption, FS_CardinalityType
<1> DEFINE none == [e \in Entries |-> FALSE]
<1>3. none \in Verdicts
  BY DEF Verdicts
<1>4. PICK it : Iterates(it, Verdicts, F, none)
  <2> HIDE DEF none
  <2>1. QED
    BY <1>3, Iteration
<1> DEFINE Settled(n) == \A e \in Entries : depth[e] < n => it[n + 1][e] = it[n][e]
           T == {n \in Nat : Settled(n)}
<1>5. 0 \in T
  BY <1>1, <1>2
<1>6. ASSUME NEW n \in T PROVE n + 1 \in T
  <2>1. n \in Nat /\ Settled(n) /\ n + 1 \in Nat /\ (n + 1) + 1 \in Nat
    OBVIOUS
  <2>2. /\ it[n] \in Verdicts /\ it[n + 1] \in Verdicts
        /\ it[n + 1] = F[it[n]] /\ it[(n + 1) + 1] = F[it[n + 1]]
    BY <1>4, <2>1 DEF Iterates
  <2>3. ASSUME NEW e \in Entries, depth[e] < n + 1
        PROVE  it[(n + 1) + 1][e] = it[n + 1][e]
    <3>1. \A c \in e.of : c \in Entries /\ depth[c] \in Int /\ depth[e] \in Int /\ depth[c] < depth[e]
      BY <1>1, <1>2, EntriesAssumption
    <3>2. \A c \in e.of : depth[c] < n
      BY <2>1, <2>3, <3>1
    <3>3. \A c \in e.of : it[n + 1][c] = it[n][c]
      BY <2>1, <3>1, <3>2
    <3>4. QED
      BY <2>2, <3>3 DEF Local
  <2>4. Settled(n + 1)
    BY <2>3
  <2> HIDE DEF Settled
  <2>5. QED
    BY <2>1, <2>4
<1>7. T = Nat
  <2> HIDE DEF T
  <2>1. T \in SUBSET Nat
    BY DEF T
  <2>2. QED
    BY <1>5, <1>6, <2>1, NatInduct
<1> DEFINE N == Cardinality(Entries) + 1
<1>8. N \in Nat /\ \A e \in Entries : depth[e] < N
  BY <1>1, <1>2
<1>9. Settled(N)
  <2> HIDE DEF N, Settled
  <2>1. QED
    BY <1>7, <1>8
<1> HIDE DEF N
<1>10. it[N] \in Verdicts /\ it[N + 1] \in Verdicts /\ it[N + 1] = F[it[N]]
  BY <1>4, <1>8 DEF Iterates
<1>11. it[N + 1] = it[N]
  BY <1>8, <1>9, <1>10 DEF Verdicts
<1>12. QED
  BY <1>10, <1>11

(* all_terminal is what its code says. *)
LEMMA AllTerminalDef ==
  ASSUME NEW o
  PROVE  /\ AllTerminal(o) \in Verdicts
         /\ \A e \in Entries :
              AllTerminal(o)[e] = IF e.op = "step" THEN o[e.step] # "pending"
                                  ELSE \A c \in e.of : AllTerminal(o)[c]
<1> DEFINE Body(t) == [e \in Entries |-> IF e.op = "step" THEN o[e.step] # "pending"
                                         ELSE \A c \in e.of : t[c]]
           F == [t \in Verdicts |-> Body(t)]
<1>1. \A t : Body(t) \in Verdicts
  BY DEF Verdicts
<1>2. F \in Maps(Verdicts)
  <2> HIDE DEF Body
  <2>1. QED
    BY <1>1 DEF Maps
<1>3. Local(F)
  BY DEF Local
<1>4. \E t \in Verdicts : F[t] = t
  <2> HIDE DEF F
  <2>1. QED
    BY <1>2, <1>3, TreeFixpoint
<1>5. PICK t \in Verdicts : t = Body(t)
  <2> HIDE DEF Body
  <2>1. QED
    BY <1>4
<1>6. AllTerminal(o) = CHOOSE u : u = Body(u)
  BY DEF AllTerminal
<1>7. AllTerminal(o) = Body(AllTerminal(o))
  <2> HIDE DEF Body
  <2>1. QED
    BY <1>5, <1>6
<1>8. AllTerminal(o) \in Verdicts
  <2> HIDE DEF Body
  <2>1. QED
    BY <1>1, <1>7
<1>9. QED
  BY <1>7, <1>8

(* satisfied is what its code says. *)
LEMMA SatisfiedDef ==
  ASSUME NEW o
  PROVE  /\ Satisfied(o) \in Verdicts
         /\ \A e \in Entries :
              Satisfied(o)[e] = IF e.op = "step" THEN o[e.step] \in e.accept
                                ELSE IF e.op = "all" THEN \A c \in e.of : Satisfied(o)[c]
                                ELSE \E c \in e.of : Satisfied(o)[c]
<1> DEFINE Body(t) == [e \in Entries |-> IF e.op = "step" THEN o[e.step] \in e.accept
                                         ELSE IF e.op = "all" THEN \A c \in e.of : t[c]
                                         ELSE \E c \in e.of : t[c]]
           F == [t \in Verdicts |-> Body(t)]
<1>1. ASSUME NEW t PROVE Body(t) \in Verdicts
  <2> DEFINE val(e) == IF e.op = "step" THEN o[e.step] \in e.accept
                       ELSE IF e.op = "all" THEN \A c \in e.of : t[c]
                       ELSE \E c \in e.of : t[c]
  <2>1. ASSUME NEW e \in Entries PROVE val(e) \in BOOLEAN
    <3>1. CASE e.op = "step"
      <4>1. val(e) = (o[e.step] \in e.accept)
        BY <3>1, Zenon
      <4>2. (o[e.step] \in e.accept) \in BOOLEAN
        OBVIOUS
      <4> HIDE DEF val
      <4>3. QED
        BY <4>1, <4>2
    <3>2. CASE e.op # "step" /\ e.op = "all"
      <4>1. val(e) = (\A c \in e.of : t[c])
        BY <3>2, Zenon
      <4>2. QED
        BY <4>1, Zenon
    <3>3. CASE e.op # "step" /\ e.op # "all"
      <4>1. val(e) = (\E c \in e.of : t[c])
        BY <3>3, Zenon
      <4>2. QED
        BY <4>1, Zenon
    <3>4. QED
      BY <3>1, <3>2, <3>3, Zenon
  <2>2. Body(t) = [e \in Entries |-> val(e)]
    BY Zenon
  <2> HIDE DEF Body, val
  <2>3. QED
    BY <2>1, <2>2 DEF Verdicts
<1>2. F \in Maps(Verdicts)
  <2> HIDE DEF Body
  <2>1. QED
    BY <1>1 DEF Maps
<1>3. Local(F)
  BY DEF Local
<1>4. \E t \in Verdicts : F[t] = t
  <2> HIDE DEF F
  <2>1. QED
    BY <1>2, <1>3, TreeFixpoint
<1>5. PICK t \in Verdicts : t = Body(t)
  <2> HIDE DEF Body
  <2>1. QED
    BY <1>4
<1>6. Satisfied(o) = CHOOSE u : u = Body(u)
  BY DEF Satisfied
<1>7. Satisfied(o) = Body(Satisfied(o))
  <2> HIDE DEF Body
  <2>1. QED
    BY <1>5, <1>6
<1>8. Satisfied(o) \in Verdicts
  <2> HIDE DEF Body
  <2>1. QED
    BY <1>1, <1>7
<1>9. QED
  BY <1>7, <1>8

(* The outcomes u have everything the outcomes o have that is not pending. *)
Extends(o, u) == \A s \in FlowSteps : o[s] # "pending" => u[s] = o[s]

(* An entry whose steps have all ended keeps its verdict whatever ends     *)
(* later.                                                                  *)
LEMMA EntryStable ==
  ASSUME NEW o, NEW u, Extends(o, u), NEW e \in Entries, AllTerminal(o)[e]
  PROVE  AllTerminal(u)[e] /\ Satisfied(u)[e] = Satisfied(o)[e]
<1>1. PICK depth \in [Entries -> 0 .. Cardinality(Entries)] :
             \A d \in Entries : \A c \in d.of : depth[c] < depth[d]
  BY EntriesAssumption
<1>2. Cardinality(Entries) \in Nat
  BY EntriesAssumption, FS_CardinalityType
<1>3. \A d \in Entries : depth[d] \in Nat
  BY <1>1, <1>2
<1> DEFINE Kept(d) == AllTerminal(o)[d] => AllTerminal(u)[d] /\ Satisfied(u)[d] = Satisfied(o)[d]
           T == {n \in Nat : \A d \in Entries : depth[d] < n => Kept(d)}
<1>4. 0 \in T
  BY <1>3
<1>5. ASSUME NEW n \in T PROVE n + 1 \in T
  <2>1. n \in Nat /\ \A d \in Entries : depth[d] < n => Kept(d)
    OBVIOUS
  <2>2. ASSUME NEW d \in Entries, depth[d] < n + 1 PROVE Kept(d)
    <3> SUFFICES ASSUME AllTerminal(o)[d]
                 PROVE  AllTerminal(u)[d] /\ Satisfied(u)[d] = Satisfied(o)[d]
      OBVIOUS
    <3>1. d.op \in {"step", "all", "any"} /\ \A c \in d.of : c \in Entries
      BY EntriesAssumption
    <3>2. \A c \in d.of : depth[c] < n
      BY <1>1, <1>3, <2>1, <2>2, <3>1
    <3>3. \A c \in d.of : Kept(c)
      BY <2>1, <3>1, <3>2
    <3>4. CASE d.op = "step"
      <4>1. d.step \in FlowSteps /\ o[d.step] # "pending"
        BY <3>4, FlowAssumption, AllTerminalDef
      <4>2. u[d.step] = o[d.step]
        BY <4>1 DEF Extends
      <4>3. AllTerminal(u)[d]
        BY <3>4, <4>1, <4>2, AllTerminalDef
      <4>4. Satisfied(u)[d] = Satisfied(o)[d]
        <5>1. Satisfied(u)[d] = (u[d.step] \in d.accept)
          BY <3>4, SatisfiedDef
        <5>2. Satisfied(o)[d] = (o[d.step] \in d.accept)
          BY <3>4, SatisfiedDef
        <5>3. QED
          BY <4>2, <5>1, <5>2
      <4>5. QED
        BY <4>3, <4>4
    <3>5. CASE d.op # "step"
      <4>1. \A c \in d.of : AllTerminal(o)[c]
        BY <3>5, AllTerminalDef
      <4>2. \A c \in d.of : AllTerminal(u)[c] /\ Satisfied(u)[c] = Satisfied(o)[c]
        BY <3>3, <4>1
      <4>3. AllTerminal(u)[d]
        BY <3>5, <4>2, AllTerminalDef
      <4>4. CASE d.op = "all"
        <5>1. Satisfied(u)[d] = (\A c \in d.of : Satisfied(u)[c])
          BY <4>4, SatisfiedDef
        <5>2. Satisfied(o)[d] = (\A c \in d.of : Satisfied(o)[c])
          BY <4>4, SatisfiedDef
        <5>3. QED
          BY <4>2, <4>3, <5>1, <5>2
      <4>5. CASE d.op = "any"
        <5>1. Satisfied(u)[d] = (\E c \in d.of : Satisfied(u)[c])
          BY <4>5, SatisfiedDef
        <5>2. Satisfied(o)[d] = (\E c \in d.of : Satisfied(o)[c])
          BY <4>5, SatisfiedDef
        <5>3. QED
          BY <4>2, <4>3, <5>1, <5>2
      <4>6. QED
        BY <3>1, <3>5, <4>4, <4>5
    <3>6. QED
      BY <3>4, <3>5
  <2> HIDE DEF Kept
  <2>3. QED
    BY <2>1, <2>2
<1>6. T = Nat
  <2> HIDE DEF T
  <2>1. T \in SUBSET Nat
    BY DEF T
  <2>2. QED
    BY <1>4, <1>5, <2>1, NatInduct
<1>7. depth[e] + 1 \in T /\ depth[e] < depth[e] + 1
  BY <1>3, <1>6
<1>8. Kept(e)
  <2> HIDE DEF Kept
  <2>1. QED
    BY <1>7
<1>9. QED
  BY <1>8

(* A gate that is decided stays as it is. *)
LEMMA GateStable ==
  ASSUME NEW f, NEW g, Extends(Outcomes(f), Outcomes(g)), NEW s \in FlowSteps,
         GateFor(f, s) # "wait"
  PROVE  GateFor(g, s) = GateFor(f, s)
<1>1. DependsOn[s] \subseteq Entries
  BY FlowAssumption
<1>2. \A e \in DependsOn[s] : AllTerminal(Outcomes(f))[e]
  BY DEF GateFor, GateOf
<1>3. \A e \in DependsOn[s] :
        AllTerminal(Outcomes(g))[e] /\ Satisfied(Outcomes(g))[e] = Satisfied(Outcomes(f))[e]
  BY <1>1, <1>2, EntryStable
<1>4. QED
  BY <1>2, <1>3 DEF GateFor, GateOf

-----------------------------------------------------------------------------
(***************************************************************************)
(* Rows that evolve                                                        *)
(***************************************************************************)

(* Steps, loops and instances. *)
LEMMA RowSets ==
  /\ \A r \in Instances : /\ r[1] \in Placeholders /\ r[2] \in Nat /\ r[2] < MaxItems
                          /\ r \in Rows /\ r \notin FlowSteps /\ r = <<r[1], r[2]>>
  /\ \A p \in Placeholders : p \in FlowSteps /\ p \in Rows /\ p \notin Instances
  /\ \A s \in FlowSteps : s \in Rows /\ s \notin Instances
  /\ \A r \in Rows : r \in Instances \/ r \in FlowSteps
  /\ \A p \in Placeholders : \A n \in Nat : n < MaxItems => <<p, n>> \in Instances
BY FlowAssumption, NamesAssumption, ChoiceAssumption DEF Instances, Rows

(* The values a row can take. *)
LEMMA RowValues ==
  /\ \A st \in Finished \cup {"absent", "pending", "ready", "running"} :
       Cell(st) \in RowValue /\ Cell(st).status = st /\ Cell(st).reason = "none"
  /\ \A why \in {"condition", "empty", "unreachable"} :
       Skip(why) \in RowValue /\ Skip(why).status = "skipped" /\ Skip(why).reason = why
BY DEF Cell, Skip, RowValue, Finished

(* Rows that have ended stay, so their outcomes do. *)
LEMMA OutcomesKept ==
  ASSUME NEW f \in RowState, NEW g \in RowState, Keeps(f, g)
  PROVE  Extends(Outcomes(f), Outcomes(g))
<1> SUFFICES ASSUME NEW s \in FlowSteps, Outcomes(f)[s] # "pending"
             PROVE  Outcomes(g)[s] = Outcomes(f)[s]
  BY DEF Extends
<1>1. FromRow(f[s]) # "pending"
  BY DEF Outcomes
<1>2. f[s].status \in {"completed", "failed", "cancelled", "skipped"}
  BY <1>1 DEF FromRow
<1>3. g[s] = f[s]
  BY <1>2, RowSets DEF Keeps, Done, Finished
<1>4. QED
  BY <1>3 DEF Outcomes

(* What a gate allowed it still allows. *)
LEMMA JudgedKept ==
  ASSUME NEW f \in RowState, NEW g \in RowState, Keeps(f, g), NEW s \in FlowSteps, NEW x,
         Judged(f, s, x)
  PROVE  Judged(g, s, x)
<1>1. GateFor(f, s) # "wait" => GateFor(g, s) = GateFor(f, s)
  BY OutcomesKept, GateStable
<1>2. QED
  BY <1>1 DEF Judged

(* Evolution can be followed. *)
LEMMA EvolvesOn ==
  ASSUME NEW f \in RowState, NEW g \in RowState, NEW h \in RowState,
         StepsPresent(f), StepsPresent(g), Evolves(f, g), Evolves(g, h)
  PROVE  Evolves(f, h)
<1>1. Keeps(f, h)
  BY DEF Evolves, Keeps, Done
<1>2. ASSUME NEW r \in Rows
      PROVE  /\ f[r].status # "absent" => h[r].status # "absent"
             /\ h[r].status = "pending" => f[r].status \in {"absent", "pending"}
  BY DEF Evolves
<1>3. ASSUME NEW r \in Instances, f[r].status = "absent", h[r].status # "absent"
      PROVE  f[r[1]].status = "pending" /\ h[r[1]].status # "pending"
  <2>1. r \in Rows /\ r[1] \in FlowSteps /\ r[1] \in Rows
    BY RowSets
  <2>2. g[r[1]].status # "absent" /\ f[r[1]].status # "absent"
    BY <2>1 DEF StepsPresent
  <2>3. QED
    BY <1>3, <2>1, <2>2 DEF Evolves
<1>4. QED
  BY <1>1, <1>2, <1>3 DEF Evolves

(* Rows evolve from themselves. *)
LEMMA EvolvesSame == ASSUME NEW f \in RowState PROVE Evolves(f, f)
BY DEF Evolves, Keeps

(* Where all rows have ended nothing evolves any more. *)
LEMMA DoneIsFrozen ==
  ASSUME NEW f \in RowState, NEW g \in RowState, StepsPresent(f), Evolves(f, g),
         \A r \in Rows : f[r].status # "absent" => Done(f, r)
  PROVE  \A r \in Rows : g[r].status = f[r].status
<1> SUFFICES ASSUME NEW r \in Rows PROVE g[r].status = f[r].status
  OBVIOUS
<1>1. CASE f[r].status # "absent"
  BY <1>1 DEF Evolves, Keeps
<1>2. CASE f[r].status = "absent"
  <2>1. r \in Instances /\ r[1] \in FlowSteps /\ r[1] \in Rows
    BY <1>2, RowSets DEF StepsPresent
  <2>2. f[r[1]].status # "pending"
    BY <2>1 DEF StepsPresent, Done, Finished
  <2>3. QED
    BY <1>2, <2>1, <2>2 DEF Evolves
<1>3. QED
  BY <1>1, <1>2

-----------------------------------------------------------------------------
(***************************************************************************)
(* P0, phase_rollup                                                        *)
(***************************************************************************)

(* What the phase does to a step, a loop and an instance. *)
LEMMA RollupEffect ==
  ASSUME NEW f \in RowState
  PROVE  LET g == PhaseRollup(f) IN
         /\ g \in RowState
         /\ \A s \in FlowSteps \ Placeholders : g[s] = f[s]
         /\ \A p \in Placeholders :
              \/ g[p] = f[p]
              \/ /\ f[p].status = "running" /\ \A r \in InstancesOf(f, p) : Done(f, r)
                 /\ InstancesOf(f, p) # {}
                 /\ \/ g[p] = Cell("failed")
                    \/ g[p] = Cell("completed") /\ \A r \in InstancesOf(f, p) : f[r].status # "failed"
         /\ \A r \in Instances :
              \/ g[r] = f[r] /\ (f[r].status = "pending" /\ LoopOpen(f, r[1]) => ~SkipsRest(f, r[1]))
              \/ f[r].status = "pending" /\ SkipsRest(f, r[1]) /\ g[r] = Skip("unreachable")
              \/ /\ f[r].status = "pending" /\ LoopOpen(f, r[1]) /\ ~SkipsRest(f, r[1])
                 /\ r[1] \in Sequential /\ r[2] > 0
                 /\ Done(f, <<r[1], r[2] - 1>>) /\ g[r] = Cell("ready")
<1> DEFINE g == PhaseRollup(f)
<1>1. \A s \in FlowSteps \ Placeholders : g[s] = f[s]
  BY RowSets DEF PhaseRollup
<1>2. ASSUME NEW p \in Placeholders
      PROVE  \/ g[p] = f[p]
             \/ /\ f[p].status = "running" /\ \A r \in InstancesOf(f, p) : Done(f, r)
                /\ InstancesOf(f, p) # {}
                /\ \/ g[p] = Cell("failed")
                   \/ g[p] = Cell("completed") /\ \A r \in InstancesOf(f, p) : f[r].status # "failed"
  <2>1. g[p] = RollupPlaceholder(f, p)
    BY RowSets DEF PhaseRollup
  <2>2. QED
    BY <2>1 DEF RollupPlaceholder, LoopOpen
<1>3. ASSUME NEW r \in Instances
      PROVE  \/ g[r] = f[r] /\ (f[r].status = "pending" /\ LoopOpen(f, r[1]) => ~SkipsRest(f, r[1]))
             \/ f[r].status = "pending" /\ SkipsRest(f, r[1]) /\ g[r] = Skip("unreachable")
             \/ /\ f[r].status = "pending" /\ LoopOpen(f, r[1]) /\ ~SkipsRest(f, r[1])
                /\ r[1] \in Sequential /\ r[2] > 0
                /\ Done(f, <<r[1], r[2] - 1>>) /\ g[r] = Cell("ready")
  <2>1. g[r] = RollupInstance(f, r)
    BY RowSets DEF PhaseRollup
  <2>2. CASE ~LoopOpen(f, r[1]) \/ f[r].status # "pending"
    BY <2>1, <2>2 DEF RollupInstance
  <2>3. CASE LoopOpen(f, r[1]) /\ f[r].status = "pending" /\ SkipsRest(f, r[1])
    BY <2>1, <2>3 DEF RollupInstance
  <2>4. CASE LoopOpen(f, r[1]) /\ f[r].status = "pending" /\ ~SkipsRest(f, r[1])
    BY <2>1, <2>4 DEF RollupInstance
  <2>5. QED
    BY <2>2, <2>3, <2>4
<1>4. \A r \in Rows : g[r] \in RowValue
  <2> TAKE r \in Rows
  <2>1. f[r] \in RowValue
    BY DEF RowState
  <2> HIDE DEF g
  <2>2. CASE r \in Instances
    BY <1>3, <2>1, <2>2, RowValues DEF Finished
  <2>3. CASE r \in FlowSteps
    BY <1>1, <1>2, <2>1, <2>3, RowValues DEF Finished
  <2>4. QED
    BY <2>2, <2>3, RowSets
<1>5. g \in RowState
  BY <1>4 DEF PhaseRollup, RowState
<1>6. QED
  BY <1>1, <1>2, <1>3, <1>5

(* The phase only moves rows forward. *)
LEMMA RollupEvolves ==
  ASSUME NEW f \in RowState, StepsPresent(f)
  PROVE  Evolves(f, PhaseRollup(f)) /\ StepsPresent(PhaseRollup(f))
<1> DEFINE g == PhaseRollup(f)
<1>1. g \in RowState
  BY RollupEffect
<1>2. \A r \in Rows :
        \/ g[r] = f[r]
        \/ f[r].status = "running" /\ g[r].status \in {"completed", "failed"}
        \/ f[r].status = "pending" /\ g[r].status \in {"skipped", "ready"} /\ r \in Instances
  <2> TAKE r \in Rows
  <2> HIDE DEF g
  <2>1. CASE r \in Instances
    <3>1. g[r] = f[r] \/ (f[r].status = "pending" /\ g[r] \in {Skip("unreachable"), Cell("ready")})
      BY <2>1, RollupEffect DEF g
    <3>2. QED
      BY <2>1, <3>1, RowValues DEF Finished
  <2>2. CASE r \in FlowSteps
    BY <2>2, RollupEffect, RowValues DEF Finished, g
  <2>3. QED
    BY <2>1, <2>2, RowSets
<1> HIDE DEF g
<1>3. Evolves(f, g)
  BY <1>2, RowSets DEF Evolves, Keeps, Done, Finished
<1>4. StepsPresent(g)
  BY <1>2, RowSets DEF StepsPresent
<1>5. QED
  BY <1>3, <1>4 DEF g

(* The phase keeps the loops in order. *)
LEMMA RollupLoops ==
  ASSUME NEW f \in RowState, RowsOK(f)
  PROVE  LoopsOK(PhaseRollup(f)) /\ NoOrphans(PhaseRollup(f))
<1> DEFINE g == PhaseRollup(f)
<1>0. /\ OrderOK(f) /\ PrefixOK(f) /\ SkipsHaveCause(f) /\ RollupOK(f) /\ NoOrphans(f)
      /\ StepsPresent(f)
  BY DEF RowsOK, LoopsOK
<1>1. g \in RowState /\ Evolves(f, g)
  BY <1>0, RollupEffect, RollupEvolves
<1>2. ASSUME NEW r \in Instances
      PROVE  \/ g[r] = f[r] /\ (f[r].status = "pending" /\ LoopOpen(f, r[1]) => ~SkipsRest(f, r[1]))
             \/ f[r].status = "pending" /\ SkipsRest(f, r[1]) /\ g[r] = Skip("unreachable")
             \/ /\ f[r].status = "pending" /\ LoopOpen(f, r[1]) /\ ~SkipsRest(f, r[1])
                /\ r[1] \in Sequential /\ r[2] > 0
                /\ Done(f, <<r[1], r[2] - 1>>) /\ g[r] = Cell("ready")
  BY RollupEffect
<1>3. ASSUME NEW p \in Placeholders
      PROVE  \/ g[p] = f[p]
             \/ /\ f[p].status = "running" /\ \A r \in InstancesOf(f, p) : Done(f, r)
                /\ InstancesOf(f, p) # {}
                /\ \/ g[p] = Cell("failed")
                   \/ g[p] = Cell("completed") /\ \A r \in InstancesOf(f, p) : f[r].status # "failed"
  BY RollupEffect
<1> HIDE DEF g
<1>4. \A r \in Instances : f[r].status # "pending" => g[r] = f[r]
  BY <1>2
<1>5. \A r \in Instances : Done(f, r) => g[r] = f[r] /\ Done(g, r)
  BY <1>4 DEF Done, Finished
<1>6. \A r \in Instances : g[r].status = "absent" <=> f[r].status = "absent"
  BY <1>2, RowValues DEF Finished
<1>7. ASSUME NEW q \in Instances, f[q].status = "pending", g[q] = Cell("ready")
      PROVE  /\ q[1] \in Sequential /\ q[2] > 0 /\ ~SkipsRest(f, q[1])
             /\ <<q[1], q[2] - 1>> \in Instances /\ Done(f, <<q[1], q[2] - 1>>)
             /\ \A r \in Instances : r[1] = q[1] /\ r[2] < q[2] => Done(f, r)
  <2>1. /\ q[1] \in Sequential /\ q[2] > 0 /\ ~SkipsRest(f, q[1])
        /\ Done(f, <<q[1], q[2] - 1>>)
    BY <1>2, <1>7, RowValues DEF Finished
  <2>2. q[2] \in Nat /\ q[2] - 1 \in Nat /\ q[2] - 1 < MaxItems /\ q[1] \in Placeholders
    BY <2>1, RowSets, ChoiceAssumption
  <2> DEFINE k == <<q[1], q[2] - 1>>
  <2>3. k \in Instances /\ k[1] = q[1] /\ k[2] = q[2] - 1
    BY <2>2, RowSets
  <2>4. f[k].status \notin {"absent", "pending"}
    BY <2>1 DEF Done, Finished
  <2>5. ASSUME NEW r \in Instances, r[1] = q[1], r[2] < q[2] PROVE Done(f, r)
    <3>1. r[2] \in Nat /\ r = <<r[1], r[2]>>
      BY RowSets
    <3>2. CASE r[2] = q[2] - 1
      BY <2>1, <2>5, <3>1, <3>2
    <3>3. CASE r[2] < q[2] - 1
      BY <1>0, <1>7, <2>1, <2>2, <2>3, <2>4, <2>5, <3>3 DEF PrefixOK
    <3>4. QED
      BY <2>2, <2>5, <3>1, <3>2, <3>3
  <2>6. QED
    BY <2>1, <2>3, <2>5
<1>8. OrderOK(g)
  <2> SUFFICES ASSUME NEW r \in Instances, NEW q \in Instances,
                      r[1] = q[1], r[1] \in Sequential, r[2] < q[2],
                      g[q].status \in {"ready", "running", "completed"}
               PROVE  Done(g, r) /\ (r[1] \notin Tolerated => g[r].status = "completed")
    BY DEF OrderOK
  <2>1. CASE g[q] = f[q]
    <3>1. Done(f, r) /\ (r[1] \notin Tolerated => f[r].status = "completed")
      BY <1>0, <2>1 DEF OrderOK
    <3>2. QED
      BY <1>5, <3>1
  <2>2. CASE g[q] # f[q]
    <3>1. f[q].status = "pending" /\ g[q] = Cell("ready")
      BY <1>2, <2>2, RowValues DEF Finished
    <3>2. Done(f, r) /\ ~SkipsRest(f, q[1])
      BY <1>7, <3>1
    <3>3. q[1] \in Placeholders /\ q \in InstancesOf(f, q[1]) /\ r \in InstancesOf(f, q[1])
      BY <3>1, <3>2, RowSets DEF InstancesOf, Done, Finished
    <3>4. ASSUME r[1] \notin Tolerated PROVE f[r].status = "completed"
      <4>1. \A k \in InstancesOf(f, q[1]) : f[k].status \notin {"failed", "cancelled"}
        BY <3>1, <3>2, <3>3, <3>4 DEF SkipsRest
      <4>2. f[r].status # "skipped"
        <5>1. SUFFICES ASSUME f[r].status = "skipped" PROVE FALSE
          OBVIOUS
        <5>2. PICK k \in Instances : k[1] = r[1] /\ f[k].status \in {"failed", "cancelled"}
          BY <1>0, <5>1 DEF SkipsHaveCause
        <5>3. k \in InstancesOf(f, q[1])
          BY <5>2 DEF InstancesOf
        <5>4. QED
          BY <4>1, <5>2, <5>3
      <4>3. QED
        BY <3>2, <3>3, <4>1, <4>2 DEF Done, Finished
    <3>5. QED
      BY <1>5, <3>2, <3>4
  <2>3. QED
    BY <2>1, <2>2
<1>9. PrefixOK(g)
  <2> SUFFICES ASSUME NEW r \in Instances, NEW q \in Instances, NEW t \in Instances,
                      r[1] = q[1], q[1] = t[1], r[1] \in Sequential, r[2] < q[2], q[2] < t[2],
                      g[t].status = "pending", g[q].status \notin {"absent", "pending"}
               PROVE  Done(g, r)
    BY DEF PrefixOK
  <2>1. f[t].status = "pending" /\ g[t] = f[t]
    BY <1>2, RowValues DEF Finished
  <2>2. CASE f[q].status # "pending"
    <3>1. f[q].status \notin {"absent", "pending"}
      BY <1>4, <2>2
    <3>2. Done(f, r)
      BY <1>0, <2>1, <3>1 DEF PrefixOK
    <3>3. QED
      BY <1>5, <3>2
  <2>3. CASE f[q].status = "pending"
    <3>1. t[1] \in Placeholders /\ t \in InstancesOf(f, t[1])
      BY <2>1, RowSets DEF InstancesOf
    <3>2. g[q] = Cell("ready")
      <4>1. g[q] # f[q]
        BY <2>3
      <4>2. CASE g[q] = Skip("unreachable")
        <5>0. Skip("unreachable") # Cell("ready")
          BY RowValues DEF Finished
        <5>1. SkipsRest(f, q[1])
          BY <1>2, <4>1, <4>2, <5>0
        <5>2. LoopOpen(f, t[1]) => ~SkipsRest(f, t[1])
          <6>1. g[t] # Skip("unreachable") /\ g[t] # Cell("ready")
            BY <2>1, RowValues DEF Finished
          <6>2. QED
            BY <1>2, <2>1, <6>1
        <5>3. f[q].status = "pending" /\ ~LoopOpen(f, q[1])
          BY <2>3, <5>1, <5>2
        <5>4. q \in Instances /\ g[q] = RollupInstance(f, q)
          BY RowSets DEF PhaseRollup, g
        <5>5. QED
          BY <4>1, <5>3, <5>4 DEF RollupInstance
      <4>3. QED
        BY <1>2, <4>1, <4>2
    <3>3. Done(f, r)
      BY <1>7, <2>3, <3>2
    <3>4. QED
      BY <1>5, <3>3
  <2>4. QED
    BY <2>2, <2>3
<1>10. SkipsHaveCause(g)
  <2> SUFFICES ASSUME NEW r \in Instances, g[r].status = "skipped"
               PROVE  \E q \in Instances : q[1] = r[1] /\ g[q].status \in {"failed", "cancelled"}
    BY DEF SkipsHaveCause
  <2>1. \E q \in Instances : q[1] = r[1] /\ f[q].status \in {"failed", "cancelled"}
    <3>1. CASE g[r] = f[r]
      BY <1>0, <3>1 DEF SkipsHaveCause
    <3>2. CASE g[r] # f[r]
      <4>1. SkipsRest(f, r[1])
        BY <1>2, <3>2, RowValues DEF Finished
      <4>2. QED
        BY <4>1 DEF SkipsRest, InstancesOf
    <3>3. QED
      BY <3>1, <3>2
  <2>2. QED
    BY <1>5, <2>1 DEF Done, Finished
<1>11. RollupOK(g)
  <2> SUFFICES ASSUME NEW p \in Placeholders, g[p].status \in {"completed", "failed"},
                      InstancesOf(g, p) # {}
               PROVE  /\ \A r \in InstancesOf(g, p) : Done(g, r)
                      /\ g[p].status = "completed" =>
                           \A r \in InstancesOf(g, p) : g[r].status # "failed"
    BY DEF RollupOK
  <2>1. InstancesOf(g, p) = InstancesOf(f, p) /\ \A r \in InstancesOf(f, p) : r \in Instances
    BY <1>6 DEF InstancesOf
  <2>2. /\ \A r \in InstancesOf(f, p) : Done(f, r)
        /\ g[p].status = "completed" => \A r \in InstancesOf(f, p) : f[r].status # "failed"
    <3>1. CASE g[p] = f[p]
      BY <1>0, <2>1, <3>1 DEF RollupOK
    <3>2. CASE g[p] # f[p]
      BY <1>3, <3>2, RowValues DEF Finished
    <3>3. QED
      BY <3>1, <3>2
  <2>3. QED
    BY <1>5, <2>1, <2>2
<1>12. NoOrphans(g)
  <2> SUFFICES ASSUME NEW r \in Instances, g[r[1]].status = "pending" PROVE g[r].status = "absent"
    BY DEF NoOrphans
  <2>1. r[1] \in Placeholders
    BY RowSets
  <2>2. f[r[1]].status = "pending"
    BY <1>3, <2>1, RowValues DEF Finished
  <2>3. QED
    BY <1>0, <1>6, <2>2 DEF NoOrphans
<1>13. QED
  BY <1>8, <1>9, <1>10, <1>11, <1>12 DEF LoopsOK, g

(* The phase keeps the rows in order. *)
LEMMA RollupKeeps ==
  ASSUME NEW f \in RowState, RowsOK(f)
  PROVE  RowsOK(PhaseRollup(f)) /\ Evolves(f, PhaseRollup(f))
<1> DEFINE g == PhaseRollup(f)
<1>1. StepsPresent(f) /\ GateOK(f)
  BY DEF RowsOK
<1>2. g \in RowState /\ Evolves(f, g) /\ StepsPresent(g) /\ LoopsOK(g) /\ NoOrphans(g)
  BY <1>1, RollupEffect, RollupEvolves, RollupLoops
<1>3. \A s \in FlowSteps : Judged(f, s, g[s])
  <2> TAKE s \in FlowSteps
  <2>1. Judged(f, s, f[s])
    BY <1>1 DEF GateOK
  <2>2. CASE g[s] = f[s]
    BY <2>1, <2>2
  <2>3. CASE g[s] # f[s]
    <3>1. f[s].status = "running" /\ g[s] \in {Cell("failed"), Cell("completed")}
      BY <2>3, RollupEffect
    <3>2. g[s].reason = "none"
      BY <3>1, RowValues DEF Finished
    <3>3. QED
      BY <2>1, <3>1, <3>2 DEF Judged
  <2>4. QED
    BY <2>2, <2>3
<1>4. GateOK(g)
  BY <1>2, <1>3, JudgedKept DEF GateOK, Evolves
<1>5. QED
  BY <1>2, <1>4 DEF RowsOK

-----------------------------------------------------------------------------
(***************************************************************************)
(* P1 and P3, phase_promote and phase_placeholders                         *)
(***************************************************************************)

(* A step that is decided gets a value its gate allows. *)
LEMMA DecidedOK ==
  ASSUME NEW f \in RowState, GateOK(f), NEW s \in FlowSteps, f[s].status = "pending", NEW when,
         NEW go \in {Cell("ready"), Cell("running"), Cell("failed"), Skip("empty")}
  PROVE  LET x == Decided(f, s, when, go) IN
         /\ x \in RowValue /\ Judged(f, s, x)
         /\ x = f[s] \/ x = go \/ x.status \in {"skipped", "failed"}
<1> DEFINE x == Decided(f, s, when, go)
<1>1. f[s] \in RowValue /\ Judged(f, s, f[s])
  BY RowSets DEF RowState, GateOK
<1>2. GateFor(f, s) \in {"wait", "open", "omitted"}
  BY DEF GateFor, GateOf
<1>3. \/ x = f[s]
      \/ GateFor(f, s) = "omitted" /\ x = Skip("unreachable")
      \/ GateFor(f, s) = "open" /\ x \in {Skip("condition"), Cell("failed"), go}
  BY <1>2 DEF Decided
<1> HIDE DEF x
<1>4. CASE x = f[s]
  BY <1>1, <1>4 DEF x
<1>5. CASE GateFor(f, s) = "omitted" /\ x = Skip("unreachable")
  <2>1. x \in RowValue /\ x.status = "skipped" /\ x.reason = "unreachable"
    BY <1>5, RowValues DEF Finished
  <2>2. QED
    BY <1>5, <2>1 DEF Judged, x
<1>6. CASE GateFor(f, s) = "open" /\ x \in {Skip("condition"), Cell("failed"), go}
  <2>1. /\ x \in RowValue /\ x.reason \in {"none", "condition", "empty"}
        /\ x = go \/ x.status \in {"skipped", "failed"}
    BY <1>6, RowValues DEF Finished
  <2>2. QED
    BY <1>6, <2>1 DEF Judged, x
<1>7. QED
  BY <1>3, <1>4, <1>5, <1>6

(* Loops are not concerned by what other steps do. *)
LEMMA LoopsSame ==
  ASSUME NEW f \in RowState, NEW g \in RowState, LoopsOK(f), NoOrphans(f),
         \A r \in Placeholders \cup Instances : g[r] = f[r]
  PROVE  LoopsOK(g) /\ NoOrphans(g)
<1>1. \A r \in Instances : g[r] = f[r] /\ g[r[1]] = f[r[1]] /\ Done(g, r) = Done(f, r)
  BY RowSets DEF Done
<1>2. \A p \in Placeholders : g[p] = f[p] /\ InstancesOf(g, p) = InstancesOf(f, p)
  BY <1>1 DEF InstancesOf
<1>3. NoOrphans(g)
  BY <1>1 DEF NoOrphans
<1>4. OrderOK(g)
  BY <1>1 DEF LoopsOK, OrderOK
<1>5. PrefixOK(g)
  BY <1>1 DEF LoopsOK, PrefixOK
<1>6. SkipsHaveCause(g)
  BY <1>1 DEF LoopsOK, SkipsHaveCause
<1>7. RollupOK(g)
  <2> SUFFICES ASSUME NEW p \in Placeholders, g[p].status \in {"completed", "failed"},
                      InstancesOf(g, p) # {}
               PROVE  /\ \A r \in InstancesOf(g, p) : Done(g, r)
                      /\ g[p].status = "completed" =>
                           \A r \in InstancesOf(g, p) : g[r].status # "failed"
    BY DEF RollupOK
  <2>1. \A r \in InstancesOf(f, p) : r \in Instances
    BY DEF InstancesOf
  <2>2. /\ \A r \in InstancesOf(f, p) : Done(f, r)
        /\ f[p].status = "completed" => \A r \in InstancesOf(f, p) : f[r].status # "failed"
    BY <1>2 DEF LoopsOK, RollupOK
  <2>3. QED
    BY <1>1, <1>2, <2>1, <2>2
<1>8. QED
  BY <1>3, <1>4, <1>5, <1>6, <1>7 DEF LoopsOK

(* A step that is decided gets one of four values or keeps its own.        *)
LEMMA DecidedType ==
  ASSUME NEW f \in RowState, NEW s \in FlowSteps, NEW when, NEW go \in RowValue
  PROVE  Decided(f, s, when, go) \in RowValue
<1> DEFINE x == Decided(f, s, when, go)
<1>1. f[s] \in RowValue
  BY RowSets DEF RowState
<1>2. GateFor(f, s) \in {"wait", "open", "omitted"}
  BY DEF GateFor, GateOf
<1>3. x \in {f[s], Skip("unreachable"), Skip("condition"), Cell("failed"), go}
  BY <1>2 DEF Decided
<1> HIDE DEF x
<1>4. QED
  BY <1>1, <1>3, RowValues DEF Finished, x

(* A relay yields rows. *)
LEMMA RelayType ==
  ASSUME NEW f \in RowState, NEW when
  PROVE  Relay(f, when) \in RowState
<1>1. Cell("ready") \in RowValue
  BY RowValues
<1>2. \A r \in Rows : f[r] \in RowValue
  BY DEF RowState
<1>3. \A r \in FlowSteps : Decided(f, r, when, Cell("ready")) \in RowValue
  BY <1>1, DecidedType
<1>4. QED
  BY <1>2, <1>3 DEF Relay, RowState

(* One relay of phase_promote keeps the rows in order. *)
LEMMA RelayKeeps ==
  ASSUME NEW f \in RowState, RowsOK(f), NEW when
  PROVE  RowsOK(Relay(f, when)) /\ Evolves(f, Relay(f, when))
<1> DEFINE g == Relay(f, when)
<1>0. StepsPresent(f) /\ GateOK(f) /\ LoopsOK(f) /\ NoOrphans(f)
  BY DEF RowsOK
<1>1. \A r \in Rows :
        \/ g[r] = f[r]
        \/ /\ r \in FlowSteps \ Placeholders /\ f[r].status = "pending"
           /\ g[r] = Decided(f, r, when, Cell("ready"))
  BY DEF Relay
<1>2. ASSUME NEW r \in Rows, g[r] # f[r]
      PROVE  /\ r \in FlowSteps \ Placeholders /\ f[r].status = "pending"
             /\ g[r] \in RowValue /\ Judged(f, r, g[r])
             /\ g[r].status \in {"ready", "skipped", "failed"}
  <2>1. r \in FlowSteps \ Placeholders /\ f[r].status = "pending"
        /\ g[r] = Decided(f, r, when, Cell("ready"))
    BY <1>1, <1>2
  <2> HIDE DEF g
  <2>2. g[r] \in RowValue /\ Judged(f, r, g[r])
        /\ (g[r] = Cell("ready") \/ g[r].status \in {"skipped", "failed"})
    BY <1>0, <1>2, <2>1, DecidedOK
  <2>3. QED
    BY <2>1, <2>2, RowValues DEF Finished
<1>3. g \in RowState
  <2>1. \A r \in Rows : f[r] \in RowValue
    BY DEF RowState
  <2>2. \A r \in Rows : g[r] \in RowValue
    <3> HIDE DEF g
    <3>1. QED
      BY <1>2, <2>1
  <2>3. QED
    BY <2>2 DEF Relay, RowState
<1> HIDE DEF g
<1>4. Evolves(f, g)
  BY <1>2, RowSets DEF Evolves, Keeps, Done, Finished
<1>5. StepsPresent(g)
  BY <1>0, <1>2, RowSets DEF StepsPresent
<1>6. \A r \in Placeholders \cup Instances : g[r] = f[r]
  BY <1>2, RowSets
<1>7. LoopsOK(g) /\ NoOrphans(g)
  BY <1>0, <1>3, <1>6, LoopsSame
<1>8. \A s \in FlowSteps : Judged(f, s, g[s])
  BY <1>0, <1>2, RowSets DEF GateOK
<1>9. GateOK(g)
  BY <1>3, <1>4, <1>8, JudgedKept DEF GateOK, Evolves
<1>10. QED
  BY <1>3, <1>4, <1>5, <1>7, <1>9 DEF RowsOK, g

(* So does the phase. *)
LEMMA PromoteKeeps ==
  ASSUME NEW f \in RowState, RowsOK(f), NEW when
  PROVE  RowsOK(PhasePromote(f, when)) /\ Evolves(f, PhasePromote(f, when))
<1> DEFINE C == [g \in RowState |-> Relay(g, when)]
           X == {g \in RowState : RowsOK(g) /\ Evolves(f, g)}
<1>1. Cardinality(FlowSteps) \in Nat
  BY FlowAssumption, FS_CardinalityType
<1>2. \A g \in RowState : Relay(g, when) \in RowState
  BY RelayType
<1>3. C \in [RowState -> RowState]
  BY <1>2
<1>4. f \in X
  BY EvolvesSame
<1>5. \A g \in X : C[g] \in X
  <2> TAKE g \in X
  <2>1. RowsOK(g) /\ Evolves(f, g) /\ g \in RowState
    OBVIOUS
  <2>2. RowsOK(Relay(g, when)) /\ Evolves(g, Relay(g, when))
    BY <2>1, RelayKeeps
  <2>3. Relay(g, when) \in RowState
    BY <2>2 DEF RowsOK
  <2>4. Evolves(f, Relay(g, when))
    BY <2>1, <2>2, <2>3, EvolvesOn DEF RowsOK
  <2>5. QED
    BY <2>1, <2>2, <2>3, <2>4
<1>6. UntilStable(C, Cardinality(FlowSteps), f) \in X
  <2> HIDE DEF C, X
  <2>1. X \in SUBSET RowState
    BY DEF X
  <2>2. QED
    BY <1>1, <1>3, <1>4, <1>5, <2>1, StaysWithin
<1>7. QED
  BY <1>6 DEF PhasePromote

(* What the phase does to a step, a loop and an instance: a loop without   *)
(* instances is never adopted.                                             *)
LEMMA PlaceholdersEffect ==
  ASSUME NEW f \in RowState, GateOK(f), NoOrphans(f), NEW when,
         NEW items \in [Placeholders -> Nat]
  PROVE  LET g == PhasePlaceholders(f, when, items) IN
         /\ g \in RowState
         /\ \A s \in FlowSteps \ Placeholders : g[s] = f[s]
         /\ \A p \in Placeholders :
              \/ g[p] = f[p]
              \/ /\ f[p].status = "pending" /\ Judged(f, p, g[p])
                 /\ g[p].status \in {"running", "skipped", "failed"}
         /\ \A r \in Instances :
              \/ g[r] = f[r]
              \/ /\ f[r[1]].status = "pending" /\ f[r].status = "absent"
                 /\ g[r[1]].status = "running"
                 /\ IF r[1] \in Sequential /\ r[2] > 0 THEN g[r].status = "pending"
                                                      ELSE g[r].status = "ready"
<1> DEFINE g == PhasePlaceholders(f, when, items)
           opened(p) == CASE items[p] = 0 -> Skip("empty")
                          [] items[p] > MaxItems -> Cell("failed")
                          [] OTHER -> Cell("running")
           value(p) == IF f[p].status = "pending" THEN Decided(f, p, when, opened(p)) ELSE f[p]
           expands(p) == f[p].status = "pending" /\ value(p).status = "running"
<1>1. \A p \in Placeholders : ~(f[p].status = "pending" /\ MaxItems > 0 /\ f[<<p, 0>>].status # "absent")
  <2> TAKE p \in Placeholders
  <2>1. MaxItems > 0 => <<p, 0>> \in Instances /\ <<p, 0>>[1] = p
    BY RowSets
  <2>2. QED
    BY <2>1 DEF NoOrphans
<1>2. \A p \in Placeholders : p \in Rows /\ p \notin Instances /\ p \in FlowSteps
  BY RowSets
<1>3. \A p \in Placeholders : g[p] = value(p)
  BY <1>1, <1>2 DEF PhasePlaceholders
<1>4. \A s \in FlowSteps \ Placeholders : g[s] = f[s]
  BY RowSets DEF PhasePlaceholders
<1>5. ASSUME NEW r \in Instances
      PROVE  \/ g[r] = f[r]
             \/ expands(r[1]) /\ g[r] = IF r[1] \in Sequential /\ r[2] > 0 THEN Cell("pending")
                                                                         ELSE Cell("ready")
  <2>1. r[1] \in Placeholders /\ r \in Rows
    BY RowSets
  <2>2. QED
    BY <1>1, <2>1 DEF PhasePlaceholders
<1>6. \A p \in Placeholders :
        opened(p) \in {Cell("ready"), Cell("running"), Cell("failed"), Skip("empty")}
        /\ opened(p) # Cell("ready")
  BY RowValues DEF Finished
<1> HIDE DEF opened
<1>7. ASSUME NEW p \in Placeholders, f[p].status = "pending"
      PROVE  /\ value(p) \in RowValue /\ Judged(f, p, value(p))
             /\ value(p) = f[p] \/ value(p).status \in {"running", "skipped", "failed"}
  <2>1. LET x == Decided(f, p, when, opened(p)) IN
        /\ x \in RowValue /\ Judged(f, p, x)
        /\ x = f[p] \/ x = opened(p) \/ x.status \in {"skipped", "failed"}
    BY <1>2, <1>6, <1>7, DecidedOK
  <2>2. opened(p).status \in {"running", "skipped", "failed"}
    BY <1>6, RowValues DEF Finished
  <2>3. QED
    BY <1>7, <2>1, <2>2
<1>8. ASSUME NEW r \in Rows PROVE g[r] \in RowValue
  <2>1. f[r] \in RowValue
    BY DEF RowState
  <2> HIDE DEF g, value
  <2>2. CASE r \in Instances
    <3>1. g[r] \in {f[r], Cell("pending"), Cell("ready")}
      BY <1>5, <2>2
    <3>2. QED
      BY <2>1, <3>1, RowValues
  <2>3. CASE r \in Placeholders
    BY <1>3, <1>7, <2>1, <2>3 DEF value
  <2>4. CASE r \in FlowSteps \ Placeholders
    BY <1>4, <2>1, <2>4
  <2>5. QED
    BY <2>2, <2>3, <2>4, RowSets
<1>9. g \in RowState
  BY <1>8 DEF PhasePlaceholders, RowState
<1> HIDE DEF g
<1>10. ASSUME NEW p \in Placeholders
       PROVE  \/ g[p] = f[p]
              \/ /\ f[p].status = "pending" /\ Judged(f, p, g[p])
                 /\ g[p].status \in {"running", "skipped", "failed"}
  BY <1>3, <1>7
<1>11. ASSUME NEW r \in Instances
       PROVE  \/ g[r] = f[r]
              \/ /\ f[r[1]].status = "pending" /\ f[r].status = "absent"
                 /\ g[r[1]].status = "running"
                 /\ IF r[1] \in Sequential /\ r[2] > 0 THEN g[r].status = "pending"
                                                      ELSE g[r].status = "ready"
  <2>1. r[1] \in Placeholders
    BY RowSets
  <2>2. CASE g[r] # f[r]
    <3>1. f[r[1]].status = "pending" /\ g[r[1]].status = "running"
      BY <1>3, <1>5, <2>1, <2>2
    <3>2. f[r].status = "absent"
      BY <3>1 DEF NoOrphans
    <3>3. QED
      BY <1>5, <2>2, <3>1, <3>2, RowValues
  <2>3. QED
    BY <2>2
<1>12. QED
  BY <1>4, <1>9, <1>10, <1>11 DEF g

(* phase_placeholders keeps the rows in order. *)
LEMMA PlaceholdersKeeps ==
  ASSUME NEW f \in RowState, RowsOK(f), NEW when, NEW items \in [Placeholders -> Nat]
  PROVE  LET g == PhasePlaceholders(f, when, items) IN RowsOK(g) /\ Evolves(f, g)
<1> DEFINE g == PhasePlaceholders(f, when, items)
<1>0. /\ StepsPresent(f) /\ GateOK(f) /\ NoOrphans(f)
      /\ OrderOK(f) /\ PrefixOK(f) /\ SkipsHaveCause(f) /\ RollupOK(f)
  BY DEF RowsOK, LoopsOK
<1>1. /\ g \in RowState
      /\ \A s \in FlowSteps \ Placeholders : g[s] = f[s]
      /\ \A p \in Placeholders :
           \/ g[p] = f[p]
           \/ /\ f[p].status = "pending" /\ Judged(f, p, g[p])
              /\ g[p].status \in {"running", "skipped", "failed"}
  BY <1>0, PlaceholdersEffect
<1>2. ASSUME NEW r \in Instances
      PROVE  \/ g[r] = f[r]
             \/ /\ f[r[1]].status = "pending" /\ f[r].status = "absent"
                /\ g[r[1]].status = "running"
                /\ IF r[1] \in Sequential /\ r[2] > 0 THEN g[r].status = "pending"
                                                     ELSE g[r].status = "ready"
  BY <1>0, PlaceholdersEffect
<1> HIDE DEF g
<1>3. \A r \in Instances : f[r[1]].status # "pending" => g[r] = f[r]
  BY <1>2
<1>4. \A r \in Instances : f[r].status # "absent" => g[r] = f[r] /\ f[r[1]].status # "pending"
  BY <1>0, <1>2 DEF NoOrphans
<1>5. \A r \in Instances : g[r].status \notin {"absent", "pending", "ready"} => g[r] = f[r]
  BY <1>2
<1>6. Evolves(f, g)
  <2>1. Keeps(f, g)
    BY <1>1, <1>4, RowSets DEF Keeps, Done, Finished
  <2>2. ASSUME NEW r \in Rows
        PROVE  /\ f[r].status # "absent" => g[r].status # "absent"
               /\ g[r].status = "pending" => f[r].status \in {"absent", "pending"}
    <3>1. CASE r \in Instances
      BY <1>2, <3>1
    <3>2. CASE r \in FlowSteps
      BY <1>1, <3>2
    <3>3. QED
      BY <3>1, <3>2, RowSets
  <2>3. ASSUME NEW r \in Instances, f[r].status = "absent", g[r].status # "absent"
        PROVE  f[r[1]].status = "pending" /\ g[r[1]].status # "pending"
    BY <1>2, <2>3
  <2>4. QED
    BY <2>1, <2>2, <2>3 DEF Evolves
<1>7. StepsPresent(g)
  BY <1>0, <1>6, RowSets DEF StepsPresent, Evolves
<1>8. NoOrphans(g)
  <2> SUFFICES ASSUME NEW r \in Instances, g[r[1]].status = "pending" PROVE g[r].status = "absent"
    BY DEF NoOrphans
  <2>1. f[r[1]].status = "pending" /\ g[r] = f[r]
    BY <1>1, <1>2, RowSets
  <2>2. QED
    BY <1>0, <2>1 DEF NoOrphans
<1>9. GateOK(g)
  <2>1. \A s \in FlowSteps : Judged(f, s, g[s])
    BY <1>0, <1>1 DEF GateOK
  <2>2. QED
    BY <1>1, <1>6, <2>1, JudgedKept DEF GateOK, Evolves
<1>10. \A r \in Instances : Done(f, r) => g[r] = f[r] /\ Done(g, r)
  BY <1>4 DEF Done, Finished
<1>11. OrderOK(g)
  <2> SUFFICES ASSUME NEW r \in Instances, NEW q \in Instances,
                      r[1] = q[1], r[1] \in Sequential, r[2] < q[2],
                      g[q].status \in {"ready", "running", "completed"}
               PROVE  Done(g, r) /\ (r[1] \notin Tolerated => g[r].status = "completed")
    BY DEF OrderOK
  <2>1. r[2] \in Nat /\ q[2] \in Nat /\ q[2] > 0
    BY RowSets
  <2>2. g[q] = f[q]
    BY <1>2, <2>1
  <2>3. Done(f, r) /\ (r[1] \notin Tolerated => f[r].status = "completed")
    BY <1>0, <2>2 DEF OrderOK
  <2>4. QED
    BY <1>10, <2>3
<1>12. PrefixOK(g)
  <2> SUFFICES ASSUME NEW r \in Instances, NEW q \in Instances, NEW t \in Instances,
                      r[1] = q[1], q[1] = t[1], r[1] \in Sequential, r[2] < q[2], q[2] < t[2],
                      g[t].status = "pending", g[q].status \notin {"absent", "pending"}
               PROVE  Done(g, r)
    BY DEF PrefixOK
  <2>1. r[2] \in Nat /\ q[2] \in Nat /\ q[2] > 0
    BY RowSets
  <2>2. g[q] = f[q] /\ f[q].status # "absent"
    BY <1>2, <2>1
  <2>3. f[q[1]].status # "pending"
    BY <1>4, <2>2
  <2>4. g[t] = f[t]
    BY <1>3, <2>3
  <2>5. Done(f, r)
    BY <1>0, <2>2, <2>4 DEF PrefixOK
  <2>6. QED
    BY <1>10, <2>5
<1>13. SkipsHaveCause(g)
  <2> SUFFICES ASSUME NEW r \in Instances, g[r].status = "skipped"
               PROVE  \E q \in Instances : q[1] = r[1] /\ g[q].status \in {"failed", "cancelled"}
    BY DEF SkipsHaveCause
  <2>1. f[r].status = "skipped"
    BY <1>5
  <2>2. PICK q \in Instances : q[1] = r[1] /\ f[q].status \in {"failed", "cancelled"}
    BY <1>0, <2>1 DEF SkipsHaveCause
  <2>3. g[q] = f[q]
    BY <1>4, <2>2
  <2>4. QED
    BY <2>2, <2>3
<1>14. RollupOK(g)
  <2> SUFFICES ASSUME NEW p \in Placeholders, g[p].status \in {"completed", "failed"},
                      InstancesOf(g, p) # {}
               PROVE  /\ \A r \in InstancesOf(g, p) : Done(g, r)
                      /\ g[p].status = "completed" =>
                           \A r \in InstancesOf(g, p) : g[r].status # "failed"
    BY DEF RollupOK
  <2>1. \A r \in Instances : r[1] = p => g[r] = f[r]
    BY <1>2
  <2>2. InstancesOf(g, p) = InstancesOf(f, p) /\ \A r \in InstancesOf(f, p) : r \in Instances /\ r[1] = p
    BY <2>1 DEF InstancesOf
  <2>3. g[p] = f[p]
    <3>1. PICK r \in InstancesOf(f, p) : TRUE
      BY <2>2
    <3>2. f[p].status # "pending"
      BY <1>4, <2>2, <3>1 DEF InstancesOf
    <3>3. QED
      BY <1>1, <3>2
  <2>4. /\ \A r \in InstancesOf(f, p) : Done(f, r)
        /\ f[p].status = "completed" => \A r \in InstancesOf(f, p) : f[r].status # "failed"
    BY <1>0, <2>2, <2>3 DEF RollupOK
  <2>5. QED
    BY <1>10, <2>1, <2>2, <2>3, <2>4
<1>15. QED
  BY <1>1, <1>6, <1>7, <1>8, <1>9, <1>11, <1>12, <1>13, <1>14 DEF RowsOK, LoopsOK, g

-----------------------------------------------------------------------------
(***************************************************************************)
(* run and its plan                                                        *)
(***************************************************************************)

(* The phases yield rows, whatever they are given. *)
LEMMA PassType ==
  ASSUME NEW f \in RowState, NEW when, NEW items \in [Placeholders -> Nat]
  PROVE  Pass(f, when, items) \in RowState
<1>1. ASSUME NEW g \in RowState PROVE PhasePromote(g, when) \in RowState
  <2> DEFINE C == [h \in RowState |-> Relay(h, when)]
  <2>1. Cardinality(FlowSteps) \in Nat
    BY FlowAssumption, FS_CardinalityType
  <2>2. C \in [RowState -> RowState]
    BY RelayType
  <2>3. UntilStable(C, Cardinality(FlowSteps), g) \in RowState
    <3> HIDE DEF C
    <3>1. RowState \in SUBSET RowState /\ \A h \in RowState : C[h] \in RowState
      BY <2>2
    <3>2. QED
      BY <2>1, <2>2, <3>1, StaysWithin
  <2>4. QED
    BY <2>3 DEF PhasePromote
<1>2. ASSUME NEW g \in RowState PROVE PhasePlaceholders(g, when, items) \in RowState
  <2> DEFINE opened(p) == CASE items[p] = 0 -> Skip("empty")
                            [] items[p] > MaxItems -> Cell("failed")
                            [] OTHER -> Cell("running")
  <2>1. \A r \in Rows : g[r] \in RowValue
    BY DEF RowState
  <2>2. \A p \in Placeholders : opened(p) \in RowValue
    BY RowValues DEF Finished
  <2> HIDE DEF opened
  <2>3. \A p \in Placeholders : Decided(g, p, when, opened(p)) \in RowValue
    BY <2>2, DecidedType, RowSets
  <2>4. Cell("running") \in RowValue /\ Cell("pending") \in RowValue /\ Cell("ready") \in RowValue
    BY RowValues
  <2>5. \A r \in Instances : r[1] \in Placeholders
    BY RowSets
  <2>6. \A r \in Rows : PhasePlaceholders(g, when, items)[r] \in RowValue
    BY <2>1, <2>3, <2>4, <2>5, RowSets DEF PhasePlaceholders, opened
  <2>7. QED
    BY <2>6 DEF PhasePlaceholders, RowState
<1>3. PhaseRollup(f) \in RowState
  BY RollupEffect
<1>4. QED
  BY <1>1, <1>2, <1>3 DEF Pass

(* A pass keeps the rows in order. *)
LEMMA PassKeeps ==
  ASSUME NEW f \in RowState, RowsOK(f), NEW when, NEW items \in [Placeholders -> Nat]
  PROVE  RowsOK(Pass(f, when, items)) /\ Evolves(f, Pass(f, when, items))
<1> DEFINE a == PhaseRollup(f)
           b == PhasePromote(a, when)
           c == PhasePlaceholders(b, when, items)
<1>1. RowsOK(a) /\ Evolves(f, a) /\ a \in RowState
  BY RollupKeeps DEF RowsOK
<1> HIDE DEF a
<1>2. RowsOK(b) /\ Evolves(a, b) /\ b \in RowState
  BY <1>1, PromoteKeeps DEF RowsOK
<1> HIDE DEF b
<1>3. RowsOK(c) /\ Evolves(b, c) /\ c \in RowState
  BY <1>2, PlaceholdersKeeps DEF RowsOK
<1> HIDE DEF c
<1>4. StepsPresent(f) /\ StepsPresent(a) /\ StepsPresent(b)
  BY <1>1, <1>2 DEF RowsOK
<1>5. Evolves(f, b)
  BY <1>1, <1>2, <1>4, EvolvesOn
<1>6. Evolves(f, c)
  BY <1>2, <1>3, <1>4, <1>5, EvolvesOn
<1>7. QED
  BY <1>3, <1>6 DEF Pass, a, b, c

(* The pass bound is a number. *)
LEMMA PassBoundType == ASSUME NEW f PROVE PassBound(f) \in Nat
<1>1. IsFiniteSet(FlowSteps) /\ IsFiniteSet(Placeholders) /\ MaxItems \in Nat
  BY FlowAssumption, ChoiceAssumption, FS_Subset
<1>2. IsFiniteSet(0 .. MaxItems - 1)
  BY <1>1, FS_Interval
<1>3. IsFiniteSet(Instances)
  BY <1>1, <1>2, FS_Product DEF Instances
<1>4. IsFiniteSet(Rows)
  BY <1>1, <1>3, FS_Union DEF Rows
<1>5. /\ IsFiniteSet({r \in Rows : f[r].status # "absent"})
      /\ IsFiniteSet({p \in Placeholders : f[p].status = "pending"})
  BY <1>1, <1>4, FS_Subset
<1>6. /\ Cardinality({r \in Rows : f[r].status # "absent"}) \in Nat
      /\ Cardinality({p \in Placeholders : f[p].status = "pending"}) \in Nat
  BY <1>5, FS_CardinalityType
<1>7. \A a, b, c \in Nat : 4 * (a + b * c) + 1 \in Nat
  OBVIOUS
<1>8. QED
  BY <1>1, <1>6, <1>7 DEF PassBound

(* run keeps the rows in order. *)
LEMMA RunKeeps ==
  ASSUME NEW f \in RowState, RowsOK(f), NEW when, NEW items \in [Placeholders -> Nat]
  PROVE  /\ Run(f, when, items) \in RowState
         /\ RowsOK(Run(f, when, items)) /\ Evolves(f, Run(f, when, items))
<1> DEFINE C == [g \in RowState |-> Pass(g, when, items)]
           X == {g \in RowState : RowsOK(g) /\ Evolves(f, g)}
<1>1. PassBound(f) \in Nat
  BY PassBoundType
<1>2. C \in [RowState -> RowState]
  BY PassType
<1>3. f \in X
  BY EvolvesSame
<1>4. \A g \in X : C[g] \in X
  <2> TAKE g \in X
  <2>1. RowsOK(g) /\ Evolves(f, g) /\ g \in RowState
    OBVIOUS
  <2>2. RowsOK(Pass(g, when, items)) /\ Evolves(g, Pass(g, when, items))
    BY <2>1, PassKeeps
  <2>3. Pass(g, when, items) \in RowState
    BY <2>2 DEF RowsOK
  <2>4. Evolves(f, Pass(g, when, items))
    BY <2>1, <2>2, <2>3, EvolvesOn DEF RowsOK
  <2>5. QED
    BY <2>1, <2>2, <2>3, <2>4
<1>5. UntilStable(C, PassBound(f), f) \in X
  <2> HIDE DEF C, X
  <2>1. X \in SUBSET RowState
    BY DEF X
  <2>2. QED
    BY <1>1, <1>2, <1>3, <1>4, <2>1, StaysWithin
<1>6. QED
  BY <1>5 DEF Run

(* The choices TLC enumerates are of this type. *)
LEMMA ChoiceTypes == ItemChoices \subseteq [Placeholders -> Nat]
BY ChoiceAssumption DEF ItemChoices

(* The rows after apply: those the plan changes, and the others. *)
Merged(f, g, h) == [r \in Rows |-> IF r \in Changes(f, g) THEN g[r] ELSE h[r]]

(* A plan made from the snapshot f that leads to g is applied to the rows  *)
(* h: because each row it changes still has the status it had, the result  *)
(* evolves from h, and agrees with g on what has ended there.              *)
LEMMA MergeEvolves ==
  ASSUME NEW f \in RowState, NEW g \in RowState, NEW h \in RowState,
         RowsOK(f), RowsOK(g), RowsOK(h), Evolves(f, g), Evolves(f, h),
         \A r \in Changes(f, g) : h[r].status = f[r].status
  PROVE  LET m == Merged(f, g, h) IN
         /\ m \in RowState /\ StepsPresent(m) /\ Evolves(h, m) /\ Keeps(g, m)
         /\ \A r \in Rows : m[r] = g[r] \/ m[r] = h[r]
         /\ \A r \in Instances : m[r].status # h[r].status /\ h[r].status = "absent" =>
              /\ f[r[1]].status = "pending" /\ h[r[1]].status = "pending"
              /\ m[r[1]] = g[r[1]] /\ g[r[1]].status # "pending"
<1> DEFINE m == Merged(f, g, h)
<1>1. \A r \in Rows : m[r] = IF r \in Changes(f, g) THEN g[r] ELSE h[r]
  BY DEF Merged
<1>2. m \in RowState
  BY DEF Merged, RowState
<1> HIDE DEF m
<1>3. \A r \in Changes(f, g) : r \in Rows /\ f[r] # g[r] /\ h[r].status = f[r].status /\ ~Done(f, r)
  BY DEF Changes, Evolves, Keeps
<1>4. Keeps(h, m)
  BY <1>1, <1>3 DEF Keeps, Done
<1>5. Keeps(g, m)
  <2> SUFFICES ASSUME NEW r \in Rows, Done(g, r) PROVE m[r] = g[r]
    BY DEF Keeps
  <2>1. CASE r \notin Changes(f, g)
    <3>1. f[r] = g[r]
      BY <2>1 DEF Changes
    <3>2. h[r] = f[r]
      BY <3>1 DEF Evolves, Keeps, Done
    <3>3. QED
      BY <1>1, <2>1, <3>1, <3>2
  <2>2. QED
    BY <1>1, <2>1
<1>6. ASSUME NEW r \in Instances, m[r].status # "absent", h[r].status = "absent"
      PROVE  /\ f[r[1]].status = "pending" /\ h[r[1]].status = "pending"
             /\ m[r[1]] = g[r[1]] /\ g[r[1]].status # "pending"
  <2>1. r \in Rows /\ r[1] \in Rows
    BY RowSets
  <2>2. r \in Changes(f, g) /\ m[r] = g[r] /\ f[r].status = "absent"
    BY <1>1, <1>3, <1>6, <2>1
  <2>3. f[r[1]].status = "pending" /\ g[r[1]].status # "pending"
    BY <1>6, <2>2 DEF Evolves
  <2>4. r[1] \in Changes(f, g)
    BY <2>1, <2>3 DEF Changes
  <2>5. QED
    BY <1>1, <1>3, <2>1, <2>3, <2>4
<1>7. Evolves(h, m)
  <2>1. ASSUME NEW r \in Rows
        PROVE  /\ h[r].status # "absent" => m[r].status # "absent"
               /\ m[r].status = "pending" => h[r].status \in {"absent", "pending"}
    <3>1. CASE r \in Changes(f, g)
      BY <1>1, <1>3, <3>1 DEF Evolves
    <3>2. CASE r \notin Changes(f, g)
      BY <1>1, <3>2
    <3>3. QED
      BY <3>1, <3>2
  <2>2. QED
    BY <1>4, <1>6, <2>1 DEF Evolves
<1>8. StepsPresent(m)
  BY <1>7, RowSets DEF RowsOK, StepsPresent, Evolves
<1>9. QED
  BY <1>1, <1>2, <1>5, <1>6, <1>7, <1>8 DEF m

(* An applied plan keeps the rows in order, however stale its snapshot.    *)
LEMMA MergeKeeps ==
  ASSUME NEW f \in RowState, NEW g \in RowState, NEW h \in RowState,
         RowsOK(f), RowsOK(g), RowsOK(h), Evolves(f, g), Evolves(f, h),
         \A r \in Changes(f, g) : h[r].status = f[r].status
  PROVE  RowsOK(Merged(f, g, h)) /\ Evolves(h, Merged(f, g, h))
<1> DEFINE m == Merged(f, g, h)
<1>0. /\ StepsPresent(f) /\ StepsPresent(g) /\ StepsPresent(h)
      /\ NoOrphans(f) /\ NoOrphans(h) /\ GateOK(g) /\ GateOK(h)
      /\ OrderOK(g) /\ PrefixOK(g) /\ SkipsHaveCause(g) /\ RollupOK(g)
      /\ OrderOK(h) /\ PrefixOK(h) /\ SkipsHaveCause(h) /\ RollupOK(h)
  BY DEF RowsOK, LoopsOK
<1>1. /\ m \in RowState /\ StepsPresent(m) /\ Evolves(h, m) /\ Keeps(g, m) /\ Keeps(h, m)
      /\ \A r \in Rows : m[r] = g[r] \/ m[r] = h[r]
      /\ \A r \in Instances : m[r].status # h[r].status /\ h[r].status = "absent" =>
           /\ f[r[1]].status = "pending" /\ h[r[1]].status = "pending"
           /\ m[r[1]] = g[r[1]] /\ g[r[1]].status # "pending"
  BY MergeEvolves DEF Evolves
<1>2. \A r \in Rows : m[r] = IF r \in Changes(f, g) THEN g[r] ELSE h[r]
  BY DEF Merged
<1>3. \A r \in Rows : r \notin Changes(f, g) => f[r] = g[r]
  BY DEF Changes
<1> HIDE DEF m
<1>4. \A r \in Instances : r \in Rows /\ r[1] \in Rows /\ r[1] \in FlowSteps /\ r[1] \in Placeholders
  BY RowSets
<1>5. \A r \in Rows : /\ Done(g, r) => m[r] = g[r] /\ Done(m, r)
                      /\ Done(h, r) => m[r] = h[r] /\ Done(m, r)
  BY <1>1 DEF Keeps, Done
<1>6. NoOrphans(m)
  <2> SUFFICES ASSUME NEW r \in Instances, m[r[1]].status = "pending", m[r].status # "absent"
               PROVE  FALSE
    BY DEF NoOrphans
  <2>1. h[r].status # "absent"
    BY <1>1
  <2>2. h[r[1]].status # "pending" /\ h[r[1]].status # "absent"
    BY <1>0, <1>4, <2>1 DEF NoOrphans, StepsPresent
  <2>3. QED
    BY <1>1, <1>4, <2>2 DEF Evolves
<1>7. GateOK(m)
  <2> SUFFICES ASSUME NEW s \in FlowSteps PROVE Judged(m, s, m[s])
    BY DEF GateOK
  <2>1. Judged(g, s, g[s]) /\ Judged(h, s, h[s])
    BY <1>0 DEF GateOK
  <2>2. Judged(m, s, g[s]) /\ Judged(m, s, h[s])
    BY <1>1, <2>1, JudgedKept
  <2>3. QED
    BY <1>1, <2>2, RowSets
<1>8. OrderOK(m)
  <2> SUFFICES ASSUME NEW r \in Instances, NEW q \in Instances,
                      r[1] = q[1], r[1] \in Sequential, r[2] < q[2],
                      m[q].status \in {"ready", "running", "completed"}
               PROVE  Done(m, r) /\ (r[1] \notin Tolerated => m[r].status = "completed")
    BY DEF OrderOK
  <2>1. CASE m[q] = g[q]
    <3>1. Done(g, r) /\ (r[1] \notin Tolerated => g[r].status = "completed")
      BY <1>0, <2>1 DEF OrderOK
    <3>2. QED
      BY <1>4, <1>5, <3>1
  <2>2. CASE m[q] = h[q]
    <3>1. Done(h, r) /\ (r[1] \notin Tolerated => h[r].status = "completed")
      BY <1>0, <2>2 DEF OrderOK
    <3>2. QED
      BY <1>4, <1>5, <3>1
  <2>3. QED
    BY <1>1, <1>4, <2>1, <2>2
<1>9. PrefixOK(m)
  <2> SUFFICES ASSUME NEW r \in Instances, NEW q \in Instances, NEW t \in Instances,
                      r[1] = q[1], q[1] = t[1], r[1] \in Sequential, r[2] < q[2], q[2] < t[2],
                      m[t].status = "pending", m[q].status \notin {"absent", "pending"}
               PROVE  Done(m, r)
    BY DEF PrefixOK
  <2>1. CASE h[t].status = "pending" /\ m[q] = h[q]
    <3>1. Done(h, r)
      BY <1>0, <2>1 DEF PrefixOK
    <3>2. QED
      BY <1>4, <1>5, <3>1
  <2>2. CASE g[t].status = "pending" /\ m[q] = g[q]
    <3>1. Done(g, r)
      BY <1>0, <2>2 DEF PrefixOK
    <3>2. QED
      BY <1>4, <1>5, <3>1
  <2>3. CASE h[t].status # "pending" /\ m[q] # g[q]
    <3>1. m[t] = g[t] /\ t \in Changes(f, g) /\ m[q] = h[q]
      BY <1>1, <1>2, <1>4, <2>3
    <3>2. h[t].status = f[t].status /\ f[t].status \in {"absent", "pending"}
      BY <1>4, <3>1 DEF Evolves
    <3>3. h[t[1]].status = "pending"
      BY <1>1, <2>3, <3>2
    <3>4. h[q].status = "absent"
      BY <1>0, <3>3 DEF NoOrphans
    <3>5. QED
      BY <3>1, <3>4
  <2>4. CASE g[t].status # "pending" /\ m[q] # h[q]
    <3>1. m[t] = h[t] /\ t \notin Changes(f, g) /\ m[q] = g[q] /\ q \in Changes(f, g)
      BY <1>1, <1>2, <1>4, <2>4
    <3>2. f[t] = g[t] /\ h[t].status = "pending" /\ f[t].status = "absent"
      BY <1>3, <1>4, <2>4, <3>1 DEF Evolves
    <3>3. f[t[1]].status = "pending" /\ h[t[1]].status # "pending"
      BY <3>2 DEF Evolves
    <3>4. f[q].status = "absent"
      BY <1>0, <3>3 DEF NoOrphans
    <3>5. h[q].status = "absent"
      BY <3>1, <3>4
    <3>6. QED
      BY <1>1, <3>3, <3>5
  <2>5. QED
    BY <1>1, <1>4, <2>1, <2>2, <2>3, <2>4
<1>10. SkipsHaveCause(m)
  <2> SUFFICES ASSUME NEW r \in Instances, m[r].status = "skipped"
               PROVE  \E q \in Instances : q[1] = r[1] /\ m[q].status \in {"failed", "cancelled"}
    BY DEF SkipsHaveCause
  <2>1. CASE m[r] = g[r]
    <3>1. PICK q \in Instances : q[1] = r[1] /\ g[q].status \in {"failed", "cancelled"}
      BY <1>0, <2>1 DEF SkipsHaveCause
    <3>2. m[q] = g[q]
      BY <1>4, <1>5, <3>1 DEF Done, Finished
    <3>3. QED
      BY <3>1, <3>2
  <2>2. CASE m[r] = h[r]
    <3>1. PICK q \in Instances : q[1] = r[1] /\ h[q].status \in {"failed", "cancelled"}
      BY <1>0, <2>2 DEF SkipsHaveCause
    <3>2. m[q] = h[q]
      BY <1>4, <1>5, <3>1 DEF Done, Finished
    <3>3. QED
      BY <3>1, <3>2
  <2>3. QED
    BY <1>1, <1>4, <2>1, <2>2
<1>11. RollupOK(m)
  <2> SUFFICES ASSUME NEW p \in Placeholders, m[p].status \in {"completed", "failed"},
                      NEW r \in InstancesOf(m, p)
               PROVE  Done(m, r) /\ (m[p].status = "completed" => m[r].status # "failed")
    BY DEF RollupOK
  <2>1. p \in Rows /\ r \in Instances /\ r[1] = p /\ m[r].status # "absent" /\ r \in Rows
    BY RowSets DEF InstancesOf
  <2>2. CASE p \notin Changes(f, g)
    <3>1. m[p] = h[p]
      BY <1>2, <2>1, <2>2
    <3>2. h[r].status # "absent"
      BY <1>1, <2>1, <3>1
    <3>3. r \in InstancesOf(h, p)
      BY <2>1, <3>2 DEF InstancesOf
    <3>4. Done(h, r) /\ (h[p].status = "completed" => h[r].status # "failed")
      BY <1>0, <3>1, <3>3 DEF RollupOK
    <3>5. QED
      BY <1>5, <2>1, <3>1, <3>4
  <2>3. CASE p \in Changes(f, g)
    <3>1. m[p] = g[p] /\ h[p].status = f[p].status
      BY <1>2, <2>1, <2>3
    <3>2. g[r].status # "absent"
      <4> SUFFICES ASSUME g[r].status = "absent" PROVE FALSE
        OBVIOUS
      <4>1. m[r] = h[r] /\ f[r].status = "absent" /\ h[r].status # "absent"
        BY <1>1, <2>1 DEF Evolves
      <4>2. f[p].status = "pending" /\ h[p].status # "pending"
        BY <2>1, <4>1 DEF Evolves
      <4>3. QED
        BY <3>1, <4>2
    <3>3. r \in InstancesOf(g, p)
      BY <2>1, <3>2 DEF InstancesOf
    <3>4. Done(g, r) /\ (g[p].status = "completed" => g[r].status # "failed")
      BY <1>0, <3>1, <3>3 DEF RollupOK
    <3>5. QED
      BY <1>5, <2>1, <3>1, <3>4
  <2>4. QED
    BY <2>2, <2>3
<1>12. QED
  BY <1>1, <1>6, <1>7, <1>8, <1>9, <1>10, <1>11 DEF RowsOK, LoopsOK, m

(* So do writes by workers, by the cancel and by the compensation: they    *)
(* make no instance, end a loop only with its instances, and leave pending *)
(* in a loop either all instances or none.                                 *)
LEMMA WriteKeeps ==
  ASSUME NEW f \in RowState, RowsOK(f), NEW g \in RowState,
         \A r \in Rows :
           \/ g[r] = f[r]
           \/ /\ f[r].status \in {"pending", "ready", "running"} /\ g[r].reason = "none"
              /\ \/ g[r].status \in {"failed", "cancelled"}
                 \/ g[r].status \in {"ready", "running", "completed"} /\ f[r].status \in {"ready", "running"},
         \A p \in Placeholders :
           \/ g[p] = f[p] \/ g[p].status = "cancelled"
           \/ g[p].status = "failed" /\ \A r \in Instances : g[r].status # "absent" => Done(g, r),
         \A q, t \in Instances :
           q[1] = t[1] /\ g[t].status = "pending" /\ f[q].status = "pending" => g[q] = f[q]
  PROVE  RowsOK(g) /\ Evolves(f, g)
<1>0. /\ StepsPresent(f) /\ NoOrphans(f) /\ GateOK(f)
      /\ OrderOK(f) /\ PrefixOK(f) /\ SkipsHaveCause(f) /\ RollupOK(f)
  BY DEF RowsOK, LoopsOK
<1>1. \A r \in Rows : /\ Done(f, r) => g[r] = f[r]
                      /\ f[r].status = "absent" <=> g[r].status = "absent"
                      /\ g[r].status = "pending" => g[r] = f[r]
  BY DEF Done, Finished
<1>2. \A r \in Instances : r \in Rows /\ r[1] \in Rows /\ r[1] \in Placeholders
  BY RowSets
<1>3. Evolves(f, g)
  BY <1>1, <1>2 DEF Evolves, Keeps
<1>4. StepsPresent(g)
  BY <1>0, <1>1, RowSets DEF StepsPresent
<1>5. NoOrphans(g)
  BY <1>0, <1>1, <1>2 DEF NoOrphans
<1>6. GateOK(g)
  <2>1. \A s \in FlowSteps : Judged(f, s, g[s])
    BY <1>0, RowSets DEF GateOK, Judged
  <2>2. QED
    BY <1>3, <2>1, JudgedKept DEF GateOK, Evolves
<1>7. \A r \in Instances : Done(f, r) => g[r] = f[r] /\ Done(g, r)
  BY <1>1, <1>2 DEF Done
<1>8. OrderOK(g)
  <2> SUFFICES ASSUME NEW r \in Instances, NEW q \in Instances,
                      r[1] = q[1], r[1] \in Sequential, r[2] < q[2],
                      g[q].status \in {"ready", "running", "completed"}
               PROVE  Done(g, r) /\ (r[1] \notin Tolerated => g[r].status = "completed")
    BY DEF OrderOK
  <2>1. f[q].status \in {"ready", "running", "completed"}
    BY <1>2
  <2>2. Done(f, r) /\ (r[1] \notin Tolerated => f[r].status = "completed")
    BY <1>0, <2>1 DEF OrderOK
  <2>3. QED
    BY <1>7, <2>2
<1>9. PrefixOK(g)
  <2> SUFFICES ASSUME NEW r \in Instances, NEW q \in Instances, NEW t \in Instances,
                      r[1] = q[1], q[1] = t[1], r[1] \in Sequential, r[2] < q[2], q[2] < t[2],
                      g[t].status = "pending", g[q].status \notin {"absent", "pending"}
               PROVE  Done(g, r)
    BY DEF PrefixOK
  <2>1. f[t].status = "pending" /\ f[q].status # "absent"
    BY <1>1, <1>2
  <2>2. f[q].status # "pending"
    BY <2>1
  <2>3. Done(f, r)
    BY <1>0, <2>1, <2>2 DEF PrefixOK
  <2>4. QED
    BY <1>7, <2>3
<1>10. SkipsHaveCause(g)
  <2> SUFFICES ASSUME NEW r \in Instances, g[r].status = "skipped"
               PROVE  \E q \in Instances : q[1] = r[1] /\ g[q].status \in {"failed", "cancelled"}
    BY DEF SkipsHaveCause
  <2>1. f[r].status = "skipped"
    BY <1>2
  <2>2. PICK q \in Instances : q[1] = r[1] /\ f[q].status \in {"failed", "cancelled"}
    BY <1>0, <2>1 DEF SkipsHaveCause
  <2>3. g[q] = f[q]
    BY <1>7, <2>2 DEF Done, Finished
  <2>4. QED
    BY <2>2, <2>3
<1>11. RollupOK(g)
  <2> SUFFICES ASSUME NEW p \in Placeholders, g[p].status \in {"completed", "failed"},
                      NEW r \in InstancesOf(g, p)
               PROVE  Done(g, r) /\ (g[p].status = "completed" => g[r].status # "failed")
    BY DEF RollupOK
  <2>1. r \in Instances /\ r[1] = p /\ g[r].status # "absent"
    BY DEF InstancesOf
  <2>2. CASE g[p] = f[p]
    <3>1. r \in InstancesOf(f, p)
      BY <1>1, <1>2, <2>1 DEF InstancesOf
    <3>2. Done(f, r) /\ (f[p].status = "completed" => f[r].status # "failed")
      BY <1>0, <2>2, <3>1 DEF RollupOK
    <3>3. QED
      BY <1>7, <2>1, <2>2, <3>2
  <2>3. CASE g[p] # f[p]
    BY <2>1, <2>3
  <2>4. QED
    BY <2>2, <2>3
<1>12. QED
  BY <1>3, <1>4, <1>5, <1>6, <1>8, <1>9, <1>10, <1>11 DEF RowsOK, LoopsOK

-----------------------------------------------------------------------------
(***************************************************************************)
(* The steps                                                               *)
(***************************************************************************)

HandlerType == [pc : {"idle", "read", "snapshot", "apply", "decide", "settle"},
                attempt : 0 .. MaxAttempts,
                outcome : {"none", "completed", "failed", "cancelled"}]

(* The parts of the invariant. *)
LEMMA InvParts ==
  ASSUME IInv
  PROVE  /\ KindsOK /\ RowsOK(row) /\ HandlersOK /\ MatchedOK /\ SettledOK
         /\ row \in RowState /\ StepsPresent(row) /\ NoOrphans(row)
         /\ handler \in [Handlers -> HandlerType] /\ snap \in [Handlers -> RowState]
BY DEF IInv, KindsOK, RowsOK, HandlerType

(* Once all rows have ended, the outcome of the job is fixed. *)
LEMMA OutcomeFixed ==
  ASSUME RowsOK(row), RowsOK(row'), Evolves(row, row'), AllDone
  PROVE  AllDone' /\ Outcome' = Outcome
<1>1. row \in RowState /\ row' \in RowState /\ StepsPresent(row)
  BY DEF RowsOK
<1>2. \A r \in Rows : row[r].status # "absent" => Done(row, r)
  BY DEF AllDone, Present
<1>3. \A r \in Rows : row'[r].status = row[r].status
  BY <1>1, <1>2, DoneIsFrozen
<1>4. Present' = Present
  BY <1>3 DEF Present
<1>5. \A r \in Present : row'[r].status = row[r].status
  BY <1>3 DEF Present
<1>6. AllDone'
  BY <1>4, <1>5 DEF AllDone, Done
<1>7. Outcome' = Outcome
  BY <1>4, <1>5 DEF Outcome
<1>8. QED
  BY <1>6, <1>7

(* A handler goes on with its snapshot, takes one, or leaves the stage.    *)
HandlersStep ==
  \A h \in Handlers :
    /\ handler'[h].pc = "apply" =>
         (At(h, "apply") /\ snap'[h] = snap[h]) \/ snap'[h] = row
    /\ handler'[h].pc = "settle" => handler'[h] = handler[h]

(* Rows that evolve in order disturb neither the handlers ...              *)
LEMMA HandlersKept ==
  ASSUME IInv, RowsOK(row'), Evolves(row, row'), HandlersStep
  PROVE  HandlersOK'
<1>0. RowsOK(row) /\ HandlersOK /\ row \in RowState /\ StepsPresent(row) /\ row' \in RowState
  BY InvParts DEF RowsOK
<1>1. ASSUME NEW h \in Handlers, handler'[h].pc = "apply"
      PROVE  RowsOK(snap'[h]) /\ Evolves(snap'[h], row')
  <2>1. CASE snap'[h] = row
    BY <1>0, <2>1
  <2>2. CASE At(h, "apply") /\ snap'[h] = snap[h]
    <3>1. RowsOK(snap[h]) /\ Evolves(snap[h], row)
      BY <1>0, <2>2 DEF HandlersOK
    <3>2. snap[h] \in RowState /\ StepsPresent(snap[h])
      BY <3>1 DEF RowsOK
    <3>3. Evolves(snap[h], row')
      BY <1>0, <3>1, <3>2, EvolvesOn
    <3>4. QED
      BY <2>2, <3>1, <3>3
  <2>3. QED
    BY <1>1, <2>1, <2>2 DEF HandlersStep
<1>2. ASSUME NEW h \in Handlers, handler'[h].pc = "settle"
      PROVE  AllDone' /\ handler'[h].outcome = Outcome'
  <2>1. handler'[h] = handler[h]
    BY <1>2 DEF HandlersStep
  <2>2. AllDone /\ handler[h].outcome = Outcome
    BY <1>0, <1>2, <2>1 DEF HandlersOK, At
  <2>3. QED
    BY <1>0, <2>1, <2>2, OutcomeFixed
<1>3. QED
  BY <1>1, <1>2 DEF HandlersOK, At

(* ... nor what the cancel matched ...                                     *)
LEMMA MatchedKept ==
  ASSUME IInv, RowsOK(row'), Evolves(row, row'), UNCHANGED <<cancelPc, matched>>
  PROVE  MatchedOK'
<1> SUFFICES ASSUME cancelPc = "matched"
             PROVE  /\ \A r \in matched : row'[r].status # "absent"
                    /\ \A r, q \in Instances :
                         r \in matched /\ q[1] = r[1] /\ row'[q].status = "pending" => q \in matched
  BY DEF MatchedOK
<1>0. /\ matched \subseteq Rows /\ NoOrphans(row) /\ StepsPresent(row)
      /\ \A r \in matched : row[r].status # "absent"
      /\ \A r, q \in Instances :
           r \in matched /\ q[1] = r[1] /\ row[q].status = "pending" => q \in matched
  BY InvParts DEF KindsOK, MatchedOK
<1>1. \A r \in matched : row'[r].status # "absent"
  BY <1>0 DEF Evolves
<1>2. ASSUME NEW r \in Instances, NEW q \in Instances, r \in matched, q[1] = r[1],
             row'[q].status = "pending"
      PROVE  q \in matched
  <2>1. row'[q].status = "pending" /\ q \in Rows
    BY <1>2, RowSets
  <2>2. row[q].status # "absent"
    <3> SUFFICES ASSUME row[q].status = "absent" PROVE FALSE
      OBVIOUS
    <3>1. row[q[1]].status = "pending"
      BY <2>1 DEF Evolves
    <3>2. row[r].status = "absent"
      BY <1>0, <1>2, <3>1 DEF NoOrphans
    <3>3. QED
      BY <1>0, <1>2, <3>2
  <2>3. row[q].status = "pending"
    BY <2>1, <2>2 DEF Evolves
  <2>4. QED
    BY <1>0, <1>2, <2>3
<1>3. QED
  BY <1>1, <1>2

(* ... nor a job that is settled.                                          *)
LEMMA SettledKept ==
  ASSUME IInv, RowsOK(row'), Evolves(row, row'), job' = job \/ job' \notin {"completed", "failed"}
  PROVE  SettledOK'
<1>1. CASE job' \in {"completed", "failed"}
  <2>1. job' = job /\ AllDone /\ (job = "completed" => Outcome = "completed")
    BY <1>1, InvParts DEF SettledOK
  <2>2. QED
    BY <2>1, InvParts, OutcomeFixed DEF SettledOK
<1>2. CASE job' \notin {"completed", "failed"}
  BY <1>2 DEF SettledOK
<1>3. QED
  BY <1>1, <1>2

(* The common shape of most steps. *)
LEMMA StepKeeps ==
  ASSUME IInv, KindsOK', RowsOK(row'), Evolves(row, row'), HandlersStep,
         UNCHANGED <<cancelPc, matched>>, job' = job \/ job' \notin {"completed", "failed"}
  PROVE  IInv'
BY HandlersKept, MatchedKept, SettledKept DEF IInv

(* The invariant holds initially. *)
LEMMA InvInit == Init => IInv
<1> SUFFICES ASSUME Init PROVE IInv
  OBVIOUS
<1>1. \A r \in Rows : row[r] = InitialRow(r)
  BY DEF Init
<1>2. \A r \in Instances : row[r] = Cell("absent")
  BY <1>1, RowSets DEF InitialRow
<1>3. \A s \in FlowSteps :
        \/ row[s] = Cell("pending")
        \/ row[s] = Cell("ready") /\ s \notin Placeholders /\ DependsOn[s] = {}
  BY <1>1, RowSets DEF InitialRow
<1>4. \A r \in Rows : row[r] \in RowValue
  BY <1>2, <1>3, RowSets, RowValues
<1>5. row \in RowState
  BY <1>4 DEF Init, RowState
<1>6. /\ \A r \in Instances : row[r].status = "absent"
      /\ \A s \in FlowSteps : row[s].reason = "none" /\ row[s].status \in {"pending", "ready"}
  BY <1>2, <1>3, RowValues
<1>7. StepsPresent(row) /\ NoOrphans(row)
  BY <1>6 DEF StepsPresent, NoOrphans
<1>8. GateOK(row)
  <2> SUFFICES ASSUME NEW s \in FlowSteps PROVE Judged(row, s, row[s])
    BY DEF GateOK
  <2>1. CASE row[s] = Cell("pending")
    BY <1>6, <2>1, RowValues DEF Judged
  <2>2. CASE DependsOn[s] = {}
    <3>1. GateFor(row, s) = "open"
      BY <2>2 DEF GateFor, GateOf
    <3>2. QED
      BY <1>6, <3>1 DEF Judged
  <2>3. QED
    BY <1>3, <2>1, <2>2
<1>9. LoopsOK(row)
  <2>1. \A p \in Placeholders : InstancesOf(row, p) = {}
    BY <1>6 DEF InstancesOf
  <2>2. QED
    BY <1>6, <2>1 DEF LoopsOK, OrderOK, PrefixOK, SkipsHaveCause, RollupOK
<1>10. NoRows \in RowState
  BY RowValues DEF NoRows, RowState
<1>11. KindsOK
  <2>1. /\ Idle \in HandlerType
        /\ [pc |-> "snapshot", attempt |-> 1, outcome |-> "none"] \in HandlerType
    BY HandlerAssumption DEF Idle, HandlerType
  <2>2. handler \in [Handlers -> HandlerType]
    BY <2>1 DEF Init
  <2>3. QED
    BY <1>5, <1>10, <2>2 DEF Init, KindsOK, HandlerType, Live
<1>12. HandlersOK /\ MatchedOK /\ SettledOK
  BY DEF Init, HandlersOK, MatchedOK, SettledOK, At, Idle
<1>13. QED
  BY <1>5, <1>7, <1>8, <1>9, <1>11, <1>12 DEF IInv, RowsOK

(* A handler that moves to x, and at most writes its own snapshot.         *)
LEMMA HandlerMoves ==
  ASSUME handler \in [Handlers -> HandlerType], snap \in [Handlers -> RowState],
         NEW h \in Handlers, NEW x \in HandlerType,
         handler' = [handler EXCEPT ![h] = x], x.pc \notin {"apply", "settle"},
         \/ snap' = snap
         \/ snap' = [snap EXCEPT ![h] = NoRows]
  PROVE  /\ handler' \in [Handlers -> HandlerType] /\ snap' \in [Handlers -> RowState]
         /\ HandlersStep
<1>1. NoRows \in RowState
  BY RowValues DEF NoRows, RowState
<1>2. handler' \in [Handlers -> HandlerType] /\ snap' \in [Handlers -> RowState]
  BY <1>1
<1>3. handler'[h] = x
  OBVIOUS
<1>4. \A k \in Handlers \ {h} : handler'[k] = handler[k] /\ snap'[k] = snap[k]
  OBVIOUS
<1>5. QED
  BY <1>2, <1>3, <1>4 DEF HandlersStep, At

(* Goto and Return are such moves. *)
LEMMA GotoEffect ==
  ASSUME handler \in [Handlers -> HandlerType], NEW h \in Handlers,
         NEW q \in {"read", "apply", "decide"}, Goto(h, q)
  PROVE  \E x \in HandlerType : x.pc = q /\ handler' = [handler EXCEPT ![h] = x]
<1>1. [handler[h] EXCEPT !.pc = q] \in HandlerType /\ [handler[h] EXCEPT !.pc = q].pc = q
  BY DEF HandlerType
<1>2. handler' = [handler EXCEPT ![h] = [handler[h] EXCEPT !.pc = q]]
  BY DEF Goto
<1>3. QED
  BY <1>1, <1>2

(* A handler that returns is idle. *)
LEMMA IdleType == Idle \in HandlerType /\ Idle.pc = "idle"
BY HandlerAssumption DEF Idle, HandlerType

(* KindsOK follows from the types of what a step writes. *)
LEMMA TypesKept ==
  ASSUME IInv, row' \in RowState, handler' \in [Handlers -> HandlerType],
         snap' \in [Handlers -> RowState],
         job' \in Live \cup {"completed", "failed", "cancelled"},
         cancelPc' \in {"idle", "stamped", "matched", "swept", "done"}, matched' \subseteq Rows
  PROVE  KindsOK'
BY DEF KindsOK, HandlerType

(* The types of what a step leaves alone. *)
LEMMA TypesNow ==
  ASSUME IInv
  PROVE  /\ job \in Live \cup {"completed", "failed", "cancelled"}
         /\ cancelPc \in {"idle", "stamped", "matched", "swept", "done"} /\ matched \subseteq Rows
         /\ \A r \in Rows : row[r] \in RowValue
BY DEF IInv, KindsOK, RowState

(* A worker or the dispatcher takes a row. *)
LEMMA StartRowKeeps ==
  ASSUME IInv, NEW r \in Rows, StartRow(r)
  PROVE  IInv' /\ Evolves(row, row')
<1>0. /\ row' = [row EXCEPT ![r] = Cell("running")] /\ row \in RowState /\ RowsOK(row)
      /\ handler \in [Handlers -> HandlerType] /\ snap \in [Handlers -> RowState]
      /\ row[r].status = "ready" /\ r \notin Placeholders
      /\ handler' = handler /\ snap' = snap /\ cancelPc' = cancelPc /\ matched' = matched
      /\ job' = job \/ job' = "running"
  BY InvParts DEF StartRow
<1>1. Cell("running") \in RowValue /\ Cell("running").status = "running"
      /\ Cell("running").reason = "none"
  BY RowValues
<1>2. row' \in RowState /\ row'[r] = Cell("running") /\ \A k \in Rows \ {r} : row'[k] = row[k]
  BY <1>0, <1>1 DEF RowState
<1>3. RowsOK(row') /\ Evolves(row, row')
  <2>1. \A k \in Placeholders : row'[k] = row[k]
    BY <1>0, <1>2, RowSets
  <2>2. \A q \in Instances : row[q].status = "pending" => row'[q] = row[q]
    BY <1>0, <1>2, RowSets
  <2>3. \A k \in Rows :
          \/ row'[k] = row[k]
          \/ /\ row[k].status \in {"pending", "ready", "running"} /\ row'[k].reason = "none"
             /\ \/ row'[k].status \in {"failed", "cancelled"}
                \/ row'[k].status \in {"ready", "running", "completed"} /\ row[k].status \in {"ready", "running"}
    BY <1>0, <1>1, <1>2
  <2>4. QED
    BY <1>0, <1>2, <2>1, <2>2, <2>3, WriteKeeps
<1>4. KindsOK'
  BY <1>0, <1>2, TypesKept, TypesNow DEF Live
<1>5. HandlersStep
  BY <1>0 DEF HandlersStep, At
<1>6. QED
  BY <1>0, <1>3, <1>4, <1>5, StepKeeps

(* A failed row with attempts left is ready again. *)
LEMMA RetryRowKeeps ==
  ASSUME IInv, NEW r \in Rows, RetryRow(r)
  PROVE  IInv' /\ Evolves(row, row')
<1>0. /\ row' = [row EXCEPT ![r] = Cell("ready")] /\ row \in RowState /\ RowsOK(row)
      /\ handler \in [Handlers -> HandlerType] /\ snap \in [Handlers -> RowState]
      /\ row[r].status = "running" /\ r \notin Placeholders
      /\ handler' = handler /\ snap' = snap /\ cancelPc' = cancelPc /\ matched' = matched
      /\ job' = job
  BY InvParts DEF RetryRow
<1>1. Cell("ready") \in RowValue /\ Cell("ready").status = "ready" /\ Cell("ready").reason = "none"
  BY RowValues
<1>2. row' \in RowState /\ row'[r] = Cell("ready") /\ \A k \in Rows \ {r} : row'[k] = row[k]
  BY <1>0, <1>1 DEF RowState
<1>3. RowsOK(row') /\ Evolves(row, row')
  <2>1. \A k \in Placeholders : row'[k] = row[k]
    BY <1>0, <1>2, RowSets
  <2>2. \A q \in Instances : row[q].status = "pending" => row'[q] = row[q]
    BY <1>0, <1>2, RowSets
  <2>3. \A k \in Rows :
          \/ row'[k] = row[k]
          \/ /\ row[k].status \in {"pending", "ready", "running"} /\ row'[k].reason = "none"
             /\ \/ row'[k].status \in {"failed", "cancelled"}
                \/ row'[k].status \in {"ready", "running", "completed"} /\ row[k].status \in {"ready", "running"}
    BY <1>0, <1>1, <1>2
  <2>4. QED
    BY <1>0, <1>2, <2>1, <2>2, <2>3, WriteKeeps
<1>4. KindsOK'
  BY <1>0, <1>2, TypesKept, TypesNow
<1>5. HandlersStep
  BY <1>0 DEF HandlersStep, At
<1>6. QED
  BY <1>0, <1>3, <1>4, <1>5, StepKeeps

(* A row ends by its report. *)
LEMMA ReportRowKeeps ==
  ASSUME IInv, NEW h \in Handlers, NEW r \in Rows, NEW result \in Results, ReportRow(h, r, result)
  PROVE  IInv' /\ Evolves(row, row')
<1>0. /\ row' = [row EXCEPT ![r] = Cell(result)] /\ row \in RowState /\ RowsOK(row)
      /\ handler \in [Handlers -> HandlerType] /\ snap \in [Handlers -> RowState]
      /\ row[r].status = "running" /\ r \notin Placeholders /\ Goto(h, "read")
      /\ snap' = snap /\ cancelPc' = cancelPc /\ matched' = matched /\ job' = job
  BY InvParts DEF ReportRow
<1>1. result \in {"completed", "failed", "cancelled"} /\ result \in Finished
  BY ChoiceAssumption DEF Finished
<1>2. Cell(result) \in RowValue /\ Cell(result).status = result /\ Cell(result).reason = "none"
  BY <1>1, RowValues
<1>3. row' \in RowState /\ row'[r] = Cell(result) /\ \A k \in Rows \ {r} : row'[k] = row[k]
  BY <1>0, <1>2 DEF RowState
<1>4. RowsOK(row') /\ Evolves(row, row')
  <2>1. \A k \in Placeholders : row'[k] = row[k]
    BY <1>0, <1>3, RowSets
  <2>2. \A q \in Instances : row[q].status = "pending" => row'[q] = row[q]
    BY <1>0, <1>3, RowSets
  <2>3. \A k \in Rows :
          \/ row'[k] = row[k]
          \/ /\ row[k].status \in {"pending", "ready", "running"} /\ row'[k].reason = "none"
             /\ \/ row'[k].status \in {"failed", "cancelled"}
                \/ row'[k].status \in {"ready", "running", "completed"} /\ row[k].status \in {"ready", "running"}
    BY <1>0, <1>1, <1>2, <1>3
  <2>4. QED
    BY <1>0, <1>3, <2>1, <2>2, <2>3, WriteKeeps
<1>5. PICK x \in HandlerType : x.pc = "read" /\ handler' = [handler EXCEPT ![h] = x]
  BY <1>0, GotoEffect
<1>6. handler' \in [Handlers -> HandlerType] /\ snap' \in [Handlers -> RowState] /\ HandlersStep
  BY <1>0, <1>5, HandlerMoves
<1>7. KindsOK'
  BY <1>0, <1>3, <1>6, TypesKept, TypesNow
<1>8. QED
  BY <1>0, <1>4, <1>6, <1>7, StepKeeps

(* A handler reads the job. *)
LEMMA ReadJobKeeps ==
  ASSUME IInv, NEW h \in Handlers, ReadJob(h)
  PROVE  IInv' /\ Evolves(row, row')
<1>0. /\ row \in RowState /\ RowsOK(row)
      /\ handler \in [Handlers -> HandlerType] /\ snap \in [Handlers -> RowState]
      /\ row' = row /\ snap' = snap /\ cancelPc' = cancelPc /\ matched' = matched /\ job' = job
  BY InvParts DEF ReadJob
<1> DEFINE x == IF job \in Live THEN [pc |-> "snapshot", attempt |-> 1, outcome |-> "none"] ELSE Idle
<1>1. x \in HandlerType /\ x.pc \notin {"apply", "settle"}
  BY IdleType, HandlerAssumption DEF HandlerType
<1>2. handler' = [handler EXCEPT ![h] = x]
  BY DEF ReadJob
<1> HIDE DEF x
<1>3. handler' \in [Handlers -> HandlerType] /\ snap' \in [Handlers -> RowState] /\ HandlersStep
  BY <1>0, <1>1, <1>2, HandlerMoves
<1>4. KindsOK'
  BY <1>0, <1>3, TypesKept, TypesNow
<1>5. QED
  BY <1>0, <1>3, <1>4, EvolvesSame, StepKeeps

(* A handler takes its snapshot. *)
LEMMA TakeSnapshotKeeps ==
  ASSUME IInv, NEW h \in Handlers, TakeSnapshot(h)
  PROVE  IInv' /\ Evolves(row, row')
<1>0. /\ row \in RowState /\ RowsOK(row)
      /\ handler \in [Handlers -> HandlerType] /\ snap \in [Handlers -> RowState]
      /\ row' = row /\ snap' = [snap EXCEPT ![h] = row] /\ Goto(h, "apply")
      /\ cancelPc' = cancelPc /\ matched' = matched /\ job' = job
  BY InvParts DEF TakeSnapshot
<1>1. PICK x \in HandlerType : x.pc = "apply" /\ handler' = [handler EXCEPT ![h] = x]
  BY <1>0, GotoEffect
<1>2. /\ handler' \in [Handlers -> HandlerType] /\ snap' \in [Handlers -> RowState]
      /\ handler'[h] = x /\ snap'[h] = row
      /\ \A k \in Handlers \ {h} : handler'[k] = handler[k] /\ snap'[k] = snap[k]
  BY <1>0, <1>1
<1>3. HandlersStep
  BY <1>1, <1>2 DEF HandlersStep, At
<1>4. KindsOK'
  BY <1>0, <1>2, TypesKept, TypesNow
<1>5. QED
  BY <1>0, <1>3, <1>4, EvolvesSame, StepKeeps

(* A handler applies its plan. *)
LEMMA ApplyPlanKeeps ==
  ASSUME IInv, NEW h \in Handlers, ApplyPlan(h)
  PROVE  IInv' /\ Evolves(row, row')
<1>0. /\ row \in RowState /\ RowsOK(row)
      /\ handler \in [Handlers -> HandlerType] /\ snap \in [Handlers -> RowState]
      /\ snap' = [snap EXCEPT ![h] = NoRows] /\ Goto(h, "decide")
      /\ cancelPc' = cancelPc /\ matched' = matched
      /\ RowsOK(snap[h]) /\ Evolves(snap[h], row) /\ snap[h] \in RowState
  BY InvParts DEF ApplyPlan, HandlersOK
<1>1. PICK when \in Conditions, items \in ItemChoices :
        LET g == Run(snap[h], when, items) IN
        /\ GuardsHold(snap[h], g)
        /\ row' = [r \in Rows |-> IF r \in Changes(snap[h], g) THEN g[r] ELSE row[r]]
        /\ job' = IF StartsLoop(snap[h], g) /\ job = "pending" THEN "running" ELSE job
  BY DEF ApplyPlan
<1> DEFINE g == Run(snap[h], when, items)
<1>2. items \in [Placeholders -> Nat]
  BY ChoiceTypes
<1>3. g \in RowState /\ RowsOK(g) /\ Evolves(snap[h], g)
  BY <1>0, <1>2, RunKeeps
<1> HIDE DEF g
<1>4. /\ GuardsHold(snap[h], g) /\ row' = Merged(snap[h], g, row)
      /\ job' = job \/ job' = "running"
  BY <1>1 DEF Merged, g
<1>5. RowsOK(row') /\ Evolves(row, row')
  BY <1>0, <1>3, <1>4, MergeKeeps DEF GuardsHold
<1>6. PICK x \in HandlerType : x.pc = "decide" /\ handler' = [handler EXCEPT ![h] = x]
  BY <1>0, GotoEffect
<1>7. handler' \in [Handlers -> HandlerType] /\ snap' \in [Handlers -> RowState] /\ HandlersStep
  BY <1>0, <1>6, HandlerMoves
<1>8. KindsOK'
  BY <1>0, <1>4, <1>5, <1>7, TypesKept, TypesNow DEF RowsOK, Live
<1>9. QED
  BY <1>0, <1>4, <1>5, <1>7, <1>8, StepKeeps

(* A guard misses. *)
LEMMA GuardMissKeeps ==
  ASSUME IInv, NEW h \in Handlers, GuardMiss(h)
  PROVE  IInv' /\ Evolves(row, row')
<1>0. /\ row \in RowState /\ RowsOK(row)
      /\ handler \in [Handlers -> HandlerType] /\ snap \in [Handlers -> RowState]
      /\ snap' = [snap EXCEPT ![h] = NoRows] /\ row' = row /\ job' = job
      /\ cancelPc' = cancelPc /\ matched' = matched
      /\ handler[h].attempt < MaxAttempts
  BY InvParts DEF GuardMiss
<1> DEFINE x == [handler[h] EXCEPT !.pc = "snapshot", !.attempt = handler[h].attempt + 1]
<1>1. handler[h].attempt \in 0 .. MaxAttempts /\ handler[h].attempt + 1 \in 0 .. MaxAttempts
  BY <1>0, HandlerAssumption DEF HandlerType
<1>2. x \in HandlerType /\ x.pc = "snapshot"
  BY <1>0, <1>1 DEF HandlerType
<1>3. handler' = [handler EXCEPT ![h] = x]
  BY <1>0 DEF GuardMiss, HandlerType
<1> HIDE DEF x
<1>4. handler' \in [Handlers -> HandlerType] /\ snap' \in [Handlers -> RowState] /\ HandlersStep
  BY <1>0, <1>2, <1>3, HandlerMoves
<1>5. KindsOK'
  BY <1>0, <1>4, TypesKept, TypesNow
<1>6. QED
  BY <1>0, <1>4, <1>5, EvolvesSame, StepKeeps

(* The last attempt misses, and at creation everything is failed. *)
LEMMA ExhaustedKeeps ==
  ASSUME IInv, NEW h \in Handlers, Exhausted(h)
  PROVE  IInv' /\ Evolves(row, row')
<1>0. /\ row \in RowState /\ RowsOK(row)
      /\ handler \in [Handlers -> HandlerType] /\ snap \in [Handlers -> RowState]
      /\ snap' = [snap EXCEPT ![h] = NoRows] /\ handler' = [handler EXCEPT ![h] = Idle]
      /\ cancelPc' = cancelPc /\ matched' = matched
  BY InvParts DEF Exhausted, Return
<1>1. handler' \in [Handlers -> HandlerType] /\ snap' \in [Handlers -> RowState] /\ HandlersStep
  BY <1>0, IdleType, HandlerMoves
<1>2. CASE h # Creator
  <2>1. row' = row /\ job' = job
    BY <1>2 DEF Exhausted
  <2>2. KindsOK'
    BY <1>0, <1>1, <2>1, TypesKept, TypesNow
  <2>3. QED
    BY <1>0, <1>1, <2>1, <2>2, EvolvesSame, StepKeeps
<1>3. CASE h = Creator
  <2>1. /\ job' = "failed"
        /\ row' = [r \in Rows |-> IF r \in Present /\ ~Done(row, r) THEN Cell("failed") ELSE row[r]]
    BY <1>3 DEF Exhausted
  <2>2. Cell("failed") \in RowValue /\ Cell("failed").status = "failed" /\ Cell("failed").reason = "none"
    BY RowValues DEF Finished
  <2>3. row' \in RowState
    BY <1>0, <2>1, <2>2, TypesNow DEF RowState
  <2>4. ASSUME NEW r \in Rows
        PROVE  \/ row'[r] = row[r] /\ (row[r].status = "absent" \/ Done(row, r))
               \/ row'[r] = Cell("failed") /\ row[r].status \in {"pending", "ready", "running"}
    <3>1. row[r].status \in Finished \cup {"absent", "pending", "ready", "running"}
      BY TypesNow DEF RowValue
    <3>2. QED
      BY <2>1, <3>1 DEF Present, Done
  <2>5. \A r \in Rows : row'[r].status # "absent" => row'[r].status \in Finished
    BY <2>2, <2>4 DEF Done, Finished
  <2>6. RowsOK(row') /\ Evolves(row, row')
    <3>1. \A r \in Rows :
            \/ row'[r] = row[r]
            \/ /\ row[r].status \in {"pending", "ready", "running"} /\ row'[r].reason = "none"
               /\ \/ row'[r].status \in {"failed", "cancelled"}
                  \/ row'[r].status \in {"ready", "running", "completed"} /\ row[r].status \in {"ready", "running"}
      BY <2>2, <2>4
    <3>2. \A p \in Placeholders :
            \/ row'[p] = row[p] \/ row'[p].status = "cancelled"
            \/ row'[p].status = "failed" /\ \A r \in Instances : row'[r].status # "absent" => Done(row', r)
      BY <2>2, <2>4, <2>5, RowSets DEF Done
    <3>3. \A t \in Instances : row'[t].status # "pending"
      BY <2>5, RowSets DEF Finished
    <3>4. QED
      BY <1>0, <2>3, <3>1, <3>2, <3>3, WriteKeeps
  <2>7. SettledOK'
    BY <2>1, <2>5 DEF SettledOK, AllDone, Present, Done
  <2>8. KindsOK'
    BY <1>0, <1>1, <2>1, <2>3, TypesKept, TypesNow
  <2>9. QED
    BY <1>0, <1>1, <2>6, <2>7, <2>8, HandlersKept, MatchedKept DEF IInv
<1>4. QED
  BY <1>2, <1>3

(* A handler decides from the rows. *)
LEMMA DecideKeeps ==
  ASSUME IInv, NEW h \in Handlers, Decide(h)
  PROVE  IInv' /\ Evolves(row, row')
<1>0. /\ row \in RowState /\ RowsOK(row) /\ HandlersOK
      /\ handler \in [Handlers -> HandlerType] /\ snap \in [Handlers -> RowState]
      /\ snap' = snap /\ row' = row /\ job' = job /\ cancelPc' = cancelPc /\ matched' = matched
  BY InvParts DEF Decide
<1>1. CASE ~AllDone
  <2>1. handler' = [handler EXCEPT ![h] = Idle]
    BY <1>1 DEF Decide, Return
  <2>2. handler' \in [Handlers -> HandlerType] /\ snap' \in [Handlers -> RowState] /\ HandlersStep
    BY <1>0, <2>1, IdleType, HandlerMoves
  <2>3. KindsOK'
    BY <1>0, <2>2, TypesKept, TypesNow
  <2>4. QED
    BY <1>0, <2>2, <2>3, EvolvesSame, StepKeeps
<1>2. CASE AllDone
  <2>1. handler' = [handler EXCEPT ![h].pc = "settle", ![h].outcome = Outcome]
    BY <1>2 DEF Decide
  <2>2. Outcome \in {"none", "completed", "failed", "cancelled"}
    BY DEF Outcome
  <2>3. /\ handler' \in [Handlers -> HandlerType]
        /\ handler'[h].pc = "settle" /\ handler'[h].outcome = Outcome
        /\ \A k \in Handlers \ {h} : handler'[k] = handler[k]
    BY <1>0, <2>1, <2>2 DEF HandlerType
  <2>4. AllDone' /\ Outcome' = Outcome
    BY <1>0, <1>2 DEF AllDone, Present, Outcome
  <2>5. HandlersOK'
    BY <1>0, <2>3, <2>4 DEF HandlersOK, At
  <2>6. MatchedOK' /\ SettledOK'
    BY <1>0, EvolvesSame, MatchedKept, SettledKept
  <2>7. KindsOK'
    BY <1>0, <2>3, TypesKept, TypesNow
  <2>8. QED
    BY <1>0, <2>5, <2>6, <2>7, EvolvesSame DEF IInv
<1>3. QED
  BY <1>1, <1>2

(* A handler settles a job that is still live. *)
LEMMA SettleJobKeeps ==
  ASSUME IInv, NEW h \in Handlers, SettleJob(h)
  PROVE  IInv' /\ Evolves(row, row')
<1>0. /\ row \in RowState /\ RowsOK(row) /\ HandlersOK /\ SettledOK
      /\ handler \in [Handlers -> HandlerType] /\ snap \in [Handlers -> RowState]
      /\ snap' = snap /\ row' = row /\ cancelPc' = cancelPc /\ matched' = matched
      /\ handler' = [handler EXCEPT ![h] = Idle]
      /\ job' = IF job \in Live THEN handler[h].outcome ELSE job
      /\ AllDone /\ handler[h].outcome = Outcome
  BY InvParts DEF SettleJob, Return, HandlersOK
<1>1. handler' \in [Handlers -> HandlerType] /\ snap' \in [Handlers -> RowState] /\ HandlersStep
  BY <1>0, IdleType, HandlerMoves
<1>2. AllDone' /\ Outcome' = Outcome
  BY <1>0 DEF AllDone, Present, Outcome
<1>3. Outcome \in {"completed", "failed", "cancelled"}
  BY DEF Outcome
<1>4. KindsOK'
  BY <1>0, <1>1, <1>3, TypesKept, TypesNow
<1>5. SettledOK'
  BY <1>0, <1>2, <1>3 DEF SettledOK
<1>6. QED
  BY <1>0, <1>1, <1>4, <1>5, EvolvesSame, HandlersKept, MatchedKept DEF IInv

(* The steps of the cancel. *)
LEMMA CancelKeeps ==
  ASSUME IInv, CancelStep
  PROVE  IInv' /\ Evolves(row, row')
<1>0. /\ row \in RowState /\ RowsOK(row)
      /\ handler \in [Handlers -> HandlerType] /\ snap \in [Handlers -> RowState]
      /\ handler' = handler /\ snap' = snap /\ (job' = job \/ job' = "cancelled")
  BY InvParts DEF CancelStep, CancelJob, CancelMatches, CancelPendingSteps, CancelServerManaged
<1>1. HandlersStep
  BY <1>0 DEF HandlersStep, At
<1>2. Cell("cancelled") \in RowValue /\ Cell("cancelled").status = "cancelled"
      /\ Cell("cancelled").reason = "none"
  BY RowValues DEF Finished
<1>3. ASSUME row' \in RowState, RowsOK(row'), Evolves(row, row'), MatchedOK',
             cancelPc' \in {"idle", "stamped", "matched", "swept", "done"}, matched' \subseteq Rows
      PROVE  IInv'
  <2>1. KindsOK'
    BY <1>0, <1>3, TypesKept, TypesNow
  <2>2. QED
    BY <1>0, <1>1, <1>3, <2>1, HandlersKept, SettledKept DEF IInv
<1>4. CASE CancelJob
  <2>1. row' = row /\ cancelPc' = "stamped" /\ matched' = matched
    BY <1>4 DEF CancelJob
  <2>2. QED
    BY <1>0, <1>3, <2>1, EvolvesSame, TypesNow DEF MatchedOK
<1>5. CASE CancelMatches
  <2>1. row' = row /\ cancelPc' = "matched" /\ matched' = {r \in Rows : Unclaimed(r)}
    BY <1>5 DEF CancelMatches
  <2>2. MatchedOK'
    BY <2>1, RowSets DEF MatchedOK, Unclaimed
  <2>3. QED
    BY <1>0, <1>3, <2>1, <2>2, EvolvesSame
<1>6. CASE CancelPendingSteps
  <2>1. /\ row' = [r \in Rows |-> IF r \in matched /\ Unclaimed(r) THEN Cell("cancelled") ELSE row[r]]
        /\ matched' = matched /\ cancelPc' = "swept" /\ cancelPc = "matched"
    BY <1>6 DEF CancelPendingSteps
  <2>2. row' \in RowState
    BY <1>2, <2>1, TypesNow DEF RowState
  <2>3. \A r \in Rows :
          \/ row'[r] = row[r]
          \/ row[r].status \in {"pending", "ready"} /\ row'[r] = Cell("cancelled") /\ r \in matched
    BY <2>1 DEF Unclaimed
  <2>4. \A q, t \in Instances :
          q[1] = t[1] /\ row'[t].status = "pending" /\ row[q].status = "pending" => row'[q] = row[q]
    <3> SUFFICES ASSUME NEW q \in Instances, NEW t \in Instances, q[1] = t[1],
                        row'[t].status = "pending", row'[q] # row[q]
                 PROVE  FALSE
      OBVIOUS
    <3>1. q \in Rows /\ t \in Rows
      BY RowSets
    <3>2. q \in matched
      BY <2>3, <3>1
    <3>3. row'[t] = row[t] /\ row[t].status = "pending"
      BY <1>2, <2>3, <3>1
    <3>4. t \in matched
      BY <2>1, <3>2, <3>3, InvParts DEF MatchedOK
    <3>5. QED
      BY <1>2, <2>1, <3>1, <3>3, <3>4 DEF Unclaimed
  <2>5. \A r \in Rows :
          \/ row'[r] = row[r]
          \/ /\ row[r].status \in {"pending", "ready", "running"} /\ row'[r].reason = "none"
             /\ \/ row'[r].status \in {"failed", "cancelled"}
                \/ row'[r].status \in {"ready", "running", "completed"} /\ row[r].status \in {"ready", "running"}
    BY <1>2, <2>3
  <2>6. \A p \in Placeholders : row'[p] = row[p] \/ row'[p].status = "cancelled"
    BY <1>2, <2>3, RowSets
  <2>7. RowsOK(row') /\ Evolves(row, row')
    BY <1>0, <2>2, <2>4, <2>5, <2>6, WriteKeeps
  <2>8. QED
    BY <1>3, <2>1, <2>2, <2>7, TypesNow DEF MatchedOK
<1>7. CASE CancelServerManaged
  <2>1. /\ row' = [r \in Rows |-> IF r \in Placeholders /\ row[r].status = "running"
                                  THEN Cell("cancelled") ELSE row[r]]
        /\ matched' = matched /\ cancelPc' = "done"
    BY <1>7 DEF CancelServerManaged
  <2>2. row' \in RowState
    BY <1>2, <2>1, TypesNow DEF RowState
  <2>3. \A r \in Rows :
          \/ row'[r] = row[r]
          \/ row[r].status = "running" /\ row'[r] = Cell("cancelled") /\ r \in Placeholders
    BY <2>1
  <2>4. \A r \in Rows :
          \/ row'[r] = row[r]
          \/ /\ row[r].status \in {"pending", "ready", "running"} /\ row'[r].reason = "none"
             /\ \/ row'[r].status \in {"failed", "cancelled"}
                \/ row'[r].status \in {"ready", "running", "completed"} /\ row[r].status \in {"ready", "running"}
    BY <1>2, <2>3
  <2>5. /\ \A p \in Placeholders : row'[p] = row[p] \/ row'[p].status = "cancelled"
        /\ \A q \in Instances : row'[q] = row[q]
    BY <1>2, <2>3, RowSets
  <2>6. RowsOK(row') /\ Evolves(row, row')
    BY <1>0, <2>2, <2>4, <2>5, WriteKeeps
  <2>7. QED
    BY <1>3, <2>1, <2>2, <2>6, TypesNow DEF MatchedOK
<1>8. QED
  BY <1>4, <1>5, <1>6, <1>7 DEF CancelStep

(* Every step keeps the invariant, unless it is a late report. *)
LEMMA NextKeeps == IInv /\ [Next]_vars => IInv' \/ LateStep
<1> SUFFICES ASSUME IInv, [Next]_vars PROVE IInv' \/ LateStep
  OBVIOUS
<1>1. ASSUME NEW r \in Rows, StartRow(r) PROVE IInv'
  BY <1>1, StartRowKeeps
<1>2. ASSUME NEW h \in Handlers, NEW r \in Rows, NEW result \in Results, ReportRow(h, r, result)
      PROVE  IInv'
  BY <1>2, ReportRowKeeps
<1>3. ASSUME NEW r \in Rows, RetryRow(r) PROVE IInv'
  BY <1>3, RetryRowKeeps
<1>4. ASSUME NEW h \in Handlers, HandlerStep(h) PROVE IInv'
  BY <1>4, ReadJobKeeps, TakeSnapshotKeeps, ApplyPlanKeeps, GuardMissKeeps, ExhaustedKeeps,
     DecideKeeps, SettleJobKeeps DEF HandlerStep
<1>5. CASE CancelStep
  BY <1>5, CancelKeeps
<1>6. CASE UNCHANGED vars
  <2>1. /\ row \in RowState /\ RowsOK(row)
        /\ handler \in [Handlers -> HandlerType] /\ snap \in [Handlers -> RowState]
        /\ UNCHANGED <<job, row, handler, snap, cancelPc, matched>>
    BY <1>6, InvParts DEF vars
  <2>2. KindsOK' /\ HandlersStep
    BY <2>1, TypesKept, TypesNow DEF HandlersStep, At
  <2>3. QED
    BY <2>1, <2>2, EvolvesSame, StepKeeps
<1>7. QED
  BY <1>1, <1>2, <1>3, <1>4, <1>5, <1>6 DEF Next, Progress

-----------------------------------------------------------------------------
(***************************************************************************)
(* What run leaves to do                                                   *)
(***************************************************************************)

(* A plan changes the status of what it changes: rows that wait, and loops *)
(* that run.                                                               *)
Planned(f, g) ==
  \A r \in Rows :
    \/ g[r] = f[r]
    \/ /\ g[r].status # f[r].status
       /\ \/ f[r].status \in {"absent", "pending"}
          \/ r \in Placeholders /\ f[r].status = "running" /\ g[r].status # "ready"

(* The statuses of rows. *)
LEMMA StatusType ==
  ASSUME NEW f \in RowState, NEW r \in Rows
  PROVE  /\ f[r] \in RowValue
         /\ f[r].status \in {"absent", "pending", "ready", "running"} \/ f[r].status \in Finished
BY DEF RowState, RowValue

(* Planned rows that evolve back have the same statuses. *)
LEMMA EvolvesBack ==
  ASSUME NEW f \in RowState, NEW g \in RowState, Planned(f, g), Evolves(f, g), Evolves(g, f),
         NEW r \in Rows
  PROVE  g[r].status = f[r].status
BY StatusType DEF Planned, Evolves, Keeps, Done

(* Plans can be followed. *)
LEMMA PlannedOn ==
  ASSUME NEW f \in RowState, NEW g \in RowState, NEW h \in RowState,
         Planned(f, g), Planned(g, h), Evolves(f, g), Evolves(g, h)
  PROVE  Planned(f, h)
<1> SUFFICES ASSUME NEW r \in Rows, h[r] # f[r]
             PROVE  /\ h[r].status # f[r].status
                    /\ \/ f[r].status \in {"absent", "pending"}
                       \/ r \in Placeholders /\ f[r].status = "running" /\ h[r].status # "ready"
  BY DEF Planned
<1>1. CASE g[r] = f[r]
  BY <1>1 DEF Planned
<1>2. CASE h[r] = g[r]
  BY <1>2 DEF Planned
<1>3. CASE g[r] # f[r] /\ h[r] # g[r]
  <2>1. /\ g[r].status # f[r].status
        /\ \/ f[r].status \in {"absent", "pending"}
           \/ f[r].status = "running" /\ g[r].status # "ready"
    BY <1>3 DEF Planned
  <2>2. g[r].status \notin Finished
    BY <1>3 DEF Evolves, Keeps, Done
  <2>3. f[r].status \in {"absent", "pending"}
    BY <2>1, <2>2, StatusType DEF Evolves
  <2>4. h[r].status # f[r].status
    BY <2>1, <2>3 DEF Evolves
  <2>5. QED
    BY <2>3, <2>4
<1>4. QED
  BY <1>1, <1>2, <1>3

(* phase_rollup changes what can be rolled up or can follow. *)
LEMMA RollupPlanned ==
  ASSUME NEW f \in RowState
  PROVE  /\ Planned(f, PhaseRollup(f))
         /\ \A r \in Rows : PhaseRollup(f)[r] # f[r] <=> CanRollup(f, r) \/ CanFollow(f, r)
<1> DEFINE g == PhaseRollup(f)
<1>1. ASSUME NEW r \in Rows
      PROVE  /\ g[r] # f[r] <=> CanRollup(f, r) \/ CanFollow(f, r)
             /\ g[r] # f[r] =>
                  /\ g[r].status # f[r].status
                  /\ \/ f[r].status = "pending"
                     \/ r \in Placeholders /\ f[r].status = "running" /\ g[r].status # "ready"
  <2>1. CASE r \in Instances
    <3>0. r \notin Placeholders /\ g[r] = RollupInstance(f, r)
      BY <2>1, RowSets DEF PhaseRollup
    <3>1. /\ Skip("unreachable").status = "skipped"
          /\ Cell("ready").status = "ready"
      BY RowValues
    <3>2. CASE ~LoopOpen(f, r[1]) \/ f[r].status # "pending"
      BY <3>0, <3>2 DEF RollupInstance, CanRollup, CanFollow
    <3>3. CASE LoopOpen(f, r[1]) /\ f[r].status = "pending" /\ SkipsRest(f, r[1])
      <4>1. g[r] = Skip("unreachable")
        BY <3>0, <3>3 DEF RollupInstance
      <4>2. CanFollow(f, r)
        BY <2>1, <3>3 DEF CanFollow
      <4> HIDE DEF g
      <4>3. QED
        BY <3>1, <3>3, <4>1, <4>2
    <3>4. CASE LoopOpen(f, r[1]) /\ f[r].status = "pending" /\ ~SkipsRest(f, r[1])
      <4>1. g[r] = IF r[1] \in Sequential /\ r[2] > 0 /\ Done(f, <<r[1], r[2] - 1>>)
                   THEN Cell("ready") ELSE f[r]
        BY <3>0, <3>4 DEF RollupInstance
      <4>2. CanFollow(f, r) <=> r[1] \in Sequential /\ r[2] > 0 /\ Done(f, <<r[1], r[2] - 1>>)
        BY <2>1, <3>4 DEF CanFollow
      <4>3. ~CanRollup(f, r)
        BY <3>0 DEF CanRollup
      <4> HIDE DEF g
      <4>4. QED
        BY <3>1, <3>4, <4>1, <4>2, <4>3
    <3>5. QED
      BY <3>2, <3>3, <3>4
  <2>2. CASE r \in Placeholders
    <3>0. r \notin Instances /\ g[r] = RollupPlaceholder(f, r)
      BY <2>2, RowSets DEF PhaseRollup
    <3>1. Cell("failed").status = "failed" /\ Cell("completed").status = "completed"
      BY RowValues DEF Finished
    <3>2. ~CanFollow(f, r)
      BY <3>0 DEF CanFollow
    <3>3. CASE CanRollup(f, r)
      <4>1. g[r] \in {Cell("failed"), Cell("completed")} /\ f[r].status = "running"
        BY <3>0, <3>3 DEF CanRollup, RollupPlaceholder, LoopOpen
      <4> HIDE DEF g
      <4>2. QED
        BY <2>2, <3>1, <3>3, <4>1
    <3>4. CASE ~CanRollup(f, r)
      <4>1. g[r] = f[r]
        BY <2>2, <3>0, <3>4 DEF CanRollup, RollupPlaceholder
      <4> HIDE DEF g
      <4>2. QED
        BY <3>2, <3>4, <4>1
    <3>5. QED
      BY <3>3, <3>4
  <2>3. CASE r \in FlowSteps \ Placeholders
    <3>1. r \notin Instances
      BY <2>3, RowSets
    <3>2. g[r] = f[r]
      BY <2>3, <3>1 DEF PhaseRollup
    <3> HIDE DEF g
    <3>3. QED
      BY <2>3, <3>1, <3>2 DEF CanRollup, CanFollow
  <2>4. QED
    BY <2>1, <2>2, <2>3, RowSets
<1> HIDE DEF g
<1>2. QED
  BY <1>1 DEF Planned, g

(* A step that can be decided is decided one way or another. *)
LEMMA DecidedMoves ==
  ASSUME NEW f \in RowState, NEW s \in FlowSteps, f[s].status = "pending", NEW when,
         NEW go \in {Cell("ready"), Cell("running"), Cell("failed"), Skip("empty")}
  PROVE  LET x == Decided(f, s, when, go) IN
         /\ CanDecide(f, s) => x.status # "pending"
         /\ ~CanDecide(f, s) => x = f[s]
         /\ x # f[s] => x.status # "pending"
<1> DEFINE x == Decided(f, s, when, go)
<1>1. GateFor(f, s) \in {"wait", "open", "omitted"}
  BY DEF GateFor, GateOf
<1>2. CanDecide(f, s) <=> GateFor(f, s) # "wait"
  BY DEF CanDecide
<1>3. GateFor(f, s) = "wait" => x = f[s]
  BY DEF Decided
<1>4. GateFor(f, s) # "wait" => x \in {Skip("unreachable"), Skip("condition"), Cell("failed"), go}
  BY <1>1 DEF Decided
<1> HIDE DEF x
<1>5. QED
  BY <1>2, <1>3, <1>4, RowValues DEF Finished, x

(* A relay changes the plain steps that can be decided. *)
LEMMA RelayPlanned ==
  ASSUME NEW f \in RowState, NEW when
  PROVE  /\ Planned(f, Relay(f, when))
         /\ \A r \in Rows :
              Relay(f, when)[r] # f[r] <=> r \in FlowSteps \ Placeholders /\ CanDecide(f, r)
<1> DEFINE g == Relay(f, when)
<1>1. ASSUME NEW r \in Rows
      PROVE  /\ g[r] # f[r] <=> r \in FlowSteps \ Placeholders /\ CanDecide(f, r)
             /\ g[r] # f[r] => g[r].status # f[r].status /\ f[r].status = "pending"
  <2>1. CASE r \in FlowSteps \ Placeholders /\ f[r].status = "pending"
    <3>1. g[r] = Decided(f, r, when, Cell("ready"))
      BY <2>1 DEF Relay
    <3> HIDE DEF g
    <3>2. QED
      BY <2>1, <3>1, DecidedMoves
  <2>2. CASE ~(r \in FlowSteps \ Placeholders /\ f[r].status = "pending")
    <3>1. g[r] = f[r]
      BY <2>2 DEF Relay
    <3>2. QED
      BY <2>2, <3>1 DEF CanDecide
  <2>3. QED
    BY <2>1, <2>2
<1> HIDE DEF g
<1>2. QED
  BY <1>1 DEF Planned, g

(* Any number of relays moves plain steps forward only. *)
LEMMA RelaysKeep ==
  ASSUME NEW f \in RowState, RowsOK(f), NEW when, NEW n \in Nat
  PROVE  LET g == UntilStable([h \in RowState |-> Relay(h, when)], n, f) IN
         /\ g \in RowState /\ RowsOK(g) /\ Evolves(f, g) /\ Planned(f, g)
         /\ \A r \in Placeholders \cup Instances : g[r] = f[r]
<1> DEFINE C == [h \in RowState |-> Relay(h, when)]
           X == {g \in RowState : /\ RowsOK(g) /\ Evolves(f, g) /\ Planned(f, g)
                                  /\ \A r \in Placeholders \cup Instances : g[r] = f[r]}
<1>1. C \in [RowState -> RowState]
  BY RelayType
<1>2. f \in X
  BY EvolvesSame DEF Planned
<1>3. \A g \in X : C[g] \in X
  <2> TAKE g \in X
  <2>1. /\ RowsOK(g) /\ Evolves(f, g) /\ g \in RowState /\ Planned(f, g)
        /\ \A r \in Placeholders \cup Instances : g[r] = f[r]
    OBVIOUS
  <2> DEFINE k == Relay(g, when)
  <2>2. /\ RowsOK(k) /\ Evolves(g, k) /\ Planned(g, k)
        /\ \A r \in Rows : k[r] # g[r] <=> r \in FlowSteps \ Placeholders /\ CanDecide(g, r)
    BY <2>1, RelayKeeps, RelayPlanned
  <2> HIDE DEF k
  <2>3. k \in RowState
    BY <2>2 DEF RowsOK
  <2>4. Evolves(f, k) /\ Planned(f, k)
    BY <2>1, <2>2, <2>3, EvolvesOn, PlannedOn DEF RowsOK
  <2>5. \A r \in Placeholders \cup Instances : k[r] = f[r]
    BY <2>1, <2>2, RowSets
  <2>6. k \in X
    BY <2>2, <2>3, <2>4, <2>5
  <2>7. QED
    BY <2>1, <2>6 DEF k
<1>4. UntilStable(C, n, f) \in X
  <2> HIDE DEF C, X
  <2>1. X \in SUBSET RowState
    BY DEF X
  <2>2. QED
    BY <1>1, <1>2, <1>3, <2>1, StaysWithin
<1>5. QED
  BY <1>4

(* phase_promote moves plain steps forward only; when it changes nothing,  *)
(* none of them can be decided, and the other way round.                   *)
LEMMA PromotePlanned ==
  ASSUME NEW f \in RowState, RowsOK(f), NEW when
  PROVE  LET g == PhasePromote(f, when) IN
         /\ g \in RowState /\ RowsOK(g) /\ Evolves(f, g) /\ Planned(f, g)
         /\ \A r \in Placeholders \cup Instances : g[r] = f[r]
         /\ g = f <=> \A s \in FlowSteps \ Placeholders : ~CanDecide(f, s)
<1> DEFINE C == [h \in RowState |-> Relay(h, when)]
           n == Cardinality(FlowSteps)
           g == UntilStable(C, n, f)
<1>1. n \in Nat /\ (FlowSteps # {} => n # 0)
  BY FlowAssumption, FS_CardinalityType, FS_EmptySet
<1>2. C \in [RowState -> RowState]
  BY RelayType
<1>3. C[f] = Relay(f, when)
  OBVIOUS
<1>4. g = PhasePromote(f, when)
  BY DEF PhasePromote
<1>5. /\ g \in RowState /\ RowsOK(g) /\ Evolves(f, g) /\ Planned(f, g)
      /\ \A r \in Placeholders \cup Instances : g[r] = f[r]
  <2> HIDE DEF n
  <2>1. QED
    BY <1>1, RelaysKeep
<1>6. \A r \in Rows : Relay(f, when)[r] # f[r] <=> r \in FlowSteps \ Placeholders /\ CanDecide(f, r)
  BY RelayPlanned
<1>7. Relay(f, when) \in RowState /\ RowsOK(Relay(f, when))
  BY RelayType, RelayKeeps
<1>8. CASE \A s \in FlowSteps \ Placeholders : ~CanDecide(f, s)
  <2>1. \A r \in Rows : Relay(f, when)[r] = f[r]
    BY <1>6, <1>8
  <2>2. Relay(f, when) = f
    BY <1>7, <2>1 DEF RowState
  <2>3. g = f
    <3> HIDE DEF C, n
    <3>1. QED
      BY <1>1, <1>2, <1>3, <2>2, UntilStableDef
  <2>4. QED
    BY <1>4, <1>5, <1>8, <2>3
<1>9. CASE \E s \in FlowSteps \ Placeholders : CanDecide(f, s)
  <2>1. PICK s \in FlowSteps \ Placeholders : CanDecide(f, s)
    BY <1>9
  <2> DEFINE k == Relay(f, when)
  <2>2. s \in Rows /\ k[s] # f[s] /\ n - 1 \in Nat /\ n # 0
    BY <1>1, <1>6, <2>1, RowSets
  <2>3. g = UntilStable(C, n - 1, k)
    <3> HIDE DEF C, n
    <3>1. QED
      BY <1>1, <1>2, <1>3, <2>2, UntilStableDef
  <2>4. k \in RowState /\ RowsOK(k) /\ Evolves(f, k) /\ Planned(f, k)
    BY <1>7, RelayKeeps, RelayPlanned
  <2> HIDE DEF k
  <2>5. Evolves(k, g)
    <3> HIDE DEF n
    <3>1. QED
      BY <2>2, <2>3, <2>4, RelaysKeep
  <2>6. g # f
    <3> HIDE DEF g
    <3> SUFFICES ASSUME g = f PROVE FALSE
      OBVIOUS
    <3>1. k[s].status = f[s].status
      BY <2>2, <2>4, <2>5, EvolvesBack
    <3>2. QED
      BY <2>2, <2>4, <3>1 DEF Planned
  <2>7. QED
    BY <1>4, <1>5, <1>9, <2>6
<1>10. QED
  BY <1>8, <1>9

(* phase_placeholders changes the loops that can be decided; one that it   *)
(* opens gets its instances, from the first to the last.                   *)
LEMMA PlaceholdersPlanned ==
  ASSUME NEW f \in RowState, RowsOK(f), NEW when, NEW items \in [Placeholders -> Nat]
  PROVE  LET g == PhasePlaceholders(f, when, items) IN
         /\ Planned(f, g)
         /\ g = f <=> \A p \in Placeholders : ~CanDecide(f, p)
         /\ \A p \in Placeholders : f[p].status = "pending" /\ g[p].status = "running" =>
              /\ 0 < items[p] /\ items[p] <= MaxItems
              /\ \A r \in Instances : r[1] = p => (g[r].status # "absent" <=> r[2] < items[p])
<1> DEFINE g == PhasePlaceholders(f, when, items)
           opened(p) == CASE items[p] = 0 -> Skip("empty")
                          [] items[p] > MaxItems -> Cell("failed")
                          [] OTHER -> Cell("running")
<1>0. GateOK(f) /\ NoOrphans(f)
  BY DEF RowsOK
<1>1. /\ g \in RowState
      /\ \A s \in FlowSteps \ Placeholders : g[s] = f[s]
      /\ \A p \in Placeholders :
           g[p] = f[p] \/ (f[p].status = "pending" /\ g[p].status \in {"running", "skipped", "failed"})
      /\ \A r \in Instances :
           \/ g[r] = f[r]
           \/ /\ f[r[1]].status = "pending" /\ f[r].status = "absent"
              /\ g[r[1]].status = "running"
              /\ g[r].status \in {"pending", "ready"}
  BY <1>0, PlaceholdersEffect
<1>2. \A p \in Placeholders : ~(f[p].status = "pending" /\ MaxItems > 0 /\ f[<<p, 0>>].status # "absent")
  <2> TAKE p \in Placeholders
  <2>1. MaxItems > 0 => <<p, 0>> \in Instances /\ <<p, 0>>[1] = p
    BY RowSets
  <2>2. QED
    BY <1>0, <2>1 DEF NoOrphans
<1>3. ASSUME NEW p \in Placeholders, f[p].status = "pending"
      PROVE  g[p] = Decided(f, p, when, opened(p)) /\ p \in FlowSteps
  <2>1. p \in Rows /\ p \notin Instances /\ p \in FlowSteps
    BY RowSets
  <2>2. QED
    BY <1>2, <1>3, <2>1 DEF PhasePlaceholders
<1>4. \A p \in Placeholders :
        /\ opened(p) \in {Cell("ready"), Cell("running"), Cell("failed"), Skip("empty")}
        /\ opened(p).status = "running" => 0 < items[p] /\ items[p] <= MaxItems
  <2> TAKE p \in Placeholders
  <2>1. items[p] \in Nat /\ MaxItems \in Nat
    BY ChoiceAssumption
  <2>2. CASE items[p] = 0
    <3>1. opened(p) = Skip("empty")
      BY <2>1, <2>2
    <3> HIDE DEF opened
    <3>2. QED
      BY <3>1, RowValues
  <2>3. CASE items[p] > MaxItems /\ items[p] # 0
    BY <2>3, RowValues DEF Finished
  <2>4. CASE ~(items[p] > MaxItems) /\ items[p] # 0
    BY <2>1, <2>4
  <2>5. QED
    BY <2>2, <2>3, <2>4
<1>5. ASSUME NEW p \in Placeholders, NEW r \in Instances, r[1] = p, f[p].status = "pending",
             g[p].status = "running"
      PROVE  g[r] = IF r[2] < items[p]
                    THEN IF p \in Sequential /\ r[2] > 0 THEN Cell("pending") ELSE Cell("ready")
                    ELSE f[r]
  <2>1. p \in Rows /\ p \notin Instances /\ r \in Rows
    BY RowSets
  <2>2. QED
    BY <1>2, <1>3, <1>5, <2>1 DEF PhasePlaceholders
<1> HIDE DEF g, opened
<1>6. ASSUME NEW p \in Placeholders
      PROVE  g[p] # f[p] <=> CanDecide(f, p)
  <2>1. CASE f[p].status = "pending"
    BY <1>3, <1>4, <2>1, DecidedMoves
  <2>2. CASE f[p].status # "pending"
    BY <1>1, <2>2 DEF CanDecide
  <2>3. QED
    BY <2>1, <2>2
<1>7. Planned(f, g)
  <2> SUFFICES ASSUME NEW r \in Rows, g[r] # f[r]
               PROVE  g[r].status # f[r].status /\ f[r].status \in {"absent", "pending"}
    BY DEF Planned
  <2>1. CASE r \in Instances
    BY <1>1, <2>1
  <2>2. CASE r \in FlowSteps
    BY <1>1, <2>2
  <2>3. QED
    BY <2>1, <2>2, RowSets
<1>8. g = f <=> \A p \in Placeholders : ~CanDecide(f, p)
  <2>1. ASSUME \A p \in Placeholders : ~CanDecide(f, p) PROVE g = f
    <3>1. \A p \in Placeholders : g[p] = f[p]
      BY <1>6, <2>1
    <3>2. \A r \in Instances : g[r] = f[r]
      BY <1>1, <3>1, RowSets
    <3>3. \A r \in Rows : g[r] = f[r]
      BY <1>1, <3>1, <3>2, RowSets
    <3>4. QED
      BY <1>1, <3>3 DEF RowState
  <2>2. QED
    BY <1>6, <2>1
<1>9. ASSUME NEW p \in Placeholders, f[p].status = "pending", g[p].status = "running"
      PROVE  /\ 0 < items[p] /\ items[p] <= MaxItems
             /\ \A r \in Instances : r[1] = p => (g[r].status # "absent" <=> r[2] < items[p])
  <2>1. opened(p).status = "running"
    <3> DEFINE x == Decided(f, p, when, opened(p))
    <3>1. x = f[p] \/ x = opened(p) \/ x.status \in {"skipped", "failed"}
      BY <1>0, <1>3, <1>4, <1>9, DecidedOK
    <3>2. g[p] = x
      BY <1>3, <1>9
    <3> HIDE DEF x
    <3>3. QED
      BY <1>9, <3>1, <3>2
  <2>2. ASSUME NEW r \in Instances, r[1] = p
        PROVE  g[r].status # "absent" <=> r[2] < items[p]
    <3>1. f[r].status = "absent"
      BY <1>0, <1>9, <2>2 DEF NoOrphans
    <3>2. QED
      BY <1>5, <1>9, <2>2, <3>1, RowValues
  <2>3. QED
    BY <1>4, <2>1, <2>2
<1>10. QED
  BY <1>7, <1>8, <1>9 DEF g

(* A pass, phase by phase. *)
LEMMA PassPhases ==
  ASSUME NEW f \in RowState, RowsOK(f), NEW when, NEW items \in [Placeholders -> Nat]
  PROVE  LET a == PhaseRollup(f)
             b == PhasePromote(a, when)
             c == PhasePlaceholders(b, when, items) IN
         /\ c = Pass(f, when, items)
         /\ a \in RowState /\ RowsOK(a) /\ Evolves(f, a) /\ Planned(f, a)
         /\ b \in RowState /\ RowsOK(b) /\ Evolves(a, b) /\ Planned(a, b)
         /\ c \in RowState /\ RowsOK(c) /\ Evolves(b, c) /\ Planned(b, c)
<1> DEFINE a == PhaseRollup(f)
           b == PhasePromote(a, when)
           c == PhasePlaceholders(b, when, items)
<1>1. c = Pass(f, when, items)
  BY DEF Pass
<1>2. a \in RowState /\ RowsOK(a) /\ Evolves(f, a) /\ Planned(f, a)
  BY RollupKeeps, RollupPlanned DEF RowsOK
<1> HIDE DEF a
<1>3. b \in RowState /\ RowsOK(b) /\ Evolves(a, b) /\ Planned(a, b)
  BY <1>2, PromotePlanned
<1> HIDE DEF b
<1>4. c \in RowState /\ RowsOK(c) /\ Evolves(b, c) /\ Planned(b, c)
  BY <1>3, PlaceholdersKeeps, PlaceholdersPlanned DEF RowsOK
<1>5. QED
  BY <1>1, <1>2, <1>3, <1>4 DEF a, b

(* A plan that changes no status changes nothing. *)
LEMMA PlannedBack ==
  ASSUME NEW f \in RowState, NEW g \in RowState, Planned(f, g), Evolves(f, g), Evolves(g, f)
  PROVE  g = f
<1>1. \A r \in Rows : g[r].status = f[r].status
  BY EvolvesBack
<1>2. \A r \in Rows : g[r] = f[r]
  BY <1>1 DEF Planned
<1>3. QED
  BY <1>2 DEF RowState

(* A pass changes something exactly where there is work, whatever the      *)
(* conditions and expressions evaluate to.                                 *)
LEMMA PassIsWork ==
  ASSUME NEW f \in RowState, RowsOK(f), NEW when, NEW items \in [Placeholders -> Nat]
  PROVE  Pass(f, when, items) = f <=> Work(f) = {}
<1> DEFINE a == PhaseRollup(f)
           b == PhasePromote(a, when)
           c == PhasePlaceholders(b, when, items)
<1>1. /\ c = Pass(f, when, items)
      /\ a \in RowState /\ RowsOK(a) /\ Evolves(f, a) /\ Planned(f, a)
      /\ b \in RowState /\ RowsOK(b) /\ Evolves(a, b) /\ Planned(a, b)
      /\ c \in RowState /\ RowsOK(c) /\ Evolves(b, c) /\ Planned(b, c)
  BY PassPhases
<1>2. \A r \in Rows : a[r] # f[r] <=> CanRollup(f, r) \/ CanFollow(f, r)
  BY RollupPlanned
<1>3. a = f <=> \A r \in Rows : ~CanRollup(f, r) /\ ~CanFollow(f, r)
  <2> HIDE DEF a
  <2>1. a = f <=> \A r \in Rows : a[r] = f[r]
    BY <1>1 DEF RowState
  <2>2. QED
    BY <1>2, <2>1
<1>4. b = a <=> \A s \in FlowSteps \ Placeholders : ~CanDecide(a, s)
  <2> HIDE DEF a
  <2>1. QED
    BY <1>1, PromotePlanned
<1>5. c = b <=> \A p \in Placeholders : ~CanDecide(b, p)
  <2> HIDE DEF b
  <2>1. QED
    BY <1>1, PlaceholdersPlanned
<1> HIDE DEF a, b, c
<1>6. Work(f) = {} <=>
        /\ \A r \in Rows : ~CanRollup(f, r) /\ ~CanFollow(f, r)
        /\ \A s \in FlowSteps \ Placeholders : ~CanDecide(f, s)
        /\ \A p \in Placeholders : ~CanDecide(f, p)
  <2>1. \A r \in Rows : CanDecide(f, r) => r \in FlowSteps
    BY DEF CanDecide
  <2>2. QED
    BY <2>1, RowSets DEF Work
<1>7. ASSUME Work(f) = {} PROVE c = f
  BY <1>3, <1>4, <1>5, <1>6, <1>7
<1>8. ASSUME c = f PROVE Work(f) = {}
  <2>1. StepsPresent(f) /\ StepsPresent(a) /\ StepsPresent(b)
    BY <1>1 DEF RowsOK
  <2>2. Evolves(a, c)
    BY <1>1, <2>1, EvolvesOn
  <2>3. a = f
    BY <1>1, <1>8, <2>2, PlannedBack
  <2>4. b = f
    BY <1>1, <1>8, <2>3, PlannedBack
  <2>5. QED
    BY <1>3, <1>4, <1>5, <1>6, <1>8, <2>3, <2>4
<1>9. QED
  BY <1>1, <1>7, <1>8

(* A pass moves forward. *)
LEMMA PassPlanned ==
  ASSUME NEW f \in RowState, RowsOK(f), NEW when, NEW items \in [Placeholders -> Nat]
  PROVE  LET g == Pass(f, when, items) IN
         g \in RowState /\ RowsOK(g) /\ Evolves(f, g) /\ Planned(f, g)
<1> DEFINE a == PhaseRollup(f)
           b == PhasePromote(a, when)
           c == PhasePlaceholders(b, when, items)
<1>1. /\ c = Pass(f, when, items)
      /\ a \in RowState /\ RowsOK(a) /\ Evolves(f, a) /\ Planned(f, a)
      /\ b \in RowState /\ RowsOK(b) /\ Evolves(a, b) /\ Planned(a, b)
      /\ c \in RowState /\ RowsOK(c) /\ Evolves(b, c) /\ Planned(b, c)
  BY PassPhases
<1> HIDE DEF a, b, c
<1>2. StepsPresent(f) /\ StepsPresent(a) /\ StepsPresent(b)
  BY <1>1 DEF RowsOK
<1>3. Evolves(f, b) /\ Planned(f, b)
  BY <1>1, <1>2, EvolvesOn, PlannedOn
<1>4. Planned(f, c)
  BY <1>1, <1>3, PlannedOn
<1>5. QED
  BY <1>1, <1>4, PassKeeps

(* The predecessor of an instance, and its loop. *)
LEMMA Predecessor ==
  ASSUME NEW r \in Instances, r[2] > 0
  PROVE  /\ <<r[1], r[2] - 1>> \in Instances /\ <<r[1], r[2] - 1>>[1] = r[1]
         /\ <<r[1], r[2] - 1>>[2] = r[2] - 1
<1>1. r[1] \in Placeholders /\ r[2] \in Nat /\ r[2] < MaxItems /\ MaxItems \in Nat
  BY RowSets, ChoiceAssumption
<1>2. r[2] - 1 \in Nat /\ r[2] - 1 < MaxItems
  BY <1>1
<1>3. QED
  BY <1>1, <1>2, RowSets

(* Loops are as open in g as in f if g has the same loops and instances,   *)
(* and the same ones of them wait.                                         *)
LEMMA OpenLoopsLike ==
  ASSUME NEW f \in RowState, NEW g \in RowState, OpenLoops(f),
         \A p \in Placeholders : g[p].status = f[p].status,
         \A r \in Instances : /\ g[r].status = "absent" <=> f[r].status = "absent"
                              /\ g[r].status = "pending" <=> f[r].status = "pending"
  PROVE  OpenLoops(g)
<1>1. \A r \in Instances : r[1] \in Placeholders /\ (r[2] > 0 => <<r[1], r[2] - 1>> \in Instances)
  BY RowSets, Predecessor
<1>2. QED
  BY <1>1 DEF OpenLoops

(* phase_rollup leaves loops open. *)
LEMMA RollupOpen ==
  ASSUME NEW f \in RowState, OpenLoops(f)
  PROVE  OpenLoops(PhaseRollup(f))
<1> DEFINE g == PhaseRollup(f)
<1>1. \A p \in Placeholders :
        \/ g[p] = f[p]
        \/ /\ f[p].status = "running" /\ g[p].status \in {"failed", "completed"}
           /\ \A r \in InstancesOf(f, p) : Done(f, r)
  <2> TAKE p \in Placeholders
  <2>1. \/ g[p] = f[p]
        \/ /\ f[p].status = "running" /\ \A r \in InstancesOf(f, p) : Done(f, r)
           /\ g[p] \in {Cell("failed"), Cell("completed")}
    BY RollupEffect
  <2> HIDE DEF g
  <2>2. QED
    BY <2>1, RowValues DEF Finished
<1>2. \A r \in Instances :
        \/ g[r] = f[r]
        \/ f[r].status = "pending" /\ g[r].status \in {"skipped", "ready"}
  <2> TAKE r \in Instances
  <2>1. g[r] = f[r] \/ (f[r].status = "pending" /\ g[r] \in {Skip("unreachable"), Cell("ready")})
    BY RollupEffect
  <2> HIDE DEF g
  <2>2. QED
    BY <2>1, RowValues
<1> HIDE DEF g
<1>3. ASSUME NEW p \in Placeholders
      PROVE  /\ g[p].status # "ready"
             /\ g[p].status = "running" => \E r \in Instances : r[1] = p /\ g[r].status # "absent"
  <2>1. g[p].status # "ready"
    BY <1>1 DEF OpenLoops
  <2>2. ASSUME g[p].status = "running"
        PROVE  \E r \in Instances : r[1] = p /\ g[r].status # "absent"
    <3>1. PICK r \in Instances : r[1] = p /\ f[r].status # "absent"
      BY <1>1, <2>2 DEF OpenLoops
    <3>2. QED
      BY <1>2, <3>1
  <2>3. QED
    BY <2>1, <2>2
<1>4. ASSUME NEW r \in Instances
      PROVE  /\ g[r].status # "absent" /\ r[2] > 0 => g[<<r[1], r[2] - 1>>].status # "absent"
             /\ g[r].status = "pending" =>
                  g[r[1]].status = "running" /\ r[1] \in Sequential /\ r[2] > 0
  <2>1. ASSUME g[r].status # "absent", r[2] > 0 PROVE g[<<r[1], r[2] - 1>>].status # "absent"
    <3>1. f[<<r[1], r[2] - 1>>].status # "absent"
      BY <1>2, <2>1 DEF OpenLoops
    <3>2. QED
      BY <1>2, <2>1, <3>1, Predecessor
  <2>2. ASSUME g[r].status = "pending"
        PROVE  g[r[1]].status = "running" /\ r[1] \in Sequential /\ r[2] > 0
    <3>1. f[r].status = "pending" /\ r[1] \in Placeholders
      BY <1>2, <2>2, RowSets
    <3>2. f[r[1]].status = "running" /\ r[1] \in Sequential /\ r[2] > 0
      BY <3>1 DEF OpenLoops
    <3>3. r \in InstancesOf(f, r[1]) /\ ~Done(f, r)
      BY <3>1 DEF InstancesOf, Done, Finished
    <3>4. QED
      BY <1>1, <3>1, <3>2, <3>3
  <2>3. QED
    BY <2>1, <2>2
<1>5. QED
  BY <1>3, <1>4 DEF OpenLoops, g

(* phase_placeholders opens loops as they must be. *)
LEMMA PlaceholdersOpen ==
  ASSUME NEW f \in RowState, RowsOK(f), OpenLoops(f), NEW when, NEW items \in [Placeholders -> Nat]
  PROVE  OpenLoops(PhasePlaceholders(f, when, items))
<1> DEFINE g == PhasePlaceholders(f, when, items)
<1>0. GateOK(f) /\ NoOrphans(f)
  BY DEF RowsOK
<1>1. /\ \A p \in Placeholders :
           g[p] = f[p] \/ (f[p].status = "pending" /\ g[p].status \in {"running", "skipped", "failed"})
      /\ \A r \in Instances :
           \/ g[r] = f[r]
           \/ /\ f[r[1]].status = "pending" /\ f[r].status = "absent"
              /\ g[r[1]].status = "running"
              /\ g[r].status \in {"pending", "ready"}
              /\ g[r].status = "pending" => r[1] \in Sequential /\ r[2] > 0
  BY <1>0, PlaceholdersEffect
<1>2. \A p \in Placeholders : f[p].status = "pending" /\ g[p].status = "running" =>
        /\ 0 < items[p] /\ items[p] <= MaxItems
        /\ \A r \in Instances : r[1] = p => (g[r].status # "absent" <=> r[2] < items[p])
  BY PlaceholdersPlanned
<1> HIDE DEF g
<1>3. ASSUME NEW p \in Placeholders
      PROVE  /\ g[p].status # "ready"
             /\ g[p].status = "running" => \E r \in Instances : r[1] = p /\ g[r].status # "absent"
  <2>1. g[p].status # "ready"
    BY <1>1 DEF OpenLoops
  <2>2. ASSUME g[p].status = "running", g[p] = f[p]
        PROVE  \E r \in Instances : r[1] = p /\ g[r].status # "absent"
    <3>1. PICK r \in Instances : r[1] = p /\ f[r].status # "absent"
      BY <2>2 DEF OpenLoops
    <3>2. QED
      BY <1>1, <3>1
  <2>3. ASSUME g[p].status = "running", g[p] # f[p]
        PROVE  \E r \in Instances : r[1] = p /\ g[r].status # "absent"
    <3>1. f[p].status = "pending" /\ 0 < items[p] /\ items[p] <= MaxItems
      BY <1>1, <1>2, <2>3
    <3>2. 0 < MaxItems
      BY <3>1, ChoiceAssumption
    <3>3. <<p, 0>> \in Instances /\ <<p, 0>>[1] = p /\ <<p, 0>>[2] = 0
      BY <3>2, RowSets
    <3>4. g[<<p, 0>>].status # "absent"
      BY <1>2, <2>3, <3>1, <3>3
    <3>5. QED
      BY <3>3, <3>4
  <2>4. QED
    BY <2>1, <2>2, <2>3
<1>4. ASSUME NEW r \in Instances
      PROVE  /\ g[r].status # "absent" /\ r[2] > 0 => g[<<r[1], r[2] - 1>>].status # "absent"
             /\ g[r].status = "pending" =>
                  g[r[1]].status = "running" /\ r[1] \in Sequential /\ r[2] > 0
  <2>0. r[1] \in Placeholders /\ r[2] \in Nat /\ items[r[1]] \in Nat
    BY RowSets
  <2>1. ASSUME g[r].status # "absent", r[2] > 0 PROVE g[<<r[1], r[2] - 1>>].status # "absent"
    <3> DEFINE q == <<r[1], r[2] - 1>>
    <3>1. q \in Instances /\ q[1] = r[1] /\ q[2] = r[2] - 1
      BY <2>1, Predecessor
    <3>2. g[r] = f[r] => f[q].status # "absent"
      BY <2>1 DEF OpenLoops
    <3> SUFFICES g[q].status # "absent"
      OBVIOUS
    <3> HIDE DEF q
    <3>3. CASE g[r] = f[r]
      BY <1>1, <3>1, <3>2, <3>3
    <3>4. CASE g[r] # f[r]
      <4>1. f[r[1]].status = "pending" /\ g[r[1]].status = "running"
        BY <1>1, <3>4
      <4>2. r[2] < items[r[1]]
        BY <1>2, <2>0, <2>1, <4>1
      <4>3. q[2] < items[r[1]]
        BY <2>0, <3>1, <4>2
      <4>4. QED
        BY <1>2, <2>0, <3>1, <4>1, <4>3
    <3>5. QED
      BY <3>3, <3>4
  <2>2. ASSUME g[r].status = "pending"
        PROVE  g[r[1]].status = "running" /\ r[1] \in Sequential /\ r[2] > 0
    <3>1. CASE g[r] = f[r]
      <4>1. f[r[1]].status = "running" /\ r[1] \in Sequential /\ r[2] > 0
        BY <2>2, <3>1 DEF OpenLoops
      <4>2. QED
        BY <1>1, <2>0, <4>1
    <3>2. CASE g[r] # f[r]
      BY <1>1, <2>2, <3>2
    <3>3. QED
      BY <3>1, <3>2
  <2>3. QED
    BY <2>1, <2>2
<1>5. QED
  BY <1>3, <1>4 DEF OpenLoops, g

(* A pass leaves loops open. *)
LEMMA PassOpen ==
  ASSUME NEW f \in RowState, RowsOK(f), OpenLoops(f), NEW when, NEW items \in [Placeholders -> Nat]
  PROVE  OpenLoops(Pass(f, when, items))
<1> DEFINE a == PhaseRollup(f)
           b == PhasePromote(a, when)
           c == PhasePlaceholders(b, when, items)
<1>1. /\ c = Pass(f, when, items) /\ a \in RowState /\ RowsOK(a) /\ b \in RowState /\ RowsOK(b)
  BY PassPhases
<1>2. OpenLoops(a)
  BY RollupOpen
<1>3. OpenLoops(b)
  <2> HIDE DEF a
  <2>1. \A r \in Placeholders \cup Instances : b[r] = a[r]
    BY <1>1, PromotePlanned
  <2> HIDE DEF b
  <2>2. QED
    BY <1>1, <1>2, <2>1, OpenLoopsLike
<1>4. OpenLoops(c)
  <2> HIDE DEF b
  <2>1. QED
    BY <1>1, <1>3, PlaceholdersOpen
<1>5. QED
  BY <1>1, <1>4

(* What run makes of the rows: it moves them forward and leaves loops      *)
(* open.                                                                   *)
LEMMA RunPlanned ==
  ASSUME NEW f \in RowState, RowsOK(f), NEW when, NEW items \in [Placeholders -> Nat]
  PROVE  LET g == Run(f, when, items) IN
         /\ g \in RowState /\ RowsOK(g) /\ Evolves(f, g) /\ Planned(f, g)
         /\ OpenLoops(f) => OpenLoops(g)
<1> DEFINE C == [g \in RowState |-> Pass(g, when, items)]
           X == {g \in RowState : /\ RowsOK(g) /\ Evolves(f, g) /\ Planned(f, g)
                                  /\ OpenLoops(f) => OpenLoops(g)}
<1>1. PassBound(f) \in Nat
  BY PassBoundType
<1>2. C \in [RowState -> RowState]
  BY PassType
<1>3. f \in X
  BY EvolvesSame DEF Planned
<1>4. \A g \in X : C[g] \in X
  <2> TAKE g \in X
  <2>1. RowsOK(g) /\ Evolves(f, g) /\ Planned(f, g) /\ g \in RowState /\ (OpenLoops(f) => OpenLoops(g))
    OBVIOUS
  <2> DEFINE k == Pass(g, when, items)
  <2>2. /\ k \in RowState /\ RowsOK(k) /\ Evolves(g, k) /\ Planned(g, k)
        /\ OpenLoops(g) => OpenLoops(k)
    BY <2>1, PassPlanned, PassOpen
  <2> HIDE DEF k
  <2>3. Evolves(f, k) /\ Planned(f, k)
    BY <2>1, <2>2, EvolvesOn, PlannedOn DEF RowsOK
  <2>4. k \in X
    BY <2>1, <2>2, <2>3
  <2>5. QED
    BY <2>1, <2>4 DEF k
<1>5. UntilStable(C, PassBound(f), f) \in X
  <2> HIDE DEF C, X
  <2>1. X \in SUBSET RowState
    BY DEF X
  <2>2. QED
    BY <1>1, <1>2, <1>3, <1>4, <2>1, StaysWithin
<1>6. QED
  BY <1>5 DEF Run

(* How far a row is: present, let through, taken, ended. *)
Reached(st, k) ==
  \/ k = 1 /\ st # "absent"
  \/ k = 2 /\ st \notin {"absent", "pending"}
  \/ k = 3 /\ st \notin {"absent", "pending", "ready"}
  \/ k = 4 /\ st \in Finished
Height(g) == {x \in Rows \X (1 .. 4) : Reached(g[x[1]].status, x[2])}

(* Rows that move forward get further. *)
LEMMA HeightGrows ==
  ASSUME NEW f \in RowState, NEW g \in RowState, Evolves(f, g), Planned(f, g)
  PROVE  /\ Height(f) \subseteq Height(g)
         /\ Height(f) = Height(g) => \A r \in Rows : g[r].status = f[r].status
<1>1. ASSUME NEW x \in Height(f) PROVE x \in Height(g)
  <2>1. x \in Rows \X (1 .. 4) /\ x[1] \in Rows /\ Reached(f[x[1]].status, x[2])
    BY DEF Height
  <2>2. Reached(g[x[1]].status, x[2])
    <3>1. CASE g[x[1]] = f[x[1]]
      BY <2>1, <3>1
    <3>2. CASE f[x[1]].status \in {"absent", "pending"}
      BY <2>1, <3>2 DEF Reached, Evolves, Finished
    <3>3. CASE f[x[1]].status = "running" /\ g[x[1]].status # "ready"
      BY <2>1, <3>3, StatusType DEF Reached, Evolves, Finished
    <3>4. QED
      BY <2>1, <3>1, <3>2, <3>3 DEF Planned
  <2>3. QED
    BY <2>1, <2>2 DEF Height
<1>2. ASSUME Height(f) = Height(g), NEW r \in Rows PROVE g[r].status = f[r].status
  <2>1. \A k \in 1 .. 4 : Reached(f[r].status, k) <=> Reached(g[r].status, k)
    <3> TAKE k \in 1 .. 4
    <3>1. <<r, k>> \in Rows \X (1 .. 4) /\ <<r, k>>[1] = r /\ <<r, k>>[2] = k
      OBVIOUS
    <3>2. <<r, k>> \in Height(f) <=> <<r, k>> \in Height(g)
      BY <1>2
    <3>3. QED
      BY <3>1, <3>2 DEF Height
  <2>2. 1 \in 1 .. 4 /\ 2 \in 1 .. 4 /\ 3 \in 1 .. 4 /\ 4 \in 1 .. 4
    OBVIOUS
  <2>3. /\ f[r].status # "absent" <=> g[r].status # "absent"
        /\ f[r].status \notin {"absent", "pending"} <=> g[r].status \notin {"absent", "pending"}
        /\ f[r].status \notin {"absent", "pending", "ready"} <=>
             g[r].status \notin {"absent", "pending", "ready"}
        /\ f[r].status \in Finished <=> g[r].status \in Finished
    BY <2>1, <2>2 DEF Reached
  <2>4. f[r].status \in Finished => g[r] = f[r]
    BY DEF Evolves, Keeps, Done
  <2>5. QED
    BY <2>3, <2>4, StatusType
<1>3. QED
  BY <1>1, <1>2

(* The pass bound is larger than the rows can get high. *)
LEMMA HeightBound ==
  ASSUME NEW f \in RowState, RowsOK(f)
  PROVE  \E B : /\ IsFiniteSet(B) /\ Cardinality(B) < PassBound(f)
                /\ \A g \in RowState : Evolves(f, g) => Height(g) \subseteq B
<1> DEFINE present == {r \in Rows : f[r].status # "absent"}
           unexpanded == {p \in Placeholders : f[p].status = "pending"}
           numbers == 0 .. MaxItems - 1
           expanded == unexpanded \X numbers
           U == present \cup expanded
           B == U \X (1 .. 4)
<1>1. IsFiniteSet(FlowSteps) /\ IsFiniteSet(Placeholders) /\ MaxItems \in Nat
  BY FlowAssumption, ChoiceAssumption, FS_Subset
<1>2. IsFiniteSet(numbers) /\ Cardinality(numbers) = MaxItems
  <2>1. MaxItems - 1 \in Int /\ 0 \in Int
    BY <1>1
  <2>2. IsFiniteSet(numbers) /\ Cardinality(numbers) = IF 0 > MaxItems - 1 THEN 0 ELSE (MaxItems - 1) - 0 + 1
    BY <2>1, FS_Interval
  <2> HIDE DEF numbers
  <2>3. QED
    BY <1>1, <2>2
<1>3. IsFiniteSet(Rows)
  <2>1. IsFiniteSet(Instances)
    BY <1>1, <1>2, FS_Product DEF Instances
  <2>2. QED
    BY <1>1, <2>1, FS_Union DEF Rows
<1>4. /\ IsFiniteSet(present) /\ Cardinality(present) \in Nat
      /\ IsFiniteSet(unexpanded) /\ Cardinality(unexpanded) \in Nat
  <2>1. present \in SUBSET Rows /\ unexpanded \in SUBSET Placeholders
    OBVIOUS
  <2> HIDE DEF present, unexpanded
  <2>2. QED
    BY <1>1, <1>3, <2>1, FS_Subset, FS_CardinalityType
<1>5. PassBound(f) = 4 * (Cardinality(present) + MaxItems * Cardinality(unexpanded)) + 1
  BY DEF PassBound
<1>6. ASSUME NEW g \in RowState, Evolves(f, g), NEW x \in Height(g) PROVE x \in B
  <2>1. x \in Rows \X (1 .. 4) /\ x[1] \in Rows /\ x[2] \in 1 .. 4 /\ x = <<x[1], x[2]>>
    BY DEF Height
  <2>2. g[x[1]].status # "absent"
    BY DEF Height, Reached, Finished
  <2>3. x[1] \in U
    <3>1. CASE f[x[1]].status # "absent"
      BY <2>1, <3>1
    <3>2. CASE f[x[1]].status = "absent"
      <4>1. x[1] \in Instances
        BY <2>1, <3>2, RowSets DEF RowsOK, StepsPresent
      <4>2. f[x[1][1]].status = "pending" /\ x[1][1] \in Placeholders
        BY <1>6, <2>2, <3>2, <4>1, RowSets DEF Evolves
      <4>3. x[1][1] \in unexpanded
        BY <4>2
      <4>4. x[1] \in expanded
        <5> HIDE DEF unexpanded
        <5>1. QED
          BY <4>1, <4>3 DEF Instances
      <4>5. QED
        BY <4>4
    <3>3. QED
      BY <3>1, <3>2
  <2> HIDE DEF U
  <2>4. QED
    BY <2>1, <2>3
<1> HIDE DEF present, unexpanded, numbers
<1>7. IsFiniteSet(expanded) /\ Cardinality(expanded) = Cardinality(unexpanded) * MaxItems
  BY <1>2, <1>4, FS_Product
<1> HIDE DEF expanded
<1>8. Cardinality(expanded) \in Nat /\ MaxItems * Cardinality(unexpanded) = Cardinality(expanded)
  <2>1. \A a, b \in Nat : a * b \in Nat /\ a * b = b * a
    OBVIOUS
  <2>2. QED
    BY <1>1, <1>4, <1>7, <2>1
<1>9. IsFiniteSet(U) /\ Cardinality(U) \in Nat /\ Cardinality(U) <= Cardinality(present) + Cardinality(expanded)
  <2>1. IsFiniteSet(U) /\ Cardinality(U) = Cardinality(present) + Cardinality(expanded) - Cardinality(present \cap expanded)
    BY <1>4, <1>7, FS_Union
  <2>2. Cardinality(present \cap expanded) \in Nat
    BY <1>4, FS_Subset, FS_CardinalityType
  <2>3. Cardinality(U) \in Nat
    BY <2>1, FS_CardinalityType
  <2> HIDE DEF U
  <2>4. QED
    BY <1>4, <1>8, <2>1, <2>2, <2>3
<1> HIDE DEF U
<1>10. IsFiniteSet(1 .. 4) /\ Cardinality(1 .. 4) = 4
  <2>1. 1 \in Int /\ 4 \in Int
    OBVIOUS
  <2>2. IsFiniteSet(1 .. 4) /\ Cardinality(1 .. 4) = IF 1 > 4 THEN 0 ELSE 4 - 1 + 1
    BY ONLY <2>1, FS_Interval
  <2>3. QED
    BY <2>2
<1>11. IsFiniteSet(B) /\ Cardinality(B) = Cardinality(U) * 4
  BY <1>9, <1>10, FS_Product
<1> HIDE DEF B
<1>12. Cardinality(B) < PassBound(f)
  BY <1>4, <1>5, <1>8, <1>9, <1>11
<1>13. QED
  BY <1>6, <1>11, <1>12

(* The passes of run. *)
Passes(n, f, when, items) == UntilStable([g \in RowState |-> Pass(g, when, items)], n, f)

(* Passes, if one less than the bound or more are allowed, end where a     *)
(* pass changes nothing.                                                   *)
LEMMA PassesSettle ==
  ASSUME NEW f \in RowState, RowsOK(f), NEW when, NEW items \in [Placeholders -> Nat],
         NEW n \in Nat, PassBound(f) - 1 <= n
  PROVE  LET e == Passes(n, f, when, items) IN
         e \in RowState /\ RowsOK(e) /\ Pass(e, when, items) = e
<1> DEFINE C == [g \in RowState |-> Pass(g, when, items)]
           X == {g \in RowState : RowsOK(g) /\ Evolves(f, g)}
           M == [g \in X |-> Height(g)]
           e == UntilStable(C, n, f)
<1>1. PassBound(f) \in Nat
  BY PassBoundType
<1>2. C \in [RowState -> RowState]
  BY PassType
<1>3. f \in X /\ X \in SUBSET RowState
  BY EvolvesSame
<1>4. ASSUME NEW g \in X
      PROVE  /\ C[g] \in X /\ Evolves(g, C[g]) /\ Planned(g, C[g])
  <2>1. RowsOK(g) /\ Evolves(f, g) /\ g \in RowState
    OBVIOUS
  <2> DEFINE k == Pass(g, when, items)
  <2>2. k \in RowState /\ RowsOK(k) /\ Evolves(g, k) /\ Planned(g, k)
    BY <2>1, PassPlanned
  <2>3. C[g] = k
    BY <2>1
  <2> HIDE DEF k, C
  <2>4. Evolves(f, k)
    BY <2>1, <2>2, EvolvesOn DEF RowsOK
  <2>5. QED
    BY <2>2, <2>3, <2>4
<1>5. PICK B : /\ IsFiniteSet(B) /\ Cardinality(B) < PassBound(f)
               /\ \A g \in RowState : Evolves(f, g) => Height(g) \subseteq B
  BY HeightBound
<1>6. M \in [X -> SUBSET B]
  BY <1>5
<1>7. ASSUME NEW g \in X, C[g] # g PROVE M[g] \subseteq M[C[g]] /\ M[g] # M[C[g]]
  <2>1. g \in RowState /\ C[g] \in RowState /\ C[g] \in X
    BY <1>4
  <2>2. M[g] = Height(g) /\ M[C[g]] = Height(C[g])
    <3> HIDE DEF X, C
    <3>1. QED
      BY <2>1
  <2> HIDE DEF C, X, M
  <2>3. Height(g) \subseteq Height(C[g])
    BY <1>4, <2>1, HeightGrows
  <2>4. Height(g) # Height(C[g])
    <3> SUFFICES ASSUME Height(g) = Height(C[g]) PROVE FALSE
      OBVIOUS
    <3>1. \A r \in Rows : C[g][r].status = g[r].status
      BY <1>4, <2>1, HeightGrows
    <3>2. \A r \in Rows : C[g][r] = g[r]
      BY <1>4, <3>1 DEF Planned
    <3>3. C[g] = g
      BY <2>1, <3>2 DEF RowState
    <3>4. QED
      BY <1>7, <3>3
  <2>5. QED
    BY <2>2, <2>3, <2>4
<1>8. Cardinality(B) <= n
  BY <1>1, <1>5, FS_CardinalityType
<1>9. C[e] = e /\ e \in X
  <2> HIDE DEF C, X, M
  <2>1. QED
    BY <1>2, <1>3, <1>4, <1>5, <1>6, <1>7, <1>8, Settles, StaysWithin
<1>10. e = Passes(n, f, when, items)
  BY DEF Passes
<1> HIDE DEF e
<1>11. QED
  BY <1>9, <1>10

(* So nothing is left to do in the rows run ends with. *)
LEMMA RunSettles ==
  ASSUME NEW f \in RowState, RowsOK(f), NEW when, NEW items \in [Placeholders -> Nat]
  PROVE  Work(Run(f, when, items)) = {}
<1> DEFINE e == Passes(PassBound(f), f, when, items)
<1>1. PassBound(f) \in Nat /\ PassBound(f) - 1 <= PassBound(f)
  BY PassBoundType
<1>2. e \in RowState /\ RowsOK(e) /\ Pass(e, when, items) = e
  BY <1>1, PassesSettle
<1>3. e = Run(f, when, items)
  BY DEF Run, Passes
<1> HIDE DEF e
<1>4. QED
  BY <1>2, <1>3, PassIsWork

(* Where there is no work, run changes nothing. *)
LEMMA RunIdle ==
  ASSUME NEW f \in RowState, RowsOK(f), NEW when, NEW items \in [Placeholders -> Nat], Work(f) = {}
  PROVE  Run(f, when, items) = f
<1> DEFINE C == [g \in RowState |-> Pass(g, when, items)]
<1>1. C \in [RowState -> RowState] /\ C[f] = f
  BY PassType, PassIsWork
<1>2. UntilStable(C, PassBound(f), f) = f
  <2> HIDE DEF C
  <2>1. QED
    BY <1>1, PassBoundType, UntilStableDef
<1>3. QED
  BY <1>2 DEF Run

(* Work is a waiting row or a running loop. *)
LEMMA WorkStatus ==
  ASSUME NEW f \in RowState, NEW r \in Work(f)
  PROVE  /\ r \in Rows
         /\ f[r].status = "pending" \/ (r \in Placeholders /\ f[r].status = "running")
BY DEF Work, CanDecide, CanRollup, CanFollow, LoopOpen

(* Work that nobody did is still there. *)
LEMMA WorkStays ==
  ASSUME NEW f \in RowState, NEW h \in RowState, Evolves(f, h), OpenLoops(h),
         NEW r \in Work(f), h[r].status = f[r].status
  PROVE  r \in Work(h)
<1>0. r \in Rows
  BY DEF Work
<1>1. CASE CanDecide(f, r)
  <2>1. r \in FlowSteps /\ GateFor(f, r) # "wait" /\ f[r].status = "pending"
    BY <1>1 DEF CanDecide
  <2>2. GateFor(h, r) = GateFor(f, r)
    BY <2>1, OutcomesKept, GateStable DEF Evolves
  <2>3. CanDecide(h, r)
    BY <2>1, <2>2 DEF CanDecide
  <2>4. QED
    BY <1>0, <2>3 DEF Work
<1>2. CASE CanRollup(f, r)
  <2>1. /\ r \in Placeholders /\ f[r].status = "running" /\ InstancesOf(f, r) # {}
        /\ \A q \in InstancesOf(f, r) : Done(f, q)
    BY <1>2 DEF CanRollup, LoopOpen
  <2>2. \A q \in Instances : q[1] = r => (h[q].status = "absent" <=> f[q].status = "absent")
    BY <2>1, RowSets DEF Evolves
  <2>3. InstancesOf(h, r) = InstancesOf(f, r)
    BY <2>2 DEF InstancesOf
  <2>4. \A q \in InstancesOf(f, r) : q \in Rows /\ h[q] = f[q]
    BY <2>1, RowSets DEF InstancesOf, Evolves, Keeps
  <2>5. CanRollup(h, r)
    BY <2>1, <2>3, <2>4 DEF CanRollup, LoopOpen, Done
  <2>6. QED
    BY <1>0, <2>5 DEF Work
<1>3. CASE CanFollow(f, r)
  <2>1. /\ r \in Instances /\ f[r].status = "pending" /\ h[r].status = "pending"
        /\ \/ SkipsRest(f, r[1])
           \/ r[1] \in Sequential /\ r[2] > 0 /\ Done(f, <<r[1], r[2] - 1>>)
    BY <1>3 DEF CanFollow
  <2>2. h[r[1]].status = "running" /\ r \in InstancesOf(h, r[1])
    BY <2>1 DEF OpenLoops, InstancesOf
  <2>3. LoopOpen(h, r[1])
    BY <2>2 DEF LoopOpen
  <2>4. ASSUME SkipsRest(f, r[1]) PROVE SkipsRest(h, r[1])
    <3>1. PICK q \in InstancesOf(f, r[1]) : f[q].status \in {"failed", "cancelled"}
      BY <2>4 DEF SkipsRest
    <3>2. q \in Instances /\ q[1] = r[1] /\ q \in Rows /\ Done(f, q)
      BY <3>1, RowSets DEF InstancesOf, Done, Finished
    <3>3. h[q] = f[q]
      BY <3>2 DEF Evolves, Keeps
    <3>4. q \in InstancesOf(h, r[1])
      BY <3>1, <3>2, <3>3 DEF InstancesOf
    <3>5. QED
      BY <2>1, <2>2, <2>4, <3>1, <3>3, <3>4 DEF SkipsRest
  <2>5. ASSUME r[2] > 0, Done(f, <<r[1], r[2] - 1>>) PROVE Done(h, <<r[1], r[2] - 1>>)
    <3>1. <<r[1], r[2] - 1>> \in Rows
      BY <2>1, <2>5, Predecessor, RowSets
    <3>2. QED
      BY <2>5, <3>1 DEF Evolves, Keeps, Done
  <2>6. CanFollow(h, r)
    BY <2>1, <2>3, <2>4, <2>5 DEF CanFollow
  <2>7. QED
    BY <1>0, <2>6 DEF Work
<1>4. QED
  BY <1>1, <1>2, <1>3 DEF Work

(* So run does all the work there is, whatever the conditions evaluate to. *)
LEMMA WorkIsPlanned ==
  ASSUME NEW f \in RowState, RowsOK(f), OpenLoops(f), NEW when, NEW items \in [Placeholders -> Nat],
         NEW r \in Work(f)
  PROVE  r \in Rows /\ Run(f, when, items)[r].status # f[r].status
<1> DEFINE g == Run(f, when, items)
<1>1. g \in RowState /\ RowsOK(g) /\ Evolves(f, g) /\ OpenLoops(g) /\ Work(g) = {}
  BY RunPlanned, RunSettles
<1> HIDE DEF g
<1>2. g[r].status # f[r].status
  BY <1>1, WorkStays
<1>3. QED
  BY <1>2, WorkStatus DEF g

(* Rows that differ in what was started or retried have the same work. *)
LEMMA SameWork ==
  ASSUME NEW f \in RowState, NEW g \in RowState, Same(f, g)
  PROVE  Work(g) = Work(f)
<1>1. ASSUME NEW r \in Rows
      PROVE  /\ FromRow(g[r]) = FromRow(f[r])
             /\ Done(g, r) <=> Done(f, r)
             /\ r \in Placeholders => g[r] = f[r]
             /\ g[r].status = "absent" <=> f[r].status = "absent"
             /\ g[r].status = "pending" <=> f[r].status = "pending"
             /\ g[r].status \in {"failed", "cancelled"} <=> f[r].status \in {"failed", "cancelled"}
  <2>1. CASE g[r] = f[r]
    BY <2>1 DEF Done
  <2>2. CASE /\ r \notin Placeholders /\ f[r].status \in {"ready", "running"}
             /\ g[r] \in {Cell("ready"), Cell("running")}
    <3>1. g[r].status \in {"ready", "running"}
      BY <2>2, RowValues
    <3>2. QED
      BY <2>2, <3>1 DEF FromRow, Done, Finished
  <2>3. QED
    BY <2>1, <2>2 DEF Same
<1>2. Outcomes(g) = Outcomes(f)
  BY <1>1, RowSets DEF Outcomes
<1>3. \A p : InstancesOf(g, p) = InstancesOf(f, p)
  BY <1>1, RowSets DEF InstancesOf
<1>4. \A p : \A r \in InstancesOf(f, p) : r \in Rows
  BY RowSets DEF InstancesOf
<1>5. \A r \in Rows : CanDecide(g, r) <=> CanDecide(f, r)
  BY <1>1, <1>2 DEF CanDecide, GateFor
<1>6. \A p \in Placeholders : LoopOpen(g, p) <=> LoopOpen(f, p)
  BY <1>1, <1>3, RowSets DEF LoopOpen
<1>7. \A r \in Rows : CanRollup(g, r) <=> CanRollup(f, r)
  BY <1>1, <1>3, <1>4, <1>6 DEF CanRollup
<1>8. \A p : SkipsRest(g, p) <=> SkipsRest(f, p)
  BY <1>1, <1>3, <1>4 DEF SkipsRest
<1>9. \A r \in Rows : CanFollow(g, r) <=> CanFollow(f, r)
  <2> TAKE r \in Rows
  <2>1. CASE r \in Instances
    <3>1. r[1] \in Placeholders
      BY <2>1, RowSets
    <3>2. r[2] > 0 => (Done(g, <<r[1], r[2] - 1>>) <=> Done(f, <<r[1], r[2] - 1>>))
      BY <1>1, <2>1, Predecessor, RowSets
    <3>3. QED
      BY <1>1, <1>6, <1>8, <3>1, <3>2 DEF CanFollow
  <2>2. CASE r \notin Instances
    BY <2>2 DEF CanFollow
  <2>3. QED
    BY <2>1, <2>2
<1>10. QED
  BY <1>5, <1>7, <1>9 DEF Work

-----------------------------------------------------------------------------
(***************************************************************************)
(* Plans and the rows they meet                                            *)
(***************************************************************************)

(* No plan misses a guard where no other one was applied. *)
LEMMA FreshGuards ==
  ASSUME NEW f \in RowState, NEW g \in RowState, NEW h \in RowState, Planned(f, g), Fresh(f, h)
  PROVE  \A r \in Changes(f, g) : h[r].status = f[r].status
BY DEF Changes, Planned, Fresh

(* Starting and retrying rows applies no plan. *)
LEMMA SameFresh ==
  ASSUME NEW f \in RowState, NEW h \in RowState, Same(f, h)
  PROVE  Fresh(f, h)
BY DEF Same, Fresh

(* A plan that was overtaken misses a guard, and one that was overtaken is *)
(* not fresh.                                                              *)
LEMMA OvertakenMisses ==
  ASSUME NEW f \in RowState, RowsOK(f), OpenLoops(f), NEW h \in RowState, Overtaken(f, h),
         NEW when, NEW items \in [Placeholders -> Nat]
  PROVE  /\ \E r \in Changes(f, Run(f, when, items)) : h[r].status # f[r].status
         /\ ~Fresh(f, h)
<1>1. PICK r \in Work(f) : h[r].status # f[r].status
  BY DEF Overtaken
<1>2. r \in Changes(f, Run(f, when, items))
  BY WorkIsPlanned DEF Changes
<1>3. ~Fresh(f, h)
  BY <1>1, WorkStatus DEF Fresh
<1>4. QED
  BY <1>1, <1>2, <1>3

(* What was overtaken stays so. *)
LEMMA OvertakenStays ==
  ASSUME NEW f \in RowState, NEW h \in RowState, NEW m \in RowState,
         Evolves(f, h), Evolves(h, m), OpenLoops(h), Overtaken(f, h)
  PROVE  Overtaken(f, m)
<1>1. PICK r \in Work(f) : h[r].status # f[r].status
  BY DEF Overtaken
<1>2. /\ r \in Rows
      /\ f[r].status = "pending" \/ (r \in Placeholders /\ f[r].status = "running")
  BY WorkStatus
<1>3. m[r].status # f[r].status
  BY <1>1, <1>2, StatusType DEF Evolves, Keeps, Done, Finished, OpenLoops
<1>4. QED
  BY <1>3 DEF Overtaken

(* Work of f that is as it was in h was so in between. *)
LEMMA Between ==
  ASSUME NEW f \in RowState, NEW k \in RowState, NEW h \in RowState, OpenLoops(k),
         Evolves(f, k), Evolves(k, h), NEW r \in Work(f), h[r].status = f[r].status
  PROVE  k[r].status = f[r].status
BY WorkStatus, StatusType DEF Evolves, Keeps, Done, Finished, OpenLoops

(* A plan that is applied overtakes every other one that was still to be   *)
(* applied, whichever of the two snapshots is older.                       *)
LEMMA Overtakes ==
  ASSUME NEW f \in RowState, NEW k \in RowState, NEW h \in RowState, NEW m \in RowState,
         RowsOK(f), OpenLoops(f), OpenLoops(k), Evolves(f, h), Evolves(k, h),
         Evolves(f, k) \/ Evolves(k, f),
         Work(f) # {}, Work(k) # {}, Fresh(f, h), Fresh(k, h),
         NEW when, NEW items \in [Placeholders -> Nat], m = Merged(f, Run(f, when, items), h)
  PROVE  Overtaken(k, m)
<1> DEFINE g == Run(f, when, items)
<1>1. \A r \in Work(f) : r \in Rows /\ g[r].status # f[r].status
  BY WorkIsPlanned
<1> HIDE DEF g
<1>2. \A r \in Work(f) : m[r].status # f[r].status
  BY <1>1 DEF Merged, Changes, g
<1>3. \A r \in Work(f) : r \in Rows /\ h[r].status = f[r].status
  BY WorkStatus DEF Fresh
<1>4. \A r \in Work(k) : r \in Rows /\ h[r].status = k[r].status
  BY WorkStatus DEF Fresh
<1>5. CASE Evolves(f, k)
  <2>1. PICK r \in Work(f) : TRUE
    OBVIOUS
  <2>2. k[r].status = f[r].status
    BY <1>3, <1>5, Between
  <2>3. r \in Work(k)
    BY <1>5, <2>2, WorkStays
  <2>4. QED
    BY <1>2, <2>2, <2>3 DEF Overtaken
<1>6. CASE Evolves(k, f)
  <2>1. PICK r \in Work(k) : TRUE
    OBVIOUS
  <2>2. f[r].status = k[r].status
    BY <1>4, <1>6, Between
  <2>3. r \in Work(f)
    BY <1>6, <2>2, WorkStays
  <2>4. QED
    BY <1>2, <2>1, <2>2, <2>3 DEF Overtaken
<1>7. QED
  BY <1>5, <1>6

(* A plan that met the rows it was made from leaves what run ended with,   *)
(* but for the rows started or retried.                                    *)
LEMMA MergeSame ==
  ASSUME NEW f \in RowState, NEW g \in RowState, NEW h \in RowState, Same(f, h)
  PROVE  Same(g, Merged(f, g, h))
<1> SUFFICES ASSUME NEW r \in Rows, Merged(f, g, h)[r] # g[r]
             PROVE  /\ r \notin Placeholders /\ g[r].status \in {"ready", "running"}
                    /\ Merged(f, g, h)[r] \in {Cell("ready"), Cell("running")}
  BY DEF Same
<1>1. f[r] = g[r] /\ Merged(f, g, h)[r] = h[r]
  BY DEF Merged, Changes
<1>2. QED
  BY <1>1 DEF Same

(* A plan that is applied leaves loops open. *)
LEMMA MergeOpen ==
  ASSUME NEW f \in RowState, NEW g \in RowState, NEW h \in RowState,
         Planned(f, g), Evolves(f, h), Fresh(f, h), OpenLoops(g)
  PROVE  OpenLoops(Merged(f, g, h))
<1> DEFINE m == Merged(f, g, h)
<1>1. m \in RowState /\ \A r \in Rows : m[r] = IF f[r] # g[r] THEN g[r] ELSE h[r]
  BY DEF Merged, Changes, RowState
<1> HIDE DEF m
<1>2. \A p \in Placeholders : m[p] = g[p]
  BY <1>1, RowSets DEF Fresh
<1>3. ASSUME NEW r \in Instances
      PROVE  /\ m[r].status = "absent" <=> g[r].status = "absent"
             /\ m[r].status = "pending" <=> g[r].status = "pending"
  <2>1. r \in Rows /\ r \notin Placeholders
    BY RowSets
  <2>2. CASE f[r].status \in {"absent", "pending"}
    BY <1>1, <2>1, <2>2 DEF Fresh
  <2>3. CASE f[r].status \notin {"absent", "pending"}
    <3>1. g[r] = f[r]
      BY <2>1, <2>3 DEF Planned
    <3>2. m[r] = h[r] /\ h[r].status \notin {"absent", "pending"}
      BY <1>1, <2>1, <2>3, <3>1 DEF Evolves
    <3>3. QED
      BY <2>3, <3>1, <3>2
  <2>4. QED
    BY <2>2, <2>3
<1>4. QED
  BY <1>1, <1>2, <1>3, OpenLoopsLike DEF m

-----------------------------------------------------------------------------
(***************************************************************************)
(* A job that waits for nothing                                            *)
(***************************************************************************)

(* A set of numbers has a least one. *)
LEMMA LeastNumber ==
  ASSUME NEW S \in SUBSET Nat, S # {}
  PROVE  \E x \in S : \A y \in S : x <= y
<1>1. PICK x \in S : \A y \in S : ~(<<y, x>> \in OpToRel(<, Nat))
  BY NatLessThanWellFounded, WFMin
<1>2. ASSUME NEW y \in S PROVE x <= y
  <2>1. ~(y < x)
    BY <1>1 DEF OpToRel
  <2>2. QED
    BY <2>1
<1>3. QED
  BY <1>2

(* An entry that is not terminal names a step that has not ended.          *)
LEMMA WaitsForStep ==
  ASSUME NEW o, NEW level \in [FlowSteps -> Nat], NEW reach \in [Entries -> Nat],
         \A e \in Entries : /\ e.op = "step" => level[e.step] <= reach[e]
                            /\ \A c \in e.of : reach[c] <= reach[e],
         NEW e \in Entries, ~AllTerminal(o)[e]
  PROVE  \E t \in FlowSteps : o[t] = "pending" /\ level[t] <= reach[e]
<1>1. PICK depth \in [Entries -> 0 .. Cardinality(Entries)] :
             \A d \in Entries : \A c \in d.of : depth[c] < depth[d]
  BY EntriesAssumption
<1>2. Cardinality(Entries) \in Nat
  BY EntriesAssumption, FS_CardinalityType
<1>3. \A d \in Entries : depth[d] \in Nat
  BY <1>1, <1>2
<1> DEFINE Names(d) == ~AllTerminal(o)[d] =>
                         \E t \in FlowSteps : o[t] = "pending" /\ level[t] <= reach[d]
           T == {n \in Nat : \A d \in Entries : depth[d] < n => Names(d)}
<1>4. 0 \in T
  BY <1>3
<1>5. ASSUME NEW n \in T PROVE n + 1 \in T
  <2>1. n \in Nat /\ \A d \in Entries : depth[d] < n => Names(d)
    OBVIOUS
  <2>2. ASSUME NEW d \in Entries, depth[d] < n + 1, ~AllTerminal(o)[d]
        PROVE  \E t \in FlowSteps : o[t] = "pending" /\ level[t] <= reach[d]
    <3>1. CASE d.op = "step"
      <4>1. d.step \in FlowSteps /\ o[d.step] = "pending"
        BY <2>2, <3>1, FlowAssumption, AllTerminalDef
      <4>2. QED
        BY <3>1, <4>1
    <3>2. CASE d.op # "step"
      <4>1. PICK c \in d.of : ~AllTerminal(o)[c]
        BY <2>2, <3>2, AllTerminalDef
      <4>2. c \in Entries /\ depth[c] < n /\ reach[c] <= reach[d]
        <5>1. c \in Entries
          BY <4>1, EntriesAssumption
        <5>2. depth[c] \in Nat /\ depth[d] \in Nat /\ depth[c] < depth[d]
          BY <1>1, <1>3, <4>1, <5>1
        <5>3. QED
          BY <2>1, <2>2, <4>1, <5>1, <5>2
      <4>3. PICK t \in FlowSteps : o[t] = "pending" /\ level[t] <= reach[c]
        BY <2>1, <4>1, <4>2
      <4>4. level[t] \in Nat /\ reach[c] \in Nat /\ reach[d] \in Nat
        BY <4>2
      <4>5. level[t] <= reach[d]
        BY <4>2, <4>3, <4>4
      <4>6. QED
        BY <4>3, <4>5
    <3>3. QED
      BY <3>1, <3>2
  <2>3. \A d \in Entries : depth[d] < n + 1 => Names(d)
    BY <2>2
  <2> HIDE DEF Names
  <2>4. QED
    BY <2>1, <2>3
<1>6. T = Nat
  <2> HIDE DEF T
  <2>1. T \in SUBSET Nat
    BY DEF T
  <2>2. QED
    BY <1>4, <1>5, <2>1, NatInduct
<1>7. depth[e] + 1 \in T /\ depth[e] < depth[e] + 1
  BY <1>3, <1>6
<1>8. Names(e)
  <2> HIDE DEF Names
  <2>1. QED
    BY <1>7
<1>9. QED
  BY <1>8

(* A loop that runs and has nothing to roll up or to follow has an         *)
(* instance that runs or is ready to.                                      *)
LEMMA OpenLoopRuns ==
  ASSUME NEW f \in RowState, OpenLoops(f), Work(f) = {},
         NEW p \in Placeholders, f[p].status = "running"
  PROVE  \E r \in Instances : f[r].status \in {"ready", "running"}
<1> SUFFICES ASSUME \A r \in Instances : f[r].status \notin {"ready", "running"} PROVE FALSE
  OBVIOUS
<1>1. LoopOpen(f, p)
  BY DEF OpenLoops, LoopOpen, InstancesOf
<1>2. ~CanRollup(f, p) /\ \A r \in Instances : ~CanFollow(f, r)
  BY RowSets DEF Work
<1>3. PICK q \in InstancesOf(f, p) : ~Done(f, q)
  BY <1>1, <1>2 DEF CanRollup
<1>4. q \in Instances /\ q[1] = p /\ f[q].status = "pending" /\ q[2] \in Nat
  BY <1>3, StatusType, RowSets DEF InstancesOf, Done
<1> DEFINE S == {n \in Nat : \E r \in Instances : r[1] = p /\ r[2] = n /\ f[r].status = "pending"}
<1>5. S \in SUBSET Nat /\ S # {}
  BY <1>4
<1>6. PICK n \in S : \A y \in S : n <= y
  <2> HIDE DEF S
  <2>1. QED
    BY <1>5, LeastNumber
<1>7. PICK r \in Instances : r[1] = p /\ r[2] = n /\ f[r].status = "pending"
  OBVIOUS
<1>8. r[1] \in Sequential /\ r[2] > 0 /\ f[<<r[1], r[2] - 1>>].status # "absent"
  BY <1>7 DEF OpenLoops
<1> DEFINE k == <<r[1], r[2] - 1>>
<1>9. k \in Instances /\ k[1] = p /\ k[2] = n - 1 /\ k \in Rows /\ n - 1 \in Nat
  BY <1>5, <1>7, <1>8, Predecessor, RowSets
<1>10. f[k].status # "absent"
  BY <1>8
<1>11. f[k].status # "pending"
  <2> HIDE DEF k
  <2> SUFFICES ASSUME f[k].status = "pending" PROVE FALSE
    OBVIOUS
  <2>1. n - 1 \in S
    BY <1>9
  <2>2. n <= n - 1
    BY <1>6, <2>1
  <2>3. QED
    BY <1>5, <2>2
<1>12. Done(f, k)
  <2> HIDE DEF k
  <2>1. QED
    BY <1>9, <1>10, <1>11, StatusType DEF Done
<1>13. CanFollow(f, r)
  BY <1>1, <1>7, <1>8, <1>12 DEF CanFollow
<1>14. QED
  BY <1>2, <1>13

(* Where there is no work and not every row has ended, some row runs or is *)
(* ready to run.                                                           *)
LEMMA SomethingRuns ==
  ASSUME NEW f \in RowState, RowsOK(f), OpenLoops(f), Work(f) = {},
         \E r \in Rows : f[r].status # "absent" /\ ~Done(f, r)
  PROVE  \E r \in Rows \ Placeholders : f[r].status \in {"ready", "running"}
<1> SUFFICES ASSUME \A r \in Rows \ Placeholders : f[r].status \notin {"ready", "running"} PROVE FALSE
  OBVIOUS
<1>1. \A p \in Placeholders : f[p].status \notin {"ready", "running"}
  <2> TAKE p \in Placeholders
  <2>1. f[p].status # "running"
    BY OpenLoopRuns, RowSets
  <2>2. QED
    BY <2>1 DEF OpenLoops
<1>2. \A r \in Instances : f[r].status # "pending"
  BY <1>1, RowSets DEF OpenLoops
<1>3. \A r \in Rows : f[r].status # "absent" /\ ~Done(f, r) =>
        r \in FlowSteps /\ f[r].status = "pending"
  BY <1>1, <1>2, StatusType, RowSets DEF Done
<1>4. PICK level \in [FlowSteps -> 0 .. Cardinality(FlowSteps)],
           reach \in [Entries -> 0 .. Cardinality(FlowSteps)] :
        /\ \A e \in Entries : /\ e.op = "step" => level[e.step] <= reach[e]
                              /\ \A c \in e.of : reach[c] <= reach[e]
        /\ \A s \in FlowSteps : \A e \in DependsOn[s] : reach[e] < level[s]
  BY AcyclicAssumption
<1>5. level \in [FlowSteps -> Nat] /\ reach \in [Entries -> Nat]
  <2>1. Cardinality(FlowSteps) \in Nat
    BY FlowAssumption, FS_CardinalityType
  <2>2. 0 .. Cardinality(FlowSteps) \subseteq Nat
    BY <2>1
  <2>3. QED
    BY <2>2
<1> DEFINE S == {level[s] : s \in {t \in FlowSteps : f[t].status = "pending"}}
<1>6. S \in SUBSET Nat /\ S # {}
  BY <1>3, <1>5
<1>7. PICK n \in S : \A y \in S : n <= y
  <2> HIDE DEF S
  <2>1. QED
    BY <1>6, LeastNumber
<1>8. PICK s \in FlowSteps : f[s].status = "pending" /\ level[s] = n
  OBVIOUS
<1>9. GateFor(f, s) = "wait"
  BY <1>8, RowSets DEF Work, CanDecide
<1>10. PICK e \in DependsOn[s] : ~AllTerminal(Outcomes(f))[e]
  BY <1>9 DEF GateFor, GateOf
<1>11. e \in Entries /\ reach[e] < level[s]
  BY <1>4, <1>8, <1>10, FlowAssumption
<1>12. PICK t \in FlowSteps : Outcomes(f)[t] = "pending" /\ level[t] <= reach[e]
  BY <1>4, <1>5, <1>10, <1>11, WaitsForStep
<1>13. ~Done(f, t) /\ f[t].status # "absent" /\ t \in Rows
  <2>1. FromRow(f[t]) = "pending" /\ t \in Rows
    BY <1>12, RowSets DEF Outcomes
  <2>2. QED
    BY <2>1 DEF FromRow, Done, Finished, RowsOK, StepsPresent
<1>14. level[t] \in S
  BY <1>3, <1>13
<1>15. n <= level[t]
  BY <1>7, <1>14
<1>16. level[t] \in Nat /\ level[s] \in Nat /\ reach[e] \in Nat
  BY <1>5, <1>11
<1>17. QED
  BY <1>8, <1>11, <1>12, <1>15, <1>16

-----------------------------------------------------------------------------
(***************************************************************************)
(* No wake-up is lost                                                      *)
(***************************************************************************)

(* What the invariants say of a live job and of a snapshot. *)
LEMMA WakeParts ==
  ASSUME IInv, WakeInv, job \in Live
  PROVE  /\ cancelPc = "idle" /\ OpenLoops(row) /\ SnapshotsOrdered
         /\ PlansAreExact /\ ReportersInReserve /\ WorkIsSeen
         /\ row \in RowState /\ RowsOK(row)
         /\ handler \in [Handlers -> HandlerType] /\ snap \in [Handlers -> RowState]
         /\ \A h \in Handlers : At(h, "apply") =>
              /\ snap[h] \in RowState /\ RowsOK(snap[h]) /\ OpenLoops(snap[h])
              /\ Evolves(snap[h], row)
BY InvParts DEF WakeInv, LoopsAreOpen, HandlersOK

(* A handler that moves on without writing rows disturbs no other; what it *)
(* saw to has to be seen to.                                               *)
LEMMA WakeMove ==
  ASSUME WakeInv, job \in Live, row' = row, cancelPc' = cancelPc, NEW h \in Handlers,
         handler'[h].pc # "apply",
         \A k \in Handlers \ {h} : handler'[k] = handler[k] /\ snap'[k] = snap[k],
         InReserve(h) => InReserve(h)', Sees(h) => WorkIsSeen',
         AllDone /\ (At(h, "decide") \/ At(h, "settle")) => WorkIsSeen'
  PROVE  WakeInv'
<1>1. \A k \in Handlers : handler'[k].pc = "apply" =>
        k # h /\ At(k, "apply") /\ snap'[k] = snap[k] /\ handler'[k] = handler[k]
  BY DEF At
<1>2. LoopsAreOpen'
  BY <1>1 DEF WakeInv, LoopsAreOpen, At
<1>3. SnapshotsOrdered'
  BY <1>1 DEF WakeInv, SnapshotsOrdered, At
<1>4. PlansAreExact'
  BY <1>1 DEF WakeInv, PlansAreExact, At
<1>5. \A k \in Handlers : InReserve(k) => InReserve(k)'
  BY DEF InReserve, At
<1>6. ReportersInReserve'
  <2> SUFFICES ASSUME NEW k \in Handlers, handler'[k].pc = "apply", Work(snap'[k]) # {},
                      Fresh(snap'[k], row')
               PROVE  Same(snap'[k], row') \/ \E w \in Handlers \ {k} : InReserve(w)'
    BY DEF ReportersInReserve, At
  <2>1. Same(snap[k], row) \/ \E w \in Handlers \ {k} : InReserve(w)
    BY <1>1 DEF WakeInv, ReportersInReserve
  <2>2. QED
    BY <1>1, <1>5, <2>1
<1>7. \A k \in Handlers \ {h} : Sees(k) => Sees(k)'
  BY DEF Sees, At
<1>8. AllDone' <=> AllDone
  BY DEF AllDone, Present, Done
<1>9. WorkIsSeen'
  <2>1. CASE Work(row) = {} /\ ~AllDone
    BY <1>8, <2>1 DEF WorkIsSeen
  <2>2. CASE \E k \in Handlers : Sees(k)
    BY <1>7, <2>2 DEF WorkIsSeen
  <2>3. ASSUME AllDone, NEW k \in Handlers, At(k, "decide") \/ At(k, "settle") PROVE WorkIsSeen'
    <3>1. CASE k = h
      BY <2>3, <3>1
    <3>2. CASE k # h
      <4>1. At(k, "decide")' \/ At(k, "settle")'
        BY <2>3, <3>2 DEF At
      <4>2. QED
        BY <1>8, <2>3, <4>1 DEF WorkIsSeen
    <3>3. QED
      BY <3>1, <3>2
  <2>4. QED
    BY <2>1, <2>2, <2>3 DEF WakeInv, WorkIsSeen
<1>10. QED
  BY <1>2, <1>3, <1>4, <1>6, <1>9 DEF WakeInv

(* A row is started or retried: what there is to do does not change. *)
LEMMA StartOrRetryWakes ==
  ASSUME IInv, WakeInv, job \in Live, NEW r \in Rows, StartRow(r) \/ RetryRow(r)
  PROVE  WakeInv'
<1>0. PICK x \in {Cell("ready"), Cell("running")} :
        /\ row' = [row EXCEPT ![r] = x] /\ row \in RowState /\ RowsOK(row)
        /\ row[r].status \in {"ready", "running"} /\ r \notin Placeholders
        /\ handler' = handler /\ snap' = snap /\ cancelPc' = cancelPc
  BY InvParts DEF StartRow, RetryRow
<1>1. IInv' /\ Evolves(row, row') /\ row' \in RowState
  BY StartRowKeeps, RetryRowKeeps DEF IInv, KindsOK
<1>2. /\ x.status \in {"ready", "running"} /\ row'[r] = x
      /\ \A q \in Rows \ {r} : row'[q] = row[q]
  BY <1>0, RowValues DEF RowState
<1>3. Same(row, row')
  BY <1>0, <1>2 DEF Same
<1>4. ASSUME NEW f \in RowState
      PROVE  /\ Same(f, row) => Same(f, row')
             /\ Fresh(f, row) => Fresh(f, row')
             /\ Fresh(f, row') => Fresh(f, row)
  <2>1. Same(f, row) => Same(f, row')
    BY <1>0, <1>2 DEF Same
  <2>2. Fresh(f, row) => Fresh(f, row')
    BY <1>0, <1>2 DEF Fresh
  <2>3. Fresh(f, row') => Fresh(f, row)
    BY <1>0, <1>2 DEF Fresh
  <2>4. QED
    BY <2>1, <2>2, <2>3
<1>5. Work(row') = Work(row) /\ OpenLoops(row')
  <2>1. Work(row') = Work(row)
    BY <1>0, <1>1, <1>3, SameWork
  <2>2. OpenLoops(row')
    <3>1. \A p \in Placeholders : row'[p].status = row[p].status
      BY <1>0, <1>2, RowSets
    <3>2. \A q \in Instances : /\ row'[q].status = "absent" <=> row[q].status = "absent"
                               /\ row'[q].status = "pending" <=> row[q].status = "pending"
      BY <1>0, <1>2, RowSets
    <3>3. QED
      BY <1>0, <1>1, <3>1, <3>2, WakeParts, OpenLoopsLike
  <2>3. QED
    BY <2>1, <2>2
<1>6. ~AllDone /\ ~AllDone'
  BY <1>0, <1>2 DEF AllDone, Present, Done, Finished
<1>7. \A h \in Handlers : At(h, "apply") =>
        snap[h] \in RowState /\ (Overtaken(snap[h], row) => Overtaken(snap[h], row'))
  BY <1>0, <1>1, WakeParts, OvertakenStays
<1>8. \A h \in Handlers : Sees(h) => Sees(h)'
  BY <1>0, <1>4, <1>7 DEF Sees, At
<1>9. \A h \in Handlers : InReserve(h) => InReserve(h)'
  BY <1>0, <1>4, <1>7 DEF InReserve, At
<1>10. LoopsAreOpen' /\ SnapshotsOrdered'
  BY <1>0, <1>5, WakeParts DEF LoopsAreOpen, SnapshotsOrdered, At
<1>11. PlansAreExact'
  BY <1>0, <1>4, <1>7, WakeParts DEF PlansAreExact, At
<1>12. ReportersInReserve'
  BY <1>0, <1>4, <1>7, <1>9, WakeParts DEF ReportersInReserve, At
<1>13. WorkIsSeen'
  BY <1>0, <1>5, <1>6, <1>8, WakeParts DEF WorkIsSeen
<1>14. QED
  BY <1>0, <1>10, <1>11, <1>12, <1>13, WakeParts DEF WakeInv

(* A row ends by its report, and whoever reported will see to it. *)
LEMMA ReportRowWakes ==
  ASSUME IInv, WakeInv, job \in Live, NEW h \in Handlers, NEW r \in Rows, NEW result \in Results,
         ReportRow(h, r, result)
  PROVE  WakeInv'
<1>0. /\ row' = [row EXCEPT ![r] = Cell(result)] /\ row \in RowState /\ RowsOK(row)
      /\ handler \in [Handlers -> HandlerType] /\ At(h, "idle")
      /\ row[r].status = "running" /\ r \notin Placeholders /\ Goto(h, "read")
      /\ snap' = snap /\ cancelPc' = cancelPc
  BY InvParts DEF ReportRow
<1>1. IInv' /\ Evolves(row, row') /\ row' \in RowState
  BY ReportRowKeeps DEF IInv, KindsOK
<1>2. /\ Cell(result).status \notin {"absent", "pending"} /\ row'[r] = Cell(result)
      /\ \A q \in Rows \ {r} : row'[q] = row[q]
  <2>1. result \in {"completed", "failed", "cancelled"} /\ result \in Finished
    BY ChoiceAssumption DEF Finished
  <2>2. QED
    BY <1>0, <2>1, RowValues DEF RowState
<1>3. \A f \in RowState : Fresh(f, row) => Fresh(f, row')
  BY <1>0, <1>2 DEF Fresh
<1>4. OpenLoops(row')
  <2>1. \A p \in Placeholders : row'[p].status = row[p].status
    BY <1>0, <1>2, RowSets
  <2>2. \A q \in Instances : /\ row'[q].status = "absent" <=> row[q].status = "absent"
                             /\ row'[q].status = "pending" <=> row[q].status = "pending"
    BY <1>0, <1>2, RowSets
  <2>3. QED
    BY <1>0, <1>1, <2>1, <2>2, WakeParts, OpenLoopsLike
<1>5. PICK x \in HandlerType : x.pc = "read" /\ handler' = [handler EXCEPT ![h] = x]
  BY <1>0, GotoEffect
<1>6. handler'[h].pc = "read" /\ \A k \in Handlers \ {h} : handler'[k] = handler[k]
  BY <1>0, <1>5
<1>7. \A k \in Handlers : handler'[k].pc = "apply" =>
        /\ k # h /\ At(k, "apply") /\ snap[k] \in RowState
        /\ Overtaken(snap[k], row) => Overtaken(snap[k], row')
  <2> SUFFICES ASSUME NEW k \in Handlers, handler'[k].pc = "apply"
               PROVE  /\ k # h /\ At(k, "apply") /\ snap[k] \in RowState
                      /\ Overtaken(snap[k], row) => Overtaken(snap[k], row')
    OBVIOUS
  <2>1. k # h /\ At(k, "apply")
    BY <1>6 DEF At
  <2>2. QED
    BY <1>0, <1>1, <2>1, WakeParts, OvertakenStays
<1>8. LoopsAreOpen' /\ SnapshotsOrdered'
  BY <1>0, <1>4, <1>7, WakeParts DEF LoopsAreOpen, SnapshotsOrdered, At
<1>9. PlansAreExact'
  BY <1>0, <1>3, <1>7, WakeParts DEF PlansAreExact, At
<1>10. ReportersInReserve'
  <2>1. InReserve(h)'
    BY <1>6 DEF InReserve, At
  <2>2. QED
    BY <1>7, <2>1 DEF ReportersInReserve, At
<1>11. WorkIsSeen'
  BY <1>6 DEF WorkIsSeen, Sees, At
<1>12. QED
  BY <1>0, <1>8, <1>9, <1>10, <1>11, WakeParts DEF WakeInv

(* A handler finds the job live. *)
LEMMA ReadJobWakes ==
  ASSUME IInv, WakeInv, job \in Live, MaxAttempts >= 2, NEW h \in Handlers, ReadJob(h)
  PROVE  WakeInv'
<1>0. row' = row /\ snap' = snap /\ cancelPc' = cancelPc /\ handler \in [Handlers -> HandlerType]
  BY InvParts DEF ReadJob
<1>1. /\ handler'[h] = [pc |-> "snapshot", attempt |-> 1, outcome |-> "none"]
      /\ \A k \in Handlers \ {h} : handler'[k] = handler[k]
  BY <1>0 DEF ReadJob
<1>2. handler'[h].pc = "snapshot" /\ handler'[h].attempt = 1 /\ 1 < MaxAttempts
  BY <1>1, HandlerAssumption
<1>3. InReserve(h)' /\ Sees(h)'
  BY <1>2 DEF InReserve, Sees, At
<1>4. WorkIsSeen'
  BY <1>3 DEF WorkIsSeen
<1>5. QED
  BY <1>0, <1>1, <1>2, <1>3, <1>4, WakeMove

(* A handler takes its snapshot. *)
LEMMA TakeSnapshotWakes ==
  ASSUME IInv, WakeInv, job \in Live, NEW h \in Handlers, TakeSnapshot(h)
  PROVE  WakeInv'
<1>0. /\ row \in RowState /\ RowsOK(row)
      /\ handler \in [Handlers -> HandlerType] /\ snap \in [Handlers -> RowState]
      /\ row' = row /\ snap' = [snap EXCEPT ![h] = row] /\ At(h, "snapshot")
      /\ handler' = [handler EXCEPT ![h].pc = "apply"] /\ cancelPc' = cancelPc
  BY InvParts DEF TakeSnapshot, Goto
<1>1. /\ handler'[h].pc = "apply" /\ handler'[h].attempt = handler[h].attempt /\ snap'[h] = row
      /\ \A k \in Handlers \ {h} : handler'[k] = handler[k] /\ snap'[k] = snap[k]
  BY <1>0 DEF HandlerType
<1>2. Same(row, row) /\ Fresh(row, row)
  BY DEF Same, Fresh
<1>3. \A k \in Handlers \ {h} : handler'[k].pc = "apply" =>
        /\ At(k, "apply") /\ snap'[k] = snap[k] /\ snap[k] \in RowState /\ OpenLoops(snap[k])
        /\ Evolves(snap[k], row)
  BY <1>1, WakeParts DEF At
<1>4. LoopsAreOpen'
  BY <1>0, <1>1, <1>3, WakeParts DEF LoopsAreOpen, At
<1>5. SnapshotsOrdered'
  <2> SUFFICES ASSUME NEW j \in Handlers, NEW k \in Handlers,
                      handler'[j].pc = "apply", handler'[k].pc = "apply"
               PROVE  Evolves(snap'[j], snap'[k]) \/ Evolves(snap'[k], snap'[j])
    BY DEF SnapshotsOrdered, At
  <2>1. CASE j = h /\ k = h
    BY <1>0, <1>1, <2>1, EvolvesSame
  <2>2. CASE j = h /\ k # h
    BY <1>1, <1>3, <2>2
  <2>3. CASE j # h /\ k = h
    BY <1>1, <1>3, <2>3
  <2>4. CASE j # h /\ k # h
    BY <1>3, <2>4, WakeParts DEF SnapshotsOrdered
  <2>5. QED
    BY <2>1, <2>2, <2>3, <2>4
<1>6. PlansAreExact'
  <2> SUFFICES ASSUME NEW k \in Handlers, handler'[k].pc = "apply"
               PROVE  Work(snap'[k]) = {} \/ Fresh(snap'[k], row') \/ Overtaken(snap'[k], row')
    BY DEF PlansAreExact, At
  <2>1. CASE k = h
    BY <1>0, <1>1, <1>2, <2>1
  <2>2. CASE k # h
    BY <1>0, <1>3, <2>2, WakeParts DEF PlansAreExact
  <2>3. QED
    BY <2>1, <2>2
<1>7. ReportersInReserve'
  <2> SUFFICES ASSUME NEW k \in Handlers, handler'[k].pc = "apply", Work(snap'[k]) # {},
                      Fresh(snap'[k], row')
               PROVE  Same(snap'[k], row') \/ \E w \in Handlers \ {k} : InReserve(w)'
    BY DEF ReportersInReserve, At
  <2>1. CASE k = h
    BY <1>0, <1>1, <1>2, <2>1
  <2>2. CASE k # h
    <3>1. Same(snap[k], row) \/ \E w \in Handlers \ {k} : InReserve(w)
      BY <1>0, <1>3, <2>2, WakeParts DEF ReportersInReserve
    <3>2. Work(row) # {}
      <4>1. PICK r \in Work(snap[k]) : TRUE
        BY <1>3, <2>2
      <4>2. row[r].status = snap[k][r].status
        BY <1>0, <1>3, <2>2, <4>1, WorkStatus DEF Fresh
      <4>3. r \in Work(row)
        BY <1>0, <1>3, <2>2, <4>2, WakeParts, WorkStays
      <4>4. QED
        BY <4>3
    <3>3. \A w \in Handlers : InReserve(w) => InReserve(w)'
      <4> TAKE w \in Handlers
      <4>1. CASE w = h
        BY <1>0, <1>1, <1>2, <3>2, <4>1 DEF InReserve, At
      <4>2. CASE w # h
        BY <1>0, <1>1, <4>2 DEF InReserve, At
      <4>3. QED
        BY <4>1, <4>2
    <3>4. QED
      BY <1>0, <1>3, <2>2, <3>1, <3>3
  <2>3. QED
    BY <2>1, <2>2
<1>8. WorkIsSeen'
  <2>1. Sees(h)'
    BY <1>0, <1>1, <1>2 DEF Sees, At
  <2>2. QED
    BY <2>1 DEF WorkIsSeen
<1>9. QED
  BY <1>0, <1>4, <1>5, <1>6, <1>7, <1>8, WakeParts DEF WakeInv

(* A handler applies its plan: the rows have nothing left to do, or the    *)
(* advance in reserve takes over.                                          *)
LEMMA ApplyPlanWakes ==
  ASSUME IInv, WakeInv, job \in Live, NEW h \in Handlers, ApplyPlan(h)
  PROVE  WakeInv'
<1> DEFINE f == snap[h]
<1>0. /\ row \in RowState /\ RowsOK(row) /\ OpenLoops(row)
      /\ handler \in [Handlers -> HandlerType] /\ snap \in [Handlers -> RowState]
      /\ snap' = [snap EXCEPT ![h] = NoRows] /\ Goto(h, "decide") /\ At(h, "apply")
      /\ f \in RowState /\ RowsOK(f) /\ OpenLoops(f) /\ Evolves(f, row) /\ cancelPc' = cancelPc
  BY WakeParts DEF ApplyPlan
<1>1. PICK when \in Conditions, items \in ItemChoices :
        LET g == Run(f, when, items) IN
        /\ GuardsHold(f, g)
        /\ row' = [r \in Rows |-> IF r \in Changes(f, g) THEN g[r] ELSE row[r]]
  BY DEF ApplyPlan
<1>2. items \in [Placeholders -> Nat]
  BY ChoiceTypes
<1> DEFINE g == Run(f, when, items)
<1>3. row' = Merged(f, g, row) /\ \A r \in Changes(f, g) : row[r].status = f[r].status
  BY <1>1 DEF Merged, GuardsHold
<1>4. IInv' /\ Evolves(row, row') /\ row' \in RowState
  BY ApplyPlanKeeps DEF IInv, KindsOK
<1>5. PICK x \in HandlerType : x.pc = "decide" /\ handler' = [handler EXCEPT ![h] = x]
  BY <1>0, GotoEffect
<1>6. /\ handler'[h].pc = "decide"
      /\ \A k \in Handlers \ {h} : handler'[k] = handler[k] /\ snap'[k] = snap[k]
  BY <1>0, <1>5
<1>7. ASSUME Work(row') = {} PROVE WorkIsSeen'
  BY <1>6, <1>7 DEF WorkIsSeen, At
<1>8. CASE Work(f) = {}
  <2>1. g = f
    BY <1>0, <1>2, <1>8, RunIdle
  <2> HIDE DEF g
  <2>2. row' = row
    BY <1>0, <1>3, <2>1 DEF Merged, Changes, RowState
  <2>3. ~InReserve(h)
    BY <1>0, <1>8 DEF InReserve, At
  <2>4. Sees(h) => WorkIsSeen'
    <3> SUFFICES ASSUME Sees(h) PROVE WorkIsSeen'
      OBVIOUS
    <3>1. Same(f, row)
      BY <1>0, <1>8 DEF Sees, At, Overtaken
    <3>2. Work(row') = {}
      BY <1>0, <1>8, <2>2, <3>1, SameWork
    <3>3. QED
      BY <1>7, <3>2
  <2>5. ~(At(h, "decide") \/ At(h, "settle"))
    BY <1>0 DEF At
  <2>6. QED
    BY <1>0, <1>6, <2>2, <2>3, <2>4, <2>5, WakeMove
<1>9. CASE Work(f) # {}
  <2>1. Fresh(f, row)
    <3>1. ~Overtaken(f, row)
      BY <1>0, <1>2, <1>3, OvertakenMisses
    <3>2. QED
      BY <1>0, <1>9, <3>1, WakeParts DEF PlansAreExact
  <2>2. g \in RowState /\ Planned(f, g) /\ OpenLoops(g) /\ Work(g) = {}
    BY <1>0, <1>2, RunPlanned, RunSettles
  <2>3. ASSUME NEW k \in Handlers, handler'[k].pc = "apply"
        PROVE  /\ k # h /\ At(k, "apply") /\ snap'[k] = snap[k] /\ handler'[k] = handler[k]
               /\ snap[k] \in RowState /\ RowsOK(snap[k]) /\ OpenLoops(snap[k]) /\ Evolves(snap[k], row)
               /\ Work(snap[k]) = {} \/ Overtaken(snap[k], row')
    <3>1. k # h /\ At(k, "apply") /\ snap'[k] = snap[k] /\ handler'[k] = handler[k]
      BY <1>6, <2>3 DEF At
    <3>2. snap[k] \in RowState /\ RowsOK(snap[k]) /\ OpenLoops(snap[k]) /\ Evolves(snap[k], row)
      BY <3>1, WakeParts
    <3>3. CASE Work(snap[k]) # {} /\ Fresh(snap[k], row)
      <4>1. Evolves(f, snap[k]) \/ Evolves(snap[k], f)
        BY <1>0, <3>1, WakeParts DEF SnapshotsOrdered
      <4>2. QED
        BY <1>0, <1>2, <1>3, <1>4, <1>9, <2>1, <3>1, <3>2, <3>3, <4>1, Overtakes
    <3>4. CASE Overtaken(snap[k], row)
      BY <1>0, <1>4, <3>1, <3>2, <3>4, OvertakenStays
    <3>5. QED
      BY <3>1, <3>2, <3>3, <3>4, WakeParts DEF PlansAreExact
  <2> HIDE DEF g
  <2>4. OpenLoops(row')
    BY <1>0, <1>3, <2>1, <2>2, MergeOpen
  <2>5. LoopsAreOpen'
    BY <2>3, <2>4 DEF LoopsAreOpen, At
  <2>6. SnapshotsOrdered'
    BY <2>3, WakeParts DEF SnapshotsOrdered, At
  <2>7. PlansAreExact'
    BY <2>3 DEF PlansAreExact, At
  <2>8. ReportersInReserve'
    <3> SUFFICES ASSUME NEW k \in Handlers, handler'[k].pc = "apply", Work(snap'[k]) # {},
                        Fresh(snap'[k], row')
                 PROVE  FALSE
      BY DEF ReportersInReserve, At
    <3>1. snap'[k] = snap[k] /\ Overtaken(snap[k], row')
      BY <2>3
    <3>2. QED
      BY <1>2, <1>4, <2>3, <3>1, OvertakenMisses
  <2>9. WorkIsSeen'
    <3>1. CASE Same(f, row)
      <4>1. Same(g, row')
        BY <1>0, <1>3, <2>2, <3>1, MergeSame
      <4>2. Work(row') = {}
        BY <1>4, <2>2, <4>1, SameWork
      <4>3. QED
        BY <1>7, <4>2
    <3>2. ASSUME NEW w \in Handlers \ {h}, InReserve(w) PROVE WorkIsSeen'
      <4>1. handler'[w] = handler[w] /\ snap'[w] = snap[w]
        BY <1>6
      <4>2. Sees(w)'
        <5>1. CASE At(w, "read") \/ At(w, "snapshot")
          BY <4>1, <5>1 DEF Sees, At
        <5>2. CASE At(w, "apply") /\ handler[w].attempt < MaxAttempts /\ Work(snap[w]) # {}
          <6>1. Overtaken(snap[w], row')
            BY <2>3, <4>1, <5>2 DEF At
          <6>2. QED
            BY <4>1, <5>2, <6>1 DEF Sees, At
        <5>3. QED
          BY <3>2, <5>1, <5>2 DEF InReserve
      <4>3. QED
        BY <4>2 DEF WorkIsSeen
    <3>3. QED
      BY <1>0, <1>9, <2>1, <3>1, <3>2, WakeParts DEF ReportersInReserve
  <2>10. QED
    BY <1>0, <2>5, <2>6, <2>7, <2>8, <2>9, WakeParts DEF WakeInv
<1>10. QED
  BY <1>8, <1>9

(* A guard that misses was overtaken, not just outrun by workers. *)
LEMMA MissIsNotFresh ==
  ASSUME IInv, WakeInv, job \in Live, NEW h \in Handlers, At(h, "apply"),
         \E when \in Conditions, items \in ItemChoices :
           ~GuardsHold(snap[h], Run(snap[h], when, items))
  PROVE  ~Fresh(snap[h], row) /\ ~Same(snap[h], row)
<1>0. snap[h] \in RowState /\ RowsOK(snap[h]) /\ row \in RowState
  BY WakeParts
<1>1. PICK when \in Conditions, items \in ItemChoices :
        ~GuardsHold(snap[h], Run(snap[h], when, items))
  OBVIOUS
<1>2. items \in [Placeholders -> Nat]
  BY ChoiceTypes
<1> DEFINE g == Run(snap[h], when, items)
<1>3. g \in RowState /\ Planned(snap[h], g)
  BY <1>0, <1>2, RunPlanned
<1>4. ~GuardsHold(snap[h], g)
  BY <1>1
<1> HIDE DEF g
<1>5. ~Fresh(snap[h], row)
  BY <1>0, <1>3, <1>4, FreshGuards DEF GuardsHold
<1>6. QED
  BY <1>0, <1>5, SameFresh

(* A guard misses, and the handler runs again. *)
LEMMA GuardMissWakes ==
  ASSUME IInv, WakeInv, job \in Live, NEW h \in Handlers, GuardMiss(h)
  PROVE  WakeInv'
<1>0. /\ handler \in [Handlers -> HandlerType] /\ snap \in [Handlers -> RowState]
      /\ snap' = [snap EXCEPT ![h] = NoRows] /\ row' = row /\ cancelPc' = cancelPc
      /\ At(h, "apply")
  BY InvParts DEF GuardMiss
<1>1. /\ handler'[h].pc = "snapshot"
      /\ \A k \in Handlers \ {h} : handler'[k] = handler[k] /\ snap'[k] = snap[k]
  BY <1>0 DEF GuardMiss, HandlerType
<1>2. ~Fresh(snap[h], row)
  BY <1>0, MissIsNotFresh DEF GuardMiss
<1>3. ~InReserve(h)
  BY <1>0, <1>2 DEF InReserve, At
<1>4. WorkIsSeen'
  BY <1>1 DEF WorkIsSeen, Sees, At
<1>5. QED
  BY <1>0, <1>1, <1>3, <1>4, WakeMove

(* A handler gives up: it was not the one that saw to the work. *)
LEMMA ExhaustedWakes ==
  ASSUME IInv, WakeInv, job \in Live, job' \in Live, NEW h \in Handlers, Exhausted(h)
  PROVE  WakeInv'
<1>0. /\ handler \in [Handlers -> HandlerType] /\ snap \in [Handlers -> RowState]
      /\ snap' = [snap EXCEPT ![h] = NoRows] /\ handler' = [handler EXCEPT ![h] = Idle]
      /\ cancelPc' = cancelPc /\ At(h, "apply") /\ handler[h].attempt = MaxAttempts
  BY InvParts DEF Exhausted, Return
<1>1. row' = row
  BY DEF Exhausted, Live
<1>2. /\ handler'[h].pc = "idle"
      /\ \A k \in Handlers \ {h} : handler'[k] = handler[k] /\ snap'[k] = snap[k]
  BY <1>0, IdleType
<1>3. ~Fresh(snap[h], row) /\ ~Same(snap[h], row)
  BY <1>0, MissIsNotFresh DEF Exhausted
<1>4. ~(handler[h].attempt < MaxAttempts)
  BY <1>0, HandlerAssumption
<1>5. ~InReserve(h) /\ ~Sees(h) /\ ~At(h, "decide") /\ ~At(h, "settle")
  BY <1>0, <1>3, <1>4 DEF InReserve, Sees, At
<1>6. QED
  BY <1>0, <1>1, <1>2, <1>5, WakeMove

(* A handler decides from the rows. *)
LEMMA DecideWakes ==
  ASSUME IInv, WakeInv, job \in Live, NEW h \in Handlers, Decide(h)
  PROVE  WakeInv'
<1>0. /\ handler \in [Handlers -> HandlerType] /\ snap' = snap /\ row' = row
      /\ cancelPc' = cancelPc /\ At(h, "decide")
  BY InvParts DEF Decide
<1>1. ~InReserve(h) /\ ~Sees(h)
  BY <1>0 DEF InReserve, Sees, At
<1>2. CASE AllDone
  <2>1. /\ handler'[h].pc = "settle"
        /\ \A k \in Handlers \ {h} : handler'[k] = handler[k]
    BY <1>0, <1>2 DEF Decide, HandlerType
  <2>2. AllDone'
    BY <1>0, <1>2 DEF AllDone, Present, Done
  <2>3. WorkIsSeen'
    BY <2>1, <2>2 DEF WorkIsSeen, At
  <2>4. QED
    BY <1>0, <1>1, <2>1, <2>3, WakeMove
<1>3. CASE ~AllDone
  <2>1. /\ handler'[h].pc = "idle"
        /\ \A k \in Handlers \ {h} : handler'[k] = handler[k]
    BY <1>0, <1>3, IdleType DEF Decide, Return
  <2>2. QED
    BY <1>0, <1>1, <1>3, <2>1, WakeMove
<1>4. QED
  BY <1>2, <1>3

(* Every step keeps the invariant: a job that is settled or cancelled is   *)
(* not live.                                                               *)
LEMMA WakeKept ==
  ASSUME MaxAttempts >= 2
  PROVE  IInv /\ WakeInv /\ [Next]_vars => WakeInv' \/ LateStep
<1> SUFFICES ASSUME IInv, WakeInv, [Next]_vars, job' \in Live PROVE WakeInv' \/ LateStep
  BY DEF WakeInv
<1>1. ASSUME NEW r \in Rows, StartRow(r) \/ RetryRow(r) PROVE WakeInv'
  <2>1. job \in Live
    BY <1>1 DEF StartRow, RetryRow, Live
  <2>2. QED
    BY <1>1, <2>1, StartOrRetryWakes
<1>2. ASSUME NEW h \in Handlers, NEW r \in Rows, NEW result \in Results, ReportRow(h, r, result)
      PROVE  WakeInv'
  <2>1. job \in Live
    BY <1>2 DEF ReportRow
  <2>2. QED
    BY <1>2, <2>1, ReportRowWakes
<1>3. ASSUME NEW h \in Handlers, HandlerStep(h) PROVE WakeInv'
  <2>1. CASE ReadJob(h)
    <3>1. job \in Live
      BY <2>1 DEF ReadJob
    <3>2. QED
      BY <2>1, <3>1, ReadJobWakes
  <2>2. CASE TakeSnapshot(h)
    <3>1. job \in Live
      BY <2>2 DEF TakeSnapshot
    <3>2. QED
      BY <2>2, <3>1, TakeSnapshotWakes
  <2>3. CASE ApplyPlan(h)
    <3>1. job \in Live
      BY <2>3 DEF ApplyPlan, Live
    <3>2. QED
      BY <2>3, <3>1, ApplyPlanWakes
  <2>4. CASE GuardMiss(h)
    <3>1. job \in Live
      BY <2>4 DEF GuardMiss
    <3>2. QED
      BY <2>4, <3>1, GuardMissWakes
  <2>5. CASE Exhausted(h)
    <3>1. job \in Live
      BY <2>5 DEF Exhausted, Live
    <3>2. QED
      BY <2>5, <3>1, ExhaustedWakes
  <2>6. CASE Decide(h)
    <3>1. job \in Live
      BY <2>6 DEF Decide
    <3>2. QED
      BY <2>6, <3>1, DecideWakes
  <2>7. CASE SettleJob(h)
    <3>1. handler[h].outcome = Outcome
      BY <2>7, InvParts DEF SettleJob, HandlersOK
    <3>2. Outcome \notin Live
      BY DEF Outcome, Live
    <3>3. QED
      BY <2>7, <3>1, <3>2 DEF SettleJob
  <2>8. QED
    BY <1>3, <2>1, <2>2, <2>3, <2>4, <2>5, <2>6, <2>7 DEF HandlerStep
<1>4. CASE CancelStep
  <2>1. CASE CancelJob
    BY <2>1 DEF CancelJob, Live
  <2>2. CASE cancelPc # "idle" /\ job' = job
    BY <2>2 DEF WakeInv
  <2>3. QED
    BY <1>4, <2>1, <2>2 DEF CancelStep, CancelMatches, CancelPendingSteps, CancelServerManaged
<1>5. CASE UNCHANGED vars
  <2>1. job' = job /\ row' = row /\ handler' = handler /\ snap' = snap /\ cancelPc' = cancelPc
    BY <1>5 DEF vars
  <2>2. /\ LoopsAreOpen' = LoopsAreOpen /\ SnapshotsOrdered' = SnapshotsOrdered
        /\ PlansAreExact' = PlansAreExact
    BY <2>1 DEF LoopsAreOpen, SnapshotsOrdered, PlansAreExact, At
  <2>3. ReportersInReserve' = ReportersInReserve
    BY <2>1 DEF ReportersInReserve, InReserve, At
  <2>4. WorkIsSeen' = WorkIsSeen
    BY <2>1 DEF WorkIsSeen, Sees, At, AllDone, Present, Done
  <2>5. QED
    BY <2>1, <2>2, <2>3, <2>4 DEF WakeInv
<1>6. QED
  BY <1>1, <1>2, <1>3, <1>4, <1>5 DEF Next, Progress

(* A job begins with its creator about to cascade. *)
LEMMA WakeInit == Init => WakeInv
<1> SUFFICES ASSUME Init PROVE WakeInv
  OBVIOUS
<1>1. \A r \in Instances : row[r].status = "absent"
  BY RowSets, RowValues DEF Init, InitialRow
<1>2. \A p \in Placeholders : row[p].status = "pending"
  BY RowSets, RowValues DEF Init, InitialRow
<1>3. OpenLoops(row)
  BY <1>1, <1>2 DEF OpenLoops
<1>4. \A h \in Handlers : ~At(h, "apply")
  BY DEF Init, At, Idle
<1>5. At(Creator, "snapshot") /\ Creator \in Handlers
  BY HandlerAssumption DEF Init, At
<1>6. WorkIsSeen
  BY <1>5 DEF WorkIsSeen, Sees
<1>7. QED
  BY <1>3, <1>4, <1>6 DEF Init, WakeInv, LoopsAreOpen, SnapshotsOrdered, PlansAreExact, ReportersInReserve

(* What the invariant is for. *)
LEMMA WakeImplies == IInv /\ WakeInv => NoLostWakeup
<1> SUFFICES ASSUME IInv, WakeInv, job \in Live, \A h \in Handlers : At(h, "idle")
             PROVE  /\ \E r \in Rows \ Placeholders : row[r].status \in {"ready", "running"}
                    /\ \A when \in Conditions, items \in ItemChoices : Pass(row, when, items) = row
  BY DEF NoLostWakeup
<1>0. row \in RowState /\ RowsOK(row) /\ OpenLoops(row) /\ WorkIsSeen
  BY WakeParts
<1>1. Work(row) = {} /\ ~AllDone
  BY <1>0 DEF WorkIsSeen, Sees, At
<1>2. \E r \in Rows : row[r].status # "absent" /\ ~Done(row, r)
  BY <1>1 DEF AllDone, Present
<1>3. \E r \in Rows \ Placeholders : row[r].status \in {"ready", "running"}
  BY <1>0, <1>1, <1>2, SomethingRuns
<1>4. \A when \in Conditions, items \in ItemChoices : Pass(row, when, items) = row
  BY <1>0, <1>1, ChoiceTypes, PassIsWork
<1>5. QED
  BY <1>3, <1>4

-----------------------------------------------------------------------------
(***************************************************************************)
(* What holds with late reports too: types, and what a cancel leaves       *)
(***************************************************************************)

(* Moves can be followed. *)
LEMMA MovesOn ==
  ASSUME NEW f \in RowState, NEW g \in RowState, NEW h \in RowState,
         Orderly(f), Orderly(g), Moves(f, g), Moves(g, h)
  PROVE  Moves(f, h)
<1>1. ASSUME NEW r \in Rows
      PROVE  /\ f[r].status # "absent" => h[r].status # "absent"
             /\ h[r].status = "pending" => f[r].status \in {"absent", "pending"}
             /\ h[r].status = "ready" => f[r].status \in {"absent", "pending", "ready"}
  BY DEF Moves
<1>2. ASSUME NEW r \in Instances, f[r].status = "absent", h[r].status # "absent"
      PROVE  f[r[1]].status = "pending" /\ h[r[1]].status # "pending"
  <2>1. r \in Rows /\ r[1] \in FlowSteps /\ r[1] \in Rows
    BY RowSets
  <2>2. g[r[1]].status # "absent" /\ f[r[1]].status # "absent"
    BY <2>1 DEF Orderly, StepsPresent
  <2>3. QED
    BY <1>2, <2>1, <2>2 DEF Moves
<1>3. QED
  BY <1>1, <1>2 DEF Moves

(* Rows that do not move. *)
LEMMA MovesSame == ASSUME NEW f \in RowState PROVE Moves(f, f)
BY DEF Moves

(* The four values of a step that is decided. *)
LEMMA DecidedStatus ==
  ASSUME NEW f \in RowState, NEW s \in FlowSteps, NEW when, NEW go
  PROVE  LET x == Decided(f, s, when, go) IN
         x = f[s] \/ x = go \/ x.status \in {"skipped", "failed"}
<1>1. GateFor(f, s) \in {"wait", "open", "omitted"}
  BY DEF GateFor, GateOf
<1>2. /\ Skip("unreachable").status = "skipped" /\ Skip("condition").status = "skipped"
      /\ Cell("failed").status = "failed"
  BY RowValues DEF Finished
<1>3. Decided(f, s, when, go) \in {f[s], go, Skip("unreachable"), Skip("condition"), Cell("failed")}
  BY <1>1 DEF Decided
<1>4. QED
  BY <1>2, <1>3

(* A relay of phase_promote moves steps that wait. *)
LEMMA RelayMoves ==
  ASSUME NEW f \in RowState, Orderly(f), NEW when
  PROVE  Orderly(Relay(f, when)) /\ Moves(f, Relay(f, when))
<1> DEFINE g == Relay(f, when)
<1>1. \A r \in Rows :
        \/ g[r] = f[r]
        \/ /\ r \in FlowSteps \ Placeholders /\ f[r].status = "pending"
           /\ g[r].status \in {"ready", "skipped", "failed"}
  <2> TAKE r \in Rows
  <2>1. CASE r \in FlowSteps \ Placeholders /\ f[r].status = "pending"
    <3>1. g[r] = Decided(f, r, when, Cell("ready"))
      BY <2>1 DEF Relay
    <3>2. Cell("ready").status = "ready"
      BY RowValues
    <3>3. g[r] = f[r] \/ g[r] = Cell("ready") \/ g[r].status \in {"skipped", "failed"}
      BY <2>1, <3>1, DecidedStatus
    <3>4. QED
      BY <2>1, <3>2, <3>3
  <2>2. CASE ~(r \in FlowSteps \ Placeholders /\ f[r].status = "pending")
    BY <2>2 DEF Relay
  <2>3. QED
    BY <2>1, <2>2
<1> HIDE DEF g
<1>2. \A r \in Instances : /\ r \in Rows /\ r \notin FlowSteps /\ g[r] = f[r]
                           /\ r[1] \in Rows /\ r[1] \in Placeholders /\ g[r[1]] = f[r[1]]
  BY <1>1, RowSets
<1>3. \A s \in FlowSteps : s \in Rows
  BY RowSets
<1>4. QED
  BY <1>1, <1>2, <1>3 DEF Orderly, StepsPresent, NoOrphans, Moves, g

(* phase_placeholders moves loops that wait, and inserts their instances.  *)
LEMMA PlaceholdersMove ==
  ASSUME NEW f \in RowState, Orderly(f), NEW when, NEW items \in [Placeholders -> Nat]
  PROVE  LET g == PhasePlaceholders(f, when, items)
         IN g \in RowState /\ Orderly(g) /\ Moves(f, g)
<1> DEFINE g == PhasePlaceholders(f, when, items)
           opened(p) == CASE items[p] = 0 -> Skip("empty")
                          [] items[p] > MaxItems -> Cell("failed")
                          [] OTHER -> Cell("running")
           value(p) == IF f[p].status = "pending" THEN Decided(f, p, when, opened(p)) ELSE f[p]
           expands(p) == f[p].status = "pending" /\ value(p).status = "running"
<1>0. /\ \A r \in Rows : f[r] \in RowValue
      /\ \A s \in FlowSteps : f[s].status # "absent"
      /\ \A r \in Instances : f[r[1]].status = "pending" => f[r].status = "absent"
  BY DEF RowState, Orderly, StepsPresent, NoOrphans
<1>1. \A p \in Placeholders : ~(f[p].status = "pending" /\ MaxItems > 0 /\ f[<<p, 0>>].status # "absent")
  <2> TAKE p \in Placeholders
  <2>1. MaxItems > 0 => <<p, 0>> \in Instances /\ <<p, 0>>[1] = p
    BY RowSets
  <2>2. QED
    BY <1>0, <2>1
<1>2. \A p \in Placeholders : p \in Rows /\ p \notin Instances /\ p \in FlowSteps
  BY RowSets
<1>3. \A p \in Placeholders : g[p] = value(p)
  BY <1>1, <1>2 DEF PhasePlaceholders
<1>4. \A s \in FlowSteps \ Placeholders : g[s] = f[s]
  BY RowSets DEF PhasePlaceholders
<1>5. ASSUME NEW r \in Instances
      PROVE  \/ g[r] = f[r]
             \/ expands(r[1]) /\ g[r] \in {Cell("pending"), Cell("ready")}
  <2>1. r[1] \in Placeholders /\ r \in Rows
    BY RowSets
  <2>2. QED
    BY <1>1, <1>2, <2>1 DEF PhasePlaceholders
<1>6. \A p \in Placeholders :
        /\ opened(p) \in RowValue /\ opened(p).status \in {"running", "skipped", "failed"}
        /\ value(p) \in RowValue
        /\ \/ value(p) = f[p]
           \/ f[p].status = "pending" /\ value(p).status \in {"running", "skipped", "failed"}
  <2> TAKE p \in Placeholders
  <2>1. opened(p) \in {Cell("running"), Cell("failed"), Skip("empty")}
    OBVIOUS
  <2> HIDE DEF opened
  <2>2. opened(p) \in RowValue /\ opened(p).status \in {"running", "skipped", "failed"}
    BY <2>1, RowValues DEF Finished
  <2>3. /\ Decided(f, p, when, opened(p)) \in RowValue
        /\ \/ Decided(f, p, when, opened(p)) \in {f[p], opened(p)}
           \/ Decided(f, p, when, opened(p)).status \in {"skipped", "failed"}
    BY <1>2, <2>2, DecidedType, DecidedStatus
  <2>4. QED
    BY <1>0, <1>2, <2>2, <2>3
<1> HIDE DEF opened, value
<1>7. /\ Cell("pending") \in RowValue /\ Cell("pending").status = "pending"
      /\ Cell("ready") \in RowValue /\ Cell("ready").status = "ready"
  BY RowValues
<1>8. \A r \in Rows : g[r] \in RowValue
  BY <1>0, <1>3, <1>4, <1>5, <1>6, <1>7, RowSets
<1>9. g \in RowState
  BY <1>8 DEF PhasePlaceholders, RowState
<1> HIDE DEF g
<1>10. \A s \in FlowSteps :
         \/ g[s] = f[s]
         \/ f[s].status = "pending" /\ g[s].status \in {"running", "skipped", "failed"}
  BY <1>3, <1>4, <1>6
<1>11. \A r \in Instances :
         \/ g[r] = f[r]
         \/ /\ f[r[1]].status = "pending" /\ g[r[1]].status = "running"
            /\ f[r].status = "absent" /\ g[r].status \in {"pending", "ready"}
  <2> TAKE r \in Instances
  <2>1. r[1] \in Placeholders
    BY RowSets
  <2>2. QED
    BY <1>0, <1>3, <1>5, <1>7, <2>1
<1>12. Moves(f, g)
  BY <1>10, <1>11, RowSets DEF Moves
<1>13. Orderly(g)
  <2>1. StepsPresent(g)
    BY <1>0, <1>10 DEF StepsPresent
  <2>2. NoOrphans(g)
    <3> SUFFICES ASSUME NEW r \in Instances, g[r[1]].status = "pending" PROVE g[r].status = "absent"
      BY DEF NoOrphans
    <3>1. r[1] \in FlowSteps
      BY RowSets
    <3>2. f[r[1]].status = "pending"
      BY <1>10, <3>1
    <3>3. QED
      BY <1>0, <1>11, <3>2
  <2>3. QED
    BY <2>1, <2>2 DEF Orderly
<1>14. QED
  BY <1>9, <1>12, <1>13 DEF g

(* A pass makes no row wait or claimable that did not wait and was there,  *)
(* and keeps the rows orderly.                                             *)
LEMMA PassMoves ==
  ASSUME NEW f \in RowState, Orderly(f), NEW when, NEW items \in [Placeholders -> Nat]
  PROVE  Orderly(Pass(f, when, items)) /\ Moves(f, Pass(f, when, items))
<1> DEFINE a == PhaseRollup(f)
           b == PhasePromote(a, when)
           c == PhasePlaceholders(b, when, items)
<1>1. a \in RowState /\ Orderly(a) /\ Moves(f, a)
  <2>1. /\ a \in RowState
        /\ \A r \in Rows : \/ a[r] = f[r]
                           \/ f[r].status = "running" /\ a[r].status \in {"completed", "failed"}
                           \/ /\ f[r].status = "pending" /\ a[r].status \in {"skipped", "ready"}
                              /\ r \in Instances
    <3>1. /\ Cell("failed").status = "failed" /\ Cell("completed").status = "completed"
          /\ Cell("ready").status = "ready" /\ Skip("unreachable").status = "skipped"
      BY RowValues DEF Finished
    <3>2. a \in RowState
      BY RollupEffect
    <3>3. \A s \in FlowSteps \ Placeholders : a[s] = f[s]
      BY RollupEffect
    <3>4. \A p \in Placeholders :
            a[p] = f[p] \/ (f[p].status = "running" /\ a[p] \in {Cell("failed"), Cell("completed")})
      BY RollupEffect
    <3>5. \A r \in Instances :
            a[r] = f[r] \/ (f[r].status = "pending" /\ a[r] \in {Skip("unreachable"), Cell("ready")})
      BY RollupEffect
    <3> HIDE DEF a
    <3>6. QED
      BY <3>1, <3>2, <3>3, <3>4, <3>5, RowSets
  <2> HIDE DEF a
  <2>2. \A r \in Rows : a[r].status = "absent" <=> f[r].status = "absent"
    BY <2>1
  <2>3. \A s \in FlowSteps : s \notin Instances /\ s \in Rows
    BY RowSets
  <2>4. \A r \in Instances : r \in Rows /\ r[1] \in FlowSteps
    BY RowSets
  <2>5. Moves(f, a)
    BY <2>1, <2>2, <2>4 DEF Moves
  <2>6. Orderly(a)
    BY <2>1, <2>2, <2>3, <2>4 DEF Orderly, StepsPresent, NoOrphans
  <2>7. QED
    BY <2>1, <2>5, <2>6
<1>2. b \in RowState /\ Orderly(b) /\ Moves(a, b)
  <2> DEFINE C == [h \in RowState |-> Relay(h, when)]
             X == {h \in RowState : Orderly(h) /\ Moves(a, h)}
  <2>1. Cardinality(FlowSteps) \in Nat
    BY FlowAssumption, FS_CardinalityType
  <2>2. C \in [RowState -> RowState]
    BY RelayType
  <2>3. a \in X
    BY <1>1, MovesSame
  <2>4. \A h \in X : C[h] \in X
    <3> TAKE h \in X
    <3>1. h \in RowState /\ Orderly(h) /\ Moves(a, h)
      OBVIOUS
    <3>2. Relay(h, when) \in RowState /\ Orderly(Relay(h, when)) /\ Moves(h, Relay(h, when))
      BY <3>1, RelayMoves, RelayType
    <3>3. Moves(a, Relay(h, when))
      BY <1>1, <3>1, <3>2, MovesOn
    <3>4. QED
      BY <3>1, <3>2, <3>3
  <2>5. UntilStable(C, Cardinality(FlowSteps), a) \in X
    <3> HIDE DEF C, X
    <3>1. X \in SUBSET RowState
      BY DEF X
    <3>2. QED
      BY <2>1, <2>2, <2>3, <2>4, <3>1, StaysWithin
  <2>6. QED
    BY <2>5 DEF PhasePromote
<1>3. c \in RowState /\ Orderly(c) /\ Moves(b, c)
  <2> HIDE DEF a, b
  <2>1. QED
    BY <1>2, PlaceholdersMove
<1>4. Moves(f, b)
  <2> HIDE DEF a, b
  <2>1. QED
    BY <1>1, <1>2, MovesOn
<1>5. Moves(f, c)
  <2> HIDE DEF b, c
  <2>1. QED
    BY <1>2, <1>3, <1>4, MovesOn
<1>6. QED
  BY <1>3, <1>5 DEF Pass

(* ... and so does run. *)
LEMMA RunMoves ==
  ASSUME NEW f \in RowState, Orderly(f), NEW when, NEW items \in [Placeholders -> Nat]
  PROVE  /\ Run(f, when, items) \in RowState
         /\ Moves(f, Run(f, when, items))
<1> DEFINE C == [g \in RowState |-> Pass(g, when, items)]
           X == {g \in RowState : Orderly(g) /\ Moves(f, g)}
<1>1. PassBound(f) \in Nat
  BY PassBoundType
<1>2. C \in [RowState -> RowState]
  BY PassType
<1>3. f \in X
  BY MovesSame
<1>4. \A g \in X : C[g] \in X
  <2> TAKE g \in X
  <2>1. Orderly(g) /\ Moves(f, g) /\ g \in RowState
    OBVIOUS
  <2>2. Orderly(Pass(g, when, items)) /\ Moves(g, Pass(g, when, items))
    BY <2>1, PassMoves
  <2>3. Pass(g, when, items) \in RowState
    BY <2>1, PassType
  <2>4. Moves(f, Pass(g, when, items))
    BY <2>1, <2>2, <2>3, MovesOn
  <2>5. QED
    BY <2>1, <2>2, <2>3, <2>4
<1>5. UntilStable(C, PassBound(f), f) \in X
  <2> HIDE DEF C, X
  <2>1. X \in SUBSET RowState
    BY DEF X
  <2>2. QED
    BY <1>1, <1>2, <1>3, <1>4, <2>1, StaysWithin
<1>6. QED
  BY <1>5 DEF Run

(* It holds when the job is created. *)
LEMMA InitSwept == Init => TypeOK /\ Settlers /\ Swept
<1> SUFFICES ASSUME Init PROVE TypeOK /\ Settlers /\ Swept
  OBVIOUS
<1>1. KindsOK /\ Orderly(row)
  BY InvInit DEF IInv, RowsOK, Orderly
<1>2. late \in 0 .. MaxLate /\ claimed = {} /\ matched = {} /\ cancelPc = "idle"
  BY HandlerAssumption DEF Init
<1>3. \A h \in Handlers : ~At(h, "apply") /\ ~At(h, "settle")
  BY DEF Init, At, Idle
<1>4. TypeOK
  BY <1>1, <1>2 DEF KindsOK, TypeOK
<1>5. Swept
  BY <1>1, <1>2, <1>3 DEF Swept
<1>6. QED
  BY <1>3, <1>4, <1>5 DEF Settlers

(* TypeOK of a step that leaves the cancel alone.                          *)
LEMMA TypesStep ==
  ASSUME TypeOK, row' \in RowState, handler' \in [Handlers -> HandlerType],
         snap' \in [Handlers -> RowState], UNCHANGED <<cancelPc, matched>>,
         job' \in Live \cup {"completed", "failed", "cancelled"},
         claimed' \subseteq Rows, late' \in 0 .. MaxLate
  PROVE  TypeOK'
BY DEF TypeOK, HandlerType

(* The types of the variables. *)
LEMMA TypesHere ==
  ASSUME TypeOK
  PROVE  /\ row \in RowState /\ \A r \in Rows : row[r] \in RowValue
         /\ handler \in [Handlers -> HandlerType] /\ snap \in [Handlers -> RowState]
         /\ job \in Live \cup {"completed", "failed", "cancelled"}
         /\ matched \subseteq Rows /\ claimed \subseteq Rows /\ late \in 0 .. MaxLate
         /\ late \in Nat
BY HandlerAssumption DEF TypeOK, HandlerType, RowState

(* Rows that move, or become ready for a retry, miss no sweep.             *)
LEMMA SweptStep ==
  ASSUME TypeOK, Swept, UNCHANGED <<cancelPc, matched>>,
         \A r \in Rows : row[r].status # "absent" => row'[r].status # "absent",
         \A r \in Rows : Unclaimed(r)' =>
           \/ row[r].status = "absent"
           \/ Unclaimed(r) /\ (row[r].status = "ready" => row'[r].status = "ready")
           \/ Retriable(r)',
         \A r \in Instances : row[r].status = "absent" /\ row'[r].status # "absent" =>
           row[r[1]].status = "pending" /\ row'[r[1]].status # "pending",
         \A h \in Handlers : handler'[h].pc = "apply" =>
           (At(h, "apply") /\ snap'[h] = snap[h]) \/ (snap'[h] = row /\ row' = row),
         claimed' \cap Placeholders = {}, claimed' \subseteq Rows,
         \A r \in claimed' : r \in claimed \/ row[r].status # "absent"
  PROVE  Swept'
<1>0. /\ StepsPresent(row) /\ NoOrphans(row) /\ matched \subseteq Rows
      /\ \A s \in FlowSteps : s \in Rows /\ s \notin Instances
      /\ \A r \in Instances : r \in Rows /\ r[1] \in FlowSteps
      /\ \A r \in Rows : r \in FlowSteps \/ r \in Instances
  BY TypesHere, RowSets DEF Swept, Orderly, Rows
<1>1. StepsPresent(row')
  BY <1>0 DEF StepsPresent
<1>2. NoOrphans(row')
  <2> SUFFICES ASSUME NEW r \in Instances, row'[r[1]].status = "pending"
               PROVE  row'[r].status = "absent"
    BY DEF NoOrphans
  <2>1. row[r[1]].status = "pending"
    BY <1>0 DEF Unclaimed, Retriable, StepsPresent
  <2>2. QED
    BY <1>0, <2>1 DEF NoOrphans
<1>3. \A h \in Handlers : handler'[h].pc = "apply" => Orderly(snap'[h])
  BY DEF Swept
<1>4. \A r \in claimed' : row'[r].status # "absent"
  BY DEF Swept
<1>5. cancelPc \in {"matched", "swept", "done"} => \A r \in matched : row'[r].status # "absent"
  BY <1>0 DEF Swept
<1>6. ASSUME cancelPc = "matched", NEW s \in FlowSteps, Unclaimed(s)'
      PROVE  s \in matched \/ Retriable(s)'
  <2>1. row[s].status # "absent"
    BY <1>0 DEF StepsPresent
  <2>2. Unclaimed(s) => s \in matched \/ Retriable(s)
    BY <1>6 DEF Swept
  <2>3. QED
    BY <1>0, <1>6, <2>1, <2>2 DEF Retriable
<1>7. ASSUME cancelPc \in {"swept", "done"}, NEW r \in Rows, Unclaimed(r)'
      PROVE  r \in Instances \ matched \/ Retriable(r)'
  <2>1. CASE row[r].status = "absent"
    BY <1>0, <1>7, <2>1 DEF StepsPresent, Swept
  <2>2. CASE Unclaimed(r) /\ (row[r].status = "ready" => row'[r].status = "ready")
    <3>1. r \in Instances \ matched \/ Retriable(r)
      BY <1>7, <2>2 DEF Swept
    <3>2. QED
      BY <2>2, <3>1 DEF Retriable
  <2>3. QED
    BY <1>7, <2>1, <2>2
<1>8. QED
  BY <1>1, <1>2, <1>3, <1>4, <1>5, <1>6, <1>7 DEF Swept, Orderly, At

(* A worker's write of a row: start, report, retry, in time or late.       *)
LEMMA WriteSwept ==
  ASSUME TypeOK, Swept, NEW r \in Rows, r \notin Placeholders, row[r].status # "absent",
         NEW st \in {"ready", "running", "completed", "failed", "cancelled"},
         row' = [row EXCEPT ![r] = Cell(st)], st = "ready" => FlowStepOf(r) \in Retried,
         handler' = handler \/ \E h \in Handlers : Goto(h, "read"),
         UNCHANGED <<snap, cancelPc, matched>>, claimed' = claimed \/ claimed' = claimed \cup {r},
         job' = job \/ job' = "running", late' \in 0 .. MaxLate
  PROVE  TypeOK' /\ Swept'
<1>1. Cell(st) \in RowValue /\ Cell(st).status = st
  BY RowValues DEF Finished
<1>2. row' \in RowState /\ row'[r] = Cell(st) /\ \A q \in Rows \ {r} : row'[q] = row[q]
  BY <1>1, TypesHere DEF RowState
<1>3. /\ handler' \in [Handlers -> HandlerType]
      /\ \A h \in Handlers : handler'[h].pc = "apply" => At(h, "apply")
  <2>1. CASE handler' = handler
    BY <2>1, TypesHere DEF At
  <2>2. ASSUME NEW h \in Handlers, Goto(h, "read")
        PROVE  /\ handler' \in [Handlers -> HandlerType]
               /\ \A k \in Handlers : handler'[k].pc = "apply" => At(k, "apply")
    <3>1. PICK x \in HandlerType : x.pc = "read" /\ handler' = [handler EXCEPT ![h] = x]
      BY <2>2, TypesHere, GotoEffect
    <3>2. QED
      BY <3>1, TypesHere DEF At
  <2>3. QED
    BY <2>1, <2>2
<1>4. claimed' \subseteq Rows /\ claimed' \cap Placeholders = {}
  BY TypesHere DEF Swept
<1>5. TypeOK'
  BY <1>2, <1>3, <1>4, TypesHere, TypesStep DEF Live
<1>6. \A q \in Rows : /\ row[q].status # "absent" => row'[q].status # "absent"
                      /\ row[q].status = "absent" => row'[q] = row[q]
  BY <1>1, <1>2
<1>7. ASSUME NEW q \in Rows, Unclaimed(q)'
      PROVE  \/ Unclaimed(q) /\ (row[q].status = "ready" => row'[q].status = "ready")
             \/ Retriable(q)'
  <2>1. CASE q = r
    BY <1>1, <1>2, <1>7, <2>1 DEF Unclaimed, Retriable
  <2>2. CASE q # r
    BY <1>2, <1>7, <2>2 DEF Unclaimed
  <2>3. QED
    BY <2>1, <2>2
<1>8. Swept'
  <2>1. \A q \in Instances : row[q].status = "absent" => row'[q].status = "absent"
    BY <1>6, RowSets
  <2>2. \A h \in Handlers : handler'[h].pc = "apply" => At(h, "apply") /\ snap'[h] = snap[h]
    BY <1>3
  <2>3. \A q \in claimed' : q \in claimed \/ row[q].status # "absent"
    OBVIOUS
  <2>4. QED
    BY <1>4, <1>6, <1>7, <2>1, <2>2, <2>3, SweptStep
<1>9. QED
  BY <1>5, <1>8

(* An applied plan. *)
LEMMA ApplyPlanSwept ==
  ASSUME TypeOK, Swept, NEW h \in Handlers, ApplyPlan(h)
  PROVE  TypeOK' /\ Swept'
<1>0. /\ snap[h] \in RowState /\ Orderly(snap[h])
      /\ snap' = [snap EXCEPT ![h] = NoRows] /\ Goto(h, "decide")
      /\ UNCHANGED <<cancelPc, matched, claimed, late>>
  BY TypesHere DEF ApplyPlan, Swept
<1>1. PICK when \in Conditions, items \in ItemChoices :
        LET g == Run(snap[h], when, items) IN
        /\ GuardsHold(snap[h], g)
        /\ row' = [r \in Rows |-> IF r \in Changes(snap[h], g) THEN g[r] ELSE row[r]]
        /\ job' = IF StartsLoop(snap[h], g) /\ job = "pending" THEN "running" ELSE job
  BY DEF ApplyPlan
<1> DEFINE f == snap[h]
           g == Run(f, when, items)
<1>2. items \in [Placeholders -> Nat]
  BY ChoiceTypes
<1>3. g \in RowState /\ Moves(f, g)
  BY <1>0, <1>2, RunMoves
<1>4. /\ row' = [r \in Rows |-> IF r \in Changes(f, g) THEN g[r] ELSE row[r]]
      /\ \A r \in Changes(f, g) : row[r].status = f[r].status
      /\ job' = job \/ job' = "running"
  BY <1>1 DEF GuardsHold
<1> HIDE DEF f, g
<1>5. row' \in RowState
  BY <1>3, <1>4, TypesHere DEF RowState
<1>6. PICK x \in HandlerType : x.pc = "decide" /\ handler' = [handler EXCEPT ![h] = x]
  BY <1>0, TypesHere, GotoEffect
<1>7. handler' \in [Handlers -> HandlerType] /\ snap' \in [Handlers -> RowState] /\ HandlersStep
  BY <1>0, <1>6, TypesHere, HandlerMoves
<1>8. TypeOK'
  BY <1>0, <1>4, <1>5, <1>7, TypesHere, TypesStep DEF Live
<1>9. ASSUME NEW r \in Rows
      PROVE  /\ row[r].status # "absent" => row'[r].status # "absent"
             /\ Unclaimed(r)' =>
                  \/ row[r].status = "absent"
                  \/ Unclaimed(r) /\ (row[r].status = "ready" => row'[r].status = "ready")
  <2>1. CASE r \in Changes(f, g)
    <3>1. row'[r] = g[r] /\ row[r].status = f[r].status
      BY <1>4, <2>1
    <3>2. QED
      BY <1>3, <3>1 DEF Moves, Unclaimed
  <2>2. CASE r \notin Changes(f, g)
    BY <1>4, <2>2 DEF Unclaimed
  <2>3. QED
    BY <2>1, <2>2
<1>10. ASSUME NEW r \in Instances, row[r].status = "absent", row'[r].status # "absent"
       PROVE  row[r[1]].status = "pending" /\ row'[r[1]].status # "pending"
  <2>1. r \in Rows /\ r[1] \in Rows
    BY RowSets
  <2>2. r \in Changes(f, g) /\ row'[r] = g[r] /\ f[r].status = "absent"
    BY <1>4, <1>10, <2>1
  <2>3. f[r[1]].status = "pending" /\ g[r[1]].status # "pending"
    BY <1>3, <1>10, <2>2 DEF Moves
  <2>4. r[1] \in Changes(f, g)
    BY <2>1, <2>3 DEF Changes
  <2>5. QED
    BY <1>4, <2>1, <2>3, <2>4
<1>11. \A k \in Handlers : handler'[k].pc = "apply" => At(k, "apply") /\ snap'[k] = snap[k]
  <2> TAKE k \in Handlers
  <2>1. CASE k = h
    BY <1>6, <2>1, TypesHere
  <2>2. CASE k # h
    BY <1>0, <1>6, <2>2, TypesHere DEF At
  <2>3. QED
    BY <2>1, <2>2
<1>12. Swept'
  <2>1. claimed' \cap Placeholders = {} /\ claimed' \subseteq Rows /\ claimed' = claimed
    BY <1>0, TypesHere DEF Swept
  <2>2. QED
    BY <1>0, <1>9, <1>10, <1>11, <2>1, SweptStep
<1>13. QED
  BY <1>8, <1>12

(* A step of an advance or of the cancel that ends rows, or leaves them.   *)
LEMMA RowsEndSwept ==
  ASSUME TypeOK, Swept, UNCHANGED <<cancelPc, matched, claimed>>,
         \A r \in Rows :
           \/ row'[r] = row[r]
           \/ row[r].status # "absent" /\ row'[r].status \in {"failed", "cancelled"},
         \A h \in Handlers : handler'[h].pc = "apply" =>
           (At(h, "apply") /\ snap'[h] = snap[h]) \/ (snap'[h] = row /\ row' = row)
  PROVE  Swept'
<1>1. \A r \in Rows :
        /\ row[r].status # "absent" => row'[r].status # "absent"
        /\ Unclaimed(r)' => Unclaimed(r) /\ (row[r].status = "ready" => row'[r].status = "ready")
  BY DEF Unclaimed
<1>2. \A r \in Instances : ~(row[r].status = "absent" /\ row'[r].status # "absent")
  BY RowSets
<1>3. claimed' \cap Placeholders = {} /\ claimed' \subseteq Rows /\ claimed' = claimed
  BY TypesHere DEF Swept
<1>4. QED
  BY <1>1, <1>2, <1>3, SweptStep

(* The other steps of an advance. *)
LEMMA HandlerSwept ==
  ASSUME TypeOK, Settlers, Swept, NEW h \in Handlers, HandlerStep(h)
  PROVE  TypeOK' /\ Swept'
<1>0. /\ row \in RowState /\ handler \in [Handlers -> HandlerType] /\ snap \in [Handlers -> RowState]
      /\ claimed \subseteq Rows /\ late \in 0 .. MaxLate /\ NoRows \in RowState
      /\ handler[h] \in HandlerType
  BY TypesHere, RowValues DEF NoRows, RowState
<1>1. CASE ApplyPlan(h)
  BY <1>1, ApplyPlanSwept
<1>2. CASE TakeSnapshot(h)
  <2>1. /\ row' = row /\ job' = job /\ snap' = [snap EXCEPT ![h] = row] /\ Goto(h, "apply")
        /\ UNCHANGED <<cancelPc, matched, claimed, late>>
    BY <1>2 DEF TakeSnapshot
  <2>2. PICK x \in HandlerType : x.pc = "apply" /\ handler' = [handler EXCEPT ![h] = x]
    BY <1>0, <2>1, GotoEffect
  <2>3. handler' \in [Handlers -> HandlerType] /\ snap' \in [Handlers -> RowState]
    BY <1>0, <2>1, <2>2
  <2>4. \A k \in Handlers : handler'[k].pc = "apply" =>
          (At(k, "apply") /\ snap'[k] = snap[k]) \/ (snap'[k] = row /\ row' = row)
    BY <1>0, <2>1, <2>2 DEF At
  <2>5. TypeOK'
    BY <1>0, <2>1, <2>3, TypesHere, TypesStep
  <2>6. QED
    BY <2>1, <2>4, <2>5, RowsEndSwept
<1>3. ASSUME NEW x \in HandlerType, x.pc # "apply", handler' = [handler EXCEPT ![h] = x],
             snap' = snap \/ snap' = [snap EXCEPT ![h] = NoRows],
             row' \in RowState, job' \in Live \cup {"completed", "failed", "cancelled"},
             UNCHANGED <<cancelPc, matched, claimed, late>>,
             \A r \in Rows :
               \/ row'[r] = row[r]
               \/ row[r].status # "absent" /\ row'[r].status \in {"failed", "cancelled"}
      PROVE  TypeOK' /\ Swept'
  <2>1. handler' \in [Handlers -> HandlerType] /\ snap' \in [Handlers -> RowState]
    BY <1>0, <1>3
  <2>2. TypeOK'
    BY <1>0, <1>3, <2>1, TypesStep
  <2>3. \A k \in Handlers : handler'[k].pc = "apply" => At(k, "apply") /\ snap'[k] = snap[k]
    BY <1>0, <1>3 DEF At
  <2>4. QED
    BY <1>3, <2>2, <2>3, RowsEndSwept
<1>4. CASE ReadJob(h)
  <2> DEFINE x == IF job \in Live THEN [pc |-> "snapshot", attempt |-> 1, outcome |-> "none"] ELSE Idle
  <2>1. x \in HandlerType /\ x.pc # "apply"
    BY IdleType, HandlerAssumption DEF HandlerType
  <2>2. /\ handler' = [handler EXCEPT ![h] = x] /\ row' = row /\ job' = job /\ snap' = snap
        /\ UNCHANGED <<cancelPc, matched, claimed, late>>
    BY <1>4 DEF ReadJob
  <2> HIDE DEF x
  <2>3. QED
    BY <1>0, <1>3, <2>1, <2>2, TypesHere
<1>5. CASE GuardMiss(h)
  <2> DEFINE x == [handler[h] EXCEPT !.pc = "snapshot", !.attempt = handler[h].attempt + 1]
  <2>1. handler[h].attempt \in 0 .. MaxAttempts /\ handler[h].attempt + 1 \in 0 .. MaxAttempts
    BY <1>0, <1>5, HandlerAssumption DEF HandlerType, GuardMiss
  <2>2. x \in HandlerType /\ x.pc # "apply"
    BY <1>0, <2>1 DEF HandlerType
  <2>3. /\ handler' = [handler EXCEPT ![h] = x] /\ row' = row /\ job' = job
        /\ snap' = [snap EXCEPT ![h] = NoRows] /\ UNCHANGED <<cancelPc, matched, claimed, late>>
    BY <1>0, <1>5 DEF GuardMiss, HandlerType
  <2> HIDE DEF x
  <2>4. QED
    BY <1>0, <1>3, <2>2, <2>3, TypesHere
<1>6. CASE Exhausted(h)
  <2>1. /\ handler' = [handler EXCEPT ![h] = Idle] /\ snap' = [snap EXCEPT ![h] = NoRows]
        /\ UNCHANGED <<cancelPc, matched, claimed, late>>
    BY <1>6 DEF Exhausted, Return
  <2>2. Cell("failed") \in RowValue /\ Cell("failed").status = "failed"
    BY RowValues DEF Finished
  <2>3. /\ job' = job \/ job' = "failed"
        /\ \/ row' = row
           \/ row' = [r \in Rows |-> IF r \in Present /\ ~Done(row, r) THEN Cell("failed") ELSE row[r]]
    BY <1>6 DEF Exhausted
  <2>4. row' \in RowState
    BY <1>0, <2>2, <2>3, TypesHere DEF RowState
  <2>5. \A r \in Rows :
          \/ row'[r] = row[r]
          \/ row[r].status # "absent" /\ row'[r].status \in {"failed", "cancelled"}
    BY <2>2, <2>3 DEF Present
  <2>6. QED
    BY <1>3, <2>1, <2>3, <2>4, <2>5, IdleType, TypesHere
<1>7. CASE Decide(h)
  <2> DEFINE x == IF AllDone THEN [handler[h] EXCEPT !.pc = "settle", !.outcome = Outcome] ELSE Idle
  <2>1. Outcome \in {"none", "completed", "failed", "cancelled"}
    BY DEF Outcome
  <2>2. x \in HandlerType /\ x.pc # "apply"
    BY <1>0, <2>1, IdleType DEF HandlerType
  <2>3. handler' = [handler EXCEPT ![h] = x]
    <3>1. CASE AllDone
      BY <1>0, <1>7, <3>1 DEF Decide, HandlerType
    <3>2. CASE ~AllDone
      BY <1>7, <3>2 DEF Decide, Return
    <3>3. QED
      BY <3>1, <3>2
  <2>4. row' = row /\ job' = job /\ snap' = snap /\ UNCHANGED <<cancelPc, matched, claimed, late>>
    BY <1>7 DEF Decide
  <2> HIDE DEF x
  <2>5. QED
    BY <1>0, <1>3, <2>2, <2>3, <2>4, TypesHere
<1>8. CASE SettleJob(h)
  <2>1. /\ handler' = [handler EXCEPT ![h] = Idle] /\ row' = row /\ snap' = snap
        /\ UNCHANGED <<cancelPc, matched, claimed, late>>
        /\ job' = IF job \in Live THEN handler[h].outcome ELSE job
    BY <1>8 DEF SettleJob, Return
  <2>2. handler[h].outcome # "none"
    BY <1>8 DEF SettleJob, Settlers
  <2>3. QED
    BY <1>0, <1>3, <2>1, <2>2, IdleType, TypesHere DEF HandlerType
<1>9. QED
  BY <1>1, <1>2, <1>4, <1>5, <1>6, <1>7, <1>8 DEF HandlerStep

(* The cancel sweeps what it matched. *)
LEMMA CancelSwept ==
  ASSUME TypeOK, Swept, CancelStep
  PROVE  TypeOK' /\ Swept'
<1>0. /\ handler' = handler /\ snap' = snap /\ claimed' = claimed /\ late' = late
      /\ job' = job \/ job' = "cancelled"
  BY DEF CancelStep, CancelJob, CancelMatches, CancelPendingSteps, CancelServerManaged
<1>1. Cell("cancelled") \in RowValue /\ Cell("cancelled").status = "cancelled"
  BY RowValues DEF Finished
<1>2. ASSUME row' \in RowState, cancelPc' \in {"idle", "stamped", "matched", "swept", "done"},
             matched' \subseteq Rows
      PROVE  TypeOK'
  BY <1>0, <1>2 DEF TypeOK
<1>3. ASSUME \A r \in Rows :
               \/ row'[r] = row[r]
               \/ row[r].status \notin {"absent"} /\ row'[r] = Cell("cancelled")
      PROVE  /\ Orderly(row') /\ \A h \in Handlers : At(h, "apply")' => Orderly(snap'[h])
             /\ claimed' \cap Placeholders = {} /\ \A r \in claimed' : row'[r].status # "absent"
  <2>1. \A r \in Rows : /\ row'[r].status = "absent" <=> row[r].status = "absent"
                        /\ row'[r].status = "pending" => row[r].status = "pending"
    BY <1>1, <1>3
  <2>2. StepsPresent(row')
    BY <2>1, RowSets DEF Swept, Orderly, StepsPresent
  <2>3. NoOrphans(row')
    BY <2>1, RowSets DEF Swept, Orderly, NoOrphans
  <2>4. \A r \in claimed : row'[r].status # "absent"
    BY <2>1, TypesHere DEF Swept
  <2>5. QED
    BY <1>0, <2>2, <2>3, <2>4 DEF Swept, Orderly, At
<1>4. CASE CancelJob
  <2>1. row' = row /\ cancelPc' = "stamped" /\ matched' = matched
    BY <1>4 DEF CancelJob
  <2>2. QED
    BY <1>2, <1>3, <2>1, TypesHere DEF Swept
<1>5. CASE CancelMatches
  <2>1. row' = row /\ cancelPc' = "matched" /\ matched' = {r \in Rows : Unclaimed(r)}
    BY <1>5 DEF CancelMatches
  <2>2. /\ \A r \in matched' : row'[r].status # "absent"
        /\ \A s \in FlowSteps : Unclaimed(s)' => s \in matched'
    BY <2>1, RowSets DEF Unclaimed
  <2>3. QED
    BY <1>2, <1>3, <2>1, <2>2, TypesHere DEF Swept
<1>6. CASE CancelPendingSteps
  <2>1. /\ row' = [r \in Rows |-> IF r \in matched /\ Unclaimed(r) THEN Cell("cancelled") ELSE row[r]]
        /\ matched' = matched /\ cancelPc' = "swept" /\ cancelPc = "matched"
    BY <1>6 DEF CancelPendingSteps
  <2>2. row' \in RowState
    BY <1>1, <2>1, TypesHere DEF RowState
  <2>3. \A r \in Rows :
          \/ row'[r] = row[r]
          \/ row[r].status \notin {"absent"} /\ row'[r] = Cell("cancelled")
    BY <2>1 DEF Unclaimed
  <2>4. ASSUME NEW r \in Rows, Unclaimed(r)' PROVE r \in Instances \ matched \/ Retriable(r)'
    <3>1. row'[r] = row[r] /\ Unclaimed(r) /\ r \notin matched
      BY <1>1, <2>1, <2>4 DEF Unclaimed
    <3>2. CASE r \in FlowSteps
      BY <2>1, <3>1, <3>2 DEF Swept, Retriable
    <3>3. QED
      BY <3>1, <3>2 DEF Rows
  <2>5. \A r \in matched' : row'[r].status # "absent"
    BY <1>1, <2>1, <2>3, TypesHere DEF Swept
  <2>6. QED
    BY <1>2, <1>3, <2>1, <2>2, <2>3, <2>4, <2>5, TypesHere DEF Swept
<1>7. CASE CancelServerManaged
  <2>1. /\ row' = [r \in Rows |-> IF r \in Placeholders /\ row[r].status = "running"
                                  THEN Cell("cancelled") ELSE row[r]]
        /\ matched' = matched /\ cancelPc' = "done" /\ cancelPc = "swept"
    BY <1>7 DEF CancelServerManaged
  <2>2. row' \in RowState
    BY <1>1, <2>1, TypesHere DEF RowState
  <2>3. \A r \in Rows :
          \/ row'[r] = row[r]
          \/ row[r].status \notin {"absent"} /\ row'[r] = Cell("cancelled")
    BY <2>1
  <2>4. ASSUME NEW r \in Rows, Unclaimed(r)' PROVE r \in Instances \ matched \/ Retriable(r)'
    <3>1. row'[r] = row[r] /\ Unclaimed(r)
      BY <1>1, <2>3, <2>4 DEF Unclaimed
    <3>2. QED
      BY <2>1, <3>1 DEF Swept, Retriable
  <2>5. \A r \in matched' : row'[r].status # "absent"
    BY <1>1, <2>1, <2>3, TypesHere DEF Swept
  <2>6. QED
    BY <1>2, <1>3, <2>1, <2>2, <2>3, <2>4, <2>5, TypesHere DEF Swept
<1>8. QED
  BY <1>4, <1>5, <1>6, <1>7 DEF CancelStep

(* Whoever is about to settle the job has decided it. *)
LEMMA SettlersKept == TypeOK /\ Settlers /\ [Next]_vars => Settlers'
<1> SUFFICES ASSUME TypeOK, Settlers, [Next]_vars, NEW h \in Handlers, handler'[h].pc = "settle"
             PROVE  handler'[h].outcome # "none"
  BY DEF Settlers, At
<1>0. handler \in [Handlers -> HandlerType] /\ handler[h] \in HandlerType
  BY TypesHere
<1>1. CASE handler' = handler
  BY <1>1 DEF Settlers, At
<1>2. ASSUME NEW k \in Handlers, Decide(k) PROVE handler'[h].outcome # "none"
  <2>1. Outcome # "none"
    BY DEF Outcome
  <2>2. CASE k = h /\ AllDone
    BY <1>0, <1>2, <2>1, <2>2 DEF Decide, HandlerType
  <2>3. CASE k = h /\ ~AllDone
    BY <1>0, <1>2, <2>3, IdleType DEF Decide, Return
  <2>4. CASE k # h
    <3>1. handler'[h] = handler[h]
      BY <1>0, <1>2, <2>4 DEF Decide, Return
    <3>2. QED
      BY <3>1 DEF Settlers, At
  <2>5. QED
    BY <2>2, <2>3, <2>4
<1>3. ASSUME NEW k \in Handlers, NEW q \in {"read", "apply", "decide"}, Goto(k, q)
      PROVE  handler'[h].outcome # "none"
  <2>1. k # h /\ handler'[h] = handler[h]
    BY <1>0, <1>3 DEF Goto, HandlerType
  <2>2. QED
    BY <2>1 DEF Settlers, At
<1>4. ASSUME NEW k \in Handlers, Return(k) \/ ReadJob(k) \/ GuardMiss(k)
      PROVE  handler'[h].outcome # "none"
  <2>1. handler'[k].pc # "settle" /\ (k # h => handler'[h] = handler[h])
    BY <1>0, <1>4, IdleType DEF Return, ReadJob, GuardMiss, HandlerType
  <2>2. QED
    BY <2>1 DEF Settlers, At
<1>5. ASSUME NEW r \in Rows, StartRow(r) \/ RetryRow(r) PROVE handler'[h].outcome # "none"
  BY <1>1, <1>5 DEF StartRow, RetryRow
<1>6. ASSUME NEW k \in Handlers, NEW r \in Rows, NEW st, ReportRow(k, r, st) \/ LateReport(k, r, st)
      PROVE  handler'[h].outcome # "none"
  <2>1. Goto(k, "read") \/ handler' = handler
    BY <1>6 DEF ReportRow, LateReport
  <2>2. QED
    BY <1>1, <1>3, <2>1
<1>7. ASSUME NEW k \in Handlers, HandlerStep(k) PROVE handler'[h].outcome # "none"
  <2>1. \/ Decide(k) \/ ReadJob(k) \/ GuardMiss(k) \/ Return(k)
        \/ Goto(k, "apply") \/ Goto(k, "decide")
    BY <1>7 DEF HandlerStep, TakeSnapshot, ApplyPlan, Exhausted, SettleJob
  <2>2. QED
    BY <1>2, <1>3, <1>4, <2>1
<1>8. CASE CancelStep \/ UNCHANGED vars
  BY <1>1, <1>8 DEF CancelStep, CancelJob, CancelMatches, CancelPendingSteps, CancelServerManaged, vars
<1>9. QED
  BY <1>5, <1>6, <1>7, <1>8 DEF Next, Progress, LateStep

(* Every step keeps it. *)
LEMMA SweptKept == TypeOK /\ Settlers /\ Swept /\ [Next]_vars => TypeOK' /\ Swept'
<1> SUFFICES ASSUME TypeOK, Settlers, Swept, [Next]_vars PROVE TypeOK' /\ Swept'
  OBVIOUS
<1>1. ASSUME NEW r \in Rows, StartRow(r) PROVE TypeOK' /\ Swept'
  BY <1>1, TypesHere, WriteSwept DEF StartRow
<1>2. ASSUME NEW h \in Handlers, NEW r \in Rows, NEW result \in Results, ReportRow(h, r, result)
      PROVE  TypeOK' /\ Swept'
  <2>1. result \in {"ready", "running", "completed", "failed", "cancelled"} /\ result # "ready"
    BY ChoiceAssumption
  <2>2. QED
    BY <1>2, <2>1, TypesHere, WriteSwept DEF ReportRow
<1>3. ASSUME NEW r \in Rows, RetryRow(r) PROVE TypeOK' /\ Swept'
  BY <1>3, TypesHere, WriteSwept DEF RetryRow
<1>4. ASSUME NEW h \in Handlers, NEW r \in Rows, NEW st \in {"running", "completed", "failed", "ready"},
             LateReport(h, r, st)
      PROVE  TypeOK' /\ Swept'
  <2>1. r \notin Placeholders /\ row[r].status # "absent"
    BY <1>4 DEF LateReport, Swept
  <2>2. late' \in 0 .. MaxLate
    BY <1>4, TypesHere, HandlerAssumption DEF LateReport
  <2>3. /\ row' = [row EXCEPT ![r] = Cell(st)] /\ (st = "ready" => FlowStepOf(r) \in Retried)
        /\ (handler' = handler \/ Goto(h, "read"))
        /\ UNCHANGED <<job, snap, cancelPc, matched, claimed>>
    BY <1>4 DEF LateReport
  <2>4. QED
    BY <2>1, <2>2, <2>3, WriteSwept
<1>5. ASSUME NEW h \in Handlers, HandlerStep(h) PROVE TypeOK' /\ Swept'
  BY <1>5, HandlerSwept
<1>6. CASE CancelStep
  BY <1>6, CancelSwept
<1>7. CASE UNCHANGED vars
  <2>1. TypeOK'
    BY <1>7 DEF vars, TypeOK
  <2>2. /\ UNCHANGED <<cancelPc, matched, claimed>> /\ row' = row
        /\ \A h \in Handlers : handler'[h].pc = "apply" => At(h, "apply") /\ snap'[h] = snap[h]
    BY <1>7 DEF vars, At
  <2>3. QED
    BY <2>1, <2>2, RowsEndSwept
<1>8. QED
  BY <1>1, <1>2, <1>3, <1>4, <1>5, <1>6, <1>7 DEF Next, Progress, LateStep

-----------------------------------------------------------------------------
(***************************************************************************)
(* Theorems                                                                *)
(***************************************************************************)

(* A report that is late stays on the record. *)
LEMMA LateStays == TypeOK /\ [Next]_vars /\ InTime' => InTime /\ ~LateStep
<1> SUFFICES ASSUME TypeOK, [Next]_vars, InTime' PROVE InTime /\ ~LateStep
  OBVIOUS
<1>1. late \in Nat
  BY HandlerAssumption DEF TypeOK
<1>2. ~LateStep
  BY <1>1 DEF InTime, LateStep, LateReport
<1>3. late' = late
  BY <1>2 DEF Next, Progress, HandlerStep, CancelStep, StartRow, ReportRow, RetryRow, ReadJob,
     TakeSnapshot, ApplyPlan, GuardMiss, Exhausted, Decide, SettleJob, CancelJob, CancelMatches,
     CancelPendingSteps, CancelServerManaged, vars
<1>4. QED
  BY <1>2, <1>3 DEF InTime

(* Rows, handlers and the cancel hold values of their kind, late reports   *)
(* or not.                                                                 *)
THEOREM TypesHold == Spec => []TypeOK
<1>1. Init => TypeOK /\ Settlers /\ Swept
  BY InitSwept
<1>2. TypeOK /\ Settlers /\ Swept /\ [Next]_vars => TypeOK' /\ Settlers' /\ Swept'
  BY SettlersKept, SweptKept
<1>3. QED
  BY <1>1, <1>2, PTL DEF Spec

(* Whatever advances with older snapshots, retries and late reports run    *)
(* beside it, Settlement::cancel leaves a worker nothing to claim but      *)
(* instances inserted behind its UPDATE's snapshot and rows that           *)
(* fail_or_retry made ready again.                                         *)
THEOREM CancelLeavesNothingElse == Spec => []CancelLeavesOnly
<1>1. Init => TypeOK /\ Settlers /\ Swept
  BY InitSwept
<1>2. TypeOK /\ Settlers /\ Swept /\ [Next]_vars => TypeOK' /\ Settlers' /\ Swept'
  BY SettlersKept, SweptKept
<1>3. Swept => CancelLeavesOnly
  BY DEF Swept, CancelLeavesOnly, Retriable
<1>4. QED
  BY <1>1, <1>2, <1>3, PTL DEF Spec

(* The inductive invariant holds in every reachable state up to the first  *)
(* late report.                                                            *)
THEOREM InvHolds == Spec => [](InTime => IInv)
<1>1. TypeOK /\ (InTime => IInv) /\ [Next]_vars => (InTime => IInv)'
  BY NextKeeps, LateStays
<1>2. QED
  BY <1>1, InvInit, TypesHold, PTL DEF Spec

(* A step that an advance let through has an open gate, and a step it      *)
(* skipped as unreachable a blocked one, in the rows as they are now, from *)
(* however stale a snapshot the plan was made.                             *)
THEOREM GatesAreRespected == Spec => []GateRespected
<1>1. (InTime => IInv) => GateRespected
  BY DEF IInv, RowsOK, GateOK, Judged, GateRespected
<1>2. QED
  BY <1>1, InvHolds, PTL

(* A settled job has no row left to run, and completed means that no       *)
(* failure and no cancellation went untolerated.                           *)
THEOREM SettledJobsAreExact == Spec => []SettledIsExact
<1>1. (InTime => IInv) => SettledIsExact
  BY DEF IInv, SettledOK, SettledIsExact
<1>2. QED
  BY <1>1, InvHolds, PTL

(* A sequential loop runs one instance at a time, in order, and stops at a *)
(* failed one unless it is tolerated.                                      *)
THEOREM LoopsRunInOrder == Spec => []LoopOrder
<1>1. (InTime => IInv) => LoopOrder
  BY DEF IInv, RowsOK, LoopsOK, OrderOK, LoopOrder
<1>2. QED
  BY <1>1, InvHolds, PTL

(* A loop is rolled up from all its instances, whichever advances expand   *)
(* it, report its instances and roll it up at the same time.               *)
THEOREM RollupsAreExact == Spec => []RollupExact
<1>1. (InTime => IInv) => RollupExact
  BY DEF IInv, RowsOK, LoopsOK, RollupOK, RollupExact
<1>2. QED
  BY <1>1, InvHolds, PTL

(* No wake-up is lost and no job is stuck, if an advance may try twice     *)
(* (MAX_ATTEMPTS is 3): when no advance is in progress, a live job has     *)
(* nothing left to promote, skip, expand or roll up, and some step is      *)
(* still to run.                                                           *)
THEOREM NoWakeupIsLost ==
  ASSUME MaxAttempts >= 2
  PROVE  Spec => []NoLostWakeup
<1>1. Init => WakeInv
  BY WakeInit
<1>2. /\ TypeOK /\ (InTime => IInv) /\ (InTime => WakeInv) /\ [Next]_vars
      => (InTime => WakeInv)'
  BY WakeKept, LateStays
<1>3. (InTime => IInv) /\ (InTime => WakeInv) => NoLostWakeup
  BY WakeImplies DEF NoLostWakeup
<1>4. QED
  BY <1>1, <1>2, <1>3, InvHolds, TypesHold, PTL DEF Spec

(* The assertion of run, "cascade pass bound exceeded": one pass less than *)
(* the bound is enough, so that the pass that finds nothing to do is       *)
(* within it, as long as no report is late.                                *)
BoundSuffices ==
  InTime => \A h \in Handlers : At(h, "apply") =>
    \A when \in Conditions, items \in ItemChoices :
      LET last == Passes(PassBound(snap[h]) - 1, snap[h], when, items)
      IN Pass(last, when, items) = last

(* run never reaches its pass bound, whatever snapshot an advance reads    *)
(* and whatever conditions and expressions evaluate to.                    *)
THEOREM PassBoundSuffices == Spec => []BoundSuffices
<1>1. (InTime => IInv) => BoundSuffices
  <2> SUFFICES ASSUME IInv, NEW h \in Handlers, At(h, "apply"),
                      NEW when \in Conditions, NEW items \in ItemChoices
               PROVE  LET last == Passes(PassBound(snap[h]) - 1, snap[h], when, items)
                      IN Pass(last, when, items) = last
    BY DEF BoundSuffices
  <2>1. RowsOK(snap[h]) /\ snap[h] \in RowState /\ items \in [Placeholders -> Nat]
    BY InvParts, ChoiceTypes DEF HandlersOK
  <2>2. PassBound(snap[h]) \in Nat /\ PassBound(snap[h]) - 1 \in Nat
    <3>1. PICK B : IsFiniteSet(B) /\ Cardinality(B) < PassBound(snap[h])
      BY <2>1, HeightBound
    <3>2. QED
      BY <3>1, PassBoundType, FS_CardinalityType
  <2>3. PassBound(snap[h]) - 1 <= PassBound(snap[h]) - 1
    BY <2>2
  <2>4. QED
    BY <2>1, <2>2, <2>3, PassesSettle
<1>2. QED
  BY <1>1, InvHolds, PTL
=============================================================================
