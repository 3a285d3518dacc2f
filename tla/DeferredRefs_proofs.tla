------------------------- MODULE DeferredRefs_proofs -------------------------
(***************************************************************************)
(* Proofs about DeferredRefs, for any steps, resolvers and commits, and    *)
(* any number of resolvers that die or stop renewing.                      *)
(***************************************************************************)
EXTENDS DeferredRefs, TLAPS

RowType == [renders : {"value", "nothing"},
            status : {"ready", "running", "failed", "cancelled"}, deferred : BOOLEAN,
            commit : Heads \cup {NoHead}, owner : Resolvers \cup {"nobody"}, live : BOOLEAN]
ResolverType == [pc : {"idle", "render", "load", "build", "write", "fail"},
                 commit : Heads \cup {NoHead}, lost : BOOLEAN]

(* The job, its rows and the resolvers hold values of their kind.          *)
RefTypeOK ==
  /\ refJob \in {"running", "cancelled"}
  /\ refRow \in [DeferredSteps -> RowType]
  /\ refMemo \in Heads \cup {NoHead}
  /\ head \in Heads
  /\ resolver \in [Resolvers -> [DeferredSteps -> ResolverType]]
  /\ refFaults \in 0..MaxResolverFaults

(* Whoever is past the memo, and every resolved row, has the commit of the *)
(* memo, or none where the template renders nothing; whoever is before it  *)
(* has one of the branch's commits.                                        *)
Decided(commit) == commit = refMemo /\ refMemo # NoHead
Fits(s, commit) == IF refRow[s].renders = "value" THEN Decided(commit) ELSE commit = NoHead
Agrees(s, x) ==
  /\ x.pc = "render" => x.commit = NoHead
  /\ x.pc = "load" => x.commit \in Heads /\ refRow[s].renders = "value"
  /\ x.pc \in {"build", "write"} => Fits(s, x.commit)

ResolversAgree == \A p \in Resolvers, s \in DeferredSteps : Agrees(s, resolver[p][s])
RowsAgree == \A s \in DeferredSteps : ~refRow[s].deferred => Fits(s, refRow[s].commit)

(* The inductive invariant. *)
RefInv == RefTypeOK /\ ResolversAgree /\ RowsAgree

-----------------------------------------------------------------------------
(* A step of one resolver on one row leaves the others alone.              *)
LEMMA ResolverEffect ==
  ASSUME resolver \in [Resolvers -> [DeferredSteps -> ResolverType]],
         NEW p \in Resolvers, NEW s \in DeferredSteps, NEW x \in ResolverType,
         resolver' = [resolver EXCEPT ![p][s] = x]
  PROVE  /\ resolver' \in [Resolvers -> [DeferredSteps -> ResolverType]]
         /\ resolver'[p][s] = x
         /\ \A q \in Resolvers, t \in DeferredSteps :
              q # p \/ t # s => resolver'[q][t] = resolver[q][t]
OBVIOUS

(* The invariant when a resolver takes the state x and a row the value y,  *)
(* and the memo stays.                                                     *)
LEMMA Preserved ==
  ASSUME RefInv, RefTypeOK', refMemo' = refMemo,
         \A p \in Resolvers, s \in DeferredSteps :
           resolver'[p][s] = resolver[p][s] \/ Agrees(s, resolver'[p][s]),
         \A s \in DeferredSteps :
           /\ refRow'[s].renders = refRow[s].renders
           /\ \/ refRow'[s].deferred
              \/ refRow'[s].deferred = refRow[s].deferred /\ refRow'[s].commit = refRow[s].commit
              \/ Fits(s, refRow'[s].commit)
  PROVE  RefInv'
<1>1. ResolversAgree'
  BY DEF RefInv, ResolversAgree, Agrees, Fits, Decided
<1>2. RowsAgree'
  BY DEF RefInv, RowsAgree, Fits, Decided
<1>3. QED
  BY <1>1, <1>2 DEF RefInv

(* The invariant holds initially. *)
LEMMA RefInvInit == RefInit => RefInv
<1> SUFFICES ASSUME RefInit PROVE RefInv
  OBVIOUS
<1>1. head \in Heads /\ refFaults \in 0..MaxResolverFaults
  BY HeadsAssumption DEF RefInit
<1>2. RefTypeOK
  BY <1>1 DEF RefInit, RefTypeOK, RowType, ResolverType, IdleResolver
<1>3. ResolversAgree /\ RowsAgree
  BY DEF RefInit, ResolversAgree, RowsAgree, Agrees, IdleResolver
<1>4. QED
  BY <1>2, <1>3 DEF RefInv

(* Types, and one resolver's move.                                         *)
LEMMA TypeParts ==
  RefInv =>
    /\ refRow \in [DeferredSteps -> RowType] /\ refMemo \in Heads \cup {NoHead}
    /\ head \in Heads /\ resolver \in [Resolvers -> [DeferredSteps -> ResolverType]]
    /\ refFaults \in 0..MaxResolverFaults
BY DEF RefInv, RefTypeOK

(* A step of a resolver that leaves rows and memo alone.                   *)
LEMMA ResolverMoves ==
  ASSUME RefInv, NEW p \in Resolvers, NEW s \in DeferredSteps, NEW x \in ResolverType,
         resolver' = [resolver EXCEPT ![p][s] = x],
         Agrees(s, x),
         UNCHANGED <<refJob, refRow, refMemo, head>>, refFaults' \in 0..MaxResolverFaults
  PROVE  RefInv'
<1>1. /\ resolver' \in [Resolvers -> [DeferredSteps -> ResolverType]]
      /\ resolver'[p][s] = x
      /\ \A q \in Resolvers, t \in DeferredSteps :
           q # p \/ t # s => resolver'[q][t] = resolver[q][t]
  BY ResolverEffect, TypeParts
<1>2. RefTypeOK'
  BY <1>1 DEF RefInv, RefTypeOK
<1>3. QED
  BY <1>1, <1>2, Preserved

(* A write of a row that neither resolves it nor changes its commit.       *)
LEMMA RowMoves ==
  ASSUME RefInv, refRow' \in [DeferredSteps -> RowType],
         \A s \in DeferredSteps : /\ refRow'[s].renders = refRow[s].renders
                                  /\ refRow'[s].deferred = refRow[s].deferred
                                  /\ refRow'[s].commit = refRow[s].commit,
         resolver' \in [Resolvers -> [DeferredSteps -> ResolverType]],
         \A p \in Resolvers, s \in DeferredSteps :
           resolver'[p][s] = resolver[p][s] \/ Agrees(s, resolver'[p][s]),
         UNCHANGED <<refMemo, head>>, refJob' \in {"running", "cancelled"},
         refFaults' \in 0..MaxResolverFaults
  PROVE  RefInv'
<1>1. RefTypeOK'
  BY DEF RefInv, RefTypeOK
<1>2. QED
  BY <1>1, Preserved

(* select_commit and insert_first_wins: the memo is written once, and what *)
(* leaves the loop is what it holds.                                       *)
LEMMA MemoriseKeeps ==
  ASSUME RefInv, NEW p \in Resolvers, NEW s \in DeferredSteps, Memorise(p, s)
  PROVE  RefInv'
<1>0. /\ RefTypeOK /\ ResolversAgree /\ RowsAgree
      /\ resolver \in [Resolvers -> [DeferredSteps -> ResolverType]]
      /\ UNCHANGED <<refJob, refRow, head, refFaults>>
      /\ resolver[p][s] \in ResolverType /\ resolver[p][s].pc = "load"
  BY DEF RefInv, RefTypeOK, Memorise
<1>1. resolver[p][s].commit \in Heads /\ resolver[p][s].commit # NoHead /\ refRow[s].renders = "value"
  BY <1>0, HeadsAssumption DEF ResolversAgree, Agrees
<1>2. /\ refMemo' \in Heads /\ refMemo' # NoHead
      /\ refMemo # NoHead => refMemo' = refMemo
  BY <1>0, <1>1, HeadsAssumption DEF RefTypeOK, Memorise, InsertFirstWins
<1> DEFINE q == IF refMemo' = resolver[p][s].commit THEN "build" ELSE "load"
           x == [resolver[p][s] EXCEPT !.commit = refMemo', !.pc = q]
<1>3. resolver' = [resolver EXCEPT ![p][s] = x]
  BY DEF Memorise
<1>4. x \in ResolverType /\ x.commit = refMemo' /\ x.pc \in {"build", "load"}
  BY <1>0, <1>2 DEF ResolverType
<1> HIDE DEF x
<1>5. /\ resolver' \in [Resolvers -> [DeferredSteps -> ResolverType]]
      /\ resolver'[p][s] = x
      /\ \A r \in Resolvers, t \in DeferredSteps :
           r # p \/ t # s => resolver'[r][t] = resolver[r][t]
  BY <1>0, <1>3, <1>4, ResolverEffect
<1>6. RefTypeOK'
  BY <1>0, <1>2, <1>5 DEF RefTypeOK
<1>7. ResolversAgree'
  <2>1. Agrees(s, resolver[p][s])'
    BY <1>0, <1>1, <1>2, <1>4, <1>5 DEF Agrees, Fits, Decided
  <2>2. \A r \in Resolvers, t \in DeferredSteps : Agrees(t, resolver[r][t])'
          \/ (r = p /\ t = s)
    BY <1>0, <1>2, <1>5 DEF ResolversAgree, Agrees, Fits, Decided
  <2>3. QED
    BY <2>1, <2>2 DEF ResolversAgree
<1>8. RowsAgree'
  BY <1>0, <1>2 DEF RowsAgree, Fits, Decided
<1>9. QED
  BY <1>6, <1>7, <1>8 DEF RefInv

(* resolve_deferred_tx: the row gets the commit the resolver decided on.   *)
LEMMA ResolveKeeps ==
  ASSUME RefInv, NEW p \in Resolvers, NEW s \in DeferredSteps, ResolveDeferred(p, s)
  PROVE  RefInv'
<1> DEFINE y == [refRow[s] EXCEPT !.deferred = FALSE, !.owner = "nobody", !.live = FALSE,
                                  !.commit = resolver[p][s].commit]
<1>0. /\ RefTypeOK /\ ResolversAgree /\ RowsAgree /\ Fits(s, resolver[p][s].commit)
      /\ resolver[p][s] \in ResolverType /\ refRow \in [DeferredSteps -> RowType]
      /\ resolver \in [Resolvers -> [DeferredSteps -> ResolverType]]
      /\ UNCHANGED <<refJob, refMemo, head, refFaults>>
  BY DEF RefInv, RefTypeOK, ResolversAgree, Agrees, ResolveDeferred, WriteRow
<1>1. IdleResolver \in ResolverType /\ IdleResolver.pc = "idle"
  BY DEF IdleResolver, ResolverType
<1>2. /\ resolver' \in [Resolvers -> [DeferredSteps -> ResolverType]]
      /\ \A q \in Resolvers, t \in DeferredSteps :
           resolver'[q][t] = resolver[q][t] \/ Agrees(t, resolver'[q][t])
  BY <1>0, <1>1, ResolverEffect DEF ResolveDeferred, WriteRow, Agrees
<1>3. y \in RowType /\ y.commit = resolver[p][s].commit /\ y.renders = refRow[s].renders
  BY <1>0 DEF RowType, ResolverType
<1>4. refRow' = refRow \/ refRow' = [refRow EXCEPT ![s] = y]
  BY DEF ResolveDeferred, WriteRow
<1> HIDE DEF y
<1>5. /\ refRow' \in [DeferredSteps -> RowType]
      /\ \A t \in DeferredSteps : refRow'[t] = refRow[t] \/ (t = s /\ refRow'[t] = y)
  BY <1>0, <1>3, <1>4
<1>6. RefTypeOK'
  BY <1>0, <1>2, <1>5 DEF RefTypeOK
<1>7. QED
  BY <1>0, <1>2, <1>3, <1>5, <1>6, Preserved

(* Marking a lease live or lapsed changes nothing else of the row.         *)
LEMMA LeaseMark ==
  ASSUME refRow \in [DeferredSteps -> RowType], NEW s \in DeferredSteps, NEW b \in BOOLEAN,
         refRow' = [refRow EXCEPT ![s].live = b]
  PROVE  /\ refRow' \in [DeferredSteps -> RowType]
         /\ \A t \in DeferredSteps : /\ refRow'[t].renders = refRow[t].renders
                                     /\ refRow'[t].deferred = refRow[t].deferred
                                     /\ refRow'[t].commit = refRow[t].commit
BY DEF RowType

(* Every step keeps the invariant. *)
LEMMA RefInvStep == RefInv /\ [RefNext]_refVars => RefInv'
<1> SUFFICES ASSUME RefInv, [RefNext]_refVars PROVE RefInv'
  OBVIOUS
<1>0. /\ refRow \in [DeferredSteps -> RowType] /\ refMemo \in Heads \cup {NoHead}
      /\ head \in Heads /\ resolver \in [Resolvers -> [DeferredSteps -> ResolverType]]
      /\ refFaults \in 0..MaxResolverFaults /\ refJob \in {"running", "cancelled"}
      /\ ResolversAgree
  BY TypeParts DEF RefInv, RefTypeOK
<1>r. \A p \in Resolvers, s \in DeferredSteps : resolver[p][s] \in ResolverType
  BY <1>0
<1>i. IdleResolver \in ResolverType /\ IdleResolver.pc = "idle"
  BY DEF IdleResolver, ResolverType
<1>1. ASSUME NEW p \in Resolvers, NEW s \in DeferredSteps, TakeLease(p, s) PROVE RefInv'
  <2> DEFINE x == [IdleResolver EXCEPT !.pc = "render"]
  <2>1. x \in ResolverType /\ x.pc = "render" /\ x.commit = NoHead
    BY DEF IdleResolver, ResolverType
  <2>2. resolver' = [resolver EXCEPT ![p][s] = x]
    BY <1>1 DEF TakeLease
  <2> HIDE DEF x
  <2>3. /\ resolver' \in [Resolvers -> [DeferredSteps -> ResolverType]]
        /\ \A q \in Resolvers, t \in DeferredSteps :
             resolver'[q][t] = resolver[q][t] \/ Agrees(t, resolver'[q][t])
    BY <1>0, <2>1, <2>2, ResolverEffect DEF Agrees
  <2>4. /\ refRow' \in [DeferredSteps -> RowType]
        /\ \A t \in DeferredSteps : /\ refRow'[t].renders = refRow[t].renders
                                    /\ refRow'[t].deferred = refRow[t].deferred
                                    /\ refRow'[t].commit = refRow[t].commit
    BY <1>0, <1>1 DEF TakeLease, RowType
  <2>5. QED
    BY <1>0, <1>1, <2>3, <2>4, RowMoves DEF TakeLease
<1>2. ASSUME NEW p \in Resolvers, NEW s \in DeferredSteps, SelectCommit(p, s) PROVE RefInv'
  <2> DEFINE c == IF refMemo = NoHead THEN head ELSE refMemo
             x == [resolver[p][s] EXCEPT !.pc = "load", !.commit = c]
  <2>1. c \in Heads
    BY <1>0
  <2>2. resolver' = [resolver EXCEPT ![p][s] = x]
    BY <1>2 DEF SelectCommit
  <2> HIDE DEF c
  <2>3. x \in ResolverType /\ x.pc = "load" /\ x.commit = c
    BY <1>r, <2>1 DEF ResolverType
  <2> HIDE DEF x
  <2>4. /\ UNCHANGED <<refJob, refRow, refMemo, head>> /\ refFaults' \in 0..MaxResolverFaults
        /\ Agrees(s, x)
    BY <1>0, <1>2, <2>1, <2>3 DEF SelectCommit, Agrees
  <2>5. QED
    BY <2>2, <2>3, <2>4, ResolverMoves
<1>3. ASSUME NEW p \in Resolvers, NEW s \in DeferredSteps, ResolutionFails(p, s) PROVE RefInv'
  <2> DEFINE x == [resolver[p][s] EXCEPT !.pc = "fail"]
  <2>1. resolver' = [resolver EXCEPT ![p][s] = x]
    BY <1>3 DEF ResolutionFails, To
  <2>2. x \in ResolverType /\ x.pc = "fail"
    BY <1>r DEF ResolverType
  <2> HIDE DEF x
  <2>3. QED
    BY <1>0, <1>3, <2>1, <2>2, ResolverMoves DEF ResolutionFails, Agrees
<1>4. ASSUME NEW p \in Resolvers, NEW s \in DeferredSteps, BuildRow(p, s) PROVE RefInv'
  <2> DEFINE x == [resolver[p][s] EXCEPT !.pc = "write"]
  <2>1. resolver' = [resolver EXCEPT ![p][s] = x]
    BY <1>4 DEF BuildRow, To
  <2>2. x \in ResolverType /\ x.pc = "write" /\ x.commit = resolver[p][s].commit
    BY <1>r DEF ResolverType
  <2>3. Agrees(s, x)
    BY <1>0, <1>4, <2>2 DEF ResolversAgree, Agrees, BuildRow
  <2> HIDE DEF x
  <2>4. QED
    BY <1>0, <1>4, <2>1, <2>2, <2>3, ResolverMoves DEF BuildRow
<1>5. ASSUME NEW p \in Resolvers, NEW s \in DeferredSteps, FailDeferred(p, s) PROVE RefInv'
  <2> DEFINE y == [refRow[s] EXCEPT !.status = "failed", !.owner = "nobody", !.live = FALSE]
  <2>1. /\ y \in RowType /\ y.renders = refRow[s].renders
        /\ y.deferred = refRow[s].deferred /\ y.commit = refRow[s].commit
    BY <1>0 DEF RowType
  <2>2. refRow' = refRow \/ refRow' = [refRow EXCEPT ![s] = y]
    BY <1>5 DEF FailDeferred, WriteRow
  <2> HIDE DEF y
  <2>3. /\ refRow' \in [DeferredSteps -> RowType]
        /\ \A t \in DeferredSteps : /\ refRow'[t].renders = refRow[t].renders
                                    /\ refRow'[t].deferred = refRow[t].deferred
                                    /\ refRow'[t].commit = refRow[t].commit
    BY <1>0, <2>1, <2>2
  <2>4. /\ resolver' \in [Resolvers -> [DeferredSteps -> ResolverType]]
        /\ \A q \in Resolvers, t \in DeferredSteps :
             resolver'[q][t] = resolver[q][t] \/ Agrees(t, resolver'[q][t])
    BY <1>0, <1>5, <1>i, ResolverEffect DEF FailDeferred, WriteRow, Agrees
  <2>5. QED
    BY <1>0, <1>5, <2>3, <2>4, RowMoves DEF FailDeferred, WriteRow
<1>6. ASSUME NEW p \in Resolvers, NEW s \in DeferredSteps, RenewLease(p, s) PROVE RefInv'
  <2>1. CASE refRow[s].owner = p /\ Unresolved(s)
    <3>1. /\ refRow' \in [DeferredSteps -> RowType]
          /\ \A t \in DeferredSteps : /\ refRow'[t].renders = refRow[t].renders
                                      /\ refRow'[t].deferred = refRow[t].deferred
                                      /\ refRow'[t].commit = refRow[t].commit
          /\ UNCHANGED resolver
      BY <1>0, <1>6, <2>1, LeaseMark DEF RenewLease
    <3>2. QED
      BY <1>0, <1>6, <3>1, RowMoves DEF RenewLease
  <2>2. CASE ~(refRow[s].owner = p /\ Unresolved(s))
    <3> DEFINE x == [resolver[p][s] EXCEPT !.lost = TRUE]
    <3>1. resolver' = [resolver EXCEPT ![p][s] = x] /\ UNCHANGED refRow
      BY <1>6, <2>2 DEF RenewLease
    <3>2. x \in ResolverType /\ x.pc = resolver[p][s].pc /\ x.commit = resolver[p][s].commit
      BY <1>r DEF ResolverType
    <3>3. Agrees(s, x)
      BY <1>0, <3>2 DEF ResolversAgree, Agrees
    <3> HIDE DEF x
    <3>4. QED
      BY <1>0, <1>6, <3>1, <3>2, <3>3, ResolverMoves DEF RenewLease
  <2>3. QED
    BY <2>1, <2>2
<1>7. ASSUME NEW p \in Resolvers, NEW s \in DeferredSteps, ResolverDies(p, s) PROVE RefInv'
  <2>1. refFaults' \in 0..MaxResolverFaults
    BY <1>0, <1>7, HeadsAssumption DEF ResolverDies
  <2>2. QED
    BY <1>0, <1>7, <1>i, <2>1, ResolverMoves DEF ResolverDies, Agrees
<1>8. ASSUME NEW s \in DeferredSteps, LeaseLapses(s) \/ LeaseOfTheDeadLapses(s) PROVE RefInv'
  <2>1. /\ refRow' \in [DeferredSteps -> RowType]
        /\ \A t \in DeferredSteps : /\ refRow'[t].renders = refRow[t].renders
                                    /\ refRow'[t].deferred = refRow[t].deferred
                                    /\ refRow'[t].commit = refRow[t].commit
    BY <1>0, <1>8, LeaseMark DEF LeaseLapses, LeaseOfTheDeadLapses
  <2>2. refFaults' \in 0..MaxResolverFaults
    BY <1>0, <1>8, HeadsAssumption DEF LeaseLapses, LeaseOfTheDeadLapses
  <2>3. QED
    BY <1>0, <1>8, <2>1, <2>2, RowMoves DEF LeaseLapses, LeaseOfTheDeadLapses
<1>9. ASSUME NEW s \in DeferredSteps, ClaimResolved(s) PROVE RefInv'
  <2>1. /\ refRow' \in [DeferredSteps -> RowType]
        /\ \A t \in DeferredSteps : /\ refRow'[t].renders = refRow[t].renders
                                    /\ refRow'[t].deferred = refRow[t].deferred
                                    /\ refRow'[t].commit = refRow[t].commit
    BY <1>0, <1>9 DEF ClaimResolved, RowType
  <2>2. QED
    BY <1>0, <1>9, <2>1, RowMoves DEF ClaimResolved
<1>10. ASSUME CancelRefSteps PROVE RefInv'
  <2>1. /\ refRow' \in [DeferredSteps -> RowType]
        /\ \A t \in DeferredSteps : /\ refRow'[t].renders = refRow[t].renders
                                    /\ refRow'[t].deferred = refRow[t].deferred
                                    /\ refRow'[t].commit = refRow[t].commit
    BY <1>0, <1>10 DEF CancelRefSteps, RowType
  <2>2. QED
    BY <1>0, <1>10, <2>1, RowMoves DEF CancelRefSteps
<1>11. ASSUME CancelRefJob PROVE RefInv'
  BY <1>0, <1>11, RowMoves DEF CancelRefJob
<1>12. ASSUME BranchMoves PROVE RefInv'
  BY <1>12 DEF BranchMoves, RefInv, RefTypeOK, ResolversAgree, Agrees, RowsAgree, Fits, Decided
<1>13. CASE UNCHANGED refVars
  BY <1>13 DEF refVars, RefInv, RefTypeOK, ResolversAgree, Agrees, RowsAgree, Fits, Decided
<1>14. ASSUME NEW p \in Resolvers, NEW s \in DeferredSteps, RendersNothing(p, s) PROVE RefInv'
  <2> DEFINE x == [resolver[p][s] EXCEPT !.pc = "build"]
  <2>1. resolver' = [resolver EXCEPT ![p][s] = x]
    BY <1>14 DEF RendersNothing, To
  <2>2. x \in ResolverType /\ x.pc = "build" /\ x.commit = resolver[p][s].commit
    BY <1>r DEF ResolverType
  <2>3. Agrees(s, x)
    BY <1>0, <1>14, <2>2 DEF ResolversAgree, Agrees, Fits, RendersNothing
  <2> HIDE DEF x
  <2>4. QED
    BY <1>0, <1>14, <2>1, <2>2, <2>3, ResolverMoves DEF RendersNothing
<1>15. QED
  BY <1>14, <1>1, <1>2, <1>3, <1>4, <1>5, <1>6, <1>7, <1>8, <1>9, <1>10, <1>11, <1>12, <1>13,
     MemoriseKeeps, ResolveKeeps DEF RefNext, Resolve

(* The inductive invariant holds of every behaviour.                       *)
THEOREM RefInvHolds == RefSpec => []RefInv
BY RefInvInit, RefInvStep, PTL DEF RefSpec

(* Every step of the job that rendered the value runs at the same commit,  *)
(* whoever resolved it and however the branch moved meanwhile, and one     *)
(* that rendered nothing runs at none.                                     *)
THEOREM CommitIsShared == RefSpec => []OneCommitPerRef
<1>1. RefInv => OneCommitPerRef
  <2> SUFFICES ASSUME RefInv, NEW s \in DeferredSteps, NEW t \in DeferredSteps,
                      ~refRow[s].deferred, ~refRow[t].deferred
               PROVE  refRow[s].commit = refRow[t].commit <=> refRow[s].renders = refRow[t].renders
    BY DEF OneCommitPerRef
  <2>1. refRow[s].renders \in {"value", "nothing"} /\ refRow[t].renders \in {"value", "nothing"}
    BY TypeParts DEF RowType
  <2>2. QED
    BY <2>1 DEF RefInv, RowsAgree, Fits, Decided
<1>2. QED
  BY <1>1, RefInvHolds, PTL

(* A deferred row ends its wait by the write of the resolver that holds    *)
(* its lease, or by the cancel; a resolver that was overtaken writes       *)
(* neither its commit nor its error, and what ended its wait is final.     *)
THEOREM HolderWrites == RefSpec => OnlyHolderWrites
<1> DEFINE Fenced(s) ==
       /\ Unresolved(s) /\ ~Unresolved(s)' =>
            EndedByCancel(s) \/ \E p \in Resolvers : EndedByHolder(p, s)
       /\ Unresolved(s)' => Unresolved(s)
       /\ refRow[s].status \in {"failed", "cancelled"} =>
            refRow'[s].status = refRow[s].status /\ refRow'[s].commit = refRow[s].commit
<1>1. RefInv /\ [RefNext]_refVars => [\A s \in DeferredSteps : Fenced(s)]_refVars
  <2> SUFFICES ASSUME RefInv, RefNext, NEW t \in DeferredSteps PROVE Fenced(t)
    OBVIOUS
  <2>0. /\ refRow \in [DeferredSteps -> RowType]
        /\ resolver \in [Resolvers -> [DeferredSteps -> ResolverType]]
    BY TypeParts
  <2>q. ASSUME refRow'[t].status = refRow[t].status, refRow'[t].deferred = refRow[t].deferred,
               refRow'[t].commit = refRow[t].commit
        PROVE  Fenced(t)
    BY <2>q DEF Unresolved
  <2>1. ASSUME NEW p \in Resolvers, NEW s \in DeferredSteps, ResolveDeferred(p, s) PROVE Fenced(t)
    <3>1. CASE t = s /\ ~resolver[p][s].lost /\ MayWrite(p, s)
      <4>1. /\ refRow'[s].status = "ready" /\ refRow[s].status = "ready"
            /\ refRow[s].deferred /\ ~refRow'[s].deferred
            /\ resolver'[p][s] = IdleResolver /\ refRow[s].owner = p /\ refJob = "running"
        BY <2>0, <2>1, <3>1 DEF ResolveDeferred, WriteRow, MayWrite, Unresolved, RowType
      <4>2. EndedByHolder(p, s)
        BY <2>1, <3>1, <4>1 DEF EndedByHolder, ResolveDeferred, IdleResolver
      <4>3. QED
        BY <3>1, <4>1, <4>2 DEF Unresolved
    <3>2. CASE t # s \/ resolver[p][s].lost \/ ~MayWrite(p, s)
      BY <2>0, <2>1, <2>q, <3>2 DEF ResolveDeferred, WriteRow
    <3>3. QED
      BY <3>1, <3>2
  <2>2. ASSUME NEW p \in Resolvers, NEW s \in DeferredSteps, FailDeferred(p, s) PROVE Fenced(t)
    <3>1. CASE t = s /\ ~resolver[p][s].lost /\ MayWrite(p, s)
      <4>1. /\ refRow'[s].status = "failed" /\ refRow[s].status = "ready"
            /\ resolver'[p][s] = IdleResolver /\ refRow[s].owner = p /\ refJob = "running"
        BY <2>0, <2>2, <3>1 DEF FailDeferred, WriteRow, MayWrite, Unresolved, RowType
      <4>2. EndedByHolder(p, s)
        BY <2>2, <3>1, <4>1 DEF EndedByHolder, FailDeferred, IdleResolver
      <4>3. QED
        BY <3>1, <4>1, <4>2 DEF Unresolved
    <3>2. CASE t # s \/ resolver[p][s].lost \/ ~MayWrite(p, s)
      BY <2>0, <2>2, <2>q, <3>2 DEF FailDeferred, WriteRow
    <3>3. QED
      BY <3>1, <3>2
  <2>3. ASSUME NEW p \in Resolvers, NEW s \in DeferredSteps,
               TakeLease(p, s) \/ RenewLease(p, s) PROVE Fenced(t)
    <3>1. /\ refRow'[t].status = refRow[t].status /\ refRow'[t].deferred = refRow[t].deferred
          /\ refRow'[t].commit = refRow[t].commit
      <4>1. CASE TakeLease(p, s)
        BY <2>0, <4>1 DEF TakeLease, RowType
      <4>2. CASE RenewLease(p, s)
        <5>1. refRow' = refRow \/ refRow' = [refRow EXCEPT ![s].live = TRUE]
          BY <4>2 DEF RenewLease
        <5>2. QED
          BY <2>0, <5>1 DEF RowType
      <4>3. QED
        BY <2>3, <4>1, <4>2
    <3>2. QED
      BY <2>q, <3>1
  <2>4. ASSUME NEW s \in DeferredSteps, LeaseLapses(s) \/ LeaseOfTheDeadLapses(s) PROVE Fenced(t)
    <3>1. /\ refRow'[t].status = refRow[t].status /\ refRow'[t].deferred = refRow[t].deferred
          /\ refRow'[t].commit = refRow[t].commit
      BY <2>0, <2>4 DEF LeaseLapses, LeaseOfTheDeadLapses, RowType
    <3>2. QED
      BY <2>q, <3>1
  <2>5. ASSUME NEW s \in DeferredSteps, ClaimResolved(s) PROVE Fenced(t)
    BY <2>0, <2>5 DEF ClaimResolved, RowType, Unresolved
  <2>6. ASSUME CancelRefSteps PROVE Fenced(t)
    BY <2>0, <2>6 DEF CancelRefSteps, RowType, Unresolved, EndedByCancel
  <2>7. ASSUME NEW p \in Resolvers, NEW s \in DeferredSteps,
               \/ SelectCommit(p, s) \/ RendersNothing(p, s) \/ ResolutionFails(p, s)
               \/ Memorise(p, s) \/ BuildRow(p, s) \/ ResolverDies(p, s)
        PROVE  Fenced(t)
    BY <2>7, <2>q DEF SelectCommit, RendersNothing, ResolutionFails, Memorise, BuildRow, ResolverDies
  <2>8. BranchMoves \/ CancelRefJob => Fenced(t)
    BY <2>q DEF BranchMoves, CancelRefJob
  <2> HIDE DEF Fenced
  <2>9. QED
    BY <2>1, <2>2, <2>3, <2>4, <2>5, <2>6, <2>7, <2>8 DEF RefNext, Resolve
<1>2. QED
  BY <1>1, RefInvHolds, PTL DEF RefSpec, OnlyHolderWrites
=============================================================================
