---------------------------- MODULE DeferredRefs ----------------------------
(***************************************************************************)
(* The deferred-step pass: steps of one job whose ref: is a template wait  *)
(* as deferred rows until a resolver that holds the row's lease renders    *)
(* the template, chooses the commit (one per job, owner and value, kept in *)
(* job_ref_pin, first writer wins), checks it, and writes the row.  Here   *)
(* every step renders the same value, or nothing.  Advances of any replica *)
(* and the recovery sweep resolve concurrently, and the branch moves       *)
(* meanwhile.                                                              *)
(***************************************************************************)
EXTENDS Naturals

CONSTANTS
  DeferredSteps,
  Resolvers,
  Heads,            \* commits the branch points to, one after another
  NoHead,
  MaxResolverFaults \* bound: resolvers that die or stop renewing

ASSUME HeadsAssumption == Heads # {} /\ NoHead \notin Heads /\ MaxResolverFaults \in Nat

VARIABLES
  refJob,      \* job.status: "running", "cancelled"
  refRow,      \* [DeferredSteps -> row]; renders: what its ref_template gives
  refMemo,     \* job_ref_pin: the commit of the value, or NoHead
  head,        \* the commit the branch points to now
  resolver,    \* [Resolvers -> [pc, step, commit, lost]]
  refFaults

refVars == <<refJob, refRow, refMemo, head, resolver, refFaults>>

IdleResolver == [pc |-> "idle", commit |-> NoHead, lost |-> FALSE]

RefInit ==
  /\ refJob = "running" /\ refMemo = NoHead /\ head = (CHOOSE h \in Heads : TRUE) /\ refFaults = 0
  /\ refRow \in [DeferredSteps -> [renders : {"value", "nothing"}, status : {"ready"},
                   deferred : {TRUE}, commit : {NoHead}, owner : {"nobody"}, live : {FALSE}]]
  /\ resolver = [p \in Resolvers |-> [s \in DeferredSteps |-> IdleResolver]]

(* get_ready_deferred_steps *)
Unresolved(s) == refRow[s].status = "ready" /\ refRow[s].deferred

(* A resolver works on one step at a time. *)
Free(p) == \A s \in DeferredSteps : resolver[p][s].pc = "idle"
To(p, s, pc) == resolver' = [resolver EXCEPT ![p][s].pc = pc]

-----------------------------------------------------------------------------
(* Mutant: an expired lease is not taken over. *)
TakeFreeLease(p, s) ==
  /\ Free(p) /\ Unresolved(s) /\ refRow[s].owner = "nobody"
  /\ refRow' = [refRow EXCEPT ![s].owner = p, ![s].live = TRUE]
  /\ resolver' = [resolver EXCEPT ![p][s] = [IdleResolver EXCEPT !.pc = "render"]]
  /\ UNCHANGED <<refJob, refMemo, head, refFaults>>

(* take_resolve_lease: no lease, or an expired one. *)
TakeLease(p, s) ==
  /\ Free(p) /\ Unresolved(s) /\ ~refRow[s].live
  /\ refRow' = [refRow EXCEPT ![s].owner = p, ![s].live = TRUE]
  /\ resolver' = [resolver EXCEPT ![p][s] = [IdleResolver EXCEPT !.pc = "render"]]
  /\ UNCHANGED <<refJob, refMemo, head, refFaults>>

(* resolve_one, steps 1 to 3: the memo, else what the branch points to. *)
SelectCommit(p, s) ==
  /\ resolver[p][s].pc = "render" /\ refRow[s].renders = "value"
  /\ resolver' = [resolver EXCEPT ![p][s].pc = "load",
                    ![p][s].commit = IF refMemo = NoHead THEN head ELSE refMemo]
  /\ UNCHANGED <<refJob, refRow, refMemo, head, refFaults>>

(* An empty value is no ref: the row is built from the job's own config,   *)
(* without a commit and without the memo.                                  *)
RendersNothing(p, s) ==
  /\ resolver[p][s].pc = "render" /\ refRow[s].renders = "nothing"
  /\ To(p, s, "build")
  /\ UNCHANGED <<refJob, refRow, refMemo, head, refFaults>>

(* The template, the secret check or the commit's config fails. *)
ResolutionFails(p, s) ==
  /\ resolver[p][s].pc \in {"render", "load", "build"}
  /\ To(p, s, "fail")
  /\ UNCHANGED <<refJob, refRow, refMemo, head, refFaults>>

(* Mutant: the last writer wins. *)
InsertLastWins(c) == c

(* insert_first_wins *)
InsertFirstWins(c) == IF refMemo = NoHead THEN c ELSE refMemo

(* select_commit, a turn of its loop: the config of the commit loads and   *)
(* passes the check, then the memo decides; a different commit is loaded   *)
(* and checked in its turn.  The memo never changes once written, so the   *)
(* bound of three turns is not met.                                        *)
Memorise(p, s) ==
  /\ resolver[p][s].pc = "load"
  /\ refMemo' = InsertFirstWins(resolver[p][s].commit)
  /\ resolver' = [resolver EXCEPT ![p][s].commit = refMemo',
                    ![p][s].pc = IF refMemo' = resolver[p][s].commit THEN "build" ELSE "load"]
  /\ UNCHANGED <<refJob, refRow, head, refFaults>>

BuildRow(p, s) ==
  /\ resolver[p][s].pc = "build" /\ To(p, s, "write")
  /\ UNCHANGED <<refJob, refRow, refMemo, head, refFaults>>

(* deferred_job_gate, and the WHERE clause of both writes. *)
MayWrite(p, s) == refJob = "running" /\ Unresolved(s) /\ refRow[s].owner = p

(* resolve_deferred_tx and fail_deferred_tx, after the is_lost check. *)
WriteRow(p, s, row) ==
  /\ resolver' = [resolver EXCEPT ![p][s] = IdleResolver]
  /\ refRow' = IF ~resolver[p][s].lost /\ MayWrite(p, s)
               THEN [refRow EXCEPT ![s] = row] ELSE refRow
  /\ UNCHANGED <<refJob, refMemo, head, refFaults>>

ResolveDeferred(p, s) ==
  /\ resolver[p][s].pc = "write"
  /\ WriteRow(p, s, [refRow[s] EXCEPT !.deferred = FALSE, !.owner = "nobody", !.live = FALSE,
                                       !.commit = resolver[p][s].commit])

(* Mutant: failing the row is fenced by the row alone, not by the lease. *)
FailUnfenced(p, s) ==
  /\ resolver[p][s].pc = "fail"
  /\ resolver' = [resolver EXCEPT ![p][s] = IdleResolver]
  /\ refRow' = IF refJob = "running" /\ Unresolved(s)
               THEN [refRow EXCEPT ![s].status = "failed"] ELSE refRow
  /\ UNCHANGED <<refJob, refMemo, head, refFaults>>

FailDeferred(p, s) ==
  /\ resolver[p][s].pc = "fail"
  /\ WriteRow(p, s, [refRow[s] EXCEPT !.status = "failed", !.owner = "nobody", !.live = FALSE])

-----------------------------------------------------------------------------
(* The renewal task of a held lease. *)
RenewLease(p, s) ==
  /\ resolver[p][s].pc # "idle"
  /\ IF refRow[s].owner = p /\ Unresolved(s)
     THEN refRow' = [refRow EXCEPT ![s].live = TRUE] /\ UNCHANGED resolver
     ELSE resolver' = [resolver EXCEPT ![p][s].lost = TRUE] /\ UNCHANGED refRow
  /\ UNCHANGED <<refJob, refMemo, head, refFaults>>

(* Nobody renews: the holder is paused (it goes on later) or it died. *)
LeaseLapses(s) ==
  /\ refRow[s].live /\ refFaults < MaxResolverFaults
  /\ refRow' = [refRow EXCEPT ![s].live = FALSE] /\ refFaults' = refFaults + 1
  /\ UNCHANGED <<refJob, refMemo, head, resolver>>

LeaseOfTheDeadLapses(s) ==
  /\ refRow[s].live /\ refRow[s].owner \in Resolvers
  /\ resolver[refRow[s].owner][s].pc = "idle"
  /\ refRow' = [refRow EXCEPT ![s].live = FALSE]
  /\ UNCHANGED <<refJob, refMemo, head, resolver, refFaults>>

ResolverDies(p, s) ==
  /\ resolver[p][s].pc # "idle" /\ refFaults < MaxResolverFaults
  /\ resolver' = [resolver EXCEPT ![p][s] = IdleResolver] /\ refFaults' = refFaults + 1
  /\ UNCHANGED <<refJob, refRow, refMemo, head>>

BranchMoves ==
  /\ head' \in Heads \ {head}
  /\ UNCHANGED <<refJob, refRow, refMemo, resolver, refFaults>>

(* The resolved step is claimed by a worker, and runs at its commit. *)
ClaimResolved(s) ==
  /\ refRow[s].status = "ready" /\ ~refRow[s].deferred
  /\ refRow' = [refRow EXCEPT ![s].status = "running"]
  /\ UNCHANGED <<refJob, refMemo, head, resolver, refFaults>>

(* settlement cancel: the job row, then its pending and ready steps. *)
CancelRefJob ==
  /\ refJob = "running" /\ refJob' = "cancelled"
  /\ UNCHANGED <<refRow, refMemo, head, resolver, refFaults>>

CancelRefSteps ==
  /\ refJob = "cancelled"
  /\ \E s \in DeferredSteps : refRow[s].status = "ready"
  /\ refRow' = [s \in DeferredSteps |-> IF refRow[s].status = "ready"
                  THEN [refRow[s] EXCEPT !.status = "cancelled"] ELSE refRow[s]]
  /\ UNCHANGED <<refJob, refMemo, head, resolver, refFaults>>

Resolve(p, s) ==
  \/ SelectCommit(p, s) \/ RendersNothing(p, s) \/ ResolutionFails(p, s)
  \/ Memorise(p, s) \/ BuildRow(p, s) \/ ResolveDeferred(p, s) \/ FailDeferred(p, s)

RefNext ==
  \/ \E s \in DeferredSteps :
       \/ \E p \in Resolvers :
            TakeLease(p, s) \/ Resolve(p, s) \/ RenewLease(p, s) \/ ResolverDies(p, s)
       \/ LeaseLapses(s) \/ LeaseOfTheDeadLapses(s) \/ ClaimResolved(s)
  \/ BranchMoves \/ CancelRefJob \/ CancelRefSteps

RefSpec == RefInit /\ [][RefNext]_refVars

-----------------------------------------------------------------------------
(* Safety: every step of the job that rendered the value runs at the same  *)
(* commit, whoever resolved it and however the branch moved meanwhile, and *)
(* one that rendered nothing runs at none (deferred.rs, resolve_one and    *)
(* select_commit; JobRefPinRepo::insert_first_wins).                       *)
OneCommitPerRef ==
  \A s, t \in DeferredSteps :
    ~refRow[s].deferred /\ ~refRow[t].deferred =>
      (refRow[s].commit = refRow[t].commit <=> refRow[s].renders = refRow[t].renders)

(* What ends the wait of a deferred row: the write of the resolver that    *)
(* holds its lease, has not seen it lost, and goes idle with it, or the    *)
(* cancel.                                                                 *)
EndedByHolder(p, s) ==
  /\ refJob = "running" /\ refRow[s].owner = p /\ ~resolver[p][s].lost
  /\ resolver'[p][s].pc = "idle"
  /\ \/ resolver[p][s].pc = "write" /\ refRow'[s].status = "ready"
     \/ resolver[p][s].pc = "fail" /\ refRow'[s].status = "failed"
EndedByCancel(s) == refJob = "cancelled" /\ refRow'[s].status = "cancelled"

(* Action property: a deferred row is resolved or failed by the holder of  *)
(* its lease alone, and on a live job; a resolver that was overtaken       *)
(* writes nothing, neither its commit nor its error, and a row that ended  *)
(* its wait never waits again, nor does one that failed or was cancelled   *)
(* change (job_step.rs, resolve_deferred_tx and fail_deferred_tx).         *)
OnlyHolderWrites ==
  [][\A s \in DeferredSteps :
       /\ Unresolved(s) /\ ~Unresolved(s)' =>
            EndedByCancel(s) \/ \E p \in Resolvers : EndedByHolder(p, s)
       /\ Unresolved(s)' => Unresolved(s)
       /\ refRow[s].status \in {"failed", "cancelled"} =>
            refRow'[s].status = refRow[s].status /\ refRow'[s].commit = refRow[s].commit]_refVars

(* Liveness: no deferred row waits for ever, although resolvers die and    *)
(* leases lapse (recovery.rs, readvance_deferred_steps).                   *)
DeferredEnds == \A s \in DeferredSteps : <>~Unresolved(s)
=============================================================================
