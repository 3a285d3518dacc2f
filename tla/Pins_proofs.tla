---------------------------- MODULE Pins_proofs ----------------------------
(***************************************************************************)
(* What is proved of how a replica follows the sources of its workspaces:  *)
(* the published snapshot never goes back (WorkspaceReload), the commits a *)
(* ref is resolved to never go back and its answers are real (PinResolve), *)
(* and eviction takes no checkout that is in use (PinStore).  Each part    *)
(* has its inductive invariant.                                            *)
(***************************************************************************)
EXTENDS PinStore, PinResolve, WorkspaceReload, TLAPS

-----------------------------------------------------------------------------
(***************************************************************************)
(* The snapshot of a workspace                                             *)
(***************************************************************************)

LoadType == [op : {"none", "run", "read"}, rev : Nat, ok : BOOLEAN]

ReloadTypeOK ==
  /\ source \in [rev : Nat, ok : BOOLEAN]
  /\ published \in [rev : Nat, error : BOOLEAN]
  /\ load \in [Callers -> LoadType]

(* The mutex: one load at a time, and none before the first one is over. *)
OneLoad ==
  /\ load["watcher"].op = "none" \/ load["external"].op = "none"
  /\ watcher = "starting" => ExecFree

(* What was read is between what is served and what there is. *)
ReadIsCurrent ==
  /\ published.rev <= source.rev
  /\ \A by \in Callers :
       load[by].op = "read" => published.rev <= load[by].rev /\ load[by].rev <= source.rev

ReloadInv == ReloadTypeOK /\ OneLoad /\ ReadIsCurrent

(* The snapshots apply_load_result publishes. *)
LEMMA SnapshotTypes ==
  /\ \A x \in [rev : Nat, error : BOOLEAN] :
       [x EXCEPT !.error = TRUE] \in [rev : Nat, error : BOOLEAN]
       /\ [x EXCEPT !.error = TRUE].rev = x.rev
  /\ \A n \in Nat : [rev |-> n, error |-> FALSE] \in [rev : Nat, error : BOOLEAN]
       /\ [rev |-> n, error |-> FALSE].rev = n
OBVIOUS

(* The invariant holds initially. *)
LEMMA ReloadInvInit == ReloadInit => ReloadInv
BY DEF ReloadInit, ReloadInv, ReloadTypeOK, OneLoad, ReadIsCurrent, LoadType, NoLoad, Callers,
       ExecFree

(* A step that touches neither the source, the snapshot nor a load, and    *)
(* does not go back to the start, keeps the invariant.                     *)
LEMMA ReloadAside ==
  ASSUME ReloadInv, UNCHANGED <<source, published, load>>,
         watcher' = "starting" => watcher = "starting"
  PROVE  ReloadInv'
BY DEF ReloadInv, ReloadTypeOK, OneLoad, ReadIsCurrent, ExecFree

(* A load by one caller that took the mutex, or read the source.           *)
LEMMA LoadMoves ==
  ASSUME ReloadInv, NEW by \in Callers, NEW x \in LoadType,
         load' = [load EXCEPT ![by] = x],
         \A other \in Callers \ {by} : load[other].op = "none",
         watcher' # "starting", UNCHANGED <<source, published>>,
         x.op = "read" => x.rev = source.rev
  PROVE  ReloadInv'
<1>1. load' \in [Callers -> LoadType] /\ load'[by] = x
      /\ \A other \in Callers \ {by} : load'[other] = load[other]
  BY DEF ReloadInv, ReloadTypeOK
<1>2. ReloadTypeOK'
  BY <1>1 DEF ReloadInv, ReloadTypeOK
<1>3. OneLoad'
  BY <1>1 DEF OneLoad, Callers
<1>4. published.rev <= source.rev /\ source.rev \in Nat /\ published.rev \in Nat
  BY DEF ReloadInv, ReadIsCurrent, ReloadTypeOK
<1>5. ReadIsCurrent'
  BY <1>1, <1>4 DEF ReadIsCurrent
<1>6. QED
  BY <1>2, <1>3, <1>5 DEF ReloadInv

(* Every step keeps the invariant, and does not take the snapshot back. *)
LEMMA ReloadStep ==
  ASSUME ReloadInv, [ReloadNext]_reloadVars
  PROVE  ReloadInv' /\ published'.rev >= published.rev
<1>0. /\ source.rev \in Nat /\ source.ok \in BOOLEAN /\ source \in [rev : Nat, ok : BOOLEAN]
      /\ published.rev \in Nat /\ published.rev <= source.rev
      /\ published \in [rev : Nat, error : BOOLEAN]
      /\ load \in [Callers -> LoadType]
      /\ \A by \in Callers : load[by] \in LoadType
  BY DEF ReloadInv, ReloadTypeOK, ReadIsCurrent
<1>a. ASSUME UNCHANGED published PROVE published'.rev >= published.rev
  BY <1>0, <1>a
<1>1. CASE StartupLoad
  <2>1. UNCHANGED <<source, load>> /\ watcher' = "idle" /\ ExecFree
    BY <1>1 DEF StartupLoad, ReloadInv, OneLoad
  <2>2. published' = [rev |-> source.rev, error |-> FALSE]
        \/ published' = [published EXCEPT !.error = TRUE]
    BY <1>1 DEF StartupLoad, ApplyLoadResult
  <2>3. published' \in [rev : Nat, error : BOOLEAN]
        /\ (published'.rev = source.rev \/ published'.rev = published.rev)
    <3>1. CASE published' = [rev |-> source.rev, error |-> FALSE]
      BY <1>0, <3>1, SnapshotTypes
    <3>2. CASE published' = [published EXCEPT !.error = TRUE]
      BY <1>0, <3>2, SnapshotTypes
    <3>3. QED
      BY <2>2, <3>1, <3>2
  <2>4. QED
    BY <1>0, <2>1, <2>3 DEF ReloadInv, ReloadTypeOK, OneLoad, ReadIsCurrent, ExecFree
<1>2. CASE WatcherTick \/ PeekFinishes \/ PeekObserved \/ PeekTimedOut \/ LoadOverdue
           \/ ReloadClock \/ OthersTakePermit \/ OthersReturnPermit \/ UNCHANGED reloadVars
  <2>1. UNCHANGED <<source, published, load>>
    BY <1>2 DEF WatcherTick, PeekFinishes, PeekObserved, PeekTimedOut, LoadOverdue,
         ReloadClock, OthersTakePermit, OthersReturnPermit, reloadVars
  <2>2. watcher' = "starting" => watcher = "starting"
    BY <1>2 DEF WatcherTick, PeekFinishes, PeekObserved, PeekTimedOut, LoadOverdue,
         ReloadClock, OthersTakePermit, OthersReturnPermit, reloadVars, PeekFailed
  <2>3. QED
    BY <1>a, <2>1, <2>2, ReloadAside
<1>3. CASE AdmitLoad
  <2>1. CASE ExecFree /\ permitTaken = "no"
    <3> DEFINE x == [load["watcher"] EXCEPT !.op = "run"]
    <3>1. load' = [load EXCEPT !["watcher"] = x] /\ watcher' = "loading"
          /\ UNCHANGED <<source, published>>
      BY <1>3, <2>1 DEF AdmitLoad
    <3>2. "watcher" \in Callers
      BY DEF Callers
    <3>3. x \in LoadType /\ x.op = "run"
      BY <1>0, <3>2 DEF LoadType
    <3> HIDE DEF x
    <3>4. QED
      BY <1>a, <2>1, <3>1, <3>2, <3>3, LoadMoves DEF ExecFree
  <2>2. CASE ~(ExecFree /\ permitTaken = "no")
    BY <1>3, <1>a, <2>2, ReloadAside DEF AdmitLoad
  <2>3. QED
    BY <2>1, <2>2
<1>4. CASE ExternalReload
  <2> DEFINE x == [load["external"] EXCEPT !.op = "run"]
  <2>1. load' = [load EXCEPT !["external"] = x] /\ watcher' # "starting"
        /\ UNCHANGED <<source, published>> /\ ExecFree
    BY <1>4 DEF ExternalReload
  <2>2. "external" \in Callers
    BY DEF Callers
  <2>3. x \in LoadType /\ x.op = "run"
    BY <1>0, <2>2 DEF LoadType
  <2> HIDE DEF x
  <2>4. QED
    BY <1>a, <2>1, <2>2, <2>3, LoadMoves DEF ExecFree
<1>5. ASSUME NEW by \in Callers, LoadReads(by) PROVE ReloadInv' /\ published'.rev >= published.rev
  <2>1. PICK ok \in BOOLEAN :
          load' = [load EXCEPT ![by] = [op |-> "read", rev |-> source.rev, ok |-> ok]]
    BY <1>0, <1>5 DEF LoadReads
  <2> DEFINE x == [op |-> "read", rev |-> source.rev, ok |-> ok]
  <2>2. x \in LoadType /\ x.rev = source.rev
    BY <1>0 DEF LoadType
  <2>3. load[by].op = "run" /\ UNCHANGED <<source, published, watcher>>
    BY <1>5 DEF LoadReads
  <2>4. watcher # "starting" /\ \A other \in Callers \ {by} : load[other].op = "none"
    BY <2>3 DEF ReloadInv, OneLoad, ExecFree, Callers
  <2> HIDE DEF x
  <2>5. QED
    BY <1>a, <2>1, <2>2, <2>3, <2>4, LoadMoves DEF x
<1>6. ASSUME NEW by \in Callers, LoadFinishes(by) PROVE ReloadInv' /\ published'.rev >= published.rev
  <2>1. load[by].op = "read" /\ load' = [load EXCEPT ![by] = NoLoad] /\ source' = source
        /\ watcher' \in {watcher, "idle"}
        /\ (published' = [rev |-> load[by].rev, error |-> FALSE]
              \/ published' = [published EXCEPT !.error = TRUE])
    BY <1>6 DEF LoadFinishes, ApplyLoadResult
  <2>2. load[by].rev \in Nat /\ published.rev <= load[by].rev /\ load[by].rev <= source.rev
    BY <1>0, <2>1 DEF ReloadInv, ReadIsCurrent, LoadType
  <2>3. published' \in [rev : Nat, error : BOOLEAN]
        /\ (published'.rev = load[by].rev \/ published'.rev = published.rev)
    <3>1. CASE published' = [rev |-> load[by].rev, error |-> FALSE]
      BY <2>2, <3>1, SnapshotTypes
    <3>2. CASE published' = [published EXCEPT !.error = TRUE]
      BY <1>0, <3>2, SnapshotTypes
    <3>3. QED
      BY <2>1, <3>1, <3>2
  <2>4. NoLoad \in LoadType /\ NoLoad.op = "none"
    BY DEF NoLoad, LoadType
  <2>5. load' \in [Callers -> LoadType] /\ \A other \in Callers : load'[other].op = "none"
    BY <1>0, <2>1, <2>4 DEF ReloadInv, OneLoad, Callers
  <2>6. QED
    BY <1>0, <2>1, <2>2, <2>3, <2>5 DEF ReloadInv, ReloadTypeOK, OneLoad, ReadIsCurrent, ExecFree, Callers
<1>7. CASE SourceChanges
  <2>1. PICK ok \in BOOLEAN : source' = [rev |-> source.rev + 1, ok |-> ok]
    BY <1>7 DEF SourceChanges
  <2>2. UNCHANGED <<published, load, watcher>>
    BY <1>7 DEF SourceChanges
  <2>3. source' \in [rev : Nat, ok : BOOLEAN] /\ source'.rev = source.rev + 1
    BY <1>0, <2>1
  <2>4. \A by \in Callers : load[by].rev \in Nat
    BY <1>0 DEF LoadType
  <2>5. QED
    BY <1>0, <1>a, <2>2, <2>3, <2>4 DEF ReloadInv, ReloadTypeOK, OneLoad, ReadIsCurrent, ExecFree
<1>8. QED
  BY <1>1, <1>2, <1>3, <1>4, <1>5, <1>6, <1>7 DEF ReloadNext

(* A published snapshot is never replaced by an older one: the mutex       *)
(* covers reading the source and publishing what was read, so what a load  *)
(* read is not older than what is served when it ends, however late its    *)
(* observer gave up (lifecycle.rs, spawn_load).                            *)
THEOREM SnapshotsMoveForward == ReloadSpec => PublishedMovesForward
<1>1. ReloadSpec => []ReloadInv
  BY ReloadInvInit, ReloadStep, PTL DEF ReloadSpec
<1>2. ReloadInv /\ [ReloadNext]_reloadVars => [published'.rev >= published.rev]_reloadVars
  BY ReloadStep
<1>3. QED
  BY <1>1, <1>2, PTL DEF ReloadSpec, PublishedMovesForward

-----------------------------------------------------------------------------
(***************************************************************************)
(* The commits of a ref                                                    *)
(***************************************************************************)

CallPcs == {"idle", "waiting", "listing", "forced", "listed", "fetching", "adopting"}
CallType == [pc : CallPcs, at : Nat]
ListingType == [at : Nat \cup {Unlisted}, fresh : BOOLEAN]

ResolveTypeOK ==
  /\ tip \in [seq : Nat, at : Nat]
  /\ listing \in ListingType
  /\ serial \in Resolvers \cup {Nobody}
  /\ resolver \in [Resolvers -> CallType]
  /\ newest \in Nat

(* The remote never goes back, and nothing newer was handed out. *)
TipIsNewest == tip.at \in {NoRef, tip.seq} /\ newest <= tip.seq

(* Beyond the queue there is only the holder of the resolve lock. *)
LockHolderOnly == \A r \in Resolvers : resolver[r].pc \in {"idle", "waiting"} \/ serial = r

(* The history has the ref as it is, while the lock is held. *)
TipIsSeen == serial # Nobody => tip.at \in seen

(* A commit that may be handed out: not older than the last one. *)
InOrder(at) == at # NoRef => newest <= at /\ at <= tip.seq

ListingInOrder == listing.at # Unlisted => InOrder(listing.at)

(* What a call carries: the answer of the remote while it had the lock,    *)
(* what the listing says, or the tip it fetched.                           *)
CallInOrder(r) ==
  /\ resolver[r].pc = "listed" => resolver[r].at \in seen /\ InOrder(resolver[r].at)
  /\ resolver[r].pc = "fetching" => resolver[r].at = listing.at /\ resolver[r].at # NoRef
  /\ resolver[r].pc = "adopting" =>
       resolver[r].at \in seen /\ InOrder(resolver[r].at) /\ resolver[r].at # NoRef

ResolveInv ==
  /\ ResolveTypeOK /\ TipIsNewest /\ LockHolderOnly /\ TipIsSeen /\ ListingInOrder
  /\ \A r \in Resolvers : CallInOrder(r)

(* The values of the types. *)
LEMMA ResolveTypes ==
  ASSUME ResolveTypeOK
  PROVE  /\ tip.seq \in Nat /\ tip.at \in Nat /\ newest \in Nat
         /\ listing.at \in Nat \cup {Unlisted} /\ listing.fresh \in BOOLEAN
         /\ \A r \in Resolvers : resolver[r] \in CallType /\ resolver[r].at \in Nat
BY DEF ResolveTypeOK, CallType, ListingType

(* The invariant holds initially. *)
LEMMA ResolveInvInit == ResolveInit => ResolveInv
<1> SUFFICES ASSUME ResolveInit PROVE ResolveInv
  OBVIOUS
<1>1. NoCall \in CallType /\ NoCall.pc = "idle"
  BY DEF NoCall, CallType, CallPcs, NoRef
<1>2. ResolveTypeOK
  BY <1>1 DEF ResolveInit, ResolveTypeOK, ListingType, NoRef
<1>3. TipIsNewest /\ TipIsSeen /\ ListingInOrder
  BY DEF ResolveInit, TipIsNewest, TipIsSeen, ListingInOrder, NoRef
<1>4. \A r \in Resolvers : resolver[r].pc = "idle"
  BY <1>1 DEF ResolveInit
<1>5. QED
  BY <1>2, <1>3, <1>4 DEF ResolveInv, LockHolderOnly, CallInOrder

(* A call that holds the lock ends: the others are in the queue, and the   *)
(* listing is not behind what it hands out.                                *)
LEMMA CallEnds ==
  ASSUME ResolveInv, NEW r \in Resolvers, NEW kind, NEW at \in Nat, serial = r,
         Resolved(r, kind, at), tip' = tip, at <= tip.seq,
         listing' \in ListingType, ListingInOrder'
  PROVE  ResolveInv'
<1>1. NoCall \in CallType /\ NoCall.pc = "idle"
  BY DEF NoCall, CallType, CallPcs, NoRef
<1>2. resolver' \in [Resolvers -> CallType] /\ resolver'[r] = NoCall
      /\ \A q \in Resolvers \ {r} : resolver'[q] = resolver[q]
  BY <1>1 DEF Resolved, ResolveInv, ResolveTypeOK
<1>3. \A q \in Resolvers : resolver'[q].pc \in {"idle", "waiting"}
  BY <1>1, <1>2 DEF ResolveInv, LockHolderOnly
<1>4. newest' \in Nat /\ newest' <= tip.seq
  BY ResolveTypes DEF Resolved, ResolveInv, ResolveTypeOK, TipIsNewest
<1>5. ResolveTypeOK' /\ TipIsNewest'
  BY <1>2, <1>4 DEF Resolved, ResolveInv, ResolveTypeOK, TipIsNewest
<1>6. LockHolderOnly' /\ TipIsSeen' /\ \A q \in Resolvers : CallInOrder(q)'
  BY <1>3 DEF Resolved, LockHolderOnly, TipIsSeen, CallInOrder
<1>7. QED
  BY <1>5, <1>6 DEF ResolveInv

(* A call that holds the lock goes on with a value that is in order. *)
LEMMA CallGoesOn ==
  ASSUME ResolveInv, NEW r \in Resolvers, NEW pc \in CallPcs, NEW at \in Nat, serial = r,
         Continue(r, pc, at), tip' = tip, listing' \in ListingType, ListingInOrder',
         pc \in {"listed", "adopting"} => at \in seen /\ InOrder(at),
         pc = "fetching" => at = listing'.at,
         pc \in {"fetching", "adopting"} => at # NoRef
  PROVE  ResolveInv'
<1> DEFINE x == [pc |-> pc, at |-> at]
<1>1. x \in CallType /\ x.pc = pc /\ x.at = at
  BY DEF CallType
<1>2. resolver' = [resolver EXCEPT ![r] = x] /\ UNCHANGED <<serial, given, newest, seen>>
  BY DEF Continue
<1> HIDE DEF x
<1>3. resolver' \in [Resolvers -> CallType] /\ resolver'[r] = x
      /\ \A q \in Resolvers \ {r} : resolver'[q] = resolver[q]
  BY <1>1, <1>2 DEF ResolveInv, ResolveTypeOK
<1>4. \A q \in Resolvers \ {r} : resolver'[q].pc \in {"idle", "waiting"}
  BY <1>3 DEF ResolveInv, LockHolderOnly
<1>5. ResolveTypeOK' /\ TipIsNewest' /\ TipIsSeen' /\ LockHolderOnly'
  BY <1>2, <1>3, <1>4 DEF ResolveInv, ResolveTypeOK, TipIsNewest, TipIsSeen, LockHolderOnly
<1>6. CallInOrder(r)'
  BY <1>1, <1>2, <1>3 DEF CallInOrder, InOrder
<1>7. \A q \in Resolvers \ {r} : CallInOrder(q)'
  BY <1>4 DEF CallInOrder
<1>8. QED
  BY <1>5, <1>6, <1>7 DEF ResolveInv

(* What a listing that is not from the cache leads to. *)
LEMMA LookupKeeps ==
  ASSUME ResolveInv, NEW r \in Resolvers, NEW at \in Nat, NEW failed \in BOOLEAN, serial = r,
         Lookup(r, at, failed), tip' = tip, listing' \in ListingType, InOrder(at),
         listing'.at = at
  PROVE  ResolveInv' /\ (given' = given \/ given'.kind = "unavailable"
                           \/ (given'.kind = "missing" /\ ~failed /\ at = NoRef))
<1>0. "fetching" \in CallPcs /\ NoRef \in Nat /\ NoRef <= tip.seq
  BY ResolveTypes DEF CallPcs, NoRef, ResolveInv
<1>1. CASE at # NoRef /\ Continue(r, "fetching", at)
  <2>1. ListingInOrder'
    BY <1>1 DEF ListingInOrder, InOrder, Continue
  <2>2. "fetching" \notin {"listed", "adopting"} /\ given' = given
    BY <1>1 DEF Continue
  <2>3. ResolveInv'
    BY <1>0, <1>1, <2>1, <2>2, CallGoesOn
  <2>4. QED
    BY <2>2, <2>3
<1>2. ASSUME NEW kind, at = NoRef, Resolved(r, kind, NoRef) PROVE ResolveInv' /\ given'.kind = kind
  <2>1. ListingInOrder'
    BY <1>2 DEF ListingInOrder, InOrder
  <2>2. QED
    BY <1>0, <1>2, <2>1, CallEnds DEF Resolved
<1>3. CASE at = NoRef /\ failed /\ Resolved(r, "unavailable", NoRef)
  BY <1>2, <1>3
<1>4. CASE at = NoRef /\ ~failed /\ Resolved(r, "missing", NoRef)
  BY <1>2, <1>4
<1>5. QED
  BY <1>1, <1>3, <1>4 DEF Lookup

(* An answer that is not older than the last one, and real. *)
GoodAnswer ==
  /\ given'.kind \in {"advertised", "adopted"} => given'.at >= newest
  /\ given'.kind = "missing" => NoRef \in seen
  /\ given'.kind = "adopted" => given'.at \in seen

StepAnswers == given' = given \/ given' = NoAnswer \/ GoodAnswer

(* The listing and the tip stay in order while nothing is handed out. *)
LEMMA OrderKept ==
  ASSUME ResolveInv, listing' = listing, newest' = newest, tip' = tip
  PROVE  listing' \in ListingType /\ ListingInOrder'
BY DEF ResolveInv, ResolveTypeOK, ListingInOrder, InOrder

(* commit_for_ref: the advertised commit, or the tip that is fetched. *)
LEMMA CommitForRefKeeps ==
  ASSUME ResolveInv, NEW r \in Resolvers, CommitForRef(r)
  PROVE  ResolveInv' /\ StepAnswers
<1> DEFINE at == resolver[r].at
<1>0. /\ resolver[r].pc = "fetching" /\ serial = r /\ at \in Nat /\ at = listing.at
      /\ at # NoRef /\ InOrder(at) /\ tip.at \in seen /\ tip' = tip /\ listing' = listing
      /\ tip.seq \in Nat /\ newest \in Nat /\ newest <= tip.seq /\ tip.at \in {NoRef, tip.seq}
      /\ listing \in ListingType /\ "adopting" \in CallPcs
  <2>1. resolver[r].pc = "fetching" /\ tip' = tip /\ listing' = listing
    BY DEF CommitForRef
  <2>2. serial = r /\ CallInOrder(r) /\ TipIsNewest /\ TipIsSeen /\ ListingInOrder /\ ResolveTypeOK
    BY <2>1 DEF ResolveInv, LockHolderOnly
  <2>3. /\ tip.seq \in Nat /\ newest \in Nat /\ at \in Nat /\ at = listing.at
        /\ at # NoRef /\ tip.at \in seen /\ newest <= tip.seq /\ tip.at \in {NoRef, tip.seq}
    BY <2>1, <2>2, ResolveTypes, ResolverAssumption DEF CallInOrder, TipIsNewest, TipIsSeen
  <2>4. InOrder(at) /\ "adopting" \in CallPcs /\ listing \in ListingType
    BY <2>2, <2>3 DEF ListingInOrder, Unlisted, CallPcs, ResolveTypeOK
  <2>5. QED
    BY <2>1, <2>2, <2>3, <2>4
<1>z. NoRef \in Nat /\ NoRef <= tip.seq
  BY <1>0 DEF NoRef
<1> HIDE DEF at
<1>1. CASE at \in objects /\ Resolved(r, "advertised", at)
  <2>1. at <= tip.seq /\ (newest' = at \/ newest' = newest)
    BY <1>0, <1>1 DEF InOrder, Resolved, NoRef
  <2>2. ListingInOrder' /\ listing' \in ListingType
    BY <1>0, <2>1 DEF ListingInOrder, InOrder
  <2>3. ResolveInv'
    BY <1>0, <1>1, <2>1, <2>2, CallEnds
  <2>4. given'.kind = "advertised" /\ given'.at = at /\ at >= newest
    BY <1>0, <1>1 DEF Resolved, InOrder
  <2>5. QED
    BY <2>3, <2>4 DEF StepAnswers, GoodAnswer
<1>2. CASE FetchRef /\ IF localRef' = NoRef THEN Resolved(r, "missing", NoRef)
                                           ELSE Continue(r, "adopting", localRef')
  <2>1. CASE localRef' = NoRef
    <3>1. NoRef \in seen
      BY <1>0, <1>2, <2>1 DEF FetchRef
    <3>2. Resolved(r, "missing", NoRef)
      BY <1>2, <2>1
    <3>3. newest' = newest
      BY <1>0, <3>2 DEF Resolved, NoRef
    <3>4. ResolveInv'
      BY <1>0, <1>z, <3>2, <3>3, OrderKept, CallEnds
    <3>5. given'.kind = "missing"
      BY <3>2 DEF Resolved
    <3>6. QED
      BY <3>1, <3>4, <3>5 DEF StepAnswers, GoodAnswer
  <2>2. CASE localRef' # NoRef
    <3>1. localRef' = tip.at /\ tip.at \in Nat /\ InOrder(tip.at)
      BY <1>0, <1>2, <2>2 DEF FetchRef, RefBeforeFetch, InOrder
    <3>2. Continue(r, "adopting", tip.at)
      BY <1>2, <2>2, <3>1
    <3>3. newest' = newest /\ given' = given
      BY <3>2 DEF Continue
    <3>4. "adopting" # "fetching"
      OBVIOUS
    <3>5. ResolveInv'
      BY <1>0, <2>2, <3>1, <3>2, <3>3, <3>4, OrderKept, CallGoesOn
    <3>6. QED
      BY <3>3, <3>5 DEF StepAnswers
  <2>3. QED
    BY <2>1, <2>2
<1>3. CASE Resolved(r, "unavailable", NoRef)
  <2>1. newest' = newest
    BY <1>0, <1>3 DEF Resolved, NoRef
  <2>2. ResolveInv'
    BY <1>0, <1>3, <1>z, <2>1, OrderKept, CallEnds
  <2>3. given'.kind = "unavailable"
    BY <1>3 DEF Resolved
  <2>4. QED
    BY <2>2, <2>3 DEF StepAnswers, GoodAnswer
<1>4. QED
  BY <1>1, <1>2, <1>3 DEF CommitForRef, at

(* Steps that move no call and no listing: only the remote and the bare    *)
(* repository change.                                                      *)
LEMMA ResolveAside ==
  ASSUME ResolveInv, UNCHANGED <<listing, serial, resolver, given, newest>>,
         \/ UNCHANGED <<tip, seen>> \/ RemoteMoves
  PROVE  ResolveInv'
<1>1. CASE UNCHANGED <<tip, seen>>
  BY <1>1 DEF ResolveInv, ResolveTypeOK, TipIsNewest, LockHolderOnly, TipIsSeen, ListingInOrder,
       InOrder, CallInOrder
<1>2. CASE RemoteMoves
  <2>1. PICK at \in {tip.seq + 1, NoRef} :
          /\ tip' = [seq |-> tip.seq + 1, at |-> at]
          /\ seen' = IF serial = Nobody THEN seen ELSE seen \union {at}
    BY <1>2 DEF RemoteMoves
  <2>2. tip.seq \in Nat /\ newest \in Nat /\ listing.at \in Nat \cup {Unlisted}
        /\ (\A r \in Resolvers : resolver[r].at \in Nat) /\ newest <= tip.seq
    BY ResolveTypes DEF ResolveInv, TipIsNewest
  <2>3. at \in Nat /\ tip'.seq = tip.seq + 1 /\ tip'.at = at /\ tip' \in [seq : Nat, at : Nat]
    BY <2>1, <2>2 DEF NoRef
  <2>4. ResolveTypeOK' /\ LockHolderOnly'
    BY <2>3 DEF ResolveInv, ResolveTypeOK, LockHolderOnly
  <2>5. TipIsNewest' /\ TipIsSeen'
    BY <2>1, <2>2, <2>3 DEF TipIsNewest, TipIsSeen
  <2>6. seen \subseteq seen'
    BY <2>1
  <2>7. \A n \in Nat : InOrder(n) => InOrder(n)'
    BY <2>2, <2>3 DEF InOrder
  <2>8. ListingInOrder'
    BY <2>2, <2>7 DEF ResolveInv, ListingInOrder
  <2>9. \A r \in Resolvers : CallInOrder(r)'
    BY <2>2, <2>6, <2>7 DEF ResolveInv, CallInOrder
  <2>10. QED
    BY <2>4, <2>5, <2>8, <2>9 DEF ResolveInv
<1>3. QED
  BY <1>1, <1>2

(* Every step keeps the invariant, and answers well if it answers. *)
LEMMA ResolveStep ==
  ASSUME ResolveInv, [ResolveNext]_resolveVars
  PROVE  ResolveInv' /\ StepAnswers
<1>0. /\ tip.seq \in Nat /\ tip.at \in Nat /\ newest \in Nat /\ newest <= tip.seq
      /\ listing \in ListingType /\ listing.at \in Nat \cup {Unlisted}
      /\ listing.fresh \in BOOLEAN
      /\ ResolveTypeOK /\ ListingInOrder /\ InOrder(tip.at)
      /\ NoRef \in Nat /\ NoRef <= tip.seq
      /\ \A r \in Resolvers : resolver[r] \in CallType /\ resolver[r].at \in Nat
  BY ResolveTypes DEF ResolveInv, TipIsNewest, InOrder, NoRef, ResolveTypeOK
<1>1. ASSUME NEW r \in Resolvers, Call(r) \/ TakeSerial(r) \/ ResolverDropped(r)
      PROVE  ResolveInv' /\ StepAnswers
  <2>1. PICK x \in CallType : x.pc \in {"idle", "waiting", "listing"}
          /\ resolver' = [resolver EXCEPT ![r] = x]
          /\ (x.pc = "listing" => serial' = r)
    <3>1. NoCall \in CallType /\ NoCall.pc = "idle"
      BY DEF NoCall, CallType, CallPcs, NoRef
    <3>2. \A pc \in {"waiting", "listing"} :
            [resolver[r] EXCEPT !.pc = pc] \in CallType /\ [resolver[r] EXCEPT !.pc = pc].pc = pc
      BY <1>0 DEF CallType, CallPcs
    <3>3. CASE Call(r)
      BY <3>2, <3>3 DEF Call
    <3>4. CASE TakeSerial(r)
      BY <3>2, <3>4 DEF TakeSerial
    <3>5. CASE ResolverDropped(r)
      BY <3>1, <3>5 DEF ResolverDropped
    <3>6. QED
      BY <1>1, <3>3, <3>4, <3>5
  <2>2. resolver' \in [Resolvers -> CallType] /\ resolver'[r] = x
        /\ \A q \in Resolvers \ {r} : resolver'[q] = resolver[q]
    BY <2>1 DEF ResolveInv, ResolveTypeOK
  <2>3. UNCHANGED <<tip, listing, newest>> /\ given' \in {given, NoAnswer}
    BY <1>1 DEF Call, TakeSerial, ResolverDropped
  <2>4. /\ serial' \in Resolvers \cup {Nobody}
        /\ serial' # Nobody => tip.at \in seen'
        /\ \A q \in Resolvers \ {r} : serial = q => serial' = q /\ seen' = seen
    BY <1>1, ResolverAssumption DEF Call, TakeSerial, ResolverDropped, ResolveInv, ResolveTypeOK, TipIsSeen
  <2>5. ResolveTypeOK' /\ TipIsNewest' /\ TipIsSeen' /\ ListingInOrder'
    BY <2>2, <2>3, <2>4 DEF ResolveInv, ResolveTypeOK, TipIsNewest, TipIsSeen, ListingInOrder, InOrder
  <2>6. LockHolderOnly'
    BY <2>1, <2>2, <2>4 DEF ResolveInv, LockHolderOnly
  <2>7. ASSUME NEW q \in Resolvers PROVE CallInOrder(q)'
    <3>1. CASE q = r
      BY <2>1, <2>2, <3>1 DEF CallInOrder
    <3>2. CASE q # r /\ serial # q
      BY <2>2, <3>2 DEF ResolveInv, LockHolderOnly, CallInOrder
    <3>3. CASE q # r /\ serial = q
      BY <2>2, <2>3, <2>4, <3>3 DEF ResolveInv, CallInOrder, InOrder
    <3>4. QED
      BY <3>1, <3>2, <3>3
  <2>8. QED
    BY <2>3, <2>5, <2>6, <2>7 DEF ResolveInv, StepAnswers
<1>2. ASSUME NEW r \in Resolvers, UseListing(r) PROVE ResolveInv' /\ StepAnswers
  <2> DEFINE pc == IF listing.at = NoRef THEN "forced" ELSE "fetching"
  <2>1. serial = r /\ listing.at \in Nat /\ Continue(r, pc, listing.at)
        /\ UNCHANGED <<tip, listing>>
    BY <1>0, <1>2 DEF UseListing, ResolveInv, LockHolderOnly
  <2>2. pc \in CallPcs /\ pc \notin {"listed", "adopting"}
        /\ (pc = "fetching" => listing.at # NoRef)
    BY DEF CallPcs
  <2>3. newest' = newest /\ given' = given
    BY <2>1 DEF Continue
  <2> HIDE DEF pc
  <2>4. ResolveInv'
    BY <2>1, <2>2, <2>3, OrderKept, CallGoesOn
  <2>5. QED
    BY <2>3, <2>4 DEF StepAnswers
<1>3. ASSUME NEW r \in Resolvers, Asks(r) PROVE serial = r
  BY <1>3 DEF Asks, ResolveInv, LockHolderOnly
<1>4. ASSUME NEW r \in Resolvers, LsRemote(r) PROVE ResolveInv' /\ StepAnswers
  <2>1. serial = r /\ Continue(r, "listed", tip.at) /\ UNCHANGED <<tip, listing>>
    BY <1>3, <1>4 DEF LsRemote
  <2>2. newest' = newest /\ given' = given /\ tip.at \in seen
    BY <2>1, ResolverAssumption DEF Continue, ResolveInv, TipIsSeen
  <2>3. "listed" \in CallPcs /\ "listed" \notin {"fetching", "adopting"} /\ "listed" # "fetching"
    BY DEF CallPcs
  <2>4. ResolveInv'
    BY <1>0, <2>1, <2>2, <2>3, OrderKept, CallGoesOn
  <2>5. QED
    BY <2>2, <2>4 DEF StepAnswers
<1>5. ASSUME NEW r \in Resolvers, Listed(r) PROVE ResolveInv' /\ StepAnswers
  <2>1. serial = r /\ resolver[r].at \in seen /\ InOrder(resolver[r].at)
    BY <1>5 DEF Listed, ResolveInv, LockHolderOnly, CallInOrder
  <2>2. listing' = [at |-> resolver[r].at, fresh |-> TRUE] /\ Lookup(r, resolver[r].at, FALSE)
        /\ tip' = tip
    BY <1>5 DEF Listed
  <2>3. listing' \in ListingType /\ listing'.at = resolver[r].at
    BY <1>0, <2>2 DEF ListingType
  <2>4. ResolveInv' /\ (given' = given \/ given'.kind = "unavailable"
          \/ (given'.kind = "missing" /\ resolver[r].at = NoRef))
    BY <1>0, <2>1, <2>2, <2>3, LookupKeeps
  <2>5. QED
    BY <2>1, <2>4 DEF StepAnswers, GoodAnswer
<1>6. ASSUME NEW r \in Resolvers, LsFails(r) PROVE ResolveInv' /\ StepAnswers
  <2>1. serial = r /\ UNCHANGED <<tip, listing>>
    BY <1>3, <1>6 DEF LsFails
  <2>2. CASE listing.at = Unlisted
    <3>1. Resolved(r, "unavailable", NoRef)
      BY <1>6, <2>2 DEF LsFails
    <3>2. newest' = newest /\ given'.kind = "unavailable"
      BY <1>0, <3>1 DEF Resolved, NoRef
    <3>3. ResolveInv'
      BY <1>0, <2>1, <3>1, <3>2, OrderKept, CallEnds
    <3>4. QED
      BY <3>2, <3>3 DEF StepAnswers, GoodAnswer
  <2>3. CASE listing.at # Unlisted
    <3>1. Lookup(r, listing.at, TRUE) /\ listing.at \in Nat /\ InOrder(listing.at)
      BY <1>0, <1>6, <2>3 DEF LsFails, ListingInOrder
    <3>2. ResolveInv' /\ (given' = given \/ given'.kind = "unavailable")
      BY <1>0, <2>1, <3>1, LookupKeeps
    <3>3. QED
      BY <3>2 DEF StepAnswers, GoodAnswer
  <2>4. QED
    BY <2>2, <2>3
<1>7. ASSUME NEW r \in Resolvers, Adopt(r) PROVE ResolveInv' /\ StepAnswers
  <2> DEFINE at == resolver[r].at
  <2>1. serial = r /\ at \in seen /\ InOrder(at) /\ at # NoRef /\ at \in Nat /\ tip' = tip
        /\ listing' = [listing EXCEPT !.at = at] /\ Resolved(r, "adopted", at)
    BY <1>0, <1>7 DEF Adopt, AdoptInto, ResolveInv, LockHolderOnly, CallInOrder
  <2> HIDE DEF at
  <2>2. listing' \in ListingType /\ listing'.at = at
    BY <1>0, <2>1 DEF ListingType
  <2>3. newest' \in {newest, at} /\ given'.kind = "adopted" /\ given'.at = at
        /\ newest <= at /\ at <= tip.seq
    BY <2>1 DEF Resolved, InOrder
  <2>4. ListingInOrder'
    BY <2>1, <2>2, <2>3 DEF ListingInOrder, InOrder
  <2>5. ResolveInv'
    BY <2>1, <2>2, <2>3, <2>4, CallEnds
  <2>6. QED
    BY <1>0, <2>1, <2>3, <2>5 DEF StepAnswers, GoodAnswer
<1>8. CASE OrphanFetch \/ EnsureCommitLocal \/ RemoteMoves \/ UNCHANGED resolveVars
  BY <1>8, ResolveAside DEF OrphanFetch, EnsureCommitLocal, RemoteMoves, resolveVars, StepAnswers
<1>9. CASE PollIntervalPasses
  <2>1. listing' = [listing EXCEPT !.fresh = FALSE]
        /\ UNCHANGED <<tip, serial, resolver, given, seen, newest>>
    BY <1>9 DEF PollIntervalPasses
  <2>2. listing' \in ListingType /\ listing'.at = listing.at
    BY <1>0, <2>1 DEF ListingType
  <2>3. QED
    BY <2>1, <2>2 DEF ResolveInv, ResolveTypeOK, TipIsNewest, LockHolderOnly, TipIsSeen,
         ListingInOrder, InOrder, CallInOrder, StepAnswers
<1>10. QED
  BY <1>1, <1>2, <1>4, <1>5, <1>6, <1>7, <1>8, <1>9, CommitForRefKeeps DEF ResolveNext

(* The invariant of the resolution of a ref. *)
THEOREM ResolveInvHolds == ResolveSpec => []ResolveInv
BY ResolveInvInit, ResolveStep, PTL DEF ResolveSpec

(* Of a ref that moves, no commit is handed out after a newer one was: the *)
(* holder of the resolve lock carries a commit that is not older than the  *)
(* last one handed out, because the listing never is (pins.rs,             *)
(* resolve_locks and adopt_into_listing).                                  *)
THEOREM CommitsHandedOutInOrder == ResolveSpec => HandedOutInOrder
<1>1. ResolveInv /\ [ResolveNext]_resolveVars =>
        [\A r \in Resolvers : Answers(r) /\ given'.kind \in {"advertised", "adopted"}
                                => given'.at >= newest]_resolveVars
  BY ResolveStep DEF StepAnswers, GoodAnswer, Answers
<1>2. QED
  BY <1>1, ResolveInvHolds, PTL DEF ResolveSpec, HandedOutInOrder

(* A ref is reported missing, and a tip adopted, only if that was so on    *)
(* the remote while the call had the lock, whatever caches, failed calls   *)
(* and dropped requests did (pins.rs, resolve and commit_for_ref).         *)
THEOREM ResolvedAnswersAreReal == ResolveSpec => AnswersAreReal
<1>1. ResolveInv /\ [ResolveNext]_resolveVars =>
        [\A r \in Resolvers : Answers(r) =>
           /\ given'.kind = "missing" => NoRef \in seen
           /\ given'.kind = "adopted" => given'.at \in seen]_resolveVars
  BY ResolveStep DEF StepAnswers, GoodAnswer, Answers
<1>2. QED
  BY <1>1, ResolveInvHolds, PTL DEF ResolveSpec, AnswersAreReal

-----------------------------------------------------------------------------
(***************************************************************************)
(* The pinned snapshots                                                    *)
(***************************************************************************)

CallerPcs == {"idle", "config", "tree", "treePermit", "treeWork", "configPermit", "configWork",
              "held"}
CallerType == [op : {"none", "tree", "config"}, commit : Commits \cup {"none"}, pc : CallerPcs]
WorkType == [kind : {"none", "tree", "config"}, commit : Commits \cup {"none"},
             owner : PinCallers \cup {"none"}]
FailureType == [known : BOOLEAN, recent : BOOLEAN, lasting : BOOLEAN, transient : BOOLEAN]
SlotType == {"none", "empty", "loaded"}

PinTypeOK ==
  /\ slots \in [{"tree", "config"} -> [Commits -> SlotType]]
  /\ disk \subseteq Commits
  /\ caller \in [PinCallers -> CallerType]
  /\ work \in [Permits -> WorkType]
  /\ failure \in [Commits -> FailureType]

(* What the states of a request mean. *)
RequestOK(x) ==
  /\ x.pc = "idle" <=> x.op = "none"
  /\ x.pc # "idle" => x.commit \in Commits
  /\ x.op = "tree" => x.pc \in {"tree", "treePermit", "treeWork", "held"}

(* Work under way belongs to the request that waits for it, or to nobody. *)
WorkPc(kind) == IF kind = "tree" THEN "treeWork" ELSE "configWork"

WorkOK(x) ==
  /\ x.kind = "none" => x.owner = "none"
  /\ x.kind # "none" => x.commit \in Commits
  /\ x.owner \in PinCallers =>
       caller[x.owner].pc = WorkPc(x.kind) /\ caller[x.owner].commit = x.commit

OneWorkEach ==
  \A j, k \in Permits :
    work[j].owner = work[k].owner /\ work[k].owner \in PinCallers => j = k

(* Whoever initialises the cell of a config: it is empty, and it is alone. *)
InitsConfig(x) ==
  x.op = "config" /\ x.pc \in {"tree", "treePermit", "treeWork", "configPermit", "configWork"}

ConfigsSingle ==
  /\ \A p \in PinCallers : InitsConfig(caller[p]) => slots["config"][caller[p].commit] = "empty"
  /\ \A p, q \in PinCallers :
       InitsConfig(caller[p]) /\ InitsConfig(caller[q]) /\ caller[p].commit = caller[q].commit
         => p = q

LoadedOnDisk == \A c \in Commits : slots["tree"][c] = "loaded" => c \in disk

(* The parts of HeldTreesStay: requests, blocking work, and configs. *)
HoldPcs == {"configPermit", "configWork", "held"}

RequestsHeld == \A p \in PinCallers : caller[p].pc \in HoldPcs => caller[p].commit \in disk
WorksHeld == \A k \in Permits : work[k].kind = "config" => work[k].commit \in disk
ConfigsHeld == \A c \in Commits : slots["config"][c] = "loaded" => c \in disk

RequestsOK == \A p \in PinCallers : RequestOK(caller[p])
WorksOK == \A k \in Permits : WorkOK(work[k])

PinInv ==
  /\ PinTypeOK /\ RequestsOK /\ WorksOK /\ OneWorkEach /\ ConfigsSingle
  /\ LoadedOnDisk /\ RequestsHeld /\ WorksHeld /\ ConfigsHeld /\ LoadedForgets

(* The records a request, a permit and a failure start from. *)
LEMMA PinRecords ==
  /\ NoCaller \in CallerType /\ NoCaller.pc = "idle" /\ NoCaller.op = "none"
  /\ RequestOK(NoCaller) /\ ~InitsConfig(NoCaller) /\ NoCaller.pc \notin HoldPcs
  /\ NoWork \in WorkType /\ NoWork.kind = "none" /\ NoWork.owner = "none"
  /\ NoFailure \in FailureType /\ ~NoFailure.known
BY DEF NoCaller, CallerType, CallerPcs, RequestOK, InitsConfig, HoldPcs, NoWork, WorkType,
       NoFailure, FailureType

(* The invariant holds initially. *)
LEMMA PinInvInit == PinInit => PinInv
<1> SUFFICES ASSUME PinInit PROVE PinInv
  OBVIOUS
<1>1. PinTypeOK
  BY PinRecords DEF PinInit, PinTypeOK, SlotType
<1>2. \A p \in PinCallers : caller[p] = NoCaller
  BY DEF PinInit
<1>3. \A k \in Permits : work[k] = NoWork
  BY DEF PinInit
<1>4. \A c \in Commits : slots["config"][c] = "none" /\ slots["tree"][c] = "none"
  BY DEF PinInit
<1>5. RequestsOK /\ RequestsHeld /\ ConfigsSingle
  BY <1>2, PinRecords DEF RequestsOK, RequestsHeld, ConfigsSingle
<1>6. WorksOK /\ WorksHeld /\ OneWorkEach
  BY <1>3, PinRecords, PinAssumption DEF WorksOK, WorkOK, WorksHeld, OneWorkEach
<1>7. LoadedOnDisk /\ ConfigsHeld /\ LoadedForgets
  BY <1>4 DEF LoadedOnDisk, ConfigsHeld, LoadedForgets
<1>8. QED
  BY <1>1, <1>5, <1>6, <1>7 DEF PinInv

(* Cells that somebody initialises stay as they are, and no new value      *)
(* appears.                                                                *)
CellsKept ==
  /\ slots' \in [{"tree", "config"} -> [Commits -> SlotType]]
  /\ \A c \in Commits : slots["config"][c] = "empty" => slots'["config"][c] = "empty"
  /\ \A k \in {"tree", "config"}, c \in Commits : slots'[k][c] = "loaded" => slots[k][c] = "loaded"

(* slot_cell creates an entry, and does nothing else. *)
LEMMA SlotCellKeeps ==
  ASSUME PinInv, NEW k \in {"tree", "config"}, NEW c \in Commits, SlotCell(k, c)
  PROVE  CellsKept
<1>1. slots \in [{"tree", "config"} -> [Commits -> SlotType]] /\ "empty" \in SlotType
  BY DEF PinInv, PinTypeOK, SlotType
<1>2. CASE slots' = slots
  BY <1>1, <1>2 DEF CellsKept
<1>3. CASE slots[k][c] = "none" /\ slots' = [slots EXCEPT ![k][c] = "empty"]
  <2>1. slots' \in [{"tree", "config"} -> [Commits -> SlotType]]
    BY <1>1, <1>3
  <2>2. \A j \in {"tree", "config"}, d \in Commits :
          slots'[j][d] = slots[j][d] \/ (slots'[j][d] = "empty" /\ slots[j][d] = "none")
    BY <1>1, <1>3
  <2>3. QED
    BY <2>1, <2>2 DEF CellsKept
<1>4. QED
  BY <1>2, <1>3 DEF SlotCell

(* A request moves: what has to hold of its new state. *)
LEMMA RequestMoves ==
  ASSUME PinInv, NEW p \in PinCallers, NEW x \in CallerType,
         caller' = [caller EXCEPT ![p] = x], RequestOK(x),
         disk \subseteq disk', x.pc \in HoldPcs => x.commit \in disk',
         \A q \in PinCallers \ {p} : InitsConfig(caller[q]) =>
            slots'["config"][caller[q].commit] = slots["config"][caller[q].commit],
         InitsConfig(x) =>
            /\ slots'["config"][x.commit] = "empty"
            /\ \A q \in PinCallers \ {p} : InitsConfig(caller[q]) => caller[q].commit # x.commit
  PROVE  /\ caller' \in [PinCallers -> CallerType] /\ RequestsOK' /\ RequestsHeld' /\ ConfigsSingle'
         /\ caller'[p] = x /\ \A q \in PinCallers \ {p} : caller'[q] = caller[q]
<1>1. caller' \in [PinCallers -> CallerType] /\ caller'[p] = x
      /\ \A q \in PinCallers \ {p} : caller'[q] = caller[q]
  BY DEF PinInv, PinTypeOK
<1>2. RequestsOK'
  BY <1>1 DEF PinInv, RequestsOK, RequestOK
<1>3. RequestsHeld'
  BY <1>1 DEF PinInv, RequestsHeld
<1>4. \A q \in PinCallers : InitsConfig(caller'[q]) =>
        slots'["config"][caller'[q].commit] = "empty"
  BY <1>1 DEF PinInv, ConfigsSingle
<1>5. \A q, r \in PinCallers :
        InitsConfig(caller'[q]) /\ InitsConfig(caller'[r]) /\ caller'[q].commit = caller'[r].commit
          => q = r
  BY <1>1 DEF PinInv, ConfigsSingle
<1>6. ConfigsSingle'
  BY <1>4, <1>5 DEF ConfigsSingle, InitsConfig
<1>7. QED
  BY <1>1, <1>2, <1>3, <1>6

(* No initialiser of a config is disturbed when cells are kept. *)
LEMMA InitsKept ==
  ASSUME PinInv, CellsKept, NEW q \in PinCallers, InitsConfig(caller[q])
  PROVE  slots'["config"][caller[q].commit] = slots["config"][caller[q].commit]
<1>1. caller[q].commit \in Commits /\ slots["config"][caller[q].commit] = "empty"
  BY DEF PinInv, ConfigsSingle, RequestsOK, RequestOK, InitsConfig
<1>2. QED
  BY <1>1 DEF CellsKept

(* Values of cells, and failures, when cells are kept and nothing leaves   *)
(* the disk.                                                               *)
LEMMA ValuesKept ==
  ASSUME PinInv, CellsKept, disk \subseteq disk', failure' = failure
  PROVE  LoadedOnDisk' /\ ConfigsHeld' /\ LoadedForgets'
BY DEF PinInv, CellsKept, LoadedOnDisk, ConfigsHeld, LoadedForgets

(* A request that has no work under way moves, and nothing else does. *)
LEMMA QueueMoves ==
  ASSUME PinInv, NEW p \in PinCallers, NEW x \in CallerType,
         caller' = [caller EXCEPT ![p] = x], RequestOK(x),
         UNCHANGED <<disk, work, failure>>, CellsKept,
         caller[p].pc \notin {"treeWork", "configWork"},
         x.pc \in HoldPcs => x.commit \in disk,
         InitsConfig(x) =>
            /\ slots'["config"][x.commit] = "empty"
            /\ \A q \in PinCallers \ {p} : InitsConfig(caller[q]) => caller[q].commit # x.commit
  PROVE  PinInv'
<1>1. /\ caller' \in [PinCallers -> CallerType] /\ RequestsOK' /\ RequestsHeld' /\ ConfigsSingle'
      /\ caller'[p] = x /\ \A q \in PinCallers \ {p} : caller'[q] = caller[q]
  BY InitsKept, RequestMoves
<1>2. LoadedOnDisk' /\ ConfigsHeld' /\ LoadedForgets'
  BY ValuesKept
<1>3. PinTypeOK'
  BY <1>1 DEF PinInv, PinTypeOK, CellsKept
<1>4. ASSUME NEW k \in Permits PROVE WorkOK(work[k])'
  <2>1. WorkOK(work[k]) /\ work[k].owner # p
    BY DEF PinInv, WorksOK, WorkOK, WorkPc
  <2>2. QED
    BY <1>1, <2>1 DEF WorkOK, WorkPc
<1>5. WorksOK' /\ WorksHeld' /\ OneWorkEach'
  BY <1>4 DEF PinInv, WorksOK, WorksHeld, OneWorkEach
<1>6. QED
  BY <1>1, <1>2, <1>3, <1>5 DEF PinInv

(* A request whose work is under way moves as the work ends or lets go of  *)
(* it: no work is its any more.                                            *)
LEMMA OwnerMoves ==
  ASSUME PinInv, NEW p \in PinCallers, NEW x \in CallerType,
         caller' = [caller EXCEPT ![p] = x],
         work' \in [Permits -> WorkType],
         \A k \in Permits :
           \/ work'[k] = work[k] /\ work[k].owner # p
           \/ work'[k] = NoWork
           \/ /\ work'[k].kind = work[k].kind /\ work'[k].commit = work[k].commit
              /\ work'[k].owner = "none",
         disk \subseteq disk'
  PROVE  WorksOK' /\ WorksHeld' /\ OneWorkEach'
<1>1. caller'[p] = x /\ \A q \in PinCallers \ {p} : caller'[q] = caller[q]
  BY DEF PinInv, PinTypeOK
<1>2. ASSUME NEW k \in Permits PROVE WorkOK(work[k])' /\ (work'[k].kind = "config" => work'[k].commit \in disk')
  <2>0. WorkOK(work[k]) /\ (work[k].kind = "config" => work[k].commit \in disk)
    BY DEF PinInv, WorksOK, WorksHeld
  <2>1. CASE work'[k] = work[k] /\ work[k].owner # p
    BY <1>1, <2>0, <2>1 DEF WorkOK
  <2>2. CASE work'[k] = NoWork
    BY <2>2, PinRecords, PinAssumption DEF WorkOK
  <2>3. CASE /\ work'[k].kind = work[k].kind /\ work'[k].commit = work[k].commit
             /\ work'[k].owner = "none"
    BY <2>0, <2>3, PinAssumption DEF WorkOK
  <2>4. QED
    BY <2>1, <2>2, <2>3
<1>3. OneWorkEach'
  BY PinRecords, PinAssumption DEF PinInv, OneWorkEach
<1>4. QED
  BY <1>2, <1>3 DEF WorksOK, WorksHeld, WorkOK

(* A request that is answered with an error, or lets go of its value. *)
LEMMA QueueAnswers ==
  ASSUME PinInv, NEW p \in PinCallers, Answer(p), UNCHANGED <<slots, disk, work, failure>>,
         caller[p].pc \notin {"treeWork", "configWork"}
  PROVE  PinInv'
<1>1. CellsKept
  BY DEF CellsKept, PinInv, PinTypeOK
<1>2. caller' = [caller EXCEPT ![p] = NoCaller]
  BY DEF Answer
<1>3. QED
  BY <1>1, <1>2, PinRecords, QueueMoves

(* Only its pc changes: the state a request goes on with. *)
LEMMA GotoRecord ==
  ASSUME PinInv, NEW p \in PinCallers, NEW pc \in CallerPcs \ {"idle"}, Goto(p, pc),
         caller[p].pc # "idle", caller[p].op = "tree" => pc \in {"tree", "treePermit", "treeWork", "held"}
  PROVE  \E x \in CallerType :
           /\ caller' = [caller EXCEPT ![p] = x] /\ RequestOK(x)
           /\ x.pc = pc /\ x.commit = caller[p].commit /\ x.op = caller[p].op
<1> DEFINE x == [caller[p] EXCEPT !.pc = pc]
<1>0. caller[p] \in CallerType
  BY DEF PinInv, PinTypeOK
<1>1. x \in CallerType /\ x.pc = pc /\ x.commit = caller[p].commit /\ x.op = caller[p].op
  BY <1>0 DEF CallerType
<1>2. caller' = [caller EXCEPT ![p] = x]
  BY DEF Goto
<1> HIDE DEF x
<1>3. RequestOK(caller[p])
  BY DEF PinInv, RequestsOK
<1>4. RequestOK(x)
  BY <1>1, <1>3 DEF RequestOK
<1>5. QED
  BY <1>1, <1>2, <1>4

(* ensure and ensure_tree begin. *)
LEMMA EnsureKeeps ==
  ASSUME PinInv, NEW p \in PinCallers, NEW c \in Commits, Ensure(p, c) \/ EnsureTree(p, c)
  PROVE  PinInv'
<1>1. PICK k \in {"config", "tree"} :
        /\ SlotCell(k, c) /\ caller' = [caller EXCEPT ![p] = [op |-> k, commit |-> c, pc |-> k]]
        /\ UNCHANGED <<disk, work, failure>> /\ caller[p].pc = "idle"
  <2>1. CASE Ensure(p, c)
    BY <2>1 DEF Ensure, At
  <2>2. CASE EnsureTree(p, c)
    BY <2>2 DEF EnsureTree, At
  <2>3. QED
    BY <2>1, <2>2
<1> DEFINE x == [op |-> k, commit |-> c, pc |-> k]
<1>2. x \in CallerType /\ x.pc = k /\ x.op = k /\ x.commit = c
  BY DEF CallerType, CallerPcs
<1> HIDE DEF x
<1>3. RequestOK(x) /\ ~InitsConfig(x) /\ x.pc \notin HoldPcs
  BY <1>2 DEF RequestOK, InitsConfig, HoldPcs
<1>4. CellsKept
  BY <1>1, SlotCellKeeps
<1>5. QED
  BY <1>1, <1>2, <1>3, <1>4, QueueMoves DEF x

(* get_or_try_init of ensure: whoever finds the cell empty, and nobody at  *)
(* it, is the one that initialises it.                                     *)
LEMMA ConfigCellKeeps ==
  ASSUME PinInv, NEW p \in PinCallers, ConfigCell(p)
  PROVE  PinInv'
<1> DEFINE c == caller[p].commit
<1>0. /\ caller[p].pc = "config" /\ UNCHANGED <<disk, work, failure>> /\ c \in Commits
      /\ caller[p].op = "config" /\ caller[p] \in CallerType
  <2>1. caller[p].pc = "config" /\ UNCHANGED <<disk, work, failure>>
    BY DEF ConfigCell, At
  <2>2. caller[p] \in CallerType /\ RequestOK(caller[p])
    BY DEF PinInv, PinTypeOK, RequestsOK
  <2>3. QED
    BY <2>1, <2>2 DEF RequestOK, CallerType
<1>1. CASE slots["config"][c] = "loaded" /\ Goto(p, "held") /\ UNCHANGED slots
  <2>1. "held" \in CallerPcs \ {"idle"} /\ "held" \in {"tree", "treePermit", "treeWork", "held"}
    BY DEF CallerPcs
  <2>2. PICK x \in CallerType : caller' = [caller EXCEPT ![p] = x] /\ RequestOK(x)
          /\ x.pc = "held" /\ x.commit = c
    BY <1>0, <1>1, <2>1, GotoRecord
  <2>3. ~InitsConfig(x) /\ c \in disk
    BY <1>0, <1>1, <2>2 DEF InitsConfig, PinInv, ConfigsHeld
  <2>4. CellsKept
    BY <1>1 DEF CellsKept, PinInv, PinTypeOK
  <2>5. QED
    BY <1>0, <2>2, <2>3, <2>4, QueueMoves
<1>2. CASE Answer(p) /\ UNCHANGED slots
  BY <1>0, <1>2, QueueAnswers
<1>3. CASE /\ slots["config"][c] = "empty" /\ ~Loading("config", c)
           /\ SlotCell("tree", c) /\ Goto(p, "tree")
  <2>1. "tree" \in CallerPcs \ {"idle"} /\ "tree" \in {"tree", "treePermit", "treeWork", "held"}
    BY DEF CallerPcs
  <2>2. PICK x \in CallerType : caller' = [caller EXCEPT ![p] = x] /\ RequestOK(x)
          /\ x.pc = "tree" /\ x.commit = c /\ x.op = "config"
    BY <1>0, <1>3, <2>1, GotoRecord
  <2>3. CellsKept
    BY <1>0, <1>3, SlotCellKeeps
  <2>4. slots'["config"][c] = "empty"
    BY <1>0, <1>3, <2>3 DEF CellsKept
  <2>5. \A q \in PinCallers : InitsConfig(caller[q]) => caller[q].commit # c
    BY <1>3 DEF Loading, InitsConfig
  <2>6. x.pc \notin HoldPcs
    BY <2>2 DEF HoldPcs
  <2> HIDE DEF c
  <2>7. QED
    BY <1>0, <2>2, <2>3, <2>4, <2>5, <2>6, QueueMoves
<1>4. QED
  BY <1>1, <1>2, <1>3 DEF ConfigCell

(* get_or_try_init of tree. *)
LEMMA TreeCellKeeps ==
  ASSUME PinInv, NEW p \in PinCallers, TreeCell(p)
  PROVE  PinInv'
<1>0. /\ caller[p].pc = "tree" /\ UNCHANGED <<slots, disk, work, failure>>
      /\ caller[p].commit \in Commits /\ RequestOK(caller[p]) /\ caller[p] \in CallerType
  <2>1. caller[p].pc = "tree" /\ UNCHANGED <<slots, disk, work, failure>>
    BY DEF TreeCell, At
  <2>2. caller[p] \in CallerType /\ RequestOK(caller[p])
    BY DEF PinInv, PinTypeOK, RequestsOK
  <2>3. QED
    BY <2>1, <2>2 DEF RequestOK
<1>1. CellsKept
  BY <1>0 DEF CellsKept, PinInv, PinTypeOK
<1>2. ASSUME NEW pc \in CallerPcs \ {"idle"}, Goto(p, pc),
             caller[p].op = "tree" => pc \in {"tree", "treePermit", "treeWork", "held"},
             pc \in HoldPcs => caller[p].commit \in disk
      PROVE  PinInv'
  <2>1. PICK x \in CallerType : caller' = [caller EXCEPT ![p] = x] /\ RequestOK(x)
          /\ x.pc = pc /\ x.commit = caller[p].commit /\ x.op = caller[p].op
    BY <1>0, <1>2, GotoRecord
  <2>2. InitsConfig(x) => InitsConfig(caller[p])
    BY <1>0, <2>1 DEF InitsConfig
  <2>3. InitsConfig(caller[p]) =>
          /\ slots'["config"][caller[p].commit] = "empty"
          /\ \A q \in PinCallers \ {p} : InitsConfig(caller[q]) => caller[q].commit # caller[p].commit
    BY <1>0 DEF PinInv, ConfigsSingle
  <2>4. QED
    BY <1>0, <1>1, <1>2, <2>1, <2>2, <2>3, QueueMoves
<1>3. CASE slots["tree"][caller[p].commit] = "loaded" /\ GotTree(p)
  <2>1. caller[p].commit \in disk
    BY <1>0, <1>3 DEF PinInv, LoadedOnDisk
  <2>2. {"held", "configPermit"} \subseteq CallerPcs \ {"idle"}
    BY DEF CallerPcs
  <2>3. CASE caller[p].op = "tree"
    BY <1>2, <1>3, <2>1, <2>2, <2>3 DEF GotTree
  <2>4. CASE caller[p].op # "tree"
    BY <1>2, <1>3, <2>1, <2>2, <2>4 DEF GotTree
  <2>5. QED
    BY <2>3, <2>4
<1>4. CASE Answer(p)
  BY <1>0, <1>4, QueueAnswers
<1>5. CASE Goto(p, "treePermit")
  <2>1. "treePermit" \in CallerPcs \ {"idle"} /\ "treePermit" \notin HoldPcs
    BY DEF CallerPcs, HoldPcs
  <2>2. QED
    BY <1>2, <1>5, <2>1
<1>6. QED
  BY <1>3, <1>4, <1>5 DEF TreeCell

(* A permit, and the blocking work that it is for. *)
LEMMA TakePermitKeeps ==
  ASSUME PinInv, NEW p \in PinCallers, NEW kind \in {"tree", "config"},
         NEW waits, waits = (IF kind = "tree" THEN "treePermit" ELSE "configPermit"),
         TakePermit(p, kind, waits, WorkPc(kind))
  PROVE  PinInv'
<1>0. /\ caller[p].pc = waits /\ UNCHANGED <<slots, disk, failure>>
      /\ caller[p].commit \in Commits /\ RequestOK(caller[p]) /\ caller[p] \in CallerType
      /\ waits \in {"treePermit", "configPermit"} /\ caller[p].pc # "idle"
  <2>1. caller[p].pc = waits /\ UNCHANGED <<slots, disk, failure>>
    BY DEF TakePermit, At
  <2>2. caller[p] \in CallerType /\ RequestOK(caller[p])
    BY DEF PinInv, PinTypeOK, RequestsOK
  <2>3. QED
    BY <2>1, <2>2 DEF RequestOK
<1>1. CASE Answer(p) /\ UNCHANGED work
  BY <1>0, <1>1, QueueAnswers
<1>2. ASSUME NEW k \in Permits, work[k] = NoWork, Goto(p, WorkPc(kind)),
             work' = [work EXCEPT ![k] = [kind |-> kind, commit |-> caller[p].commit, owner |-> p]]
      PROVE  PinInv'
  <2>1. WorkPc(kind) \in CallerPcs \ {"idle"}
        /\ (caller[p].op = "tree" => WorkPc(kind) \in {"tree", "treePermit", "treeWork", "held"})
    BY <1>0 DEF WorkPc, CallerPcs, RequestOK
  <2>2. PICK x \in CallerType : caller' = [caller EXCEPT ![p] = x] /\ RequestOK(x)
          /\ x.pc = WorkPc(kind) /\ x.commit = caller[p].commit /\ x.op = caller[p].op
    BY <1>0, <1>2, <2>1, GotoRecord
  <2>3. InitsConfig(x) => InitsConfig(caller[p])
    BY <1>0, <2>2 DEF InitsConfig
  <2>4. InitsConfig(caller[p]) =>
          /\ slots'["config"][caller[p].commit] = "empty"
          /\ \A q \in PinCallers \ {p} : InitsConfig(caller[q]) => caller[q].commit # caller[p].commit
    BY <1>0 DEF PinInv, ConfigsSingle
  <2>5. x.pc \in HoldPcs => kind = "config" /\ x.commit \in disk
    BY <1>0, <2>2 DEF HoldPcs, WorkPc, PinInv, RequestsHeld
  <2>6. CellsKept
    BY <1>0 DEF CellsKept, PinInv, PinTypeOK
  <2>7. /\ caller' \in [PinCallers -> CallerType] /\ RequestsOK' /\ RequestsHeld' /\ ConfigsSingle'
        /\ caller'[p] = x /\ \A q \in PinCallers \ {p} : caller'[q] = caller[q]
    BY <1>0, <2>2, <2>3, <2>4, <2>5, RequestMoves
  <2>8. LoadedOnDisk' /\ ConfigsHeld' /\ LoadedForgets'
    BY <1>0, <2>6, ValuesKept
  <2> DEFINE y == [kind |-> kind, commit |-> caller[p].commit, owner |-> p]
  <2>9. y \in WorkType /\ y.kind = kind /\ y.commit = caller[p].commit /\ y.owner = p
    BY <1>0 DEF WorkType
  <2> HIDE DEF y
  <2>10. work' \in [Permits -> WorkType] /\ work'[k] = y
         /\ \A j \in Permits \ {k} : work'[j] = work[j]
    BY <1>2, <2>9 DEF PinInv, PinTypeOK, y
  <2>11. \A j \in Permits : WorkOK(work[j]) /\ work[j].owner # p
    BY <1>0 DEF PinInv, WorksOK, WorkOK, WorkPc
  <2>12. WorkOK(work[k])'
    BY <1>0, <2>2, <2>7, <2>9, <2>10 DEF WorkOK
  <2>13. \A j \in Permits \ {k} : WorkOK(work[j])'
    BY <2>7, <2>10, <2>11 DEF WorkOK
  <2>14. OneWorkEach'
    BY <2>9, <2>10, <2>11 DEF PinInv, OneWorkEach
  <2>15. kind = "config" => caller[p].commit \in disk
    BY <1>0 DEF PinInv, RequestsHeld, HoldPcs
  <2>16. WorksHeld'
    BY <1>0, <2>9, <2>10, <2>15 DEF PinInv, WorksHeld
  <2>17. PinTypeOK'
    BY <1>0, <2>7, <2>10 DEF PinInv, PinTypeOK
  <2>18. QED
    BY <2>7, <2>8, <2>12, <2>13, <2>14, <2>16, <2>17 DEF PinInv, WorksOK
<1>3. QED
  BY <1>1, <1>2 DEF TakePermit

(* The facts about work that ends, and the request that waits for it. *)
LEMMA WorkEnds ==
  ASSUME PinInv, NEW k \in Permits, work[k].kind # "none", Free(k)
  PROVE  /\ work' \in [Permits -> WorkType] /\ work'[k] = NoWork
         /\ \A j \in Permits \ {k} : work'[j] = work[j]
         /\ work[k].commit \in Commits
         /\ Waited(k) =>
              LET p == work[k].owner IN
              /\ p \in PinCallers /\ caller[p].pc = WorkPc(work[k].kind)
              /\ caller[p].commit = work[k].commit
              /\ caller[p] \in CallerType /\ RequestOK(caller[p])
              /\ \A j \in Permits \ {k} : work[j].owner # p
<1>1. work' \in [Permits -> WorkType] /\ work'[k] = NoWork
      /\ \A j \in Permits \ {k} : work'[j] = work[j]
  BY PinRecords DEF Free, PinInv, PinTypeOK
<1>2. WorkOK(work[k])
  BY DEF PinInv, WorksOK
<1>3. ASSUME Waited(k) PROVE \A j \in Permits \ {k} : work[j].owner # work[k].owner
  BY <1>3 DEF Waited, PinInv, OneWorkEach
<1>4. QED
  BY <1>1, <1>2, <1>3 DEF Waited, WorkOK, PinInv, PinTypeOK, RequestsOK

(* Work of a dropped request ends: nothing changes but the permit and, if  *)
(* it was a checkout, the disk.                                            *)
LEMMA UnwaitedEnds ==
  ASSUME PinInv, NEW k \in Permits, work[k].kind # "none", Free(k), ~Waited(k),
         UNCHANGED <<slots, caller, failure>>, disk \subseteq disk', disk' \subseteq Commits
  PROVE  PinInv'
<1>1. work' \in [Permits -> WorkType] /\ work'[k] = NoWork
      /\ \A j \in Permits \ {k} : work'[j] = work[j]
  BY WorkEnds
<1>2. PinTypeOK'
  BY <1>1 DEF PinInv, PinTypeOK
<1>3. RequestsOK' /\ RequestsHeld' /\ ConfigsSingle' /\ LoadedOnDisk' /\ ConfigsHeld' /\ LoadedForgets'
  BY DEF PinInv, RequestsOK, RequestOK, RequestsHeld, ConfigsSingle, InitsConfig, LoadedOnDisk,
         ConfigsHeld, LoadedForgets
<1>4. WorksOK' /\ OneWorkEach'
  BY <1>1, PinRecords, PinAssumption DEF PinInv, WorksOK, WorkOK, OneWorkEach
<1>5. WorksHeld'
  BY <1>1, PinRecords DEF PinInv, WorksHeld
<1>6. QED
  BY <1>2, <1>3, <1>4, <1>5 DEF PinInv

(* Work that a request waits for ends, and the request moves. *)
LEMMA WaitedEnds ==
  ASSUME PinInv, NEW k \in Permits, work[k].kind # "none", Free(k), Waited(k),
         NEW p, p = work[k].owner, NEW x \in CallerType,
         caller' = [caller EXCEPT ![p] = x],
         disk \subseteq disk'
  PROVE  WorksOK' /\ WorksHeld' /\ OneWorkEach' /\ work' \in [Permits -> WorkType]
<1>1. /\ work' \in [Permits -> WorkType] /\ work'[k] = NoWork
      /\ \A j \in Permits \ {k} : work'[j] = work[j] /\ work[j].owner # p
      /\ p \in PinCallers
  BY WorkEnds
<1>2. QED
  BY <1>1, OwnerMoves

(* The checkout fails, or the load of the config does: the request is      *)
(* answered.  A failure is recorded only while the config is not loaded.   *)
LEMMA WorkFailsKeeps ==
  ASSUME PinInv, NEW k \in Permits, TreeFails(k) \/ ConfigFailed(k)
  PROVE  PinInv'
<1>1. /\ work[k].kind \in {"tree", "config"} /\ Free(k) /\ UNCHANGED <<slots, disk>>
      /\ Waited(k) => Answer(work[k].owner)
      /\ ~Waited(k) => UNCHANGED <<caller, failure>>
      /\ failure' # failure =>
           /\ work[k].kind = "config" /\ Waited(k)
           /\ failure' = [failure EXCEPT ![work[k].commit] = RecordSecretFailure(@)]
  BY DEF TreeFails, ConfigFailed
<1>2. CASE ~Waited(k)
  BY <1>1, <1>2, UnwaitedEnds DEF PinInv, PinTypeOK
<1>3. CASE Waited(k)
  <2> DEFINE p == work[k].owner
             c == work[k].commit
  <2>1. /\ p \in PinCallers /\ c \in Commits /\ caller[p].pc = WorkPc(work[k].kind)
        /\ caller[p].commit = c /\ caller[p] \in CallerType /\ RequestOK(caller[p])
    BY <1>1, <1>3, WorkEnds
  <2>2. caller' = [caller EXCEPT ![p] = NoCaller]
    BY <1>1, <1>3 DEF Answer
  <2>3. CellsKept
    BY <1>1 DEF CellsKept, PinInv, PinTypeOK
  <2>4. /\ caller' \in [PinCallers -> CallerType] /\ RequestsOK' /\ RequestsHeld' /\ ConfigsSingle'
    <3> HIDE DEF p
    <3>1. QED
      BY <1>1, <2>1, <2>2, <2>3, InitsKept, PinRecords, RequestMoves
  <2>5. WorksOK' /\ WorksHeld' /\ OneWorkEach' /\ work' \in [Permits -> WorkType]
    BY <1>1, <1>3, <2>2, PinRecords, WaitedEnds
  <2>6. LoadedOnDisk' /\ ConfigsHeld'
    BY <1>1 DEF PinInv, LoadedOnDisk, ConfigsHeld
  <2>7. failure' \in [Commits -> FailureType]
    <3>1. failure[c] \in FailureType /\ failure \in [Commits -> FailureType]
      BY <2>1 DEF PinInv, PinTypeOK
    <3>2. RecordSecretFailure(failure[c]) \in FailureType
      BY <3>1 DEF RecordSecretFailure, FailureType
    <3>3. QED
      BY <1>1, <2>1, <3>1, <3>2
  <2>8. LoadedForgets'
    <3>1. CASE failure' = failure
      BY <1>1, <3>1 DEF PinInv, LoadedForgets
    <3>2. CASE failure' # failure
      <4>1. caller[p].pc = "configWork" /\ caller[p].op = "config"
        BY <1>1, <2>1, <3>2 DEF WorkPc, RequestOK, CallerType
      <4>2. slots["config"][c] = "empty"
        BY <2>1, <4>1 DEF PinInv, ConfigsSingle, InitsConfig
      <4>3. \A d \in Commits \ {c} : failure'[d] = failure[d]
        BY <1>1, <3>2 DEF PinInv, PinTypeOK
      <4>4. QED
        BY <1>1, <4>2, <4>3 DEF PinInv, LoadedForgets
    <3>3. QED
      BY <3>1, <3>2
  <2>9. QED
    BY <1>1, <2>4, <2>5, <2>6, <2>7, <2>8 DEF PinInv, PinTypeOK
<1>4. QED
  BY <1>2, <1>3

(* The checkout is there: it is on disk before anybody is told. *)
LEMMA TreeReadyKeeps ==
  ASSUME PinInv, NEW k \in Permits, TreeReady(k)
  PROVE  PinInv'
<1> DEFINE c == work[k].commit
<1>1. /\ work[k].kind = "tree" /\ Free(k) /\ disk' = disk \union {c} /\ failure' = failure
      /\ Waited(k) => /\ GotTree(work[k].owner)
                      /\ slots' = [slots EXCEPT !["tree"][c] = "loaded"]
      /\ ~Waited(k) => UNCHANGED <<caller, slots>>
  BY DEF TreeReady
<1>2. c \in Commits /\ disk' \subseteq Commits /\ disk \subseteq disk' /\ c \in disk'
  BY <1>1, WorkEnds DEF PinInv, PinTypeOK
<1>3. CASE ~Waited(k)
  BY <1>1, <1>2, <1>3, UnwaitedEnds
<1>4. CASE Waited(k)
  <2> DEFINE p == work[k].owner
             pc == IF caller[p].op = "tree" THEN "held" ELSE "configPermit"
  <2>1. /\ p \in PinCallers /\ caller[p].pc = "treeWork"
        /\ caller[p].commit = c /\ caller[p] \in CallerType /\ RequestOK(caller[p])
    BY <1>1, <1>4, WorkEnds DEF WorkPc
  <2>2. Goto(p, pc)
    BY <1>1, <1>4 DEF GotTree
  <2>3. pc \in CallerPcs \ {"idle"}
        /\ (caller[p].op = "tree" => pc \in {"tree", "treePermit", "treeWork", "held"})
    BY DEF CallerPcs
  <2> HIDE DEF p, c, pc
  <2>4. PICK x \in CallerType : caller' = [caller EXCEPT ![p] = x] /\ RequestOK(x)
          /\ x.pc = pc /\ x.commit = c /\ x.op = caller[p].op
    BY <2>1, <2>2, <2>3, GotoRecord
  <2>5. InitsConfig(x) => InitsConfig(caller[p])
    BY <2>1, <2>4 DEF InitsConfig
  <2>6. slots' \in [{"tree", "config"} -> [Commits -> SlotType]]
        /\ \A d \in Commits : slots'["config"][d] = slots["config"][d]
                              /\ (slots'["tree"][d] = slots["tree"][d] \/ d = c)
    <3>1. slots \in [{"tree", "config"} -> [Commits -> SlotType]] /\ "loaded" \in SlotType
      BY DEF PinInv, PinTypeOK, SlotType
    <3>2. slots' = [slots EXCEPT !["tree"][c] = "loaded"]
      BY <1>1, <1>4 DEF c
    <3>3. QED
      BY <1>2, <3>1, <3>2
  <2>7. \A q \in PinCallers : InitsConfig(caller[q]) =>
          slots'["config"][caller[q].commit] = slots["config"][caller[q].commit]
    BY <2>6 DEF PinInv, RequestsOK, RequestOK, InitsConfig
  <2>8. InitsConfig(caller[p]) =>
          /\ slots'["config"][c] = "empty"
          /\ \A q \in PinCallers \ {p} : InitsConfig(caller[q]) => caller[q].commit # c
    BY <2>1, <2>7 DEF PinInv, ConfigsSingle
  <2>9. caller' \in [PinCallers -> CallerType] /\ RequestsOK' /\ RequestsHeld' /\ ConfigsSingle'
    BY <1>2, <2>1, <2>4, <2>5, <2>7, <2>8, RequestMoves
  <2>10. WorksOK' /\ WorksHeld' /\ OneWorkEach' /\ work' \in [Permits -> WorkType]
    BY <1>1, <1>2, <1>4, <2>4, WaitedEnds DEF p
  <2>11. LoadedOnDisk' /\ ConfigsHeld' /\ LoadedForgets'
    BY <1>1, <1>2, <2>6 DEF PinInv, LoadedOnDisk, ConfigsHeld, LoadedForgets
  <2>12. QED
    BY <1>1, <1>2, <2>6, <2>9, <2>10, <2>11 DEF PinInv, PinTypeOK
<1>5. QED
  BY <1>3, <1>4

(* The config is loaded, from a checkout its load held: the value is       *)
(* there, and the failure forgotten, in one step.                          *)
LEMMA ConfigLoadedKeeps ==
  ASSUME PinInv, NEW k \in Permits, ConfigLoaded(k)
  PROVE  PinInv'
<1> DEFINE c == work[k].commit
<1>1. /\ work[k].kind = "config" /\ Free(k) /\ disk' = disk
      /\ Waited(k) => /\ Goto(work[k].owner, "held")
                      /\ slots' = [slots EXCEPT !["config"][c] = "loaded"]
                      /\ failure' = [failure EXCEPT ![c] = NoFailure]
      /\ ~Waited(k) => UNCHANGED <<caller, slots, failure>>
  BY DEF ConfigLoaded, ClearSecretFailure
<1>2. c \in Commits /\ c \in disk
  BY <1>1, WorkEnds DEF PinInv, WorksHeld
<1>3. CASE ~Waited(k)
  BY <1>1, <1>3, UnwaitedEnds DEF PinInv, PinTypeOK
<1>4. CASE Waited(k)
  <2> DEFINE p == work[k].owner
  <2>1. /\ p \in PinCallers /\ caller[p].pc = "configWork"
        /\ caller[p].commit = c /\ caller[p] \in CallerType /\ RequestOK(caller[p])
    BY <1>1, <1>4, WorkEnds DEF WorkPc
  <2>2. caller[p].op = "config"
    BY <2>1 DEF RequestOK, CallerType
  <2>3. Goto(p, "held") /\ "held" \in CallerPcs \ {"idle"}
        /\ "held" \in {"tree", "treePermit", "treeWork", "held"}
    BY <1>1, <1>4 DEF CallerPcs
  <2> HIDE DEF p, c
  <2>4. PICK x \in CallerType : caller' = [caller EXCEPT ![p] = x] /\ RequestOK(x)
          /\ x.pc = "held" /\ x.commit = c
    BY <2>1, <2>3, GotoRecord
  <2>5. ~InitsConfig(x)
    BY <2>4 DEF InitsConfig
  <2>6. slots' \in [{"tree", "config"} -> [Commits -> SlotType]]
        /\ \A d \in Commits : slots'["tree"][d] = slots["tree"][d]
                              /\ (slots'["config"][d] = slots["config"][d] \/ d = c)
    <3>1. slots \in [{"tree", "config"} -> [Commits -> SlotType]] /\ "loaded" \in SlotType
      BY DEF PinInv, PinTypeOK, SlotType
    <3>2. slots' = [slots EXCEPT !["config"][c] = "loaded"]
      BY <1>1, <1>4 DEF c
    <3>3. QED
      BY <1>2, <3>1, <3>2
  <2>7. ASSUME NEW q \in PinCallers \ {p}, InitsConfig(caller[q])
        PROVE  slots'["config"][caller[q].commit] = slots["config"][caller[q].commit]
    <3>1. caller[q].commit \in Commits
      BY <2>7 DEF PinInv, RequestsOK, RequestOK, InitsConfig
    <3>2. InitsConfig(caller[p])
      BY <2>1, <2>2 DEF InitsConfig
    <3>3. caller[q].commit # c
      BY <2>1, <2>7, <3>2 DEF PinInv, ConfigsSingle
    <3>4. QED
      BY <2>6, <3>1, <3>3
  <2>8. caller' \in [PinCallers -> CallerType] /\ RequestsOK' /\ RequestsHeld' /\ ConfigsSingle'
    BY <1>1, <1>2, <2>1, <2>4, <2>5, <2>7, RequestMoves
  <2>9. WorksOK' /\ WorksHeld' /\ OneWorkEach' /\ work' \in [Permits -> WorkType]
    BY <1>1, <1>4, <2>4, WaitedEnds DEF p
  <2>10. /\ failure' \in [Commits -> FailureType] /\ ~failure'[c].known
         /\ \A d \in Commits \ {c} : failure'[d] = failure[d]
    <3>1. failure' = [failure EXCEPT ![c] = NoFailure]
      BY <1>1, <1>4 DEF c
    <3>2. QED
      BY <1>2, <3>1, PinRecords DEF PinInv, PinTypeOK
  <2>11. LoadedOnDisk' /\ ConfigsHeld'
    BY <1>1, <1>2, <2>6 DEF PinInv, LoadedOnDisk, ConfigsHeld
  <2>12. LoadedForgets'
    BY <2>6, <2>10 DEF PinInv, LoadedForgets
  <2>13. QED
    BY <1>1, <2>6, <2>8, <2>9, <2>10, <2>11, <2>12 DEF PinInv, PinTypeOK
<1>5. QED
  BY <1>3, <1>4

(* A request is dropped: its work goes on, and belongs to nobody. *)
LEMMA DroppedKeeps ==
  ASSUME PinInv, NEW p \in PinCallers, Dropped(p)
  PROVE  PinInv'
<1>1. /\ caller' = [caller EXCEPT ![p] = NoCaller] /\ UNCHANGED <<slots, disk, failure>>
      /\ work' = [k \in Permits |-> IF work[k].owner = p THEN [work[k] EXCEPT !.owner = "none"]
                                    ELSE work[k]]
  BY DEF Dropped, Answer
<1>2. CellsKept
  BY <1>1 DEF CellsKept, PinInv, PinTypeOK
<1>3. caller' \in [PinCallers -> CallerType] /\ RequestsOK' /\ RequestsHeld' /\ ConfigsSingle'
  BY <1>1, <1>2, InitsKept, PinRecords, RequestMoves
<1>4. ASSUME NEW k \in Permits
      PROVE  /\ work'[k] \in WorkType
             /\ \/ work'[k] = work[k] /\ work[k].owner # p
                \/ /\ work'[k].kind = work[k].kind /\ work'[k].commit = work[k].commit
                   /\ work'[k].owner = "none"
  <2>1. work[k] \in WorkType
    BY DEF PinInv, PinTypeOK
  <2>2. CASE work[k].owner = p
    <3>1. work'[k] = [work[k] EXCEPT !.owner = "none"]
      BY <1>1, <2>2
    <3>2. QED
      BY <2>1, <3>1 DEF WorkType
  <2>3. CASE work[k].owner # p
    BY <1>1, <2>1, <2>3
  <2>4. QED
    BY <2>2, <2>3
<1>5. work' \in [Permits -> WorkType]
  BY <1>1, <1>4
<1>6. WorksOK' /\ WorksHeld' /\ OneWorkEach'
  BY <1>1, <1>4, <1>5, PinRecords, OwnerMoves
<1>7. LoadedOnDisk' /\ ConfigsHeld' /\ LoadedForgets'
  BY <1>1, <1>2, ValuesKept
<1>8. QED
  BY <1>1, <1>3, <1>5, <1>6, <1>7 DEF PinInv, PinTypeOK

(* What in_use sees of a request. *)
LEMMA RequestInUse ==
  ASSUME PinInv, NEW p \in PinCallers, NEW c \in Commits, caller[p].commit = c
  PROVE  /\ caller[p].pc \in HoldPcs => HoldsTree(c)
         /\ InitsConfig(caller[p]) => InUse("config", c)
<1>1. RequestOK(caller[p]) /\ caller[p] \in CallerType
  BY DEF PinInv, PinTypeOK, RequestsOK
<1>2. caller[p].pc = "held" => caller[p].op \in {"tree", "config"}
  BY <1>1 DEF RequestOK, CallerType
<1>3. QED
  BY <1>2 DEF HoldPcs, HoldsTree, InitsConfig, InUse, At

(* evict: neither half takes what is in use. *)
LEMMA EvictKeeps ==
  ASSUME PinInv, NEW spared \in SUBSET Commits, EvictConfigs(spared) \/ EvictTrees(spared)
  PROVE  PinInv'
<1>1. PICK k \in {"tree", "config"} :
        /\ Drop(k, Evictable(k, spared)) /\ UNCHANGED <<caller, work, failure>>
        /\ k = "tree" => disk' \in {disk \ Evictable("tree", spared), disk}
        /\ k = "config" => disk' = disk
  <2>1. CASE EvictConfigs(spared)
    BY <2>1 DEF EvictConfigs
  <2>2. CASE EvictTrees(spared)
    BY <2>2 DEF EvictTrees
  <2>3. QED
    BY <2>1, <2>2
<1> DEFINE gone == Evictable(k, spared)
<1>2. slots \in [{"tree", "config"} -> [Commits -> SlotType]] /\ "none" \in SlotType
  BY DEF PinInv, PinTypeOK, SlotType
<1>3. slots' = [slots EXCEPT ![k] = [c \in Commits |-> IF c \in gone THEN "none" ELSE slots[k][c]]]
  BY <1>1 DEF Drop
<1> HIDE DEF gone
<1>4. slots' \in [{"tree", "config"} -> [Commits -> SlotType]]
  BY <1>2, <1>3
<1>5. \A j \in {"tree", "config"}, c \in Commits :
        \/ slots'[j][c] = slots[j][c] /\ ~(j = k /\ c \in gone)
        \/ slots'[j][c] = "none" /\ j = k /\ c \in gone
  BY <1>2, <1>3
<1>6. \A c \in gone : c \in Commits /\ ~InUse(k, c)
  BY DEF gone, Evictable
<1>7. \A c \in disk : c \in disk' \/ (k = "tree" /\ c \in gone)
  BY <1>1 DEF gone
<1>8. PinTypeOK'
  BY <1>1, <1>4 DEF PinInv, PinTypeOK
<1>9. RequestsOK' /\ WorksOK' /\ OneWorkEach'
  BY <1>1 DEF PinInv, RequestsOK, RequestOK, WorksOK, WorkOK, OneWorkEach
<1>10. \A p \in PinCallers : InitsConfig(caller[p]) => slots'["config"][caller[p].commit] = "empty"
  <2> SUFFICES ASSUME NEW p \in PinCallers, InitsConfig(caller[p])
               PROVE  slots'["config"][caller[p].commit] = "empty"
    OBVIOUS
  <2>1. caller[p].commit \in Commits /\ slots["config"][caller[p].commit] = "empty"
    BY DEF PinInv, RequestsOK, RequestOK, InitsConfig, ConfigsSingle
  <2>2. InUse("config", caller[p].commit)
    BY <2>1, RequestInUse
  <2>3. QED
    BY <1>5, <1>6, <2>1, <2>2
<1>11. ConfigsSingle'
  BY <1>1, <1>10 DEF PinInv, ConfigsSingle, InitsConfig
<1>12. \A c \in Commits : HoldsTree(c) /\ c \in disk => c \in disk'
  BY <1>6, <1>7 DEF InUse
<1>13. RequestsHeld'
  <2> SUFFICES ASSUME NEW p \in PinCallers, caller[p].pc \in HoldPcs
               PROVE  caller[p].commit \in disk'
    BY <1>1 DEF RequestsHeld
  <2>1. caller[p].commit \in disk /\ caller[p].commit \in Commits
    BY DEF PinInv, RequestsHeld, PinTypeOK
  <2>2. QED
    BY <1>12, <2>1, RequestInUse
<1>14. WorksHeld'
  <2> SUFFICES ASSUME NEW j \in Permits, work[j].kind = "config"
               PROVE  work[j].commit \in disk'
    BY <1>1 DEF WorksHeld
  <2>1. work[j].commit \in disk /\ work[j].commit \in Commits
    BY DEF PinInv, WorksHeld, PinTypeOK
  <2>2. HoldsTree(work[j].commit)
    BY DEF HoldsTree
  <2>3. QED
    BY <1>12, <2>1, <2>2
<1>15. ConfigsHeld'
  <2> SUFFICES ASSUME NEW c \in Commits, slots'["config"][c] = "loaded"
               PROVE  c \in disk'
    BY DEF ConfigsHeld
  <2>1. slots["config"][c] = "loaded"
    BY <1>5
  <2>2. c \in disk /\ HoldsTree(c)
    BY <2>1 DEF PinInv, ConfigsHeld, HoldsTree
  <2>3. QED
    BY <1>12, <2>2
<1>16. LoadedOnDisk'
  BY <1>5, <1>7 DEF PinInv, LoadedOnDisk
<1>17. LoadedForgets'
  BY <1>1, <1>5 DEF PinInv, LoadedForgets
<1>18. QED
  BY <1>8, <1>9, <1>11, <1>13, <1>14, <1>15, <1>16, <1>17 DEF PinInv

(* Time passes for a failure that is remembered. *)
LEMMA SecretClockKeeps ==
  ASSUME PinInv, NEW c \in Commits, SecretClock(c)
  PROVE  PinInv'
<1>1. failure \in [Commits -> FailureType] /\ failure[c] \in FailureType
  BY DEF PinInv, PinTypeOK
<1>2. PICK x \in FailureType : failure' = [failure EXCEPT ![c] = x] /\ x.known = failure[c].known
  <2>1. [failure[c] EXCEPT !.recent = FALSE] \in FailureType
        /\ [failure[c] EXCEPT !.recent = FALSE].known = failure[c].known
    BY <1>1 DEF FailureType
  <2>2. [failure[c] EXCEPT !.lasting = TRUE] \in FailureType
        /\ [failure[c] EXCEPT !.lasting = TRUE].known = failure[c].known
    BY <1>1 DEF FailureType
  <2>3. QED
    BY <2>1, <2>2 DEF SecretClock
<1>3. failure' \in [Commits -> FailureType] /\ \A d \in Commits : failure'[d].known = failure[d].known
  BY <1>1, <1>2
<1>4. UNCHANGED <<slots, disk, caller, work>>
  BY DEF SecretClock
<1>5. PinTypeOK' /\ LoadedForgets'
  BY <1>3, <1>4 DEF PinInv, PinTypeOK, LoadedForgets
<1>6. QED
  BY <1>4, <1>5 DEF PinInv, RequestsOK, RequestOK, WorksOK, WorkOK, OneWorkEach, ConfigsSingle,
       InitsConfig, LoadedOnDisk, RequestsHeld, WorksHeld, ConfigsHeld

(* Every step keeps the invariant. *)
LEMMA PinStep ==
  ASSUME PinInv, [PinNext]_pinVars
  PROVE  PinInv'
<1>1. CASE UNCHANGED pinVars
  BY <1>1 DEF pinVars, PinInv, PinTypeOK, RequestsOK, RequestOK, WorksOK, WorkOK, OneWorkEach,
       ConfigsSingle, InitsConfig, LoadedOnDisk, RequestsHeld, WorksHeld, ConfigsHeld, LoadedForgets
<1>2. ASSUME NEW p \in PinCallers, Release(p) PROVE PinInv'
  <2>1. caller[p].pc = "held" /\ Answer(p) /\ UNCHANGED <<slots, disk, work, failure>>
    BY <1>2 DEF Release, At
  <2>2. QED
    BY <2>1, QueueAnswers
<1>3. ASSUME NEW p \in PinCallers,
             TakePermit(p, "tree", "treePermit", "treeWork")
               \/ TakePermit(p, "config", "configPermit", "configWork")
      PROVE  PinInv'
  <2>1. WorkPc("tree") = "treeWork" /\ WorkPc("config") = "configWork"
    BY DEF WorkPc
  <2>2. CASE TakePermit(p, "tree", "treePermit", "treeWork")
    BY <2>1, <2>2, TakePermitKeeps
  <2>3. CASE TakePermit(p, "config", "configPermit", "configWork")
    BY <2>1, <2>3, TakePermitKeeps
  <2>4. QED
    BY <1>3, <2>2, <2>3
<1>4. QED
  BY <1>1, <1>2, <1>3, EnsureKeeps, ConfigCellKeeps, TreeCellKeeps, DroppedKeeps, WorkFailsKeeps,
     TreeReadyKeeps, ConfigLoadedKeeps, EvictKeeps, SecretClockKeeps DEF PinNext

(* The invariant of the pin store. *)
THEOREM PinInvHolds == PinSpec => []PinInv
BY PinInvInit, PinStep, PTL DEF PinSpec

(* Eviction takes no checkout that a caller holds, that a load reads       *)
(* although its request was dropped, or that a loaded config names; for    *)
(* any number of commits, callers and permits (pins.rs, evict, in_use).    *)
THEOREM TreesInUseStay == PinSpec => []HeldTreesStay
<1>1. PinInv => HeldTreesStay
  <2> SUFFICES ASSUME PinInv, NEW c \in Commits, HoldsTree(c) PROVE c \in disk
    BY DEF HeldTreesStay
  <2>1. QED
    BY DEF HoldsTree, At, HoldPcs, PinInv, RequestsHeld, WorksHeld, ConfigsHeld
<1>2. QED
  BY <1>1, PinInvHolds, PTL

(* A commit whose config is loaded has no failure in memory, because only  *)
(* the one request that initialises its cell records one (pins.rs,         *)
(* record_secret_failure and clear_secret_failure).                        *)
THEOREM LoadedPinsForget == PinSpec => []LoadedForgets
<1>1. PinInv => LoadedForgets
  BY DEF PinInv
<1>2. QED
  BY <1>1, PinInvHolds, PTL
=============================================================================
