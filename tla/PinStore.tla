------------------------------ MODULE PinStore -------------------------------
(***************************************************************************)
(* The pinned snapshots of one git workspace on one replica: checkouts and *)
(* configs by commit, each behind a cell that lets one caller load while   *)
(* the others wait, a few permits for the blocking work, eviction of what  *)
(* nobody needs, and the memory of secrets that did not load.              *)
(*                                                                         *)
(* A caller is a request; it may be dropped at any await.  The blocking    *)
(* work it started goes on without it, and keeps its permit and, when it   *)
(* reads a checkout, its lease.  A deadline may pass at any wait.  A tmp   *)
(* dir has a name of its own and is not kept.                              *)
(***************************************************************************)
EXTENDS Naturals

CONSTANTS
  Commits,
  PinCallers,
  MaxPermits    \* MAX_CONCURRENT_PIN_LOADS

ASSUME PinAssumption ==
  MaxPermits \in Nat \ {0} /\ "none" \notin Commits /\ "none" \notin PinCallers

VARIABLES
  slots,     \* ["tree", "config" -> [Commits -> "none", "empty", "loaded"]]
  disk,      \* the commits with a published checkout
  caller,    \* [PinCallers -> [op, commit, pc]]
  work,      \* [1..MaxPermits -> [kind, commit, owner]]: work that has a permit
  failure,   \* [Commits -> SecretFailure]
  evicting   \* a call of evict is between configs and trees

pinVars == <<slots, disk, caller, work, failure, evicting>>

Permits == 1..MaxPermits
NoCaller == [op |-> "none", commit |-> "none", pc |-> "idle"]
NoWork == [kind |-> "none", commit |-> "none", owner |-> "none"]

(* recent: last_failed is younger than PIN_SECRET_FAILURE_RETRY_SECS;      *)
(* lasting: first_seen is PIN_SECRET_FAILURE_PERMANENT_AFTER_SECS old.     *)
NoFailure == [known |-> FALSE, recent |-> FALSE, lasting |-> FALSE, transient |-> TRUE]

(* open: checkouts of an earlier process are removed. *)
PinInit ==
  /\ slots = [k \in {"tree", "config"} |-> [c \in Commits |-> "none"]]
  /\ disk = {}
  /\ caller = [p \in PinCallers |-> NoCaller]
  /\ work = [k \in Permits |-> NoWork]
  /\ failure = [c \in Commits |-> NoFailure]
  /\ evicting = FALSE

-----------------------------------------------------------------------------
(* slot_cell: the entry exists from here on. *)
SlotCell(k, c) ==
  slots' = IF slots[k][c] = "none" THEN [slots EXCEPT ![k][c] = "empty"] ELSE slots

Goto(p, pc) == caller' = [caller EXCEPT ![p].pc = pc]
Answer(p) == caller' = [caller EXCEPT ![p] = NoCaller]
At(p, pc) == caller[p].pc = pc

(* Somebody runs the initialisation of the cell. *)
Loading(k, c) ==
  \E p \in PinCallers :
    /\ caller[p].commit = c
    /\ \/ k = "tree" /\ caller[p].pc \in {"treePermit", "treeWork"}
       \/ /\ k = "config" /\ caller[p].op = "config"
          /\ caller[p].pc \in {"tree", "treePermit", "treeWork", "configPermit", "configWork"}

(* ensure: a recent failure of the secrets is answered from memory. *)
Ensure(p, c) ==
  /\ At(p, "idle") /\ ~failure[c].recent
  /\ SlotCell("config", c)
  /\ caller' = [caller EXCEPT ![p] = [op |-> "config", commit |-> c, pc |-> "config"]]
  /\ UNCHANGED <<disk, work, failure, evicting>>

(* ensure_tree, for the tarball of a revision. *)
EnsureTree(p, c) ==
  /\ At(p, "idle")
  /\ SlotCell("tree", c)
  /\ caller' = [caller EXCEPT ![p] = [op |-> "tree", commit |-> c, pc |-> "tree"]]
  /\ UNCHANGED <<disk, work, failure, evicting>>

(* get_or_try_init of ensure: the value, or the load is this caller's.     *)
(* load_pinned asks for the tree first.                                    *)
ConfigCell(p) ==
  LET c == caller[p].commit
  IN  /\ At(p, "config")
      /\ \/ slots["config"][c] = "loaded" /\ Goto(p, "held") /\ UNCHANGED slots
         \/ /\ slots["config"][c] = "empty" /\ ~Loading("config", c)
            /\ \/ Answer(p) /\ UNCHANGED slots
               \/ SlotCell("tree", c) /\ Goto(p, "tree")
      /\ UNCHANGED <<disk, work, failure, evicting>>

(* What a caller does with the tree: it is the answer of ensure_tree. *)
GotTree(p) == Goto(p, IF caller[p].op = "tree" THEN "held" ELSE "configPermit")

(* get_or_try_init of tree. *)
TreeCell(p) ==
  LET c == caller[p].commit
  IN  /\ At(p, "tree")
      /\ \/ slots["tree"][c] = "loaded" /\ GotTree(p)
         \/ /\ slots["tree"][c] = "empty" /\ ~Loading("tree", c)
            /\ Answer(p) \/ Goto(p, "treePermit")
      /\ UNCHANGED <<slots, disk, work, failure, evicting>>

(* permit, then spawn_blocking; or the deadline passes in the queue. *)
TakePermit(p, kind, waits, works) ==
  /\ At(p, waits)
  /\ \/ Answer(p) /\ UNCHANGED work
     \/ \E k \in Permits :
          /\ work[k] = NoWork
          /\ work' = [work EXCEPT ![k] = [kind |-> kind, commit |-> caller[p].commit, owner |-> p]]
          /\ Goto(p, works)
  /\ UNCHANGED <<slots, disk, failure, evicting>>

Free(k) == work' = [work EXCEPT ![k] = NoWork]
Waited(k) == work[k].owner \in PinCallers

(* ensure_commit_local fails, or the checkout does and none is published. *)
TreeFails(k) ==
  /\ work[k].kind = "tree" /\ Free(k)
  /\ IF Waited(k) THEN Answer(work[k].owner) ELSE UNCHANGED caller
  /\ UNCHANGED <<slots, disk, failure, evicting>>

(* checkout_commit: the dir is there, or its own rename publishes it. *)
TreeReady(k) ==
  /\ work[k].kind = "tree" /\ Free(k)
  /\ disk' = disk \union {work[k].commit}
  /\ IF Waited(k)
     THEN GotTree(work[k].owner) /\ slots' = [slots EXCEPT !["tree"][work[k].commit] = "loaded"]
     ELSE UNCHANGED <<caller, slots>>
  /\ UNCHANGED <<failure, evicting>>

(* record_secret_failure. *)
RecordSecretFailure(f) ==
  [known |-> TRUE, recent |-> TRUE, lasting |-> f.lasting, transient |-> ~f.lasting]

(* Mutant: a load that succeeds leaves the failure in memory. *)
KeepSecretFailure(f) == f

(* clear_secret_failure. *)
ClearSecretFailure(f) == NoFailure

(* load_pinned, when the config loads; a result nobody waits for is lost. *)
ConfigLoaded(k) ==
  LET c == work[k].commit
  IN  /\ work[k].kind = "config" /\ Free(k)
      /\ IF Waited(k)
         THEN /\ Goto(work[k].owner, "held")
              /\ slots' = [slots EXCEPT !["config"][c] = "loaded"]
              /\ failure' = [failure EXCEPT ![c] = ClearSecretFailure(@)]
         ELSE UNCHANGED <<caller, slots, failure>>
      /\ UNCHANGED <<disk, evicting>>

(* classify_load: a secret-class failure is recorded, another is not. *)
ConfigFailed(k) ==
  LET c == work[k].commit
  IN  /\ work[k].kind = "config" /\ Free(k)
      /\ IF Waited(k)
         THEN /\ Answer(work[k].owner)
              /\ failure' \in {failure, [failure EXCEPT ![c] = RecordSecretFailure(@)]}
         ELSE UNCHANGED <<caller, failure>>
      /\ UNCHANGED <<slots, disk, evicting>>

(* The caller lets go of the value. *)
Release(p) ==
  /\ At(p, "held") /\ Answer(p)
  /\ UNCHANGED <<slots, disk, work, failure, evicting>>

(* The request is dropped; its blocking work is not. *)
Dropped(p) ==
  /\ caller[p].pc \notin {"idle", "held"} /\ Answer(p)
  /\ work' = [k \in Permits |-> IF work[k].owner = p THEN [work[k] EXCEPT !.owner = "none"] ELSE work[k]]
  /\ UNCHANGED <<slots, disk, failure, evicting>>

-----------------------------------------------------------------------------
(* Who holds the value of a tree cell: callers, the blocking load of a     *)
(* config, and the configs that were loaded from it.                       *)
HoldsTree(c) ==
  \/ \E p \in PinCallers :
       /\ caller[p].commit = c
       /\ \/ caller[p].op = "tree" /\ At(p, "held")
          \/ caller[p].pc \in {"configPermit", "configWork"}
          \/ caller[p].op = "config" /\ At(p, "held")
  \/ \E k \in Permits : work[k].kind = "config" /\ work[k].commit = c
  \/ slots["config"][c] = "loaded"

(* The first count of in_use: callers that load, or wait for a load.  As a *)
(* mutant of InUse it forgets the lease.                                   *)
CellHeld(k, c) ==
  \E p \in PinCallers :
    /\ caller[p].commit = c
    /\ IF k = "tree" THEN caller[p].pc \in {"tree", "treePermit", "treeWork"}
                     ELSE caller[p].op = "config" /\ ~At(p, "held")

(* in_use: of the cell, or of its value. *)
InUse(k, c) ==
  \/ CellHeld(k, c)
  \/ IF k = "tree" THEN HoldsTree(c)
     ELSE \E p \in PinCallers : caller[p].op = "config" /\ caller[p].commit = c

(* evictable; spared are the pins of active jobs and the most recent ones. *)
Evictable(k, spared) == {c \in Commits : slots[k][c] # "none" /\ c \notin spared /\ ~InUse(k, c)}

Drop(k, gone) ==
  slots' = [slots EXCEPT ![k] = [c \in Commits |-> IF c \in gone THEN "none" ELSE @[c]]]

(* evict, under the lock of the configs.  What pin_keep_set returned and   *)
(* which pins are recent may be anything.                                  *)
EvictConfigs(spared) ==
  /\ ~evicting /\ evicting' = TRUE
  /\ Drop("config", Evictable("config", spared))
  /\ UNCHANGED <<disk, caller, work, failure>>

(* evict, under the lock of the trees: entry and dir go together; a dir    *)
(* that cannot be moved stays published.                                   *)
EvictTrees(spared) ==
  LET gone == Evictable("tree", spared)
  IN  /\ evicting /\ evicting' = FALSE
      /\ Drop("tree", gone)
      /\ disk' \in {disk \ gone, disk}
      /\ UNCHANGED <<caller, work, failure>>

SecretClock(c) ==
  /\ failure[c].known
  /\ \/ failure[c].recent /\ failure' = [failure EXCEPT ![c].recent = FALSE]
     \/ ~failure[c].lasting /\ failure' = [failure EXCEPT ![c].lasting = TRUE]
  /\ UNCHANGED <<slots, disk, caller, work, evicting>>

PinNext ==
  \/ \E p \in PinCallers :
       \/ \E c \in Commits : Ensure(p, c) \/ EnsureTree(p, c)
       \/ ConfigCell(p) \/ TreeCell(p)
       \/ TakePermit(p, "tree", "treePermit", "treeWork")
       \/ TakePermit(p, "config", "configPermit", "configWork")
       \/ Release(p) \/ Dropped(p)
  \/ \E k \in Permits : TreeFails(k) \/ TreeReady(k) \/ ConfigLoaded(k) \/ ConfigFailed(k)
  \/ \E spared \in SUBSET Commits : EvictConfigs(spared) \/ EvictTrees(spared)
  \/ \E c \in Commits : SecretClock(c)

PinSpec == PinInit /\ [][PinNext]_pinVars

-----------------------------------------------------------------------------
(* A checkout that a caller holds, that a load reads although its caller   *)
(* was dropped, or that a loaded config names, is on disk: eviction takes  *)
(* none of them, and a detached checkout replaces none (pins.rs, evict and *)
(* in_use).                                                                *)
HeldTreesStay == \A c \in Commits : HoldsTree(c) => c \in disk

(* A commit whose config is loaded has no failure in memory: ensure would  *)
(* answer it with the error although the pin is there (pins.rs,            *)
(* recent_secret_failure is asked before the cell).                        *)
LoadedForgets ==
  \A c \in Commits : slots["config"][c] = "loaded" => ~failure[c].known
=============================================================================
