--------------------------- MODULE WorkspaceReload ---------------------------
(***************************************************************************)
(* How one workspace follows its source: the watcher peeks for a change,   *)
(* loads under the execution mutex and one of the shared permits, counts   *)
(* peeks that fail or hang, and retries a failed load on a backoff ladder; *)
(* refreshes from outside load concurrently, under the mutex only.  The    *)
(* finalizer of a load or a peek outlives the observer that waits for it,  *)
(* so a peek that hangs for ever and a load that is overdue stay behind    *)
(* while the watcher ticks on.                                             *)
(*                                                                         *)
(* At most one peek and one load exist at a time, so op_id is not kept;    *)
(* load_in_flight only feeds a metric.                                     *)
(***************************************************************************)
EXTENDS Integers

CONSTANTS
  PeekThreshold,  \* K, peek_failure_threshold
  PollInterval,   \* in ticks of the clock
  MaxBackoff,     \* max_backoff, in ticks
  MaxRevisions,   \* bound: changes of the source
  MaxLoadFaults   \* bound: loads that fail although the source is sound, and
                  \* times the other workspaces take the last permit

ASSUME ReloadAssumption ==
  /\ PeekThreshold \in Nat \ {0} /\ PollInterval \in Nat \ {0}
  /\ MaxBackoff \in Nat /\ PollInterval <= MaxBackoff

VARIABLES
  source,     \* [rev, ok]: what the repository holds, and whether it loads
  published,  \* [rev, error]: the snapshot readers get
  avail,      \* [errored, fails, backoff, wait]: Availability.freshness
  watcher,    \* "starting", "idle", "peeking", "admit", "loading"
  peek,       \* [op, seen]: the peek in flight ("run"), its answer ("done")
  load,       \* [Callers -> [op, rev, ok]]: the load that holds the mutex
  permitTaken,\* the last permit: "no", "watcher", "others"
  loadFaults

reloadVars == <<source, published, avail, watcher, peek, load, permitTaken, loadFaults>>

NoPeek == [op |-> "none", seen |-> 0]
NoLoad == [op |-> "none", rev |-> 0, ok |-> FALSE]
Callers == {"watcher", "external"}
NeedsLoad == -1
PeekFailure == -2
FreshAvail(n) == [errored |-> FALSE, fails |-> n, backoff |-> 0, wait |-> 0]
ErroredAvail(b, w) == [errored |-> TRUE, fails |-> 0, backoff |-> b, wait |-> w]

(* WorkspaceEntry::pending *)
ReloadInit ==
  /\ source = [rev |-> 1, ok |-> TRUE]
  /\ published = [rev |-> 0, error |-> TRUE]
  /\ avail = FreshAvail(0)
  /\ watcher = "starting"
  /\ peek = NoPeek /\ load = [by \in Callers |-> NoLoad]
  /\ permitTaken = "no" /\ loadFaults = 0

-----------------------------------------------------------------------------
(* transition, LoadCompleted: what the freshness becomes. *)
Completed(a, by, ok) ==
  LET doubled == IF 2 * a.backoff < MaxBackoff THEN 2 * a.backoff ELSE MaxBackoff
  IN  CASE ok -> FreshAvail(0)
        [] ~ok /\ by = "startup" -> ErroredAvail(PollInterval, 0)
        [] ~ok /\ by # "startup" /\ ~a.errored -> ErroredAvail(PollInterval, PollInterval)
        [] ~ok /\ by = "watcher" /\ a.errored -> ErroredAvail(doubled, doubled)
        [] OTHER -> a

(* apply_load_result: both under their locks, in one critical section. *)
ApplyLoadResult(by, rev, ok) ==
  /\ avail' = Completed(avail, by, ok)
  /\ published' = IF ok THEN [rev |-> rev, error |-> FALSE] ELSE [published EXCEPT !.error = TRUE]

(* new_with_reload: the first load of the workspace; it may time out. *)
StartupLoad ==
  /\ watcher = "starting" /\ watcher' = "idle"
  /\ \/ ApplyLoadResult("startup", source.rev, source.ok) /\ UNCHANGED loadFaults
     \/ /\ loadFaults < MaxLoadFaults /\ loadFaults' = loadFaults + 1
        /\ ApplyLoadResult("startup", source.rev, FALSE)
  /\ UNCHANGED <<source, peek, load, permitTaken>>

(* Mutant: a peek that hangs is waited for, not counted. *)
HungPeekIgnored(a) == avail' = avail /\ watcher' = "idle"

(* peek_failed: count it; at K, force one load. *)
PeekFailed(a) ==
  IF a.fails + 1 < PeekThreshold
  THEN avail' = FreshAvail(a.fails + 1) /\ watcher' = "idle"
  ELSE avail' = FreshAvail(PeekThreshold) /\ watcher' = "admit"

(* watcher_tick, with the peek of a fresh workspace started. *)
WatcherTick ==
  /\ watcher = "idle"
  /\ \/ avail.errored /\ avail.wait = 0 /\ watcher' = "admit" /\ UNCHANGED <<avail, peek>>
     \/ ~avail.errored /\ peek.op = "run" /\ PeekFailed(avail) /\ UNCHANGED peek
     \/ /\ ~avail.errored /\ peek.op = "none"
        /\ watcher' = "peeking" /\ peek' = [op |-> "run", seen |-> 0] /\ UNCHANGED avail
  /\ UNCHANGED <<source, published, load, permitTaken, loadFaults>>

(* spawn_peek: the finalizer emits PeekFinished; nobody may be waiting. *)
PeekFinishes ==
  /\ peek.op = "run"
  /\ \E seen \in {source.rev, NeedsLoad, PeekFailure} :
       peek' = IF watcher = "peeking" THEN [op |-> "done", seen |-> seen] ELSE NoPeek
  /\ UNCHANGED <<source, published, avail, watcher, load, permitTaken, loadFaults>>

(* peek_once, the observer: observe, then PeekCompleted. *)
PeekObserved ==
  /\ watcher = "peeking" /\ peek.op = "done" /\ peek' = NoPeek
  /\ \/ avail.errored /\ watcher' = "idle" /\ UNCHANGED avail
     \/ ~avail.errored /\ peek.seen = PeekFailure /\ PeekFailed(avail)
     \/ /\ ~avail.errored /\ peek.seen = published.rev
        /\ avail' = FreshAvail(0) /\ watcher' = "idle"
     \/ /\ ~avail.errored /\ peek.seen \notin {PeekFailure, published.rev}
        /\ watcher' = "admit" /\ UNCHANGED avail
  /\ UNCHANGED <<source, published, load, permitTaken, loadFaults>>

(* peek_once: the observer gives up, the peek stays in flight. *)
PeekTimedOut ==
  /\ watcher = "peeking" /\ peek.op = "run"
  /\ IF avail.errored THEN watcher' = "idle" /\ UNCHANGED avail ELSE PeekFailed(avail)
  /\ UNCHANGED <<source, published, peek, load, permitTaken, loadFaults>>

-----------------------------------------------------------------------------
(* Mutant: the mutex is not tried. *)
ExecAlwaysFree == TRUE

ExecFree == \A by \in Callers : load[by].op = "none"

(* attempt_watcher_load: the mutex, then a permit, else not this time. *)
AdmitLoad ==
  /\ watcher = "admit"
  /\ IF ExecFree /\ permitTaken = "no"
     THEN /\ load' = [load EXCEPT !["watcher"].op = "run"]
          /\ permitTaken' = "watcher" /\ watcher' = "loading"
          /\ avail' = IF avail.errored THEN avail ELSE FreshAvail(0)
     ELSE watcher' = "idle" /\ UNCHANGED <<load, permitTaken, avail>>
  /\ UNCHANGED <<source, published, peek, loadFaults>>

(* reload and reload_for_api: busy, or run_external_load. *)
ExternalReload ==
  /\ watcher # "starting" /\ ExecFree
  /\ load' = [load EXCEPT !["external"].op = "run"]
  /\ UNCHANGED <<source, published, avail, watcher, peek, permitTaken, loadFaults>>

(* The worker of spawn_load reads the source. *)
LoadReads(by) ==
  /\ load[by].op = "run"
  /\ \/ /\ load' = [load EXCEPT ![by] = [op |-> "read", rev |-> source.rev, ok |-> source.ok]]
        /\ UNCHANGED loadFaults
     \/ /\ loadFaults < MaxLoadFaults /\ loadFaults' = loadFaults + 1
        /\ load' = [load EXCEPT ![by] = [op |-> "read", rev |-> source.rev, ok |-> FALSE]]
  /\ UNCHANGED <<source, published, avail, watcher, peek, permitTaken>>

(* The finalizer of spawn_load: publish, then release mutex and permit. *)
LoadFinishes(by) ==
  /\ load[by].op = "read"
  /\ ApplyLoadResult(by, load[by].rev, load[by].ok)
  /\ load' = [load EXCEPT ![by] = NoLoad]
  /\ permitTaken' = IF by = "watcher" THEN "no" ELSE permitTaken
  /\ watcher' = IF by = "watcher" /\ watcher = "loading" THEN "idle" ELSE watcher
  /\ UNCHANGED <<source, peek, loadFaults>>

(* attempt_watcher_load: the observer gives up, the load keeps its slot. *)
LoadOverdue ==
  /\ watcher = "loading" /\ watcher' = "idle"
  /\ UNCHANGED <<source, published, avail, peek, load, permitTaken, loadFaults>>

-----------------------------------------------------------------------------
ReloadClock ==
  /\ avail.wait > 0 /\ avail' = [avail EXCEPT !.wait = @ - 1]
  /\ UNCHANGED <<source, published, watcher, peek, load, permitTaken, loadFaults>>

SourceChanges ==
  /\ source.rev < MaxRevisions
  /\ \E ok \in BOOLEAN : source' = [rev |-> source.rev + 1, ok |-> ok]
  /\ UNCHANGED <<published, avail, watcher, peek, load, permitTaken, loadFaults>>

(* Watchers of other workspaces hold the permits, and give them back. *)
OthersTakePermit ==
  /\ permitTaken = "no" /\ permitTaken' = "others"
  /\ loadFaults < MaxLoadFaults /\ loadFaults' = loadFaults + 1
  /\ UNCHANGED <<source, published, avail, watcher, peek, load>>

OthersReturnPermit ==
  /\ permitTaken = "others" /\ permitTaken' = "no"
  /\ UNCHANGED <<source, published, avail, watcher, peek, load, loadFaults>>

ReloadNext ==
  \/ StartupLoad \/ WatcherTick \/ PeekFinishes \/ PeekObserved \/ PeekTimedOut
  \/ AdmitLoad \/ ExternalReload \/ LoadOverdue
  \/ \E by \in Callers : LoadReads(by) \/ LoadFinishes(by)
  \/ ReloadClock \/ SourceChanges \/ OthersTakePermit \/ OthersReturnPermit

ReloadSpec == ReloadInit /\ [][ReloadNext]_reloadVars

-----------------------------------------------------------------------------
(* Action property: a snapshot is never replaced by an older one, although *)
(* loads of the watcher and from outside overlap their observers, because  *)
(* one mutex covers reading the source and publishing it (lifecycle.rs,    *)
(* spawn_load).                                                            *)
PublishedMovesForward == [][published'.rev >= published.rev]_reloadVars

(* Liveness: once the source stays at a commit that loads, that commit is  *)
(* served and stays served, although every later peek may fail or hang and *)
(* admissions are skipped (watcher.rs, watcher_tick and peek_failed).      *)
Serves == published = [rev |-> source.rev, error |-> FALSE]
WorkspaceConverges == <>[]source.ok => <>[]Serves
=============================================================================
