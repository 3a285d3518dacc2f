------------------------------ MODULE Cascade ------------------------------
(***************************************************************************)
(* The step cascade of one job under concurrent advances.                  *)
(*                                                                         *)
(* cascade.rs computes a plan from a snapshot of the rows (run: the pure   *)
(* fixpoint) and applies it in one guarded transaction (apply), again from *)
(* a fresh snapshot when a row moved in between (execute, MAX_ATTEMPTS).   *)
(* settle.rs then decides the job from the rows.  Every finished step      *)
(* starts such an advance, on any replica, and nothing orders them; a      *)
(* cancel may run at any point.                                            *)
(*                                                                         *)
(* The rows of a for_each step p are the placeholder p and its instances   *)
(* <<p, 0>>, <<p, 1>>, ...  Claim, start and reports are reduced to        *)
(* StartRow, ReportRow, RetryRow and LateReport: they are the subject of   *)
(* module StepClaim.                                                       *)
(***************************************************************************)
EXTENDS Gate, FiniteSets

CONSTANTS
  FlowSteps,      \* the steps of the task's flow
  DependsOn,      \* [FlowSteps -> SUBSET Entries]
  Placeholders,   \* the for_each steps
  Sequential,     \* the for_each steps with sequential: true
  Tolerated,      \* the steps with continue_on_failure
  Retried,        \* the steps with max_retries
  WhenResults,    \* per step, what its condition may evaluate to; {"none"} without one
  ItemCounts,     \* per for_each step, the item counts its expression may give
  MaxItems,       \* bound on the items; a count above it stands for an expression error
  Results,        \* how a running row may end: a child job may also be cancelled
  Handlers,       \* bound: advances in progress at the same time
  Creator,        \* the handler that runs dispatch::init at creation
  MaxAttempts,    \* MAX_ATTEMPTS
  MaxLate,        \* bound: reports that reach a row no longer running
  LateSteps       \* bound: the steps such reports are for

ASSUME FlowAssumption ==
  /\ IsFiniteSet(FlowSteps) /\ DependsOn \in [FlowSteps -> SUBSET Entries]
  /\ \A e \in Entries : e.op = "step" => e.step \in FlowSteps
  /\ Placeholders \subseteq FlowSteps /\ Sequential \subseteq Placeholders
  /\ Tolerated \subseteq FlowSteps /\ Retried \subseteq FlowSteps
ASSUME ChoiceAssumption ==
  /\ WhenResults \in [FlowSteps -> SUBSET {"none", "true", "false", "error"}]
  /\ ItemCounts \in [Placeholders -> SUBSET Nat] /\ MaxItems \in Nat
  /\ Results \subseteq {"completed", "failed", "cancelled"}
ASSUME HandlerAssumption ==
  Creator \in Handlers /\ MaxAttempts \in Nat \ {0} /\ MaxLate \in Nat

VARIABLES
  job,        \* job.status
  row,        \* job_step: [status, reason], "absent" for a row not inserted
  handler,    \* the advances in progress: [pc, attempt, outcome]
  snap,       \* the rows each handler read last
  cancelPc,   \* where Settlement::cancel is
  matched,    \* the rows cancel_pending_steps matched in its snapshot
  claimed,    \* the rows a worker or the dispatcher has taken so far
  late        \* the late reports so far

vars == <<job, row, handler, snap, cancelPc, matched, claimed, late>>

Instances == Placeholders \X (0 .. MaxItems - 1)
Rows == FlowSteps \cup Instances

(* Validation refuses brackets in step names: they name the instances. *)
ASSUME NamesAssumption == FlowSteps \cap Instances = {}

(* validate_dag: no step depends on itself, however indirectly.  There is  *)
(* an order of the steps in which all an entry names come before the steps *)
(* that depend on it.                                                      *)
ASSUME AcyclicAssumption ==
  \E level \in [FlowSteps -> 0 .. Cardinality(FlowSteps)],
     reach \in [Entries -> 0 .. Cardinality(FlowSteps)] :
    /\ \A e \in Entries : /\ e.op = "step" => level[e.step] <= reach[e]
                          /\ \A c \in e.of : reach[c] <= reach[e]
    /\ \A s \in FlowSteps : \A e \in DependsOn[s] : reach[e] < level[s]

Live == {"pending", "running"}
Finished == {"completed", "failed", "skipped", "cancelled"}

RowValue ==
  [status : Finished \cup {"absent", "pending", "ready", "running"},
   reason : {"none", "condition", "empty", "unreachable"}]
RowState == [Rows -> RowValue]

Cell(st) == [status |-> st, reason |-> "none"]
Skip(why) == [status |-> "skipped", reason |-> why]

(* flow_step_name: the flow step a row is judged by. *)
FlowStepOf(r) == IF r \in FlowSteps THEN r ELSE r[1]

-----------------------------------------------------------------------------
(***************************************************************************)
(* The fixpoint of run, on a snapshot f.                                   *)
(***************************************************************************)

(* A loop of the code: change the rows until nothing changes, at most n    *)
(* times.                                                                  *)
UntilStable(change, n, f) ==
  LET times[k \in Nat] ==
        [g \in RowState |-> LET h == change[g]
                            IN IF k = 0 \/ h = g THEN g ELSE times[k - 1][h]]
  IN times[n][f]

Outcomes(f) == [s \in FlowSteps |-> FromRow(f[s])]
GateFor(f, s) == GateOf(DependsOn[s], Outcomes(f))

InstancesOf(f, p) == {r \in Instances : r[1] = p /\ f[r].status # "absent"}
Done(f, r) == f[r].status \in Finished

(* Mutant: only a failure skips the rest, a cancellation does not. *)
SkipsRestOnFailure(f, p) ==
  /\ p \in Sequential \ Tolerated
  /\ \E r \in InstancesOf(f, p) : f[r].status = "failed"
  /\ \E r \in InstancesOf(f, p) : f[r].status = "pending"

(* R5, failure precedence: a sequential loop that does not tolerate the    *)
(* failure of an instance skips the instances still pending.               *)
SkipsRest(f, p) ==
  /\ p \in Sequential \ Tolerated
  /\ \E r \in InstancesOf(f, p) : f[r].status \in {"failed", "cancelled"}
  /\ \E r \in InstancesOf(f, p) : f[r].status = "pending"

(* R6 applies to a running placeholder that has instances. *)
LoopOpen(f, p) == f[p].status = "running" /\ InstancesOf(f, p) # {}

(* R5: a pending instance is skipped, or follows its predecessor. *)
RollupInstance(f, r) ==
  CASE ~LoopOpen(f, r[1]) \/ f[r].status # "pending" -> f[r]
    [] LoopOpen(f, r[1]) /\ f[r].status = "pending" /\ SkipsRest(f, r[1]) ->
         Skip("unreachable")
    [] OTHER -> IF r[1] \in Sequential /\ r[2] > 0 /\ Done(f, <<r[1], r[2] - 1>>)
                THEN Cell("ready") ELSE f[r]

(* Mutant: the loop is rolled up with the first instance that is done. *)
RollupOnFirst(f, p) ==
  IF LoopOpen(f, p) /\ \E r \in InstancesOf(f, p) : Done(f, r)
  THEN IF \E r \in InstancesOf(f, p) : f[r].status = "failed"
       THEN Cell("failed") ELSE Cell("completed")
  ELSE f[p]

(* R6: the placeholder ends when all its instances have. *)
RollupPlaceholder(f, p) ==
  IF LoopOpen(f, p) /\ \A r \in InstancesOf(f, p) : Done(f, r)
  THEN IF \E r \in InstancesOf(f, p) : f[r].status = "failed"
       THEN Cell("failed") ELSE Cell("completed")
  ELSE f[p]

(* P0, phase_rollup. *)
PhaseRollup(f) ==
  [r \in Rows |-> IF r \in Instances THEN RollupInstance(f, r)
                  ELSE IF r \in Placeholders THEN RollupPlaceholder(f, r)
                  ELSE f[r]]

(* Mutant: a step whose dependencies ended otherwise than it accepts runs. *)
DecidedWhenDone(f, s, when, go) ==
  LET g == GateFor(f, s) IN
  CASE g = "wait" -> f[s]
    [] g # "wait" /\ when[s] = "false" -> Skip("condition")
    [] g # "wait" /\ when[s] = "error" -> Cell("failed")
    [] OTHER -> go

(* The part phase_promote and phase_placeholders share: a pending step     *)
(* whose gate is decided and whose condition is evaluated; go is what it   *)
(* becomes when it may run.                                                *)
Decided(f, s, when, go) ==
  LET g == GateFor(f, s) IN
  CASE g = "wait" -> f[s]
    [] g = "omitted" -> Skip("unreachable")
    [] g = "open" /\ when[s] = "false" -> Skip("condition")
    [] g = "open" /\ when[s] = "error" -> Cell("failed")
    [] OTHER -> go

(* P1, phase_promote: relayed until nothing changes.  Each relay but the   *)
(* last decides a pending step, so there are no more of them than steps.   *)
Relay(f, when) ==
  [r \in Rows |-> IF r \in FlowSteps \ Placeholders /\ f[r].status = "pending"
                  THEN Decided(f, r, when, Cell("ready")) ELSE f[r]]
PhasePromote(f, when) ==
  UntilStable([g \in RowState |-> Relay(g, when)], Cardinality(FlowSteps), f)

(* P3, phase_placeholders: adopt, retire or expand. *)
PhasePlaceholders(f, when, items) ==
  LET waiting(p) == f[p].status = "pending"
      adopts(p) == waiting(p) /\ MaxItems > 0 /\ f[<<p, 0>>].status # "absent"
      opened(p) == CASE items[p] = 0 -> Skip("empty")
                     [] items[p] > MaxItems -> Cell("failed")
                     [] OTHER -> Cell("running")
      placeholder(p) == IF adopts(p) THEN Cell("running")
                        ELSE IF waiting(p) THEN Decided(f, p, when, opened(p))
                        ELSE f[p]
      expands(p) == waiting(p) /\ ~adopts(p) /\ placeholder(p).status = "running"
      instance(r) == IF expands(r[1]) /\ r[2] < items[r[1]]
                     THEN IF r[1] \in Sequential /\ r[2] > 0 THEN Cell("pending")
                                                            ELSE Cell("ready")
                     ELSE f[r]
  IN [r \in Rows |-> IF r \in Instances THEN instance(r)
                     ELSE IF r \in Placeholders THEN placeholder(r)
                     ELSE f[r]]

Pass(f, when, items) ==
  PhasePlaceholders(PhasePromote(PhaseRollup(f), when), when, items)

(* The pass bound of run: 4 * universe + 1. *)
PassBound(f) ==
  LET present == {r \in Rows : f[r].status # "absent"}
      unexpanded == {p \in Placeholders : f[p].status = "pending"}
  IN 4 * (Cardinality(present) + MaxItems * Cardinality(unexpanded)) + 1

Run(f, when, items) ==
  UntilStable([g \in RowState |-> Pass(g, when, items)], PassBound(f), f)

Conditions == {w \in [FlowSteps -> {"none", "true", "false", "error"}] :
                 \A s \in FlowSteps : w[s] \in WhenResults[s]}
ItemChoices == {i \in [Placeholders -> UNION {ItemCounts[p] : p \in Placeholders}] :
                  \A p \in Placeholders : i[p] \in ItemCounts[p]}

(* The rows a plan names, and the guard of each of its statements: the row *)
(* is still in the status the snapshot had.                                *)
Changes(f, g) == {r \in Rows : f[r] # g[r]}
GuardsHold(f, g) == \A r \in Changes(f, g) : row[r].status = f[r].status

(* Expand and Adopt also mark the job running. *)
StartsLoop(f, g) ==
  \E p \in Placeholders : f[p].status = "pending" /\ g[p].status # "pending"
                          /\ \E r \in InstancesOf(g, p) : TRUE

(* settle::decide, once every row is terminal. *)
Present == {r \in Rows : row[r].status # "absent"}
AllDone == \A r \in Present : Done(row, r)
Outcome ==
  IF \E r \in Present : row[r].status = "failed" /\ FlowStepOf(r) \notin Tolerated
  THEN "failed"
  ELSE IF \E r \in Present : row[r].status = "cancelled" THEN "cancelled"
  ELSE "completed"

-----------------------------------------------------------------------------
Idle == [pc |-> "idle", attempt |-> 0, outcome |-> "none"]
At(h, pc) == handler[h].pc = pc
Goto(h, pc) == handler' = [handler EXCEPT ![h].pc = pc]
Return(h) == handler' = [handler EXCEPT ![h] = Idle]

NoRows == [r \in Rows |-> Cell("absent")]

(* initial_status: a root step without when and for_each is ready. *)
InitialRow(r) ==
  IF r \in Instances THEN Cell("absent")
  ELSE IF r \notin Placeholders /\ DependsOn[r] = {} /\ WhenResults[r] = {"none"}
       THEN Cell("ready")
       ELSE Cell("pending")

(* The rows are committed and dispatch::init is about to cascade. *)
Init ==
  /\ job = "pending"
  /\ row = [r \in Rows |-> InitialRow(r)]
  /\ handler = [h \in Handlers |->
                  IF h = Creator THEN [pc |-> "snapshot", attempt |-> 1, outcome |-> "none"]
                                 ELSE Idle]
  /\ snap = [h \in Handlers |-> NoRows]
  /\ cancelPc = "idle"
  /\ matched = {} /\ claimed = {} /\ late = 0

(* A worker or the dispatcher takes a ready row, whatever became of the    *)
(* job. *)
StartRow(r) ==
  /\ r \notin Placeholders /\ row[r].status = "ready"
  /\ row' = [row EXCEPT ![r] = Cell("running")]
  /\ job' = IF job = "pending" THEN "running" ELSE job
  /\ claimed' = claimed \cup {r}
  /\ UNCHANGED <<handler, snap, cancelPc, matched, late>>

(* A running row ends, and its report starts an advance. *)
ReportRow(h, r, result) ==
  /\ h # Creator /\ At(h, "idle")
  /\ r \notin Placeholders /\ row[r].status = "running"
  /\ row' = [row EXCEPT ![r] = Cell(result)]
  /\ Goto(h, "read")
  /\ UNCHANGED <<job, snap, cancelPc, matched, claimed, late>>

(* fail_or_retry, the arm with attempts left: the row is ready again, and  *)
(* nothing advances.  The job's status is not looked at. *)
RetryRow(r) ==
  /\ r \notin Placeholders /\ FlowStepOf(r) \in Retried /\ row[r].status = "running"
  /\ row' = [row EXCEPT ![r] = Cell("ready")]
  /\ UNCHANGED <<job, handler, snap, cancelPc, matched, claimed, late>>

(* mark_running, mark_completed and fail_or_retry without an expected      *)
(* status write whatever the row is: a worker whose claim is over, or a    *)
(* report sent twice, undoes what came after. *)
LateReport(h, r, st) ==
  /\ late < MaxLate /\ FlowStepOf(r) \in LateSteps
  /\ r \in claimed /\ row[r].status # "running"
  /\ st = "ready" => FlowStepOf(r) \in Retried
  /\ row' = [row EXCEPT ![r] = Cell(st)]
  /\ late' = late + 1
  /\ IF st \in {"completed", "failed"}
     THEN h # Creator /\ At(h, "idle") /\ Goto(h, "read")
     ELSE UNCHANGED handler
  /\ UNCHANGED <<job, snap, cancelPc, matched, claimed>>

(* advance, step 3 runs only on a job that is live when it is read. *)
ReadJob(h) ==
  /\ At(h, "read")
  /\ handler' = [handler EXCEPT ![h] =
       IF job \in Live THEN [pc |-> "snapshot", attempt |-> 1, outcome |-> "none"]
                       ELSE Idle]
  /\ UNCHANGED <<job, row, snap, cancelPc, matched, claimed, late>>

(* Mutant: an advance that finds another one in progress leaves it to it. *)
SnapshotUnlessBusy(h) ==
  /\ At(h, "snapshot")
  /\ IF \E k \in Handlers \ {h} : At(k, "apply") \/ At(k, "decide")
     THEN Return(h) /\ UNCHANGED snap
     ELSE Goto(h, "apply") /\ snap' = [snap EXCEPT ![h] = row]
  /\ UNCHANGED <<job, row, cancelPc, matched, claimed, late>>

(* execute, one attempt: read the rows ... *)
TakeSnapshot(h) ==
  /\ At(h, "snapshot")
  /\ snap' = [snap EXCEPT ![h] = row]
  /\ Goto(h, "apply")
  /\ UNCHANGED <<job, row, cancelPc, matched, claimed, late>>

(* ... and apply the plan, if there is one and all its guards hold.        *)
ApplyPlan(h) ==
  /\ At(h, "apply")
  /\ \E when \in Conditions, items \in ItemChoices :
       LET f == snap[h]
           g == Run(f, when, items)
       IN /\ GuardsHold(f, g)
          /\ row' = [r \in Rows |-> IF r \in Changes(f, g) THEN g[r] ELSE row[r]]
          /\ job' = IF StartsLoop(f, g) /\ job = "pending" THEN "running" ELSE job
  /\ snap' = [snap EXCEPT ![h] = NoRows]
  /\ Goto(h, "decide")
  /\ UNCHANGED <<cancelPc, matched, claimed, late>>

(* A guard misses: roll back, and run again from a fresh snapshot.         *)
GuardMiss(h) ==
  /\ At(h, "apply") /\ handler[h].attempt < MaxAttempts
  /\ \E when \in Conditions, items \in ItemChoices :
       ~GuardsHold(snap[h], Run(snap[h], when, items))
  /\ snap' = [snap EXCEPT ![h] = NoRows]
  /\ handler' = [handler EXCEPT ![h].pc = "snapshot", ![h].attempt = @ + 1]
  /\ UNCHANGED <<job, row, cancelPc, matched, claimed, late>>

(* The last attempt misses: execute returns an error and the advance ends; *)
(* creation compensates by failing the job and its steps.                  *)
Exhausted(h) ==
  /\ At(h, "apply") /\ handler[h].attempt = MaxAttempts
  /\ \E when \in Conditions, items \in ItemChoices :
       ~GuardsHold(snap[h], Run(snap[h], when, items))
  /\ snap' = [snap EXCEPT ![h] = NoRows]
  /\ Return(h)
  /\ IF h = Creator
     THEN /\ job' = "failed"
          /\ row' = [r \in Rows |-> IF r \in Present /\ ~Done(row, r)
                                    THEN Cell("failed") ELSE row[r]]
     ELSE UNCHANGED <<job, row>>
  /\ UNCHANGED <<cancelPc, matched, claimed, late>>

(* Mutant: steps that are still pending do not keep the job open. *)
DecideUnlessActive(h) ==
  /\ At(h, "decide")
  /\ IF \A r \in Rows : row[r].status \notin {"ready", "running"}
     THEN handler' = [handler EXCEPT ![h].pc = "settle", ![h].outcome = Outcome]
     ELSE Return(h)
  /\ UNCHANGED <<job, row, snap, cancelPc, matched, claimed, late>>

(* settle_if_all_terminal reads the rows again ... *)
Decide(h) ==
  /\ At(h, "decide")
  /\ IF AllDone
     THEN handler' = [handler EXCEPT ![h].pc = "settle", ![h].outcome = Outcome]
     ELSE Return(h)
  /\ UNCHANGED <<job, row, snap, cancelPc, matched, claimed, late>>

(* ... and JobRepo::settle writes a job that is still live. *)
SettleJob(h) ==
  /\ At(h, "settle")
  /\ job' = IF job \in Live THEN handler[h].outcome ELSE job
  /\ Return(h)
  /\ UNCHANGED <<row, snap, cancelPc, matched, claimed, late>>

-----------------------------------------------------------------------------
(***************************************************************************)
(* Settlement::cancel.  cancel_pending_steps is one UPDATE: the rows it    *)
(* matches are those of its snapshot, written if they still match when     *)
(* their lock is had (READ COMMITTED), so a row inserted by a transaction  *)
(* that commits in between is not seen.                                    *)
(***************************************************************************)
Unclaimed(r) == row[r].status \in {"pending", "ready"}

CancelJob ==
  /\ cancelPc = "idle" /\ job \in Live
  /\ job' = "cancelled"
  /\ cancelPc' = "stamped"
  /\ UNCHANGED <<row, handler, snap, matched, claimed, late>>

CancelMatches ==
  /\ cancelPc = "stamped"
  /\ matched' = {r \in Rows : Unclaimed(r)}
  /\ cancelPc' = "matched"
  /\ UNCHANGED <<job, row, handler, snap, claimed, late>>

(* Mutant: steps still waiting for their dependencies are left alone. *)
CancelReadySteps ==
  /\ cancelPc = "matched"
  /\ row' = [r \in Rows |-> IF r \in matched /\ row[r].status = "ready" THEN Cell("cancelled")
                                                                       ELSE row[r]]
  /\ cancelPc' = "swept"
  /\ UNCHANGED <<job, handler, snap, matched, claimed, late>>

CancelPendingSteps ==
  /\ cancelPc = "matched"
  /\ row' = [r \in Rows |-> IF r \in matched /\ Unclaimed(r) THEN Cell("cancelled")
                                                            ELSE row[r]]
  /\ cancelPc' = "swept"
  /\ UNCHANGED <<job, handler, snap, matched, claimed, late>>

(* cancel_server_managed_steps: running rows without a worker. *)
CancelServerManaged ==
  /\ cancelPc = "swept"
  /\ row' = [r \in Rows |-> IF r \in Placeholders /\ row[r].status = "running"
                            THEN Cell("cancelled") ELSE row[r]]
  /\ cancelPc' = "done"
  /\ UNCHANGED <<job, handler, snap, matched, claimed, late>>

-----------------------------------------------------------------------------
HandlerStep(h) ==
  \/ ReadJob(h) \/ TakeSnapshot(h) \/ ApplyPlan(h) \/ GuardMiss(h)
  \/ Exhausted(h) \/ Decide(h) \/ SettleJob(h)

CancelStep ==
  CancelJob \/ CancelMatches \/ CancelPendingSteps \/ CancelServerManaged

Progress ==
  \/ \E r \in Rows : StartRow(r)
  \/ \E h \in Handlers, r \in Rows, result \in Results : ReportRow(h, r, result)
  \/ \E r \in Rows : RetryRow(r)
  \/ \E h \in Handlers : HandlerStep(h)

LateStep ==
  \E h \in Handlers, r \in Rows, st \in {"running", "completed", "failed", "ready"} :
    LateReport(h, r, st)

Next == Progress \/ CancelStep \/ LateStep

Spec == Init /\ [][Next]_vars

-----------------------------------------------------------------------------
(***************************************************************************)
(* Properties                                                              *)
(***************************************************************************)

(* Rows, handlers and the cancel hold values of their kind. *)
TypeOK ==
  /\ job \in Live \cup {"completed", "failed", "cancelled"}
  /\ row \in RowState
  /\ handler \in [Handlers ->
       [pc : {"idle", "read", "snapshot", "apply", "decide", "settle"},
        attempt : 0 .. MaxAttempts,
        outcome : {"none", "completed", "failed", "cancelled"}]]
  /\ snap \in [Handlers -> RowState]
  /\ cancelPc \in {"idle", "stamped", "matched", "swept", "done"}
  /\ matched \subseteq Rows /\ claimed \subseteq Rows
  /\ late \in 0 .. MaxLate

(* A late report undoes what was derived from the row it overwrites: the   *)
(* properties of the cascade itself speak of runs without one. *)
InTime == late = 0

(* A plan computed from a stale snapshot never opens or closes a gate      *)
(* wrongly: a step that was let through, or skipped by its own condition,  *)
(* has an open gate in the rows as they are now, and a step skipped as     *)
(* unreachable a blocked one.                                              *)
GateRespected ==
  InTime => \A s \in FlowSteps :
    /\ (\/ row[s].status \in {"ready", "running", "completed"}
        \/ row[s].reason \in {"condition", "empty"})
         => GateFor(row, s) = "open"
    /\ row[s].reason = "unreachable" => GateFor(row, s) = "omitted"

(* No wake-up is lost and no job is stuck: when no advance is in progress, *)
(* a live job has nothing left to promote, skip, expand or roll up, and    *)
(* some step is still to run, whose report will start the next advance.    *)
(* This although an advance that runs out of attempts just gives up.       *)
NoLostWakeup ==
  (InTime /\ job \in Live /\ \A h \in Handlers : At(h, "idle")) =>
    /\ \E r \in Rows \ Placeholders : row[r].status \in {"ready", "running"}
    /\ \A when \in Conditions, items \in ItemChoices : Pass(row, when, items) = row

(* A job that is settled completed or failed has no row left to run, and   *)
(* completed means that no failure and no cancellation went untolerated.   *)
SettledIsExact ==
  InTime =>
    /\ job \in {"completed", "failed"} => AllDone
    /\ job = "completed" => Outcome = "completed"

(* A sequential loop runs one instance at a time, in order, and stops at a *)
(* failed one unless it is tolerated.                                      *)
LoopOrder ==
  InTime => \A r, q \in Instances :
    (r[1] = q[1] /\ r[1] \in Sequential /\ r[2] < q[2]
       /\ row[q].status \in {"ready", "running", "completed"}) =>
      /\ Done(row, r)
      /\ r[1] \notin Tolerated => row[r].status = "completed"

(* A loop is rolled up from all its instances: concurrent advances never   *)
(* complete or fail it while one of them can still run, nor complete it    *)
(* over a failed one.                                                      *)
RollupExact ==
  InTime => \A p \in Placeholders :
    (row[p].status \in {"completed", "failed"} /\ InstancesOf(row, p) # {}) =>
      /\ \A r \in InstancesOf(row, p) : Done(row, r)
      /\ row[p].status = "completed" =>
           \A r \in InstancesOf(row, p) : row[r].status # "failed"

(* What Settlement::cancel leaves for a worker to claim once its UPDATE of *)
(* the pending and ready steps is through, whatever advances and reports   *)
(* run beside it, late ones too: an instance that an expansion inserted    *)
(* behind the UPDATE's snapshot, or a row that fail_or_retry made ready    *)
(* again, without a look at the job.  Every other row is swept, and no     *)
(* advance with an older snapshot makes it claimable again.                *)
CancelLeavesOnly ==
  cancelPc \in {"swept", "done"} =>
    \A r \in Rows : Unclaimed(r) =>
      \/ r \in Instances \ matched
      \/ FlowStepOf(r) \in Retried /\ row[r].status = "ready"

(* Settlement::cancel: "Cancel all pending/ready steps".  No row is left   *)
(* for a worker to claim once the cancel is through.                       *)
CancelSweepsAll ==
  cancelPc = "done" => \A r \in Rows : row[r].status \notin {"pending", "ready"}
=============================================================================
