----------------------------- MODULE StepClaim -----------------------------
(***************************************************************************)
(* The life of the worker-run steps of one job: claim, release, start,     *)
(* completion and failure reports, step retry, recovery sweep and cancel.  *)
(*                                                                         *)
(* Processes: the workers (crates/stroem-worker/src/poller.rs), the worker *)
(* API handlers (web/worker_api/jobs.rs), the recovery sweep of the leader *)
(* (recovery.rs) and Settlement::cancel.  They meet only in the rows of    *)
(* job_step and job, one statement or transaction at a time.  Workers and  *)
(* servers may crash; a request may arrive late, and one that is never     *)
(* served is a lost one (no fairness on claiming and net).                 *)
(*                                                                         *)
(* The steps have no dependencies: they are created 'ready', so no cascade *)
(* writes them.  Of the advance that follows a settled step only the       *)
(* settlement of the job row is here (Decide, Settle); drain gate and      *)
(* terminal handling are the subject of module Settlement.                 *)
(***************************************************************************)
EXTENDS StepRow, FiniteSets

CONSTANTS
  Steps, Workers,
  MaxRetries,         \* [Steps -> Nat], job_step.max_retries
  MaxPinReleases,     \* MAX_PIN_RELEASES
  HasTimeout,         \* [Steps -> BOOLEAN], job_step.timeout_secs IS NOT NULL
  MaxWorkerCrashes,   \* bound: worker processes that may die
  MaxServerCrashes,   \* bound: server processes that may die
  MaxMisses           \* bound: live workers the sweep may find silent

ASSUME NoWorkerAssumption == NoWorker \notin Workers
ASSUME MaxRetriesAssumption == MaxRetries \in [Steps -> Nat]
ASSUME ReleaseAssumption == MaxPinReleases \in Nat
ASSUME TimeoutAssumption == HasTimeout \in [Steps -> BOOLEAN]
ASSUME BoundAssumption ==
  MaxWorkerCrashes \in Nat /\ MaxServerCrashes \in Nat /\ MaxMisses \in Nat

VARIABLES
  jobStatus,   \* job.status
  row,         \* job_step, one row per step
  clock,       \* the last stamp written as NOW()
  owner,       \* history: the stamp of the latest claim of each step
  claiming,    \* claims made whose handler has not answered yet
  execs,       \* executions on the workers
  net,         \* requests of the workers in flight
  up,          \* worker processes alive
  active,      \* worker.status = 'active'
  stale,       \* workers marked inactive whose steps are still to be read
  swept,       \* claims the sweep selected and has still to fail
  unmatched,   \* ready steps the sweep selected and has still to fail
  cancelPc,    \* "idle", "stamped" (job row written) or "done"
  decided,     \* outcomes some advance decided and has still to write
  spent        \* faults used up: [worker, server, miss]

rowVars == <<row, clock, owner>>
workerVars == <<execs, net, up>>
sweepVars == <<active, stale, swept, unmatched>>
jobVars == <<jobStatus, cancelPc, decided>>
vars == <<jobStatus, row, clock, owner, claiming, execs, net, up, active,
          stale, swept, unmatched, cancelPc, decided, spent>>

(* ClaimIdentity plus the step it was taken on. *)
Claim == [step : Steps, worker : Workers, startedAt : Nat]

(* A claim the sweep read, with the run that owned the step at that time. *)
SweptClaim == [step : Steps, worker : Workers, startedAt : Nat, run : Nat]

(* An execution is named by the stamp of the claim that started it. *)
Exec == [step : Steps, worker : Workers, run : Nat,
         pc : {"fetching", "starting", "executing"}]

(* report_step_start and report_step_complete carry no claim identity:     *)
(* run is there only to tell two requests apart.  "started" is the answer  *)
(* to "start"; nothing is done with the answers to the other two.          *)
Request == [type : {"start", "started", "completed", "failed"},
            step : Steps, worker : Workers, run : Nat]

Req(t, e) == [type |-> t, step |-> e.step, worker |-> e.worker, run |-> e.run]

(* The outcome settle::decide reaches from rows that are all terminal.     *)
Outcome ==
  IF \E s \in Steps : row[s].status = "failed" THEN "failed"
  ELSE IF \E s \in Steps : row[s].status = "cancelled" THEN "cancelled"
  ELSE "completed"

AllTerminal == \A s \in Steps : row[s].status \in Terminal

Init ==
  /\ jobStatus = "pending"
  /\ row = [s \in Steps |-> NewRow("ready")]
  /\ clock = 0
  /\ owner = [s \in Steps |-> Null]
  /\ claiming = {} /\ execs = {} /\ net = {}
  /\ up = [w \in Workers |-> TRUE]
  /\ active = [w \in Workers |-> TRUE]
  /\ stale = {} /\ swept = {} /\ unmatched = {}
  /\ cancelPc = "idle"
  /\ decided = {}
  /\ spent = [worker |-> 0, server |-> 0, miss |-> 0]

-----------------------------------------------------------------------------
(***************************************************************************)
(* Claim handler: claim_job                                                *)
(***************************************************************************)

(* claim_ready_step; the job row is not looked at. *)
ClaimJob(w, s) ==
  /\ up[w]
  /\ Claimable(row[s])
  /\ clock' = clock + 1
  /\ row' = [row EXCEPT ![s] = ClaimReady(@, w, clock + 1)]
  /\ owner' = [owner EXCEPT ![s] = clock + 1]
  /\ claiming' = claiming \cup {[step |-> s, worker |-> w, startedAt |-> clock + 1]}
  /\ UNCHANGED <<workerVars, sweepVars, jobVars, spent>>

(* The handler answers with the rendered step; the worker spawns           *)
(* execute_claimed_step.                                                   *)
AnswerClaim(c) ==
  /\ c \in claiming
  /\ claiming' = claiming \ {c}
  /\ up[c.worker]
  /\ execs' = execs \cup {[step |-> c.step, worker |-> c.worker,
                           run |-> c.startedAt, pc |-> "fetching"]}
  /\ UNCHANGED <<rowVars, net, up, sweepVars, jobVars, spent>>

(* claimed_step_failed: fail_or_retry with expected = [Running] and the    *)
(* claim, so it applies only to the claim it was decided on.               *)
ClaimedStepFailed(c) ==
  row' = IF HoldsClaim(row[c.step], c)
         THEN [row EXCEPT ![c.step] = FailOrRetry(@, MaxRetries[c.step])]
         ELSE row

(* fail_claimed_step: the step cannot be rendered, or a pin is gone.       *)
FailClaim(c) ==
  /\ c \in claiming
  /\ claiming' = claiming \ {c}
  /\ ClaimedStepFailed(c)
  /\ UNCHANGED <<clock, owner, workerVars, sweepVars, jobVars, spent>>

(* Mutant: the release does not look at the job. *)
ReleaseAnyJob(c) ==
  LET r == row[c.step] IN
  CASE ~HoldsClaim(r, c) -> row' = row
    [] HoldsClaim(r, c) /\ r.pinReleases + 1 > MaxPinReleases -> ClaimedStepFailed(c)
    [] OTHER -> row' = [row EXCEPT ![c.step] = ReleaseToReady(@)]

(* release_claim: one transaction that locks the job row, then the step.   *)
(* The CapReached arm only reports the cap; release_or_fail_claim then     *)
(* runs fail_claimed_step on the same claim.  The two are one step here:   *)
(* FailClaim, which is always possible on c, has the late outcomes too.    *)
ReleaseClaim(c) ==
  LET r == row[c.step] IN
  CASE ~HoldsClaim(r, c) -> row' = row
    [] HoldsClaim(r, c) /\ jobStatus \notin Live ->
         row' = [s \in Steps |->
                   IF s = c.step THEN [r EXCEPT !.status = "cancelled"]
                                 ELSE CancelPending(row[s])]
    [] HoldsClaim(r, c) /\ jobStatus \in Live /\ r.pinReleases + 1 > MaxPinReleases ->
         ClaimedStepFailed(c)
    [] OTHER -> row' = [row EXCEPT ![c.step] = ReleaseToReady(@)]

(* release_or_fail_claim: a transient failure of the claim handler. *)
ReleaseOrFailClaim(c) ==
  /\ c \in claiming
  /\ claiming' = claiming \ {c}
  /\ ReleaseClaim(c)
  /\ UNCHANGED <<clock, owner, workerVars, sweepVars, jobVars, spent>>

-----------------------------------------------------------------------------
(***************************************************************************)
(* Worker: execute_claimed_step                                            *)
(***************************************************************************)

(* The workspace or an input file cannot be downloaded. *)
FetchFails(e) ==
  /\ e \in execs /\ e.pc = "fetching"
  /\ execs' = execs \ {e}
  /\ net' = net \cup {Req("failed", e)}
  /\ UNCHANGED <<rowVars, claiming, up, sweepVars, jobVars, spent>>

SendStart(e) ==
  /\ e \in execs /\ e.pc = "fetching"
  /\ execs' = (execs \ {e}) \cup {[e EXCEPT !.pc = "starting"]}
  /\ net' = net \cup {Req("start", e)}
  /\ UNCHANGED <<rowVars, claiming, up, sweepVars, jobVars, spent>>

StartAnswered(e) ==
  /\ e \in execs /\ e.pc = "starting"
  /\ Req("started", e) \in net
  /\ net' = net \ {Req("started", e)}
  /\ execs' = (execs \ {e}) \cup {[e EXCEPT !.pc = "executing"]}
  /\ UNCHANGED <<rowVars, claiming, up, sweepVars, jobVars, spent>>

(* The start request fails or times out on the worker; it may still be on  *)
(* its way.  The worker reports the step failed and gives it up.           *)
StartErrs(e) ==
  /\ e \in execs /\ e.pc = "starting"
  /\ execs' = execs \ {e}
  /\ net' = (net \ {Req("started", e)}) \cup {Req("failed", e)}
  /\ UNCHANGED <<rowVars, claiming, up, sweepVars, jobVars, spent>>

(* The runner returns: exit code 0, or anything else (a kill included).    *)
Finish(e, result) ==
  /\ e \in execs /\ e.pc = "executing"
  /\ execs' = execs \ {e}
  /\ net' = net \cup {Req(result, e)}
  /\ UNCHANGED <<rowVars, claiming, up, sweepVars, jobVars, spent>>

(* The process dies with its executions; its requests may be on their way. *)
WorkerCrash(w) ==
  /\ up[w]
  /\ spent.worker < MaxWorkerCrashes
  /\ spent' = [spent EXCEPT !.worker = @ + 1]
  /\ up' = [up EXCEPT ![w] = FALSE]
  /\ execs' = {e \in execs : e.worker # w}
  /\ net' = {m \in net : ~(m.type = "started" /\ m.worker = w)}
  /\ UNCHANGED <<rowVars, claiming, sweepVars, jobVars>>

-----------------------------------------------------------------------------
(***************************************************************************)
(* Report handlers: start_step, complete_step                              *)
(***************************************************************************)

StartStep(m) ==
  /\ m \in net /\ m.type = "start"
  /\ net' = (net \ {m}) \cup
              {Req("started", e) : e \in {f \in execs : f.pc = "starting"
                                             /\ f.step = m.step /\ f.run = m.run}}
  /\ clock' = clock + 1
  /\ row' = [row EXCEPT ![m.step] = MarkRunning(@, m.worker, clock + 1)]
  /\ jobStatus' = IF jobStatus = "pending" THEN "running" ELSE jobStatus
  /\ UNCHANGED <<owner, claiming, execs, up, sweepVars, cancelPc, decided, spent>>

(* A success report overwrites the row; a failure report goes through      *)
(* fail_or_retry with expected = [] and no claim.                          *)
CompleteStep(m) ==
  /\ m \in net /\ m.type \in {"completed", "failed"}
  /\ net' = net \ {m}
  /\ row' = [row EXCEPT ![m.step] =
               IF m.type = "completed" THEN MarkCompleted(@)
                                       ELSE FailOrRetry(@, MaxRetries[m.step])]
  /\ UNCHANGED <<clock, owner, claiming, execs, up, sweepVars, jobVars, spent>>

-----------------------------------------------------------------------------
(***************************************************************************)
(* Recovery sweep on the leader                                            *)
(***************************************************************************)

Heartbeat(w) ==
  /\ up[w] /\ ~active[w]
  /\ active' = [active EXCEPT ![w] = TRUE]
  /\ UNCHANGED <<rowVars, claiming, workerVars, stale, swept, unmatched, jobVars, spent>>

(* Phase 1: a worker that is dead, or whose heartbeats did not get         *)
(* through, is marked inactive.  Only workers this statement changed are   *)
(* returned.                                                               *)
MarkStaleInactive(w) ==
  /\ active[w]
  /\ up[w] => spent.miss < MaxMisses
  /\ spent' = IF up[w] THEN [spent EXCEPT !.miss = @ + 1] ELSE spent
  /\ active' = [active EXCEPT ![w] = FALSE]
  /\ stale' = stale \cup {w}
  /\ UNCHANGED <<rowVars, claiming, workerVars, swept, unmatched, jobVars>>

(* The claim a sweep reads off a running row. *)
ReadClaim(s) ==
  [step |-> s, worker |-> row[s].worker, startedAt |-> row[s].startedAt,
   run |-> owner[s]]

(* get_running_steps_for_workers, a second statement. *)
SelectStaleSteps(w) ==
  /\ w \in stale
  /\ stale' = stale \ {w}
  /\ swept' = swept \cup {ReadClaim(s) : s \in
                {t \in Steps : row[t].status = "running" /\ row[t].worker = w}}
  /\ UNCHANGED <<rowVars, claiming, workerVars, active, unmatched, jobVars, spent>>

(* Mutant: the deadline is checked in any status. *)
SelectTimedOutAnyStatus(s) ==
  /\ HasTimeout[s]
  /\ ReadClaim(s) \notin swept
  /\ swept' = swept \cup {ReadClaim(s)}
  /\ UNCHANGED <<rowVars, claiming, workerVars, active, stale, unmatched, jobVars, spent>>

(* Phase 2, get_timed_out_steps: the deadline of the running claim passed. *)
SelectTimedOut(s) ==
  /\ HasTimeout[s] /\ row[s].status = "running"
  /\ ReadClaim(s) \notin swept
  /\ swept' = swept \cup {ReadClaim(s)}
  /\ UNCHANGED <<rowVars, claiming, workerVars, active, stale, unmatched, jobVars, spent>>

(* Mutant: the steps of a job that is over are left alone. *)
FailSweptOfLiveJob(c) ==
  /\ c \in swept
  /\ swept' = swept \ {c}
  /\ IF jobStatus \in Live THEN ClaimedStepFailed(c) ELSE row' = row
  /\ UNCHANGED <<clock, owner, claiming, workerVars, active, stale, unmatched, jobVars, spent>>

(* Phases 1 and 2 fail what they selected, claim by claim. *)
FailSwept(c) ==
  /\ c \in swept
  /\ swept' = swept \ {c}
  /\ ClaimedStepFailed(c)
  /\ UNCHANGED <<clock, owner, claiming, workerVars, active, stale, unmatched, jobVars, spent>>

(* Phase 4, get_unmatched_ready_steps: no active worker can take the step. *)
SelectUnmatched(s) ==
  /\ row[s].status = "ready"
  /\ \A w \in Workers : ~active[w]
  /\ s \notin unmatched
  /\ unmatched' = unmatched \cup {s}
  /\ UNCHANGED <<rowVars, claiming, workerVars, active, stale, swept, jobVars, spent>>

(* ... and step_failed with expected = [] and no claim. *)
FailUnmatched(s) ==
  /\ s \in unmatched
  /\ unmatched' = unmatched \ {s}
  /\ row' = [row EXCEPT ![s] = FailOrRetry(@, MaxRetries[s])]
  /\ UNCHANGED <<clock, owner, claiming, workerVars, active, stale, swept, jobVars, spent>>

-----------------------------------------------------------------------------
(***************************************************************************)
(* Cancel and settlement of the job row                                    *)
(***************************************************************************)

CancelJob ==
  /\ cancelPc = "idle" /\ jobStatus \in Live
  /\ jobStatus' = "cancelled"
  /\ cancelPc' = "stamped"
  /\ UNCHANGED <<rowVars, claiming, workerVars, sweepVars, decided, spent>>

CancelSteps ==
  /\ cancelPc = "stamped"
  /\ row' = [s \in Steps |-> CancelPending(row[s])]
  /\ cancelPc' = "done"
  /\ UNCHANGED <<clock, owner, claiming, workerVars, sweepVars, jobStatus, decided, spent>>

(* settle_if_all_terminal reads the rows in an advance that found the job  *)
(* live ...                                                                *)
Decide ==
  /\ jobStatus \in Live
  /\ AllTerminal
  /\ Outcome \notin decided
  /\ decided' = decided \cup {Outcome}
  /\ UNCHANGED <<rowVars, claiming, workerVars, sweepVars, jobStatus, cancelPc, spent>>

(* Mutant: the decided outcome is written whatever the job row holds. *)
SettleUnguarded(o) ==
  /\ o \in decided
  /\ decided' = decided \ {o}
  /\ jobStatus' = o
  /\ UNCHANGED <<rowVars, claiming, workerVars, sweepVars, cancelPc, spent>>

(* ... and JobRepo::settle writes the job row only if it is still live.    *)
Settle(o) ==
  /\ o \in decided
  /\ decided' = decided \ {o}
  /\ jobStatus' = IF jobStatus \in Live THEN o ELSE jobStatus
  /\ UNCHANGED <<rowVars, claiming, workerVars, sweepVars, cancelPc, spent>>

(* A server dies: handlers, sweep and advances in progress are gone.       *)
ServerCrash ==
  /\ spent.server < MaxServerCrashes
  /\ spent' = [spent EXCEPT !.server = @ + 1]
  /\ claiming' = {} /\ stale' = {} /\ swept' = {} /\ unmatched' = {}
  /\ decided' = {}
  /\ UNCHANGED <<rowVars, workerVars, active, jobStatus>>
  /\ cancelPc' = IF cancelPc = "stamped" THEN "idle" ELSE cancelPc

-----------------------------------------------------------------------------
ClaimStep ==
  \/ \E w \in Workers, s \in Steps : ClaimJob(w, s)
  \/ \E c \in claiming : AnswerClaim(c) \/ FailClaim(c) \/ ReleaseOrFailClaim(c)

ExecStep ==
  \E e \in execs : \/ FetchFails(e) \/ SendStart(e)
                   \/ StartAnswered(e) \/ StartErrs(e)
                   \/ \E result \in {"completed", "failed"} : Finish(e, result)

ReportStep == \E m \in net : StartStep(m) \/ CompleteStep(m)

SweepStep ==
  \/ \E w \in Workers : MarkStaleInactive(w) \/ SelectStaleSteps(w)
  \/ \E s \in Steps : SelectTimedOut(s) \/ SelectUnmatched(s) \/ FailUnmatched(s)
  \/ \E c \in swept : FailSwept(c)

JobStep ==
  \/ CancelJob \/ CancelSteps \/ Decide
  \/ \E o \in decided : Settle(o)

Fault ==
  \/ ServerCrash
  \/ \E w \in Workers : WorkerCrash(w)

Next ==
  \/ ClaimStep \/ ExecStep \/ ReportStep \/ SweepStep \/ JobStep \/ Fault
  \/ \E w \in Workers : Heartbeat(w)

Spec == Init /\ [][Next]_vars

(***************************************************************************)
(* Fairness.  Polling workers, their executions (the runner is killed at   *)
(* its timeout), the periodic sweep and a cancel handler keep running.     *)
(* Nothing is assumed of faults, of the delivery of requests and of the    *)
(* answers to claims.                                                      *)
(***************************************************************************)
Fairness ==
  /\ \A s \in Steps :
       /\ WF_vars(\E w \in Workers : ClaimJob(w, s))
       /\ WF_vars(SelectTimedOut(s))
       /\ WF_vars(SelectUnmatched(s))
       /\ WF_vars(FailUnmatched(s))
       /\ WF_vars(\E c \in swept : c.step = s /\ FailSwept(c))
  /\ \A w \in Workers :
       /\ WF_vars(~up[w] /\ MarkStaleInactive(w))
       /\ WF_vars(SelectStaleSteps(w))
       /\ WF_vars(\E e \in execs : e.worker = w /\
                     (SendStart(e) \/ StartAnswered(e) \/ StartErrs(e)
                      \/ \E result \in {"completed", "failed"} : Finish(e, result)))
  /\ WF_vars(CancelSteps)

FairSpec == Spec /\ Fairness

-----------------------------------------------------------------------------
(***************************************************************************)
(* Properties                                                              *)
(***************************************************************************)

(* Every variable holds a value of its table, set or queue. *)
TypeOK ==
  /\ jobStatus \in JobStatus
  /\ row \in [Steps -> RowOf(Workers)]
  /\ clock \in Nat
  /\ owner \in [Steps -> Nat]
  /\ claiming \subseteq Claim
  /\ execs \subseteq Exec
  /\ net \subseteq Request
  /\ up \in [Workers -> BOOLEAN]
  /\ active \in [Workers -> BOOLEAN]
  /\ stale \subseteq Workers
  /\ swept \subseteq SweptClaim
  /\ unmatched \subseteq Steps
  /\ cancelPc \in {"idle", "stamped", "done"}
  /\ decided \subseteq {"completed", "failed", "cancelled"}
  /\ spent \in [worker : Nat, server : Nat, miss : Nat]

(* The retry and release counters stay within their limits whatever mix of *)
(* duplicate reports, sweeps and claim failures fail_or_retry and          *)
(* release_claim see.                                                      *)
BudgetsKept ==
  \A s \in Steps : /\ row[s].retryAttempt <= MaxRetries[s]
                   /\ row[s].pinReleases <= MaxPinReleases

(* A ready row carries no claim, a running row carries one: every path     *)
(* back to ready clears worker_id and started_at, so no fence can match a  *)
(* row that nobody holds.                                                  *)
ClaimColumns ==
  \A s \in Steps :
    /\ row[s].status = "ready" => SameClaim(row[s], [worker |-> NoWorker, startedAt |-> Null])
    /\ row[s].status = "running" => row[s].worker \in Workers /\ row[s].startedAt \in 1..clock

(* The claim fence is exact.  A failure the sweep decided on, or a release *)
(* or failure of the claim handler, matches the row only while the step    *)
(* has not been claimed again since: never a later run, not even one of    *)
(* the same worker.                                                        *)
FenceExact ==
  /\ \A c \in swept : HoldsClaim(row[c.step], c) => c.run = owner[c.step]
  /\ \A c \in claiming : HoldsClaim(row[c.step], c) => c.startedAt = owner[c.step]

(* Once cancel has cancelled the unclaimed steps, a step is ready only by  *)
(* a step retry: a release that races the cancel never puts one back.      *)
NoReleaseAfterCancel ==
  cancelPc = "done" =>
    \A s \in Steps : row[s].status = "ready" => row[s].retryAttempt > 0

(* The job row never leaves a terminal status: a decided settlement loses  *)
(* to a cancel that was written first, and the other way round.            *)
JobStatusFinal == [][jobStatus \notin Live => jobStatus' = jobStatus]_vars

(* When every step has a timeout, every step becomes terminal and stays    *)
(* so, through lost requests, dead workers and a server crash: retries,    *)
(* releases and reports all run out.                                       *)
StepsTerminate == <>[]AllTerminal

(* Recovery documentation: "Running steps assigned to inactive workers are *)
(* failed."  A step running on a dead worker does not stay that way.       *)
DeadWorkersStepsFail ==
  \A s \in Steps, w \in Workers :
    (~up[w] /\ row[s].status = "running" /\ row[s].worker = w)
      ~> ~(row[s].status = "running" /\ row[s].worker = w)

(* Retry guide: "If the task timeout is exceeded, all remaining retries    *)
(* are cancelled."  After the job's cancel no step is ready again.         *)
NoRetryAfterCancel ==
  cancelPc = "done" => \A s \in Steps : row[s].status # "ready"
=============================================================================
