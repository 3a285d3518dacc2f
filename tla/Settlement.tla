----------------------------- MODULE Settlement -----------------------------
(***************************************************************************)
(* The end of one job: Settlement::advance and Settlement::cancel, run     *)
(* concurrently on several replicas of the server.                         *)
(*                                                                         *)
(* Every step that ends starts an advance on the replica its worker talks  *)
(* to; a cancel ends in one; for a pinned job the recovery sweep starts    *)
(* another.  An advance is a chain of database accesses (one action each): *)
(* read the job, resolve its flow, decide and settle, read the job again,  *)
(* drain gate, clear the cancel signal, claim the terminal handling, and   *)
(* perform the effects.  The steps have no dependencies (the cascade is in *)
(* module Cascade), and claims and reports are reduced to StartStep,       *)
(* ReportStep and KillStep (module StepClaim).                             *)
(***************************************************************************)
EXTENDS Naturals, Sequences

CONSTANTS
  Steps, Replicas,
  Canceller,      \* the request that cancels the job
  Sweeper,        \* the recovery sweep
  PollsAt,        \* [Steps -> Replicas]: the replica the step's worker talks to
  StepRetries,    \* [Steps -> Nat], job_step.max_retries
  IsChild,        \* parent_job_id and parent_step_name are set
  JobRetry,       \* job.retry_attempt < job.max_retries
  Pinned,         \* job.git_ref IS NOT NULL
  Resolutions,    \* what resolve may find: "ok", "none" or "permanent"
  Faults,         \* the accesses that may fail
  MaxCrashes      \* bound: replicas that may die

FaultKinds == {"request", "drain", "claim", "propagate", "retry", "delay", "notify"}

Handlers == Steps \cup {Canceller, Sweeper}

ASSUME HandlerAssumption ==
  Canceller \notin Steps /\ Sweeper \notin Steps /\ Canceller # Sweeper
ASSUME StepAssumption ==
  PollsAt \in [Steps -> Replicas] /\ StepRetries \in [Steps -> Nat]
ASSUME JobAssumption ==
  IsChild \in BOOLEAN /\ JobRetry \in BOOLEAN /\ Pinned \in BOOLEAN
ASSUME EnvironmentAssumption ==
  /\ Resolutions \subseteq {"ok", "none", "permanent"}
  /\ Faults \subseteq FaultKinds /\ MaxCrashes \in Nat

VARIABLES
  job,         \* job.status
  step,        \* job_step.status
  attempt,     \* job_step.retry_attempt
  recorded,    \* job.metrics_recorded_at IS NOT NULL
  handler,     \* the requests in progress: [pc, at, seen, flow]
  signal,      \* replicas whose cancelled_jobs holds the job
  notices,     \* replicas a stroem_job_cancelled NOTIFY is on its way to
  done,        \* the side effects performed, in order
  crashes

vars == <<job, step, attempt, recorded, handler, signal, notices, done, crashes>>
stepVars == <<step, attempt>>
signalVars == <<signal, notices>>

Live == {"pending", "running"}
Final == {"completed", "failed", "cancelled"}

Pcs == {"idle", "stamped", "swept", "signal", "read", "resolve", "decide",
        "settle", "reread", "drain", "clear", "claim", "propagate", "retry",
        "delay", "hooks", "archive"}

(* A request: where it is, its replica, the job status (or the outcome it  *)
(* decided) it goes by, and whether resolve gave it the flow.              *)
Handler == [pc : Pcs, at : Replicas \cup {"none"},
            seen : Live \cup Final, flow : BOOLEAN]

Idle == [pc |-> "idle", at |-> "none", seen |-> "pending", flow |-> FALSE]
Advance(r) == [pc |-> "read", at |-> r, seen |-> "pending", flow |-> FALSE]

At(h, pc) == handler[h].pc = pc
Goto(h, pc) == handler' = [handler EXCEPT ![h].pc = pc]
Return(h) == handler' = [handler EXCEPT ![h] = Idle]

AllTerminal == \A s \in Steps : step[s] \in Final
SomeRunning == \E s \in Steps : step[s] = "running"
CancelUnclaimed == [s \in Steps |-> IF step[s] = "ready" THEN "cancelled" ELSE step[s]]

(* settle::decide on terminal rows. *)
Outcome ==
  IF \E s \in Steps : step[s] = "failed" THEN "failed"
  ELSE IF \E s \in Steps : step[s] = "cancelled" THEN "cancelled"
  ELSE "completed"

Init ==
  /\ job = "pending"
  /\ step = [s \in Steps |-> "ready"]
  /\ attempt = [s \in Steps |-> 0]
  /\ recorded = FALSE
  /\ handler = [h \in Handlers |-> Idle]
  /\ signal = {} /\ notices = {}
  /\ done = <<>>
  /\ crashes = 0

-----------------------------------------------------------------------------
(***************************************************************************)
(* The worker side                                                         *)
(***************************************************************************)

StartStep(s) ==
  /\ step[s] = "ready"
  /\ step' = [step EXCEPT ![s] = "running"]
  /\ job' = IF job = "pending" THEN "running" ELSE job
  /\ UNCHANGED <<attempt, recorded, handler, signalVars, done, crashes>>

(* Mutant: a failure report of a job that is over does not advance it. *)
StepFailedQuiet(s) ==
  IF attempt[s] < StepRetries[s]
  THEN /\ step' = [step EXCEPT ![s] = "ready"]
       /\ attempt' = [attempt EXCEPT ![s] = @ + 1]
       /\ UNCHANGED handler
  ELSE /\ step' = [step EXCEPT ![s] = "failed"]
       /\ handler' = IF job \in Live THEN [handler EXCEPT ![s] = Advance(PollsAt[s])]
                                     ELSE handler
       /\ UNCHANGED attempt

(* step_failed: a scheduled retry does not advance the job. *)
StepFailed(s) ==
  IF attempt[s] < StepRetries[s]
  THEN /\ step' = [step EXCEPT ![s] = "ready"]
       /\ attempt' = [attempt EXCEPT ![s] = @ + 1]
       /\ UNCHANGED handler
  ELSE /\ step' = [step EXCEPT ![s] = "failed"]
       /\ handler' = [handler EXCEPT ![s] = Advance(PollsAt[s])]
       /\ UNCHANGED attempt

ReportStep(s) ==
  /\ step[s] = "running"
  /\ \/ /\ step' = [step EXCEPT ![s] = "completed"]
        /\ handler' = [handler EXCEPT ![s] = Advance(PollsAt[s])]
        /\ UNCHANGED attempt
     \/ StepFailed(s)
  /\ UNCHANGED <<job, recorded, signalVars, done, crashes>>

(* The worker's cancel check is answered from the set of the replica it    *)
(* asks; the runner is killed and the step reported failed.                *)
KillStep(s) ==
  /\ step[s] = "running" /\ PollsAt[s] \in signal
  /\ StepFailed(s)
  /\ UNCHANGED <<job, recorded, signalVars, done, crashes>>

-----------------------------------------------------------------------------
(***************************************************************************)
(* advance: to the terminal status                                         *)
(***************************************************************************)

ReadJob(h) ==
  /\ At(h, "read")
  /\ handler' = [handler EXCEPT ![h].pc = "resolve", ![h].seen = job]
  /\ UNCHANGED <<job, stepVars, recorded, signalVars, done, crashes>>

(* resolve found the flow: a live job is executed. *)
ResolveOk(h) ==
  /\ At(h, "resolve") /\ "ok" \in Resolutions
  /\ handler' = [handler EXCEPT ![h].flow = TRUE,
                   ![h].pc = IF handler[h].seen \in Live THEN "decide" ELSE "reread"]
  /\ UNCHANGED <<job, stepVars, recorded, signalVars, done, crashes>>

(* Workspace or task gone, or a pin that cannot be loaded yet. *)
ResolveNone(h) ==
  /\ At(h, "resolve") /\ "none" \in Resolutions
  /\ Goto(h, "reread")
  /\ UNCHANGED <<job, stepVars, recorded, signalVars, done, crashes>>

(* pin_unavailable: a pin that can never be loaded settles a live job, and *)
(* cancels its unclaimed steps in the same transaction.                    *)
PinUnavailable(h) ==
  /\ At(h, "resolve") /\ "permanent" \in Resolutions /\ Pinned
  /\ IF handler[h].seen \in Live /\ job \in Live
     THEN job' = "failed" /\ step' = CancelUnclaimed
     ELSE UNCHANGED <<job, step>>
  /\ Goto(h, "reread")
  /\ UNCHANGED <<attempt, recorded, signalVars, done, crashes>>

(* settle_if_all_terminal: decide from the rows ... *)
Decide(h) ==
  /\ At(h, "decide")
  /\ IF AllTerminal
     THEN handler' = [handler EXCEPT ![h].pc = "settle", ![h].seen = Outcome]
     ELSE Goto(h, "reread")
  /\ UNCHANGED <<job, stepVars, recorded, signalVars, done, crashes>>

(* ... and write the row if it is still live. *)
SettleJob(h) ==
  /\ At(h, "settle")
  /\ job' = IF job \in Live THEN handler[h].seen ELSE job
  /\ Goto(h, "reread")
  /\ UNCHANGED <<stepVars, recorded, signalVars, done, crashes>>

(* Step 4: whatever was written, the row as it is now counts. *)
RereadJob(h) ==
  /\ At(h, "reread")
  /\ IF job \in Live
     THEN Return(h)
     ELSE handler' = [handler EXCEPT ![h].pc = "drain", ![h].seen = job]
  /\ UNCHANGED <<job, stepVars, recorded, signalVars, done, crashes>>

(* A database error outside the terminal block ends the request. *)
RequestErrs(h) ==
  /\ "request" \in Faults
  /\ handler[h].pc \in {"stamped", "swept", "read", "resolve", "decide", "settle", "reread"}
  /\ Return(h)
  /\ UNCHANGED <<job, stepVars, recorded, signalVars, done, crashes>>

-----------------------------------------------------------------------------
(***************************************************************************)
(* advance: the terminal block                                             *)
(***************************************************************************)

(* plan: the retry it calls for, and what follows the claim. *)
PlansRetry(status) == status = "failed" /\ ~IsChild /\ JobRetry

AfterPropagate(hd) ==
  IF ~hd.flow THEN Idle
  ELSE [hd EXCEPT !.pc = IF PlansRetry(hd.seen) THEN "retry" ELSE "hooks"]

(* Mutant: a cancelled job has no hook kind. *)
HookKindNone(status) ==
  CASE status = "completed" -> "on_success"
    [] status = "failed" -> "on_error"
    [] OTHER -> "none"

HookKind(status) ==
  CASE status = "completed" -> "on_success"
    [] status = "failed" -> "on_error"
    [] status = "cancelled" -> "on_cancel"

(* Mutant: no drain gate. *)
NoDrainGate(h) ==
  /\ At(h, "drain")
  /\ Goto(h, "clear")
  /\ UNCHANGED <<job, stepVars, recorded, signalVars, done, crashes>>

(* drained: has_live_steps counts running rows; an error fails open. *)
DrainGate(h) ==
  /\ At(h, "drain")
  /\ \/ SomeRunning /\ Return(h)
     \/ (~SomeRunning \/ "drain" \in Faults) /\ Goto(h, "clear")
  /\ UNCHANGED <<job, stepVars, recorded, signalVars, done, crashes>>

ClearCancelled(h) ==
  /\ At(h, "clear")
  /\ signal' = signal \ {handler[h].at}
  /\ Goto(h, "claim")
  /\ UNCHANGED <<job, stepVars, recorded, notices, done, crashes>>

(* Mutant: the column is set without being compared. *)
ClaimWithoutCompare(h) ==
  /\ At(h, "claim")
  /\ recorded' = TRUE
  /\ handler' = [handler EXCEPT ![h] =
       IF IsChild THEN [@ EXCEPT !.pc = "propagate"] ELSE AfterPropagate(@)]
  /\ UNCHANGED <<job, stepVars, signalVars, done, crashes>>

(* claim: the compare-and-set on metrics_recorded_at. *)
ClaimTerminal(h) ==
  /\ At(h, "claim")
  /\ recorded' = TRUE
  /\ handler' = [handler EXCEPT ![h] =
       IF recorded THEN Idle
       ELSE IF IsChild THEN [@ EXCEPT !.pc = "propagate"] ELSE AfterPropagate(@)]
  /\ UNCHANGED <<job, stepVars, signalVars, done, crashes>>

(* An error of the claim counts as not claimed. *)
ClaimErrs(h) ==
  /\ At(h, "claim") /\ "claim" \in Faults
  /\ Return(h)
  /\ UNCHANGED <<job, stepVars, recorded, signalVars, done, crashes>>

(* An error of propagate is logged and the block goes on. *)
Propagate(h) ==
  /\ At(h, "propagate")
  /\ \/ done' = Append(done, "propagate")
     \/ "propagate" \in Faults /\ UNCHANGED done
  /\ handler' = [handler EXCEPT ![h] = AfterPropagate(@)]
  /\ UNCHANGED <<job, stepVars, recorded, signalVars, crashes>>

(* create_retry_job: the job is created and linked in one transaction,     *)
(* then its steps are delayed by a statement of their own.  An error of    *)
(* either falls through to the hooks.                                      *)
CreateRetryJob(h) ==
  /\ At(h, "retry")
  /\ done' = Append(done, "retry")
  /\ Goto(h, "delay")
  /\ UNCHANGED <<job, stepVars, recorded, signalVars, crashes>>

RetryErrs(h) ==
  /\ handler[h].pc \in {"retry", "delay"} \cap Faults
  /\ Goto(h, "hooks")
  /\ UNCHANGED <<job, stepVars, recorded, signalVars, done, crashes>>

DelayRetry(h) ==
  /\ At(h, "delay")
  /\ Goto(h, "archive")
  /\ UNCHANGED <<job, stepVars, recorded, signalVars, done, crashes>>

FireHooks(h) ==
  /\ At(h, "hooks")
  /\ done' = Append(done, HookKind(handler[h].seen))
  /\ Goto(h, "archive")
  /\ UNCHANGED <<job, stepVars, recorded, signalVars, crashes>>

(* Waiters are notified and the log is uploaded. *)
Archive(h) ==
  /\ At(h, "archive")
  /\ done' = Append(done, "archive")
  /\ Return(h)
  /\ UNCHANGED <<job, stepVars, recorded, signalVars, crashes>>

-----------------------------------------------------------------------------
(***************************************************************************)
(* cancel, notification, recovery, crash                                   *)
(***************************************************************************)

CancelJob(r) ==
  /\ At(Canceller, "idle") /\ job \in Live
  /\ job' = "cancelled"
  /\ handler' = [handler EXCEPT ![Canceller] = [Idle EXCEPT !.pc = "stamped", !.at = r]]
  /\ UNCHANGED <<stepVars, recorded, signalVars, done, crashes>>

CancelPendingSteps(h) ==
  /\ At(h, "stamped")
  /\ step' = CancelUnclaimed
  /\ Goto(h, "swept")
  /\ UNCHANGED <<job, attempt, recorded, signalVars, done, crashes>>

(* get_running_steps: without one there is nobody to signal. *)
ReadRunning(h) ==
  /\ At(h, "swept")
  /\ Goto(h, IF SomeRunning THEN "signal" ELSE "read")
  /\ UNCHANGED <<job, stepVars, recorded, signalVars, done, crashes>>

SignalWorkers(h) ==
  /\ At(h, "signal")
  /\ signal' = signal \cup {handler[h].at}
  /\ notices' = Replicas \ {handler[h].at}
  /\ Goto(h, "read")
  /\ UNCHANGED <<job, stepVars, recorded, done, crashes>>

(* dispatch of a stroem_job_cancelled notification on a peer. *)
DeliverNotice(r) ==
  /\ r \in notices
  /\ notices' = notices \ {r}
  /\ signal' = signal \cup {r}
  /\ UNCHANGED <<job, stepVars, recorded, handler, done, crashes>>

LoseNotice(r) ==
  /\ r \in notices /\ "notify" \in Faults
  /\ notices' = notices \ {r}
  /\ UNCHANGED <<job, stepVars, recorded, handler, signal, done, crashes>>

(* readvance_stalled_pinned_jobs: a live pinned job without a live step. *)
ReadvanceStalled(r) ==
  /\ Pinned /\ At(Sweeper, "idle")
  /\ job \in Live /\ AllTerminal
  /\ handler' = [handler EXCEPT ![Sweeper] = Advance(r)]
  /\ UNCHANGED <<job, stepVars, recorded, signalVars, done, crashes>>

(* A replica dies with its requests and its set. *)
Crash(r) ==
  /\ crashes < MaxCrashes
  /\ crashes' = crashes + 1
  /\ handler' = [h \in Handlers |-> IF handler[h].at = r THEN Idle ELSE handler[h]]
  /\ signal' = signal \ {r}
  /\ notices' = notices \ {r}
  /\ UNCHANGED <<job, stepVars, recorded, done>>

-----------------------------------------------------------------------------
SettleStep(h) ==
  \/ ReadJob(h) \/ ResolveOk(h) \/ ResolveNone(h) \/ PinUnavailable(h)
  \/ Decide(h) \/ SettleJob(h) \/ RereadJob(h) \/ RequestErrs(h)

TerminalStep(h) ==
  \/ DrainGate(h) \/ ClearCancelled(h) \/ ClaimTerminal(h) \/ ClaimErrs(h)
  \/ Propagate(h) \/ CreateRetryJob(h) \/ RetryErrs(h) \/ DelayRetry(h)
  \/ FireHooks(h) \/ Archive(h)

CancelStep(h) == CancelPendingSteps(h) \/ ReadRunning(h) \/ SignalWorkers(h)

HandlerStep(h) == SettleStep(h) \/ TerminalStep(h) \/ CancelStep(h)

Next ==
  \/ \E s \in Steps : StartStep(s) \/ ReportStep(s) \/ KillStep(s)
  \/ \E h \in Handlers : HandlerStep(h)
  \/ \E r \in Replicas : \/ CancelJob(r) \/ DeliverNotice(r) \/ LoseNotice(r)
                         \/ ReadvanceStalled(r) \/ Crash(r)

Spec == Init /\ [][Next]_vars

(***************************************************************************)
(* Fairness.  Requests run on, workers poll for ready steps, check for the *)
(* cancel signal, and notifications that are not lost arrive.  The runs of *)
(* FairSpec also end by themselves (a step has a timeout or its script     *)
(* stops), and a pin that loads now and then loads in some sweep.          *)
(***************************************************************************)
Fairness ==
  /\ \A h \in Handlers : WF_vars(HandlerStep(h))
  /\ \A s \in Steps : WF_vars(StartStep(s)) /\ WF_vars(KillStep(s))
  /\ \A r \in Replicas : WF_vars(DeliverNotice(r))
  /\ WF_vars(\E r \in Replicas : ReadvanceStalled(r))

CancelSpec == Spec /\ Fairness

FairSpec ==
  /\ Spec /\ Fairness
  /\ \A s \in Steps : WF_vars(ReportStep(s))
  /\ SF_vars(ResolveOk(Sweeper))

-----------------------------------------------------------------------------
(***************************************************************************)
(* Properties                                                              *)
(***************************************************************************)

(* Rows, requests and the effect list hold values of their kind. *)
TypeOK ==
  /\ job \in Live \cup Final
  /\ step \in [Steps -> Final \cup {"ready", "running"}]
  /\ attempt \in [Steps -> Nat]
  /\ recorded \in BOOLEAN
  /\ handler \in [Handlers -> Handler]
  /\ signal \subseteq Replicas /\ notices \subseteq Replicas
  /\ done \in Seq({"propagate", "retry", "archive", "on_success", "on_error", "on_cancel"})
  /\ crashes \in Nat

(* Concurrent advances, cancels, crashes and failing accesses implement    *)
(* the promise of JobLifecycle: one final status, one claim, the effects   *)
(* of that status in order and none twice.                                 *)
Lifecycle == INSTANCE JobLifecycle
Implements == Lifecycle!Spec

(* The drain gate: the effects of a job that was not cancelled are claimed *)
(* only after the last step has ended, so that the archived log is         *)
(* complete.                                                               *)
EffectsAfterLastStep == recorded /\ job # "cancelled" => AllTerminal

(* Without a crash or a failing access no job is left behind: it ends and  *)
(* its terminal handling is claimed, whichever advance is the last and     *)
(* although a pin may have to be loaded more than once.                    *)
JobHandled == <>[]recorded

(* Comment on advance: "the cancellation signal must stay visible until    *)
(* the workers acknowledge".  A replica does not drop it while a step it   *)
(* answers for is running.                                                 *)
SignalStaysVisible ==
  [][\A s \in Steps : PollsAt[s] \in signal /\ step[s] = "running"
                        => PollsAt[s] \in signal' \/ step'[s] # "running"]_vars

(* High availability guide, on a lost stroem_job_cancelled notification:   *)
(* "The recovery sweeper re-converges within ~60 seconds".  A step of a    *)
(* cancelled job does not run on for ever.                                 *)
CancelReachesWorkers ==
  \A s \in Steps : (job = "cancelled" /\ step[s] = "running") ~> step[s] # "running"

(* Retry guide: "on_error hooks fire only on final failure, not after each *)
(* retry attempt".  A job that is retried fires no hook.                   *)
HooksOnlyOnFinalFailure ==
  \A i, k \in DOMAIN done : done[i] = "retry" => done[k] # "on_error"
=============================================================================
