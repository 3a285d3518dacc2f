----------------------------- MODULE Approvals ------------------------------
(***************************************************************************)
(* One approval step: the creation of the job or a later advance suspends  *)
(* it and announces it with on_suspended hooks, users approve or reject    *)
(* it, the recovery sweep fails it when its timeout is over, and the job   *)
(* may be cancelled.  Every one of them reads the row first and writes it  *)
(* in a later statement.                                                   *)
(***************************************************************************)
EXTENDS Naturals

CONSTANTS
  Dispatchers,     \* passes over the job's steps: its creation, its advances
  Approvers,       \* requests to the approve endpoint
  GateRetries      \* max_retries of the step

ASSUME ApprovalAssumption == GateRetries \in Nat

VARIABLES
  gate,       \* the job_step row: [status, output, retry_attempt]
  gateJob,    \* "running" (not over), "cancelled"
  dispatcher, \* [Dispatchers -> [pc, kind, before]]
  request,    \* [Approvers -> [pc, answer, of]]: of, the suspension decided
  sweeper,    \* the step is on the sweep's list
  suspensions,\* ghost: times the row became suspended
  closed,     \* ghost: the suspensions that ended without an answer
  announced   \* ghost: of the current suspension, "no", "yes", or "silent":
              \* it was made by a creation that announces nothing

ghosts == <<suspensions, closed, announced>>
approvalVars == <<gate, gateJob, dispatcher, request, sweeper, ghosts>>

IdleDispatcher == [pc |-> "idle", kind |-> "advance", before |-> FALSE]

(* The creation of the job, when the step is ready from the start.  Jobs   *)
(* of the API, of triggers, webhooks, emitted events and MCP are followed  *)
(* by fire_initial_suspended_hooks; children, hook jobs, retries and       *)
(* consumers are not.                                                      *)
Creations == {[pc |-> "snapped", kind |-> k, before |-> FALSE] : k \in {"creation", "silent"}}

ApprovalInit ==
  /\ gate = [status |-> "ready", output |-> "none", retry_attempt |-> 0]
  /\ gateJob = "running"
  /\ dispatcher \in [Dispatchers -> Creations \cup {IdleDispatcher}]
  /\ \A d, e \in Dispatchers :
       dispatcher[d] \in Creations /\ dispatcher[e] \in Creations => d = e
  /\ request = [u \in Approvers |-> [pc |-> "new", answer |-> "none", of |-> 0]]
  /\ sweeper = FALSE /\ suspensions = 0 /\ closed = {}
  /\ announced = "no"

Suspended == gate.status = "suspended"
DispatcherTo(d, pc) == dispatcher' = [dispatcher EXCEPT ![d].pc = pc]
CloseSuspension == closed' = IF Suspended THEN closed \cup {suspensions} ELSE closed

-----------------------------------------------------------------------------

(* dispatch_approvals: steps_before. *)
SuspendedBefore(d) == dispatcher[d].before

SnapshotBefore(d) ==
  /\ gateJob = "running" /\ dispatcher[d].pc = "idle"
  /\ dispatcher' = [dispatcher EXCEPT ![d] =
                     [IdleDispatcher EXCEPT !.pc = "snapped", !.before = Suspended]]
  /\ UNCHANGED <<gate, gateJob, request, sweeper, ghosts>>

(* handle_approval_steps reads the rows again and skips what is not ready. *)
ReadGate(d) ==
  /\ dispatcher[d].pc = "snapped"
  /\ DispatcherTo(d, IF gate.status = "ready" THEN "render" ELSE "stored")
  /\ UNCHANGED <<gate, gateJob, request, sweeper, ghosts>>

(* The input or the message does not render: mark_failed, in any status. *)
RenderFails(d) ==
  /\ dispatcher[d].pc = "render"
  /\ gate' = [gate EXCEPT !.status = "failed"]
  /\ CloseSuspension
  /\ DispatcherTo(d, "stored")
  /\ UNCHANGED <<gateJob, request, sweeper, suspensions, announced>>

(* mark_suspended *)
MarkSuspended(d) ==
  /\ dispatcher[d].pc = "render"
  /\ DispatcherTo(d, "suspended")
  /\ IF gate.status = "ready"
     THEN /\ gate' = [gate EXCEPT !.status = "suspended"]
          /\ suspensions' = suspensions + 1
          /\ announced' = IF dispatcher[d].kind = "silent" THEN "silent" ELSE "no"
     ELSE UNCHANGED <<gate, suspensions, announced>>
  /\ UNCHANGED <<gateJob, request, sweeper, closed>>

(* The message becomes the output, whatever the row is by now. *)
StoreMessage(d) ==
  /\ dispatcher[d].pc = "suspended"
  /\ gate' = [gate EXCEPT !.output = "message"]
  /\ DispatcherTo(d, "stored")
  /\ UNCHANGED <<gateJob, request, sweeper, ghosts>>

(* steps_after: fire_suspended_hooks for what was not suspended before. *)
FireSuspendedHooks(d) ==
  /\ dispatcher[d].pc = "stored" /\ dispatcher[d].kind = "advance"
  /\ announced' = IF Suspended /\ ~SuspendedBefore(d) THEN "yes" ELSE announced
  /\ dispatcher' = [dispatcher EXCEPT ![d] = IdleDispatcher]
  /\ UNCHANGED <<gate, gateJob, request, sweeper, suspensions, closed>>

(* fire_initial_suspended_hooks, for whatever is suspended once the job is *)
(* created; a silent creation just ends.                                   *)
FireInitialHooks(d) ==
  /\ dispatcher[d].pc = "stored" /\ dispatcher[d].kind # "advance"
  /\ announced' = IF Suspended /\ dispatcher[d].kind = "creation" THEN "yes" ELSE announced
  /\ dispatcher' = [dispatcher EXCEPT ![d] = IdleDispatcher]
  /\ UNCHANGED <<gate, gateJob, request, sweeper, suspensions, closed>>

-----------------------------------------------------------------------------
(* fail_or_retry *)
FailOrRetryGate ==
  gate' = IF gate.retry_attempt < GateRetries
          THEN [status |-> "ready", output |-> "none", retry_attempt |-> gate.retry_attempt + 1]
          ELSE [gate EXCEPT !.status = "failed"]

(* approve_step of the API: not suspended is a conflict, else it goes on. *)
ReadRequest(u) ==
  /\ request[u].pc = "new"
  /\ request' = [request EXCEPT ![u] = IF Suspended THEN [@ EXCEPT !.pc = "read"]
                                       ELSE [@ EXCEPT !.pc = "done", !.answer = "conflict"]]
  /\ UNCHANGED <<gate, gateJob, dispatcher, sweeper, ghosts>>

(* Mutant: the decision is not conditional on the status. *)
DecideAnyway(u) == TRUE

(* The WHERE clause of approve_step, the expected status of the rejection. *)
StillSuspended(u) == Suspended

DecideBy(u, answer) ==
  request' = [request EXCEPT ![u] =
    IF StillSuspended(u) THEN [pc |-> "done", answer |-> answer, of |-> suspensions]
    ELSE [pc |-> "done", answer |-> "conflict", of |-> 0]]

Approve(u) ==
  /\ request[u].pc = "read" /\ DecideBy(u, "approved")
  /\ gate' = IF StillSuspended(u)
             THEN [gate EXCEPT !.status = "completed", !.output = "decision"] ELSE gate
  /\ UNCHANGED <<gateJob, dispatcher, sweeper, ghosts>>

Reject(u) ==
  /\ request[u].pc = "read" /\ DecideBy(u, "rejected")
  /\ IF StillSuspended(u) THEN FailOrRetryGate ELSE UNCHANGED gate
  /\ UNCHANGED <<gateJob, dispatcher, sweeper, ghosts>>

-----------------------------------------------------------------------------
(* Phase 2.5 of the sweep: the list, then step_failed for each of it, with *)
(* no expected status.                                                     *)
ListTimedOutGate ==
  /\ Suspended /\ ~sweeper /\ sweeper' = TRUE
  /\ UNCHANGED <<gate, gateJob, dispatcher, request, ghosts>>

FailTimedOutGate ==
  /\ sweeper /\ sweeper' = FALSE
  /\ FailOrRetryGate /\ CloseSuspension
  /\ UNCHANGED <<gateJob, dispatcher, request, suspensions, announced>>

(* settlement cancel: the job row, then cancel_pending_steps. *)
CancelGateJob ==
  /\ gateJob = "running" /\ gateJob' = "cancelled"
  /\ UNCHANGED <<gate, dispatcher, request, sweeper, ghosts>>

CancelGate ==
  /\ gateJob = "cancelled" /\ gate.status \in {"ready", "suspended"}
  /\ gate' = [gate EXCEPT !.status = "cancelled"] /\ CloseSuspension
  /\ UNCHANGED <<gateJob, dispatcher, request, sweeper, suspensions, announced>>

Dispatch(d) ==
  \/ ReadGate(d) \/ RenderFails(d) \/ MarkSuspended(d) \/ StoreMessage(d)
  \/ FireSuspendedHooks(d) \/ FireInitialHooks(d)

ApprovalNext ==
  \/ \E d \in Dispatchers : SnapshotBefore(d) \/ Dispatch(d)
  \/ \E u \in Approvers : ReadRequest(u) \/ Approve(u) \/ Reject(u)
  \/ ListTimedOutGate \/ FailTimedOutGate \/ CancelGateJob \/ CancelGate

ApprovalSpec == ApprovalInit /\ [][ApprovalNext]_approvalVars

-----------------------------------------------------------------------------
(* Safety: an accepted answer decides a suspension nobody decided before.  *)
(* Of requests that race with each other, with the sweep, with a cancel    *)
(* and with a pass that fails the step, and that may have read the row in  *)
(* an earlier suspension, no two are accepted for one suspension, and none *)
(* for one that ended without an answer (job_step.rs, approve_step and     *)
(* fail_or_retry).  The converse does not hold: the sweep lists first and  *)
(* fails later with no expected status (recovery.rs), so it overrules an   *)
(* answer in between, as does a late message: see ApprovalStands.          *)
OneDecisionPerSuspension ==
  \A u \in Approvers : request[u].answer \in {"approved", "rejected"} =>
    /\ request[u].of \notin closed
    /\ \A v \in Approvers \ {u} : request[v].of # request[u].of


(* Safety, as the reference states it: an approved step is completed, and  *)
(* its output is the decision.                                             *)
ApprovalStands ==
  \A u \in Approvers :
    request[u].answer = "approved" => gate.status = "completed" /\ gate.output = "decision"
=============================================================================
