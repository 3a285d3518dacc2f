------------------------------ MODULE StepRow ------------------------------
(***************************************************************************)
(* A row of the table job_step and the statements that                     *)
(* crates/stroem-db/src/repos/job_step.rs runs on it.  Each operator is    *)
(* the effect of one UPDATE (or one transaction) on the row it matches;    *)
(* the WHERE clause is a separate predicate where the code has one, and    *)
(* is absent where the code has none.                                      *)
(*                                                                         *)
(* Columns kept: status, worker_id, started_at, retry_attempt and          *)
(* pin_releases.  started_at is a logical stamp: every statement that      *)
(* writes NOW() writes a stamp no earlier statement wrote.                 *)
(***************************************************************************)
EXTENDS Naturals

CONSTANT NoWorker               \* worker_id IS NULL

Null == 0                       \* started_at IS NULL; stamps start at 1

StepStatus == {"pending", "ready", "running", "suspended",
               "completed", "failed", "skipped", "cancelled"}

Terminal == {"completed", "failed", "skipped", "cancelled"}

JobStatus == {"pending", "running", "completed", "failed", "cancelled"}

Live == {"pending", "running"}

RowOf(Worker) ==
  [status : StepStatus, worker : Worker \cup {NoWorker}, startedAt : Nat,
   retryAttempt : Nat, pinReleases : Nat]

(* A row as create_steps_tx inserts it. *)
NewRow(st) ==
  [status |-> st, worker |-> NoWorker, startedAt |-> Null,
   retryAttempt |-> 0, pinReleases |-> 0]

(***************************************************************************)
(* Writes with a status guard.                                             *)
(***************************************************************************)

(* claim_ready_step matches on status = 'ready' and on nothing of the job. *)
Claimable(r) == r.status = "ready"

(* The claim stamps the worker and a new started_at. *)
ClaimReady(r, w, now) ==
  [r EXCEPT !.status = "running", !.worker = w, !.startedAt = now]

(* cancel_pending_steps: pending, ready and suspended rows only. *)
CancelPending(r) ==
  IF r.status \in {"pending", "ready", "suspended"}
  THEN [r EXCEPT !.status = "cancelled"]
  ELSE r

(***************************************************************************)
(* Writes WITHOUT a guard: whatever the row holds is overwritten.          *)
(***************************************************************************)

MarkRunning(r, w, now) ==
  [r EXCEPT !.status = "running", !.worker = w, !.startedAt = now]

MarkCompleted(r) == [r EXCEPT !.status = "completed"]

(***************************************************************************)
(* fail_or_retry: one transaction that fails the row or sends it back to   *)
(* 'ready'.  RetriesLeft is the arm the locked row selects; max is         *)
(* max_retries, 0 standing for NULL as well.                               *)
(***************************************************************************)

(* Mutant: one retry too many. *)
RetriesLeftOrEqual(r, max) == r.retryAttempt <= max

RetriesLeft(r, max) == r.retryAttempt < max

FailOrRetry(r, max) ==
  IF RetriesLeft(r, max)
  THEN [r EXCEPT !.status = "ready", !.worker = NoWorker, !.startedAt = Null,
                 !.retryAttempt = r.retryAttempt + 1]
  ELSE [r EXCEPT !.status = "failed"]

(***************************************************************************)
(* Claim identity: the pair (worker_id, started_at).  A write fenced by a  *)
(* claim c applies only while the row is running and still carries it.     *)
(***************************************************************************)

(* Mutant: the claim is told by its worker alone. *)
SameWorker(r, c) == r.worker = c.worker

SameClaim(r, c) == r.worker = c.worker /\ r.startedAt = c.startedAt

HoldsClaim(r, c) == r.status = "running" /\ SameClaim(r, c)

(* Mutant: the released row keeps the claim columns. *)
ReleaseKeepingClaim(r) ==
  [r EXCEPT !.status = "ready", !.pinReleases = r.pinReleases + 1]

(* The Released arm of release_claim. *)
ReleaseToReady(r) ==
  [r EXCEPT !.status = "ready", !.worker = NoWorker, !.startedAt = Null,
            !.pinReleases = r.pinReleases + 1]
=============================================================================
