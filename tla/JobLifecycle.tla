---------------------------- MODULE JobLifecycle ----------------------------
(***************************************************************************)
(* What the server promises about the end of one job, whatever replicas,   *)
(* reports, cancels and crashes are involved: the job row gets one final   *)
(* status; its terminal handling is claimed at most once and only then;    *)
(* and the side effects are those of the final status, each at most once,  *)
(* parent first, then a retry job or the hooks but never both, then the    *)
(* archive.  An effect may be missing (the process may die), never         *)
(* repeated, reordered or of the wrong kind.                               *)
(***************************************************************************)
EXTENDS Naturals, Sequences

CONSTANTS
  IsChild,      \* BOOLEAN: the job has a parent step
  JobRetry      \* BOOLEAN: retry_attempt < max_retries

VARIABLES
  job,        \* job.status
  recorded,   \* job.metrics_recorded_at IS NOT NULL
  done        \* the side effects performed, in order

vars == <<job, recorded, done>>

Live == {"pending", "running"}
Final == {"completed", "failed", "cancelled"}

Hook == [completed |-> "on_success", failed |-> "on_error", cancelled |-> "on_cancel"]
Hooks == {"on_success", "on_error", "on_cancel"}
Effect == {"propagate", "retry", "archive"} \cup Hooks

Rank(e) == IF e = "propagate" THEN 1 ELSE IF e = "archive" THEN 3 ELSE 2

(* The effects the final status entitles the job to. *)
Owed(e, status) ==
  \/ e = "propagate" /\ IsChild
  \/ e = "retry" /\ status = "failed" /\ ~IsChild /\ JobRetry
  \/ e = "archive"
  \/ e = Hook[status]

Init == job = "pending" /\ recorded = FALSE /\ done = <<>>

Start == job = "pending" /\ job' = "running" /\ UNCHANGED <<recorded, done>>

Finish ==
  /\ job \in Live /\ job' \in Final
  /\ UNCHANGED <<recorded, done>>

ClaimTerminal ==
  /\ job \in Final /\ ~recorded
  /\ recorded' = TRUE
  /\ UNCHANGED <<job, done>>

Perform(e) ==
  /\ recorded /\ Owed(e, job)
  /\ \A i \in DOMAIN done : Rank(done[i]) < Rank(e)
  /\ done' = Append(done, e)
  /\ UNCHANGED <<job, recorded>>

Next == Start \/ Finish \/ ClaimTerminal \/ \E e \in Effect : Perform(e)

Spec == Init /\ [][Next]_vars
=============================================================================
