-------------------------- MODULE StepClaim_proofs --------------------------
(***************************************************************************)
(* Proofs about StepClaim, for any sets of steps and workers, any retry    *)
(* and release limits and any number of faults.                            *)
(***************************************************************************)
EXTENDS StepClaim, TLAPS

(* A row of step s within its limits, whose claim columns fit its status  *)
(* and whose stamp is not newer than now.                                  *)
RowOK(s, r, now) ==
  /\ r \in RowOf(Workers)
  /\ r.retryAttempt <= MaxRetries[s]
  /\ r.pinReleases <= MaxPinReleases
  /\ r.startedAt <= now
  /\ r.status = "ready" => r.worker = NoWorker /\ r.startedAt = Null
  /\ r.status = "running" => r.worker \in Workers /\ r.startedAt >= 1

RowsOK == \A s \in Steps : RowOK(s, row[s], clock)

(* No claim in use is newer than the clock, and every claim has a stamp. *)
StampsBounded ==
  /\ \A s \in Steps : owner[s] <= clock
  /\ \A c \in claiming : c.startedAt >= 1 /\ c.startedAt <= clock
  /\ \A c \in swept : c.startedAt >= 1 /\ c.startedAt <= clock

(* A cancel that has begun has made the job terminal. *)
CancelStamped == cancelPc # "idle" => jobStatus \notin Live

(* The inductive invariant. *)
IInv ==
  /\ TypeOK /\ RowsOK /\ StampsBounded /\ FenceExact
  /\ CancelStamped /\ NoReleaseAfterCancel

-----------------------------------------------------------------------------
(***************************************************************************)
(* What each write of StepRow keeps.                                       *)
(***************************************************************************)

(* claim_ready_step yields a running row of the worker and keeps both      *)
(* counters.                                                               *)
LEMMA ClaimReadyRow ==
  ASSUME NEW r \in RowOf(Workers), NEW w \in Workers, NEW t \in Nat
  PROVE  /\ ClaimReady(r, w, t) \in RowOf(Workers)
         /\ ClaimReady(r, w, t).status = "running"
         /\ ClaimReady(r, w, t).worker = w
         /\ ClaimReady(r, w, t).startedAt = t
         /\ ClaimReady(r, w, t).retryAttempt = r.retryAttempt
         /\ ClaimReady(r, w, t).pinReleases = r.pinReleases
BY DEF ClaimReady, RowOf, StepStatus

(* fail_or_retry yields a failed row, or a ready one without a claim and   *)
(* with one more retry, still within max_retries.                          *)
LEMMA FailOrRetryRow ==
  ASSUME NEW r \in RowOf(Workers), NEW max \in Nat, r.retryAttempt <= max
  PROVE  /\ FailOrRetry(r, max) \in RowOf(Workers)
         /\ FailOrRetry(r, max).status \in {"ready", "failed"}
         /\ FailOrRetry(r, max).retryAttempt <= max
         /\ FailOrRetry(r, max).startedAt <= r.startedAt
         /\ FailOrRetry(r, max).pinReleases = r.pinReleases
         /\ FailOrRetry(r, max).status = "ready" =>
              /\ FailOrRetry(r, max).worker = NoWorker
              /\ FailOrRetry(r, max).startedAt = Null
              /\ FailOrRetry(r, max).retryAttempt > 0
<1>1. /\ r.retryAttempt \in Nat /\ r.startedAt \in Nat /\ r.pinReleases \in Nat
      /\ r.worker \in Workers \cup {NoWorker}
  BY DEF RowOf
<1>2. CASE r.retryAttempt < max
  <2>1. FailOrRetry(r, max) =
          [r EXCEPT !.status = "ready", !.worker = NoWorker, !.startedAt = Null,
                    !.retryAttempt = r.retryAttempt + 1]
    BY <1>2 DEF FailOrRetry, RetriesLeft
  <2>2. FailOrRetry(r, max) =
          [status |-> "ready", worker |-> NoWorker, startedAt |-> 0,
           retryAttempt |-> r.retryAttempt + 1, pinReleases |-> r.pinReleases]
    BY <2>1 DEF RowOf, Null
  <2>3. r.retryAttempt + 1 \in Nat /\ r.retryAttempt + 1 <= max
        /\ r.retryAttempt + 1 > 0 /\ 0 <= r.startedAt /\ 0 \in Nat
    BY <1>1, <1>2
  <2>4. FailOrRetry(r, max) \in RowOf(Workers)
    BY <1>1, <2>2, <2>3 DEF RowOf, StepStatus
  <2>5. QED
    BY <2>2, <2>3, <2>4 DEF Null
<1>3. CASE ~(r.retryAttempt < max)
  <2>1. FailOrRetry(r, max) = [r EXCEPT !.status = "failed"]
    BY <1>3 DEF FailOrRetry, RetriesLeft
  <2>2. QED
    BY <1>1, <2>1 DEF RowOf, StepStatus
<1>4. QED
  BY <1>2, <1>3

(* cancel_pending_steps keeps the columns and leaves no ready row.         *)
LEMMA CancelPendingRow ==
  ASSUME NEW r \in RowOf(Workers)
  PROVE  /\ CancelPending(r) \in RowOf(Workers)
         /\ CancelPending(r).status # "ready"
         /\ CancelPending(r).status = "running" => CancelPending(r) = r
         /\ CancelPending(r).startedAt = r.startedAt
         /\ CancelPending(r).retryAttempt = r.retryAttempt
         /\ CancelPending(r).pinReleases = r.pinReleases
BY DEF CancelPending, RowOf, StepStatus

(* A claimed row is a good row once the clock has reached its stamp.       *)
LEMMA ClaimOK ==
  ASSUME NEW s \in Steps, NEW r, NEW now \in Nat, NEW w \in Workers, RowOK(s, r, now)
  PROVE  /\ RowOK(s, ClaimReady(r, w, now + 1), now + 1)
         /\ RowOK(s, MarkRunning(r, w, now + 1), now + 1)
<1>1. r \in RowOf(Workers) /\ now + 1 \in Nat /\ now + 1 >= 1
  BY DEF RowOK
<1>2. MarkRunning(r, w, now + 1) = ClaimReady(r, w, now + 1)
  BY DEF MarkRunning, ClaimReady
<1>3. RowOK(s, ClaimReady(r, w, now + 1), now + 1)
  BY <1>1, ClaimReadyRow DEF RowOK
<1>4. QED
  BY <1>2, <1>3

(* fail_or_retry keeps a good row good, and counts a row it makes ready.   *)
LEMMA FailOrRetryOK ==
  ASSUME NEW s \in Steps, NEW r, NEW now \in Nat, RowOK(s, r, now)
  PROVE  /\ RowOK(s, FailOrRetry(r, MaxRetries[s]), now)
         /\ FailOrRetry(r, MaxRetries[s]).status # "running"
         /\ FailOrRetry(r, MaxRetries[s]).status = "ready" =>
              FailOrRetry(r, MaxRetries[s]).retryAttempt > 0
<1> DEFINE q == FailOrRetry(r, MaxRetries[s])
<1>1. r \in RowOf(Workers) /\ MaxRetries[s] \in Nat /\ r.retryAttempt <= MaxRetries[s]
  BY MaxRetriesAssumption DEF RowOK
<1>2. /\ q \in RowOf(Workers) /\ q.status \in {"ready", "failed"}
      /\ q.retryAttempt <= MaxRetries[s] /\ q.startedAt <= r.startedAt
      /\ q.pinReleases = r.pinReleases
      /\ q.status = "ready" => q.worker = NoWorker /\ q.startedAt = Null
                               /\ q.retryAttempt > 0
  BY <1>1, FailOrRetryRow
<1>3. q.startedAt <= now
  <2>1. q.startedAt \in Nat /\ r.startedAt \in Nat /\ r.startedAt <= now
    BY <1>1, <1>2 DEF RowOK, RowOf
  <2>2. QED
    BY <1>2, <2>1
<1>4. QED
  BY <1>2, <1>3 DEF RowOK

(* So do the cancel of an unclaimed row, of a claimed one, and completion. *)
LEMMA CancelOK ==
  ASSUME NEW s \in Steps, NEW r, NEW now \in Nat, RowOK(s, r, now)
  PROVE  /\ RowOK(s, CancelPending(r), now)
         /\ RowOK(s, [r EXCEPT !.status = "cancelled"], now)
         /\ RowOK(s, MarkCompleted(r), now)
<1>1. r \in RowOf(Workers)
  BY DEF RowOK
<1>2. RowOK(s, [r EXCEPT !.status = "cancelled"], now)
  BY <1>1 DEF RowOK, RowOf, StepStatus
<1>3. RowOK(s, CancelPending(r), now)
  BY <1>2 DEF CancelPending
<1>4. RowOK(s, MarkCompleted(r), now)
  BY <1>1 DEF RowOK, RowOf, StepStatus, MarkCompleted
<1>5. QED
  BY <1>2, <1>3, <1>4

(* A release below the cap keeps a good row good and leaves no claim.      *)
LEMMA ReleaseOK ==
  ASSUME NEW s \in Steps, NEW r, NEW now \in Nat, RowOK(s, r, now),
         ~(r.pinReleases + 1 > MaxPinReleases)
  PROVE  RowOK(s, ReleaseToReady(r), now) /\ ReleaseToReady(r).status = "ready"
<1>1. r \in RowOf(Workers) /\ r.pinReleases \in Nat
  BY DEF RowOK, RowOf
<1>2. ReleaseToReady(r) =
        [status |-> "ready", worker |-> NoWorker, startedAt |-> 0,
         retryAttempt |-> r.retryAttempt, pinReleases |-> r.pinReleases + 1]
  <2>1. ReleaseToReady(r) =
          [r EXCEPT !.status = "ready", !.worker = NoWorker, !.startedAt = 0,
                    !.pinReleases = r.pinReleases + 1]
    BY DEF ReleaseToReady, Null
  <2>2. QED
    BY <1>1, <2>1 DEF RowOf
<1>3. r.pinReleases + 1 <= MaxPinReleases /\ r.pinReleases + 1 \in Nat /\ 0 <= now
  BY <1>1, ReleaseAssumption
<1>4. r.retryAttempt \in Nat
  BY <1>1 DEF RowOf
<1>5. ReleaseToReady(r) \in RowOf(Workers)
  BY <1>2, <1>3, <1>4 DEF RowOf, StepStatus
<1>6. QED
  BY <1>2, <1>3, <1>5 DEF RowOK, Null

(* An older row stays a good row when the clock moves on. *)
LEMMA LaterOK ==
  ASSUME NEW s \in Steps, NEW r, NEW now \in Nat, RowOK(s, r, now)
  PROVE  RowOK(s, r, now + 1)
<1>1. r.startedAt \in Nat /\ r.startedAt <= now
  BY DEF RowOK, RowOf
<1>2. r.startedAt <= now + 1
  BY <1>1
<1>3. QED
  BY <1>2 DEF RowOK

-----------------------------------------------------------------------------
(***************************************************************************)
(* Every write but a claim: no new claim is taken up, a row that is        *)
(* written and left running carries the next stamp, and a row is made      *)
(* ready by a retry, or while the job is live.                             *)
(***************************************************************************)
RowWrite ==
  /\ row' \in [Steps -> RowOf(Workers)]
  /\ clock' = clock \/ clock' = clock + 1
  /\ \A s \in Steps : RowOK(s, row'[s], clock')
  /\ owner' = owner
  /\ swept' \subseteq swept
  /\ claiming' \subseteq claiming
  /\ cancelPc' = cancelPc \/ cancelPc' = "idle" \/ cancelPc' = "stamped"
  /\ \A s \in Steps : \/ row'[s] = row[s]
                      \/ row'[s].status # "running"
                      \/ row'[s].startedAt = clock + 1
  /\ \A s \in Steps : \/ row'[s] = row[s]
                      \/ row'[s].status = "ready" => row'[s].retryAttempt > 0
                      \/ jobStatus \in Live

(* Every step that is a RowWrite keeps the inductive invariant.            *)
LEMMA RowWriteInv ==
  ASSUME IInv, RowWrite
  PROVE  RowsOK' /\ StampsBounded' /\ FenceExact' /\ NoReleaseAfterCancel'
<1> USE DEF IInv
<1>1. RowsOK'
  BY DEF RowWrite, RowsOK
<1>2. clock \in Nat /\ owner \in [Steps -> Nat] /\ swept \subseteq SweptClaim
      /\ claiming \subseteq Claim
  BY DEF TypeOK
<1>3. /\ \A c \in swept : c.step \in Steps /\ c.startedAt \in Nat
      /\ \A c \in claiming : c.step \in Steps /\ c.startedAt \in Nat
  BY <1>2 DEF SweptClaim, Claim
<1>4. StampsBounded'
  <2>1. clock' \in Nat /\ clock <= clock'
    BY <1>2 DEF RowWrite
  <2>2. ASSUME NEW s \in Steps PROVE owner'[s] <= clock'
    BY <1>2, <2>1 DEF RowWrite, StampsBounded
  <2>3. ASSUME NEW c \in claiming' PROVE c.startedAt >= 1 /\ c.startedAt <= clock'
    BY <1>2, <1>3, <2>1 DEF RowWrite, StampsBounded
  <2>4. ASSUME NEW c \in swept' PROVE c.startedAt >= 1 /\ c.startedAt <= clock'
    BY <1>2, <1>3, <2>1 DEF RowWrite, StampsBounded
  <2>5. QED
    BY <2>2, <2>3, <2>4 DEF StampsBounded
<1>5. ASSUME NEW c, c.step \in Steps, c.startedAt \in Nat, c.startedAt <= clock,
             HoldsClaim(row'[c.step], c)
      PROVE  HoldsClaim(row[c.step], c)
  <2>1. row'[c.step].status = "running" /\ row'[c.step].startedAt = c.startedAt
    BY <1>5 DEF HoldsClaim, SameClaim
  <2>2. row'[c.step].startedAt # clock + 1
    BY <1>2, <1>5, <2>1
  <2>3. row'[c.step] = row[c.step]
    BY <1>5, <2>1, <2>2 DEF RowWrite
  <2>4. QED
    BY <1>5, <2>3
<1>6. FenceExact'
  <2>1. ASSUME NEW c \in swept', HoldsClaim(row'[c.step], c)
        PROVE  c.run = owner'[c.step]
    <3>1. c \in swept /\ owner' = owner
      BY DEF RowWrite
    <3>2. HoldsClaim(row[c.step], c)
      BY <1>3, <1>5, <2>1, <3>1 DEF StampsBounded
    <3>3. QED
      BY <3>1, <3>2 DEF FenceExact
  <2>2. ASSUME NEW c \in claiming', HoldsClaim(row'[c.step], c)
        PROVE  c.startedAt = owner'[c.step]
    <3>1. c \in claiming /\ owner' = owner
      BY DEF RowWrite
    <3>2. HoldsClaim(row[c.step], c)
      BY <1>3, <1>5, <2>2, <3>1 DEF StampsBounded
    <3>3. QED
      BY <3>1, <3>2 DEF FenceExact
  <2>3. QED
    BY <2>1, <2>2 DEF FenceExact, HoldsClaim, SameClaim
<1>7. NoReleaseAfterCancel'
  <2>1. SUFFICES ASSUME cancelPc' = "done", NEW s \in Steps, row'[s].status = "ready"
                 PROVE  row'[s].retryAttempt > 0
    BY DEF NoReleaseAfterCancel
  <2>2. cancelPc = "done"
    BY <2>1 DEF RowWrite
  <2>3. jobStatus \notin Live
    BY <2>2 DEF CancelStamped
  <2>4. QED
    BY <2>1, <2>2, <2>3 DEF RowWrite, NoReleaseAfterCancel
<1>8. QED
  BY <1>1, <1>4, <1>6, <1>7

(* The actions that leave the rows and the claims alone. *)
LEMMA QuietInv ==
  ASSUME IInv, UNCHANGED <<row, clock, owner>>,
         swept' \subseteq swept, claiming' \subseteq claiming,
         cancelPc' \in {cancelPc, "idle", "stamped"}
  PROVE  RowsOK' /\ StampsBounded' /\ FenceExact' /\ NoReleaseAfterCancel'
<1>1. RowWrite
  BY DEF RowWrite, IInv, TypeOK, RowsOK
<1>2. QED
  BY <1>1, RowWriteInv

(***************************************************************************)
(* One step per action.  Most leave the rows alone (QuietInv) or are a RowWrite. *)
(***************************************************************************)
LEMMA NextInv ==
  ASSUME IInv, [Next]_vars
  PROVE  IInv'
<1>0. /\ clock \in Nat /\ clock + 1 \in Nat /\ clock + 1 # clock
      /\ row \in [Steps -> RowOf(Workers)]
      /\ \A s \in Steps : RowOK(s, row[s], clock)
  BY DEF IInv, TypeOK, RowsOK
<1> USE DEF IInv
<1>1. ASSUME NEW w \in Workers, NEW s \in Steps, ClaimJob(w, s)
      PROVE  IInv'
  <2>1. /\ clock' = clock + 1 /\ cancelPc' = cancelPc /\ jobStatus' = jobStatus
        /\ swept' = swept /\ owner' = [owner EXCEPT ![s] = clock + 1]
        /\ row' = [row EXCEPT ![s] = ClaimReady(row[s], w, clock + 1)]
        /\ claiming' = claiming \cup {[step |-> s, worker |-> w, startedAt |-> clock + 1]}
    BY <1>1 DEF ClaimJob, sweepVars, jobVars
  <2>2. RowOK(s, ClaimReady(row[s], w, clock + 1), clock + 1)
    BY <1>0, ClaimOK
  <2>3. \A t \in Steps : RowOK(t, row'[t], clock')
    BY <1>0, <2>1, <2>2, LaterOK
  <2>4. row' \in [Steps -> RowOf(Workers)]
    BY <1>0, <2>1, <2>2 DEF RowOK
  <2>5. TypeOK'
    BY <1>1, <1>0, <2>1, <2>4
    DEF TypeOK, ClaimJob, workerVars, sweepVars, jobVars, Claim
  <2>6. StampsBounded'
    <3>1. \A t \in Steps : owner'[t] <= clock'
      BY <1>0, <2>1 DEF TypeOK, StampsBounded
    <3>2. ASSUME NEW c \in claiming' PROVE c.startedAt >= 1 /\ c.startedAt <= clock'
      <4>1. CASE c \in claiming
        BY <1>0, <2>1, <4>1 DEF TypeOK, StampsBounded, Claim
      <4>2. CASE c = [step |-> s, worker |-> w, startedAt |-> clock + 1]
        BY <1>0, <2>1, <4>2
      <4>3. QED
        BY <2>1, <4>1, <4>2
    <3>3. ASSUME NEW c \in swept' PROVE c.startedAt >= 1 /\ c.startedAt <= clock'
      BY <1>0, <2>1 DEF TypeOK, StampsBounded, SweptClaim
    <3>4. QED
      BY <3>1, <3>2, <3>3 DEF StampsBounded
  <2>7. FenceExact'
    <3>1. row'[s].startedAt = clock + 1
      BY <1>0, <2>1, ClaimReadyRow
    <3>2. ASSUME NEW c \in swept', HoldsClaim(row'[c.step], c)
          PROVE  c.run = owner'[c.step]
      <4>1. c \in swept /\ c.step \in Steps /\ c.startedAt <= clock /\ c.startedAt \in Nat
        BY <2>1 DEF StampsBounded, TypeOK, SweptClaim
      <4>2. c.step # s
        BY <1>0, <3>1, <3>2, <4>1 DEF HoldsClaim, SameClaim
      <4>3. row'[c.step] = row[c.step] /\ owner'[c.step] = owner[c.step]
        BY <1>0, <2>1, <4>1, <4>2 DEF TypeOK
      <4>4. QED
        BY <3>2, <4>1, <4>3 DEF FenceExact
    <3>3. ASSUME NEW c \in claiming', HoldsClaim(row'[c.step], c)
          PROVE  c.startedAt = owner'[c.step]
      <4>1. CASE c = [step |-> s, worker |-> w, startedAt |-> clock + 1]
        BY <2>1, <4>1 DEF TypeOK
      <4>2. CASE c \in claiming
        <5>1. c.step \in Steps /\ c.startedAt <= clock /\ c.startedAt \in Nat
          BY <4>2 DEF StampsBounded, TypeOK, Claim
        <5>2. c.step # s
          BY <1>0, <3>1, <3>3, <5>1 DEF HoldsClaim, SameClaim
        <5>3. row'[c.step] = row[c.step] /\ owner'[c.step] = owner[c.step]
          BY <1>0, <2>1, <5>1, <5>2 DEF TypeOK
        <5>4. QED
          BY <3>3, <4>2, <5>3 DEF FenceExact
      <4>3. QED
        BY <2>1, <4>1, <4>2
    <3>4. QED
      BY <3>2, <3>3 DEF FenceExact, HoldsClaim, SameClaim
  <2>8. CancelStamped'
    BY <2>1 DEF CancelStamped, Live
  <2>9. NoReleaseAfterCancel'
    BY <1>0, <2>1, ClaimReadyRow DEF NoReleaseAfterCancel
  <2>10. QED
    BY <2>3, <2>5, <2>6, <2>7, <2>8, <2>9 DEF RowsOK
<1>2. ASSUME NEW c \in claiming, AnswerClaim(c)
      PROVE  IInv'
  <2>1. TypeOK'
    BY <1>2 DEF TypeOK, AnswerClaim, rowVars, workerVars, sweepVars, jobVars, Claim, Exec
  <2>2. RowsOK' /\ StampsBounded' /\ FenceExact' /\ NoReleaseAfterCancel'
    BY <1>2, QuietInv DEF AnswerClaim, rowVars, workerVars, sweepVars, jobVars
  <2>3. CancelStamped'
    BY <1>2 DEF CancelStamped, AnswerClaim, jobVars, Live
  <2>4. QED
    BY <2>1, <2>2, <2>3 DEF IInv
<1>3. ASSUME NEW c \in claiming, FailClaim(c)
      PROVE  IInv'
  <2>1. RowWrite
    <3>1. c.step \in Steps /\ MaxRetries[c.step] \in Nat
      BY MaxRetriesAssumption DEF TypeOK, Claim
    <3>2. /\ clock' = clock /\ owner' = owner /\ cancelPc' = cancelPc
          /\ swept' \subseteq swept /\ claiming' \subseteq claiming
      BY <1>3 DEF FailClaim, sweepVars, jobVars
    <3>3. CASE row' = row
      BY <1>0, <3>2, <3>3 DEF RowWrite
    <3>4. CASE row' = [row EXCEPT ![c.step] = FailOrRetry(@, MaxRetries[c.step])]
      BY <1>0, <3>1, <3>2, <3>4, FailOrRetryOK DEF RowWrite, RowOK
    <3>5. QED
      BY <1>3, <3>3, <3>4 DEF FailClaim, ClaimedStepFailed
  <2>2. TypeOK'
    BY <1>3, <2>1 DEF RowWrite, TypeOK, FailClaim, rowVars, workerVars, sweepVars, jobVars
  <2>3. CancelStamped'
    BY <1>3 DEF CancelStamped, FailClaim, jobVars, Live
  <2>4. QED
    BY <2>1, <2>2, <2>3, RowWriteInv
<1>4. ASSUME NEW c \in claiming, ReleaseOrFailClaim(c)
      PROVE  IInv'
  <2>1. RowWrite
    <3>1. c.step \in Steps /\ MaxRetries[c.step] \in Nat
      BY MaxRetriesAssumption DEF TypeOK, Claim
    <3>2. /\ clock' = clock /\ owner' = owner /\ cancelPc' = cancelPc
          /\ swept' \subseteq swept /\ claiming' \subseteq claiming
      BY <1>4 DEF ReleaseOrFailClaim, sweepVars, jobVars
    <3> DEFINE r == row[c.step]
    <3>3. CASE row' = row
      BY <1>0, <3>2, <3>3 DEF RowWrite
    <3>4. CASE row' = [row EXCEPT ![c.step] = FailOrRetry(@, MaxRetries[c.step])]
      BY <1>0, <3>1, <3>2, <3>4, FailOrRetryOK DEF RowWrite, RowOK
    <3>5. CASE row' = [s \in Steps |->
                         IF s = c.step THEN [r EXCEPT !.status = "cancelled"]
                                       ELSE CancelPending(row[s])]
      <4>1. \A s \in Steps : RowOK(s, row'[s], clock)
        BY <1>0, <3>1, <3>5, CancelOK
      <4>2. row' \in [Steps -> RowOf(Workers)]
        BY <3>5, <4>1 DEF RowOK
      <4>3. ASSUME NEW s \in Steps
            PROVE  /\ row'[s].status # "ready"
                   /\ row'[s] = row[s] \/ row'[s].status # "running"
        <5>1. CASE s = c.step
          BY <1>0, <3>5, <5>1 DEF RowOf
        <5>2. CASE s # c.step
          BY <1>0, <3>5, <5>2, CancelPendingRow
        <5>3. QED
          BY <5>1, <5>2
      <4>4. QED
        BY <3>2, <4>1, <4>2, <4>3 DEF RowWrite
    <3>6. CASE /\ row' = [row EXCEPT ![c.step] = ReleaseToReady(@)]
               /\ jobStatus \in Live
               /\ ~(r.pinReleases + 1 > MaxPinReleases)
      <4>1. RowOK(c.step, ReleaseToReady(r), clock) /\ ReleaseToReady(r).status = "ready"
        BY <1>0, <3>1, <3>6, ReleaseOK
      <4>2. QED
        BY <1>0, <3>1, <3>2, <3>6, <4>1 DEF RowWrite, RowOK
    <3>7. QED
      BY <1>4, <3>3, <3>4, <3>5, <3>6
      DEF ReleaseOrFailClaim, ReleaseClaim, ClaimedStepFailed
  <2>2. TypeOK'
    BY <1>4, <2>1 DEF RowWrite, TypeOK, ReleaseOrFailClaim, rowVars, workerVars, sweepVars, jobVars
  <2>3. CancelStamped'
    BY <1>4 DEF CancelStamped, ReleaseOrFailClaim, jobVars, Live
  <2>4. QED
    BY <2>1, <2>2, <2>3, RowWriteInv
<1>5. ASSUME NEW e \in execs, FetchFails(e)
      PROVE  IInv'
  <2>1. TypeOK'
    BY <1>5 DEF TypeOK, FetchFails, rowVars, workerVars, sweepVars, jobVars, Exec, Request, Req
  <2>2. RowsOK' /\ StampsBounded' /\ FenceExact' /\ NoReleaseAfterCancel'
    BY <1>5, QuietInv DEF FetchFails, rowVars, workerVars, sweepVars, jobVars
  <2>3. CancelStamped'
    BY <1>5 DEF CancelStamped, FetchFails, jobVars, Live
  <2>4. QED
    BY <2>1, <2>2, <2>3 DEF IInv
<1>6. ASSUME NEW e \in execs, SendStart(e)
      PROVE  IInv'
  <2>1. TypeOK'
    BY <1>6 DEF TypeOK, SendStart, rowVars, workerVars, sweepVars, jobVars, Exec, Request, Req
  <2>2. RowsOK' /\ StampsBounded' /\ FenceExact' /\ NoReleaseAfterCancel'
    BY <1>6, QuietInv DEF SendStart, rowVars, workerVars, sweepVars, jobVars
  <2>3. CancelStamped'
    BY <1>6 DEF CancelStamped, SendStart, jobVars, Live
  <2>4. QED
    BY <2>1, <2>2, <2>3 DEF IInv
<1>7. ASSUME NEW e \in execs, StartAnswered(e)
      PROVE  IInv'
  <2>1. TypeOK'
    BY <1>7 DEF TypeOK, StartAnswered, rowVars, workerVars, sweepVars, jobVars, Exec, Request, Req
  <2>2. RowsOK' /\ StampsBounded' /\ FenceExact' /\ NoReleaseAfterCancel'
    BY <1>7, QuietInv DEF StartAnswered, rowVars, workerVars, sweepVars, jobVars
  <2>3. CancelStamped'
    BY <1>7 DEF CancelStamped, StartAnswered, jobVars, Live
  <2>4. QED
    BY <2>1, <2>2, <2>3 DEF IInv
<1>8. ASSUME NEW e \in execs, StartErrs(e)
      PROVE  IInv'
  <2>1. TypeOK'
    BY <1>8 DEF TypeOK, StartErrs, rowVars, workerVars, sweepVars, jobVars, Exec, Request, Req
  <2>2. RowsOK' /\ StampsBounded' /\ FenceExact' /\ NoReleaseAfterCancel'
    BY <1>8, QuietInv DEF StartErrs, rowVars, workerVars, sweepVars, jobVars
  <2>3. CancelStamped'
    BY <1>8 DEF CancelStamped, StartErrs, jobVars, Live
  <2>4. QED
    BY <2>1, <2>2, <2>3 DEF IInv
<1>9. ASSUME NEW e \in execs, NEW result \in {"completed", "failed"}, Finish(e, result)
      PROVE  IInv'
  <2>1. TypeOK'
    BY <1>9 DEF TypeOK, Finish, rowVars, workerVars, sweepVars, jobVars, Exec, Request, Req
  <2>2. RowsOK' /\ StampsBounded' /\ FenceExact' /\ NoReleaseAfterCancel'
    BY <1>9, QuietInv DEF Finish, rowVars, workerVars, sweepVars, jobVars
  <2>3. CancelStamped'
    BY <1>9 DEF CancelStamped, Finish, jobVars, Live
  <2>4. QED
    BY <2>1, <2>2, <2>3 DEF IInv
<1>10. ASSUME NEW w \in Workers, WorkerCrash(w)
      PROVE  IInv'
  <2>1. TypeOK'
    BY <1>10 DEF TypeOK, WorkerCrash, rowVars, workerVars, sweepVars, jobVars
  <2>2. RowsOK' /\ StampsBounded' /\ FenceExact' /\ NoReleaseAfterCancel'
    BY <1>10, QuietInv DEF WorkerCrash, rowVars, workerVars, sweepVars, jobVars
  <2>3. CancelStamped'
    BY <1>10 DEF CancelStamped, WorkerCrash, jobVars, Live
  <2>4. QED
    BY <2>1, <2>2, <2>3 DEF IInv
<1>11. ASSUME NEW m \in net, StartStep(m)
      PROVE  IInv'
  <2>1. RowWrite
    <3>1. m.step \in Steps /\ m.worker \in Workers
      BY DEF TypeOK, Request
    <3>2. /\ clock' = clock + 1 /\ owner' = owner /\ cancelPc' = cancelPc
          /\ swept' = swept /\ claiming' = claiming
          /\ row' = [row EXCEPT ![m.step] = MarkRunning(row[m.step], m.worker, clock + 1)]
      BY <1>11 DEF StartStep, sweepVars, jobVars
    <3>3. RowOK(m.step, MarkRunning(row[m.step], m.worker, clock + 1), clock + 1)
      BY <1>0, <3>1, ClaimOK
    <3>4. \A s \in Steps : RowOK(s, row'[s], clock')
      BY <1>0, <3>1, <3>2, <3>3, LaterOK
    <3>5. /\ MarkRunning(row[m.step], m.worker, clock + 1).startedAt = clock + 1
          /\ MarkRunning(row[m.step], m.worker, clock + 1).status = "running"
      BY <1>0, <3>1 DEF MarkRunning, RowOf
    <3>6. row' \in [Steps -> RowOf(Workers)]
      BY <1>0, <3>1, <3>2, <3>3 DEF RowOK
    <3>7. QED
      BY <1>0, <3>1, <3>2, <3>4, <3>5, <3>6 DEF RowWrite
  <2>2. TypeOK'
    BY <1>11, <2>1 DEF RowWrite, TypeOK, StartStep, rowVars, workerVars, sweepVars, jobVars, Exec, Request, Req, JobStatus
  <2>3. CancelStamped'
    BY <1>11 DEF CancelStamped, StartStep, jobVars, Live
  <2>4. QED
    BY <2>1, <2>2, <2>3, RowWriteInv
<1>12. ASSUME NEW m \in net, CompleteStep(m)
      PROVE  IInv'
  <2>1. RowWrite
    <3>1. m.step \in Steps
      BY DEF TypeOK, Request
    <3>2. /\ clock' = clock /\ owner' = owner /\ cancelPc' = cancelPc
          /\ swept' = swept /\ claiming' = claiming
      BY <1>12 DEF CompleteStep, sweepVars, jobVars
    <3>3. CASE row' = [row EXCEPT ![m.step] = MarkCompleted(@)]
      <4>1. RowOK(m.step, MarkCompleted(row[m.step]), clock)
            /\ MarkCompleted(row[m.step]).status = "completed"
        BY <1>0, <3>1, CancelOK DEF MarkCompleted, RowOf
      <4>2. QED
        BY <1>0, <3>1, <3>2, <3>3, <4>1 DEF RowWrite, RowOK
    <3>4. CASE row' = [row EXCEPT ![m.step] = FailOrRetry(@, MaxRetries[m.step])]
      BY <1>0, <3>1, <3>2, <3>4, FailOrRetryOK DEF RowWrite, RowOK
    <3>5. QED
      BY <1>12, <3>3, <3>4 DEF CompleteStep
  <2>2. TypeOK'
    BY <1>12, <2>1 DEF RowWrite, TypeOK, CompleteStep, rowVars, workerVars, sweepVars, jobVars
  <2>3. CancelStamped'
    BY <1>12 DEF CancelStamped, CompleteStep, jobVars, Live
  <2>4. QED
    BY <2>1, <2>2, <2>3, RowWriteInv
<1>13. ASSUME NEW w \in Workers, Heartbeat(w)
      PROVE  IInv'
  <2>1. TypeOK'
    BY <1>13 DEF TypeOK, Heartbeat, rowVars, workerVars, sweepVars, jobVars
  <2>2. RowsOK' /\ StampsBounded' /\ FenceExact' /\ NoReleaseAfterCancel'
    BY <1>13, QuietInv DEF Heartbeat, rowVars, workerVars, sweepVars, jobVars
  <2>3. CancelStamped'
    BY <1>13 DEF CancelStamped, Heartbeat, jobVars, Live
  <2>4. QED
    BY <2>1, <2>2, <2>3 DEF IInv
<1>14. ASSUME NEW w \in Workers, MarkStaleInactive(w)
      PROVE  IInv'
  <2>1. TypeOK'
    BY <1>14 DEF TypeOK, MarkStaleInactive, rowVars, workerVars, sweepVars, jobVars
  <2>2. RowsOK' /\ StampsBounded' /\ FenceExact' /\ NoReleaseAfterCancel'
    BY <1>14, QuietInv DEF MarkStaleInactive, rowVars, workerVars, sweepVars, jobVars
  <2>3. CancelStamped'
    BY <1>14 DEF CancelStamped, MarkStaleInactive, jobVars, Live
  <2>4. QED
    BY <2>1, <2>2, <2>3 DEF IInv
<1>15. ASSUME NEW w \in Workers, SelectStaleSteps(w)
      PROVE  IInv'
  <2> DEFINE T == {t \in Steps : row[t].status = "running" /\ row[t].worker = w}
  <2>1. /\ UNCHANGED <<row, clock, owner, claiming, cancelPc, jobStatus>>
        /\ swept' = swept \cup {ReadClaim(s) : s \in T}
    BY <1>15 DEF SelectStaleSteps, rowVars, jobVars
  <2>2. \A s \in T : row[s].worker \in Workers /\ row[s].startedAt >= 1
                     /\ row[s].startedAt <= clock /\ row[s].startedAt \in Nat
    BY <1>15, <1>0 DEF RowOK, RowOf, SelectStaleSteps
  <2>3. {ReadClaim(s) : s \in T} \subseteq SweptClaim
    BY <2>2 DEF ReadClaim, SweptClaim, TypeOK
  <2>4. TypeOK'
    BY <1>15, <2>1, <2>3 DEF TypeOK, SelectStaleSteps, rowVars, workerVars, jobVars
  <2>5. StampsBounded'
    BY <2>1, <2>2 DEF StampsBounded, ReadClaim
  <2>6. FenceExact'
    BY <2>1 DEF FenceExact, ReadClaim
  <2>7. QED
    BY <2>1, <2>4, <2>5, <2>6
    DEF RowsOK, CancelStamped, NoReleaseAfterCancel
<1>16. ASSUME NEW s1 \in Steps, SelectTimedOut(s1)
      PROVE  IInv'
  <2> DEFINE T == {s1}
  <2>1. /\ UNCHANGED <<row, clock, owner, claiming, cancelPc, jobStatus>>
        /\ swept' = swept \cup {ReadClaim(s) : s \in T}
    BY <1>16 DEF SelectTimedOut, rowVars, jobVars
  <2>2. \A s \in T : row[s].worker \in Workers /\ row[s].startedAt >= 1
                     /\ row[s].startedAt <= clock /\ row[s].startedAt \in Nat
    BY <1>16, <1>0 DEF RowOK, RowOf, SelectTimedOut
  <2>3. {ReadClaim(s) : s \in T} \subseteq SweptClaim
    BY <2>2 DEF ReadClaim, SweptClaim, TypeOK
  <2>4. TypeOK'
    BY <1>16, <2>1, <2>3 DEF TypeOK, SelectTimedOut, rowVars, workerVars, jobVars
  <2>5. StampsBounded'
    BY <2>1, <2>2 DEF StampsBounded, ReadClaim
  <2>6. FenceExact'
    BY <2>1 DEF FenceExact, ReadClaim
  <2>7. QED
    BY <2>1, <2>4, <2>5, <2>6
    DEF RowsOK, CancelStamped, NoReleaseAfterCancel
<1>17. ASSUME NEW c \in swept, FailSwept(c)
      PROVE  IInv'
  <2>1. RowWrite
    <3>1. c.step \in Steps /\ MaxRetries[c.step] \in Nat
      BY MaxRetriesAssumption DEF TypeOK, SweptClaim
    <3>2. /\ clock' = clock /\ owner' = owner /\ cancelPc' = cancelPc
          /\ swept' \subseteq swept /\ claiming' \subseteq claiming
      BY <1>17 DEF FailSwept, sweepVars, jobVars
    <3>3. CASE row' = row
      BY <1>0, <3>2, <3>3 DEF RowWrite
    <3>4. CASE row' = [row EXCEPT ![c.step] = FailOrRetry(@, MaxRetries[c.step])]
      BY <1>0, <3>1, <3>2, <3>4, FailOrRetryOK DEF RowWrite, RowOK
    <3>5. QED
      BY <1>17, <3>3, <3>4 DEF FailSwept, ClaimedStepFailed
  <2>2. TypeOK'
    BY <1>17, <2>1 DEF RowWrite, TypeOK, FailSwept, rowVars, workerVars, sweepVars, jobVars
  <2>3. CancelStamped'
    BY <1>17 DEF CancelStamped, FailSwept, jobVars, Live
  <2>4. QED
    BY <2>1, <2>2, <2>3, RowWriteInv
<1>18. ASSUME NEW s \in Steps, SelectUnmatched(s)
      PROVE  IInv'
  <2>1. TypeOK'
    BY <1>18 DEF TypeOK, SelectUnmatched, rowVars, workerVars, sweepVars, jobVars
  <2>2. RowsOK' /\ StampsBounded' /\ FenceExact' /\ NoReleaseAfterCancel'
    BY <1>18, QuietInv DEF SelectUnmatched, rowVars, workerVars, sweepVars, jobVars
  <2>3. CancelStamped'
    BY <1>18 DEF CancelStamped, SelectUnmatched, jobVars, Live
  <2>4. QED
    BY <2>1, <2>2, <2>3 DEF IInv
<1>19. ASSUME NEW s \in Steps, FailUnmatched(s)
      PROVE  IInv'
  <2>1. RowWrite
    <3>1. /\ clock' = clock /\ owner' = owner /\ cancelPc' = cancelPc
          /\ swept' = swept /\ claiming' = claiming
          /\ row' = [row EXCEPT ![s] = FailOrRetry(row[s], MaxRetries[s])]
      BY <1>19 DEF FailUnmatched, jobVars
    <3>2. QED
      BY <1>0, <3>1, FailOrRetryOK DEF RowWrite, RowOK
  <2>2. TypeOK'
    BY <1>19, <2>1 DEF RowWrite, TypeOK, FailUnmatched, rowVars, workerVars, sweepVars, jobVars
  <2>3. CancelStamped'
    BY <1>19 DEF CancelStamped, FailUnmatched, jobVars, Live
  <2>4. QED
    BY <2>1, <2>2, <2>3, RowWriteInv
<1>20. ASSUME CancelJob PROVE IInv'
  <2>1. TypeOK'
    BY <1>20 DEF TypeOK, CancelJob, rowVars, workerVars, sweepVars, jobVars, JobStatus
  <2>2. RowsOK' /\ StampsBounded' /\ FenceExact' /\ NoReleaseAfterCancel'
    BY <1>20, QuietInv DEF CancelJob, rowVars, workerVars, sweepVars, jobVars
  <2>3. CancelStamped'
    BY <1>20 DEF CancelStamped, CancelJob, jobVars, Live
  <2>4. QED
    BY <2>1, <2>2, <2>3 DEF IInv
<1>21. ASSUME CancelSteps PROVE IInv'
  <2>1. /\ UNCHANGED <<clock, owner, claiming, swept, jobStatus>>
        /\ cancelPc = "stamped" /\ cancelPc' = "done"
        /\ row' = [s \in Steps |-> CancelPending(row[s])]
    BY <1>21 DEF CancelSteps, sweepVars
  <2>2. \A s \in Steps : RowOK(s, row'[s], clock')
    BY <1>0, <2>1, CancelOK
  <2>3. \A s \in Steps : /\ row'[s].status # "ready"
                         /\ row'[s].status = "running" => row'[s] = row[s]
    BY <1>0, <2>1, CancelPendingRow
  <2>4. row' \in [Steps -> RowOf(Workers)]
    BY <2>1, <2>2 DEF RowOK
  <2>5. TypeOK'
    BY <1>21, <2>1, <2>4 DEF TypeOK, CancelSteps, workerVars, sweepVars
  <2>6. StampsBounded' /\ CancelStamped' /\ NoReleaseAfterCancel'
    BY <2>1, <2>3 DEF StampsBounded, CancelStamped, NoReleaseAfterCancel
  <2>7. FenceExact'
    BY <2>1, <2>3 DEF FenceExact, HoldsClaim, SameClaim, TypeOK, Claim, SweptClaim
  <2>8. QED
    BY <2>2, <2>5, <2>6, <2>7 DEF RowsOK
<1>22. ASSUME Decide PROVE IInv'
  <2>1. TypeOK'
    BY <1>22 DEF TypeOK, Decide, rowVars, workerVars, sweepVars, jobVars, Outcome
  <2>2. RowsOK' /\ StampsBounded' /\ FenceExact' /\ NoReleaseAfterCancel'
    BY <1>22, QuietInv DEF Decide, rowVars, workerVars, sweepVars, jobVars
  <2>3. CancelStamped'
    BY <1>22 DEF CancelStamped, Decide, jobVars, Live
  <2>4. QED
    BY <2>1, <2>2, <2>3 DEF IInv
<1>23. ASSUME NEW o \in decided, Settle(o)
      PROVE  IInv'
  <2>1. TypeOK'
    BY <1>23 DEF TypeOK, Settle, rowVars, workerVars, sweepVars, jobVars, JobStatus
  <2>2. RowsOK' /\ StampsBounded' /\ FenceExact' /\ NoReleaseAfterCancel'
    BY <1>23, QuietInv DEF Settle, rowVars, workerVars, sweepVars, jobVars
  <2>3. CancelStamped'
    BY <1>23 DEF CancelStamped, Settle, jobVars, Live
  <2>4. QED
    BY <2>1, <2>2, <2>3 DEF IInv
<1>24. ASSUME ServerCrash PROVE IInv'
  <2>1. TypeOK'
    BY <1>24 DEF TypeOK, ServerCrash, rowVars, workerVars, sweepVars, jobVars
  <2>2. RowsOK' /\ StampsBounded' /\ FenceExact' /\ NoReleaseAfterCancel'
    BY <1>24, QuietInv DEF ServerCrash, rowVars, workerVars, sweepVars, jobVars
  <2>3. CancelStamped'
    BY <1>24 DEF CancelStamped, ServerCrash, jobVars, Live
  <2>4. QED
    BY <2>1, <2>2, <2>3 DEF IInv
<1>25. CASE UNCHANGED vars
  <2>1. TypeOK' /\ CancelStamped'
    BY <1>25 DEF vars, TypeOK, CancelStamped
  <2>2. QED
    BY <1>25, <2>1, QuietInv DEF vars
<1>26. QED
  BY <1>1, <1>2, <1>3, <1>4, <1>5, <1>6, <1>7, <1>8, <1>9, <1>10, <1>11, <1>12, <1>13,
     <1>14, <1>15, <1>16, <1>17, <1>18, <1>19, <1>20, <1>21, <1>22, <1>23, <1>24, <1>25
  DEF Next, ClaimStep, ExecStep, ReportStep, SweepStep, JobStep, Fault

(* The rows as created satisfy the inductive invariant.                    *)
LEMMA InitInv == Init => IInv
<1>1. SUFFICES ASSUME Init PROVE IInv
  OBVIOUS
<1>2. \A s \in Steps : RowOK(s, NewRow("ready"), 0) /\ NewRow("ready") \in RowOf(Workers)
  BY MaxRetriesAssumption, ReleaseAssumption DEF RowOK, NewRow, RowOf, StepStatus, Null
<1>3. TypeOK
  BY <1>1, <1>2 DEF Init, TypeOK, JobStatus, Null
<1>4. RowsOK
  BY <1>1, <1>2 DEF Init, RowsOK
<1>5. StampsBounded /\ FenceExact /\ CancelStamped /\ NoReleaseAfterCancel
  BY <1>1 DEF Init, StampsBounded, FenceExact, CancelStamped, NoReleaseAfterCancel, Null
<1>6. QED
  BY <1>3, <1>4, <1>5 DEF IInv

(* The inductive invariant holds in every reachable state.                 *)
LEMMA InvariantHolds == Spec => []IInv
<1>1. IInv /\ [Next]_vars => IInv'
  BY NextInv
<1>2. QED
  BY InitInv, <1>1, PTL DEF Spec

-----------------------------------------------------------------------------
(* Every variable keeps its type, for any steps, workers and limits.  In   *)
(* particular every claim the sweep reads off a running row names a        *)
(* worker: no path leaves a row running without one.                       *)
THEOREM TypeCorrect == Spec => []TypeOK
<1>1. IInv => TypeOK
  BY DEF IInv
<1>2. QED
  BY InvariantHolds, <1>1, PTL

(* fail_or_retry never exceeds max_retries and release_claim never exceeds *)
(* MAX_PIN_RELEASES, however many duplicate reports and sweeps apply.      *)
THEOREM BudgetsAreKept == Spec => []BudgetsKept
<1>1. IInv => BudgetsKept
  BY DEF IInv, RowsOK, RowOK, BudgetsKept
<1>2. QED
  BY InvariantHolds, <1>1, PTL

(* A ready row carries no claim and a running row carries one. *)
THEOREM ClaimColumnsFit == Spec => []ClaimColumns
<1>1. ASSUME IInv PROVE ClaimColumns
  <2>1. SUFFICES ASSUME NEW s \in Steps
                 PROVE  /\ row[s].status = "ready" =>
                             row[s].worker = NoWorker /\ row[s].startedAt = Null
                        /\ row[s].status = "running" =>
                             row[s].worker \in Workers /\ row[s].startedAt \in 1..clock
    BY DEF ClaimColumns, SameClaim
  <2>2. RowOK(s, row[s], clock) /\ clock \in Nat /\ row[s].startedAt \in Nat
    BY <1>1 DEF IInv, RowsOK, TypeOK, RowOf
  <2>3. QED
    BY <2>2 DEF RowOK
<1>2. QED
  BY InvariantHolds, <1>1, PTL

(* The pair (worker_id, started_at) that fences recovery, release and      *)
(* claim failure identifies one claim: it never matches a later run of the *)
(* step, because every statement that leaves a row running writes a stamp  *)
(* newer than any claim already read.                                      *)
THEOREM FenceIsExact == Spec => []FenceExact
<1>1. IInv => FenceExact
  BY DEF IInv
<1>2. QED
  BY InvariantHolds, <1>1, PTL

(* A release that races the cancel of its job never puts a step back to    *)
(* ready behind cancel_pending_steps, whatever the interleaving.           *)
THEOREM ReleaseRespectsCancel == Spec => []NoReleaseAfterCancel
<1>1. IInv => NoReleaseAfterCancel
  BY DEF IInv
<1>2. QED
  BY InvariantHolds, <1>1, PTL

(* The job row never leaves a terminal status. *)
THEOREM JobStatusIsFinal == Spec => JobStatusFinal
<1>1. ASSUME [Next]_vars, jobStatus \notin Live PROVE jobStatus' = jobStatus
  <2> USE <1>1 DEF Live, jobVars
  <2>1. CASE ClaimStep
    BY <2>1 DEF ClaimStep, ClaimJob, AnswerClaim, FailClaim, ReleaseOrFailClaim
  <2>2. CASE ExecStep
    BY <2>2 DEF ExecStep, FetchFails, SendStart, StartAnswered, StartErrs, Finish
  <2>3. CASE ReportStep
    BY <2>3 DEF ReportStep, StartStep, CompleteStep
  <2>4. CASE SweepStep
    BY <2>4 DEF SweepStep, MarkStaleInactive, SelectStaleSteps, SelectTimedOut,
                SelectUnmatched, FailUnmatched, FailSwept
  <2>5. CASE JobStep
    BY <2>5 DEF JobStep, CancelJob, CancelSteps, Decide, Settle
  <2>6. CASE Fault
    BY <2>6 DEF Fault, ServerCrash, WorkerCrash
  <2>7. CASE \E w \in Workers : Heartbeat(w)
    BY <2>7 DEF Heartbeat
  <2>8. CASE UNCHANGED vars
    BY <2>8 DEF vars
  <2>9. QED
    BY <2>1, <2>2, <2>3, <2>4, <2>5, <2>6, <2>7, <2>8 DEF Next
<1>2. [Next]_vars => [jobStatus \notin Live => jobStatus' = jobStatus]_vars
  BY <1>1
<1>3. QED
  BY <1>2, PTL DEF Spec, JobStatusFinal
=============================================================================
