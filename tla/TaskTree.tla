------------------------------ MODULE TaskTree ------------------------------
(***************************************************************************)
(* `type: task` steps: the server dispatches them as child jobs, and the   *)
(* end of a child ends the step.                                           *)
(*                                                                         *)
(* Any report about the parent job starts an advance of it (a dispatcher), *)
(* and several may run at once.  A dispatcher reads the steps, resolves    *)
(* the task of each ready one (a templated ref is stamped on the row),     *)
(* claims it, creates the child, and at the end of the pass reconciles     *)
(* children that were over at creation.  A child that ends later is        *)
(* advanced by whoever reported its end, which hands its outcome to the    *)
(* parent step.  Meanwhile the step may time out, the parent job may be    *)
(* cancelled, and replicas may die.  The child's own steps are reduced to  *)
(* one worker step.                                                        *)
(***************************************************************************)
EXTENDS Naturals, FiniteSets

CONSTANTS
  Steps,         \* the task steps of the parent job
  Dispatchers,   \* concurrent advances of the parent job
  Templated,     \* the steps whose `ref:` is a template
  Commits,       \* the commits a ref may resolve to
  StepRetries,   \* [Steps -> Nat], job_step.max_retries
  TimesOut,      \* the steps with timeout_secs
  MaxAdvances,   \* bound: advances of the parent job
  MaxFaults      \* bound: timeouts, cancels and crashes together

ASSUME TreeAssumption ==
  /\ Templated \subseteq Steps /\ TimesOut \subseteq Steps
  /\ StepRetries \in [Steps -> Nat] /\ MaxAdvances \in Nat /\ MaxFaults \in Nat
ASSUME NoCommitIsAMark == Commits \cap {"none", "live"} = {}

VARIABLES
  job,         \* status of the parent job
  step,        \* [status, stamp, attempt] of its task steps
  child,       \* [pin, status, busy, adv, recorded] of the child jobs
  told,        \* how often a child's outcome was written to the parent step
  dispatcher,  \* [pc, seen, at, pin, try, kids]
  cancel,      \* [pc, kids]: the request that cancels the parent job
  advances,    \* advances of the parent job so far
  faults,      \* timeouts, cancels and crashes so far
  crashed      \* a replica died

counters == <<advances, faults, crashed>>
vars == <<job, step, child, told, dispatcher, cancel, advances, faults, crashed>>

Live == {"pending", "running"}
Final == {"completed", "failed", "cancelled"}

(* "none": unstamped; a child of an unstamped step runs the live revision. *)
Stamps == Commits \cup {"none"}
ChildPin(stamp) == IF stamp = "none" THEN "live" ELSE stamp

(* A child is named after the claim it was created under. *)
Children == {<<s, d, n>> : s \in Steps, d \in Dispatchers,
                           n \in UNION {0..StepRetries[s] : s \in Steps}}
StepOf(c) == c[1]
TryOf(c) == c[3]
NoChild == [pin |-> "none", status |-> "none", busy |-> FALSE, adv |-> FALSE,
            recorded |-> FALSE]
Made(c) == child[c].status # "none"
Over(c) == child[c].status \in Final

NoStep == "none"
Unseen == [s \in Steps |-> "unseen"]
IdleDispatcher == [pc |-> "idle", seen |-> Unseen, at |-> NoStep, pin |-> "none",
                   try |-> 0, kids |-> {}]

Goto(d, pc) == dispatcher' = [dispatcher EXCEPT ![d].pc = pc]
NextStep(d) == dispatcher' = [dispatcher EXCEPT ![d] =
                 [IdleDispatcher EXCEPT !.pc = "pass", !.seen = dispatcher[d].seen]]

Init ==
  /\ job = "pending"
  /\ step = [s \in Steps |-> [status |-> "ready", stamp |-> "none", attempt |-> 0]]
  /\ child = [c \in Children |-> NoChild]
  /\ told = [c \in Children |-> 0]
  /\ dispatcher = [d \in Dispatchers |-> IdleDispatcher]
  /\ cancel = [pc |-> "idle", kids |-> {}]
  /\ advances = 0 /\ faults = 0 /\ crashed = FALSE

-----------------------------------------------------------------------------
(***************************************************************************)
(* handle_task_steps: one pass of an advance                               *)
(***************************************************************************)

(* The pass reads the step rows: the ready ones with their stamps.         *)
ReadSteps(d) ==
  /\ dispatcher[d].pc = "idle" /\ job \in Live /\ advances < MaxAdvances
  /\ advances' = advances + 1
  /\ dispatcher' = [dispatcher EXCEPT ![d] = [IdleDispatcher EXCEPT
       !.pc = "pass",
       !.seen = [s \in Steps |-> IF step[s].status = "ready" THEN step[s].stamp ELSE "unseen"]]]
  /\ UNCHANGED <<job, step, child, told, cancel, faults, crashed>>

(* The next ready step of the snapshot, with the stamp to go by. *)
Take(d, s, p) ==
  dispatcher' = [dispatcher EXCEPT ![d].pc = "claim", ![d].at = s, ![d].pin = p,
                                   ![d].seen[s] = "unseen"]
Skip(d, s) == dispatcher' = [dispatcher EXCEPT ![d].seen[s] = "unseen"]

(* resolve_templated_task_ref: the ref is rendered, its commit selected,   *)
(* and stamped only on a ready, unstamped row; otherwise the step moved    *)
(* and is left alone.                                                      *)
StampPin(d, s) ==
  /\ dispatcher[d].pc = "pass" /\ s \in Templated /\ dispatcher[d].seen[s] = "none"
  /\ \E p \in Commits :
       IF step[s].status = "ready" /\ step[s].stamp = "none"
       THEN step' = [step EXCEPT ![s].stamp = p] /\ Take(d, s, p)
       ELSE Skip(d, s) /\ UNCHANGED step
  /\ UNCHANGED <<job, child, told, cancel, counters>>

(* No ref to resolve: a static action, a template that rendered empty      *)
(* without a pin to inherit, or a row that is stamped already.             *)
UseStamp(d, s) ==
  /\ dispatcher[d].pc = "pass" /\ dispatcher[d].seen[s] # "unseen"
  /\ Take(d, s, dispatcher[d].seen[s])
  /\ UNCHANGED <<job, step, child, told, cancel, counters>>

(* Mutant: the failure is written whatever the row has become. *)
FailAnyway(d, expected) ==
  /\ step' = [step EXCEPT ![dispatcher[d].at].status = "failed"]
  /\ NextStep(d)
  /\ UNCHANGED <<job, child, told, cancel, counters>>

(* fail_task_step: depth, resolution or rendering failed.  Written only on *)
(* a row of the expected status that carries the dispatcher's stamp.       *)
FailDispatch(d, expected) ==
  LET s == dispatcher[d].at IN
  /\ step' = IF step[s].status = expected /\ step[s].stamp = dispatcher[d].pin
             THEN [step EXCEPT ![s].status = "failed"] ELSE step
  /\ NextStep(d)
  /\ UNCHANGED <<job, child, told, cancel, counters>>

FailBeforeClaim(d) == dispatcher[d].pc = "claim" /\ FailDispatch(d, "ready")

(* Mutant: the dispatch claim does not compare the stamp. *)
ClaimAnyStamp(d) ==
  LET s == dispatcher[d].at IN
  /\ dispatcher[d].pc = "claim"
  /\ IF step[s].status = "ready"
     THEN /\ step' = [step EXCEPT ![s].status = "running"]
          /\ job' = IF job = "pending" THEN "running" ELSE job
          /\ dispatcher' = [dispatcher EXCEPT ![d].pc = "create", ![d].try = step[s].attempt]
     ELSE NextStep(d) /\ UNCHANGED <<job, step>>
  /\ UNCHANGED <<child, told, cancel, counters>>

(* Mutant: mark_running_server, whose row count is not looked at. *)
ClaimUnchecked(d) ==
  LET s == dispatcher[d].at IN
  /\ dispatcher[d].pc = "claim"
  /\ step' = [step EXCEPT ![s].status = IF @ = "ready" THEN "running" ELSE @]
  /\ job' = IF job = "pending" THEN "running" ELSE job
  /\ dispatcher' = [dispatcher EXCEPT ![d].pc = "create", ![d].try = step[s].attempt]
  /\ UNCHANGED <<child, told, cancel, counters>>

(* claim_task_dispatch: ready to running, only with the stamp this pass    *)
(* resolved with; then the job starts.  Who loses creates no child.        *)
ClaimDispatch(d) ==
  LET s == dispatcher[d].at IN
  /\ dispatcher[d].pc = "claim"
  /\ IF step[s].status = "ready" /\ step[s].stamp = dispatcher[d].pin
     THEN /\ step' = [step EXCEPT ![s].status = "running"]
          /\ job' = IF job = "pending" THEN "running" ELSE job
          /\ dispatcher' = [dispatcher EXCEPT ![d].pc = "create", ![d].try = step[s].attempt]
     ELSE NextStep(d) /\ UNCHANGED <<job, step>>
  /\ UNCHANGED <<child, told, cancel, counters>>

(* create_job_for_task_inner: the child is committed and initialised.  It  *)
(* may be over at once (all its steps skipped, or its initialisation       *)
(* failed); nobody advances it then but the reconciliation below.          *)
CreateChild(d) ==
  LET c == <<dispatcher[d].at, d, dispatcher[d].try>> IN
  /\ dispatcher[d].pc = "create"
  /\ \E born \in {"pending", "completed", "failed"} :
       child' = [child EXCEPT ![c] = [NoChild EXCEPT !.pin = ChildPin(dispatcher[d].pin),
                                                     !.status = born]]
  /\ NextStep(d)
  /\ UNCHANGED <<job, step, told, cancel, counters>>

FailAfterClaim(d) == dispatcher[d].pc = "create" /\ FailDispatch(d, "running")

-----------------------------------------------------------------------------
(***************************************************************************)
(* The end of a child                                                      *)
(***************************************************************************)

(* get_settled_descendants_with_running_parent_step. *)
Settled(c) ==
  /\ Over(c) /\ ~child[c].busy
  /\ step[StepOf(c)].status = "running"

(* Mutant: no reconciliation. *)
SkipReconcile(d) ==
  /\ dispatcher[d].pc = "pass" /\ dispatcher[d].seen = Unseen
  /\ Goto(d, "settle")
  /\ UNCHANGED <<job, step, child, told, cancel, counters>>

(* reconcile, after the pass: every such child is advanced, which claims   *)
(* its terminal handling and propagates.                                   *)
Reconcile(d) ==
  LET due == {c \in Children : Settled(c) /\ ~child[c].recorded} IN
  /\ dispatcher[d].pc = "pass" /\ dispatcher[d].seen = Unseen
  /\ IF due = {}
     THEN Goto(d, "settle") /\ UNCHANGED child
     ELSE \E c \in due :
            /\ child' = [child EXCEPT ![c].recorded = TRUE]
            /\ dispatcher' = [dispatcher EXCEPT ![d].pc = "tell", ![d].kids = {c}]
  /\ UNCHANGED <<job, step, told, cancel, counters>>

(* propagate: the child's outcome is written to the parent step; only the  *)
(* cancelled one compares the row's status.                                *)
Told(c) ==
  IF child[c].status = "cancelled"
  THEN [step EXCEPT ![StepOf(c)].status = IF @ = "running" THEN "cancelled" ELSE @]
  ELSE [step EXCEPT ![StepOf(c)].status = child[c].status]

TellParent(d) ==
  /\ dispatcher[d].pc = "tell"
  /\ \E c \in dispatcher[d].kids : step' = Told(c) /\ told' = [told EXCEPT ![c] = @ + 1]
  /\ dispatcher' = [dispatcher EXCEPT ![d].pc = "pass", ![d].kids = {}]
  /\ UNCHANGED <<job, child, cancel, counters>>

AllTerminal == \A s \in Steps : step[s].status \in Final
Outcome ==
  IF \E s \in Steps : step[s].status = "failed" THEN "failed"
  ELSE IF \E s \in Steps : step[s].status = "cancelled" THEN "cancelled"
  ELSE "completed"

(* settle_if_all_terminal, guarded on a live row. *)
SettleParent(d) ==
  /\ dispatcher[d].pc = "settle"
  /\ job' = IF AllTerminal /\ job \in Live THEN Outcome ELSE job
  /\ dispatcher' = [dispatcher EXCEPT ![d] = IdleDispatcher]
  /\ UNCHANGED <<step, child, told, cancel, counters>>

(* A worker takes up the child's step and reports its end, which settles a *)
(* live child and advances it.                                             *)
ChildStarts(c) ==
  /\ child[c].status = "pending" /\ ~child[c].busy
  /\ child' = [child EXCEPT ![c].status = "running", ![c].busy = TRUE]
  /\ UNCHANGED <<job, step, told, dispatcher, cancel, counters>>

ChildEnds(c) ==
  /\ child[c].busy
  /\ \E o \in {"completed", "failed"} :
       child' = [child EXCEPT ![c].busy = FALSE, ![c].adv = TRUE,
                              ![c].status = IF @ = "running" THEN o ELSE @]
  /\ UNCHANGED <<job, step, told, dispatcher, cancel, counters>>

(* Mutant: the claim is set without being compared. *)
ClaimChildAgain(c) ==
  /\ child[c].adv /\ Over(c)
  /\ child' = [child EXCEPT ![c].adv = FALSE, ![c].recorded = @ \/ ~child[c].busy]
  /\ IF child[c].busy
     THEN UNCHANGED <<step, told>>
     ELSE step' = Told(c) /\ told' = [told EXCEPT ![c] = @ + 1]
  /\ UNCHANGED <<job, dispatcher, cancel, counters>>

(* advance of the child: drain gate, then the claim of its terminal        *)
(* handling.                                                               *)
ClaimChild(c) ==
  /\ child[c].adv /\ Over(c)
  /\ child' = [child EXCEPT ![c].adv = FALSE,
                            ![c].recorded = @ \/ ~child[c].busy]
  /\ IF child[c].busy \/ child[c].recorded
     THEN UNCHANGED <<step, told>>
     ELSE step' = Told(c) /\ told' = [told EXCEPT ![c] = @ + 1]
  /\ UNCHANGED <<job, dispatcher, cancel, counters>>

-----------------------------------------------------------------------------
(***************************************************************************)
(* Timeouts, cancel, crash                                                 *)
(***************************************************************************)

Fault == faults < MaxFaults /\ faults' = faults + 1

(* Recovery phase 2: a task step has no claim identity, so the failure     *)
(* applies to whatever is running now; the child is left alone.            *)
TimeOut(s) ==
  /\ Fault /\ s \in TimesOut /\ step[s].status = "running"
  /\ step' = IF step[s].attempt < StepRetries[s]
             THEN [step EXCEPT ![s].status = "ready", ![s].attempt = @ + 1]
             ELSE [step EXCEPT ![s].status = "failed"]
  /\ UNCHANGED <<job, child, told, dispatcher, cancel, advances, crashed>>

(* cancel: the job row, its unclaimed steps, its server-managed steps, and *)
(* then the children that are live at that moment.                         *)
CancelJob ==
  /\ Fault /\ cancel.pc = "idle" /\ job \in Live
  /\ job' = "cancelled"
  /\ cancel' = [cancel EXCEPT !.pc = "steps"]
  /\ UNCHANGED <<step, child, told, dispatcher, advances, crashed>>

CancelSteps ==
  /\ cancel.pc = "steps"
  /\ step' = [s \in Steps |-> IF step[s].status = "ready"
                              THEN [step[s] EXCEPT !.status = "cancelled"] ELSE step[s]]
  /\ cancel' = [cancel EXCEPT !.pc = "managed"]
  /\ UNCHANGED <<job, child, told, dispatcher, counters>>

CancelServerManaged ==
  /\ cancel.pc = "managed"
  /\ step' = [s \in Steps |-> IF step[s].status = "running"
                              THEN [step[s] EXCEPT !.status = "cancelled"] ELSE step[s]]
  /\ cancel' = [cancel EXCEPT !.pc = "list"]
  /\ UNCHANGED <<job, child, told, dispatcher, counters>>

ListChildren ==
  /\ cancel.pc = "list"
  /\ cancel' = [pc |-> "kids", kids |-> {c \in Children : child[c].status \in Live}]
  /\ UNCHANGED <<job, step, child, told, dispatcher, counters>>

(* The recursive cancel of one child: AlreadyTerminal if it ended first. *)
CancelChild(c) ==
  /\ cancel.pc = "kids" /\ c \in cancel.kids
  /\ child' = IF child[c].status \in Live
              THEN [child EXCEPT ![c].status = "cancelled", ![c].adv = TRUE] ELSE child
  /\ cancel' = [cancel EXCEPT !.kids = @ \ {c}]
  /\ UNCHANGED <<job, step, told, dispatcher, counters>>

EndCancel ==
  /\ cancel.pc = "kids" /\ cancel.kids = {}
  /\ cancel' = [cancel EXCEPT !.pc = "done"]
  /\ UNCHANGED <<job, step, child, told, dispatcher, counters>>

(* The replica of a dispatcher, or of a child's advance, dies. *)
CrashDispatcher(d) ==
  /\ Fault /\ crashed' = TRUE /\ dispatcher[d].pc # "idle"
  /\ dispatcher' = [dispatcher EXCEPT ![d] = IdleDispatcher]
  /\ UNCHANGED <<job, step, child, told, cancel, advances>>

CrashAdvance(c) ==
  /\ Fault /\ crashed' = TRUE /\ child[c].adv
  /\ \E claimed \in BOOLEAN :
       child' = [child EXCEPT ![c].adv = FALSE,
                              ![c].recorded = @ \/ (claimed /\ Over(c) /\ ~child[c].busy)]
  /\ UNCHANGED <<job, step, told, dispatcher, cancel, advances>>

-----------------------------------------------------------------------------
DispatcherStep(d) ==
  \/ \E s \in Steps : StampPin(d, s) \/ UseStamp(d, s)
  \/ FailBeforeClaim(d) \/ ClaimDispatch(d)
  \/ CreateChild(d) \/ FailAfterClaim(d)
  \/ Reconcile(d) \/ TellParent(d) \/ SettleParent(d)

CancelStep ==
  \/ CancelSteps \/ CancelServerManaged \/ ListChildren \/ EndCancel
  \/ \E c \in Children : CancelChild(c)

Next ==
  \/ \E d \in Dispatchers : ReadSteps(d) \/ DispatcherStep(d) \/ CrashDispatcher(d)
  \/ \E c \in Children : ChildStarts(c) \/ ChildEnds(c) \/ ClaimChild(c) \/ CrashAdvance(c)
  \/ \E s \in Steps : TimeOut(s)
  \/ CancelJob \/ CancelStep

Spec == Init /\ [][Next]_vars

(***************************************************************************)
(* Fairness: requests run on, workers take up and end the child's step,    *)
(* and the advance its report starts is performed.  An advance of the      *)
(* parent, a timeout or a cancel need never happen.                        *)
(***************************************************************************)
FairSpec ==
  /\ Spec
  /\ \A d \in Dispatchers : WF_vars(DispatcherStep(d))
  /\ \A c \in Children : WF_vars(ChildStarts(c)) /\ WF_vars(ChildEnds(c)) /\ WF_vars(ClaimChild(c))
  /\ WF_vars(CancelStep)

-----------------------------------------------------------------------------
(***************************************************************************)
(* Properties                                                              *)
(***************************************************************************)

(* Rows and requests hold values of their kind. *)
TypeOK ==
  /\ job \in Live \cup Final
  /\ step \in [Steps -> [status : Final \cup {"ready", "running"}, stamp : Stamps,
                         attempt : Nat]]
  /\ \A s \in Steps : step[s].attempt <= StepRetries[s]
  /\ child \in [Children -> [pin : Commits \cup {"none", "live"},
                             status : Live \cup Final \cup {"none"},
                             busy : BOOLEAN, adv : BOOLEAN, recorded : BOOLEAN]]
  /\ told \in [Children -> Nat]
  /\ dispatcher \in [Dispatchers ->
       [pc : {"idle", "pass", "claim", "create", "tell", "settle"},
        seen : [Steps -> Stamps \cup {"unseen"}], at : Steps \cup {NoStep},
        pin : Stamps, try : Nat, kids : SUBSET Children]]
  /\ cancel \in [pc : {"idle", "steps", "managed", "list", "kids", "done"},
                 kids : SUBSET Children]
  /\ advances \in 0..MaxAdvances /\ faults \in 0..MaxFaults /\ crashed \in BOOLEAN

(* Dispatch is exclusive: however many advances read a step ready, one     *)
(* attempt of it starts at most one child job (job_step.rs,                *)
(* claim_task_dispatch).  The guide to cross-workspace references still    *)
(* lists the double dispatch among its caveats; the claim closed it.       *)
OneChildPerAttempt ==
  \A c1, c2 \in Children :
    Made(c1) /\ Made(c2) /\ StepOf(c1) = StepOf(c2) /\ TryOf(c1) = TryOf(c2) => c1 = c2

(* The child of the current attempt runs at the commit its step is stamped *)
(* with (live if unstamped), and so does every pinned child of an earlier  *)
(* attempt, although dispatchers may resolve the ref to other commits.     *)
ChildAtStamp ==
  \A c \in Children :
    Made(c) /\ (TryOf(c) = step[StepOf(c)].attempt \/ child[c].pin # "live")
      => child[c].pin = ChildPin(step[StepOf(c)].stamp)

(* The step did not time out: no fault, no timeout, or a first attempt of  *)
(* a step that a timeout would have retried.                               *)
InTime(s) ==
  faults = 0 \/ s \notin TimesOut \/ (step[s].attempt = 0 /\ StepRetries[s] # 0)

(* A dispatcher that works from a stale read does not fail the step under  *)
(* the one that won: unless the step timed out, a failed step has no child *)
(* at work, whatever crashes and cancels (job_step.rs,                     *)
(* fail_task_dispatch).  The guide to cross-workspace references still     *)
(* lists this among its caveats; the fence closed it.  Not claimed after a *)
(* timeout: it leaves the child alone, and the fence compares status and   *)
(* stamp, which the next attempt has in common with the one before.        *)
LoserCannotFail ==
  \A s \in Steps : step[s].status = "failed" /\ InTime(s) =>
    \A c \in Children : StepOf(c) = s => child[c].status \notin Live

(* No crash: a dispatched step does not wait for ever, also when its child *)
(* was over at creation and nobody will report its end.                    *)
AnswerArrives ==
  \A s \in Steps : step[s].status = "running" ~> step[s].status # "running" \/ crashed

(* Children end once and are handed over once. *)
Calls == INSTANCE TaskCalls WITH
  Pins <- Commits \cup {"live"}, Outcomes <- Final, None <- "none",
  pin <- [c \in Children |-> child[c].pin],
  outcome <- [c \in Children |-> IF Over(c) THEN child[c].status ELSE "none"]
ImplementsCalls == Calls!Spec

(* API reference, on cancelling a job: "Child jobs are recursively         *)
(* cancelled."                                                             *)
CancelReachesChildren ==
  cancel.pc = "done" => \A c \in Children : child[c].status \notin Live
=============================================================================
