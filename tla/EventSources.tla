---------------------------- MODULE EventSources ----------------------------
(***************************************************************************)
(* The event source manager for one trigger: every pass of the leader      *)
(* compares the desired consumer with the active jobs of the source and    *)
(* with those that ended within the window, then creates, replaces,        *)
(* cancels or restarts.  A consumer emits events; each becomes a job with  *)
(* the same source_type and source_id as the consumer itself.              *)
(*                                                                         *)
(* A job occupies a slot while a query of the manager can return it.       *)
(***************************************************************************)
EXTENDS Integers, FiniteSets

CONSTANTS
  Slots,        \* bound: jobs of the source the queries can see at once, from 1
  Prints,       \* fingerprints of the trigger's configurations
  NoPrint,      \* no fingerprint; as desired: the trigger is gone
  RestartPolicy,\* "always", "on_failure" or "never"
  Window,       \* ticks a job that ended stays visible ("10 minutes")
  BackoffCap,   \* longest backoff, in ticks
  MaxEdits      \* bound: changes of the trigger

ASSUME EventSourceAssumption ==
  /\ RestartPolicy \in {"always", "on_failure", "never"}
  /\ Window \in Nat /\ BackoffCap \in 1..Window

VARIABLES
  wanted,    \* the fingerprint collect_desired computes, or NoPrint
  consumer,  \* [Slots -> job]
  pass,      \* the reconcile pass: [pc, cancel, create]
  edits

sourceVars == <<wanted, consumer, pass, edits>>

NoJob == [st |-> "none", kind |-> "consumer", fp |-> NoPrint, fails |-> 0, age |-> 0]
Ended == {"completed", "failed"}
MaxFails == BackoffCap
IdlePass == [pc |-> "idle", cancel |-> {}, create |-> {}]

SourceInit ==
  /\ wanted = NoPrint /\ edits = 0
  /\ consumer = [i \in Slots |-> NoJob]
  /\ pass = IdlePass

-----------------------------------------------------------------------------
(* load_active_event_source_jobs and load_terminal_event_source_jobs. *)
ActiveIn(jobs) == {i \in Slots : jobs[i].st = "active"}
EndedIn(jobs) == {i \in Slots : jobs[i].st \in Ended}

Consumer(fp, fails) ==
  [st |-> "active", kind |-> "consumer", fp |-> fp, fails |-> fails, age |-> 0]

(* Step 5, for a job that ended. *)
NextFails(j) == IF j.st # "failed" THEN 0 ELSE IF j.fails < MaxFails THEN j.fails + 1 ELSE j.fails
Delay(n) == IF n <= 1 THEN 1 ELSE IF 2^(n - 1) < BackoffCap THEN 2^(n - 1) ELSE BackoffCap
ShouldRestart(j) ==
  \/ RestartPolicy = "always"
  \/ RestartPolicy = "on_failure" /\ j.st = "failed"
Restarts(jobs) ==
  {i \in EndedIn(jobs) :
     ShouldRestart(jobs[i]) /\ jobs[i].age >= Delay(NextFails(jobs[i]))}

(* A pass cancels the jobs of some slots and creates consumers: create is  *)
(* the set of [of, job], one for each job it restarts (0: the trigger).    *)
Plan(S, new) == [cancel |-> S, create |-> new]
First(fp) == {[of |-> 0, job |-> Consumer(fp, 0)]}
Nothing == [of |-> -1, job |-> NoJob]

(* Step 3 with active jobs: keep one with the current fingerprint, else    *)
(* any; cancel the others; replace the one kept when its fingerprint is    *)
(* another.                                                                *)
Keepable(jobs, fp) ==
  LET matching == {i \in ActiveIn(jobs) : jobs[i].fp = fp}
  IN  IF matching # {} THEN matching ELSE ActiveIn(jobs)
KeepOne(jobs, fp) ==
  {IF jobs[keep].fp = fp THEN Plan(ActiveIn(jobs) \ {keep}, {})
                         ELSE Plan(ActiveIn(jobs), First(fp)) : keep \in Keepable(jobs, fp)}

(* Step 5, for a source without an active job. *)
RestartEnded(jobs, fp) ==
  {Plan({}, {[of |-> i, job |-> Consumer(fp, NextFails(jobs[i]))] : i \in Restarts(jobs)})}

(* Mutant: a source without history gets no consumer. *)
PlansForHistory(jobs, fp) ==
  CASE fp = NoPrint -> {Plan(ActiveIn(jobs), {})}
    [] fp # NoPrint /\ ActiveIn(jobs) # {} -> KeepOne(jobs, fp)
    [] OTHER -> RestartEnded(jobs, fp)

(* reconcile: what steps 3, 4 and 5 decide from the rows that were read. *)
Plans(jobs, fp) ==
  CASE fp = NoPrint -> {Plan(ActiveIn(jobs), {})}
    [] fp # NoPrint /\ ActiveIn(jobs) # {} -> KeepOne(jobs, fp)
    [] fp # NoPrint /\ ActiveIn(jobs) = {} /\ EndedIn(jobs) = {} -> {Plan({}, First(fp))}
    [] OTHER -> RestartEnded(jobs, fp)

(* collect_desired and the two queries. *)
LoadSources ==
  /\ pass.pc = "idle"
  /\ \E plan \in Plans(consumer, wanted) :
       pass' = [pc |-> "loaded", cancel |-> plan.cancel, create |-> plan.create]
  /\ UNCHANGED <<wanted, consumer, edits>>

(* settlement.cancel: a job that ended meanwhile stays as it is. *)
Cancelled(jobs, S) ==
  [i \in Slots |-> IF i \in S /\ jobs[i].st = "active" THEN NoJob ELSE jobs[i]]

(* create_event_source_job, in free slots; what finds none is not created. *)
Created(jobs, new) ==
  LET free == {i \in Slots : jobs[i].st = "none"}
      into == CHOOSE f \in [free -> new \cup {Nothing}] :
                /\ \A a, b \in free : a # b /\ f[a] = f[b] => f[a] = Nothing
                /\ \/ \A a \in free : f[a] # Nothing
                   \/ \A n \in new : \E a \in free : f[a] = n
  IN  [i \in Slots |-> IF i \in free THEN into[i].job ELSE jobs[i]]

ReconcileSources ==
  /\ pass.pc = "loaded"
  /\ consumer' = Created(Cancelled(consumer, pass.cancel), pass.create)
  /\ pass' = IdlePass
  /\ UNCHANGED <<wanted, edits>>

-----------------------------------------------------------------------------
(* Time passes; a job that ended leaves the window. *)
SourceTick ==
  /\ EndedIn(consumer) # {}
  /\ consumer' = [i \in Slots |->
       IF consumer[i].st \notin Ended THEN consumer[i]
       ELSE IF consumer[i].age = Window THEN NoJob
       ELSE [consumer[i] EXCEPT !.age = @ + 1]]
  /\ UNCHANGED <<wanted, pass, edits>>

SourceJobEnds(i) ==
  /\ consumer[i].st = "active"
  /\ \E st \in Ended : consumer' = [consumer EXCEPT ![i].st = st]
  /\ UNCHANGED <<wanted, pass, edits>>

(* emit_event: a job for target_task, under the trigger's own source_id    *)
(* and without a fingerprint.                                              *)
EmitEvent(i) ==
  /\ consumer[i].st = "active" /\ consumer[i].kind = "consumer"
  /\ wanted # NoPrint
  /\ \E k \in Slots :
       /\ consumer[k].st = "none"
       /\ Cardinality({j \in Slots : consumer[j].st = "none"}) > 1
       /\ consumer' = [consumer EXCEPT ![k] = [NoJob EXCEPT !.st = "active", !.kind = "emitted"]]
  /\ UNCHANGED <<wanted, pass, edits>>

(* The trigger is added, changed, removed, or its workspace unavailable. *)
EditTrigger ==
  /\ edits < MaxEdits /\ edits' = edits + 1
  /\ wanted' \in (Prints \cup {NoPrint}) \ {wanted}
  /\ UNCHANGED <<consumer, pass>>

SourceNext ==
  \/ LoadSources \/ ReconcileSources \/ SourceTick \/ EditTrigger
  \/ \E i \in Slots : SourceJobEnds(i) \/ EmitEvent(i)

-----------------------------------------------------------------------------
Consuming(fp) ==
  \E i \in Slots : consumer[i].st = "active" /\ consumer[i].kind = "consumer"
                   /\ consumer[i].fp = fp

(* Liveness, for restart_policy always: a trigger that stays as it is has  *)
(* a consumer of its configuration again and again, whatever ended, and    *)
(* one that is gone for good ends up without any (event_source.rs,         *)
(* reconcile).                                                             *)
ConsumersFollowTrigger ==
  /\ \A fp \in Prints : <>[](wanted = fp) => []<>Consuming(fp)
  /\ <>[](wanted = NoPrint) => <>[](\A fp \in Prints : ~Consuming(fp))

(* Action property, as the guide states it: an emitted event becomes a job *)
(* of target_task; the manager, which creates, restarts and cancels        *)
(* consumers, leaves it alone while the trigger is defined.                *)
EmittedJobsRun ==
  [][\A i \in Slots :
       consumer[i].st = "active" /\ consumer[i].kind = "emitted" /\ wanted # NoPrint
         => consumer'[i].st # "none" /\ consumer'[i].kind = "emitted"]_sourceVars
=============================================================================
