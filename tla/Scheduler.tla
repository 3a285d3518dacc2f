------------------------------ MODULE Scheduler ------------------------------
(***************************************************************************)
(* The cron loop of every replica for one trigger: each pass reloads the   *)
(* trigger, advances it when it is due, and fires it when this replica     *)
(* led as the pass began.  Leadership moves, the trigger is edited, its    *)
(* workspace is unavailable for a while, and a fire may take long.         *)
(*                                                                         *)
(* Time is in ticks.  A sleeping loop wakes on time: the clock waits for   *)
(* it.  A loop that fires holds the clock up only when its time is up.     *)
(***************************************************************************)
EXTENDS Naturals, FiniteSets

CONSTANTS
  Schedulers,      \* the replicas
  Crons,           \* periods of the schedules the trigger may have
  Bodies,          \* the rest of its definition: task, input, policy...
  MaxSleep,        \* MAX_SLEEP
  MaxTime,         \* bound: the clock
  MaxSlow,         \* bound: ticks fires take, all together
  MaxDisturbances  \* bound: handovers, edits, outages and failed fires

ASSUME SchedulerAssumption ==
  /\ Schedulers # {} /\ Crons \subseteq Nat \ {0}
  /\ MaxSleep \in Nat \ {0} /\ MaxTime \in Nat /\ MaxSlow \in Nat

VARIABLES
  now,
  cronLeader,   \* the replica whose is_leader() is true
  config,       \* [ok, def]: the workspace is available, its trigger
  sched,        \* [Schedulers -> [pc, def, next, wake]]; next 0: None
  slow,
  disturbances,
  fires,        \* ghost: [occ, by]
  latest,       \* ghost: the longest delay of a fire
  loaded,       \* ghost: since when the replica knows the schedule
  calm          \* ghost: nothing disturbed the current tick

schedulerVars == <<now, cronLeader, config, sched, slow, disturbances,
                   fires, latest, loaded, calm>>

Never == MaxTime + 1
Definitions == [cron : Crons, body : Bodies]
NoTrigger == [cron |-> 0, body |-> 0]

SchedulerInit ==
  /\ now = 0 /\ cronLeader = (CHOOSE r \in Schedulers : TRUE)
  /\ config = [ok |-> TRUE, def |-> NoTrigger]
  /\ sched = [r \in Schedulers |-> [pc |-> "asleep", def |-> NoTrigger, next |-> 0, wake |-> 0]]
  /\ slow = 0 /\ disturbances = 0
  /\ fires = {} /\ latest = 0 /\ calm = FALSE
  /\ loaded = [r \in Schedulers |-> Never]

-----------------------------------------------------------------------------
Earlier(a, b) == IF a < b THEN a ELSE b

(* compute_next_run: the first occurrence after t. *)
NextAfter(cron, t) == (t \div cron + 1) * cron

(* sleep_duration *)
Asleep(def, next) ==
  [pc |-> "asleep", def |-> def, next |-> next,
   wake |-> IF def = NoTrigger THEN now + MaxSleep
            ELSE Earlier(IF next > now THEN next ELSE now + 1, now + MaxSleep)]

(* Mutant: a trigger of an unavailable workspace is forgotten. *)
ForgottenTrigger(r) ==
  [def |-> IF config.ok THEN config.def ELSE NoTrigger,
   next |-> IF config.ok /\ config.def.cron = sched[r].def.cron THEN sched[r].next ELSE 0]

(* load_triggers: kept while the workspace is unavailable; a schedule that *)
(* changed starts anew.                                                    *)
LoadTriggers(r) ==
  [def |-> IF config.ok THEN config.def ELSE sched[r].def,
   next |-> IF ~config.ok \/ config.def.cron = sched[r].def.cron THEN sched[r].next ELSE 0]

(* Mutant: only the leader advances. *)
FollowerWaits(cron, next) == next

(* advance_state_after_tick of a replica that does not lead. *)
FollowerAdvances(cron, next) == NextAfter(cron, now)

(* run_loop: a pass up to its fire, or to its sleep. *)
Pass(r) ==
  /\ sched[r].pc = "asleep" /\ now >= sched[r].wake
  /\ LET t == LoadTriggers(r)
         next == IF t.def = NoTrigger THEN 0
                 ELSE IF t.next = 0 THEN NextAfter(t.def.cron, now) ELSE t.next
         due == t.def # NoTrigger /\ now >= next
     IN  sched' = [sched EXCEPT ![r] =
           CASE due /\ cronLeader = r -> [pc |-> "firing", def |-> t.def, next |-> next, wake |-> 0]
             [] due /\ cronLeader # r -> Asleep(t.def, FollowerAdvances(t.def.cron, next))
             [] OTHER -> Asleep(t.def, next)]
  /\ loaded' = IF config.ok /\ loaded[r] = Never /\ config.def # NoTrigger
               THEN [loaded EXCEPT ![r] = now] ELSE loaded
  /\ UNCHANGED <<now, cronLeader, config, slow, disturbances, fires, latest, calm>>

Disturb == disturbances < MaxDisturbances /\ disturbances' = disturbances + 1 /\ calm' = FALSE

(* advance_state_after_tick: whatever became of the fire. *)
FireEnds(r) ==
  /\ sched[r].pc = "firing"
  /\ sched' = [sched EXCEPT ![r] = Asleep(sched[r].def, NextAfter(sched[r].def.cron, now))]
  /\ UNCHANGED <<now, cronLeader, config, slow, loaded>>

(* fire_trigger: missed while the workspace is unavailable or defines the  *)
(* trigger otherwise.  The jobs are not kept: whatever the concurrency     *)
(* policy does to earlier ones, a fire that goes through ends in a job or  *)
(* in a skipped row, and either is the fire.                               *)
FireTrigger(r) ==
  /\ FireEnds(r)
  /\ IF config.ok /\ config.def = sched[r].def
     THEN /\ fires' = fires \cup {[occ |-> sched[r].next, by |-> r]}
          /\ latest' = IF now - sched[r].next > latest THEN now - sched[r].next ELSE latest
     ELSE UNCHANGED <<fires, latest>>
  /\ UNCHANGED <<disturbances, calm>>

(* fire_trigger, the error paths: the target does not resolve, it asks for *)
(* a file, or the skipped row or the job cannot be written.  The           *)
(* occurrence is not tried again.                                          *)
FireFails(r) ==
  /\ FireEnds(r) /\ Disturb
  /\ config.ok /\ config.def = sched[r].def
  /\ UNCHANGED <<fires, latest>>

-----------------------------------------------------------------------------
Firing == {r \in Schedulers : sched[r].pc = "firing"}

SchedulerTick ==
  /\ now < MaxTime /\ now' = now + 1
  /\ \A r \in Schedulers \ Firing : sched[r].wake > now
  /\ slow' = IF Firing = {} THEN slow ELSE slow + 1
  /\ slow' <= MaxSlow
  /\ calm' = (Firing = {})
  /\ UNCHANGED <<cronLeader, config, sched, disturbances, fires, latest, loaded>>

Handover ==
  /\ Disturb /\ cronLeader' \in Schedulers \ {cronLeader}
  /\ UNCHANGED <<now, config, sched, slow, fires, latest, loaded>>

EditSchedule ==
  /\ Disturb
  /\ \E def \in (Definitions \cup {NoTrigger}) \ {config.def} : config' = [config EXCEPT !.def = def]
  /\ loaded' = IF config'.def.cron = config.def.cron THEN loaded
               ELSE [r \in Schedulers |-> Never]
  /\ UNCHANGED <<now, cronLeader, sched, slow, fires, latest>>

Outage ==
  /\ Disturb /\ config' = [config EXCEPT !.ok = ~@]
  /\ UNCHANGED <<now, cronLeader, sched, slow, fires, latest, loaded>>

SchedulerNext ==
  \/ SchedulerTick \/ Handover \/ EditSchedule \/ Outage
  \/ \E r \in Schedulers : Pass(r) \/ FireTrigger(r) \/ FireFails(r)

SchedulerSpec == SchedulerInit /\ [][SchedulerNext]_schedulerVars

-----------------------------------------------------------------------------
(* Safety: no fire is older than fires themselves take, so a replica that  *)
(* becomes leader does not make up for occurrences it saw as a follower,   *)
(* nor does one that is back after an outage (scheduler.rs, run_loop).     *)
NoBackfire == latest <= MaxSlow

(* Action property: an occurrence goes by without a fire only in a tick    *)
(* with a handover, an edit, an outage, a fire that took long or one that  *)
(* failed; earlier ones cost nothing (scheduler.rs, load_triggers and      *)
(* advance_state_after_tick).                                              *)
OccurrencesFire ==
  [][now' # now /\ calm /\ config.ok /\ config.def # NoTrigger
       /\ loaded[cronLeader] < now /\ now % config.def.cron = 0 /\ Firing = {}
     => [occ |-> now, by |-> cronLeader] \in fires]_schedulerVars
=============================================================================
