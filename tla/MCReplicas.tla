----------------------------- MODULE MCReplicas ------------------------------
(***************************************************************************)
(* What several replicas share: the leader's lease, the cron loops and the *)
(* event source manager it gates, and the resolution of deferred           *)
(* references.  They have no state in common, so one run checks them side  *)
(* by side: loop says which of them runs, and the others stay where they   *)
(* began.                                                                  *)
(***************************************************************************)
EXTENDS LeaderLease, Scheduler, EventSources, DeferredRefs

CONSTANTS r1, r2, f1, f2, c0, c1, c2, p0, p1, p2

VARIABLE loop

replicaVars == <<loop, leaderVars, schedulerVars, sourceVars, refVars>>

Init ==
  /\ loop \in {"leader", "scheduler", "events", "deferred"}
  /\ LeaderInit /\ SchedulerInit /\ SourceInit /\ RefInit
  /\ \A s \in DeferredSteps : refRow[s].renders = "nothing" => loop = "deferred" /\ s = f2

Next ==
  /\ UNCHANGED loop
  /\ \/ /\ loop = "leader" /\ LeaderNext
        /\ UNCHANGED <<schedulerVars, sourceVars, refVars>>
     \/ /\ loop = "scheduler" /\ SchedulerNext
        /\ UNCHANGED <<leaderVars, sourceVars, refVars>>
     \/ /\ loop = "events" /\ SourceNext
        /\ UNCHANGED <<leaderVars, schedulerVars, refVars>>
     \/ /\ loop = "deferred" /\ RefNext
        /\ UNCHANGED <<leaderVars, schedulerVars, sourceVars>>

(* Every loop of a running process is scheduled, PostgreSQL answers and    *)
(* notices closed and idle sessions.  Nothing thaws or recovers by itself. *)
LeaderFairness ==
  /\ WF_leaderVars(loop = "leader" /\ Tick)
  /\ WF_leaderVars(loop = "leader" /\ SessionCloses)
  /\ WF_leaderVars(loop = "leader" /\ LeaseExpires)
  /\ \A r \in Replicas :
       /\ WF_leaderVars(loop = "leader" /\ LeaderStep(r))
       /\ WF_leaderVars(loop = "leader" /\ ServerStep(r))
       /\ WF_leaderVars(loop = "leader" /\ TimesOut(r) /\ query[r].age > Limit(r))

(* The loop of the leader runs every RECONCILE_INTERVAL_SECS. *)
SourceFairness ==
  /\ WF_sourceVars(loop = "events" /\ LoadSources)
  /\ WF_sourceVars(loop = "events" /\ ReconcileSources)
  /\ WF_sourceVars(loop = "events" /\ SourceTick)

(* The sweep's phase 4.6 comes back to a stranded row; whoever holds a     *)
(* lease goes on; a cancel under way ends.                                 *)
RefFairness ==
  /\ \A s \in DeferredSteps :
       /\ WF_refVars(loop = "deferred" /\ \E p \in Resolvers : TakeLease(p, s))
       /\ WF_refVars(loop = "deferred" /\ LeaseOfTheDeadLapses(s))
       /\ \A p \in Resolvers : WF_refVars(loop = "deferred" /\ Resolve(p, s))
  /\ WF_refVars(loop = "deferred" /\ CancelRefSteps)

Spec ==
  /\ Init /\ [][Next]_replicaVars
  /\ LeaderFairness /\ SourceFairness /\ RefFairness

(* Liveness: as long as some replica runs and is fit, one that runs and is *)
(* fit leads again after the last fault, and stays; a frozen or a stalled  *)
(* leader does not keep the lock (leader.rs, run_loop and next_action).    *)
LeaderComesBack == loop = "leader" => LeaderReturns

(* Liveness, for restart_policy always: a trigger that stays as it is has  *)
(* a consumer of its configuration again and again, whatever ended, and    *)
(* one that is gone for good ends up without any (event_source.rs,         *)
(* reconcile).                                                             *)
ConsumersFollow == loop = "events" => ConsumersFollowTrigger

(* Liveness: no deferred row waits for ever, although resolvers die and    *)
(* leases lapse (recovery.rs, readvance_deferred_steps).                   *)
DeferredRowsEnd == loop = "deferred" => DeferredEnds
=============================================================================
