----------------------------- MODULE LeaderLease -----------------------------
(***************************************************************************)
(* Leader election: an advisory lock held by a dedicated PostgreSQL        *)
(* session that carries an idle timeout (the lease), a validity the        *)
(* replica counts from the moment it SENT its last answered query, and the *)
(* release of the lock by a leader whose background loops stopped.         *)
(*                                                                         *)
(* Time is counted in ticks.  Instead of absolute times the state keeps    *)
(* ages and what is left of a validity, so it is finite without a bound on *)
(* the clock.  A replica that runs is on time: the clock waits for its     *)
(* timers (Punctual).  A frozen replica is not.                            *)
(***************************************************************************)
EXTENDS Integers

CONSTANTS
  Replicas,
  Lease,          \* LeaderTiming.lease, in ticks
  ReleaseAfter,   \* LeaderTiming.release_after
  MaxLeaderFaults \* bound: freezes, stalls, slow answers, lost sessions

(* LeaderTiming::from_lease; its caps of 5 and 10 seconds bind only for a  *)
(* lease above 30 seconds.                                                 *)
Retry == Lease \div 6
PingTimeout == Lease \div 6
AcquireTimeout == Lease \div 3
Validity == (2 * Lease) \div 3

(* LeaderTiming::check *)
ASSUME LeaderTiming ==
  /\ Lease \in Nat
  /\ 2 * PingTimeout + Retry < Validity
  /\ Validity < Lease
  /\ 3 * Retry <= Lease

VARIABLES
  lock,     \* the session that holds the lock: [by, open] or NoSession
  idle,     \* ticks since PostgreSQL last heard that session
  conn,     \* [Replicas -> BOOLEAN]: the replica keeps a leader connection
  left,     \* [Replicas -> what is left of valid_until]
  query,    \* [Replicas -> [op, age]]: the query in flight, or the pause
  stalled,  \* replicas with a gated loop that stalled or stopped
  unfit,    \* [Replicas -> ticks since that was observed, -1: it was not]
  frozen,   \* replicas whose process does not run
  lost,     \* ghost: ticks since the replica's session ended early, -1: never
  leaderFaults

leaderVars == <<lock, idle, conn, left, query, stalled, unfit, frozen, lost, leaderFaults>>

NoSession == [by |-> "nobody", open |-> FALSE]
Pause == [op |-> "pause", age |-> 0]
(* An age, up to the one from which on nothing depends on it. *)
Older(n, oldest) == IF n < oldest THEN n + 1 ELSE oldest
Running(r) == r \notin frozen
Holds(r) == lock.by = r /\ lock.open

(* LeaderElection::is_leader *)
IsLeader(r) == left[r] > 0

LeaderInit ==
  /\ lock = NoSession /\ idle = 0
  /\ conn = [r \in Replicas |-> FALSE]
  /\ left = [r \in Replicas |-> 0]
  /\ query = [r \in Replicas |-> [op |-> "pause", age |-> Retry]]
  /\ stalled = {} /\ unfit = [r \in Replicas |-> -1]
  /\ frozen = {} /\ lost = [r \in Replicas |-> -1] /\ leaderFaults = 0

-----------------------------------------------------------------------------
(* The timer the replica waits on: the pause between iterations, or the    *)
(* timeout of its query.                                                   *)
Limit(r) == CASE query[r].op = "pause" -> Retry
              [] query[r].op \in {"lock", "locked", "held"} -> AcquireTimeout
              [] OTHER -> PingTimeout
Expired(r) == query[r].age >= Limit(r)
Punctual == \A r \in Replicas : Running(r) => ~Expired(r)

Tick ==
  /\ Punctual
  /\ idle' = IF lock = NoSession THEN 0 ELSE Older(idle, Lease)
  /\ left' = [r \in Replicas |-> IF left[r] > 0 THEN left[r] - 1 ELSE 0]
  /\ query' = [r \in Replicas |-> [query[r] EXCEPT !.age = Older(@, Validity)]]
  /\ unfit' = [r \in Replicas |-> IF unfit[r] \in 0..(ReleaseAfter - 1)
                                  THEN unfit[r] + 1 ELSE unfit[r]]
  /\ lost' = [r \in Replicas |-> IF lost[r] >= 0 THEN Older(lost[r], Validity) ELSE -1]
  /\ UNCHANGED <<lock, conn, stalled, frozen, leaderFaults>>

(* iterate: track_fitness, then next_action. *)
Observed(r) == IF r \in stalled THEN IF unfit[r] < 0 THEN 0 ELSE unfit[r] ELSE -1
Iterate(r) ==
  /\ Running(r) /\ query[r].op = "pause" /\ Expired(r)
  /\ unfit' = [unfit EXCEPT ![r] = Observed(r)]

(* next_action, Acquire: not holding and fit.  The lease is set on the     *)
(* session before the lock query goes out.                                 *)
SendLock(r) ==
  /\ Iterate(r)
  /\ ~conn[r] /\ Observed(r) < 0
  /\ query' = [query EXCEPT ![r] = [op |-> "lock", age |-> 0]]
  /\ UNCHANGED <<lock, idle, conn, left, stalled, frozen, lost, leaderFaults>>

(* StayFollower: an unfit replica does not try. *)
StayFollower(r) ==
  /\ Iterate(r)
  /\ ~conn[r] /\ Observed(r) >= 0
  /\ query' = [query EXCEPT ![r] = Pause]
  /\ UNCHANGED <<lock, idle, conn, left, stalled, frozen, lost, leaderFaults>>

(* pg_try_advisory_lock *)
ServeLock(r) ==
  /\ query[r].op = "lock"
  /\ IF lock = NoSession
     THEN /\ lock' = [by |-> r, open |-> TRUE] /\ idle' = 0
          /\ query' = [query EXCEPT ![r].op = "locked"]
          /\ lost' = [lost EXCEPT ![r] = -1]
     ELSE query' = [query EXCEPT ![r].op = "held"] /\ UNCHANGED <<lock, idle, lost>>
  /\ UNCHANGED <<conn, left, stalled, unfit, frozen, leaderFaults>>

(* Mutant: the validity counts from the answer. *)
ValidFromAnswer(r) == Validity

(* renew: valid_until = sent + validity. *)
ValidFromSend(r) == IF query[r].age < Validity THEN Validity - query[r].age ELSE 0

(* tokio's timeout polls the query first: an answer that is there when the *)
(* replica thaws is taken, however old.                                    *)
Acquired(r) ==
  /\ Running(r) /\ query[r].op = "locked"
  /\ conn' = [conn EXCEPT ![r] = TRUE]
  /\ left' = [left EXCEPT ![r] = ValidFromSend(r)]
  /\ query' = [query EXCEPT ![r] = Pause]
  /\ UNCHANGED <<lock, idle, stalled, unfit, frozen, lost, leaderFaults>>

(* Attempt::Held *)
NotAcquired(r) ==
  /\ Running(r) /\ query[r].op = "held"
  /\ query' = [query EXCEPT ![r] = Pause]
  /\ UNCHANGED <<lock, idle, conn, left, stalled, unfit, frozen, lost, leaderFaults>>

(* Mutant: a leader whose loops stopped goes on renewing. *)
PingUnfit(r) ==
  /\ Iterate(r)
  /\ conn[r]
  /\ query' = [query EXCEPT ![r] = [op |-> "ping", age |-> 0]]
  /\ UNCHANGED <<lock, idle, conn, left, stalled, frozen, lost, leaderFaults>>

(* next_action, Ping: holding, and fit or not unfit for long enough. *)
SendPing(r) ==
  /\ Iterate(r)
  /\ conn[r] /\ Observed(r) < ReleaseAfter
  /\ query' = [query EXCEPT ![r] = [op |-> "ping", age |-> 0]]
  /\ UNCHANGED <<lock, idle, conn, left, stalled, frozen, lost, leaderFaults>>

ServePing(r) ==
  /\ query[r].op = "ping"
  /\ query' = [query EXCEPT ![r].op = IF Holds(r) THEN "pong" ELSE "gone"]
  /\ idle' = IF Holds(r) THEN 0 ELSE idle
  /\ UNCHANGED <<lock, conn, left, stalled, unfit, frozen, lost, leaderFaults>>

Ponged(r) ==
  /\ Running(r) /\ query[r].op = "pong"
  /\ left' = [left EXCEPT ![r] = ValidFromSend(r)]
  /\ query' = [query EXCEPT ![r] = Pause]
  /\ UNCHANGED <<lock, idle, conn, stalled, unfit, frozen, lost, leaderFaults>>

(* clear, then conn = None: the socket closes, the server may learn later. *)
DropConnection(r) ==
  /\ left' = [left EXCEPT ![r] = 0]
  /\ conn' = [conn EXCEPT ![r] = FALSE]
  /\ query' = [query EXCEPT ![r] = Pause]
  /\ lock' = IF lock.by = r THEN [lock EXCEPT !.open = FALSE] ELSE lock

(* The session is gone: an error answers the ping. *)
PingFails(r) ==
  /\ Running(r) /\ query[r].op = "gone"
  /\ DropConnection(r)
  /\ UNCHANGED <<idle, stalled, unfit, frozen, lost, leaderFaults>>

(* The query timed out.  A thawed replica whose answer is not there times  *)
(* out as well, without a fault of the database.                           *)
TimesOut(r) ==
  /\ Running(r) /\ query[r].op \in {"lock", "locked", "held", "ping"} /\ Expired(r)
  /\ leaderFaults < MaxLeaderFaults \/ query[r].age > Limit(r)
  /\ leaderFaults' = IF query[r].age > Limit(r) THEN leaderFaults ELSE leaderFaults + 1
  /\ DropConnection(r)
  /\ UNCHANGED <<idle, stalled, unfit, frozen, lost>>

(* next_action, Release *)
ReleaseLock(r) ==
  /\ Iterate(r)
  /\ conn[r] /\ Observed(r) >= ReleaseAfter
  /\ DropConnection(r)
  /\ UNCHANGED <<idle, stalled, frozen, lost, leaderFaults>>

-----------------------------------------------------------------------------
(* PostgreSQL sees the closed socket, or ends the session at its lease. *)
SessionCloses ==
  /\ lock # NoSession /\ ~lock.open
  /\ lock' = NoSession
  /\ UNCHANGED <<idle, conn, left, query, stalled, unfit, frozen, lost, leaderFaults>>

LeaseExpires ==
  /\ lock # NoSession /\ idle >= Lease
  /\ lock' = NoSession
  /\ UNCHANGED <<idle, conn, left, query, stalled, unfit, frozen, lost, leaderFaults>>

Fault == leaderFaults < MaxLeaderFaults /\ leaderFaults' = leaderFaults + 1

(* An administrator ends the session, or the connection is reset. *)
SessionLost(r) ==
  /\ Fault /\ Holds(r) /\ conn[r]
  /\ lock' = NoSession /\ lost' = [lost EXCEPT ![r] = 0]
  /\ UNCHANGED <<idle, conn, left, query, stalled, unfit, frozen>>

Freeze(r) ==
  /\ Fault /\ Running(r) /\ frozen' = frozen \cup {r}
  /\ UNCHANGED <<lock, idle, conn, left, query, stalled, unfit, lost>>

Thaw(r) ==
  /\ frozen' = frozen \ {r} /\ frozen' # frozen
  /\ UNCHANGED <<lock, idle, conn, left, query, stalled, unfit, lost, leaderFaults>>

(* The process ends (a closed socket) and starts again: never(). *)
Restart(r) ==
  /\ Fault /\ Running(r)
  /\ DropConnection(r)
  /\ stalled' = stalled \ {r} /\ unfit' = [unfit EXCEPT ![r] = -1]
  /\ UNCHANGED <<idle, frozen, lost>>

(* A gated loop stalls, and moves again; the fitness probe sees it. *)
Stall(r) ==
  /\ Fault /\ stalled' = stalled \cup {r} /\ stalled' # stalled
  /\ UNCHANGED <<lock, idle, conn, left, query, unfit, frozen, lost>>

Recovers(r) ==
  /\ stalled' = stalled \ {r} /\ stalled' # stalled
  /\ UNCHANGED <<lock, idle, conn, left, query, unfit, frozen, lost, leaderFaults>>

LeaderStep(r) ==
  \/ SendLock(r) \/ StayFollower(r) \/ Acquired(r) \/ NotAcquired(r)
  \/ SendPing(r) \/ Ponged(r) \/ PingFails(r) \/ ReleaseLock(r)
ServerStep(r) == ServeLock(r) \/ ServePing(r)
LeaderNext ==
  \/ Tick \/ SessionCloses \/ LeaseExpires
  \/ \E r \in Replicas :
       \/ LeaderStep(r) \/ ServerStep(r) \/ TimesOut(r)
       \/ SessionLost(r) \/ Freeze(r) \/ Thaw(r) \/ Restart(r) \/ Stall(r) \/ Recovers(r)

LeaderSpec == LeaderInit /\ [][LeaderNext]_leaderVars

-----------------------------------------------------------------------------
(* Safety: a replica that believes it leads holds the lock, unless its     *)
(* session was ended early, and then for less than its validity; so two    *)
(* replicas lead at once only in that window (leader.rs, renew and         *)
(* is_leader).                                                             *)
StaleLeaderBounded ==
  \A r \in Replicas : IsLeader(r) /\ ~Holds(r) => lost[r] \in 0..(Validity - 1)

(* Liveness: as long as some replica runs and is fit, one that runs and is *)
(* fit leads again after the last fault, and stays; a frozen or a stalled  *)
(* leader does not keep the lock (leader.rs, run_loop and next_action).    *)
Usable(r) == Running(r) /\ r \notin stalled
LeaderReturns ==
  (\E r \in Replicas : <>[]Usable(r)) => <>[](\E r \in Replicas : IsLeader(r) /\ Usable(r))
=============================================================================
