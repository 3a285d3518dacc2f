--------------------------- MODULE Replicas_proofs ---------------------------
(***************************************************************************)
(* What is proved of the loops that several replicas run: a replica that   *)
(* believes it leads holds the lock or lost it a short time ago            *)
(* (LeaderLease), and no trigger fires late (Scheduler).                   *)
(***************************************************************************)
EXTENDS LeaderLease, Scheduler, TLAPS

-----------------------------------------------------------------------------
(***************************************************************************)
(* The leader's lease                                                      *)
(***************************************************************************)

QueryOps == {"pause", "lock", "locked", "held", "ping", "pong", "gone"}
QueryType == [op : QueryOps, age : Nat]
SessionType == [by : Replicas \cup {"nobody"}, open : BOOLEAN]

LeaderTypeOK ==
  /\ lock \in SessionType
  /\ idle \in Nat
  /\ conn \in [Replicas -> BOOLEAN]
  /\ left \in [Replicas -> Nat]
  /\ query \in [Replicas -> QueryType]
  /\ lost \in [Replicas -> Int]

(* Without a connection a replica does not lead; it asks for the lock only *)
(* without one, and pings only with one.                                   *)
ConnectionOK(r) ==
  /\ ~conn[r] => left[r] = 0
  /\ query[r].op \in {"lock", "locked", "held"} => ~conn[r]
  /\ query[r].op \in {"ping", "pong", "gone"} => conn[r]

(* A span the replica counts as valid began when it sent a query, so not   *)
(* later than PostgreSQL last heard its session, if that still holds the   *)
(* lock, nor later than the session ended early.                           *)
Covered(r, span) ==
  IF Holds(r) THEN idle <= span ELSE lost[r] >= 0 /\ lost[r] <= span

ValidityOK(r) ==
  /\ left[r] <= Validity
  /\ left[r] > 0 => Covered(r, Validity - left[r])
  /\ query[r].op = "locked" /\ query[r].age < Validity => Holds(r) /\ idle <= query[r].age
  /\ query[r].op = "pong" /\ query[r].age < Validity => Covered(r, query[r].age)

LeaderInv ==
  LeaderTypeOK /\ \A r \in Replicas : ConnectionOK(r) /\ ValidityOK(r)

(* What the timing of the lease is used for. *)
LEMMA Timing == Validity \in Nat /\ Validity < Lease /\ Lease \in Nat /\ Validity > 0 /\ Retry \in Nat
<1>1. Lease \in Nat
  BY LeaderTiming
<1>2. Validity \in Nat /\ Retry \in Nat /\ PingTimeout \in Nat
  BY <1>1 DEF Validity, Retry, PingTimeout
<1>3. QED
  BY <1>1, <1>2, LeaderTiming

(* The values of the types. *)
LEMMA LeaderTypes ==
  ASSUME LeaderTypeOK
  PROVE  /\ lock.open \in BOOLEAN /\ idle \in Nat
         /\ \A r \in Replicas :
              /\ conn[r] \in BOOLEAN /\ left[r] \in Nat /\ lost[r] \in Int
              /\ query[r] \in QueryType /\ query[r].age \in Nat /\ query[r].op \in QueryOps
BY DEF LeaderTypeOK, SessionType, QueryType

(* The invariant holds initially. *)
LEMMA LeaderInvInit == LeaderInit => LeaderInv
<1> SUFFICES ASSUME LeaderInit PROVE LeaderInv
  OBVIOUS
<1> DEFINE x == [op |-> "pause", age |-> Retry]
<1>1. x \in QueryType /\ x.op = "pause"
  BY Timing DEF QueryType, QueryOps
<1>2. query = [r \in Replicas |-> x] /\ NoSession \in SessionType /\ idle = 0
      /\ lock = NoSession /\ conn = [r \in Replicas |-> FALSE] /\ left = [r \in Replicas |-> 0]
      /\ lost = [r \in Replicas |-> -1]
  BY DEF LeaderInit, NoSession, SessionType
<1> HIDE DEF x
<1>3. LeaderTypeOK
  BY <1>1, <1>2 DEF LeaderTypeOK
<1>4. \A r \in Replicas : ~conn[r] /\ left[r] = 0 /\ query[r].op = "pause"
  BY <1>1, <1>2
<1>5. ASSUME NEW r \in Replicas PROVE ConnectionOK(r) /\ ValidityOK(r)
  <2>1. 0 <= Validity /\ ~(0 > 0)
    BY Timing
  <2>2. left[r] <= Validity /\ ~(left[r] > 0)
    BY <1>4, <2>1
  <2>3. QED
    BY <1>4, <2>2 DEF ConnectionOK, ValidityOK
<1>6. QED
  BY <1>3, <1>5 DEF LeaderInv

(* A replica that has no part in a step. *)
LEMMA Bystander ==
  ASSUME LeaderInv, NEW r \in Replicas,
         conn'[r] = conn[r], left'[r] = left[r], query'[r] = query[r], lost'[r] = lost[r],
         Holds(r)' <=> Holds(r), idle' = idle \/ idle' = 0 \/ ~Holds(r)
  PROVE  ConnectionOK(r)' /\ ValidityOK(r)'
<1>1. ConnectionOK(r) /\ ValidityOK(r) /\ LeaderTypeOK
  BY DEF LeaderInv
<1>2. idle \in Nat /\ left[r] \in Nat /\ query[r].age \in Nat
  BY <1>1, LeaderTypes
<1>3. ConnectionOK(r)'
  BY <1>1 DEF ConnectionOK
<1>4. \A span \in Nat : Covered(r, span) => Covered(r, span)'
  BY <1>2 DEF Covered
<1>5. QED
  BY <1>1, <1>2, <1>3, <1>4, Timing DEF ValidityOK

(* The clock: ages grow as validities shrink. *)
LEMMA TickKeeps ==
  ASSUME LeaderInv, Tick
  PROVE  LeaderInv'
<1>0. LeaderTypeOK
  BY DEF LeaderInv
<1>1. /\ lock' = lock /\ conn' = conn
      /\ idle' = IF lock = NoSession THEN 0 ELSE Older(idle, Lease)
      /\ left' = [r \in Replicas |-> IF left[r] > 0 THEN left[r] - 1 ELSE 0]
      /\ query' = [r \in Replicas |-> [query[r] EXCEPT !.age = Older(@, Validity)]]
      /\ lost' = [r \in Replicas |-> IF lost[r] >= 0 THEN Older(lost[r], Validity) ELSE -1]
  BY DEF Tick
<1>2. idle' \in Nat /\ idle' <= idle + 1
  BY <1>0, <1>1, LeaderTypes, Timing DEF Older
<1>3. ASSUME NEW r \in Replicas
      PROVE  /\ left'[r] \in Nat /\ (left'[r] > 0 => left[r] > 0 /\ left'[r] = left[r] - 1)
             /\ left'[r] <= left[r] /\ (left[r] = 0 => left'[r] = 0)
  BY <1>0, <1>1, LeaderTypes
<1>4. ASSUME NEW r \in Replicas
      PROVE  /\ query'[r] \in QueryType /\ query'[r].op = query[r].op
             /\ query'[r].age < Validity => query'[r].age = query[r].age + 1 /\ query[r].age < Validity
  <2> DEFINE a == Older(query[r].age, Validity)
  <2>1. query'[r] = [query[r] EXCEPT !.age = a]
    BY <1>1
  <2>2. a \in Nat /\ (a < Validity => a = query[r].age + 1 /\ query[r].age < Validity)
    BY <1>0, LeaderTypes, Timing DEF Older
  <2> HIDE DEF a
  <2>3. query'[r] \in QueryType /\ query'[r].op = query[r].op /\ query'[r].age = a
    BY <1>0, <2>1, <2>2, LeaderTypes DEF QueryType
  <2>4. QED
    BY <2>2, <2>3
<1>5. ASSUME NEW r \in Replicas
      PROVE  lost'[r] \in Int /\ (lost[r] >= 0 => lost'[r] >= 0 /\ lost'[r] <= lost[r] + 1)
  BY <1>0, <1>1, LeaderTypes, Timing DEF Older
<1>6. LeaderTypeOK'
  <2>1. left' \in [Replicas -> Nat]
    BY <1>1, <1>3
  <2>2. query' \in [Replicas -> QueryType]
    BY <1>1, <1>4
  <2>3. lost' \in [Replicas -> Int]
    BY <1>1, <1>5
  <2>4. QED
    BY <1>0, <1>1, <1>2, <2>1, <2>2, <2>3 DEF LeaderTypeOK
<1>7. ASSUME NEW r \in Replicas PROVE ConnectionOK(r)'
  BY <1>1, <1>3, <1>4 DEF LeaderInv, ConnectionOK
<1>8. ASSUME NEW r \in Replicas PROVE ValidityOK(r)'
  <2>1. Holds(r)' <=> Holds(r)
    BY <1>1 DEF Holds
  <2>3. ValidityOK(r) /\ left[r] \in Nat /\ query[r].age \in Nat /\ idle \in Nat
    BY <1>0, LeaderTypes DEF LeaderInv
  <2>4. left'[r] <= Validity /\ left'[r] \in Nat
    BY <1>3, <2>3, Timing DEF ValidityOK
  <2>5. left'[r] > 0 => Covered(r, Validity - left[r])'
    <3> SUFFICES ASSUME left'[r] > 0 PROVE Covered(r, Validity - left[r])'
      OBVIOUS
    <3>1. left[r] > 0 /\ left'[r] = left[r] - 1 /\ left[r] <= Validity
      BY <1>3, <2>3 DEF ValidityOK
    <3>2. Validity - left[r] \in Nat /\ Validity - left'[r] = (Validity - left[r]) + 1
      BY <2>3, <3>1, Timing
    <3>3. Covered(r, Validity - left[r])
      BY <2>3, <3>1 DEF ValidityOK
    <3> DEFINE n == Validity - left[r]
    <3>5. (IF Holds(r)' THEN idle' <= n + 1 ELSE lost'[r] >= 0 /\ lost'[r] <= n + 1)
      BY <3>2, <3>3, <1>0, <1>2, <1>5, <2>1, LeaderTypes DEF Covered
    <3>6. QED
      BY <3>2, <3>5 DEF Covered
  <2>6. query'[r].op = "locked" /\ query'[r].age < Validity => Holds(r)' /\ idle' <= query'[r].age
    BY <1>2, <1>4, <2>1, <2>3 DEF ValidityOK
  <2>7. query'[r].op = "pong" /\ query'[r].age < Validity => Covered(r, query[r].age)'
    BY <1>0, <1>2, <1>4, <1>5, <2>1, <2>3, LeaderTypes DEF ValidityOK, Covered
  <2>8. QED
    BY <2>4, <2>5, <2>6, <2>7 DEF ValidityOK
<1>9. QED
  BY <1>6, <1>7, <1>8 DEF LeaderInv

(* Nothing that concerns the other replicas changes. *)
OthersKept(r) ==
  \A q \in Replicas \ {r} :
    /\ conn'[q] = conn[q] /\ left'[q] = left[q] /\ query'[q] = query[q] /\ lost'[q] = lost[q]
    /\ Holds(q)' <=> Holds(q)
    /\ idle' = idle \/ idle' = 0 \/ ~Holds(q)

(* One replica moves: its own part is what has to be shown. *)
LEMMA OneMoves ==
  ASSUME LeaderInv, NEW r \in Replicas, LeaderTypeOK', OthersKept(r),
         ConnectionOK(r)', ValidityOK(r)'
  PROVE  LeaderInv'
<1>1. ASSUME NEW q \in Replicas \ {r} PROVE ConnectionOK(q)' /\ ValidityOK(q)'
  BY Bystander DEF OthersKept
<1>2. QED
  BY <1>1 DEF LeaderInv

(* A query goes out, or is answered with nothing the validity rests on. *)
LEMMA QueryMoves ==
  ASSUME LeaderInv, NEW r \in Replicas, NEW x \in QueryType, query' = [query EXCEPT ![r] = x],
         UNCHANGED <<lock, idle, conn, left, lost>>, x.op \notin {"locked", "pong"},
         x.op \in {"lock", "held"} => ~conn[r], x.op \in {"ping", "gone"} => conn[r]
  PROVE  LeaderInv'
<1>1. query' \in [Replicas -> QueryType] /\ query'[r] = x
      /\ \A q \in Replicas \ {r} : query'[q] = query[q]
  BY DEF LeaderInv, LeaderTypeOK
<1>2. LeaderTypeOK'
  BY <1>1 DEF LeaderInv, LeaderTypeOK
<1>3. OthersKept(r)
  BY <1>1 DEF OthersKept, Holds
<1>4. ConnectionOK(r) /\ ValidityOK(r)
  BY DEF LeaderInv
<1>5. ConnectionOK(r)'
  BY <1>1, <1>4 DEF ConnectionOK
<1>6. ValidityOK(r)'
  BY <1>1, <1>4 DEF ValidityOK, Covered, Holds
<1>7. QED
  BY <1>2, <1>3, <1>5, <1>6, OneMoves

(* The records of the queries. *)
LEMMA QueryRecords ==
  /\ Pause \in QueryType /\ Pause.op = "pause"
  /\ \A op \in QueryOps : [op |-> op, age |-> 0] \in QueryType /\ [op |-> op, age |-> 0].op = op
  /\ \A x \in QueryType, op \in QueryOps :
       [x EXCEPT !.op = op] \in QueryType /\ [x EXCEPT !.op = op].op = op
       /\ [x EXCEPT !.op = op].age = x.age
BY DEF Pause, QueryType, QueryOps

(* pg_try_advisory_lock is granted. *)
LEMMA GrantKeeps ==
  ASSUME LeaderInv, NEW r \in Replicas, query[r].op = "lock", lock = NoSession,
         lock' = [by |-> r, open |-> TRUE], idle' = 0,
         query' = [query EXCEPT ![r].op = "locked"], lost' = [lost EXCEPT ![r] = -1],
         UNCHANGED <<conn, left>>
  PROVE  LeaderInv'
<1>0. LeaderTypeOK /\ ConnectionOK(r) /\ ValidityOK(r)
  BY DEF LeaderInv
<1> DEFINE x == [query[r] EXCEPT !.op = "locked"]
<1>1. query' = [query EXCEPT ![r] = x] /\ "locked" \in QueryOps
  BY DEF QueryOps
<1>2. x \in QueryType /\ x.op = "locked" /\ x.age = query[r].age
  BY <1>0, <1>1, QueryRecords, LeaderTypes
<1> HIDE DEF x
<1>3. query' \in [Replicas -> QueryType] /\ query'[r] = x
      /\ \A q \in Replicas \ {r} : query'[q] = query[q]
  BY <1>0, <1>1, <1>2 DEF LeaderTypeOK
<1>4. lost' \in [Replicas -> Int] /\ \A q \in Replicas \ {r} : lost'[q] = lost[q]
  BY <1>0 DEF LeaderTypeOK
<1>5. lock' \in SessionType /\ lock'.by = r /\ lock'.open
  BY DEF SessionType
<1>6. LeaderTypeOK'
  BY <1>0, <1>3, <1>4, <1>5 DEF LeaderTypeOK
<1>7. ~lock.open
  BY DEF NoSession
<1>8. OthersKept(r)
  BY <1>3, <1>4, <1>5, <1>7 DEF OthersKept, Holds
<1>9. ConnectionOK(r)' /\ left'[r] = 0
  BY <1>0, <1>2, <1>3 DEF ConnectionOK
<1>10. Holds(r)'
  BY <1>5 DEF Holds
<1>11. query[r].age \in Nat /\ 0 <= Validity /\ ~(0 > 0)
  BY <1>0, LeaderTypes, Timing
<1>12. ValidityOK(r)'
  BY <1>2, <1>3, <1>9, <1>10, <1>11 DEF ValidityOK
<1>13. QED
  BY <1>6, <1>8, <1>9, <1>12, OneMoves

(* PostgreSQL answers a ping of the session that holds the lock. *)
LEMMA PongKeeps ==
  ASSUME LeaderInv, NEW r \in Replicas, query[r].op = "ping", Holds(r), idle' = 0,
         query' = [query EXCEPT ![r].op = "pong"], UNCHANGED <<lock, conn, left, lost>>
  PROVE  LeaderInv'
<1>0. LeaderTypeOK /\ ConnectionOK(r) /\ ValidityOK(r)
  BY DEF LeaderInv
<1> DEFINE x == [query[r] EXCEPT !.op = "pong"]
<1>1. query' = [query EXCEPT ![r] = x] /\ "pong" \in QueryOps
  BY DEF QueryOps
<1>2. x \in QueryType /\ x.op = "pong" /\ x.age = query[r].age
  BY <1>0, <1>1, QueryRecords, LeaderTypes
<1> HIDE DEF x
<1>3. query' \in [Replicas -> QueryType] /\ query'[r] = x
      /\ \A q \in Replicas \ {r} : query'[q] = query[q]
  BY <1>0, <1>1, <1>2 DEF LeaderTypeOK
<1>4. LeaderTypeOK'
  BY <1>0, <1>3 DEF LeaderTypeOK
<1>5. OthersKept(r)
  BY <1>3 DEF OthersKept, Holds
<1>6. ConnectionOK(r)'
  BY <1>0, <1>2, <1>3 DEF ConnectionOK
<1>7. Holds(r)'
  BY DEF Holds
<1>8. left[r] \in Nat /\ query[r].age \in Nat /\ left[r] <= Validity /\ 0 <= Validity - left[r]
  BY <1>0, LeaderTypes, Timing DEF ValidityOK
<1>9. ValidityOK(r)'
  BY <1>2, <1>3, <1>7, <1>8 DEF ValidityOK, Covered
<1>10. QED
  BY <1>4, <1>5, <1>6, <1>9, OneMoves

(* renew: an answer arrives, and the validity counts from when its query   *)
(* was sent.                                                               *)
LEMMA RenewKeeps ==
  ASSUME LeaderInv, NEW r \in Replicas, query[r].op \in {"locked", "pong"},
         left' = [left EXCEPT ![r] = ValidFromSend(r)], query' = [query EXCEPT ![r] = Pause],
         conn' = [conn EXCEPT ![r] = TRUE], UNCHANGED <<lock, idle, lost>>
  PROVE  LeaderInv'
<1>0. LeaderTypeOK /\ ConnectionOK(r) /\ ValidityOK(r)
  BY DEF LeaderInv
<1> DEFINE n == ValidFromSend(r)
<1>1. n \in Nat /\ n <= Validity /\ (n > 0 => query[r].age < Validity /\ Validity - n = query[r].age)
  BY <1>0, LeaderTypes, Timing DEF ValidFromSend
<1>2. left' = [left EXCEPT ![r] = n]
  OBVIOUS
<1> HIDE DEF n
<1>3. left' \in [Replicas -> Nat] /\ left'[r] = n /\ \A q \in Replicas \ {r} : left'[q] = left[q]
  BY <1>0, <1>1, <1>2 DEF LeaderTypeOK
<1>4. query' \in [Replicas -> QueryType] /\ query'[r] = Pause
      /\ \A q \in Replicas \ {r} : query'[q] = query[q]
  BY <1>0, QueryRecords DEF LeaderTypeOK
<1>5. conn' \in [Replicas -> BOOLEAN] /\ conn'[r] /\ \A q \in Replicas \ {r} : conn'[q] = conn[q]
  BY <1>0 DEF LeaderTypeOK
<1>6. LeaderTypeOK'
  BY <1>0, <1>3, <1>4, <1>5 DEF LeaderTypeOK
<1>7. OthersKept(r)
  BY <1>3, <1>4, <1>5 DEF OthersKept, Holds
<1>8. ConnectionOK(r)'
  BY <1>4, <1>5, QueryRecords DEF ConnectionOK
<1>9. n > 0 => Covered(r, Validity - n)
  BY <1>0, <1>1 DEF ValidityOK, Covered
<1>10. left'[r] > 0 => Covered(r, Validity - left[r])'
  BY <1>3, <1>9 DEF Covered, Holds
<1>11. ValidityOK(r)'
  BY <1>1, <1>3, <1>4, <1>10, QueryRecords DEF ValidityOK
<1>12. QED
  BY <1>6, <1>7, <1>8, <1>11, OneMoves

(* The connection is dropped: the replica has given up its leadership      *)
(* before the lock can become free.                                        *)
LEMMA DropKeeps ==
  ASSUME LeaderInv, NEW r \in Replicas, DropConnection(r), UNCHANGED <<idle, lost>>
  PROVE  LeaderInv'
<1>0. LeaderTypeOK /\ lock \in SessionType
  BY DEF LeaderInv, LeaderTypeOK
<1>1. left' \in [Replicas -> Nat] /\ left'[r] = 0 /\ \A q \in Replicas \ {r} : left'[q] = left[q]
  BY <1>0 DEF DropConnection, LeaderTypeOK
<1>2. query' \in [Replicas -> QueryType] /\ query'[r] = Pause
      /\ \A q \in Replicas \ {r} : query'[q] = query[q]
  BY <1>0, QueryRecords DEF DropConnection, LeaderTypeOK
<1>3. conn' \in [Replicas -> BOOLEAN] /\ ~conn'[r] /\ \A q \in Replicas \ {r} : conn'[q] = conn[q]
  BY <1>0 DEF DropConnection, LeaderTypeOK
<1>4. lock' \in SessionType /\ lock'.by = lock.by /\ (lock.by # r => lock' = lock)
  <2>1. [lock EXCEPT !.open = FALSE] \in SessionType /\ [lock EXCEPT !.open = FALSE].by = lock.by
    BY <1>0 DEF SessionType
  <2>2. lock' = lock \/ (lock.by = r /\ lock' = [lock EXCEPT !.open = FALSE])
    BY DEF DropConnection
  <2>3. QED
    BY <1>0, <2>1, <2>2
<1>5. LeaderTypeOK'
  BY <1>0, <1>1, <1>2, <1>3, <1>4 DEF LeaderTypeOK
<1>6. OthersKept(r)
  BY <1>1, <1>2, <1>3, <1>4 DEF OthersKept, Holds
<1>7. ConnectionOK(r)'
  BY <1>1, <1>2, <1>3, QueryRecords DEF ConnectionOK
<1>8. 0 <= Validity /\ ~(0 > 0)
  BY Timing
<1>9. ValidityOK(r)'
  BY <1>1, <1>2, <1>8, QueryRecords DEF ValidityOK
<1>10. QED
  BY <1>5, <1>6, <1>7, <1>9, OneMoves

(* The session ends at its lease, or because its socket closed: nobody who *)
(* believes that it leads held it.                                         *)
LEMMA SessionEndsKeeps ==
  ASSUME LeaderInv, SessionCloses \/ LeaseExpires
  PROVE  LeaderInv'
<1>0. LeaderTypeOK
  BY DEF LeaderInv
<1>1. lock' = NoSession /\ UNCHANGED <<idle, conn, left, query, lost>>
      /\ (~lock.open \/ idle >= Lease)
  BY DEF SessionCloses, LeaseExpires
<1>2. NoSession \in SessionType /\ ~NoSession.open
  BY DEF NoSession, SessionType
<1>3. LeaderTypeOK'
  BY <1>0, <1>1, <1>2 DEF LeaderTypeOK
<1>4. ASSUME NEW r \in Replicas PROVE ConnectionOK(r)' /\ ValidityOK(r)'
  <2>0. /\ ConnectionOK(r) /\ ValidityOK(r) /\ idle \in Nat /\ left[r] \in Nat
        /\ query[r].age \in Nat
    BY <1>0, LeaderTypes DEF LeaderInv
  <2>1. ~Holds(r)'
    BY <1>1, <1>2 DEF Holds
  <2>2. CASE ~Holds(r)
    BY <1>1, <2>1, <2>2, Bystander
  <2>3. CASE Holds(r)
    <3>1. idle >= Lease
      BY <1>1, <2>3 DEF Holds
    <3>2. ~(left[r] > 0)
      BY <2>0, <2>3, <3>1, Timing DEF ValidityOK, Covered
    <3>3. query[r].op \in {"locked", "pong"} => ~(query[r].age < Validity)
      BY <2>0, <2>3, <3>1, Timing DEF ValidityOK, Covered
    <3>4. ConnectionOK(r)'
      BY <1>1, <2>0 DEF ConnectionOK
    <3>5. QED
      BY <1>1, <2>0, <3>2, <3>3, <3>4 DEF ValidityOK
  <2>4. QED
    BY <2>2, <2>3
<1>5. QED
  BY <1>3, <1>4 DEF LeaderInv

(* The session of a connected replica ends early. *)
LEMMA SessionLostKeeps ==
  ASSUME LeaderInv, NEW r \in Replicas, SessionLost(r)
  PROVE  LeaderInv'
<1>0. LeaderTypeOK /\ ConnectionOK(r) /\ ValidityOK(r)
  BY DEF LeaderInv
<1>1. /\ lock' = NoSession /\ lost' = [lost EXCEPT ![r] = 0] /\ UNCHANGED <<idle, conn, left, query>>
      /\ Holds(r) /\ conn[r]
  BY DEF SessionLost
<1>2. NoSession \in SessionType /\ ~NoSession.open
  BY DEF NoSession, SessionType
<1>3. lost' \in [Replicas -> Int] /\ lost'[r] = 0 /\ \A q \in Replicas \ {r} : lost'[q] = lost[q]
  BY <1>0, <1>1 DEF LeaderTypeOK
<1>4. LeaderTypeOK'
  BY <1>0, <1>1, <1>2, <1>3 DEF LeaderTypeOK
<1>5. \A q \in Replicas : ~Holds(q)'
  BY <1>1, <1>2 DEF Holds
<1>6. OthersKept(r)
  BY <1>1, <1>3, <1>5 DEF OthersKept, Holds
<1>7. ConnectionOK(r)'
  BY <1>0, <1>1 DEF ConnectionOK
<1>8. left[r] \in Nat /\ query[r].age \in Nat /\ left[r] <= Validity /\ 0 <= Validity - left[r]
  BY <1>0, LeaderTypes, Timing DEF ValidityOK
<1>9. query[r].op # "locked"
  BY <1>0, <1>1 DEF ConnectionOK
<1>10. ValidityOK(r)'
  BY <1>1, <1>3, <1>5, <1>8, <1>9 DEF ValidityOK, Covered
<1>11. QED
  BY <1>4, <1>6, <1>7, <1>10, OneMoves

(* Every step keeps the invariant. *)
LEMMA LeaderStepKeeps ==
  ASSUME LeaderInv, [LeaderNext]_leaderVars
  PROVE  LeaderInv'
<1>0. /\ LeaderTypeOK /\ conn \in [Replicas -> BOOLEAN]
      /\ \A r \in Replicas : query[r] \in QueryType /\ ConnectionOK(r) /\ conn[r] \in BOOLEAN
  BY DEF LeaderInv, LeaderTypeOK
<1>1. ASSUME NEW r \in Replicas,
             SendLock(r) \/ StayFollower(r) \/ NotAcquired(r) \/ SendPing(r)
      PROVE  LeaderInv'
  <2>1. PICK x \in QueryType :
          /\ query' = [query EXCEPT ![r] = x] /\ x.op \in {"pause", "lock", "ping"}
          /\ (x.op = "lock" => ~conn[r]) /\ (x.op = "ping" => conn[r])
    <3>1. CASE SendLock(r)
      BY <3>1, QueryRecords DEF SendLock, QueryOps
    <3>2. CASE StayFollower(r) \/ NotAcquired(r)
      BY <3>2, QueryRecords DEF StayFollower, NotAcquired
    <3>3. CASE SendPing(r)
      BY <3>3, QueryRecords DEF SendPing, QueryOps
    <3>4. QED
      BY <1>1, <3>1, <3>2, <3>3
  <2>2. UNCHANGED <<lock, idle, conn, left, lost>>
    BY <1>1 DEF SendLock, StayFollower, NotAcquired, SendPing
  <2>3. QED
    BY <2>1, <2>2, QueryMoves
<1>2. ASSUME NEW r \in Replicas, ServeLock(r) PROVE LeaderInv'
  <2>1. query[r].op = "lock" /\ UNCHANGED <<conn, left>>
    BY <1>2 DEF ServeLock
  <2>2. CASE lock = NoSession
    BY <1>2, <2>1, <2>2, GrantKeeps DEF ServeLock
  <2>3. CASE lock # NoSession
    <3> DEFINE x == [query[r] EXCEPT !.op = "held"]
    <3>1. query' = [query EXCEPT ![r] = x] /\ UNCHANGED <<lock, idle, lost>>
      BY <1>2, <2>3 DEF ServeLock
    <3>2. x \in QueryType /\ x.op = "held"
      BY <1>0, QueryRecords DEF QueryOps
    <3>3. ~conn[r]
      BY <1>0, <2>1 DEF ConnectionOK
    <3> HIDE DEF x
    <3>4. QED
      BY <2>1, <3>1, <3>2, <3>3, QueryMoves
  <2>4. QED
    BY <2>2, <2>3
<1>3. ASSUME NEW r \in Replicas, ServePing(r) PROVE LeaderInv'
  <2>1. query[r].op = "ping" /\ UNCHANGED <<lock, conn, left, lost>>
    BY <1>3 DEF ServePing
  <2>2. CASE Holds(r)
    BY <1>3, <2>1, <2>2, PongKeeps DEF ServePing
  <2>3. CASE ~Holds(r)
    <3> DEFINE x == [query[r] EXCEPT !.op = "gone"]
    <3>1. query' = [query EXCEPT ![r] = x] /\ idle' = idle
      BY <1>3, <2>3 DEF ServePing
    <3>2. x \in QueryType /\ x.op = "gone"
      BY <1>0, QueryRecords DEF QueryOps
    <3>3. conn[r]
      BY <1>0, <2>1 DEF ConnectionOK
    <3> HIDE DEF x
    <3>4. QED
      BY <2>1, <3>1, <3>2, <3>3, QueryMoves
  <2>4. QED
    BY <2>2, <2>3
<1>4. ASSUME NEW r \in Replicas, Acquired(r) PROVE LeaderInv'
  BY <1>4, RenewKeeps DEF Acquired
<1>5. ASSUME NEW r \in Replicas, Ponged(r) PROVE LeaderInv'
  <2>1. query[r].op = "pong" /\ conn' = conn /\ conn[r]
    BY <1>0, <1>5 DEF Ponged, ConnectionOK
  <2>2. conn' = [conn EXCEPT ![r] = TRUE]
    BY <1>0, <2>1
  <2>3. QED
    BY <1>5, <2>1, <2>2, RenewKeeps DEF Ponged
<1>6. ASSUME NEW r \in Replicas, PingFails(r) \/ TimesOut(r) \/ ReleaseLock(r) \/ Restart(r)
      PROVE  LeaderInv'
  BY <1>6, DropKeeps DEF PingFails, TimesOut, ReleaseLock, Restart
<1>7. CASE UNCHANGED <<lock, idle, conn, left, query, lost>>
  <2>1. LeaderTypeOK'
    BY <1>0, <1>7 DEF LeaderTypeOK
  <2>2. ASSUME NEW r \in Replicas PROVE ConnectionOK(r)' /\ ValidityOK(r)'
    BY <1>7, Bystander DEF Holds
  <2>3. QED
    BY <2>1, <2>2 DEF LeaderInv
<1>8. ASSUME NEW r \in Replicas, Freeze(r) \/ Thaw(r) \/ Stall(r) \/ Recovers(r) PROVE LeaderInv'
  BY <1>7, <1>8 DEF Freeze, Thaw, Stall, Recovers
<1>9. CASE UNCHANGED leaderVars
  BY <1>7, <1>9 DEF leaderVars
<1>10. QED
  BY <1>1, <1>2, <1>3, <1>4, <1>5, <1>6, <1>8, <1>9, TickKeeps, SessionEndsKeeps, SessionLostKeeps
     DEF LeaderNext, LeaderStep, ServerStep

(* The invariant of the lease. *)
THEOREM LeaderInvHolds == LeaderSpec => []LeaderInv
BY LeaderInvInit, LeaderStepKeeps, PTL DEF LeaderSpec

(* A replica that believes it leads holds the lock, unless its session was *)
(* ended early, and then for less than its validity: for any number of     *)
(* replicas and faults, freezes and stale answers included, and for every  *)
(* timing that LeaderTiming::check accepts (leader.rs, renew).             *)
THEOREM LeadersAreBounded == LeaderSpec => []StaleLeaderBounded
<1>1. LeaderInv => StaleLeaderBounded
  <2> SUFFICES ASSUME LeaderInv, NEW r \in Replicas, IsLeader(r), ~Holds(r)
               PROVE  lost[r] \in 0..(Validity - 1)
    BY DEF StaleLeaderBounded
  <2>1. LeaderTypeOK /\ ValidityOK(r)
    BY DEF LeaderInv
  <2>2. left[r] \in Nat /\ left[r] > 0 /\ lost[r] \in Int
    BY <2>1, LeaderTypes DEF IsLeader
  <2>3. lost[r] >= 0 /\ lost[r] <= Validity - left[r]
    BY <2>1, <2>2 DEF ValidityOK, Covered
  <2>4. QED
    BY <2>2, <2>3, Timing
<1>2. QED
  BY <1>1, LeaderInvHolds, PTL

-----------------------------------------------------------------------------
(***************************************************************************)
(* The cron loops                                                          *)
(***************************************************************************)

Triggers == Definitions \cup {NoTrigger}
RowType == [pc : {"asleep", "firing"}, def : Triggers, next : Nat, wake : Nat]

SchedulerTypeOK ==
  /\ now \in Nat /\ now <= MaxTime
  /\ cronLeader \in Schedulers
  /\ config \in [ok : BOOLEAN, def : Triggers]
  /\ sched \in [Schedulers -> RowType]
  /\ slow \in Nat /\ latest \in Nat
  /\ loaded \in [Schedulers -> Nat]
  /\ calm \in BOOLEAN

(* The occurrence of this moment, or the first one after it. *)
IsNext(cron, next) == next = now \/ next = NextAfter(cron, now)

(* A loop that sleeps waits for the next occurrence of its schedule, and   *)
(* wakes no later than that.                                               *)
SleepsInTime(r) ==
  sched[r].pc = "asleep" =>
    /\ now <= sched[r].wake
    /\ IF sched[r].def = NoTrigger THEN sched[r].next = 0
       ELSE /\ sched[r].wake <= sched[r].next /\ sched[r].next > 0
            /\ IsNext(sched[r].def.cron, sched[r].next)

(* A fire under way began at its occurrence; only fires delay it.  In a    *)
(* tick that nothing disturbed it is for that tick, and for the trigger as *)
(* the workspace defines it.                                               *)
FiresInTime(r) ==
  sched[r].pc = "firing" =>
    /\ sched[r].def # NoTrigger
    /\ sched[r].next <= now /\ now - sched[r].next <= slow
    /\ calm => sched[r].next = now /\ (config.ok => sched[r].def = config.def)

(* A loop that knows the schedule has that of the workspace. *)
KnowsSchedule(r) ==
  loaded[r] # Never =>
    /\ loaded[r] <= now /\ config.def # NoTrigger
    /\ sched[r].def.cron = config.def.cron

(* A leader that no longer waits for the occurrence of this moment fired. *)
CaughtUp(r) ==
  /\ sched[r].pc = "asleep" /\ loaded[r] < now /\ calm /\ config.ok /\ cronLeader = r
  /\ now % config.def.cron = 0 /\ sched[r].next # now
  => [occ |-> now, by |-> r] \in fires

RowOK(r) == SleepsInTime(r) /\ FiresInTime(r) /\ KnowsSchedule(r) /\ CaughtUp(r)

SchedulerInv ==
  /\ SchedulerTypeOK /\ latest <= slow /\ slow <= MaxSlow
  /\ \A r \in Schedulers : RowOK(r)

-----------------------------------------------------------------------------
(* Division with remainder. *)
LEMMA Euclid ==
  ASSUME NEW c \in Nat \ {0}, NEW t \in Nat
  PROVE  t \div c \in Nat /\ t % c \in 0..(c - 1) /\ t = (t \div c) * c + (t % c)
OBVIOUS

(* Products with a positive number. *)
LEMMA ProductBounds ==
  ASSUME NEW c \in Nat \ {0}, NEW d \in Int
  PROVE  (d >= 1 => d * c >= c) /\ (d <= -1 => d * c <= -c)
<1>1. ASSUME d >= 1 PROVE d * c >= c
  BY <1>1
<1>2. ASSUME d <= -1 PROVE d * c <= -c
  BY <1>2
<1>3. QED
  BY <1>1, <1>2

(* Quotient and remainder are unique. *)
LEMMA EuclidUnique ==
  ASSUME NEW c \in Nat \ {0}, NEW q \in Nat, NEW p \in Nat,
         NEW r \in 0..(c - 1), NEW s \in 0..(c - 1), q * c + r = p * c + s
  PROVE  q = p /\ r = s
<1>1. (q - p) * c = s - r
  OBVIOUS
<1>2. ~(q - p >= 1) /\ ~(q - p <= -1)
  BY <1>1, ProductBounds
<1>3. q = p
  BY <1>2
<1>4. QED
  BY <1>3

(* compute_next_run: the next occurrence is later, and a tick on it is the *)
(* occurrence itself or leaves the next one as it was.                     *)
LEMMA NextOccurrence ==
  ASSUME NEW c \in Nat \ {0}, NEW t \in Nat
  PROVE  /\ NextAfter(c, t) \in Nat /\ NextAfter(c, t) > t
         /\ IF (t + 1) % c = 0 THEN NextAfter(c, t) = t + 1
            ELSE NextAfter(c, t) = NextAfter(c, t + 1)
<1> DEFINE q == t \div c
           r == t % c
           p == (t + 1) \div c
           s == (t + 1) % c
<1>1. q \in Nat /\ r \in 0..(c - 1) /\ t = q * c + r
  BY Euclid
<1>2. t + 1 \in Nat
  OBVIOUS
<1>3. p \in Nat /\ s \in 0..(c - 1) /\ t + 1 = p * c + s
  BY <1>2, Euclid
<1>4. NextAfter(c, t) = (q + 1) * c /\ NextAfter(c, t + 1) = (p + 1) * c
  BY DEF NextAfter
<1> HIDE DEF q, r, p, s
<1>5. (q + 1) * c = q * c + c /\ q * c \in Nat
  BY <1>1
<1>6. NextAfter(c, t) \in Nat /\ NextAfter(c, t) > t
  BY <1>1, <1>4, <1>5
<1>7. CASE r + 1 < c
  <2>1. q * c + (r + 1) = p * c + s /\ r + 1 \in 0..(c - 1)
    BY <1>1, <1>3, <1>5, <1>7
  <2>2. q = p /\ r + 1 = s
    BY <1>1, <1>3, <2>1, EuclidUnique
  <2>3. QED
    BY <1>1, <1>4, <1>6, <2>2 DEF s
<1>8. CASE r + 1 = c
  <2>1. (q + 1) * c + 0 = p * c + s /\ q + 1 \in Nat /\ 0 \in 0..(c - 1)
    BY <1>1, <1>3, <1>5, <1>8
  <2>2. q + 1 = p /\ 0 = s
    BY <1>1, <1>3, <2>1, EuclidUnique
  <2>3. t + 1 = (q + 1) * c
    BY <1>1, <1>5, <1>8
  <2>4. QED
    BY <1>4, <1>6, <2>2, <2>3 DEF s
<1>9. QED
  BY <1>1, <1>7, <1>8

(* The values of the types. *)
LEMMA SchedulerTypes ==
  ASSUME SchedulerTypeOK
  PROVE  /\ now \in Nat /\ now <= MaxTime /\ slow \in Nat /\ latest \in Nat
         /\ config.ok \in BOOLEAN /\ config.def \in Triggers
         /\ \A r \in Schedulers :
              /\ sched[r] \in RowType /\ sched[r].def \in Triggers
              /\ sched[r].pc \in {"asleep", "firing"}
              /\ sched[r].next \in Nat /\ sched[r].wake \in Nat /\ loaded[r] \in Nat
BY DEF SchedulerTypeOK, RowType

(* A trigger has a period, and no trigger has none. *)
LEMMA TriggerPeriods ==
  /\ NoTrigger.cron = 0
  /\ \A d \in Triggers : d # NoTrigger => d.cron \in Nat \ {0}
  /\ Never \in Nat /\ Never > MaxTime /\ MaxTime \in Nat
<1>1. \A d \in Definitions : d.cron \in Nat \ {0}
  BY SchedulerAssumption DEF Definitions
<1>2. QED
  BY <1>1, SchedulerAssumption DEF Triggers, NoTrigger, Never

(* The invariant holds initially. *)
LEMMA SchedulerInvInit == SchedulerInit => SchedulerInv
<1> SUFFICES ASSUME SchedulerInit PROVE SchedulerInv
  OBVIOUS
<1> DEFINE x == [pc |-> "asleep", def |-> NoTrigger, next |-> 0, wake |-> 0]
<1>1. x \in RowType /\ x.pc = "asleep" /\ x.def = NoTrigger /\ x.next = 0 /\ x.wake = 0
  BY DEF RowType, Triggers
<1>2. sched = [r \in Schedulers |-> x] /\ loaded = [r \in Schedulers |-> Never] /\ now = 0
      /\ slow = 0 /\ latest = 0 /\ calm = FALSE /\ config = [ok |-> TRUE, def |-> NoTrigger]
  BY DEF SchedulerInit
<1>3. cronLeader \in Schedulers
  BY SchedulerAssumption DEF SchedulerInit
<1> HIDE DEF x
<1>4. config \in [ok : BOOLEAN, def : Triggers]
  BY <1>2 DEF Triggers
<1>5. sched \in [Schedulers -> RowType] /\ loaded \in [Schedulers -> Nat]
  BY <1>1, <1>2, TriggerPeriods
<1>6. SchedulerTypeOK /\ latest <= slow /\ slow <= MaxSlow
  <2>1. now \in Nat /\ now <= MaxTime /\ slow \in Nat /\ latest \in Nat
        /\ latest <= slow /\ slow <= MaxSlow
    BY <1>2, SchedulerAssumption
  <2>2. calm \in BOOLEAN
    BY <1>2
  <2>3. QED
    BY <1>3, <1>4, <1>5, <2>1, <2>2 DEF SchedulerTypeOK
<1>7. \A r \in Schedulers : sched[r] = x /\ loaded[r] = Never
  BY <1>2
<1>8. \A r \in Schedulers : RowOK(r)
  BY <1>1, <1>2, <1>7 DEF RowOK, SleepsInTime, FiresInTime, KnowsSchedule, CaughtUp
<1>9. QED
  BY <1>6, <1>8 DEF SchedulerInv

(* One loop moves within a tick: its own row is what has to be shown. *)
LEMMA RowMoves ==
  ASSUME SchedulerInv, NEW r \in Schedulers, NEW x \in RowType, sched' = [sched EXCEPT ![r] = x],
         UNCHANGED <<now, cronLeader, config, slow>>, calm' = calm \/ calm' = FALSE,
         fires \subseteq fires', latest' \in Nat, latest' <= slow,
         loaded' \in [Schedulers -> Nat], \A q \in Schedulers \ {r} : loaded'[q] = loaded[q],
         sched'[r] = x => RowOK(r)'
  PROVE  SchedulerInv'
<1>1. sched' \in [Schedulers -> RowType] /\ sched'[r] = x
      /\ \A q \in Schedulers \ {r} : sched'[q] = sched[q]
  BY DEF SchedulerInv, SchedulerTypeOK
<1>2. SchedulerTypeOK' /\ latest' <= slow' /\ slow' <= MaxSlow
  BY <1>1 DEF SchedulerInv, SchedulerTypeOK
<1>3. ASSUME NEW q \in Schedulers \ {r} PROVE RowOK(q)'
  <2>1. RowOK(q) /\ sched'[q] = sched[q] /\ loaded'[q] = loaded[q]
    BY <1>1 DEF SchedulerInv
  <2>2. SleepsInTime(q)' /\ FiresInTime(q)'
    BY <2>1 DEF RowOK, SleepsInTime, FiresInTime, IsNext
  <2>3. KnowsSchedule(q)'
    BY <2>1 DEF RowOK, KnowsSchedule
  <2>4. CaughtUp(q)'
    BY <2>1 DEF RowOK, CaughtUp
  <2>5. QED
    BY <2>2, <2>3, <2>4 DEF RowOK
<1>4. QED
  BY <1>1, <1>2, <1>3 DEF SchedulerInv

(* sleep_duration, before the occurrence that is waited for. *)
LEMMA AsleepRow ==
  ASSUME now \in Nat, NEW def \in Triggers, NEW next \in Nat,
         IF def = NoTrigger THEN next = 0 ELSE next > now
  PROVE  /\ Asleep(def, next) \in RowType /\ Asleep(def, next).pc = "asleep"
         /\ Asleep(def, next).def = def /\ Asleep(def, next).next = next
         /\ now <= Asleep(def, next).wake
         /\ def # NoTrigger => Asleep(def, next).wake <= next /\ next > 0
<1> DEFINE w == IF def = NoTrigger THEN now + MaxSleep
                ELSE Earlier(IF next > now THEN next ELSE now + 1, now + MaxSleep)
<1>1. w \in Nat /\ now <= w /\ (def # NoTrigger => w <= next /\ next > 0)
  BY SchedulerAssumption DEF Earlier
<1>2. Asleep(def, next) = [pc |-> "asleep", def |-> def, next |-> next, wake |-> w]
  BY DEF Asleep
<1> HIDE DEF w
<1>3. QED
  BY <1>1, <1>2 DEF RowType

(* run_loop, what a pass knows once the triggers are loaded: it waits for  *)
(* nothing that is over, and who knew the schedule waits for what it did.  *)
LEMMA LoadedNext ==
  ASSUME SchedulerInv, NEW r \in Schedulers, sched[r].pc = "asleep",
         NEW def, NEW next, def = LoadTriggers(r).def,
         next = (IF def = NoTrigger THEN 0
                 ELSE IF LoadTriggers(r).next = 0 THEN NextAfter(def.cron, now)
                 ELSE LoadTriggers(r).next)
  PROVE  /\ def \in Triggers /\ next \in Nat
         /\ IF def = NoTrigger THEN next = 0
            ELSE next >= now /\ next > 0 /\ IsNext(def.cron, next)
         /\ loaded[r] # Never => next = sched[r].next /\ def.cron = config.def.cron /\ def # NoTrigger
         /\ config.ok => def = config.def
<1>0. SchedulerTypeOK /\ RowOK(r)
  BY DEF SchedulerInv
<1>1. def = (IF config.ok THEN config.def ELSE sched[r].def)
  BY DEF LoadTriggers
<1>2. LoadTriggers(r).next = (IF ~config.ok \/ config.def.cron = sched[r].def.cron
                              THEN sched[r].next ELSE 0)
  BY DEF LoadTriggers
<1>3. def \in Triggers /\ now \in Nat /\ sched[r].next \in Nat /\ (def # NoTrigger => def.cron \in Nat \ {0})
  BY <1>0, <1>1, SchedulerTypes, TriggerPeriods
<1>4. sched[r].def \in Triggers /\ config.def \in Triggers /\ config.ok \in BOOLEAN
  BY <1>0, SchedulerTypes
<1>5. IF sched[r].def = NoTrigger THEN sched[r].next = 0
      ELSE sched[r].next >= now /\ sched[r].next > 0 /\ IsNext(sched[r].def.cron, sched[r].next)
  <2>1. sched[r].wake \in Nat
    BY <1>0, SchedulerTypes
  <2>2. QED
    BY <1>0, <1>3, <2>1 DEF RowOK, SleepsInTime
<1>6. CASE def = NoTrigger
  <2>1. loaded[r] = Never
    BY <1>0, <1>1, <1>3, <1>4, <1>6, TriggerPeriods DEF RowOK, KnowsSchedule
  <2>2. QED
    BY <1>1, <1>3, <1>6, <2>1
<1>7. CASE def # NoTrigger /\ LoadTriggers(r).next # 0
  <2>1. next = sched[r].next /\ (~config.ok \/ config.def.cron = sched[r].def.cron)
    BY <1>2, <1>7
  <2>2. /\ sched[r].def # NoTrigger /\ next >= now /\ next > 0
        /\ IsNext(sched[r].def.cron, next) /\ def.cron = sched[r].def.cron
    BY <1>1, <1>2, <1>5, <1>7, <2>1
  <2>3. loaded[r] # Never => def.cron = config.def.cron
    BY <1>0, <1>1 DEF RowOK, KnowsSchedule
  <2>4. QED
    BY <1>1, <1>3, <1>7, <2>1, <2>2, <2>3
<1>8. CASE def # NoTrigger /\ LoadTriggers(r).next = 0
  <2>1. next = NextAfter(def.cron, now) /\ next \in Nat /\ next > now
    BY <1>3, <1>8, NextOccurrence
  <2>2. loaded[r] = Never
    <3> SUFFICES ASSUME loaded[r] # Never PROVE FALSE
      OBVIOUS
    <3>1. config.def # NoTrigger /\ sched[r].def.cron = config.def.cron
      BY <1>0 DEF RowOK, KnowsSchedule
    <3>2. sched[r].def # NoTrigger
      BY <1>4, <3>1, TriggerPeriods
    <3>3. QED
      BY <1>2, <1>5, <1>8, <3>1, <3>2
  <2>3. QED
    BY <1>1, <1>3, <1>8, <2>1, <2>2 DEF IsNext
<1>9. QED
  BY <1>6, <1>7, <1>8

(* A pass of one loop. *)
LEMMA PassKeeps ==
  ASSUME SchedulerInv, NEW r \in Schedulers, Pass(r)
  PROVE  SchedulerInv'
<1>0. SchedulerTypeOK /\ RowOK(r) /\ sched[r].pc = "asleep" /\ latest <= slow
  BY DEF SchedulerInv, Pass
<1> DEFINE t == LoadTriggers(r)
           def == t.def
           next == IF t.def = NoTrigger THEN 0
                   ELSE IF t.next = 0 THEN NextAfter(t.def.cron, now) ELSE t.next
           due == t.def # NoTrigger /\ now >= next
           x == CASE due /\ cronLeader = r -> [pc |-> "firing", def |-> t.def, next |-> next, wake |-> 0]
                  [] due /\ cronLeader # r -> Asleep(t.def, FollowerAdvances(t.def.cron, next))
                  [] OTHER -> Asleep(t.def, next)
<1>1. /\ sched' = [sched EXCEPT ![r] = x]
      /\ loaded' = IF config.ok /\ loaded[r] = Never /\ config.def # NoTrigger
                   THEN [loaded EXCEPT ![r] = now] ELSE loaded
      /\ UNCHANGED <<now, cronLeader, config, slow, disturbances, fires, latest, calm>>
  BY DEF Pass
<1>2. /\ def \in Triggers /\ next \in Nat
      /\ IF def = NoTrigger THEN next = 0
         ELSE next >= now /\ next > 0 /\ IsNext(def.cron, next)
      /\ loaded[r] # Never => next = sched[r].next /\ def.cron = config.def.cron /\ def # NoTrigger
      /\ config.ok => def = config.def
  BY <1>0, LoadedNext
<1>3. now \in Nat /\ slow \in Nat /\ latest \in Nat /\ (def # NoTrigger => def.cron \in Nat \ {0})
      /\ config.ok \in BOOLEAN /\ now <= MaxTime
  BY <1>0, <1>2, SchedulerTypes, TriggerPeriods
<1>4. \/ def # NoTrigger /\ next = now /\ cronLeader = r
           /\ x = [pc |-> "firing", def |-> def, next |-> next, wake |-> 0]
      \/ def # NoTrigger /\ next = now /\ cronLeader # r /\ x = Asleep(def, NextAfter(def.cron, now))
      \/ (def = NoTrigger \/ next > now) /\ x = Asleep(def, next)
  <2>1. due <=> def # NoTrigger /\ next = now
    BY <1>2, <1>3
  <2>2. CASE due /\ cronLeader = r
    BY <2>1, <2>2
  <2>3. CASE due /\ cronLeader # r
    BY <2>1, <2>3 DEF FollowerAdvances
  <2>4. CASE ~due
    <3>1. def = NoTrigger \/ next > now
      BY <1>2, <1>3, <2>4
    <3>2. QED
      BY <2>4, <3>1
  <2>5. QED
    BY <2>2, <2>3, <2>4
<1>5. loaded' \in [Schedulers -> Nat] /\ \A q \in Schedulers \ {r} : loaded'[q] = loaded[q]
  BY <1>0, <1>1, <1>3 DEF SchedulerTypeOK
<1>6. loaded'[r] = now \/ loaded'[r] = loaded[r]
  BY <1>0, <1>1 DEF SchedulerTypeOK
<1>7. loaded'[r] # Never => loaded'[r] <= now /\ config.def # NoTrigger /\ def.cron = config.def.cron
  <2>1. CASE config.ok /\ loaded[r] = Never /\ config.def # NoTrigger
    BY <1>0, <1>1, <1>2, <1>3, <2>1 DEF SchedulerTypeOK
  <2>2. CASE ~(config.ok /\ loaded[r] = Never /\ config.def # NoTrigger)
    BY <1>0, <1>1, <1>2, <2>2 DEF RowOK, KnowsSchedule
  <2>3. QED
    BY <2>1, <2>2
<1>8. loaded'[r] < now => loaded[r] < now /\ loaded[r] # Never
  BY <1>0, <1>3, <1>6, SchedulerTypes, TriggerPeriods
<1> HIDE DEF t, def, next, due, x
<1>9. CASE def # NoTrigger /\ next = now /\ cronLeader = r
           /\ x = [pc |-> "firing", def |-> def, next |-> next, wake |-> 0]
  <2>1. x \in RowType /\ x.pc = "firing" /\ x.def = def /\ x.next = now
    BY <1>2, <1>9 DEF RowType
  <2>2. ASSUME sched'[r] = x PROVE RowOK(r)'
    <3>1. now - now <= slow /\ now <= now
      BY <1>3
    <3>2. SleepsInTime(r)' /\ CaughtUp(r)'
      BY <2>1, <2>2 DEF SleepsInTime, CaughtUp
    <3>3. FiresInTime(r)'
      BY <1>1, <1>2, <1>9, <2>1, <2>2, <3>1 DEF FiresInTime
    <3>4. KnowsSchedule(r)'
      BY <1>1, <1>7, <2>1, <2>2 DEF KnowsSchedule
    <3>5. QED
      BY <3>2, <3>3, <3>4 DEF RowOK
  <2>3. QED
    BY <1>0, <1>1, <1>3, <1>5, <2>1, <2>2, RowMoves
<1>10. ASSUME NEW n \in Nat, x = Asleep(def, n),
              IF def = NoTrigger THEN n = 0 ELSE n > now /\ IsNext(def.cron, n),
              loaded[r] # Never /\ cronLeader = r => n = sched[r].next
       PROVE  SchedulerInv'
  <2>1. /\ x \in RowType /\ x.pc = "asleep" /\ x.def = def /\ x.next = n /\ now <= x.wake
        /\ def # NoTrigger => x.wake <= n /\ n > 0
    BY <1>2, <1>3, <1>10, AsleepRow
  <2>2. ASSUME sched'[r] = x PROVE RowOK(r)'
    <3>1. SleepsInTime(r)'
      BY <1>1, <1>10, <2>1, <2>2 DEF SleepsInTime, IsNext
    <3>2. FiresInTime(r)'
      BY <2>1, <2>2 DEF FiresInTime
    <3>3. KnowsSchedule(r)'
      BY <1>1, <1>7, <2>1, <2>2 DEF KnowsSchedule
    <3>4. CaughtUp(r)'
      BY <1>0, <1>1, <1>8, <1>10, <2>1, <2>2 DEF RowOK, CaughtUp
    <3>5. QED
      BY <3>1, <3>2, <3>3, <3>4 DEF RowOK
  <2>3. QED
    BY <1>0, <1>1, <1>3, <1>5, <2>1, <2>2, RowMoves
<1>11. CASE def # NoTrigger /\ next = now /\ cronLeader # r /\ x = Asleep(def, NextAfter(def.cron, now))
  <2>1. NextAfter(def.cron, now) \in Nat /\ NextAfter(def.cron, now) > now
    BY <1>3, <1>11, NextOccurrence
  <2>2. IsNext(def.cron, NextAfter(def.cron, now))
    BY DEF IsNext
  <2>3. QED
    BY <1>10, <1>11, <2>1, <2>2
<1>12. CASE (def = NoTrigger \/ next > now) /\ x = Asleep(def, next)
  BY <1>2, <1>10, <1>12
<1>13. QED
  BY <1>4, <1>9, <1>11, <1>12

(* A fire ends: for its occurrence, with the delay that fires caused, or   *)
(* in a tick that is no longer calm.                                       *)
LEMMA FireKeeps ==
  ASSUME SchedulerInv, NEW r \in Schedulers, FireTrigger(r) \/ FireFails(r)
  PROVE  SchedulerInv'
<1> DEFINE def == sched[r].def
           n == NextAfter(def.cron, now)
           x == Asleep(def, n)
<1>0. SchedulerTypeOK /\ RowOK(r) /\ sched[r].pc = "firing" /\ latest <= slow
  BY DEF SchedulerInv, FireTrigger, FireFails, FireEnds
<1>1. /\ sched' = [sched EXCEPT ![r] = x] /\ fires \subseteq fires'
      /\ UNCHANGED <<now, cronLeader, config, slow, loaded>>
      /\ calm' = calm \/ calm' = FALSE
      /\ latest' = latest \/ latest' = now - sched[r].next
      /\ calm' /\ config.ok /\ config.def = def => [occ |-> sched[r].next, by |-> r] \in fires'
  BY DEF FireTrigger, FireFails, FireEnds, Disturb
<1>2. /\ now \in Nat /\ slow \in Nat /\ latest \in Nat /\ sched[r].next \in Nat
      /\ def \in Triggers /\ def # NoTrigger /\ def.cron \in Nat \ {0}
      /\ sched[r].next <= now /\ now - sched[r].next <= slow
  <2>1. /\ now \in Nat /\ slow \in Nat /\ latest \in Nat /\ sched[r].next \in Nat /\ def \in Triggers
    BY <1>0, SchedulerTypes
  <2>2. def # NoTrigger /\ sched[r].next <= now /\ now - sched[r].next <= slow
    BY <1>0 DEF RowOK, FiresInTime
  <2>3. QED
    BY <2>1, <2>2, TriggerPeriods
<1>3. n \in Nat /\ n > now /\ IsNext(def.cron, n)
  BY <1>2, NextOccurrence DEF IsNext
<1>4. latest' \in Nat /\ latest' <= slow
  BY <1>0, <1>1, <1>2
<1> HIDE DEF n
<1>5. /\ x \in RowType /\ x.pc = "asleep" /\ x.def = def /\ x.next = n /\ now <= x.wake
      /\ x.wake <= n /\ n > 0
  BY <1>2, <1>3, AsleepRow
<1> HIDE DEF x, def
<1>6. ASSUME sched'[r] = x PROVE RowOK(r)'
  <2>1. SleepsInTime(r)'
    BY <1>1, <1>2, <1>3, <1>5, <1>6 DEF SleepsInTime, IsNext
  <2>2. FiresInTime(r)'
    BY <1>5, <1>6 DEF FiresInTime
  <2>3. KnowsSchedule(r)'
    BY <1>0, <1>1, <1>5, <1>6 DEF RowOK, KnowsSchedule, def
  <2>4. CaughtUp(r)'
    <3>1. calm /\ config.ok => sched[r].next = now /\ def = config.def
      BY <1>0 DEF RowOK, FiresInTime, def
    <3>2. QED
      BY <1>1, <3>1 DEF CaughtUp
  <2>5. QED
    BY <2>1, <2>2, <2>3, <2>4 DEF RowOK
<1>7. loaded' \in [Schedulers -> Nat] /\ \A q \in Schedulers \ {r} : loaded'[q] = loaded[q]
  BY <1>0, <1>1 DEF SchedulerTypeOK
<1>8. QED
  BY <1>1, <1>4, <1>5, <1>6, <1>7, RowMoves

(* The clock: it waits for whoever sleeps up to this moment. *)
LEMMA SchedulerTickKeeps ==
  ASSUME SchedulerInv, SchedulerTick
  PROVE  SchedulerInv'
<1>0. SchedulerTypeOK /\ latest <= slow /\ slow <= MaxSlow
  BY DEF SchedulerInv
<1>1. /\ now < MaxTime /\ now' = now + 1
      /\ \A r \in Schedulers \ Firing : sched[r].wake > now
      /\ slow' = (IF Firing = {} THEN slow ELSE slow + 1)
      /\ slow' <= MaxSlow /\ (calm' = (Firing = {}))
      /\ UNCHANGED <<cronLeader, config, sched, latest, loaded, fires>>
  BY DEF SchedulerTick
<1>2. now \in Nat /\ slow \in Nat /\ latest \in Nat /\ now + 1 \in Nat
  BY <1>0, SchedulerTypes
<1>3. SchedulerTypeOK' /\ latest' <= slow' /\ slow' <= MaxSlow
  <2>1. now' \in Nat /\ now' <= MaxTime /\ slow' \in Nat /\ latest' <= slow'
    BY <1>0, <1>1, <1>2, SchedulerAssumption
  <2>2. calm' \in BOOLEAN
    BY <1>1
  <2>3. QED
    BY <1>0, <1>1, <2>1, <2>2 DEF SchedulerTypeOK
<1>4. ASSUME NEW r \in Schedulers PROVE RowOK(r)'
  <2>0. /\ RowOK(r) /\ sched[r].def \in Triggers /\ sched[r].next \in Nat /\ sched[r].wake \in Nat
        /\ loaded[r] \in Nat /\ sched[r].pc \in {"asleep", "firing"}
    BY <1>0, SchedulerTypes DEF SchedulerInv
  <2>1. KnowsSchedule(r)'
    BY <1>1, <1>2, <2>0 DEF RowOK, KnowsSchedule
  <2>2. CASE sched[r].pc = "firing"
    <3>1. Firing # {}
      BY <2>2 DEF Firing
    <3>2. slow' = slow + 1 /\ ~calm'
      BY <1>1, <3>1
    <3>3. sched[r].def # NoTrigger /\ sched[r].next <= now /\ now - sched[r].next <= slow
      BY <2>0, <2>2 DEF RowOK, FiresInTime
    <3>4. sched[r].next <= now + 1 /\ (now + 1) - sched[r].next <= slow + 1
      BY <1>2, <2>0, <3>3
    <3>5. FiresInTime(r)'
      BY <1>1, <3>2, <3>3, <3>4 DEF FiresInTime
    <3>6. SleepsInTime(r)' /\ CaughtUp(r)'
      BY <1>1, <2>2 DEF SleepsInTime, CaughtUp
    <3>7. QED
      BY <2>1, <3>5, <3>6 DEF RowOK
  <2>3. CASE sched[r].pc = "asleep"
    <3>1. sched[r].wake > now
      BY <1>1, <2>3 DEF Firing
    <3>2. now + 1 <= sched[r].wake
      BY <1>2, <2>0, <3>1
    <3>3. FiresInTime(r)'
      BY <1>1, <2>3 DEF FiresInTime
    <3>4. CASE sched[r].def = NoTrigger
      <4>1. loaded[r] = Never
        <5>1. config.def # NoTrigger => config.def.cron # 0
          BY <1>0, SchedulerTypes, TriggerPeriods
        <5>2. QED
          BY <2>0, <3>4, <5>1, TriggerPeriods DEF RowOK, KnowsSchedule
      <4>2. ~(loaded[r] < now + 1)
        BY <1>1, <1>2, <4>1, TriggerPeriods
      <4>3. SleepsInTime(r)'
        BY <1>1, <2>0, <2>3, <3>2, <3>4 DEF RowOK, SleepsInTime
      <4>4. CaughtUp(r)'
        BY <1>1, <4>2 DEF CaughtUp
      <4>5. QED
        BY <2>1, <3>3, <4>3, <4>4 DEF RowOK
    <3>5. CASE sched[r].def # NoTrigger
      <4> DEFINE c == sched[r].def.cron
                 next == sched[r].next
      <4>1. c \in Nat \ {0} /\ sched[r].wake <= next /\ next > 0 /\ IsNext(c, next)
        BY <2>0, <2>3, <3>5, TriggerPeriods DEF RowOK, SleepsInTime
      <4>2. next = NextAfter(c, now)
        <5>1. next > now
          BY <1>2, <2>0, <3>1, <4>1
        <5>2. QED
          BY <1>2, <2>0, <4>1, <5>1 DEF IsNext
      <4>3. IF (now + 1) % c = 0 THEN next = now + 1 ELSE next = NextAfter(c, now + 1)
        BY <1>2, <4>1, <4>2, NextOccurrence
      <4>4. next = now + 1 \/ next = NextAfter(c, now + 1)
        BY <4>3
      <4>5. SleepsInTime(r)'
        BY <1>1, <2>3, <3>2, <3>5, <4>1, <4>4 DEF SleepsInTime, IsNext
      <4>6. CaughtUp(r)'
        <5>1. SUFFICES ASSUME loaded[r] < now + 1, (now + 1) % config.def.cron = 0, next # now + 1
                       PROVE  FALSE
          BY <1>1 DEF CaughtUp
        <5>2. loaded[r] # Never
          BY <1>1, <1>2, <5>1, TriggerPeriods
        <5>3. c = config.def.cron
          BY <2>0, <5>2 DEF RowOK, KnowsSchedule
        <5>4. QED
          BY <4>3, <5>1, <5>3
      <4>7. QED
        BY <2>1, <3>3, <4>5, <4>6 DEF RowOK
    <3>6. QED
      BY <3>4, <3>5
  <2>4. QED
    BY <2>0, <2>2, <2>3
<1>5. QED
  BY <1>3, <1>4 DEF SchedulerInv

(* A handover, an edit or an outage: the tick is no longer calm, and after *)
(* a new schedule nobody knows it.                                         *)
LEMMA DisturbKeeps ==
  ASSUME SchedulerInv, Handover \/ EditSchedule \/ Outage
  PROVE  SchedulerInv'
<1>0. SchedulerTypeOK /\ latest <= slow /\ slow <= MaxSlow
  BY DEF SchedulerInv
<1>1. ~calm' /\ calm' = FALSE /\ UNCHANGED <<now, sched, slow, fires, latest>>
  BY DEF Handover, EditSchedule, Outage, Disturb
<1>2. /\ cronLeader' \in Schedulers /\ config' \in [ok : BOOLEAN, def : Triggers]
      /\ loaded' \in [Schedulers -> Nat]
      /\ \/ loaded' = loaded /\ config'.def.cron = config.def.cron
         \/ loaded' = [r \in Schedulers |-> Never]
  <2>1. config.ok \in BOOLEAN /\ config.def \in Triggers /\ cronLeader \in Schedulers
        /\ config \in [ok : BOOLEAN, def : Triggers] /\ loaded \in [Schedulers -> Nat]
    BY <1>0 DEF SchedulerTypeOK
  <2>2. CASE Handover
    BY <2>1, <2>2 DEF Handover
  <2>3. CASE EditSchedule
    <3>1. PICK def \in Triggers : config' = [config EXCEPT !.def = def]
      BY <2>3 DEF EditSchedule, Triggers
    <3>2. config' \in [ok : BOOLEAN, def : Triggers] /\ cronLeader' = cronLeader
      BY <2>1, <2>3, <3>1 DEF EditSchedule
    <3>3. \/ loaded' = loaded /\ config'.def.cron = config.def.cron
          \/ loaded' = [r \in Schedulers |-> Never]
      BY <2>3 DEF EditSchedule
    <3>4. QED
      BY <2>1, <3>2, <3>3, TriggerPeriods
  <2>4. CASE Outage
    <3>1. config' = [config EXCEPT !.ok = ~config.ok] /\ UNCHANGED <<cronLeader, loaded>>
      BY <2>4 DEF Outage
    <3>2. config' \in [ok : BOOLEAN, def : Triggers] /\ config'.def = config.def
      BY <2>1, <3>1
    <3>3. QED
      BY <2>1, <3>1, <3>2
  <2>5. QED
    BY <2>2, <2>3, <2>4
<1>3. SchedulerTypeOK' /\ latest' <= slow' /\ slow' <= MaxSlow
  BY <1>0, <1>1, <1>2 DEF SchedulerTypeOK
<1>4. ASSUME NEW r \in Schedulers PROVE RowOK(r)'
  <2>0. RowOK(r)
    BY DEF SchedulerInv
  <2>1. SleepsInTime(r)' /\ FiresInTime(r)' /\ CaughtUp(r)'
    BY <1>1, <2>0 DEF RowOK, SleepsInTime, FiresInTime, CaughtUp, IsNext
  <2>2. CASE loaded' = [q \in Schedulers |-> Never]
    BY <2>1, <2>2 DEF RowOK, KnowsSchedule
  <2>3. CASE loaded' = loaded /\ config'.def.cron = config.def.cron
    <3>1. config.def \in Triggers /\ config'.def \in Triggers
      BY <1>0, <1>2 DEF SchedulerTypeOK
    <3>2. config.def # NoTrigger => config'.def # NoTrigger
      BY <2>3, <3>1, TriggerPeriods
    <3>3. KnowsSchedule(r)'
      BY <1>1, <2>0, <2>3, <3>2 DEF RowOK, KnowsSchedule
    <3>4. QED
      BY <2>1, <3>3 DEF RowOK
  <2>4. QED
    BY <1>2, <2>2, <2>3
<1>5. QED
  BY <1>3, <1>4 DEF SchedulerInv

(* Every step keeps the invariant. *)
LEMMA SchedulerStepKeeps ==
  ASSUME SchedulerInv, [SchedulerNext]_schedulerVars
  PROVE  SchedulerInv'
<1>1. CASE UNCHANGED schedulerVars
  <2>1. SchedulerTypeOK'
    BY <1>1 DEF schedulerVars, SchedulerInv, SchedulerTypeOK
  <2>2. ASSUME NEW r \in Schedulers PROVE RowOK(r)'
    BY <1>1 DEF schedulerVars, SchedulerInv, RowOK, SleepsInTime, FiresInTime, KnowsSchedule,
         CaughtUp, IsNext
  <2>3. QED
    BY <1>1, <2>1, <2>2 DEF schedulerVars, SchedulerInv
<1>2. QED
  BY <1>1, PassKeeps, FireKeeps, SchedulerTickKeeps, DisturbKeeps DEF SchedulerNext

(* The invariant of the cron loops. *)
THEOREM SchedulerInvHolds == SchedulerSpec => []SchedulerInv
BY SchedulerInvInit, SchedulerStepKeeps, PTL DEF SchedulerSpec

(* No fire is older than fires themselves take: a replica that takes over, *)
(* or is back after an outage, does not make up for what it saw go by; for *)
(* any number of replicas, handovers, edits and outages (scheduler.rs,     *)
(* run_loop).                                                              *)
THEOREM FiresAreInTime == SchedulerSpec => []NoBackfire
<1>1. SchedulerInv => NoBackfire
  BY SchedulerTypes, SchedulerAssumption DEF SchedulerInv, NoBackfire
<1>2. QED
  BY <1>1, SchedulerInvHolds, PTL

(* An occurrence of a schedule the leader knows goes by without a fire     *)
(* only in a tick with a handover, an edit, an outage, a fire that took    *)
(* long or one that failed; earlier ones cost nothing (scheduler.rs,       *)
(* load_triggers and advance_state_after_tick).                            *)
THEOREM OccurrencesAreFired == SchedulerSpec => OccurrencesFire
<1>1. ASSUME SchedulerInv, SchedulerTick, calm, config.ok, config.def # NoTrigger,
             loaded[cronLeader] < now, now % config.def.cron = 0, Firing = {}
      PROVE  [occ |-> now, by |-> cronLeader] \in fires
  <2> DEFINE r == cronLeader
  <2>1. SchedulerTypeOK /\ r \in Schedulers
    BY <1>1 DEF SchedulerInv, SchedulerTypeOK
  <2>2. /\ RowOK(r) /\ now \in Nat /\ now <= MaxTime /\ sched[r].next \in Nat /\ sched[r].wake \in Nat
        /\ sched[r].def \in Triggers /\ config.def \in Triggers /\ loaded[r] \in Nat
        /\ sched[r].pc \in {"asleep", "firing"}
    BY <1>1, <2>1, SchedulerTypes DEF SchedulerInv
  <2>3. sched[r].pc = "asleep" /\ sched[r].wake > now
    BY <1>1, <2>1, <2>2 DEF Firing, SchedulerTick
  <2>4. loaded[r] # Never
    BY <1>1, <2>2, TriggerPeriods
  <2>5. sched[r].def # NoTrigger
    BY <1>1, <2>2, <2>4, TriggerPeriods DEF RowOK, KnowsSchedule
  <2>6. sched[r].next # now
    <3>1. sched[r].wake <= sched[r].next
      BY <2>2, <2>3, <2>5 DEF RowOK, SleepsInTime
    <3>2. QED
      BY <2>2, <2>3, <3>1
  <2>7. CaughtUp(r)
    BY <2>2 DEF RowOK
  <2>8. QED
    BY <1>1, <2>3, <2>6, <2>7 DEF CaughtUp
<1>2. ASSUME SchedulerInv, SchedulerNext, now' # now PROVE SchedulerTick
  BY <1>2 DEF SchedulerNext, Handover, EditSchedule, Outage, Pass, FireTrigger, FireFails, FireEnds
<1>3. SchedulerInv /\ [SchedulerNext]_schedulerVars =>
        [now' # now /\ calm /\ config.ok /\ config.def # NoTrigger
           /\ loaded[cronLeader] < now /\ now % config.def.cron = 0 /\ Firing = {}
         => [occ |-> now, by |-> cronLeader] \in fires]_schedulerVars
  BY <1>1, <1>2
<1>4. QED
  BY <1>3, SchedulerInvHolds, PTL DEF SchedulerSpec, OccurrencesFire
=============================================================================
