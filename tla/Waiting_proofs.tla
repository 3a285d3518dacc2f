--------------------------- MODULE Waiting_proofs ---------------------------
(***************************************************************************)
(* Proofs about the steps that wait: an approval step (Approvals), for any *)
(* requests, passes and retries, and an agent step with its tool jobs      *)
(* (AgentTools), for any tool calls, workers, users and turns.             *)
(***************************************************************************)
EXTENDS Approvals, AgentTools, TLAPS

(* Row and requests hold values of their kind.                             *)
RequestType == [pc : {"new", "read", "done"},
                answer : {"none", "approved", "rejected", "conflict"}, of : Nat]
GateType == [status : {"ready", "suspended", "completed", "failed", "cancelled"},
             output : {"none", "message", "decision"}, retry_attempt : Nat]
ApprovalTypeOK ==
  /\ gate \in GateType /\ suspensions \in Nat /\ closed \in SUBSET Nat
  /\ request \in [Approvers -> RequestType]

Accepted(u) == request[u].answer \in {"approved", "rejected"}

(* An accepted answer names a suspension that has begun, the others none,  *)
(* and a request that is not over is not answered.                         *)
AnswersNamed ==
  \A u \in Approvers :
    /\ request[u].of <= suspensions
    /\ Accepted(u) <=> request[u].of # 0
    /\ request[u].pc # "done" => request[u].answer = "none"

(* The suspension that still waits was neither answered nor closed.        *)
OpenSuspension ==
  /\ \A n \in closed : n <= suspensions
  /\ Suspended => /\ suspensions # 0 /\ suspensions \notin closed
                  /\ \A u \in Approvers : request[u].of # suspensions

(* The inductive invariant of Approvals. *)
ApprovalInv == ApprovalTypeOK /\ AnswersNamed /\ OpenSuspension /\ OneDecisionPerSuspension

-----------------------------------------------------------------------------
(* The invariant holds initially. *)
LEMMA ApprovalInvInit == ApprovalInit => ApprovalInv
<1> SUFFICES ASSUME ApprovalInit PROVE ApprovalInv
  OBVIOUS
<1>1. /\ gate \in GateType /\ ~Suspended /\ suspensions = 0 /\ closed = {}
      /\ request = [u \in Approvers |-> [pc |-> "new", answer |-> "none", of |-> 0]]
  BY DEF ApprovalInit, Suspended, GateType
<1>2. ApprovalTypeOK
  BY <1>1 DEF ApprovalTypeOK, RequestType
<1>3. QED
  BY <1>1, <1>2
     DEF ApprovalInv, AnswersNamed, OpenSuspension, OneDecisionPerSuspension, Accepted

(* fail_or_retry leaves a row that does not wait.                          *)
LEMMA FailOrRetryEffect ==
  ASSUME gate \in GateType, FailOrRetryGate
  PROVE  gate' \in GateType /\ gate'.status \in {"ready", "failed"}
BY ApprovalAssumption DEF FailOrRetryGate, GateType

(* A request that ends after it was read, with the row as it finds it.     *)
LEMMA DecisionKeeps ==
  ASSUME ApprovalInv, NEW u \in Approvers, Approve(u) \/ Reject(u)
  PROVE  ApprovalInv'
<1>0. /\ gate \in GateType /\ suspensions \in Nat /\ closed \in SUBSET Nat
      /\ request \in [Approvers -> RequestType] /\ request[u].pc = "read"
      /\ UNCHANGED <<suspensions, closed>>
      /\ AnswersNamed /\ OpenSuspension /\ OneDecisionPerSuspension
  BY DEF ApprovalInv, ApprovalTypeOK, Approve, Reject, ghosts
<1>1. CASE ~Suspended
  <2>1. /\ request' = [request EXCEPT ![u] = [pc |-> "done", answer |-> "conflict", of |-> 0]]
        /\ gate' = gate
    BY <1>1 DEF Approve, Reject, DecideBy, StillSuspended
  <2>2. /\ request' \in [Approvers -> RequestType]
        /\ \A v \in Approvers \ {u} : request'[v] = request[v]
        /\ request'[u].pc = "done" /\ request'[u].answer = "conflict" /\ request'[u].of = 0
    BY <1>0, <2>1 DEF RequestType
  <2>3. ApprovalTypeOK' /\ ~Suspended' /\ AnswersNamed'
    BY <1>0, <1>1, <2>1, <2>2 DEF ApprovalTypeOK, AnswersNamed, Accepted, Suspended
  <2>4. OpenSuspension' /\ OneDecisionPerSuspension'
    BY <1>0, <2>2, <2>3 DEF OpenSuspension, OneDecisionPerSuspension, AnswersNamed, Accepted
  <2>5. QED
    BY <2>3, <2>4 DEF ApprovalInv
<1>2. CASE Suspended
  <2>1. PICK a \in {"approved", "rejected"} :
          request' = [request EXCEPT ![u] = [pc |-> "done", answer |-> a, of |-> suspensions]]
    BY <1>2 DEF Approve, Reject, DecideBy, StillSuspended
  <2>2. gate' \in GateType /\ ~Suspended'
    <3>1. CASE Approve(u)
      BY <1>0, <1>2, <3>1 DEF Approve, StillSuspended, Suspended, GateType
    <3>2. CASE Reject(u)
      BY <1>0, <1>2, <3>2, FailOrRetryEffect DEF Reject, StillSuspended, Suspended
    <3>3. QED
      BY <3>1, <3>2
  <2>3. /\ request' \in [Approvers -> RequestType]
        /\ \A v \in Approvers \ {u} : request'[v] = request[v]
        /\ request'[u].pc = "done" /\ request'[u].answer = a /\ request'[u].of = suspensions
    BY <1>0, <2>1 DEF RequestType
  <2>4. /\ suspensions # 0 /\ suspensions \notin closed
        /\ \A v \in Approvers : request[v].of # suspensions
    BY <1>0, <1>2 DEF OpenSuspension
  <2>5. ApprovalTypeOK' /\ AnswersNamed'
    BY <1>0, <2>2, <2>3, <2>4 DEF ApprovalTypeOK, AnswersNamed, Accepted
  <2>6. OpenSuspension' /\ OneDecisionPerSuspension'
    BY <1>0, <2>2, <2>3, <2>4 DEF OpenSuspension, OneDecisionPerSuspension
  <2>7. QED
    BY <2>5, <2>6 DEF ApprovalInv
<1>3. QED
  BY <1>1, <1>2

(* A step that answers nothing and suspends nothing; it may close the      *)
(* suspension that waits.                                                  *)
LEMMA NothingAnswered ==
  ASSUME ApprovalInv, UNCHANGED <<request, suspensions>>, gate' \in GateType,
         Suspended' => Suspended,
         closed' = closed \/ (CloseSuspension /\ ~Suspended')
  PROVE  ApprovalInv'
<1>0. /\ suspensions \in Nat /\ closed \in SUBSET Nat /\ request \in [Approvers -> RequestType]
      /\ AnswersNamed /\ OpenSuspension /\ OneDecisionPerSuspension
  BY DEF ApprovalInv, ApprovalTypeOK
<1>1. closed' = closed \/ (closed' = closed \cup {suspensions} /\ Suspended /\ ~Suspended')
  BY DEF CloseSuspension
<1>2. ApprovalTypeOK' /\ AnswersNamed'
  BY <1>0, <1>1 DEF ApprovalTypeOK, AnswersNamed, Accepted
<1>3. OpenSuspension'
  <2>1. \A n \in closed' : n <= suspensions'
    <3>1. suspensions' = suspensions /\ \A n \in closed : n <= suspensions
      BY <1>0 DEF OpenSuspension
    <3>2. closed' \subseteq closed \cup {suspensions}
      BY <1>1
    <3>3. QED
      BY <1>0, <3>1, <3>2
  <2>2. ASSUME Suspended' PROVE Suspended /\ closed' = closed
    BY <1>1, <2>2
  <2>3. QED
    BY <1>0, <2>1, <2>2 DEF OpenSuspension
<1>4. OneDecisionPerSuspension'
  BY <1>0, <1>1 DEF OneDecisionPerSuspension, OpenSuspension
<1>5. QED
  BY <1>2, <1>3, <1>4 DEF ApprovalInv

(* Every step keeps the invariant. *)
LEMMA ApprovalInvStep == ApprovalInv /\ [ApprovalNext]_approvalVars => ApprovalInv'
<1> SUFFICES ASSUME ApprovalInv, [ApprovalNext]_approvalVars PROVE ApprovalInv'
  OBVIOUS
<1>0. /\ gate \in GateType /\ suspensions \in Nat /\ closed \in SUBSET Nat
      /\ request \in [Approvers -> RequestType]
      /\ AnswersNamed /\ OpenSuspension /\ OneDecisionPerSuspension
  BY DEF ApprovalInv, ApprovalTypeOK
<1>1. ASSUME UNCHANGED <<request, suspensions, closed, gate>> PROVE ApprovalInv'
  BY <1>0, <1>1, NothingAnswered DEF Suspended
<1>2. ASSUME NEW d \in Dispatchers,
             SnapshotBefore(d) \/ ReadGate(d) \/ FireSuspendedHooks(d) \/ FireInitialHooks(d)
      PROVE  ApprovalInv'
  BY <1>1, <1>2 DEF SnapshotBefore, ReadGate, FireSuspendedHooks, FireInitialHooks, ghosts
<1>3. ASSUME NEW d \in Dispatchers, RenderFails(d) PROVE ApprovalInv'
  <2>1. gate' \in GateType /\ ~Suspended' /\ CloseSuspension /\ UNCHANGED <<request, suspensions>>
    BY <1>0, <1>3 DEF RenderFails, Suspended, GateType
  <2>2. QED
    BY <2>1, NothingAnswered
<1>4. ASSUME NEW d \in Dispatchers, StoreMessage(d) PROVE ApprovalInv'
  <2>1. /\ gate' \in GateType /\ (Suspended' => Suspended)
        /\ UNCHANGED <<request, suspensions, closed>>
    BY <1>0, <1>4 DEF StoreMessage, Suspended, GateType, ghosts
  <2>2. QED
    BY <2>1, NothingAnswered
<1>5. ASSUME NEW d \in Dispatchers, MarkSuspended(d) PROVE ApprovalInv'
  <2>1. CASE gate.status = "ready"
    <3>1. /\ gate' \in GateType /\ suspensions' = suspensions + 1
          /\ UNCHANGED <<request, closed>>
      BY <1>0, <1>5, <2>1 DEF MarkSuspended, GateType
    <3>2. ApprovalTypeOK' /\ AnswersNamed'
      BY <1>0, <3>1 DEF ApprovalTypeOK, AnswersNamed, Accepted, RequestType
    <3>3. OpenSuspension'
      <4>1. \A u \in Approvers : request[u].of \in Nat /\ request[u].of <= suspensions
        BY <1>0 DEF AnswersNamed, RequestType
      <4>2. \A n \in closed : n \in Nat /\ n <= suspensions
        BY <1>0 DEF OpenSuspension
      <4>3. QED
        BY <1>0, <3>1, <4>1, <4>2 DEF OpenSuspension
    <3>4. OneDecisionPerSuspension'
      BY <1>0, <3>1 DEF OneDecisionPerSuspension
    <3>5. QED
      BY <3>2, <3>3, <3>4 DEF ApprovalInv
  <2>2. CASE gate.status # "ready"
    BY <1>1, <1>5, <2>2 DEF MarkSuspended
  <2>3. QED
    BY <2>1, <2>2
<1>6. ASSUME NEW u \in Approvers, ReadRequest(u) PROVE ApprovalInv'
  <2>1. /\ request' \in [Approvers -> RequestType]
        /\ \A v \in Approvers \ {u} : request'[v] = request[v]
        /\ request[u].pc = "new" /\ request'[u].of = request[u].of
        /\ \/ request'[u].pc = "read" /\ request'[u].answer = request[u].answer
           \/ request'[u].pc = "done" /\ request'[u].answer = "conflict"
    BY <1>0, <1>6 DEF ReadRequest, RequestType
  <2>2. UNCHANGED <<gate, suspensions, closed>>
    BY <1>6 DEF ReadRequest, ghosts
  <2>3. ApprovalTypeOK' /\ AnswersNamed'
    BY <1>0, <2>1, <2>2 DEF ApprovalTypeOK, AnswersNamed, Accepted
  <2>4. \A v \in Approvers : request'[v].of = request[v].of
    BY <2>1
  <2>5. OpenSuspension'
    BY <1>0, <2>2, <2>4 DEF OpenSuspension, Suspended
  <2>6. OneDecisionPerSuspension'
    BY <1>0, <2>1, <2>2, <2>4 DEF OneDecisionPerSuspension, AnswersNamed, Accepted
  <2>7. QED
    BY <2>3, <2>5, <2>6 DEF ApprovalInv
<1>7. ASSUME FailTimedOutGate PROVE ApprovalInv'
  <2>1. gate' \in GateType /\ ~Suspended'
    BY <1>0, <1>7, FailOrRetryEffect DEF FailTimedOutGate, Suspended
  <2>2. QED
    BY <1>7, <2>1, NothingAnswered DEF FailTimedOutGate
<1>8. ASSUME ListTimedOutGate \/ CancelGateJob PROVE ApprovalInv'
  BY <1>1, <1>8 DEF ListTimedOutGate, CancelGateJob, ghosts
<1>9. ASSUME CancelGate PROVE ApprovalInv'
  <2>1. gate' \in GateType /\ ~Suspended'
    BY <1>0, <1>9 DEF CancelGate, Suspended, GateType
  <2>2. QED
    BY <1>9, <2>1, NothingAnswered DEF CancelGate
<1>10. CASE UNCHANGED approvalVars
  BY <1>1, <1>10 DEF approvalVars, ghosts
<1>11. QED
  BY <1>2, <1>3, <1>4, <1>5, <1>6, <1>7, <1>8, <1>9, <1>10, DecisionKeeps
     DEF ApprovalNext, Dispatch

(* No two answers are accepted for one suspension, and none for one that   *)
(* ended without an answer, whichever requests, passes, sweeps and cancels *)
(* race for it.                                                            *)
THEOREM SuspensionDecidedOnce == ApprovalSpec => []OneDecisionPerSuspension
<1>1. ApprovalInv => OneDecisionPerSuspension
  BY DEF ApprovalInv
<1>2. QED
  BY <1>1, ApprovalInvInit, ApprovalInvStep, PTL DEF ApprovalSpec

-----------------------------------------------------------------------------
(***************************************************************************)
(* The agent step                                                          *)
(***************************************************************************)

ConvType == [asked : SUBSET Calls, answered : SUBSET Calls, pending : SUBSET Calls,
             results : SUBSET Calls, turn : Nat, ask : BOOLEAN]
WorkerType == [pc : {"idle", "turn", "create", "save", "register", "replay", "suspend"},
               conv : ConvType, todo : SUBSET Calls]
PropType == [pc : {"idle", "read", "write", "release"}, conv : ConvType]
AnswerType == [pc : {"new", "write", "release", "done"}, conv : ConvType]

(* The conversations and the requests hold values of their kind.           *)
AgentTypeOK ==
  /\ saved \in ConvType
  /\ tool \in [Calls -> {"none", "live", "over"}]
  /\ worker \in [AgentWorkers -> WorkerType]
  /\ prop \in [Props -> PropType]
  /\ answer \in [AgentUsers -> AnswerType]

(* A conversation that has forgotten no call, apart from those whose child *)
(* is still to be created; t is the state of the children.                 *)
Accounted(conv, open, t) ==
  /\ conv.asked = conv.answered \cup conv.results \cup conv.pending \cup open
  /\ \A c \in conv.answered \cup conv.results : t[c] = "over"

(* So is every copy that may be written back: a worker's, a user's and a   *)
(* propagation's, which also knows that its own child is over.             *)
WorkerAccounted(x, t) ==
  /\ x.pc \in {"turn", "save"} => Accounted(x.conv, {}, t)
  /\ x.pc = "create" => Accounted(x.conv, x.todo, t)
PropAccounted(p, x, t) ==
  /\ x.pc \in {"read", "write"} => t[CallOf(p)] = "over"
  /\ x.pc = "write" => Accounted(x.conv, {}, t) /\ CallOf(p) \in x.conv.pending
AnswerAccounted(x, t) == x.pc = "write" => Accounted(x.conv, {}, t)
CopiesAccounted ==
  /\ \A w \in AgentWorkers : WorkerAccounted(worker[w], tool)
  /\ \A p \in Props : PropAccounted(p, prop[p], tool)
  /\ \A u \in AgentUsers : AnswerAccounted(answer[u], tool)

(* The first part of the inductive invariant: every record is consistent.  *)
AgentInv ==
  AgentTypeOK /\ Accounted(saved, {}, tool) /\ CopiesAccounted

(* A child that is over stays over. *)
OverStays == \A c \in Calls : tool[c] = "over" => tool'[c] = "over"

(* The invariant holds initially. *)
LEMMA AgentInvInit == AgentInit => AgentInv
<1> SUFFICES ASSUME AgentInit PROVE AgentInv
  OBVIOUS
<1>1. NewConv \in ConvType /\ Accounted(NewConv, {}, tool)
  BY DEF NewConv, ConvType, Accounted
<1>2. IdleWorker \in WorkerType /\ IdleWorker.pc = "idle" /\ IdleProp \in PropType
      /\ IdleProp.pc = "idle" /\ NewAnswer \in AnswerType /\ NewAnswer.pc = "new"
  BY <1>1 DEF IdleWorker, WorkerType, IdleProp, PropType, NewAnswer, AnswerType
<1>3. AgentTypeOK
  BY <1>1, <1>2 DEF AgentInit, AgentTypeOK
<1>4. CopiesAccounted
  BY <1>2 DEF AgentInit, CopiesAccounted, WorkerAccounted, PropAccounted, AnswerAccounted
<1>5. QED
  BY <1>1, <1>3, <1>4 DEF AgentInit, AgentInv

(* The idle records, and what a saved or a new conversation becomes.       *)
LEMMA IdleRecords ==
  /\ NewConv \in ConvType
  /\ IdleWorker \in WorkerType /\ IdleWorker.pc = "idle"
  /\ IdleProp \in PropType /\ IdleProp.pc = "idle"
  /\ [IdleProp EXCEPT !.pc = "release"] \in PropType
  /\ [IdleProp EXCEPT !.pc = "release"].pc = "release"
  /\ \A q \in {"register", "suspend"} : /\ [IdleWorker EXCEPT !.pc = q] \in WorkerType
                                        /\ [IdleWorker EXCEPT !.pc = q].pc = q
<1>1. NewConv \in ConvType
  BY DEF NewConv, ConvType
<1>2. QED
  BY <1>1 DEF IdleWorker, WorkerType, IdleProp, PropType

(* The invariant after a step: it is enough to look at what moved.         *)
LEMMA AgentMoves ==
  ASSUME AgentInv, AgentTypeOK', Accounted(saved', {}, tool'), OverStays,
         \A w \in AgentWorkers : worker'[w] = worker[w] \/ WorkerAccounted(worker'[w], tool'),
         \A p \in Props : prop'[p] = prop[p] \/ PropAccounted(p, prop'[p], tool'),
         \A u \in AgentUsers : answer'[u] = answer[u] \/ AnswerAccounted(answer'[u], tool')
  PROVE  AgentInv'
<1>0. AgentTypeOK /\ CopiesAccounted
  BY DEF AgentInv
<1>1. ASSUME NEW conv \in ConvType, NEW open, Accounted(conv, open, tool)
      PROVE  Accounted(conv, open, tool')
  BY <1>1 DEF Accounted, OverStays, ConvType
<1>2. \A w \in AgentWorkers : WorkerAccounted(worker'[w], tool')
  <2>1. \A w \in AgentWorkers : worker[w].conv \in ConvType
    BY <1>0 DEF AgentTypeOK, WorkerType
  <2>2. QED
    BY <1>0, <1>1, <2>1 DEF CopiesAccounted, WorkerAccounted
<1>3. \A p \in Props : PropAccounted(p, prop'[p], tool')
  <2>1. \A p \in Props : CallOf(p) \in Calls /\ prop[p].conv \in ConvType
    BY <1>0 DEF Props, CallOf, AgentTypeOK, PropType
  <2>2. QED
    BY <1>0, <1>1, <2>1 DEF CopiesAccounted, PropAccounted, OverStays
<1>4. \A u \in AgentUsers : AnswerAccounted(answer'[u], tool')
  <2>1. \A u \in AgentUsers : answer[u].conv \in ConvType
    BY <1>0 DEF AgentTypeOK, AnswerType
  <2>2. QED
    BY <1>0, <1>1, <2>1 DEF CopiesAccounted, AnswerAccounted
<1>5. QED
  BY <1>2, <1>3, <1>4 DEF AgentInv, CopiesAccounted

(* One worker moves to x.                                                  *)
LEMMA WorkerMoves ==
  ASSUME AgentInv, NEW w \in AgentWorkers, NEW x \in WorkerType,
         worker' = [worker EXCEPT ![w] = x], WorkerAccounted(x, tool'),
         saved' \in ConvType, Accounted(saved', {}, tool'),
         tool' \in [Calls -> {"none", "live", "over"}], OverStays, UNCHANGED <<prop, answer>>
  PROVE  AgentInv'
<1>1. AgentTypeOK' /\ \A v \in AgentWorkers : worker'[v] = worker[v] \/ worker'[v] = x
  BY DEF AgentInv, AgentTypeOK
<1>2. QED
  BY <1>1, AgentMoves

(* One propagation moves to x.                                             *)
LEMMA PropMoves ==
  ASSUME AgentInv, NEW p \in Props, NEW x \in PropType,
         prop' = [prop EXCEPT ![p] = x], PropAccounted(p, x, tool'),
         saved' \in ConvType, Accounted(saved', {}, tool'),
         tool' \in [Calls -> {"none", "live", "over"}], OverStays, UNCHANGED <<worker, answer>>
  PROVE  AgentInv'
<1>1. AgentTypeOK' /\ \A q \in Props : prop'[q] = prop[q] \/ (q = p /\ prop'[q] = x)
  BY DEF AgentInv, AgentTypeOK
<1>2. QED
  BY <1>1, AgentMoves

(* dispatch_agent_loop: the worker's steps. *)
LEMMA WorkerKeeps ==
  ASSUME AgentInv, NEW w \in AgentWorkers, ClaimAgent(w) \/ WorkerStep(w)
  PROVE  AgentInv'
<1>0. /\ AgentTypeOK /\ Accounted(saved, {}, tool) /\ CopiesAccounted
      /\ saved \in ConvType /\ tool \in [Calls -> {"none", "live", "over"}]
      /\ worker \in [AgentWorkers -> WorkerType] /\ worker[w] \in WorkerType
      /\ prop \in [Props -> PropType] /\ worker[w].conv \in ConvType
      /\ worker[w].todo \in SUBSET Calls /\ WorkerAccounted(worker[w], tool)
  BY DEF AgentInv, AgentTypeOK, WorkerType, CopiesAccounted
<1>n. Turn(w) \in Nat
  BY <1>0 DEF Turn, ConvType
<1>o. UNCHANGED tool => OverStays
  BY DEF OverStays
<1>1. CASE ClaimAgent(w)
  <2> DEFINE x == [IdleWorker EXCEPT !.pc = "turn", !.conv = Inject(saved)]
  <2>1. Inject(saved) \in ConvType /\ Accounted(Inject(saved), {}, tool)
    BY <1>0 DEF Inject, ConvType, Accounted
  <2>2. x \in WorkerType /\ x.pc = "turn" /\ x.conv = Inject(saved)
    BY <2>1 DEF IdleWorker, WorkerType
  <2>3. worker' = [worker EXCEPT ![w] = x] /\ UNCHANGED <<saved, tool, prop, answer>>
    BY <1>1 DEF ClaimAgent
  <2> HIDE DEF x
  <2>4. WorkerAccounted(x, tool')
    BY <2>1, <2>2, <2>3 DEF WorkerAccounted
  <2>5. QED
    BY <1>0, <1>o, <2>2, <2>3, <2>4, WorkerMoves
<1>2. CASE AgentFails(w) \/ AgentAnswers(w) \/ ToolJobFails(w) \/ SuspendAgent(w)
  <2>1. worker' = [worker EXCEPT ![w] = IdleWorker] /\ UNCHANGED <<saved, tool, prop, answer>>
    BY <1>2 DEF AgentFails, AgentAnswers, ToolJobFails, SuspendAgent, Report
  <2>2. WorkerAccounted(IdleWorker, tool')
    BY IdleRecords DEF WorkerAccounted
  <2>3. QED
    BY <1>0, <1>o, <2>1, <2>2, IdleRecords, WorkerMoves
<1>3. CASE CallsInline(w)
  <2> DEFINE v == [worker[w].conv EXCEPT !.turn = Turn(w)]
             x == [worker[w] EXCEPT !.conv = v]
  <2>1. worker' = [worker EXCEPT ![w] = x] /\ UNCHANGED <<saved, tool, prop, answer>>
    BY <1>3 DEF CallsInline
  <2>2. v \in ConvType /\ Accounted(v, {}, tool)
    BY <1>0, <1>3, <1>n DEF CallsInline, ConvType, WorkerAccounted, Accounted
  <2> HIDE DEF v
  <2>3. x \in WorkerType /\ x.pc = "turn" /\ x.conv = v
    BY <1>0, <1>3, <2>2 DEF WorkerType, CallsInline
  <2> HIDE DEF x
  <2>4. WorkerAccounted(x, tool')
    BY <2>1, <2>2, <2>3 DEF WorkerAccounted
  <2>5. QED
    BY <1>0, <1>o, <2>1, <2>3, <2>4, WorkerMoves
<1>4. CASE CallsTasks(w)
  <2>1. PICK S \in SUBSET {c \in Calls : tool[c] = "none"} :
          worker' = [worker EXCEPT ![w] =
            [pc |-> "create", todo |-> S,
             conv |-> [worker[w].conv EXCEPT !.turn = Turn(w),
                                             !.asked = worker[w].conv.asked \cup S]]]
    BY <1>4 DEF CallsTasks
  <2> DEFINE v == [worker[w].conv EXCEPT !.turn = Turn(w), !.asked = worker[w].conv.asked \cup S]
             x == [pc |-> "create", todo |-> S, conv |-> v]
  <2>2. worker' = [worker EXCEPT ![w] = x] /\ UNCHANGED <<saved, tool, prop, answer>>
    BY <1>4, <2>1 DEF CallsTasks
  <2>3. S \in SUBSET Calls
    BY <2>1
  <2>4. v \in ConvType /\ Accounted(v, S, tool)
    BY <1>0, <1>4, <1>n, <2>3 DEF CallsTasks, ConvType, WorkerAccounted, Accounted
  <2> HIDE DEF v
  <2>5. x \in WorkerType /\ x.pc = "create" /\ x.conv = v /\ x.todo = S
    BY <1>0, <2>3, <2>4 DEF WorkerType
  <2> HIDE DEF x
  <2>6. WorkerAccounted(x, tool')
    BY <2>2, <2>4, <2>5 DEF WorkerAccounted
  <2>7. QED
    BY <1>0, <1>o, <2>2, <2>5, <2>6, WorkerMoves
<1>5. CASE CreateToolJob(w)
  <2>1. PICK c \in worker[w].todo :
          /\ tool[c] = "none" /\ tool' = [tool EXCEPT ![c] = "live"]
          /\ worker' = [worker EXCEPT ![w] =
               [pc |-> IF worker[w].todo = {c} THEN "save" ELSE "create",
                todo |-> worker[w].todo \ {c},
                conv |-> [worker[w].conv EXCEPT !.pending = worker[w].conv.pending \cup {c}]]]
    BY <1>5 DEF CreateToolJob
  <2> DEFINE v == [worker[w].conv EXCEPT !.pending = worker[w].conv.pending \cup {c}]
             q == IF worker[w].todo = {c} THEN "save" ELSE "create"
             rest == worker[w].todo \ {c}
             x == [pc |-> q, todo |-> rest, conv |-> v]
  <2>2. worker' = [worker EXCEPT ![w] = x] /\ UNCHANGED <<saved, prop, answer>>
    BY <1>5, <2>1 DEF CreateToolJob
  <2>3. c \in Calls /\ rest \in SUBSET Calls
    BY <1>0, <2>1
  <2>4. tool' \in [Calls -> {"none", "live", "over"}] /\ OverStays
    BY <1>0, <2>1, <2>3 DEF OverStays
  <2>5. Accounted(worker[w].conv, worker[w].todo, tool)
    BY <1>0, <1>5 DEF CreateToolJob, WorkerAccounted
  <2>6. v \in ConvType /\ Accounted(v, rest, tool')
    <3>1. \A k \in worker[w].conv.answered \cup worker[w].conv.results : tool'[k] = "over"
      BY <1>0, <2>4, <2>5 DEF Accounted, OverStays, ConvType
    <3>2. QED
      BY <1>0, <2>1, <2>3, <2>5, <3>1 DEF ConvType, Accounted
  <2>7. q \in {"save", "create"} /\ (q = "save" => rest = {})
    OBVIOUS
  <2> HIDE DEF v, q, rest
  <2>8. x \in WorkerType /\ x.pc = q /\ x.conv = v /\ x.todo = rest
    BY <1>0, <2>3, <2>6, <2>7 DEF WorkerType
  <2> HIDE DEF x
  <2>9. WorkerAccounted(x, tool')
    BY <2>6, <2>7, <2>8 DEF WorkerAccounted
  <2>10. Accounted(saved', {}, tool')
    BY <1>0, <2>2, <2>4 DEF Accounted, OverStays, ConvType
  <2>11. QED
    BY <1>0, <2>2, <2>4, <2>8, <2>9, <2>10, WorkerMoves
<1>6. CASE SaveState(w)
  <2> DEFINE x == [IdleWorker EXCEPT !.pc = "register"]
  <2>1. worker' = [worker EXCEPT ![w] = x] /\ UNCHANGED <<tool, prop, answer>> /\ saved' = worker[w].conv
    BY <1>6 DEF SaveState
  <2>2. x \in WorkerType /\ WorkerAccounted(x, tool')
    BY IdleRecords DEF WorkerAccounted
  <2>3. Accounted(saved', {}, tool')
    BY <1>0, <1>6, <2>1 DEF SaveState, WorkerAccounted
  <2> HIDE DEF x
  <2>4. QED
    BY <1>0, <1>o, <2>1, <2>2, <2>3, WorkerMoves
<1>7. CASE RegisterChildren(w)
  <2> DEFINE x == [worker[w] EXCEPT !.pc = "replay", !.todo = saved.pending]
  <2>1. worker' = [worker EXCEPT ![w] = x] /\ UNCHANGED <<saved, tool, prop, answer>>
    BY <1>7 DEF RegisterChildren
  <2>2. saved.pending \in SUBSET Calls
    BY <1>0 DEF ConvType
  <2>3. x \in WorkerType /\ x.pc = "replay"
    BY <1>0, <2>2 DEF WorkerType
  <2> HIDE DEF x
  <2>4. WorkerAccounted(x, tool')
    BY <2>3 DEF WorkerAccounted
  <2>5. QED
    BY <1>0, <1>o, <2>1, <2>3, <2>4, WorkerMoves
<1>8. CASE ReplayChild(w)
  <2>1. UNCHANGED <<saved, tool, answer>> /\ worker[w].pc = "replay"
    BY <1>8 DEF ReplayChild
  <2>2. CASE worker[w].todo = {}
    <3>1. worker' = [worker EXCEPT ![w] = IdleWorker] /\ UNCHANGED prop
      BY <1>8, <2>2 DEF ReplayChild
    <3>2. WorkerAccounted(IdleWorker, tool')
      BY IdleRecords DEF WorkerAccounted
    <3>3. QED
      BY <1>0, <1>o, <2>1, <3>1, <3>2, IdleRecords, WorkerMoves
  <2>3. CASE worker[w].todo # {}
    <3>1. PICK c \in worker[w].todo :
            /\ worker' = [worker EXCEPT ![w].todo = @ \ {c}]
            /\ prop' = [prop EXCEPT ![<<c, "replay">>].pc =
                          IF tool[c] = "over" THEN "read" ELSE "idle"]
      BY <1>8, <2>3 DEF ReplayChild
    <3>2. PICK p : p = <<c, "replay">>
      OBVIOUS
    <3>3. p \in Props /\ CallOf(p) = c
      BY <1>0, <3>2 DEF Props, CallOf
    <3>4. prop' = [prop EXCEPT ![p].pc = IF tool[c] = "over" THEN "read" ELSE "idle"]
      BY <3>1, <3>2
    <3>5. /\ prop' \in [Props -> PropType]
          /\ \A q \in Props : q # p => prop'[q] = prop[q]
          /\ prop'[p].pc = IF tool[c] = "over" THEN "read" ELSE "idle"
      BY <1>0, <3>3, <3>4 DEF PropType
    <3>6. \A q \in Props : prop'[q] = prop[q] \/ PropAccounted(q, prop'[q], tool')
      BY <2>1, <3>3, <3>5 DEF PropAccounted
    <3>7. /\ worker' \in [AgentWorkers -> WorkerType]
          /\ \A v \in AgentWorkers : worker'[v] = worker[v] \/ worker'[v].pc = "replay"
      BY <1>0, <2>1, <3>1 DEF WorkerType
    <3>8. AgentTypeOK'
      BY <1>0, <2>1, <3>5, <3>7 DEF AgentTypeOK
    <3>9. QED
      BY <1>0, <1>o, <2>1, <3>6, <3>7, <3>8, AgentMoves DEF WorkerAccounted
  <2>4. QED
    BY <2>2, <2>3
<1>9. CASE AsksUser(w)
  <2> DEFINE x == [IdleWorker EXCEPT !.pc = "suspend"]
  <2>1. /\ worker' = [worker EXCEPT ![w] = x] /\ UNCHANGED <<tool, prop, answer>>
        /\ saved' = [worker[w].conv EXCEPT !.turn = Turn(w), !.ask = TRUE]
        /\ worker[w].pc = "turn"
    BY <1>9 DEF AsksUser
  <2>2. x \in WorkerType /\ WorkerAccounted(x, tool')
    BY IdleRecords DEF WorkerAccounted
  <2>3. saved' \in ConvType /\ Accounted(saved', {}, tool')
    BY <1>0, <1>n, <2>1 DEF WorkerAccounted, Accounted, ConvType
  <2> HIDE DEF x
  <2>4. QED
    BY <1>0, <1>o, <2>1, <2>2, <2>3, WorkerMoves
<1>10. QED
  BY <1>1, <1>2, <1>3, <1>4, <1>5, <1>6, <1>7, <1>8, <1>9 DEF WorkerStep

(* The propagation of one child: read, resolve and write back, release.    *)
LEMMA PropKeeps ==
  ASSUME AgentInv, NEW p \in Props, PropStep(p)
  PROVE  AgentInv'
<1>0. /\ Accounted(saved, {}, tool) /\ saved \in ConvType
      /\ tool \in [Calls -> {"none", "live", "over"}] /\ tool' = tool
      /\ prop \in [Props -> PropType] /\ prop[p] \in PropType /\ prop[p].conv \in ConvType
      /\ worker' = worker /\ answer' = answer /\ PropAccounted(p, prop[p], tool) /\ OverStays
  BY DEF AgentInv, AgentTypeOK, CopiesAccounted, PropStep, PropRead, PropWrite, PropRelease,
         PropType, OverStays
<1>1. CASE PropRead(p)
  <2> DEFINE x == IF CallOf(p) \in saved.pending THEN [pc |-> "write", conv |-> saved] ELSE IdleProp
  <2>1. prop' = [prop EXCEPT ![p] = x] /\ saved' = saved /\ prop[p].pc = "read"
    BY <1>1 DEF PropRead
  <2>2. x \in PropType /\ PropAccounted(p, x, tool')
    BY <1>0, <2>1, IdleRecords DEF PropType, PropAccounted
  <2> HIDE DEF x
  <2>3. QED
    BY <1>0, <2>1, <2>2, PropMoves
<1>2. CASE PropWrite(p)
  <2> DEFINE v == Resolve(prop[p].conv, CallOf(p))
             x == IF v.pending = {} THEN [IdleProp EXCEPT !.pc = "release"] ELSE IdleProp
  <2>1. prop' = [prop EXCEPT ![p] = x] /\ saved' = v /\ prop[p].pc = "write"
    BY <1>2 DEF PropWrite
  <2>2. x \in PropType /\ PropAccounted(p, x, tool')
    BY IdleRecords DEF PropAccounted
  <2>3. CallOf(p) \in prop[p].conv.pending /\ Accounted(prop[p].conv, {}, tool)
        /\ tool[CallOf(p)] = "over"
    BY <1>0, <2>1 DEF PropAccounted
  <2>4. v \in ConvType /\ Accounted(v, {}, tool')
    <3> DEFINE k == prop[p].conv
               d == CallOf(p)
    <3>1. k \in ConvType /\ d \in k.pending /\ Accounted(k, {}, tool) /\ tool[d] = "over"
          /\ v = [k EXCEPT !.pending = k.pending \ {d}, !.results = k.results \cup {d}]
      BY <1>0, <2>3 DEF Resolve
    <3> HIDE DEF k, d, v
    <3>2. v \in ConvType /\ v.asked = k.asked /\ v.answered = k.answered
          /\ v.pending = k.pending \ {d} /\ v.results = k.results \cup {d}
      BY <3>1 DEF ConvType
    <3>3. QED
      BY <1>0, <3>1, <3>2 DEF Accounted
  <2> HIDE DEF x, v
  <2>5. QED
    BY <1>0, <2>1, <2>2, <2>4, PropMoves
<1>3. CASE PropRelease(p)
  <2>1. prop' = [prop EXCEPT ![p] = IdleProp] /\ saved' = saved
    BY <1>3 DEF PropRelease
  <2>2. PropAccounted(p, IdleProp, tool')
    BY IdleRecords DEF PropAccounted
  <2>3. QED
    BY <1>0, <2>1, <2>2, IdleRecords, PropMoves
<1>4. QED
  BY <1>1, <1>2, <1>3 DEF PropStep

(* Every step keeps the invariant. *)
LEMMA AgentInvStep == AgentInv /\ [AgentNext]_agentVars => AgentInv'
<1> SUFFICES ASSUME AgentInv, [AgentNext]_agentVars PROVE AgentInv'
  OBVIOUS
<1>0. /\ AgentTypeOK /\ Accounted(saved, {}, tool) /\ saved \in ConvType
      /\ tool \in [Calls -> {"none", "live", "over"}] /\ prop \in [Props -> PropType]
  BY DEF AgentInv, AgentTypeOK
<1>1. ASSUME NEW c \in Calls, ToolEnds(c) PROVE AgentInv'
  <2>1. /\ tool[c] = "live" /\ tool' = [tool EXCEPT ![c] = "over"]
        /\ UNCHANGED <<saved, worker, answer>>
    BY <1>1 DEF ToolEnds
  <2>2. PICK p : p = <<c, "own">>
    OBVIOUS
  <2>3. p \in Props /\ CallOf(p) = c
    BY <2>2 DEF Props, CallOf
  <2> DEFINE x == [prop[p] EXCEPT !.pc = "read"]
  <2>4. prop' = [prop EXCEPT ![p] = x]
    BY <1>1, <2>2 DEF ToolEnds
  <2>5. tool' \in [Calls -> {"none", "live", "over"}] /\ OverStays /\ tool'[c] = "over"
    BY <1>0, <2>1 DEF OverStays
  <2>6. x \in PropType /\ x.pc = "read"
    BY <1>0, <2>3 DEF PropType
  <2> HIDE DEF x
  <2>7. PropAccounted(p, x, tool')
    BY <2>3, <2>5, <2>6 DEF PropAccounted
  <2>8. Accounted(saved', {}, tool')
    BY <1>0, <2>1, <2>5 DEF Accounted, OverStays, ConvType
  <2>9. QED
    BY <1>0, <2>1, <2>3, <2>4, <2>5, <2>6, <2>7, <2>8, PropMoves
<1>2. ASSUME NEW u \in AgentUsers, UserReads(u) \/ UserWrites(u) \/ UserReleases(u)
      PROVE  AgentInv'
  <2>0. UNCHANGED <<tool, worker, prop>> /\ answer \in [AgentUsers -> AnswerType] /\ OverStays
        /\ answer[u].conv \in ConvType /\ AnswerAccounted(answer[u], tool)
    BY <1>0, <1>2 DEF UserReads, UserWrites, UserReleases, OverStays, AgentInv, AgentTypeOK,
                     CopiesAccounted, AnswerType
  <2>1. /\ answer' \in [AgentUsers -> AnswerType]
        /\ \A v \in AgentUsers : answer'[v] = answer[v] \/ AnswerAccounted(answer'[v], tool')
    <3>1. CASE UserReads(u)
      BY <1>0, <2>0, <3>1 DEF UserReads, AnswerType, AnswerAccounted
    <3>2. CASE UserWrites(u)
      <4>1. [NewAnswer EXCEPT !.pc = "release"] \in AnswerType
            /\ [NewAnswer EXCEPT !.pc = "release"].pc = "release"
        BY IdleRecords DEF NewAnswer, AnswerType
      <4>2. QED
        BY <2>0, <3>2, <4>1 DEF UserWrites, AnswerAccounted
    <3>3. CASE UserReleases(u)
      BY <2>0, <3>3 DEF UserReleases, AnswerType, AnswerAccounted
    <3>4. QED
      BY <1>2, <3>1, <3>2, <3>3
  <2>2. saved' \in ConvType /\ Accounted(saved', {}, tool')
    <3>1. CASE UserWrites(u)
      BY <2>0, <3>1 DEF UserWrites, AnswerAccounted, ConvType, Accounted
    <3>2. CASE UserReads(u) \/ UserReleases(u)
      BY <1>0, <2>0, <3>2 DEF UserReads, UserReleases
    <3>3. QED
      BY <1>2, <3>1, <3>2
  <2>3. AgentTypeOK'
    BY <1>0, <2>0, <2>1, <2>2 DEF AgentTypeOK
  <2>4. QED
    BY <2>0, <2>1, <2>2, <2>3, AgentMoves
<1>3. ASSUME UNCHANGED agentVars PROVE AgentInv'
  <2>1. UNCHANGED <<saved, tool, worker, prop, answer>>
    BY <1>3 DEF agentVars
  <2>2. AgentTypeOK' /\ OverStays
    BY <1>0, <2>1 DEF AgentTypeOK, OverStays
  <2>3. QED
    BY <1>0, <2>1, <2>2, AgentMoves
<1>4. QED
  BY <1>1, <1>2, <1>3, WorkerKeeps, PropKeeps DEF AgentNext

-----------------------------------------------------------------------------
(* The worker holds a conversation of its own, or has just saved one that  *)
(* awaits no child.                                                        *)
Active(w) == worker[w].pc \in {"turn", "create", "save", "suspend"}

(* At most one worker does, while the step runs and awaits nothing; what   *)
(* is saved is part of what it holds.                                      *)
OneActive ==
  /\ \A v, w \in AgentWorkers : Active(v) /\ Active(w) => v = w
  /\ \A w \in AgentWorkers : Active(w) =>
       /\ status = "running" /\ saved.pending = {}
       /\ worker[w].pc # "suspend" => Held(saved) \subseteq Held(worker[w].conv)
       /\ worker[w].pc = "turn" => worker[w].conv.pending = {}

(* A propagation about to release the step is the only one, and nobody     *)
(* else has the step.                                                      *)
ReleaseAlone ==
  \A p \in Props : prop[p].pc = "release" =>
    /\ status = "running" /\ saved.pending = {}
    /\ \A w \in AgentWorkers : ~Active(w)
    /\ \A q \in Props : prop[q].pc = "release" => q = p

(* A step that can be claimed, or waits for the user, awaits no child.     *)
WaitsEmpty ==
  status \in {"ready", "suspended"} => saved.pending = {} /\ \A w \in AgentWorkers : ~Active(w)

(* Every child is known to what is saved or to who creates children.       *)
Covered ==
  \A c \in Calls : tool[c] # "none" =>
    \/ c \in Held(saved)
    \/ \E w \in AgentWorkers :
         worker[w].pc \in {"create", "save"} /\ c \in worker[w].conv.pending

Core == OneActive /\ ReleaseAlone /\ WaitsEmpty /\ Covered

(* The second part of the inductive invariant. *)
Statuses == {"ready", "running", "suspended"} \cup Done
Watched == status \in Statuses /\ (stale \/ status \in Done \/ Core)

(* Nobody waits, works or releases at first.                               *)
LEMMA WatchedInit == AgentInit => Watched
<1> SUFFICES ASSUME AgentInit PROVE Watched
  OBVIOUS
<1>1. /\ status = "ready" /\ saved.pending = {}
      /\ \A w \in AgentWorkers : worker[w].pc = "idle"
      /\ \A p \in Props : prop[p].pc = "idle"
      /\ \A c \in Calls : tool[c] = "none"
  BY DEF AgentInit, NewConv, IdleWorker, IdleProp
<1>2. QED
  BY <1>1 DEF Watched, Statuses, Core, OneActive, ReleaseAlone, WaitsEmpty, Covered, Active

(* A step of a worker.                                                     *)
LEMMA WorkerCore ==
  ASSUME AgentInv, Core, status \in Statuses, status' \notin Done,
         NEW w \in AgentWorkers, ClaimAgent(w) \/ WorkerStep(w)
  PROVE  Core'
<1>0. /\ saved \in ConvType /\ tool \in [Calls -> {"none", "live", "over"}]
      /\ worker \in [AgentWorkers -> WorkerType] /\ prop \in [Props -> PropType]
      /\ worker[w] \in WorkerType /\ worker[w].conv \in ConvType
      /\ OneActive /\ ReleaseAlone /\ WaitsEmpty /\ Covered
  BY DEF AgentInv, AgentTypeOK, Core, WorkerType
<1>1. CASE ClaimAgent(w)
  <2>1. /\ \A v \in AgentWorkers \ {w} : worker'[v] = worker[v]
        /\ worker'[w].pc = "turn" /\ worker'[w].conv = Inject(saved)
        /\ status = "ready" /\ status' = "running" /\ UNCHANGED <<saved, tool, prop>>
    BY <1>0, <1>1 DEF ClaimAgent, IdleWorker
  <2>2. Inject(saved).pending = saved.pending /\ Held(Inject(saved)) = Held(saved)
    BY <1>0 DEF Inject, Held, ConvType
  <2>3. OneActive'
    BY <1>0, <2>1, <2>2 DEF WaitsEmpty, OneActive, Active
  <2>4. ReleaseAlone' /\ WaitsEmpty'
    BY <1>0, <2>1 DEF ReleaseAlone, WaitsEmpty
  <2>5. Covered'
    BY <1>0, <2>1 DEF Covered, WaitsEmpty, Active
  <2>6. QED
    BY <2>3, <2>4, <2>5 DEF Core
<1>2. CASE AgentFails(w) \/ AgentAnswers(w) \/ ToolJobFails(w)
  BY <1>2 DEF AgentFails, AgentAnswers, ToolJobFails, Report, Done
<1>3. CASE CallsInline(w) \/ CallsTasks(w)
  <2>1. /\ \A v \in AgentWorkers \ {w} : worker'[v] = worker[v]
        /\ worker[w].pc = "turn" /\ UNCHANGED <<status, saved, tool, prop>>
        /\ worker'[w].pc \in {"turn", "create"}
        /\ worker'[w].conv.pending = worker[w].conv.pending
        /\ worker'[w].conv.answered = worker[w].conv.answered
        /\ worker'[w].conv.results = worker[w].conv.results
    <3>1. CASE CallsInline(w)
      BY <1>0, <3>1 DEF CallsInline, WorkerType, ConvType
    <3>2. CASE CallsTasks(w)
      BY <1>0, <3>2 DEF CallsTasks, WorkerType, ConvType
    <3>3. QED
      BY <1>3, <3>1, <3>2
  <2>2. Held(worker'[w].conv) = Held(worker[w].conv) /\ Active(w) /\ Active(w)'
        /\ \A v \in AgentWorkers : Active(v)' <=> Active(v)
    BY <2>1 DEF Held, Active
  <2>3. OneActive'
    BY <1>0, <2>1, <2>2 DEF OneActive
  <2>4. ReleaseAlone' /\ WaitsEmpty'
    BY <1>0, <2>1, <2>2 DEF ReleaseAlone, WaitsEmpty
  <2>5. Covered'
    BY <1>0, <2>1 DEF Covered
  <2>6. QED
    BY <2>3, <2>4, <2>5 DEF Core
<1>4. CASE CreateToolJob(w)
  <2>1. PICK c \in worker[w].todo :
          /\ tool' = [tool EXCEPT ![c] = "live"]
          /\ worker' = [worker EXCEPT ![w] =
               [pc |-> IF worker[w].todo = {c} THEN "save" ELSE "create",
                todo |-> worker[w].todo \ {c},
                conv |-> [worker[w].conv EXCEPT !.pending = worker[w].conv.pending \cup {c}]]]
    BY <1>4 DEF CreateToolJob
  <2>2. /\ \A v \in AgentWorkers \ {w} : worker'[v] = worker[v]
        /\ worker[w].pc = "create" /\ UNCHANGED <<status, saved, prop>>
        /\ worker'[w].pc \in {"create", "save"}
        /\ worker'[w].conv.pending = worker[w].conv.pending \cup {c}
        /\ worker'[w].conv.answered = worker[w].conv.answered
        /\ worker'[w].conv.results = worker[w].conv.results
        /\ \A k \in Calls : k # c => tool'[k] = tool[k]
    BY <1>0, <1>4, <2>1 DEF CreateToolJob, WorkerType, ConvType
  <2>3. Held(worker[w].conv) \subseteq Held(worker'[w].conv)
        /\ \A v \in AgentWorkers : Active(v)' <=> Active(v)
    BY <2>2 DEF Held, Active
  <2>4. OneActive'
    BY <1>0, <2>2, <2>3 DEF OneActive, Active
  <2>5. ReleaseAlone' /\ WaitsEmpty'
    BY <1>0, <2>2, <2>3 DEF ReleaseAlone, WaitsEmpty
  <2>6. Covered'
    BY <1>0, <2>2 DEF Covered
  <2>7. QED
    BY <2>4, <2>5, <2>6 DEF Core
<1>5. CASE SaveState(w)
  <2>1. /\ \A v \in AgentWorkers \ {w} : worker'[v] = worker[v]
        /\ worker[w].pc = "save" /\ worker'[w].pc = "register"
        /\ saved' = worker[w].conv /\ UNCHANGED <<status, tool, prop>>
    BY <1>0, <1>5 DEF SaveState, IdleWorker
  <2>2. /\ Active(w) /\ status = "running" /\ Held(saved) \subseteq Held(saved')
        /\ \A v \in AgentWorkers : ~Active(v)'
        /\ \A v \in AgentWorkers : v # w => worker[v].pc \notin {"create", "save"}
    BY <1>0, <2>1 DEF OneActive, Active
  <2>3. OneActive' /\ WaitsEmpty'
    BY <2>1, <2>2 DEF OneActive, WaitsEmpty
  <2>4. ReleaseAlone'
    BY <1>0, <2>1, <2>2 DEF ReleaseAlone
  <2>5. Covered'
    BY <1>0, <2>1, <2>2 DEF Covered, Held
  <2>6. QED
    BY <2>3, <2>4, <2>5 DEF Core
<1>6. CASE RegisterChildren(w)
  <2>1. /\ \A v \in AgentWorkers \ {w} : worker'[v] = worker[v]
        /\ worker[w].pc = "register" /\ worker'[w].pc = "replay"
        /\ UNCHANGED <<status, saved, tool, prop>>
    BY <1>0, <1>6 DEF RegisterChildren, WorkerType
  <2>2. \A v \in AgentWorkers : Active(v)' <=> Active(v)
    BY <2>1 DEF Active
  <2>3. OneActive'
    BY <1>0, <2>1, <2>2 DEF OneActive, Active
  <2>4. ReleaseAlone' /\ WaitsEmpty'
    BY <1>0, <2>1, <2>2 DEF ReleaseAlone, WaitsEmpty
  <2>5. Covered'
    BY <1>0, <2>1 DEF Covered
  <2>6. QED
    BY <2>3, <2>4, <2>5 DEF Core
<1>7. CASE ReplayChild(w)
  <2>1. /\ \A v \in AgentWorkers \ {w} : worker'[v] = worker[v]
        /\ worker[w].pc = "replay" /\ worker'[w].pc \in {"idle", "replay"}
        /\ UNCHANGED <<status, saved, tool>>
    <3>1. worker[w].pc = "replay" /\ UNCHANGED <<status, saved, tool>>
      BY <1>7 DEF ReplayChild
    <3>2. \/ worker' = [worker EXCEPT ![w] = IdleWorker]
          \/ \E c \in worker[w].todo : worker' = [worker EXCEPT ![w].todo = @ \ {c}]
      BY <1>7 DEF ReplayChild
    <3>3. QED
      BY <1>0, <3>1, <3>2 DEF WorkerType, IdleWorker
  <2>2. \A p \in Props : prop'[p].pc = "release" => prop[p].pc = "release"
    <3>1. CASE worker[w].todo = {}
      BY <1>7, <3>1 DEF ReplayChild
    <3>2. CASE worker[w].todo # {}
      <4>1. PICK c \in worker[w].todo :
              prop' = [prop EXCEPT ![<<c, "replay">>].pc =
                         IF tool[c] = "over" THEN "read" ELSE "idle"]
        BY <1>7, <3>2 DEF ReplayChild
      <4>2. PICK r : r = <<c, "replay">>
        OBVIOUS
      <4>3. prop' = [prop EXCEPT ![r].pc = IF tool[c] = "over" THEN "read" ELSE "idle"]
        BY <4>1, <4>2
      <4>4. QED
        BY <1>0, <4>3 DEF PropType
    <3>3. QED
      BY <3>1, <3>2
  <2>3. \A v \in AgentWorkers : Active(v)' <=> Active(v)
    BY <2>1 DEF Active
  <2>4. OneActive'
    BY <1>0, <2>1, <2>3 DEF OneActive, Active
  <2>5. ReleaseAlone' /\ WaitsEmpty'
    BY <1>0, <2>1, <2>2, <2>3 DEF ReleaseAlone, WaitsEmpty
  <2>6. Covered'
    BY <1>0, <2>1 DEF Covered
  <2>7. QED
    BY <2>4, <2>5, <2>6 DEF Core
<1>8. CASE AsksUser(w)
  <2>1. /\ \A v \in AgentWorkers \ {w} : worker'[v] = worker[v]
        /\ worker[w].pc = "turn" /\ worker'[w].pc = "suspend"
        /\ saved'.pending = worker[w].conv.pending /\ Held(saved') = Held(worker[w].conv)
        /\ UNCHANGED <<status, tool, prop>>
    BY <1>0, <1>8 DEF AsksUser, IdleWorker, ConvType, Held
  <2>2. /\ Active(w) /\ status = "running" /\ saved'.pending = {}
        /\ Held(saved) \subseteq Held(saved')
        /\ \A v \in AgentWorkers : Active(v) <=> v = w
        /\ \A v \in AgentWorkers : Active(v)' <=> v = w
    BY <1>0, <2>1 DEF OneActive, Active
  <2>3. OneActive'
    BY <2>1, <2>2 DEF OneActive
  <2>4. ReleaseAlone' /\ WaitsEmpty'
    BY <1>0, <2>1, <2>2 DEF ReleaseAlone, WaitsEmpty
  <2>5. Covered'
    BY <1>0, <2>1, <2>2 DEF Covered, Active
  <2>6. QED
    BY <2>3, <2>4, <2>5 DEF Core
<1>9. CASE SuspendAgent(w)
  <2>1. /\ \A v \in AgentWorkers \ {w} : worker'[v] = worker[v]
        /\ worker[w].pc = "suspend" /\ worker'[w].pc = "idle"
        /\ status' = (IF status = "running" THEN "suspended" ELSE status)
        /\ UNCHANGED <<saved, tool, prop>>
    BY <1>0, <1>9 DEF SuspendAgent, IdleWorker
  <2>2. /\ Active(w) /\ status = "running" /\ status' = "suspended" /\ saved.pending = {}
        /\ \A v \in AgentWorkers : ~Active(v)'
    BY <1>0, <2>1 DEF OneActive, Active
  <2>3. OneActive' /\ WaitsEmpty'
    BY <2>1, <2>2 DEF OneActive, WaitsEmpty
  <2>4. ReleaseAlone'
    BY <1>0, <2>1, <2>2 DEF ReleaseAlone
  <2>5. Covered'
    BY <1>0, <2>1 DEF Covered
  <2>6. QED
    BY <2>3, <2>4, <2>5 DEF Core
<1>10. QED
  BY <1>1, <1>2, <1>3, <1>4, <1>5, <1>6, <1>7, <1>8, <1>9 DEF WorkerStep

(* A step of a propagation whose copy is still what is saved.              *)
LEMMA PropCore ==
  ASSUME AgentInv, Core, status \in Statuses, status \notin Done, ~stale',
         NEW p \in Props, PropStep(p)
  PROVE  Core'
<1>0. /\ saved \in ConvType /\ prop \in [Props -> PropType] /\ prop[p].conv \in ConvType
      /\ UNCHANGED <<tool, worker>> /\ PropAccounted(p, prop[p], tool)
      /\ \A w \in AgentWorkers : Active(w)' <=> Active(w)
      /\ OneActive /\ ReleaseAlone /\ WaitsEmpty /\ Covered
  BY DEF AgentInv, AgentTypeOK, CopiesAccounted, Core, PropType, PropStep, PropRead, PropWrite,
         PropRelease, Active
<1>1. CASE PropRead(p)
  <2>1. /\ UNCHANGED <<status, saved>> /\ \A q \in Props \ {p} : prop'[q] = prop[q]
        /\ prop'[p].pc \in {"write", "idle"}
    BY <1>0, <1>1 DEF PropRead, IdleProp
  <2>2. OneActive' /\ WaitsEmpty' /\ Covered'
    BY <1>0, <2>1 DEF OneActive, WaitsEmpty, Covered
  <2>3. ReleaseAlone'
    BY <1>0, <2>1 DEF ReleaseAlone
  <2>4. QED
    BY <2>2, <2>3 DEF Core
<1>2. CASE PropWrite(p)
  <2>1. prop[p].conv = saved /\ prop[p].pc = "write" /\ status' = status
    BY <1>2 DEF PropWrite
  <2>2. CallOf(p) \in saved.pending
    BY <1>0, <2>1 DEF PropAccounted
  <2>3. /\ status = "running" /\ \A w \in AgentWorkers : ~Active(w)
        /\ \A q \in Props : prop[q].pc # "release"
    BY <1>0, <2>2 DEF OneActive, ReleaseAlone, WaitsEmpty, Statuses
  <2>4. /\ saved' = Resolve(saved, CallOf(p))
        /\ \A q \in Props \ {p} : prop'[q] = prop[q]
        /\ prop'[p].pc = "release" => saved'.pending = {}
    BY <1>0, <1>2, <2>1 DEF PropWrite, IdleProp
  <2>5. Held(saved') = Held(saved)
    BY <1>0, <2>2, <2>4 DEF Resolve, Held, ConvType
  <2>6. OneActive' /\ WaitsEmpty' /\ Covered'
    BY <1>0, <2>1, <2>3, <2>5 DEF OneActive, WaitsEmpty, Covered
  <2>7. ReleaseAlone'
    BY <1>0, <2>1, <2>3, <2>4 DEF ReleaseAlone
  <2>8. QED
    BY <2>6, <2>7 DEF Core
<1>3. CASE PropRelease(p)
  <2>1. /\ prop[p].pc = "release" /\ saved' = saved
        /\ status' = (IF status = "running" THEN "ready" ELSE status)
        /\ \A q \in Props \ {p} : prop'[q] = prop[q]
        /\ prop'[p].pc = "idle"
    BY <1>0, <1>3 DEF PropRelease, IdleProp
  <2>2. /\ status' = "ready" /\ saved.pending = {} /\ \A w \in AgentWorkers : ~Active(w)
        /\ \A q \in Props : prop'[q].pc # "release"
    BY <1>0, <2>1 DEF ReleaseAlone
  <2>3. QED
    BY <1>0, <2>1, <2>2 DEF Core, OneActive, ReleaseAlone, WaitsEmpty, Covered
<1>4. QED
  BY <1>1, <1>2, <1>3 DEF PropStep

(* A step of a child, or of an answer whose copy is still what is saved.   *)
LEMMA OthersCore ==
  ASSUME AgentInv, Core, status \in Statuses, ~stale',
         \/ \E c \in Calls : ToolEnds(c)
         \/ \E u \in AgentUsers : UserReads(u) \/ UserWrites(u) \/ UserReleases(u)
  PROVE  Core'
<1>0. /\ saved \in ConvType /\ tool \in [Calls -> {"none", "live", "over"}]
      /\ prop \in [Props -> PropType] /\ UNCHANGED worker
      /\ \A w \in AgentWorkers : Active(w)' <=> Active(w)
      /\ OneActive /\ ReleaseAlone /\ WaitsEmpty /\ Covered
  BY DEF AgentInv, AgentTypeOK, Core, ToolEnds, UserReads, UserWrites, UserReleases, Active
<1>1. ASSUME NEW c \in Calls, ToolEnds(c) PROVE Core'
  <2>1. /\ UNCHANGED <<status, saved>> /\ tool[c] = "live"
        /\ \A k \in Calls : tool'[k] # "none" => tool[k] # "none"
    BY <1>0, <1>1 DEF ToolEnds
  <2>2. \A q \in Props : prop'[q].pc = "release" => prop[q].pc = "release"
    <3>1. PICK r : r = <<c, "own">>
      OBVIOUS
    <3>2. prop' = [prop EXCEPT ![r].pc = "read"]
      BY <1>1, <3>1 DEF ToolEnds
    <3>3. QED
      BY <1>0, <3>2 DEF PropType
  <2>3. QED
    BY <1>0, <2>1, <2>2 DEF Core, OneActive, ReleaseAlone, WaitsEmpty, Covered
<1>2. ASSUME NEW u \in AgentUsers, UserReads(u) \/ UserWrites(u) \/ UserReleases(u)
      PROVE  Core'
  <2>1. /\ UNCHANGED <<tool, prop>> /\ Held(saved') = Held(saved)
        /\ saved'.pending = saved.pending
    <3>1. CASE UserWrites(u)
      <4>1. answer[u].conv = saved
        BY <3>1 DEF UserWrites
      <4>2. saved' = [saved EXCEPT !.ask = FALSE] /\ UNCHANGED <<tool, prop>>
        BY <3>1, <4>1 DEF UserWrites
      <4>3. QED
        BY <1>0, <4>2 DEF Held, ConvType
    <3>2. CASE UserReads(u) \/ UserReleases(u)
      BY <3>2 DEF UserReads, UserReleases
    <3>3. QED
      BY <1>2, <3>1, <3>2
  <2>2. status' = status \/ (status = "suspended" /\ status' = "ready")
    BY <1>2 DEF UserReads, UserWrites, UserReleases
  <2>3. OneActive'
    BY <1>0, <2>1, <2>2 DEF OneActive
  <2>4. ReleaseAlone' /\ WaitsEmpty' /\ Covered'
    BY <1>0, <2>1, <2>2 DEF ReleaseAlone, WaitsEmpty, Covered
  <2>5. QED
    BY <2>3, <2>4 DEF Core
<1>3. QED
  BY <1>1, <1>2

(* A step that is over stays so, and a write-back of an old copy is not    *)
(* forgotten; otherwise the step's own part of the invariant is kept.      *)
LEMMA WatchedStep == AgentInv /\ Watched /\ [AgentNext]_agentVars => Watched'
<1> SUFFICES ASSUME AgentInv, Watched, [AgentNext]_agentVars PROVE Watched'
  OBVIOUS
<1>1. /\ status' \in Statuses
      /\ status \in Done => status' \in Done
      /\ stale => stale'
  <2>1. ASSUME NEW w \in AgentWorkers, ClaimAgent(w) \/ WorkerStep(w)
        PROVE  status' \in Statuses /\ (status \in Done => status' \in Done) /\ stale' = stale
    BY <2>1 DEF ClaimAgent, WorkerStep, AgentFails, AgentAnswers, CallsInline, CallsTasks,
         CreateToolJob, ToolJobFails, SaveState, RegisterChildren, ReplayChild, AsksUser,
         SuspendAgent, Report, Watched, Statuses, Done
  <2>2. ASSUME NEW p \in Props, PropStep(p)
        PROVE  status' \in Statuses /\ (status \in Done => status' \in Done) /\ (stale => stale')
    <3>1. status' \in Statuses /\ (status \in Done => status' \in Done)
      BY <2>2 DEF PropStep, PropRead, PropWrite, PropRelease, Watched, Statuses, Done
    <3>2. stale => stale'
      BY <2>2, Zenon DEF PropStep, PropRead, PropWrite, PropRelease
    <3>3. QED
      BY <3>1, <3>2
  <2>3. ASSUME NEW u \in AgentUsers, UserReads(u) \/ UserWrites(u) \/ UserReleases(u)
        PROVE  status' \in Statuses /\ (status \in Done => status' \in Done) /\ (stale => stale')
    <3>1. status' \in Statuses /\ (status \in Done => status' \in Done)
      BY <2>3 DEF UserReads, UserWrites, UserReleases, Watched, Statuses, Done
    <3>2. stale => stale'
      BY <2>3, Zenon DEF UserReads, UserWrites, UserReleases
    <3>3. QED
      BY <3>1, <3>2
  <2>4. ASSUME NEW c \in Calls, ToolEnds(c) PROVE status' = status /\ stale' = stale
    BY <2>4 DEF ToolEnds
  <2>5. UNCHANGED agentVars => status' = status /\ stale' = stale
    BY DEF agentVars
  <2>6. QED
    BY <2>1, <2>2, <2>3, <2>4, <2>5 DEF AgentNext, Watched
<1>2. CASE stale \/ status \in Done
  BY <1>1, <1>2 DEF Watched
<1>3. CASE ~stale /\ status \notin Done
  <2>1. SUFFICES ASSUME ~stale', status' \notin Done PROVE Core'
    BY <1>1 DEF Watched
  <2>2. Core /\ status \in Statuses
    BY <1>3 DEF Watched
  <2>3. CASE UNCHANGED agentVars
    BY <2>2, <2>3 DEF agentVars, Core, OneActive, ReleaseAlone, WaitsEmpty, Covered, Active
  <2>4. CASE AgentNext
    BY <1>3, <2>1, <2>2, <2>4, WorkerCore, PropCore, OthersCore DEF AgentNext
  <2>5. QED
    BY <2>3, <2>4
<1>4. QED
  BY <1>2, <1>3

(* Until a write-back of a stale copy, no child job is forgotten by a step *)
(* that is not over, whenever children end and whoever saves.              *)
THEOREM CallsAccounted == AgentSpec => []NoCallForgotten
<1>1. AgentInv /\ Watched => NoCallForgotten
  BY DEF AgentInv, Watched, Core, Covered, Accounted, NoCallForgotten, Held
<1>2. QED
  BY <1>1, AgentInvInit, AgentInvStep, WatchedInit, WatchedStep, PTL DEF AgentSpec
=============================================================================
