------------------------- MODULE Settlement_proofs -------------------------
(***************************************************************************)
(* Settlement implements JobLifecycle, for any steps, replicas and limits  *)
(* and any failing accesses except the one statement that sets the delay   *)
(* of a retry job.                                                         *)
(***************************************************************************)
EXTENDS Settlement, TLAPS

(* The part of advance behind the re-read, and the part behind the claim.  *)
EffectPcs == {"propagate", "retry", "delay", "hooks", "archive"}
Zone == {"drain", "clear", "claim"} \cup EffectPcs

(* The part of a cancel before its advance. *)
CancelPcs == {"stamped", "swept", "signal"}

EffectNames == {"propagate", "retry", "archive", "on_success", "on_error", "on_cancel"}

(* Every effect performed comes before those a handler at pc is to perform. *)
PcRank(pc) ==
  IF pc = "propagate" THEN 1 ELSE IF pc \in {"retry", "hooks"} THEN 2 ELSE 3
Below(d, n) == \A i \in DOMAIN d : Lifecycle!Rank(d[i]) < n

(* What a handler may rely on at its place in advance. *)
HandlerOK(hd, j, rec, d) ==
  /\ hd.pc \in CancelPcs => hd.at \in Replicas
  /\ hd.pc = "settle" => hd.seen \in Final
  /\ hd.pc \in Zone => j \in Final /\ hd.seen = j
  /\ hd.pc \in EffectPcs => rec /\ Below(d, PcRank(hd.pc))
  /\ hd.pc = "propagate" => IsChild
  /\ hd.pc = "retry" => PlansRetry(j)

HandlersOK == \A h \in Handlers : HandlerOK(handler[h], job, recorded, done)

(* The claim has at most one winner. *)
OneWinner ==
  \A h, k \in Handlers :
    handler[h].pc \in EffectPcs /\ handler[k].pc \in EffectPcs => h = k

(* No effect before the claim. *)
NothingEarly == ~recorded => done = <<>>

(* The inductive invariant. *)
IInv == TypeOK /\ HandlersOK /\ OneWinner /\ NothingEarly

(* The variables JobLifecycle does not see. *)
RestOK ==
  /\ step \in [Steps -> Final \cup {"ready", "running"}]
  /\ attempt \in [Steps -> Nat]
  /\ signal \subseteq Replicas /\ notices \subseteq Replicas
  /\ crashes \in Nat

(* What is proved of every step. *)
StepOK == IInv' /\ [Lifecycle!Next]_<<job, recorded, done>>

-----------------------------------------------------------------------------
(* An effect whose turn it is keeps the list in order. *)
LEMMA AppendBelow ==
  ASSUME NEW d \in Seq(EffectNames), NEW e \in EffectNames, NEW n \in Nat, NEW m \in Nat,
         Below(d, n), n <= m, Lifecycle!Rank(e) < m
  PROVE  Append(d, e) \in Seq(EffectNames) /\ Below(Append(d, e), m)
<1>1. Append(d, e) \in Seq(EffectNames)
  OBVIOUS
<1>2. ASSUME NEW i \in DOMAIN Append(d, e)
      PROVE  Lifecycle!Rank(Append(d, e)[i]) < m
  <2>1. CASE i \in DOMAIN d
    <3>1. Append(d, e)[i] = d[i] /\ d[i] \in EffectNames
      BY <2>1
    <3>2. Lifecycle!Rank(d[i]) < n /\ Lifecycle!Rank(d[i]) \in Nat
      BY <2>1, <3>1 DEF Below, Lifecycle!Rank, EffectNames
    <3>3. QED
      BY <3>1, <3>2
  <2>2. CASE i \notin DOMAIN d
    <3>1. Append(d, e)[i] = e
      BY <2>2, <1>2
    <3>2. QED
      BY <3>1
  <2>3. QED
    BY <2>1, <2>2
<1>3. QED
  BY <1>1, <1>2 DEF Below

(* A handler that is moved to a place it is entitled to, by a step that    *)
(* writes what the other handlers rely on only while none of them is       *)
(* behind the claim.                                                       *)
LEMMA MoveInv ==
  ASSUME IInv, NEW h \in Handlers, NEW new \in Handler,
         handler' = [handler EXCEPT ![h] = new],
         job' = job \/ job \in Live,
         recorded => recorded',
         done' = done \/ handler[h].pc \in EffectPcs,
         HandlerOK(new, job', recorded', done'),
         new.pc \in EffectPcs => handler[h].pc \in EffectPcs \/ ~recorded
  PROVE  HandlersOK' /\ OneWinner' /\ handler' \in [Handlers -> Handler]
<1>1. handler \in [Handlers -> Handler] /\ handler' \in [Handlers -> Handler]
  BY DEF IInv, TypeOK
<1>2. /\ handler'[h] = new
      /\ \A k \in Handlers : k # h => handler'[k] = handler[k]
  BY <1>1
<1>3. \A k \in Handlers : HandlerOK(handler[k], job, recorded, done)
  BY DEF IInv, HandlersOK
<1>4. \A k \in Handlers : handler[k].pc \in Zone => job' = job
  BY <1>3 DEF HandlerOK, Live, Final
<1>5. \A k \in Handlers : k # h /\ handler[k].pc \in EffectPcs => done' = done
  BY DEF IInv, OneWinner
<1>6. ASSUME NEW k \in Handlers, k # h
      PROVE  HandlerOK(handler[k], job', recorded', done')
  BY <1>3, <1>4, <1>5, <1>6 DEF HandlerOK, Zone, EffectPcs, CancelPcs
<1>7. HandlersOK'
  BY <1>2, <1>6 DEF HandlersOK
<1>8. ASSUME NEW k \in Handlers, k # h, new.pc \in EffectPcs, handler[k].pc \in EffectPcs
      PROVE  FALSE
  <2>1. recorded
    BY <1>3, <1>8 DEF HandlerOK
  <2>2. QED
    BY <1>8, <2>1 DEF IInv, OneWinner
<1>9. OneWinner'
  BY <1>2, <1>8 DEF IInv, OneWinner
<1>10. QED
  BY <1>1, <1>7, <1>9

(* A step that moves a handler but performs no effect and makes no claim:  *)
(* to JobLifecycle it is Finish or nothing.                                *)
LEMMA PlainMove ==
  ASSUME IInv, NEW h \in Handlers, NEW new \in Handler,
         handler' = [handler EXCEPT ![h] = new],
         job' = job \/ (job \in Live /\ job' \in Final),
         UNCHANGED <<recorded, done>>,
         HandlerOK(new, job', recorded, done),
         new.pc \in EffectPcs => handler[h].pc \in EffectPcs,
         RestOK'
  PROVE  StepOK
<1>1. HandlersOK' /\ OneWinner' /\ handler' \in [Handlers -> Handler]
  BY MoveInv
<1>2. TypeOK'
  BY <1>1 DEF IInv, TypeOK, RestOK, Live, Final
<1>3. NothingEarly'
  BY DEF IInv, NothingEarly
<1>4. [Lifecycle!Next]_<<job, recorded, done>>
  BY DEF Lifecycle!Next, Lifecycle!Finish, Lifecycle!Live, Lifecycle!Final, Live, Final
<1>5. QED
  BY <1>1, <1>2, <1>3, <1>4 DEF StepOK, IInv

(* A handler that is moved to a place before the re-read, or out.          *)
LEMMA EarlyMove ==
  ASSUME IInv, NEW h \in Handlers, NEW new \in Handler,
         handler' = [handler EXCEPT ![h] = new],
         job' = job \/ (job \in Live /\ job' \in Final),
         UNCHANGED <<recorded, done>>,
         new.pc \notin Zone, new.pc = "settle" => new.seen \in Final,
         new.pc \in CancelPcs => new.at \in Replicas,
         RestOK'
  PROVE  StepOK
<1>1. HandlerOK(new, job', recorded, done) /\ new.pc \notin EffectPcs
  BY DEF HandlerOK, Zone, EffectPcs, CancelPcs
<1>2. QED
  BY <1>1, PlainMove

(* A step that leaves the handlers alone: Start or nothing.                *)
LEMMA QuietMove ==
  ASSUME IInv, handler' = handler,
         job' = job \/ (job = "pending" /\ job' = "running"),
         UNCHANGED <<recorded, done>>, RestOK'
  PROVE  StepOK
<1>1. \A k \in Handlers : HandlerOK(handler[k], job, recorded, done)
  BY DEF IInv, HandlersOK
<1>2. \A k \in Handlers : HandlerOK(handler[k], job', recorded, done)
  BY <1>1 DEF HandlerOK, Final, Zone, EffectPcs, CancelPcs
<1>3. HandlersOK' /\ OneWinner' /\ NothingEarly'
  BY <1>2 DEF IInv, HandlersOK, OneWinner, NothingEarly
<1>4. TypeOK'
  BY DEF IInv, TypeOK, RestOK, Live, Final
<1>5. [Lifecycle!Next]_<<job, recorded, done>>
  BY DEF Lifecycle!Next, Lifecycle!Start
<1>6. QED
  BY <1>3, <1>4, <1>5 DEF StepOK, IInv

(* An effect: to JobLifecycle it is Perform. *)
LEMMA EffectMove ==
  ASSUME IInv, NEW h \in Handlers, NEW new \in Handler, NEW e \in EffectNames,
         handler' = [handler EXCEPT ![h] = new],
         handler[h].pc \in EffectPcs,
         Lifecycle!Owed(e, job),
         Lifecycle!Rank(e) = PcRank(handler[h].pc),
         done' = Append(done, e),
         UNCHANGED <<job, recorded>>,
         new.pc # "settle", new.pc \notin CancelPcs, new.pc \in Zone => new.seen = job,
         new.pc \notin {"propagate", "drain", "clear", "claim"},
         new.pc = "retry" => PlansRetry(job),
         new.pc \in EffectPcs => Lifecycle!Rank(e) < PcRank(new.pc),
         RestOK'
  PROVE  StepOK
<1>1. /\ recorded /\ job \in Final /\ Below(done, PcRank(handler[h].pc))
      /\ done \in Seq(EffectNames)
  BY DEF IInv, TypeOK, HandlersOK, HandlerOK, Zone, EffectNames
<1>2. PcRank(new.pc) \in Nat /\ PcRank(handler[h].pc) \in Nat
  BY DEF PcRank
<1>3. Append(done, e) \in Seq(EffectNames)
  BY <1>1
<1>4. new.pc \in EffectPcs => Below(done', PcRank(new.pc))
  BY <1>1, <1>2, AppendBelow
<1>5. HandlerOK(new, job', recorded', done')
  BY <1>1, <1>4 DEF HandlerOK, Zone
<1>6. HandlersOK' /\ OneWinner' /\ handler' \in [Handlers -> Handler]
  BY <1>5, MoveInv
<1>7. TypeOK'
  BY <1>3, <1>6 DEF IInv, TypeOK, RestOK, EffectNames
<1>8. NothingEarly'
  BY <1>1 DEF NothingEarly
<1>9. Lifecycle!Perform(e) /\ e \in Lifecycle!Effect
  BY <1>1 DEF Lifecycle!Perform, Below, Lifecycle!Effect, Lifecycle!Hooks, EffectNames
<1>10. QED
  BY <1>6, <1>7, <1>8, <1>9 DEF StepOK, IInv, Lifecycle!Next

-----------------------------------------------------------------------------
(* The records a handler may hold. *)
LEMMA HandlerTypes ==
  ASSUME IInv, NEW h \in Handlers
  PROVE  /\ handler[h] \in Handler
         /\ handler[h] = [pc |-> handler[h].pc, at |-> handler[h].at,
                          seen |-> handler[h].seen, flow |-> handler[h].flow]
         /\ Idle \in Handler
         /\ \A r \in Replicas : Advance(r) \in Handler
         /\ \A pc \in Pcs : [handler[h] EXCEPT !.pc = pc] \in Handler
         /\ RestOK
<1>1. handler[h] \in Handler
  BY DEF IInv, TypeOK
<1>2. Idle \in Handler /\ \A r \in Replicas : Advance(r) \in Handler
  BY DEF Idle, Advance, Handler, Pcs, Live
<1>3. \A pc \in Pcs : [handler[h] EXCEPT !.pc = pc] \in Handler
  BY <1>1 DEF Handler
<1>4. RestOK
  BY DEF IInv, TypeOK, RestOK
<1>5. handler[h] = [pc |-> handler[h].pc, at |-> handler[h].at,
                    seen |-> handler[h].seen, flow |-> handler[h].flow]
  BY <1>1 DEF Handler
<1>6. QED
  BY <1>1, <1>2, <1>3, <1>4, <1>5

-----------------------------------------------------------------------------
(***************************************************************************)
(* One lemma per group of actions                                          *)
(***************************************************************************)

(* An assignment to the pc keeps the rest of the record. *)
LEMMA GotoFields ==
  ASSUME IInv, NEW h \in Handlers, NEW pc \in Pcs
  PROVE  LET new == [handler[h] EXCEPT !.pc = pc]
         IN  /\ new \in Handler
             /\ new.pc = pc /\ new.at = handler[h].at
             /\ new.seen = handler[h].seen /\ new.flow = handler[h].flow
             /\ [handler EXCEPT ![h].pc = pc] = [handler EXCEPT ![h] = new]
BY HandlerTypes DEF Handler

(* A handler that goes to a place before the re-read. *)
LEMMA GotoEarly ==
  ASSUME IInv, NEW h \in Handlers, NEW pc \in Pcs,
         Goto(h, pc), pc \notin Zone \cup {"settle"},
         pc \in CancelPcs => handler[h].pc \in CancelPcs,
         job' = job \/ (job \in Live /\ job' \in Final),
         UNCHANGED <<recorded, done>>, RestOK'
  PROVE  StepOK
<1> DEFINE new == [handler[h] EXCEPT !.pc = pc]
<1>1. /\ new \in Handler /\ new.pc = pc /\ new.at = handler[h].at
      /\ handler' = [handler EXCEPT ![h] = new]
  BY GotoFields DEF Goto
<1>2. handler[h].pc \in CancelPcs => handler[h].at \in Replicas
  BY DEF IInv, HandlersOK, HandlerOK
<1> HIDE DEF new
<1>3. QED
  BY <1>1, <1>2, EarlyMove

(* A handler that is done. *)
LEMMA ReturnMove ==
  ASSUME IInv, NEW h \in Handlers, Return(h),
         UNCHANGED <<job, recorded, done>>, RestOK'
  PROVE  StepOK
<1>1. Idle \in Handler /\ Idle.pc = "idle"
  BY HandlerTypes DEF Idle
<1>2. QED
  BY <1>1, EarlyMove DEF Return, Zone, EffectPcs, CancelPcs

(* A request begins an advance. *)
LEMMA AdvanceMove ==
  ASSUME IInv, NEW h \in Handlers, NEW r \in Replicas,
         handler' = [handler EXCEPT ![h] = Advance(r)],
         UNCHANGED <<job, recorded, done>>, RestOK'
  PROVE  StepOK
<1>1. Advance(r) \in Handler /\ Advance(r).pc = "read"
  BY HandlerTypes DEF Advance
<1> HIDE DEF Advance
<1>2. QED
  BY <1>1, EarlyMove DEF Zone, EffectPcs, CancelPcs

(* The worker side. *)
LEMMA WorkerStepOK ==
  ASSUME IInv, NEW s \in Steps, StartStep(s) \/ ReportStep(s) \/ KillStep(s)
  PROVE  StepOK
<1>1. s \in Handlers /\ PollsAt[s] \in Replicas /\ RestOK
  BY HandlerTypes, StepAssumption DEF Handlers
<1>2. CASE StartStep(s)
  BY <1>1, <1>2, QuietMove DEF StartStep, RestOK, signalVars
<1>3. ASSUME StepFailed(s), UNCHANGED <<job, recorded, signalVars, done, crashes>>
      PROVE  StepOK
  <2>1. RestOK'
    BY <1>1, <1>3 DEF StepFailed, RestOK, signalVars, Final
  <2>2. CASE attempt[s] < StepRetries[s]
    BY <1>3, <2>1, <2>2, QuietMove DEF StepFailed
  <2>3. CASE ~(attempt[s] < StepRetries[s])
    BY <1>1, <1>3, <2>1, <2>3, AdvanceMove DEF StepFailed
  <2>4. QED
    BY <2>2, <2>3
<1>4. CASE ReportStep(s)
  <2>1. CASE StepFailed(s)
    BY <1>3, <1>4, <2>1 DEF ReportStep
  <2>2. CASE /\ step' = [step EXCEPT ![s] = "completed"]
             /\ handler' = [handler EXCEPT ![s] = Advance(PollsAt[s])]
             /\ UNCHANGED attempt
    <3>1. RestOK'
      BY <1>1, <1>4, <2>2 DEF ReportStep, RestOK, signalVars, Final
    <3>2. QED
      BY <1>1, <1>4, <2>2, <3>1, AdvanceMove DEF ReportStep
  <2>3. QED
    BY <1>4, <2>1, <2>2 DEF ReportStep
<1>5. CASE KillStep(s)
  BY <1>3, <1>5 DEF KillStep
<1>6. QED
  BY <1>2, <1>4, <1>5

(* advance up to the re-read. *)
LEMMA SettleStepOK ==
  ASSUME IInv, NEW h \in Handlers, SettleStep(h)
  PROVE  StepOK
<1> USE DEF stepVars, signalVars
<1>1. RestOK /\ handler[h] \in Handler /\ handler \in [Handlers -> Handler] /\ job \in Live \cup Final
  BY HandlerTypes DEF IInv, TypeOK
<1>2. UNCHANGED <<step, attempt, signal, notices, crashes>> => RestOK'
  BY <1>1 DEF RestOK
<1>3. CASE ReadJob(h)
  <2> DEFINE new == [handler[h] EXCEPT !.pc = "resolve", !.seen = job]
  <2>1. new \in Handler /\ new.pc = "resolve"
    BY <1>1 DEF Handler, Pcs
  <2>2. handler' = [handler EXCEPT ![h] = new]
    BY <1>1, <1>3 DEF ReadJob
  <2> HIDE DEF new
  <2>3. QED
    BY <1>2, <1>3, <2>1, <2>2, EarlyMove DEF ReadJob, Zone, EffectPcs, CancelPcs
<1>4. CASE ResolveOk(h)
  <2> DEFINE pc == IF handler[h].seen \in Live THEN "decide" ELSE "reread"
             new == [handler[h] EXCEPT !.flow = TRUE, !.pc = pc]
  <2>1. new \in Handler /\ new.pc \in {"decide", "reread"}
    BY <1>1 DEF Handler, Pcs
  <2>2. handler' = [handler EXCEPT ![h] = new]
    BY <1>1, <1>4 DEF ResolveOk
  <2> HIDE DEF new
  <2>3. QED
    BY <1>2, <1>4, <2>1, <2>2, EarlyMove DEF ResolveOk, Zone, EffectPcs, CancelPcs
<1>5. CASE ResolveNone(h)
  BY <1>2, <1>5, GotoEarly DEF ResolveNone, Zone, EffectPcs, CancelPcs, Pcs
<1>6. CASE PinUnavailable(h)
  <2>1. CancelUnclaimed \in [Steps -> Final \cup {"ready", "running"}]
    BY <1>1 DEF RestOK, CancelUnclaimed, Final
  <2>2. RestOK'
    BY <1>1, <1>6, <2>1 DEF PinUnavailable, RestOK
  <2>3. job' = job \/ (job \in Live /\ job' \in Final)
    BY <1>6 DEF PinUnavailable, Final
  <2>4. QED
    BY <1>6, <2>2, <2>3, GotoEarly DEF PinUnavailable, Zone, EffectPcs, CancelPcs, Pcs
<1>7. CASE Decide(h)
  <2>1. CASE AllTerminal
    <3> DEFINE new == [handler[h] EXCEPT !.pc = "settle", !.seen = Outcome]
    <3>1. Outcome \in Final
      BY DEF Outcome, Final
    <3>2. new \in Handler /\ new.pc = "settle" /\ new.seen \in Final
      BY <1>1, <3>1 DEF Handler, Pcs
    <3>3. handler' = [handler EXCEPT ![h] = new]
      BY <1>1, <1>7, <2>1 DEF Decide
    <3> HIDE DEF new
    <3>4. QED
      BY <1>2, <1>7, <3>2, <3>3, EarlyMove DEF Decide, Zone, EffectPcs, CancelPcs
  <2>2. CASE ~AllTerminal
    BY <1>2, <1>7, <2>2, GotoEarly DEF Decide, Zone, EffectPcs, CancelPcs, Pcs
  <2>3. QED
    BY <2>1, <2>2
<1>8. CASE SettleJob(h)
  <2>1. handler[h].seen \in Final
    BY <1>8 DEF SettleJob, At, IInv, HandlersOK, HandlerOK
  <2>2. QED
    BY <1>2, <1>8, <2>1, GotoEarly DEF SettleJob, Zone, EffectPcs, CancelPcs, Pcs
<1>9. CASE RereadJob(h)
  <2>1. CASE job \in Live
    BY <1>2, <1>9, <2>1, ReturnMove DEF RereadJob
  <2>2. CASE job \notin Live
    <3> DEFINE new == [handler[h] EXCEPT !.pc = "drain", !.seen = job]
    <3>1. new \in Handler /\ new.pc = "drain" /\ new.seen = job
      BY <1>1 DEF Handler, Pcs
    <3>2. handler' = [handler EXCEPT ![h] = new]
      BY <1>1, <1>9, <2>2 DEF RereadJob
    <3> HIDE DEF new
    <3>3. HandlerOK(new, job', recorded, done) /\ new.pc \notin EffectPcs
      BY <1>1, <1>9, <2>2, <3>1 DEF RereadJob, HandlerOK, Zone, EffectPcs, CancelPcs
    <3>4. QED
      BY <1>2, <1>9, <3>1, <3>2, <3>3, PlainMove DEF RereadJob
  <2>3. QED
    BY <2>1, <2>2
<1>10. CASE RequestErrs(h)
  BY <1>2, <1>10, ReturnMove DEF RequestErrs
<1>11. QED
  BY <1>3, <1>4, <1>5, <1>6, <1>7, <1>8, <1>9, <1>10 DEF SettleStep

(* What follows the claim, and what follows the propagation. *)
LEMMA AfterPropagateFields ==
  ASSUME IInv, NEW h \in Handlers
  PROVE  LET new == AfterPropagate(handler[h])
         IN  /\ new \in Handler
             /\ new.pc \in {"idle", "retry", "hooks"}
             /\ new.pc # "idle" => new.seen = handler[h].seen
             /\ new.pc = "retry" => PlansRetry(handler[h].seen)
<1>1. handler[h] \in Handler /\ Idle \in Handler /\ Idle.pc = "idle"
  BY HandlerTypes DEF Idle
<1>2. CASE ~handler[h].flow
  BY <1>1, <1>2 DEF AfterPropagate
<1>3. CASE handler[h].flow
  <2> DEFINE pc == IF PlansRetry(handler[h].seen) THEN "retry" ELSE "hooks"
             new == [handler[h] EXCEPT !.pc = pc]
  <2>1. pc \in {"retry", "hooks"} /\ pc \in Pcs /\ (pc = "retry" => PlansRetry(handler[h].seen))
    BY DEF Pcs
  <2> HIDE DEF pc
  <2>2. new \in Handler /\ new.pc = pc /\ new.seen = handler[h].seen
    BY <1>1, <2>1 DEF Handler
  <2>3. AfterPropagate(handler[h]) = new
    BY <1>3 DEF AfterPropagate, pc
  <2> HIDE DEF new
  <2>4. QED
    BY <2>1, <2>2, <2>3
<1>4. QED
  BY <1>2, <1>3

(* The compare-and-set: ClaimTerminal of JobLifecycle, or nothing. *)
LEMMA ClaimOK ==
  ASSUME IInv, NEW h \in Handlers, ClaimTerminal(h)
  PROVE  StepOK
<1>1. RestOK' /\ handler[h] \in Handler /\ handler \in [Handlers -> Handler]
  <2>1. RestOK /\ handler[h] \in Handler
    BY HandlerTypes
  <2>2. QED
    BY <2>1 DEF ClaimTerminal, RestOK, stepVars, signalVars, IInv, TypeOK
<1>2. job \in Final /\ handler[h].seen = job /\ UNCHANGED <<job, done>> /\ recorded' = TRUE
  BY DEF ClaimTerminal, At, IInv, HandlersOK, HandlerOK, Zone
<1>3. CASE recorded
  BY <1>1, <1>2, <1>3, ReturnMove DEF ClaimTerminal, Return
<1>4. CASE ~recorded
  <2> DEFINE new == IF IsChild THEN [handler[h] EXCEPT !.pc = "propagate"]
                    ELSE AfterPropagate(handler[h])
  <2>1. handler' = [handler EXCEPT ![h] = new]
    BY <1>1, <1>4 DEF ClaimTerminal
  <2>2. /\ new \in Handler /\ new.pc \in {"idle", "propagate", "retry", "hooks"}
        /\ new.pc # "idle" => new.seen = job
        /\ new.pc = "propagate" => IsChild
        /\ new.pc = "retry" => PlansRetry(job)
    <3>1. CASE IsChild
      BY <1>2, <3>1, GotoFields DEF Pcs
    <3>2. CASE ~IsChild
      BY <1>2, <3>2, AfterPropagateFields
    <3>3. QED
      BY <3>1, <3>2
  <2> HIDE DEF new
  <2>3. done = <<>>
    BY <1>4 DEF IInv, NothingEarly
  <2>4. HandlerOK(new, job', recorded', done')
    BY <1>2, <2>2, <2>3 DEF HandlerOK, Zone, EffectPcs, CancelPcs, Below
  <2>5. HandlersOK' /\ OneWinner' /\ handler' \in [Handlers -> Handler]
    BY <1>2, <1>4, <2>1, <2>2, <2>4, MoveInv
  <2>6. TypeOK'
    BY <1>1, <1>2, <2>5 DEF IInv, TypeOK, RestOK
  <2>7. Lifecycle!ClaimTerminal
    BY <1>2, <1>4 DEF Lifecycle!ClaimTerminal, Lifecycle!Final, Final
  <2>8. QED
    BY <1>2, <2>5, <2>6, <2>7 DEF StepOK, IInv, NothingEarly, Lifecycle!Next
<1>5. QED
  BY <1>3, <1>4

(* The drain gate to the archive. *)
LEMMA TerminalStepOK ==
  ASSUME IInv, NEW h \in Handlers, TerminalStep(h), "delay" \notin Faults
  PROVE  StepOK
<1> USE DEF stepVars, signalVars
<1>1. RestOK /\ handler[h] \in Handler /\ handler \in [Handlers -> Handler]
  BY HandlerTypes DEF IInv, TypeOK
<1>2. UNCHANGED <<step, attempt, signal, notices, crashes>> => RestOK'
  BY <1>1 DEF RestOK
<1>3. HandlerOK(handler[h], job, recorded, done)
  BY DEF IInv, HandlersOK
<1>4. ASSUME NEW pc \in Pcs, Goto(h, pc), handler[h].pc \in Zone,
             UNCHANGED <<job, recorded, done>>, RestOK',
             pc \in {"clear", "claim"}
               \/ (handler[h].pc \in EffectPcs /\ pc \in {"hooks", "archive"}
                   /\ PcRank(handler[h].pc) <= PcRank(pc))
      PROVE  StepOK
  <2> DEFINE new == [handler[h] EXCEPT !.pc = pc]
  <2>1. /\ new \in Handler /\ new.pc = pc /\ new.seen = handler[h].seen
        /\ handler' = [handler EXCEPT ![h] = new]
    BY <1>4, GotoFields DEF Goto
  <2> HIDE DEF new
  <2>2. job \in Final /\ new.seen = job
    BY <1>3, <1>4, <2>1 DEF HandlerOK
  <2>3. pc \in EffectPcs => handler[h].pc \in EffectPcs /\ recorded /\ Below(done, PcRank(pc))
    <3>1. SUFFICES ASSUME pc \in EffectPcs
                   PROVE  handler[h].pc \in EffectPcs /\ recorded /\ Below(done, PcRank(pc))
      OBVIOUS
    <3>2. /\ handler[h].pc \in EffectPcs /\ recorded /\ Below(done, PcRank(handler[h].pc))
          /\ PcRank(handler[h].pc) <= PcRank(pc)
      BY <1>3, <1>4, <3>1 DEF HandlerOK, EffectPcs
    <3>3. done \in Seq(EffectNames) /\ PcRank(pc) \in Nat /\ PcRank(handler[h].pc) \in Nat
      BY DEF IInv, TypeOK, EffectNames, PcRank
    <3>4. \A i \in DOMAIN done : Lifecycle!Rank(done[i]) \in Nat
      BY DEF Lifecycle!Rank
    <3>5. QED
      BY <3>2, <3>3, <3>4 DEF Below
  <2>4. HandlerOK(new, job', recorded, done)
    BY <1>4, <2>1, <2>2, <2>3 DEF HandlerOK, EffectPcs, CancelPcs
  <2>5. QED
    BY <1>4, <2>1, <2>3, <2>4, PlainMove
<1>5. CASE DrainGate(h)
  BY <1>2, <1>4, <1>5, ReturnMove DEF DrainGate, At, Zone, Pcs
<1>6. CASE ClearCancelled(h)
  <2>1. RestOK'
    BY <1>1, <1>6 DEF ClearCancelled, RestOK
  <2>2. QED
    BY <1>4, <1>6, <2>1 DEF ClearCancelled, At, Zone, Pcs
<1>7. CASE ClaimTerminal(h)
  BY <1>7, ClaimOK
<1>8. CASE ClaimErrs(h)
  BY <1>2, <1>8, ReturnMove DEF ClaimErrs
<1>9. CASE Propagate(h)
  <2> DEFINE new == AfterPropagate(handler[h])
  <2>1. handler[h].pc = "propagate" /\ RestOK' /\ UNCHANGED <<job, recorded>>
    BY <1>2, <1>9 DEF Propagate, At
  <2>2. IsChild /\ recorded /\ handler[h].seen = job /\ job \in Final
    BY <1>3, <2>1 DEF HandlerOK, Zone, EffectPcs, CancelPcs
  <2>3. /\ handler' = [handler EXCEPT ![h] = new] /\ new \in Handler
        /\ new.pc \in {"idle", "retry", "hooks"}
        /\ new.pc # "idle" => new.seen = job
        /\ new.pc = "retry" => PlansRetry(job)
    BY <1>1, <1>9, <2>2, AfterPropagateFields DEF Propagate
  <2> HIDE DEF new
  <2>4. CASE done' = Append(done, "propagate")
    <3>1. /\ Lifecycle!Rank("propagate") = 1 /\ Lifecycle!Owed("propagate", job)
          /\ PcRank("propagate") = 1
      BY <2>2 DEF Lifecycle!Rank, Lifecycle!Owed, PcRank
    <3>2. new.pc \in EffectPcs => 1 < PcRank(new.pc)
      BY <2>3 DEF PcRank
    <3>3. "propagate" \in EffectNames /\ "propagate" \in EffectPcs
      BY DEF EffectNames, EffectPcs
    <3>4. new.pc # "settle" /\ new.pc \notin CancelPcs /\ new.pc \notin {"propagate", "drain", "clear", "claim"}
          /\ (new.pc \in Zone => new.seen = job)
      BY <2>3 DEF Zone, EffectPcs, CancelPcs
    <3>5. QED
      BY <2>1, <2>3, <2>4, <3>1, <3>2, <3>3, <3>4, EffectMove
  <2>5. CASE UNCHANGED done
    <3>1. Below(done, 1)
      BY <1>3, <2>1 DEF HandlerOK, EffectPcs, PcRank
    <3>2. \A i \in DOMAIN done : Lifecycle!Rank(done[i]) \in Nat
      BY DEF Lifecycle!Rank
    <3>3. Below(done, 2)
      BY <3>1, <3>2 DEF Below
    <3>4. HandlerOK(new, job', recorded, done)
      BY <2>1, <2>2, <2>3, <3>3 DEF HandlerOK, Zone, EffectPcs, CancelPcs, PcRank
    <3>5. QED
      BY <2>1, <2>3, <2>5, <3>4, PlainMove DEF EffectPcs
  <2>6. QED
    BY <1>9, <2>4, <2>5 DEF Propagate
<1>10. CASE CreateRetryJob(h)
  <2> DEFINE new == [handler[h] EXCEPT !.pc = "delay"]
  <2>1. handler[h].pc = "retry" /\ RestOK' /\ UNCHANGED <<job, recorded>>
    BY <1>2, <1>10 DEF CreateRetryJob, At
  <2>2. PlansRetry(job) /\ handler[h].seen = job
    BY <1>3, <2>1 DEF HandlerOK, Zone, EffectPcs, CancelPcs
  <2>3. /\ new \in Handler /\ new.pc = "delay" /\ new.seen = job
        /\ handler' = [handler EXCEPT ![h] = new]
    BY <1>10, <2>2, GotoFields DEF CreateRetryJob, Goto, Pcs
  <2> HIDE DEF new
  <2>4. /\ Lifecycle!Rank("retry") = 2 /\ Lifecycle!Owed("retry", job)
        /\ PcRank("retry") = 2 /\ PcRank("delay") = 3
    BY <2>2 DEF Lifecycle!Rank, Lifecycle!Owed, PcRank, PlansRetry
  <2>5. "retry" \in EffectNames /\ "retry" \in EffectPcs
    BY DEF EffectNames, EffectPcs
  <2>6. done' = Append(done, "retry")
    BY <1>10 DEF CreateRetryJob
  <2>7. /\ new.pc \notin {"settle", "retry", "propagate", "drain", "clear", "claim"}
        /\ new.pc \notin CancelPcs /\ Lifecycle!Rank("retry") < PcRank(new.pc)
    BY <2>3, <2>4 DEF CancelPcs
  <2>8. QED
    BY <2>1, <2>3, <2>4, <2>5, <2>6, <2>7, EffectMove
<1>11. CASE RetryErrs(h)
  <2>1. handler[h].pc = "retry"
    BY <1>11 DEF RetryErrs
  <2>2. PcRank("retry") <= PcRank("hooks")
    BY DEF PcRank
  <2>3. QED
    BY <1>2, <1>4, <1>11, <2>1, <2>2 DEF RetryErrs, Zone, EffectPcs, CancelPcs, Pcs
<1>12. CASE DelayRetry(h)
  <2>1. PcRank("delay") <= PcRank("archive")
    BY DEF PcRank
  <2>2. QED
    BY <1>2, <1>4, <1>12, <2>1 DEF DelayRetry, At, Zone, EffectPcs, CancelPcs, Pcs
<1>13. CASE FireHooks(h)
  <2> DEFINE new == [handler[h] EXCEPT !.pc = "archive"]
             e == HookKind(job)
  <2>1. handler[h].pc = "hooks" /\ RestOK' /\ UNCHANGED <<job, recorded>>
    BY <1>2, <1>13 DEF FireHooks, At
  <2>2. job \in Final /\ handler[h].seen = job
    BY <1>3, <2>1 DEF HandlerOK, Zone, EffectPcs, CancelPcs
  <2>3. /\ new \in Handler /\ new.pc = "archive" /\ new.seen = job
        /\ handler' = [handler EXCEPT ![h] = new]
    BY <1>13, <2>2, GotoFields DEF FireHooks, Goto, Pcs
  <2>4. e = Lifecycle!Hook[job] /\ e \in {"on_success", "on_error", "on_cancel"}
    BY <2>2 DEF HookKind, Lifecycle!Hook, Final
  <2>5. done' = Append(done, e)
    BY <1>13, <2>2 DEF FireHooks
  <2> HIDE DEF new, e
  <2>6. /\ Lifecycle!Rank(e) = 2 /\ Lifecycle!Owed(e, job)
        /\ PcRank("hooks") = 2 /\ PcRank("archive") = 3
    BY <2>4 DEF Lifecycle!Rank, Lifecycle!Owed, PcRank
  <2>7. e \in EffectNames /\ "hooks" \in EffectPcs
    BY <2>4 DEF EffectNames, EffectPcs
  <2>8. /\ new.pc \notin {"settle", "retry", "propagate", "drain", "clear", "claim"}
        /\ new.pc \notin CancelPcs /\ Lifecycle!Rank(e) < PcRank(new.pc)
    BY <2>3, <2>6 DEF CancelPcs
  <2>9. QED
    BY <2>1, <2>3, <2>5, <2>6, <2>7, <2>8, EffectMove
<1>14. CASE Archive(h)
  <2>1. handler[h].pc = "archive" /\ RestOK' /\ UNCHANGED <<job, recorded>>
    BY <1>2, <1>14 DEF Archive, At
  <2>2. /\ Idle \in Handler /\ Idle.pc = "idle"
        /\ handler' = [handler EXCEPT ![h] = Idle] /\ done' = Append(done, "archive")
    BY <1>14, HandlerTypes DEF Archive, Return, Idle
  <2>3. /\ Lifecycle!Rank("archive") = 3 /\ Lifecycle!Owed("archive", job)
        /\ PcRank("archive") = 3
    BY DEF Lifecycle!Rank, Lifecycle!Owed, PcRank
  <2>4. /\ "archive" \in EffectNames /\ "archive" \in EffectPcs
        /\ "idle" \notin Zone \cup EffectPcs \cup CancelPcs
    BY DEF EffectNames, EffectPcs, Zone, CancelPcs
  <2>5. QED
    BY <2>1, <2>2, <2>3, <2>4, EffectMove
<1>15. QED
  BY <1>5, <1>6, <1>7, <1>8, <1>9, <1>10, <1>11, <1>12, <1>13, <1>14 DEF TerminalStep

(* The steps of a cancel before its advance. *)
LEMMA CancelStepOK ==
  ASSUME IInv, NEW h \in Handlers, CancelStep(h)
  PROVE  StepOK
<1> USE DEF stepVars, signalVars
<1>1. RestOK /\ handler[h] \in Handler
  BY HandlerTypes
<1>2. CASE CancelPendingSteps(h)
  <2>1. RestOK'
    BY <1>1, <1>2 DEF CancelPendingSteps, CancelUnclaimed, RestOK, Final
  <2>2. QED
    BY <1>2, <2>1, GotoEarly DEF CancelPendingSteps, At, Zone, EffectPcs, CancelPcs, Pcs
<1>3. CASE ReadRunning(h)
  <2>1. RestOK'
    BY <1>1, <1>3 DEF ReadRunning, RestOK
  <2>2. QED
    BY <1>3, <2>1, GotoEarly DEF ReadRunning, At, Zone, EffectPcs, CancelPcs, Pcs
<1>4. CASE SignalWorkers(h)
  <2>1. handler[h].at \in Replicas
    BY <1>4 DEF SignalWorkers, At, IInv, HandlersOK, HandlerOK, CancelPcs
  <2>2. RestOK'
    BY <1>1, <1>4, <2>1 DEF SignalWorkers, RestOK
  <2>3. QED
    BY <1>4, <2>2, GotoEarly DEF SignalWorkers, Zone, EffectPcs, CancelPcs, Pcs
<1>5. QED
  BY <1>2, <1>3, <1>4 DEF CancelStep

(* A replica takes a cancel, a notification or a sweep, or dies. *)
LEMMA ReplicaStepOK ==
  ASSUME IInv, NEW r \in Replicas,
         \/ CancelJob(r) \/ DeliverNotice(r) \/ LoseNotice(r)
         \/ ReadvanceStalled(r) \/ Crash(r)
  PROVE  StepOK
<1> USE DEF stepVars, signalVars
<1>1. /\ RestOK /\ handler \in [Handlers -> Handler] /\ Idle \in Handler
      /\ Canceller \in Handlers /\ Sweeper \in Handlers
  BY HandlerTypes DEF IInv, TypeOK, Handlers
<1>2. CASE CancelJob(r)
  <2> DEFINE new == [Idle EXCEPT !.pc = "stamped", !.at = r]
  <2>1. new \in Handler /\ new.pc = "stamped" /\ new.at \in Replicas
    BY DEF Idle, Handler, Pcs, Live
  <2>2. RestOK'
    BY <1>1, <1>2 DEF CancelJob, RestOK
  <2>3. /\ handler' = [handler EXCEPT ![Canceller] = new]
        /\ job \in Live /\ job' \in Final /\ UNCHANGED <<recorded, done>>
    BY <1>2 DEF CancelJob, Final
  <2> HIDE DEF new
  <2>4. QED
    BY <1>1, <2>1, <2>2, <2>3, EarlyMove DEF Zone, EffectPcs, CancelPcs
<1>3. CASE DeliverNotice(r)
  BY <1>1, <1>3, QuietMove DEF DeliverNotice, RestOK
<1>4. CASE LoseNotice(r)
  BY <1>1, <1>4, QuietMove DEF LoseNotice, RestOK
<1>5. CASE ReadvanceStalled(r)
  BY <1>1, <1>5, AdvanceMove DEF ReadvanceStalled, RestOK
<1>6. CASE Crash(r)
  <2>1. RestOK'
    BY <1>1, <1>6 DEF Crash, RestOK
  <2>2. \A k \in Handlers : handler'[k] = Idle \/ handler'[k] = handler[k]
    BY <1>6 DEF Crash
  <2>3. handler' \in [Handlers -> Handler]
    BY <1>1, <1>6 DEF Crash
  <2>4. UNCHANGED <<job, recorded, done>>
    BY <1>6 DEF Crash
  <2>5. HandlerOK(Idle, job, recorded, done)
    BY DEF HandlerOK, Idle, Zone, EffectPcs, CancelPcs
  <2>6. HandlersOK'
    BY <2>2, <2>4, <2>5 DEF IInv, HandlersOK
  <2>7. \A k \in Handlers : handler'[k].pc \in EffectPcs => handler[k].pc \in EffectPcs
    BY <2>2 DEF Idle, EffectPcs
  <2>8. OneWinner'
    BY <2>7 DEF IInv, OneWinner
  <2>9. QED
    BY <2>1, <2>3, <2>4, <2>6, <2>8 DEF StepOK, IInv, TypeOK, RestOK, NothingEarly
<1>7. QED
  BY <1>2, <1>3, <1>4, <1>5, <1>6

-----------------------------------------------------------------------------
(* The initial states map to initial states. *)
LEMMA InitOK == Init => IInv /\ Lifecycle!Init
<1>1. SUFFICES ASSUME Init PROVE IInv /\ Lifecycle!Init
  OBVIOUS
<1>2. TypeOK
  <2>1. Idle \in Handler
    BY DEF Idle, Handler, Pcs, Live
  <2>2. done \in Seq(EffectNames)
    BY <1>1 DEF Init
  <2>3. QED
    BY <1>1, <2>1, <2>2 DEF Init, TypeOK, Live, Final, EffectNames
<1>3. \A h \in Handlers : handler[h] = Idle
  BY <1>1 DEF Init
<1>4. HandlersOK /\ OneWinner
  BY <1>3 DEF HandlersOK, HandlerOK, OneWinner, Idle, Zone, EffectPcs, CancelPcs
<1>5. NothingEarly /\ Lifecycle!Init
  BY <1>1 DEF Init, NothingEarly, Lifecycle!Init
<1>6. QED
  BY <1>2, <1>4, <1>5 DEF IInv

(* Every step maps to a step or a stutter. *)
LEMMA NextOK ==
  ASSUME IInv, [Next]_vars, "delay" \notin Faults
  PROVE  StepOK
<1>1. CASE UNCHANGED vars
  <2>1. IInv'
    BY <1>1 DEF vars, IInv, TypeOK, HandlersOK, OneWinner, NothingEarly
  <2>2. QED
    BY <1>1, <2>1 DEF vars, StepOK
<1>2. CASE \E s \in Steps : StartStep(s) \/ ReportStep(s) \/ KillStep(s)
  BY <1>2, WorkerStepOK
<1>3. CASE \E h \in Handlers : HandlerStep(h)
  BY <1>3, SettleStepOK, TerminalStepOK, CancelStepOK DEF HandlerStep
<1>4. CASE \E r \in Replicas : \/ CancelJob(r) \/ DeliverNotice(r) \/ LoseNotice(r)
                               \/ ReadvanceStalled(r) \/ Crash(r)
  BY <1>4, ReplicaStepOK
<1>5. QED
  BY <1>1, <1>2, <1>3, <1>4 DEF Next

(* Rows, requests and effects hold values of their kind in every state,    *)
(* for any steps, replicas, retry limits and number of crashes: no effect  *)
(* outside Settlement's repertoire (hook_kind gives a kind for every       *)
(* terminal status) is ever performed.                                     *)
THEOREM SettlementTypes ==
  ASSUME "delay" \notin Faults
  PROVE  Spec => []TypeOK
<1>1. IInv /\ [Next]_vars => IInv'
  BY NextOK DEF StepOK
<1>2. IInv => TypeOK
  BY DEF IInv
<1>3. QED
  BY <1>1, <1>2, InitOK, PTL DEF Spec

(* Settlement::advance and cancel, run by any number of replicas, with     *)
(* crashes and failing accesses, implement JobLifecycle: the job row gets  *)
(* one final status, metrics_recorded_at lets one advance through, and the *)
(* effects are those of the final status, in order, none twice.            *)
THEOREM SettlementImplements ==
  ASSUME "delay" \notin Faults
  PROVE  Spec => Implements
<1>1. IInv /\ [Next]_vars => IInv' /\ [Lifecycle!Next]_(Lifecycle!vars)
  BY NextOK DEF StepOK, Lifecycle!vars
<1>2. QED
  BY <1>1, InitOK, PTL DEF Spec, Implements, Lifecycle!Spec

-----------------------------------------------------------------------------
(***************************************************************************)
(* The drain gate.  Only pin_unavailable settles a job with running steps; *)
(* the gate must then see them, and none may become ready again.           *)
(***************************************************************************)
GateHolds == Pinned => "drain" \notin Faults /\ \A s \in Steps : StepRetries[s] = 0

NoneReady == \A s \in Steps : step[s] # "ready"
Passed == {"clear", "claim"}

(* A terminal job that was not cancelled has no step to start, and an      *)
(* advance that decided, or passed the gate, saw every step ended.         *)
Drained ==
  /\ job \in {"completed", "failed"} => NoneReady /\ (~Pinned => AllTerminal)
  /\ \A h \in Handlers :
       /\ handler[h].pc = "settle" => AllTerminal
       /\ handler[h].pc \in Passed /\ job # "cancelled" => AllTerminal
  /\ recorded => job \in Final
  /\ EffectsAfterLastStep

(* A step of the system as the drain gate sees it. *)
StepRowsMove ==
  /\ AllTerminal => AllTerminal'
  /\ job \in {"completed", "failed"} /\ NoneReady => NoneReady'

JobMove ==
  \/ job' = job
  \/ job \in Live /\ job' \notin {"completed", "failed"}
  \/ job \in Live /\ job' \in Final /\ AllTerminal'
  \/ job \in Live /\ job' \in Final /\ Pinned /\ NoneReady'

GateMove(h) ==
  /\ handler'[h].pc = "settle" => handler[h].pc = "settle" \/ AllTerminal'
  /\ handler'[h].pc \in Passed =>
       \/ handler[h].pc \in Passed
       \/ handler[h].pc = "drain" /\ UNCHANGED <<job, step>>
            /\ (~SomeRunning \/ "drain" \in Faults)

ClaimMove ==
  \/ recorded' = recorded
  \/ UNCHANGED <<job, step>> /\ \E h \in Handlers : handler[h].pc = "claim"

DrainMove == StepRowsMove /\ JobMove /\ ClaimMove /\ \A h \in Handlers : GateMove(h)

(* Such a step keeps the effects behind the last step. *)
LEMMA DrainedStep ==
  ASSUME IInv, IInv', Drained, GateHolds, DrainMove
  PROVE  Drained'
<1>1. /\ step \in [Steps -> Final \cup {"ready", "running"}]
      /\ job \in Live \cup Final /\ job' \in Live \cup Final /\ recorded \in BOOLEAN
  BY DEF IInv, TypeOK
<1>2. AllTerminal => NoneReady
  BY DEF AllTerminal, NoneReady, Final
<1>3. AllTerminal' => NoneReady'
  BY DEF AllTerminal, NoneReady, Final
<1>4. NoneReady /\ ~SomeRunning => AllTerminal
  BY <1>1 DEF NoneReady, SomeRunning, AllTerminal, Final
<1>5. UNCHANGED <<job, step>> => (AllTerminal <=> AllTerminal')
  BY DEF AllTerminal
<1>6. (job \in {"completed", "failed"} => NoneReady /\ (~Pinned => AllTerminal))'
  BY <1>1, <1>2, <1>3 DEF Drained, DrainMove, StepRowsMove, JobMove, Live, Final
<1>7. ASSUME NEW h \in Handlers
      PROVE  (handler[h].pc = "settle" => AllTerminal)'
  BY <1>7 DEF Drained, DrainMove, StepRowsMove, GateMove
<1>8. ASSUME NEW h \in Handlers, (handler[h].pc \in Passed /\ job # "cancelled")'
      PROVE  AllTerminal'
  <2>1. job' \in {"completed", "failed"}
    BY <1>8 DEF IInv, HandlersOK, HandlerOK, Zone, Passed, Final
  <2>2. CASE handler[h].pc \in Passed
    <3>1. job \in Final
      BY <2>2 DEF IInv, HandlersOK, HandlerOK, Zone, Passed
    <3>2. job' = job
      BY <3>1 DEF DrainMove, JobMove, Live, Final
    <3>3. QED
      BY <1>8, <2>2, <3>2 DEF Drained, DrainMove, StepRowsMove
  <2>3. CASE /\ handler[h].pc = "drain" /\ UNCHANGED <<job, step>>
             /\ ~SomeRunning \/ "drain" \in Faults
    <3>1. NoneReady /\ (~Pinned => AllTerminal)
      BY <2>1, <2>3 DEF Drained
    <3>2. AllTerminal
      BY <1>4, <2>3, <3>1 DEF GateHolds
    <3>3. QED
      BY <3>2 DEF DrainMove, StepRowsMove
  <2>4. QED
    BY <1>8, <2>2, <2>3 DEF DrainMove, GateMove
<1>9. (recorded => job \in Final)' /\ EffectsAfterLastStep'
  <2>1. SUFFICES ASSUME recorded' PROVE job' \in Final /\ (job' # "cancelled" => AllTerminal')
    BY DEF EffectsAfterLastStep
  <2>2. CASE recorded' = recorded
    <3>1. recorded /\ job \in Final /\ (job # "cancelled" => AllTerminal)
      BY <2>1, <2>2 DEF Drained, EffectsAfterLastStep
    <3>2. job' = job
      BY <3>1 DEF DrainMove, JobMove, Live, Final
    <3>3. QED
      BY <3>1, <3>2 DEF DrainMove, StepRowsMove
  <2>3. CASE UNCHANGED <<job, step>> /\ \E h \in Handlers : handler[h].pc = "claim"
    <3>1. PICK h \in Handlers : handler[h].pc = "claim"
      BY <2>3
    <3>2. job \in Final
      BY <3>1 DEF IInv, HandlersOK, HandlerOK, Zone
    <3>3. job # "cancelled" => AllTerminal
      BY <3>1 DEF Drained, Passed
    <3>4. QED
      BY <1>5, <2>3, <3>2, <3>3
  <2>4. QED
    BY <2>2, <2>3 DEF DrainMove, ClaimMove
<1>10. QED
  BY <1>6, <1>7, <1>8, <1>9 DEF Drained

(* One handler moves. *)
LEMMA OneGateMove ==
  ASSUME IInv, NEW h \in Handlers, NEW new,
         handler' = [handler EXCEPT ![h] = new], GateMove(h)
  PROVE  \A k \in Handlers : GateMove(k)
<1>1. \A k \in Handlers : k # h => handler'[k] = handler[k]
  BY DEF IInv, TypeOK
<1>2. QED
  BY <1>1 DEF GateMove

(* Rows that are left alone. *)
LEMMA StillRows == UNCHANGED step => StepRowsMove
BY DEF StepRowsMove, AllTerminal, NoneReady

(* A handler that ends, or goes to a place not behind the gate. *)
LEMMA ShortMove ==
  ASSUME IInv, NEW h \in Handlers, NEW new,
         handler' = [handler EXCEPT ![h] = new], new.pc \notin Passed \cup {"settle"},
         UNCHANGED recorded, StepRowsMove, JobMove
  PROVE  DrainMove
<1>1. handler'[h] = new
  BY DEF IInv, TypeOK
<1>2. GateMove(h)
  BY <1>1 DEF GateMove
<1>3. QED
  BY <1>2, OneGateMove DEF DrainMove, ClaimMove

(* The same for Goto and Return. *)
LEMMA ShortGoto ==
  ASSUME IInv, NEW h \in Handlers, UNCHANGED recorded, StepRowsMove, JobMove,
         Return(h) \/ \E pc \in Pcs : Goto(h, pc) /\ pc \notin Passed \cup {"settle"}
  PROVE  DrainMove
<1>1. CASE Return(h)
  BY <1>1, ShortMove DEF Return, Idle, Passed
<1>2. CASE \E pc \in Pcs : Goto(h, pc) /\ pc \notin Passed \cup {"settle"}
  <2>1. PICK pc \in Pcs : Goto(h, pc) /\ pc \notin Passed \cup {"settle"}
    BY <1>2
  <2> DEFINE new == [handler[h] EXCEPT !.pc = pc]
  <2>2. new.pc = pc /\ handler' = [handler EXCEPT ![h] = new]
    BY <2>1, GotoFields DEF Goto
  <2> HIDE DEF new
  <2>3. QED
    BY <2>1, <2>2, ShortMove
<1>3. QED
  BY <1>1, <1>2

(* The worker side. *)
LEMMA WorkerDrain ==
  ASSUME IInv, Drained, GateHolds, NEW s \in Steps,
         StartStep(s) \/ ReportStep(s) \/ KillStep(s)
  PROVE  DrainMove
<1>1. s \in Handlers /\ step \in [Steps -> Final \cup {"ready", "running"}]
      /\ attempt \in [Steps -> Nat]
  BY DEF IInv, TypeOK, Handlers
<1>2. CASE StartStep(s)
  <2>1. StepRowsMove
    BY <1>1, <1>2 DEF StartStep, StepRowsMove, AllTerminal, NoneReady, Final
  <2>2. JobMove
    BY <1>2 DEF StartStep, JobMove, Live
  <2>3. UNCHANGED <<handler, recorded>>
    BY <1>2 DEF StartStep
  <2>4. QED
    BY <2>1, <2>2, <2>3 DEF DrainMove, ClaimMove, GateMove
<1>3. CASE ReportStep(s) \/ KillStep(s)
  <2>1. /\ step[s] = "running" /\ UNCHANGED <<job, recorded>>
        /\ \/ /\ step' = [step EXCEPT ![s] = "completed"]
              /\ handler' = [handler EXCEPT ![s] = Advance(PollsAt[s])]
           \/ StepFailed(s)
    BY <1>3 DEF ReportStep, KillStep
  <2>2. ~AllTerminal /\ JobMove
    BY <2>1 DEF AllTerminal, Final, JobMove
  <2>3. ASSUME job \in {"completed", "failed"}
        PROVE  ~(attempt[s] < StepRetries[s])
    <3>1. Pinned
      BY <2>2, <2>3 DEF Drained
    <3>2. StepRetries[s] = 0
      BY <3>1 DEF GateHolds
    <3>3. QED
      BY <1>1, <3>2
  <2>4. StepRowsMove
    BY <1>1, <2>1, <2>2, <2>3 DEF StepFailed, StepRowsMove, NoneReady
  <2>5. handler' = handler \/ handler' = [handler EXCEPT ![s] = Advance(PollsAt[s])]
    BY <2>1 DEF StepFailed
  <2>6. Advance(PollsAt[s]).pc = "read"
    BY DEF Advance
  <2>7. CASE handler' = handler
    BY <2>1, <2>2, <2>4, <2>7 DEF DrainMove, ClaimMove, GateMove
  <2>8. CASE handler' = [handler EXCEPT ![s] = Advance(PollsAt[s])]
    BY <1>1, <2>1, <2>2, <2>4, <2>6, <2>8, ShortMove DEF Passed
  <2>9. QED
    BY <2>5, <2>7, <2>8
<1>4. QED
  BY <1>2, <1>3

(* advance up to the re-read. *)
LEMMA SettleDrain ==
  ASSUME IInv, Drained, NEW h \in Handlers, SettleStep(h)
  PROVE  DrainMove
<1> USE DEF stepVars, signalVars
<1>1. /\ step \in [Steps -> Final \cup {"ready", "running"}]
      /\ handler[h] \in Handler /\ handler \in [Handlers -> Handler]
  BY DEF IInv, TypeOK
<1>2. UNCHANGED job => JobMove
  BY DEF JobMove
<1>3. CASE ReadJob(h)
  <2> DEFINE new == [handler[h] EXCEPT !.pc = "resolve", !.seen = job]
  <2>1. new.pc = "resolve" /\ handler' = [handler EXCEPT ![h] = new]
    BY <1>1, <1>3 DEF ReadJob, Handler
  <2> HIDE DEF new
  <2>2. QED
    BY <1>2, <1>3, <2>1, StillRows, ShortMove DEF ReadJob, Passed
<1>4. CASE ResolveOk(h)
  <2> DEFINE pc == IF handler[h].seen \in Live THEN "decide" ELSE "reread"
             new == [handler[h] EXCEPT !.flow = TRUE, !.pc = pc]
  <2>1. new.pc \in {"decide", "reread"} /\ handler' = [handler EXCEPT ![h] = new]
    BY <1>1, <1>4 DEF ResolveOk, Handler
  <2> HIDE DEF new
  <2>2. QED
    BY <1>2, <1>4, <2>1, StillRows, ShortMove DEF ResolveOk, Passed
<1>5. CASE ResolveNone(h)
  BY <1>2, <1>5, StillRows, ShortGoto DEF ResolveNone, Passed, Pcs
<1>6. CASE PinUnavailable(h)
  <2>1. CASE handler[h].seen \in Live /\ job \in Live
    <3>1. step' = CancelUnclaimed /\ job' = "failed" /\ Pinned
      BY <1>6, <2>1 DEF PinUnavailable
    <3>2. NoneReady' /\ (AllTerminal => AllTerminal')
      BY <1>1, <3>1 DEF NoneReady, AllTerminal, CancelUnclaimed, Final
    <3>3. StepRowsMove /\ JobMove
      BY <2>1, <3>1, <3>2 DEF StepRowsMove, JobMove, Live, Final
    <3>4. QED
      BY <1>6, <3>3, ShortGoto DEF PinUnavailable, Passed, Pcs
  <2>2. CASE ~(handler[h].seen \in Live /\ job \in Live)
    BY <1>2, <1>6, <2>2, StillRows, ShortGoto DEF PinUnavailable, Passed, Pcs
  <2>3. QED
    BY <2>1, <2>2
<1>7. CASE Decide(h)
  <2>1. CASE AllTerminal
    <3> DEFINE new == [handler[h] EXCEPT !.pc = "settle", !.seen = Outcome]
    <3>1. /\ new.pc = "settle" /\ handler' = [handler EXCEPT ![h] = new]
          /\ UNCHANGED <<job, step, recorded>>
      BY <1>1, <1>7, <2>1 DEF Decide, Handler
    <3> HIDE DEF new
    <3>2. handler'[h] = new /\ AllTerminal'
      BY <1>1, <2>1, <3>1 DEF AllTerminal
    <3>3. GateMove(h)
      BY <3>1, <3>2 DEF GateMove, Passed
    <3>4. QED
      BY <1>2, <3>1, <3>3, StillRows, OneGateMove DEF DrainMove, ClaimMove
  <2>2. CASE ~AllTerminal
    BY <1>2, <1>7, <2>2, StillRows, ShortGoto DEF Decide, Passed, Pcs
  <2>3. QED
    BY <2>1, <2>2
<1>8. CASE SettleJob(h)
  <2>1. handler[h].seen \in Final /\ AllTerminal
    BY <1>8 DEF SettleJob, At, IInv, HandlersOK, HandlerOK, Drained
  <2>2. UNCHANGED step /\ job' = (IF job \in Live THEN handler[h].seen ELSE job)
    BY <1>8 DEF SettleJob
  <2>3. AllTerminal'
    BY <2>1, <2>2 DEF AllTerminal
  <2>4. JobMove
    BY <2>1, <2>2, <2>3 DEF JobMove
  <2>5. QED
    BY <1>8, <2>2, <2>4, StillRows, ShortGoto DEF SettleJob, Passed, Pcs
<1>9. CASE RereadJob(h)
  <2>1. CASE job \in Live
    BY <1>2, <1>9, <2>1, StillRows, ShortGoto DEF RereadJob
  <2>2. CASE job \notin Live
    <3> DEFINE new == [handler[h] EXCEPT !.pc = "drain", !.seen = job]
    <3>1. new.pc = "drain" /\ handler' = [handler EXCEPT ![h] = new]
      BY <1>1, <1>9, <2>2 DEF RereadJob, Handler
    <3> HIDE DEF new
    <3>2. QED
      BY <1>2, <1>9, <3>1, StillRows, ShortMove DEF RereadJob, Passed
  <2>3. QED
    BY <2>1, <2>2
<1>10. CASE RequestErrs(h)
  BY <1>2, <1>10, StillRows, ShortGoto DEF RequestErrs
<1>11. QED
  BY <1>3, <1>4, <1>5, <1>6, <1>7, <1>8, <1>9, <1>10 DEF SettleStep

(* The drain gate to the archive. *)
LEMMA TerminalDrain ==
  ASSUME IInv, NEW h \in Handlers, TerminalStep(h)
  PROVE  DrainMove
<1> USE DEF stepVars, signalVars
<1>1. handler[h] \in Handler /\ handler \in [Handlers -> Handler]
  BY DEF IInv, TypeOK
<1>2. UNCHANGED <<job, step>>
  BY DEF TerminalStep, DrainGate, ClearCancelled, ClaimTerminal, ClaimErrs, Propagate,
         CreateRetryJob, RetryErrs, DelayRetry, FireHooks, Archive
<1>3. StepRowsMove /\ JobMove
  BY <1>2, StillRows DEF JobMove
<1>4. ASSUME NEW pc \in Pcs, Goto(h, pc), UNCHANGED recorded, pc \in Passed,
             \/ handler[h].pc \in Passed
             \/ handler[h].pc = "drain" /\ (~SomeRunning \/ "drain" \in Faults)
      PROVE  DrainMove
  <2> DEFINE new == [handler[h] EXCEPT !.pc = pc]
  <2>1. new.pc = pc /\ handler' = [handler EXCEPT ![h] = new]
    BY <1>4, GotoFields DEF Goto
  <2> HIDE DEF new
  <2>2. handler'[h] = new
    BY <1>1, <2>1
  <2>3. GateMove(h)
    BY <1>2, <1>4, <2>1, <2>2 DEF GateMove, Passed
  <2>4. QED
    BY <1>3, <1>4, <2>1, <2>3, OneGateMove DEF DrainMove, ClaimMove
<1>5. CASE DrainGate(h)
  BY <1>3, <1>4, <1>5, ShortGoto DEF DrainGate, At, Passed, Pcs
<1>6. CASE ClearCancelled(h)
  BY <1>4, <1>6 DEF ClearCancelled, At, Passed, Pcs
<1>7. CASE ClaimTerminal(h)
  <2> DEFINE new == IF recorded THEN Idle
                    ELSE IF IsChild THEN [handler[h] EXCEPT !.pc = "propagate"]
                    ELSE AfterPropagate(handler[h])
  <2>1. handler' = [handler EXCEPT ![h] = new] /\ handler[h].pc = "claim"
    BY <1>1, <1>7 DEF ClaimTerminal, At
  <2>2. handler'[h].pc \in {"idle", "propagate", "retry", "hooks"}
    <3>1. handler'[h] = new
      BY <1>1, <2>1
    <3>2. Idle.pc = "idle" /\ [handler[h] EXCEPT !.pc = "propagate"].pc = "propagate"
      BY <1>1 DEF Idle, Handler
    <3>3. AfterPropagate(handler[h]).pc \in {"idle", "retry", "hooks"}
      BY AfterPropagateFields
    <3>4. QED
      BY <3>1, <3>2, <3>3
  <2> HIDE DEF new
  <2>3. GateMove(h)
    BY <2>2 DEF GateMove, Passed
  <2>4. QED
    BY <1>2, <1>3, <2>1, <2>3, OneGateMove DEF DrainMove, ClaimMove
<1>8. CASE ClaimErrs(h) \/ Archive(h)
  BY <1>3, <1>8, ShortGoto DEF ClaimErrs, Archive
<1>9. CASE Propagate(h)
  <2>1. AfterPropagate(handler[h]).pc \in {"idle", "retry", "hooks"}
    BY AfterPropagateFields
  <2>2. handler' = [handler EXCEPT ![h] = AfterPropagate(handler[h])] /\ UNCHANGED recorded
    BY <1>1, <1>9 DEF Propagate
  <2>3. QED
    BY <1>3, <2>1, <2>2, ShortMove DEF Passed
<1>10. CASE CreateRetryJob(h) \/ RetryErrs(h) \/ DelayRetry(h) \/ FireHooks(h)
  BY <1>3, <1>10, ShortGoto DEF CreateRetryJob, RetryErrs, DelayRetry, FireHooks, Passed, Pcs
<1>11. QED
  BY <1>5, <1>6, <1>7, <1>8, <1>9, <1>10 DEF TerminalStep

(* Cancels, notifications, sweeps and crashes. *)
LEMMA OtherDrain ==
  ASSUME IInv,
         \/ \E h \in Handlers : CancelStep(h)
         \/ \E r \in Replicas : \/ CancelJob(r) \/ DeliverNotice(r) \/ LoseNotice(r)
                                \/ ReadvanceStalled(r) \/ Crash(r)
  PROVE  DrainMove
<1> USE DEF stepVars, signalVars
<1>1. /\ step \in [Steps -> Final \cup {"ready", "running"}]
      /\ handler \in [Handlers -> Handler]
      /\ Canceller \in Handlers /\ Sweeper \in Handlers
  BY DEF IInv, TypeOK, Handlers
<1>2. UNCHANGED job => JobMove
  BY DEF JobMove
<1>3. ASSUME NEW h \in Handlers, CancelStep(h)
      PROVE  DrainMove
  <2>1. StepRowsMove
    <3>1. CASE CancelPendingSteps(h)
      BY <1>1, <3>1 DEF CancelPendingSteps, CancelUnclaimed, StepRowsMove, AllTerminal,
                        NoneReady, Final
    <3>2. CASE ReadRunning(h) \/ SignalWorkers(h)
      BY <3>2, StillRows DEF ReadRunning, SignalWorkers
    <3>3. QED
      BY <1>3, <3>1, <3>2 DEF CancelStep
  <2>2. UNCHANGED <<job, recorded>>
    BY <1>3 DEF CancelStep, CancelPendingSteps, ReadRunning, SignalWorkers
  <2>3. \E pc \in Pcs : Goto(h, pc) /\ pc \notin Passed \cup {"settle"}
    BY <1>3 DEF CancelStep, CancelPendingSteps, ReadRunning, SignalWorkers, Pcs, Passed
  <2>4. QED
    BY <1>2, <2>1, <2>2, <2>3, ShortGoto
<1>4. ASSUME NEW r \in Replicas, CancelJob(r)
      PROVE  DrainMove
  <2> DEFINE new == [Idle EXCEPT !.pc = "stamped", !.at = r]
  <2>1. new.pc = "stamped"
    BY DEF Idle
  <2>2. /\ handler' = [handler EXCEPT ![Canceller] = new] /\ UNCHANGED <<step, recorded>>
        /\ job \in Live /\ job' = "cancelled"
    BY <1>4 DEF CancelJob
  <2> HIDE DEF new
  <2>3. JobMove
    BY <2>2 DEF JobMove
  <2>4. QED
    BY <1>1, <2>1, <2>2, <2>3, StillRows, ShortMove DEF Passed
<1>5. ASSUME NEW r \in Replicas, DeliverNotice(r) \/ LoseNotice(r)
      PROVE  DrainMove
  <2>1. UNCHANGED <<job, step, recorded, handler>>
    BY <1>5 DEF DeliverNotice, LoseNotice
  <2>2. QED
    BY <1>2, <2>1, StillRows DEF DrainMove, ClaimMove, GateMove
<1>6. ASSUME NEW r \in Replicas, ReadvanceStalled(r)
      PROVE  DrainMove
  <2>1. Advance(r).pc = "read"
    BY DEF Advance
  <2>2. /\ handler' = [handler EXCEPT ![Sweeper] = Advance(r)]
        /\ UNCHANGED <<job, step, recorded>>
    BY <1>6 DEF ReadvanceStalled
  <2>3. QED
    BY <1>1, <1>2, <2>1, <2>2, StillRows, ShortMove DEF Passed
<1>7. ASSUME NEW r \in Replicas, Crash(r)
      PROVE  DrainMove
  <2>1. UNCHANGED <<job, step, recorded>>
        /\ \A h \in Handlers : handler'[h] = Idle \/ handler'[h] = handler[h]
    BY <1>7 DEF Crash
  <2>2. \A h \in Handlers : GateMove(h)
    BY <2>1 DEF GateMove, Idle, Passed
  <2>3. QED
    BY <1>2, <2>1, <2>2, StillRows DEF DrainMove, ClaimMove
<1>8. QED
  BY <1>3, <1>4, <1>5, <1>6, <1>7

(* The effects of a job that was not cancelled come after its last step,   *)
(* for any number of advances and replicas: always for a job without a     *)
(* git_ref, and for a pinned one if has_live_steps does not fail (drained  *)
(* fails open) and its steps have no retries (a step that is to be retried *)
(* is not running, and the gate does not wait for it).                     *)
THEOREM EffectsAreLast ==
  ASSUME "delay" \notin Faults, GateHolds
  PROVE  Spec => []EffectsAfterLastStep
<1>1. Init => IInv /\ Drained
  <2>1. SUFFICES ASSUME Init PROVE Drained
    BY InitOK
  <2>2. job = "pending" /\ recorded = FALSE /\ \A h \in Handlers : handler[h].pc = "idle"
    BY <2>1 DEF Init, Idle
  <2>3. QED
    BY <2>2 DEF Drained, EffectsAfterLastStep, Passed
<1>2. IInv /\ Drained /\ [Next]_vars => IInv' /\ Drained'
  <2>1. SUFFICES ASSUME IInv, Drained, [Next]_vars PROVE IInv' /\ Drained'
    OBVIOUS
  <2>2. IInv'
    BY <2>1, NextOK DEF StepOK
  <2>3. CASE UNCHANGED vars
    <3>1. UNCHANGED <<job, step, recorded, handler>>
      BY <2>3 DEF vars
    <3>2. DrainMove
      BY <3>1, StillRows DEF DrainMove, JobMove, ClaimMove, GateMove
    <3>3. QED
      BY <2>1, <2>2, <3>2, DrainedStep
  <2>4. CASE Next
    <3>1. DrainMove
      BY <2>1, <2>4, WorkerDrain, SettleDrain, TerminalDrain, OtherDrain DEF Next, HandlerStep
    <3>2. QED
      BY <2>1, <2>2, <3>1, DrainedStep
  <2>5. QED
    BY <2>1, <2>3, <2>4
<1>3. Drained => EffectsAfterLastStep
  BY DEF Drained
<1>4. QED
  BY <1>1, <1>2, <1>3, PTL DEF Spec
=============================================================================
