-------------------------- MODULE TaskTree_proofs ---------------------------
(***************************************************************************)
(* Proofs about TaskTree, for any task steps, any number of concurrent     *)
(* advances, any retry limits and any number of timeouts and crashes.      *)
(***************************************************************************)
EXTENDS TaskTree, TLAPS

(* A dispatcher that won the claim of s and has not created the child yet. *)
Creating(d) == dispatcher[d].pc = "create"

(* A dispatcher that claimed c's terminal handling and has not told yet.   *)
Telling(d, c) == dispatcher[d].pc = "tell" /\ c \in dispatcher[d].kids

(* A claim is made for an attempt the step has reached, and a child's      *)
(* attempt is one.                                                         *)
TriesReached ==
  /\ \A d \in Dispatchers :
       /\ dispatcher[d].pc \in {"claim", "create"} => dispatcher[d].at \in Steps
       /\ Creating(d) => dispatcher[d].try <= step[dispatcher[d].at].attempt
  /\ \A c \in Children : Made(c) => TryOf(c) <= step[StepOf(c)].attempt

(* While a step is ready nobody has claimed its current attempt.           *)
ReadyIsUnclaimed ==
  \A s \in Steps : step[s].status = "ready" =>
    /\ \A d \in Dispatchers :
         Creating(d) /\ dispatcher[d].at = s => dispatcher[d].try # step[s].attempt
    /\ \A c \in Children : Made(c) /\ StepOf(c) = s => TryOf(c) # step[s].attempt

(* An attempt has one claim: it is held by one dispatcher, or spent on the *)
(* child.                                                                  *)
OneClaimPerAttempt ==
  /\ \A d, e \in Dispatchers :
       Creating(d) /\ Creating(e) /\ dispatcher[d].at = dispatcher[e].at
                   /\ dispatcher[d].try = dispatcher[e].try => d = e
  /\ \A d \in Dispatchers, c \in Children :
       ~(Creating(d) /\ Made(c) /\ StepOf(c) = dispatcher[d].at
         /\ TryOf(c) = dispatcher[d].try)
  /\ OneChildPerAttempt

(* What ChildAtStamp says of a child holds of the claim already.           *)
ClaimAtStamp ==
  \A d \in Dispatchers : LET now == step[dispatcher[d].at] IN
    Creating(d) /\ (dispatcher[d].try = now.attempt \/ dispatcher[d].pin # "none")
      => dispatcher[d].pin = now.stamp

(* Nothing but a timeout retries a step.                                   *)
FirstAttempt == \A s \in Steps : InTime(s) => step[s].attempt = 0

(* Nobody is about to start a child of a failed step.                      *)
FailedIsUnclaimed ==
  \A s \in Steps : step[s].status = "failed" /\ InTime(s) =>
    \A d \in Dispatchers : ~(Creating(d) /\ dispatcher[d].at = s)

(* A child exists once it has a pin.                                       *)
MadeHasPin ==
  \A c \in Children : IF Made(c) THEN child[c].pin # "none" ELSE child[c] = NoChild

(* The claim of a child's terminal handling is a license to tell, used by  *)
(* whoever holds it and at most once.                                      *)
TellsHoldClaim ==
  /\ \A d \in Dispatchers, c \in Children :
       Telling(d, c) => child[c].recorded /\ Over(c) /\ told[c] = 0
  /\ \A d, e \in Dispatchers : \A c \in Children : Telling(d, c) /\ Telling(e, c) => d = e
  /\ \A c \in Children : ~child[c].recorded => told[c] = 0

(* The inductive invariant. *)
ClaimsOK ==
  /\ TriesReached /\ ReadyIsUnclaimed /\ OneClaimPerAttempt
  /\ ClaimAtStamp /\ ChildAtStamp /\ FirstAttempt /\ FailedIsUnclaimed
  /\ LoserCannotFail /\ MadeHasPin
IInv == TypeOK /\ ClaimsOK /\ TellsHoldClaim

-----------------------------------------------------------------------------
(***************************************************************************)
(* Types                                                                   *)
(***************************************************************************)

StepType == [status : Final \cup {"ready", "running"}, stamp : Stamps, attempt : Nat]
ChildType == [pin : Commits \cup {"none", "live"}, status : Live \cup Final \cup {"none"},
              busy : BOOLEAN, adv : BOOLEAN, recorded : BOOLEAN]
DispatcherType == [pc : {"idle", "pass", "claim", "create", "tell", "settle"},
                   seen : [Steps -> Stamps \cup {"unseen"}], at : Steps \cup {NoStep},
                   pin : Stamps, try : Nat, kids : SUBSET Children]
CancelType == [pc : {"idle", "steps", "managed", "list", "kids", "done"},
               kids : SUBSET Children]

(* The fields of a dispatcher that begins, goes on with or leaves a pass.  *)
LEMMA DispatcherStates ==
  ASSUME NEW sn \in [Steps -> Stamps \cup {"unseen"}]
  PROVE  /\ IdleDispatcher \in DispatcherType
         /\ [IdleDispatcher EXCEPT !.pc = "pass", !.seen = sn] \in DispatcherType
         /\ [IdleDispatcher EXCEPT !.pc = "pass", !.seen = sn].pc = "pass"
         /\ IdleDispatcher.pc = "idle"
BY DEF DispatcherType, IdleDispatcher, Unseen, Stamps, NoStep

(* What Take, Skip, NextStep and Goto do to the dispatchers.               *)
LEMMA TakeEffect ==
  ASSUME dispatcher \in [Dispatchers -> DispatcherType], NEW d \in Dispatchers,
         NEW s \in Steps, NEW p \in Stamps, Take(d, s, p)
  PROVE  /\ dispatcher' \in [Dispatchers -> DispatcherType]
         /\ dispatcher'[d].pc = "claim" /\ dispatcher'[d].at = s /\ dispatcher'[d].pin = p
         /\ \A e \in Dispatchers \ {d} : dispatcher'[e] = dispatcher[e]
<1> DEFINE x == [dispatcher[d] EXCEPT !.pc = "claim", !.at = s, !.pin = p,
                                      !.seen = [dispatcher[d].seen EXCEPT ![s] = "unseen"]]
<1>1. dispatcher' = [dispatcher EXCEPT ![d] = x]
  BY DEF Take
<1>2. dispatcher[d] \in DispatcherType
  OBVIOUS
<1>3. [dispatcher[d].seen EXCEPT ![s] = "unseen"] \in [Steps -> Stamps \cup {"unseen"}]
  BY <1>2 DEF DispatcherType
<1>4. x \in DispatcherType /\ x.pc = "claim" /\ x.at = s /\ x.pin = p
  BY <1>2, <1>3 DEF DispatcherType
<1>5. QED
  BY <1>1, <1>4

(* A dispatcher that passes over a step keeps its place and its type. *)
LEMMA SkipEffect ==
  ASSUME dispatcher \in [Dispatchers -> DispatcherType], NEW d \in Dispatchers,
         NEW s \in Steps, Skip(d, s)
  PROVE  /\ dispatcher' \in [Dispatchers -> DispatcherType]
         /\ dispatcher'[d].pc = dispatcher[d].pc
         /\ dispatcher'[d].at = dispatcher[d].at
         /\ \A e \in Dispatchers \ {d} : dispatcher'[e] = dispatcher[e]
BY DEF Skip, DispatcherType

(* A dispatcher that won a claim goes on to create with the stamp it won. *)
LEMMA WinEffect ==
  ASSUME dispatcher \in [Dispatchers -> DispatcherType], NEW d \in Dispatchers,
         NEW n \in Nat,
         dispatcher' = [dispatcher EXCEPT ![d].pc = "create", ![d].try = n]
  PROVE  /\ dispatcher' \in [Dispatchers -> DispatcherType]
         /\ dispatcher'[d].pc = "create" /\ dispatcher'[d].try = n
         /\ dispatcher'[d].at = dispatcher[d].at /\ dispatcher'[d].pin = dispatcher[d].pin
         /\ \A e \in Dispatchers \ {d} : dispatcher'[e] = dispatcher[e]
BY DEF DispatcherType

(* A dispatcher that lists ended children keeps its type. *)
LEMMA KidsEffect ==
  ASSUME dispatcher \in [Dispatchers -> DispatcherType], NEW d \in Dispatchers,
         NEW k \in SUBSET Children, NEW q \in {"tell", "pass"},
         dispatcher' = [dispatcher EXCEPT ![d].pc = q, ![d].kids = k]
  PROVE  /\ dispatcher' \in [Dispatchers -> DispatcherType]
         /\ dispatcher'[d].pc = q /\ dispatcher'[d].kids = k
         /\ \A e \in Dispatchers \ {d} : dispatcher'[e] = dispatcher[e]
BY DEF DispatcherType

(* After a step the dispatcher is back in its pass. *)
LEMMA NextStepEffect ==
  ASSUME dispatcher \in [Dispatchers -> DispatcherType], NEW d \in Dispatchers, NextStep(d)
  PROVE  /\ dispatcher' \in [Dispatchers -> DispatcherType]
         /\ dispatcher'[d].pc = "pass"
         /\ \A e \in Dispatchers \ {d} : dispatcher'[e] = dispatcher[e]
<1>1. dispatcher[d].seen \in [Steps -> Stamps \cup {"unseen"}]
  BY DEF DispatcherType
<1>2. QED
  BY <1>1, DispatcherStates DEF NextStep

(* A dispatcher that ends its pass goes to settle. *)
LEMMA GotoEffect ==
  ASSUME dispatcher \in [Dispatchers -> DispatcherType], NEW d \in Dispatchers,
         Goto(d, "settle")
  PROVE  /\ dispatcher' \in [Dispatchers -> DispatcherType]
         /\ dispatcher'[d].pc = "settle"
         /\ \A e \in Dispatchers \ {d} : dispatcher'[e] = dispatcher[e]
BY DEF Goto, DispatcherType

(* The parts of TypeOK. *)
LEMMA TypeParts ==
  TypeOK <=>
    /\ job \in Live \cup Final
    /\ step \in [Steps -> StepType]
    /\ \A s \in Steps : step[s].attempt <= StepRetries[s]
    /\ child \in [Children -> ChildType]
    /\ told \in [Children -> Nat]
    /\ dispatcher \in [Dispatchers -> DispatcherType]
    /\ cancel \in CancelType
    /\ advances \in 0..MaxAdvances /\ faults \in 0..MaxFaults /\ crashed \in BOOLEAN
BY DEF TypeOK, StepType, ChildType, DispatcherType, CancelType

(* Init gives every variable a value of its type.                          *)
LEMMA TypeInit == Init => TypeOK
<1> SUFFICES ASSUME Init PROVE TypeOK
  OBVIOUS
<1>1. [status |-> "ready", stamp |-> "none", attempt |-> 0] \in StepType
  BY DEF StepType, Stamps
<1>2. step \in [Steps -> StepType] /\ \A s \in Steps : step[s].attempt = 0
  BY <1>1 DEF Init
<1>3. NoChild \in ChildType
  BY DEF NoChild, ChildType
<1>4. IdleDispatcher \in DispatcherType
  BY DEF IdleDispatcher, DispatcherType, Unseen, Stamps, NoStep
<1>5. cancel \in CancelType
  BY DEF Init, CancelType
<1>6. \A s \in Steps : step[s].attempt <= StepRetries[s]
  BY <1>2, TreeAssumption
<1>7. child \in [Children -> ChildType] /\ told \in [Children -> Nat]
  BY <1>3 DEF Init
<1>8. dispatcher \in [Dispatchers -> DispatcherType]
  BY <1>4 DEF Init
<1>9. /\ advances \in 0..MaxAdvances /\ faults \in 0..MaxFaults
      /\ crashed \in BOOLEAN
  <2>1. MaxAdvances \in Nat /\ MaxFaults \in Nat
    BY TreeAssumption
  <2>2. advances = 0 /\ faults = 0 /\ crashed = FALSE
    BY DEF Init
  <2>3. advances \in 0..MaxAdvances /\ faults \in 0..MaxFaults
    BY <2>1, <2>2
  <2>4. crashed \in BOOLEAN
    BY <2>2
  <2>5. QED
    BY <2>3, <2>4
<1>10. job \in Live \cup Final
  BY DEF Init, Live
<1>11. QED
  BY <1>2, <1>5, <1>6, <1>7, <1>8, <1>9, <1>10, TypeParts

(* What a child's outcome leaves of the step rows: columns but the status  *)
(* stay, only the child's own step moves, and it does not become ready.    *)
LEMMA ToldEffect ==
  ASSUME TypeOK, NEW c \in Children, Over(c), step' = Told(c)
  PROVE  /\ step' \in [Steps -> StepType]
         /\ \A s \in Steps :
              /\ step'[s].stamp = step[s].stamp /\ step'[s].attempt = step[s].attempt
              /\ step'[s].status = "ready" => step[s].status = "ready"
              /\ step'[s].status # step[s].status => s = StepOf(c)
         /\ step'[StepOf(c)].status = "failed" =>
              child[c].status = "failed" \/ step[StepOf(c)].status = "failed"
<1> DEFINE k == StepOf(c)
<1>1. k \in Steps /\ child[c].status \in Final /\ step \in [Steps -> StepType]
  BY TypeParts DEF Children, StepOf, Over
<1>2. PICK x \in Final \cup {"ready", "running"} :
        /\ step' = [step EXCEPT ![k].status = x]
        /\ x = "ready" => step[k].status = "ready"
        /\ x = "failed" => child[c].status = "failed" \/ step[k].status = "failed"
  <2>1. CASE child[c].status = "cancelled"
    <3>1. step' = [step EXCEPT ![k].status = IF step[k].status = "running"
                                             THEN "cancelled" ELSE step[k].status]
      BY <2>1 DEF Told
    <3>2. QED
      BY <3>1, <1>1 DEF StepType, Final
  <2>2. CASE child[c].status # "cancelled"
    BY <2>2, <1>1 DEF Told, Final
  <2>3. QED
    BY <2>1, <2>2
<1>3. QED
  BY <1>1, <1>2 DEF StepType

(* What the steps of a child do to its row: its pin stays, an end stays,   *)
(* and so does the claim of its terminal handling.                         *)
LEMMA ChildEffect ==
  ASSUME TypeOK, NEW c \in Children,
         \/ ChildStarts(c) \/ ChildEnds(c) \/ ClaimChild(c) \/ CrashAdvance(c)
         \/ CancelChild(c) \/ child' = [child EXCEPT ![c].recorded = TRUE]
  PROVE  /\ child' \in [Children -> ChildType]
         /\ \A k \in Children \ {c} : child'[k] = child[k]
         /\ child'[c].pin = child[c].pin
         /\ child[c].recorded => child'[c].recorded
         /\ child[c].status \in Final => child'[c].status = child[c].status
         /\ child'[c].status \in Live => child[c].status \in Live
         /\ child'[c].status = "none" <=> child[c].status = "none"
<1>1. child \in [Children -> ChildType] /\ child[c] \in ChildType
  BY TypeParts
<1> DEFINE Follows(x) ==
      /\ x \in ChildType /\ x.pin = child[c].pin
      /\ child[c].recorded => x.recorded
      /\ child[c].status \in Final => x.status = child[c].status
      /\ x.status \in Live => child[c].status \in Live
      /\ x.status = "none" <=> child[c].status = "none"
<1>2. \E x : child' = [child EXCEPT ![c] = x] /\ Follows(x)
  <2>1. CASE ChildStarts(c)
    <3> DEFINE x == [child[c] EXCEPT !.status = "running", !.busy = TRUE]
    <3>1. child' = [child EXCEPT ![c] = x]
      BY <2>1 DEF ChildStarts
    <3>2. Follows(x)
      BY <1>1, <2>1 DEF ChildStarts, ChildType, Live, Final
    <3>3. QED
      BY <3>1, <3>2
  <2>2. CASE ChildEnds(c)
    <3>1. PICK o \in {"completed", "failed"} :
            child' = [child EXCEPT ![c].busy = FALSE, ![c].adv = TRUE,
                                   ![c].status = IF @ = "running" THEN o ELSE @]
      BY <2>2 DEF ChildEnds
    <3> DEFINE st == IF child[c].status = "running" THEN o ELSE child[c].status
               x == [child[c] EXCEPT !.busy = FALSE, !.adv = TRUE, !.status = st]
    <3>2. child' = [child EXCEPT ![c] = x]
      BY <3>1
    <3>3. Follows(x)
      BY <1>1 DEF ChildType, Live, Final
    <3>4. QED
      BY <3>2, <3>3
  <2>3. CASE ClaimChild(c)
    <3> DEFINE x == [child[c] EXCEPT !.adv = FALSE,
                                     !.recorded = child[c].recorded \/ ~child[c].busy]
    <3>1. child' = [child EXCEPT ![c] = x]
      BY <2>3 DEF ClaimChild
    <3>2. Follows(x)
      BY <1>1 DEF ChildType
    <3>3. QED
      BY <3>1, <3>2
  <2>4. CASE CrashAdvance(c)
    <3>1. PICK claimed \in BOOLEAN :
            child' = [child EXCEPT ![c].adv = FALSE,
                                   ![c].recorded = @ \/ (claimed /\ Over(c) /\ ~child[c].busy)]
      BY <2>4 DEF CrashAdvance
    <3> DEFINE r == child[c].recorded \/ (claimed /\ Over(c) /\ ~child[c].busy)
               x == [child[c] EXCEPT !.adv = FALSE, !.recorded = r]
    <3>2. child' = [child EXCEPT ![c] = x]
      BY <3>1
    <3>3. Follows(x)
      BY <1>1 DEF ChildType
    <3>4. QED
      BY <3>2, <3>3
  <2>5. CASE CancelChild(c)
    <3>1. CASE child[c].status \in Live
      <4> DEFINE x == [child[c] EXCEPT !.status = "cancelled", !.adv = TRUE]
      <4>1. child' = [child EXCEPT ![c] = x]
        BY <2>5, <3>1 DEF CancelChild
      <4>2. Follows(x)
        BY <1>1, <3>1 DEF ChildType, Live, Final
      <4>3. QED
        BY <4>1, <4>2
    <3>2. CASE child[c].status \notin Live
      <4>1. child' = [child EXCEPT ![c] = child[c]]
        BY <1>1, <2>5, <3>2 DEF CancelChild
      <4>2. QED
        BY <1>1, <4>1
    <3>3. QED
      BY <3>1, <3>2
  <2>6. CASE child' = [child EXCEPT ![c].recorded = TRUE]
    <3> DEFINE x == [child[c] EXCEPT !.recorded = TRUE]
    <3>1. child' = [child EXCEPT ![c] = x]
      BY <2>6
    <3>2. Follows(x)
      BY <1>1 DEF ChildType
    <3>3. QED
      BY <3>1, <3>2
  <2>7. QED
    BY <2>1, <2>2, <2>3, <2>4, <2>5, <2>6
<1>3. PICK x : child' = [child EXCEPT ![c] = x] /\ Follows(x)
  BY <1>2
<1>4. QED
  BY <1>1, <1>3

(* What a timeout does to the step: a new attempt, or the end.             *)
LEMMA TimeOutEffect ==
  ASSUME TypeOK, NEW s \in Steps, TimeOut(s)
  PROVE  /\ step' \in [Steps -> StepType]
         /\ \A t \in Steps \ {s} : step'[t] = step[t]
         /\ step'[s].stamp = step[s].stamp
         /\ \/ /\ step'[s].status = "ready" /\ step'[s].attempt = step[s].attempt + 1
               /\ step'[s].attempt <= StepRetries[s]
            \/ /\ step'[s].status = "failed" /\ step'[s].attempt = step[s].attempt
               /\ StepRetries[s] <= step[s].attempt
<1>1. step \in [Steps -> StepType] /\ step[s] \in StepType /\ StepRetries[s] \in Nat
  BY TypeParts, TreeAssumption
<1>2. CASE step[s].attempt < StepRetries[s]
  <2> DEFINE n == step[s].attempt + 1
             x == [step[s] EXCEPT !.status = "ready", !.attempt = n]
  <2>1. step' = [step EXCEPT ![s] = x]
    BY <1>2 DEF TimeOut
  <2>2. n \in Nat /\ n <= StepRetries[s]
    BY <1>1, <1>2 DEF StepType
  <2> HIDE DEF n
  <2>3. /\ x \in StepType /\ x.stamp = step[s].stamp /\ x.status = "ready"
        /\ x.attempt = n
    BY <1>1, <2>2 DEF StepType
  <2>4. QED
    BY <1>1, <2>1, <2>2, <2>3 DEF n
<1>3. CASE ~(step[s].attempt < StepRetries[s])
  <2> DEFINE x == [step[s] EXCEPT !.status = "failed"]
  <2>1. step' = [step EXCEPT ![s] = x]
    BY <1>3 DEF TimeOut
  <2>2. /\ x \in StepType /\ x.stamp = step[s].stamp /\ x.status = "failed"
        /\ x.attempt = step[s].attempt /\ StepRetries[s] <= step[s].attempt
    BY <1>1, <1>3 DEF StepType, Final
  <2>3. QED
    BY <1>1, <2>1, <2>2
<1>4. QED
  BY <1>2, <1>3

(* Every step keeps the types.                                             *)
LEMMA TypeStep == IInv /\ [Next]_vars => TypeOK'
<1> SUFFICES ASSUME TypeOK, TriesReached, TellsHoldClaim, [Next]_vars PROVE TypeOK'
  BY DEF IInv, ClaimsOK
<1> USE TreeAssumption
<1>0. /\ job \in Live \cup Final
      /\ step \in [Steps -> StepType]
      /\ \A s \in Steps : step[s].attempt <= StepRetries[s]
      /\ child \in [Children -> ChildType]
      /\ told \in [Children -> Nat]
      /\ dispatcher \in [Dispatchers -> DispatcherType]
      /\ cancel \in CancelType
      /\ advances \in 0..MaxAdvances /\ faults \in 0..MaxFaults /\ crashed \in BOOLEAN
  BY TypeParts
<1>t. /\ job' \in Live \cup Final
      /\ step' \in [Steps -> StepType]
      /\ \A s \in Steps : step'[s].attempt <= StepRetries[s]
      /\ child' \in [Children -> ChildType]
      /\ told' \in [Children -> Nat]
      /\ dispatcher' \in [Dispatchers -> DispatcherType]
      /\ cancel' \in CancelType
      /\ advances' \in 0..MaxAdvances /\ faults' \in 0..MaxFaults /\ crashed' \in BOOLEAN
      => TypeOK'
  BY DEF TypeOK, StepType, ChildType, DispatcherType, CancelType
<1>f. Fault => faults' \in 0..MaxFaults
  BY <1>0 DEF Fault
<1>1. ASSUME NEW d \in Dispatchers, ReadSteps(d) PROVE TypeOK'
  <2>1. [s \in Steps |-> IF step[s].status = "ready" THEN step[s].stamp ELSE "unseen"]
          \in [Steps -> Stamps \cup {"unseen"}]
    BY <1>0 DEF StepType
  <2>2. dispatcher' \in [Dispatchers -> DispatcherType]
    BY <1>0, <1>1, <2>1, DispatcherStates DEF ReadSteps
  <2>3. advances' \in 0..MaxAdvances
    BY <1>0, <1>1 DEF ReadSteps
  <2>4. QED
    BY <1>0, <1>1, <1>t, <2>2, <2>3 DEF ReadSteps
<1>2. ASSUME NEW d \in Dispatchers, NEW s \in Steps, StampPin(d, s) PROVE TypeOK'
  <2>1. PICK p \in Commits :
          IF step[s].status = "ready" /\ step[s].stamp = "none"
          THEN step' = [step EXCEPT ![s].stamp = p] /\ Take(d, s, p)
          ELSE Skip(d, s) /\ UNCHANGED step
    BY <1>2 DEF StampPin
  <2>2. dispatcher' \in [Dispatchers -> DispatcherType]
    BY <1>0, <2>1, TakeEffect, SkipEffect DEF Stamps
  <2>3. /\ step' \in [Steps -> StepType]
        /\ \A t \in Steps : step'[t].attempt <= StepRetries[t]
    BY <1>0, <2>1 DEF StepType, Stamps
  <2>4. QED
    BY <1>0, <1>2, <1>t, <2>2, <2>3 DEF StampPin, counters
<1>3. ASSUME NEW d \in Dispatchers, NEW s \in Steps, UseStamp(d, s) PROVE TypeOK'
  <2>1. dispatcher[d].seen[s] \in Stamps
    BY <1>0, <1>3 DEF UseStamp, DispatcherType
  <2>2. dispatcher' \in [Dispatchers -> DispatcherType]
    BY <1>0, <1>3, <2>1, TakeEffect DEF UseStamp
  <2>3. QED
    BY <1>0, <1>3, <1>t, <2>2 DEF UseStamp, counters
<1>4. ASSUME NEW d \in Dispatchers, NEW x, FailDispatch(d, x) PROVE TypeOK'
  <2>1. dispatcher' \in [Dispatchers -> DispatcherType]
    BY <1>0, <1>4, NextStepEffect DEF FailDispatch
  <2>2. step' = step \/ step' = [step EXCEPT ![dispatcher[d].at].status = "failed"]
    BY <1>4 DEF FailDispatch
  <2>3. /\ step' \in [Steps -> StepType]
        /\ \A t \in Steps : step'[t].attempt <= StepRetries[t]
    BY <1>0, <2>2 DEF StepType, Final
  <2>4. QED
    BY <1>0, <1>4, <1>t, <2>1, <2>3 DEF FailDispatch, counters
<1>5. ASSUME NEW d \in Dispatchers, ClaimDispatch(d) PROVE TypeOK'
  <2> DEFINE s == dispatcher[d].at
  <2>1. CASE step[s].status = "ready" /\ step[s].stamp = dispatcher[d].pin
    <3>1. /\ step' = [step EXCEPT ![s].status = "running"]
          /\ job' = IF job = "pending" THEN "running" ELSE job
          /\ dispatcher' = [dispatcher EXCEPT ![d].pc = "create", ![d].try = step[s].attempt]
      BY <1>5, <2>1 DEF ClaimDispatch
    <3>2. dispatcher' \in [Dispatchers -> DispatcherType]
      <4>2. step[s].attempt \in Nat
        BY <1>0, <1>5 DEF ClaimDispatch, TriesReached, StepType
      <4>3. QED
        BY <1>0, <3>1, <4>2, WinEffect
    <3>3. /\ step' \in [Steps -> StepType]
          /\ \A t \in Steps : step'[t].attempt <= StepRetries[t]
      BY <1>0, <3>1 DEF StepType
    <3>4. QED
      BY <1>0, <1>5, <1>t, <3>1, <3>2, <3>3 DEF ClaimDispatch, counters, Live
  <2>2. CASE ~(step[s].status = "ready" /\ step[s].stamp = dispatcher[d].pin)
    <3>1. NextStep(d) /\ UNCHANGED <<job, step>>
      BY <1>5, <2>2 DEF ClaimDispatch
    <3>2. QED
      BY <1>0, <1>5, <1>t, <3>1, NextStepEffect DEF ClaimDispatch, counters
  <2>3. QED
    BY <2>1, <2>2
<1>6. ASSUME NEW d \in Dispatchers, CreateChild(d) PROVE TypeOK'
  <2>1. dispatcher' \in [Dispatchers -> DispatcherType]
    BY <1>0, <1>6, NextStepEffect DEF CreateChild
  <2>2. PICK born \in {"pending", "completed", "failed"} :
          child' = [child EXCEPT ![<<dispatcher[d].at, d, dispatcher[d].try>>] =
                     [NoChild EXCEPT !.pin = ChildPin(dispatcher[d].pin), !.status = born]]
    BY <1>6 DEF CreateChild
  <2>3. ChildPin(dispatcher[d].pin) \in Commits \cup {"live"}
    BY <1>0 DEF ChildPin, DispatcherType, Stamps
  <2>4. [NoChild EXCEPT !.pin = ChildPin(dispatcher[d].pin), !.status = born] \in ChildType
    BY <2>3 DEF NoChild, ChildType, Live, Final
  <2>5. child' \in [Children -> ChildType]
    BY <1>0, <2>2, <2>4
  <2>6. QED
    BY <1>0, <1>6, <1>t, <2>1, <2>5 DEF CreateChild, counters
<1>7. ASSUME NEW d \in Dispatchers, Reconcile(d) PROVE TypeOK'
  <2> DEFINE due == {c \in Children : Settled(c) /\ ~child[c].recorded}
  <2>1. CASE due = {}
    BY <1>0, <1>7, <1>t, <2>1, GotoEffect DEF Reconcile, counters
  <2>2. CASE due # {}
    <3>1. PICK c \in Children :
            /\ child' = [child EXCEPT ![c].recorded = TRUE]
            /\ dispatcher' = [dispatcher EXCEPT ![d].pc = "tell", ![d].kids = {c}]
      BY <1>7, <2>2 DEF Reconcile
    <3>2. child' \in [Children -> ChildType]
      BY <3>1, ChildEffect
    <3>3. dispatcher' \in [Dispatchers -> DispatcherType]
      BY <1>0, <3>1, KidsEffect
    <3>4. QED
      BY <1>0, <1>7, <1>t, <3>2, <3>3 DEF Reconcile, counters
  <2>3. QED
    BY <2>1, <2>2
<1>8. ASSUME NEW d \in Dispatchers, TellParent(d) PROVE TypeOK'
  <2>1. PICK c \in dispatcher[d].kids :
          step' = Told(c) /\ told' = [told EXCEPT ![c] = @ + 1]
    BY <1>8 DEF TellParent
  <2>2. c \in Children /\ Over(c)
    BY <1>0, <1>8, <2>1 DEF DispatcherType, TellsHoldClaim, Telling, TellParent
  <2>3. /\ step' \in [Steps -> StepType]
        /\ \A t \in Steps : step'[t].attempt <= StepRetries[t]
    BY <1>0, <2>1, <2>2, ToldEffect
  <2>4. dispatcher' \in [Dispatchers -> DispatcherType]
    BY <1>0, <1>8, KidsEffect DEF TellParent
  <2>5. told' \in [Children -> Nat]
    BY <1>0, <2>1, <2>2
  <2>6. QED
    BY <1>0, <1>8, <1>t, <2>3, <2>4, <2>5 DEF TellParent, counters
<1>9. ASSUME NEW d \in Dispatchers, SettleParent(d) PROVE TypeOK'
  <2>1. dispatcher' \in [Dispatchers -> DispatcherType]
    BY <1>0, <1>9, DispatcherStates DEF SettleParent, DispatcherType
  <2>2. job' \in Live \cup Final
    BY <1>0, <1>9 DEF SettleParent, Outcome, Live, Final
  <2>3. QED
    BY <1>0, <1>9, <1>t, <2>1, <2>2 DEF SettleParent, counters
<1>10. ASSUME NEW d \in Dispatchers, CrashDispatcher(d) PROVE TypeOK'
  <2>1. dispatcher' \in [Dispatchers -> DispatcherType]
    BY <1>0, <1>10, DispatcherStates DEF CrashDispatcher, DispatcherType
  <2>2. QED
    BY <1>0, <1>10, <1>f, <1>t, <2>1 DEF CrashDispatcher
<1>11. ASSUME NEW c \in Children, ChildStarts(c) PROVE TypeOK'
  <2>1. child' \in [Children -> ChildType]
    BY <1>11, ChildEffect
  <2>2. QED
    BY <1>0, <1>11, <1>t, <2>1 DEF ChildStarts, counters
<1>12. ASSUME NEW c \in Children, ChildEnds(c) PROVE TypeOK'
  <2>1. child' \in [Children -> ChildType]
    BY <1>12, ChildEffect
  <2>2. QED
    BY <1>0, <1>12, <1>t, <2>1 DEF ChildEnds, counters
<1>13. ASSUME NEW c \in Children, ClaimChild(c) PROVE TypeOK'
  <2>1. child' \in [Children -> ChildType]
    BY <1>13, ChildEffect
  <2>2. /\ step' \in [Steps -> StepType]
        /\ \A t \in Steps : step'[t].attempt <= StepRetries[t]
    BY <1>0, <1>13, ToldEffect DEF ClaimChild
  <2>3. told' \in [Children -> Nat]
    BY <1>0, <1>13 DEF ClaimChild
  <2>4. QED
    BY <1>0, <1>13, <1>t, <2>1, <2>2, <2>3 DEF ClaimChild, counters
<1>14. ASSUME NEW c \in Children, CrashAdvance(c) PROVE TypeOK'
  <2>1. child' \in [Children -> ChildType]
    BY <1>14, ChildEffect
  <2>2. QED
    BY <1>0, <1>14, <1>f, <1>t, <2>1 DEF CrashAdvance
<1>15. ASSUME NEW s \in Steps, TimeOut(s) PROVE TypeOK'
  <2>1. /\ step' \in [Steps -> StepType]
        /\ \A t \in Steps : step'[t].attempt <= StepRetries[t]
    BY <1>0, <1>15, TimeOutEffect
  <2>2. QED
    BY <1>0, <1>15, <1>f, <1>t, <2>1 DEF TimeOut
<1>16. ASSUME CancelJob PROVE TypeOK'
  <2>1. cancel' \in CancelType
    BY <1>0, <1>16 DEF CancelJob, CancelType
  <2>2. QED
    BY <1>0, <1>16, <1>f, <1>t, <2>1 DEF CancelJob, Final
<1>17. ASSUME CancelSteps \/ CancelServerManaged PROVE TypeOK'
  <2>1. cancel' \in CancelType
    BY <1>0, <1>17 DEF CancelSteps, CancelServerManaged, CancelType
  <2>2. /\ step' \in [Steps -> StepType]
        /\ \A t \in Steps : step'[t].attempt <= StepRetries[t]
    BY <1>0, <1>17 DEF CancelSteps, CancelServerManaged, StepType, Final
  <2>3. QED
    BY <1>0, <1>17, <1>t, <2>1, <2>2 DEF CancelSteps, CancelServerManaged, counters
<1>18. ASSUME ListChildren \/ EndCancel PROVE TypeOK'
  <2>1. cancel' \in CancelType
    BY <1>0, <1>18 DEF ListChildren, EndCancel, CancelType
  <2>2. QED
    BY <1>0, <1>18, <1>t, <2>1 DEF ListChildren, EndCancel, counters
<1>19. ASSUME NEW c \in Children, CancelChild(c) PROVE TypeOK'
  <2>1. cancel' \in CancelType
    BY <1>0, <1>19 DEF CancelChild, CancelType
  <2>2. child' \in [Children -> ChildType]
    BY <1>19, ChildEffect
  <2>3. QED
    BY <1>0, <1>19, <1>t, <2>1, <2>2 DEF CancelChild, counters
<1>20. CASE UNCHANGED vars
  BY <1>0, <1>20, <1>t DEF vars
<1>21. QED
  BY <1>1, <1>2, <1>3, <1>4, <1>5, <1>6, <1>7, <1>8, <1>9, <1>10, <1>11, <1>12, <1>13,
     <1>14, <1>15, <1>16, <1>17, <1>18, <1>19, <1>20
     DEF Next, DispatcherStep, CancelStep, FailBeforeClaim, FailAfterClaim
-----------------------------------------------------------------------------
(***************************************************************************)
(* Claims                                                                  *)
(***************************************************************************)

(* What most steps leave as it was: no claim is won, no attempt begins, no *)
(* child is made, and a step that fails has neither a claim nor a child at *)
(* work.                                                                   *)
NoClaimWon ==
  \A d \in Dispatchers :
    /\ dispatcher'[d].pc = "create" => dispatcher'[d] = dispatcher[d]
    /\ dispatcher'[d].pc = "claim" => dispatcher'[d].at \in Steps
RowsKept ==
  \A s \in Steps :
    /\ step'[s].stamp = step[s].stamp /\ step'[s].attempt = step[s].attempt
    /\ step'[s].status = "ready" => step[s].status = "ready"
    /\ step'[s].status = "failed" /\ InTime(s) => \/ step[s].status = "failed"
         \/ /\ \A d \in Dispatchers : ~(Creating(d)' /\ dispatcher'[d].at = s)
            /\ \A c \in Children : StepOf(c) = s => child[c].status \notin Live
ChildrenKept ==
  \A c \in Children :
    /\ child'[c].pin = child[c].pin
    /\ child'[c].status = "none" <=> child[c].status = "none"
    /\ child'[c].status = "none" => child'[c] = child[c]
    /\ child'[c].status \in Live => child[c].status \in Live
    /\ child[c].status \in Final => child'[c].status = child[c].status
    /\ child[c].recorded => child'[c].recorded
FaultsKept == faults' = 0 => faults = 0

(* A step that wins no claim, and moves rows and children only forward,    *)
(* keeps what the claims say.                                              *)
LEMMA ClaimsKept ==
  ASSUME TypeOK, ClaimsOK, NoClaimWon, RowsKept, ChildrenKept, FaultsKept
  PROVE  ClaimsOK'
<1> USE DEF InTime, Creating, Made
<1>0. /\ \A c \in Children : StepOf(c) \in Steps
      /\ \A c \in Children : Made(c)' <=> Made(c)
      /\ \A d \in Dispatchers : Creating(d)' =>
           Creating(d) /\ dispatcher'[d] = dispatcher[d] /\ dispatcher[d].at \in Steps
      /\ \A s \in Steps : InTime(s)' => InTime(s)
  BY DEF Children, StepOf, ChildrenKept, NoClaimWon, ClaimsOK, TriesReached, FaultsKept, RowsKept
<1>1. TriesReached'
  BY <1>0 DEF ClaimsOK, TriesReached, NoClaimWon, RowsKept
<1>2. ReadyIsUnclaimed'
  BY <1>0 DEF ClaimsOK, ReadyIsUnclaimed, RowsKept
<1>3. OneClaimPerAttempt'
  BY <1>0 DEF ClaimsOK, OneClaimPerAttempt, OneChildPerAttempt
<1>4. ClaimAtStamp'
  BY <1>0 DEF ClaimsOK, ClaimAtStamp, RowsKept
<1>5. ChildAtStamp'
  BY <1>0 DEF ClaimsOK, ChildAtStamp, RowsKept, ChildrenKept
<1>6. FirstAttempt'
  BY <1>0 DEF ClaimsOK, FirstAttempt, RowsKept
<1>7. FailedIsUnclaimed'
  BY <1>0 DEF ClaimsOK, FailedIsUnclaimed, RowsKept
<1>8. LoserCannotFail'
  BY <1>0 DEF ClaimsOK, LoserCannotFail, RowsKept, ChildrenKept
<1>9. MadeHasPin'
  BY <1>0 DEF ClaimsOK, MadeHasPin, ChildrenKept
<1>10. QED
  BY <1>1, <1>2, <1>3, <1>4, <1>5, <1>6, <1>7, <1>8, <1>9 DEF ClaimsOK
(* The same for the claims of terminal handlings.                          *)
NoTellWon == \A d \in Dispatchers : dispatcher'[d].pc = "tell" => dispatcher'[d] = dispatcher[d]

(* A step that starts no tell keeps the claims of those under way. *)
LEMMA TellsKept ==
  ASSUME TellsHoldClaim, NoTellWon, ChildrenKept, told' = told
  PROVE  TellsHoldClaim'
BY DEF TellsHoldClaim, NoTellWon, ChildrenKept, Telling, Over

(* What a step does not touch satisfies the hypotheses of these lemmas. *)
LEMMA NothingMoves ==
  /\ UNCHANGED dispatcher /\ IInv => NoClaimWon /\ NoTellWon
  /\ UNCHANGED step => RowsKept
  /\ UNCHANGED child => ChildrenKept
  /\ UNCHANGED faults => FaultsKept
  /\ TypeOK /\ Fault => FaultsKept
<1>1. UNCHANGED dispatcher /\ IInv => NoClaimWon /\ NoTellWon
  BY DEF NoClaimWon, NoTellWon, IInv, ClaimsOK, TriesReached
<1>2. UNCHANGED step => RowsKept
  BY DEF RowsKept
<1>3. UNCHANGED child => ChildrenKept
  BY DEF ChildrenKept
<1>4. UNCHANGED faults => FaultsKept
  BY DEF FaultsKept
<1>5. TypeOK /\ Fault => FaultsKept
  <2> SUFFICES ASSUME TypeOK, Fault PROVE FaultsKept
    OBVIOUS
  <2>1. faults \in 0..MaxFaults /\ MaxFaults \in Nat
    BY TypeParts, TreeAssumption
  <2>2. QED
    BY <2>1 DEF Fault, FaultsKept
<1>6. QED
  BY <1>1, <1>2, <1>3, <1>4, <1>5

(* A dispatcher that leaves or goes on with its pass wins no claim.        *)
LEMMA DispatcherMoves ==
  ASSUME IInv, NEW d \in Dispatchers,
         \A e \in Dispatchers \ {d} : dispatcher'[e] = dispatcher[e],
         dispatcher'[d].pc \notin {"create", "tell"},
         dispatcher'[d].pc = "claim" => dispatcher'[d].at \in Steps
  PROVE  NoClaimWon /\ NoTellWon
BY DEF NoClaimWon, NoTellWon, IInv, ClaimsOK, TriesReached

(* A step of a child leaves claims and rows alone.                         *)
LEMMA ChildMoves ==
  ASSUME IInv, NEW c \in Children,
         \/ ChildStarts(c) \/ ChildEnds(c) \/ ClaimChild(c) \/ CrashAdvance(c)
         \/ CancelChild(c) \/ (child' = [child EXCEPT ![c].recorded = TRUE] /\ Made(c))
  PROVE  ChildrenKept
<1>1. TypeOK /\ MadeHasPin
  BY DEF IInv, ClaimsOK
<1>2. child[c].status = "none" => child'[c] = child[c]
  <2> SUFFICES ASSUME child[c].status = "none" PROVE child' = child
    OBVIOUS
  <2>1. child[c] = NoChild
    BY <1>1 DEF MadeHasPin, Made
  <2>2. ~child[c].busy /\ ~child[c].adv /\ child[c].status \notin Live \cup {"pending"} /\ ~Made(c)
    BY <2>1 DEF NoChild, Live, Made
  <2>3. QED
    BY <2>2 DEF ChildStarts, ChildEnds, ClaimChild, CrashAdvance, CancelChild
<1>3. QED
  BY <1>1, <1>2, ChildEffect DEF ChildrenKept
(* resolve_templated_task_ref: a stamp written on a ready row is seen by   *)
(* no claim and no child of the current attempt.                           *)
LEMMA StampKeeps ==
  ASSUME IInv, TypeOK', NEW d \in Dispatchers, NEW s \in Steps, StampPin(d, s)
  PROVE  ClaimsOK' /\ TellsHoldClaim'
<1> USE DEF InTime, Creating, Made
<1>0. /\ TypeOK /\ ClaimsOK /\ TellsHoldClaim
      /\ dispatcher \in [Dispatchers -> DispatcherType] /\ step \in [Steps -> StepType]
      /\ child' = child /\ told' = told /\ faults' = faults
  BY TypeParts DEF IInv, StampPin, counters
<1>1. PICK p \in Commits :
        IF step[s].status = "ready" /\ step[s].stamp = "none"
        THEN step' = [step EXCEPT ![s].stamp = p] /\ Take(d, s, p)
        ELSE Skip(d, s) /\ UNCHANGED step
  BY DEF StampPin
<1>2. CASE ~(step[s].status = "ready" /\ step[s].stamp = "none")
  <2>1. Skip(d, s) /\ UNCHANGED step /\ dispatcher[d].pc = "pass"
    BY <1>1, <1>2 DEF StampPin
  <2>2. NoClaimWon /\ NoTellWon
    BY <1>0, <2>1, SkipEffect, DispatcherMoves
  <2>3. QED
    BY <1>0, <2>1, <2>2, NothingMoves, ClaimsKept, TellsKept
<1>3. CASE step[s].status = "ready" /\ step[s].stamp = "none"
  <2>1. step' = [step EXCEPT ![s].stamp = p] /\ Take(d, s, p) /\ p \in Stamps
    BY <1>1, <1>3 DEF Stamps
  <2>2. NoClaimWon /\ NoTellWon
    BY <1>0, <2>1, TakeEffect, DispatcherMoves
  <2>3. /\ \A t \in Steps : /\ step'[t].status = step[t].status
                            /\ step'[t].attempt = step[t].attempt
                            /\ t # s => step'[t] = step[t]
        /\ \A c \in Children : StepOf(c) \in Steps
        /\ \A e \in Dispatchers : Creating(e)' =>
             Creating(e) /\ dispatcher'[e] = dispatcher[e] /\ dispatcher[e].at \in Steps
    BY <1>0, <2>1, <2>2 DEF StepType, NoClaimWon, ClaimsOK, TriesReached, Children, StepOf
  <2>4. TriesReached' /\ ReadyIsUnclaimed' /\ FirstAttempt'
    BY <1>0, <2>2, <2>3 DEF ClaimsOK, TriesReached, ReadyIsUnclaimed, FirstAttempt, NoClaimWon
  <2>5. OneClaimPerAttempt' /\ FailedIsUnclaimed' /\ LoserCannotFail' /\ MadeHasPin'
    BY <1>0, <2>3 DEF ClaimsOK, OneClaimPerAttempt, OneChildPerAttempt, FailedIsUnclaimed,
                      LoserCannotFail, MadeHasPin
  <2>6. ClaimAtStamp'
    <3> SUFFICES ASSUME NEW e \in Dispatchers, Creating(e)',
                        \/ dispatcher'[e].try = step'[dispatcher'[e].at].attempt
                        \/ dispatcher'[e].pin # "none"
                 PROVE  dispatcher'[e].pin = step'[dispatcher'[e].at].stamp
      BY DEF ClaimAtStamp
    <3>1. CASE dispatcher[e].at = s
      BY <1>0, <1>3, <2>3, <3>1 DEF ClaimsOK, ClaimAtStamp, ReadyIsUnclaimed
    <3>2. CASE dispatcher[e].at # s
      BY <1>0, <2>3, <3>2 DEF ClaimsOK, ClaimAtStamp
    <3>3. QED
      BY <3>1, <3>2
  <2>7. ChildAtStamp'
    <3> SUFFICES ASSUME NEW c \in Children, Made(c),
                        TryOf(c) = step'[StepOf(c)].attempt \/ child[c].pin # "live"
                 PROVE  child[c].pin = ChildPin(step'[StepOf(c)].stamp)
      BY <1>0 DEF ChildAtStamp
    <3>1. CASE StepOf(c) = s
      <4>1. TryOf(c) # step[s].attempt /\ child[c].pin # "live"
        BY <1>0, <1>3, <2>3, <3>1 DEF ClaimsOK, ReadyIsUnclaimed
      <4>2. child[c].pin = "live"
        BY <1>0, <1>3, <3>1, <4>1 DEF ClaimsOK, ChildAtStamp, ChildPin
      <4>3. QED
        BY <4>1, <4>2
    <3>2. CASE StepOf(c) # s
      BY <1>0, <2>3, <3>2 DEF ClaimsOK, ChildAtStamp
    <3>3. QED
      BY <3>1, <3>2
  <2>8. TellsHoldClaim'
    BY <1>0, <2>2, NothingMoves, TellsKept
  <2>9. QED
    BY <2>4, <2>5, <2>6, <2>7, <2>8 DEF ClaimsOK
<1>4. QED
  BY <1>2, <1>3

(* claim_task_dispatch: the row was ready, so nobody held its attempt, and *)
(* it carried the stamp the dispatcher goes by.                            *)
LEMMA ClaimKeeps ==
  ASSUME IInv, TypeOK', NEW d \in Dispatchers, ClaimDispatch(d)
  PROVE  ClaimsOK' /\ TellsHoldClaim'
<1> USE DEF InTime, Creating, Made
<1> DEFINE s == dispatcher[d].at
<1>0. /\ TypeOK /\ ClaimsOK /\ TellsHoldClaim /\ s \in Steps
      /\ dispatcher \in [Dispatchers -> DispatcherType] /\ step \in [Steps -> StepType]
      /\ child' = child /\ told' = told /\ faults' = faults
  BY TypeParts DEF IInv, ClaimDispatch, counters, ClaimsOK, TriesReached
<1>1. CASE ~(step[s].status = "ready" /\ step[s].stamp = dispatcher[d].pin)
  <2>1. NextStep(d) /\ UNCHANGED step
    BY <1>1 DEF ClaimDispatch
  <2>2. NoClaimWon /\ NoTellWon
    BY <1>0, <2>1, NextStepEffect, DispatcherMoves
  <2>3. QED
    BY <1>0, <2>1, <2>2, NothingMoves, ClaimsKept, TellsKept
<1>2. CASE step[s].status = "ready" /\ step[s].stamp = dispatcher[d].pin
  <2>1. /\ step' = [step EXCEPT ![s].status = "running"]
        /\ dispatcher' = [dispatcher EXCEPT ![d].pc = "create", ![d].try = step[s].attempt]
    BY <1>2 DEF ClaimDispatch
  <2>2. step[s].attempt \in Nat
    BY <1>0 DEF StepType
  <2>3. /\ dispatcher'[d].pc = "create" /\ dispatcher'[d].at = s
        /\ dispatcher'[d].try = step[s].attempt /\ dispatcher'[d].pin = step[s].stamp
        /\ \A e \in Dispatchers \ {d} : dispatcher'[e] = dispatcher[e]
    BY <1>0, <1>2, <2>1, <2>2, WinEffect
  <2>4. /\ \A t \in Steps : /\ step'[t].stamp = step[t].stamp
                            /\ step'[t].attempt = step[t].attempt
                            /\ t # s => step'[t] = step[t]
        /\ step'[s].status = "running"
        /\ \A c \in Children : StepOf(c) \in Steps
    BY <1>0, <2>1 DEF StepType, Children, StepOf
  <2>5. TriesReached'
    BY <1>0, <2>2, <2>3, <2>4 DEF ClaimsOK, TriesReached
  <2>6. ReadyIsUnclaimed'
    BY <1>0, <2>3, <2>4 DEF ClaimsOK, ReadyIsUnclaimed
  <2>7. OneClaimPerAttempt'
    <3>1. \A e \in Dispatchers : Creating(e) /\ dispatcher[e].at = s
                                   => dispatcher[e].try # step[s].attempt
      BY <1>0, <1>2 DEF ClaimsOK, ReadyIsUnclaimed
    <3>2. \A c \in Children : Made(c) /\ StepOf(c) = s => TryOf(c) # step[s].attempt
      BY <1>0, <1>2 DEF ClaimsOK, ReadyIsUnclaimed
    <3>3. QED
      BY <1>0, <2>3, <3>1, <3>2 DEF ClaimsOK, OneClaimPerAttempt, OneChildPerAttempt
  <2>8. ClaimAtStamp'
    BY <1>0, <2>3, <2>4 DEF ClaimsOK, ClaimAtStamp, TriesReached
  <2>9. ChildAtStamp' /\ FirstAttempt' /\ LoserCannotFail' /\ MadeHasPin'
    BY <1>0, <2>4 DEF ClaimsOK, ChildAtStamp, FirstAttempt, LoserCannotFail, MadeHasPin
  <2>10. FailedIsUnclaimed'
    BY <1>0, <2>3, <2>4 DEF ClaimsOK, FailedIsUnclaimed
  <2>11. TellsHoldClaim'
    BY <1>0, <2>3, NothingMoves, TellsKept DEF NoTellWon
  <2>12. QED
    BY <2>5, <2>6, <2>7, <2>8, <2>9, <2>10, <2>11 DEF ClaimsOK
<1>3. QED
  BY <1>1, <1>2

(* A claim names a child.                                                  *)
LEMMA ClaimedChild ==
  ASSUME TypeOK, ClaimsOK, NEW d \in Dispatchers, Creating(d)
  PROVE  LET c == <<dispatcher[d].at, d, dispatcher[d].try>> IN
         c \in Children /\ StepOf(c) = dispatcher[d].at /\ TryOf(c) = dispatcher[d].try
<1> DEFINE s == dispatcher[d].at
           n == dispatcher[d].try
<1>1. /\ s \in Steps /\ n \in Nat /\ n <= step[s].attempt /\ step[s].attempt \in Nat
      /\ step[s].attempt <= StepRetries[s] /\ StepRetries[s] \in Nat
  BY TypeParts, TreeAssumption DEF Creating, ClaimsOK, TriesReached, DispatcherType, StepType
<1>2. n \in 0..StepRetries[s]
  BY <1>1
<1>3. n \in UNION {0..StepRetries[t] : t \in Steps}
  BY <1>1, <1>2
<1>4. QED
  BY <1>1, <1>3 DEF Children, StepOf, TryOf

(* create_job_for_task_inner: the claim is spent on the child.             *)
LEMMA CreateKeeps ==
  ASSUME IInv, TypeOK', NEW d \in Dispatchers, CreateChild(d)
  PROVE  ClaimsOK' /\ TellsHoldClaim'
<1> USE DEF InTime, Creating, Made
<1> DEFINE s == dispatcher[d].at
           n == dispatcher[d].try
           c == <<s, d, n>>
<1>0. /\ TypeOK /\ ClaimsOK /\ TellsHoldClaim /\ s \in Steps /\ Creating(d)
      /\ dispatcher \in [Dispatchers -> DispatcherType] /\ step \in [Steps -> StepType]
      /\ child \in [Children -> ChildType]
      /\ step' = step /\ told' = told /\ faults' = faults
  BY TypeParts DEF IInv, CreateChild, counters, ClaimsOK, TriesReached
<1>1. c \in Children /\ StepOf(c) = s /\ TryOf(c) = n
  BY <1>0, ClaimedChild
<1>2. /\ \A e \in Dispatchers \ {d} : dispatcher'[e] = dispatcher[e]
      /\ dispatcher'[d].pc = "pass"
  BY <1>0, NextStepEffect DEF CreateChild
<1>3. PICK born \in {"pending", "completed", "failed"} :
        child' = [child EXCEPT ![c] = [NoChild EXCEPT !.pin = ChildPin(dispatcher[d].pin),
                                                      !.status = born]]
  BY DEF CreateChild
<1>4. /\ child'[c].pin = ChildPin(dispatcher[d].pin) /\ child'[c].status = born
      /\ born # "none" /\ child'[c].recorded = FALSE
      /\ \A k \in Children \ {c} : child'[k] = child[k]
  BY <1>0, <1>1, <1>3 DEF NoChild
<1> HIDE DEF c
<1>5. /\ ~Made(c)
      /\ \A k \in Children : Made(k)' <=> Made(k) \/ k = c
      /\ \A e \in Dispatchers : Creating(e)' <=> Creating(e) /\ e # d
      /\ \A k \in Children : StepOf(k) \in Steps
  <2>1. ~Made(c)
    BY <1>0, <1>1 DEF ClaimsOK, OneClaimPerAttempt
  <2>2. \A k \in Children : StepOf(k) \in Steps
    BY DEF Children, StepOf
  <2>3. \A k \in Children : Made(k)' <=> Made(k) \/ k = c
    BY <1>1, <1>4
  <2>4. QED
    BY <1>0, <1>2, <2>1, <2>2, <2>3
<1> HIDE DEF Creating, Made
<1>6. TriesReached'
  BY <1>0, <1>1, <1>2, <1>5 DEF ClaimsOK, TriesReached
<1>7. ReadyIsUnclaimed'
  BY <1>0, <1>1, <1>2, <1>5 DEF ClaimsOK, ReadyIsUnclaimed
<1>8. OneClaimPerAttempt'
  BY <1>0, <1>1, <1>2, <1>5 DEF ClaimsOK, OneClaimPerAttempt, OneChildPerAttempt
<1>9. ClaimAtStamp'
  BY <1>0, <1>2, <1>5 DEF ClaimsOK, ClaimAtStamp
<1>10. ChildAtStamp'
  <2>1. child'[c].pin # "live" => dispatcher[d].pin # "none"
    BY <1>4 DEF ChildPin
  <2>2. TryOf(c) = step[s].attempt \/ child'[c].pin # "live"
          => child'[c].pin = ChildPin(step[s].stamp)
    BY <1>0, <1>1, <1>4, <2>1 DEF ClaimsOK, ClaimAtStamp
  <2>3. QED
    BY <1>0, <1>1, <1>4, <1>5, <2>2 DEF ClaimsOK, ChildAtStamp
<1>11. FirstAttempt'
  BY <1>0 DEF ClaimsOK, FirstAttempt
<1>12. FailedIsUnclaimed'
  BY <1>0, <1>2, <1>5 DEF ClaimsOK, FailedIsUnclaimed
<1>13. LoserCannotFail'
  BY <1>0, <1>1, <1>4 DEF ClaimsOK, FailedIsUnclaimed, LoserCannotFail
<1>14. MadeHasPin'
  <2>1. child'[c].pin # "none"
    BY <1>0, <1>4, NoCommitIsAMark DEF ChildPin, DispatcherType, Stamps
  <2>2. QED
    BY <1>0, <1>4, <1>5, <2>1 DEF ClaimsOK, MadeHasPin
<1>15. TellsHoldClaim'
  <2>1. ~child[c].recorded /\ ~Over(c)
    BY <1>0, <1>1, <1>5 DEF ClaimsOK, MadeHasPin, NoChild, Over, Made, Final
  <2>2. \A e \in Dispatchers, k \in Children :
          Telling(e, k)' => Telling(e, k) /\ k # c
    BY <1>0, <1>2, <2>1 DEF Telling, TellsHoldClaim
  <2>3. QED
    BY <1>0, <1>1, <1>4, <2>1, <2>2 DEF TellsHoldClaim, Over
<1>16. QED
  BY <1>6, <1>7, <1>8, <1>9, <1>10, <1>11, <1>12, <1>13, <1>14, <1>15 DEF ClaimsOK

(* Recovery phase 2: a new attempt is nobody's, and the old claims and     *)
(* children stay with theirs.                                              *)
LEMMA TimeOutKeeps ==
  ASSUME IInv, TypeOK', NEW s \in Steps, TimeOut(s)
  PROVE  ClaimsOK' /\ TellsHoldClaim'
<1> USE DEF InTime, Creating, Made
<1>0. /\ TypeOK /\ ClaimsOK /\ TellsHoldClaim /\ step \in [Steps -> StepType]
      /\ dispatcher \in [Dispatchers -> DispatcherType] /\ s \in TimesOut
      /\ child' = child /\ told' = told /\ dispatcher' = dispatcher
      /\ \A c \in Children : StepOf(c) \in Steps /\ TryOf(c) \in Nat
  BY TypeParts, TreeAssumption DEF IInv, TimeOut, Children, StepOf, TryOf
<1>1. faults' # 0 /\ FaultsKept
  <2>1. faults \in 0..MaxFaults /\ MaxFaults \in Nat
    BY <1>0, TypeParts, TreeAssumption
  <2>2. QED
    BY <2>1 DEF TimeOut, Fault, FaultsKept
<1>2. /\ \A t \in Steps \ {s} : step'[t] = step[t]
      /\ step'[s].stamp = step[s].stamp /\ step[s].attempt \in Nat
      /\ \/ step'[s].status = "ready" /\ step'[s].attempt = step[s].attempt + 1
         \/ /\ step'[s].status = "failed" /\ step'[s].attempt = step[s].attempt
            /\ StepRetries[s] <= step[s].attempt
  BY <1>0, TimeOutEffect DEF StepType
<1>3. /\ \A d \in Dispatchers : Creating(d) =>
           /\ dispatcher[d].at \in Steps /\ dispatcher[d].try \in Nat
           /\ dispatcher[d].try <= step[dispatcher[d].at].attempt
      /\ \A c \in Children : Made(c) => TryOf(c) <= step[StepOf(c)].attempt
  BY <1>0 DEF ClaimsOK, TriesReached, DispatcherType
<1>4. TriesReached'
  BY <1>0, <1>2, <1>3 DEF TriesReached, ClaimsOK
<1>5. ReadyIsUnclaimed'
  BY <1>0, <1>2, <1>3 DEF ReadyIsUnclaimed, ClaimsOK
<1>6. OneClaimPerAttempt' /\ MadeHasPin'
  BY <1>0 DEF OneClaimPerAttempt, OneChildPerAttempt, MadeHasPin, ClaimsOK
<1>7. ClaimAtStamp'
  BY <1>0, <1>2, <1>3 DEF ClaimAtStamp, ClaimsOK
<1>8. ChildAtStamp'
  BY <1>0, <1>2, <1>3 DEF ChildAtStamp, ClaimsOK
<1>9. FirstAttempt' /\ FailedIsUnclaimed' /\ LoserCannotFail'
  <2>1. StepRetries[s] \in Nat
    BY TreeAssumption
  <2>2. ~InTime(s)'
    BY <1>0, <1>1, <1>2, <2>1
  <2>3. \A t \in Steps \ {s} : InTime(t)' => InTime(t)
    BY <1>1, <1>2 DEF FaultsKept
  <2>4. QED
    BY <1>0, <1>2, <2>2, <2>3 DEF FirstAttempt, FailedIsUnclaimed, LoserCannotFail, ClaimsOK
<1>10. TellsHoldClaim'
  BY <1>0, NothingMoves, TellsKept DEF NoTellWon
<1>11. QED
  BY <1>4, <1>5, <1>6, <1>7, <1>8, <1>9, <1>10 DEF ClaimsOK
(* reconcile: the terminal handling of a child nobody has claimed.         *)
LEMMA ReconcileKeeps ==
  ASSUME IInv, TypeOK', NEW d \in Dispatchers, Reconcile(d)
  PROVE  ClaimsOK' /\ TellsHoldClaim'
<1> DEFINE due == {c \in Children : Settled(c) /\ ~child[c].recorded}
<1>0. /\ TypeOK /\ ClaimsOK /\ TellsHoldClaim
      /\ dispatcher \in [Dispatchers -> DispatcherType]
      /\ step' = step /\ told' = told /\ faults' = faults
  BY TypeParts DEF IInv, Reconcile, counters
<1>1. CASE due = {}
  <2>1. Goto(d, "settle") /\ UNCHANGED child
    BY <1>1 DEF Reconcile
  <2>2. NoClaimWon /\ NoTellWon
    BY <1>0, <2>1, GotoEffect, DispatcherMoves
  <2>3. QED
    BY <1>0, <2>1, <2>2, NothingMoves, ClaimsKept, TellsKept
<1>2. CASE due # {}
  <2>1. PICK c \in due :
          /\ child' = [child EXCEPT ![c].recorded = TRUE]
          /\ dispatcher' = [dispatcher EXCEPT ![d].pc = "tell", ![d].kids = {c}]
    BY <1>2 DEF Reconcile
  <2>2. c \in Children /\ Over(c) /\ Made(c) /\ ~child[c].recorded
    BY <2>1 DEF Settled, Over, Made, Final
  <2>3. ChildrenKept
    BY <2>1, <2>2, ChildMoves
  <2>4. /\ dispatcher'[d].pc = "tell" /\ dispatcher'[d].kids = {c}
        /\ \A e \in Dispatchers \ {d} : dispatcher'[e] = dispatcher[e]
    <3> DEFINE k == {c}
    <3>1. k \in SUBSET Children
      BY <2>2
    <3>2. dispatcher' = [dispatcher EXCEPT ![d].pc = "tell", ![d].kids = k]
      BY <2>1
    <3> HIDE DEF k
    <3>3. QED
      BY <1>0, <3>1, <3>2, KidsEffect DEF k
  <2>5. NoClaimWon
    BY <1>0, <2>4 DEF NoClaimWon, ClaimsOK, TriesReached
  <2>6. ClaimsOK'
    BY <1>0, <2>3, <2>5, NothingMoves, ClaimsKept
  <2>7. TellsHoldClaim'
    <3>1. child \in [Children -> ChildType]
      BY <1>0, TypeParts
    <3>2. child'[c].recorded /\ told[c] = 0
      BY <1>0, <2>1, <2>2, <3>1 DEF TellsHoldClaim, ChildType
    <3>3. /\ \A k \in Children : Over(k) => Over(k)'
          /\ \A e \in Dispatchers, k \in Children :
               Telling(e, k)' => Telling(e, k) \/ (e = d /\ k = c)
          /\ \A e \in Dispatchers : ~Telling(e, c)
      BY <1>0, <2>2, <2>3, <2>4 DEF ChildrenKept, Over, Telling, TellsHoldClaim
    <3>4. QED
      BY <1>0, <2>2, <2>3, <3>2, <3>3 DEF TellsHoldClaim, ChildrenKept
  <2>8. QED
    BY <2>6, <2>7
<1>3. QED
  BY <1>1, <1>2

(* propagate: what it writes fits the child that is over.                  *)
LEMMA ToldRows ==
  ASSUME IInv, NEW c \in Children, Over(c), step' = Told(c), NoClaimWon
  PROVE  RowsKept
<1> DEFINE k == StepOf(c)
<1>0. TypeOK /\ ClaimsOK /\ k \in Steps /\ Made(c)
  BY DEF IInv, Children, StepOf, Over, Made, Final
<1>1. ASSUME step'[k].status = "failed", step[k].status # "failed", InTime(k)
      PROVE  /\ \A d \in Dispatchers : ~(Creating(d)' /\ dispatcher'[d].at = k)
             /\ \A b \in Children : StepOf(b) = k => child[b].status \notin Live
  <2>1. step[k].attempt = 0
    BY <1>0, <1>1 DEF ClaimsOK, FirstAttempt
  <2>2. \A b \in Children : Made(b) /\ StepOf(b) = k => TryOf(b) = 0
    <3>1. \A b \in Children : TryOf(b) \in Nat
      BY TreeAssumption DEF Children, TryOf
    <3>2. QED
      BY <1>0, <2>1, <3>1 DEF ClaimsOK, TriesReached
  <2>3. \A b \in Children : Made(b) /\ StepOf(b) = k => b = c
    BY <1>0, <2>2 DEF ClaimsOK, OneClaimPerAttempt, OneChildPerAttempt
  <2>4. \A b \in Children : StepOf(b) = k => child[b].status \notin Live
    BY <2>3 DEF Made, Over, Live, Final
  <2>5. \A d \in Dispatchers : Creating(d) /\ dispatcher[d].at = k => dispatcher[d].try = 0
    <3>1. \A d \in Dispatchers : dispatcher[d].try \in Nat
      BY <1>0, TypeParts DEF DispatcherType
    <3>2. QED
      BY <1>0, <2>1, <3>1 DEF ClaimsOK, TriesReached
  <2>6. \A d \in Dispatchers : ~(Creating(d) /\ dispatcher[d].at = k)
    BY <1>0, <2>2, <2>5 DEF ClaimsOK, OneClaimPerAttempt
  <2>7. QED
    BY <2>4, <2>6 DEF NoClaimWon, Creating
<1>2. QED
  BY <1>0, <1>1, ToldEffect DEF RowsKept

(* Telling the parent of a child keeps the invariant. *)
LEMMA TellKeeps ==
  ASSUME IInv, TypeOK', NEW d \in Dispatchers, TellParent(d)
  PROVE  ClaimsOK' /\ TellsHoldClaim'
<1>0. /\ TypeOK /\ ClaimsOK /\ TellsHoldClaim
      /\ dispatcher \in [Dispatchers -> DispatcherType] /\ told \in [Children -> Nat]
      /\ child' = child /\ faults' = faults /\ dispatcher[d].pc = "tell"
  BY TypeParts DEF IInv, TellParent, counters
<1>1. PICK c \in dispatcher[d].kids : step' = Told(c) /\ told' = [told EXCEPT ![c] = @ + 1]
  BY DEF TellParent
<1>2. c \in Children /\ Telling(d, c) /\ Over(c)
  BY <1>0, <1>1 DEF DispatcherType, Telling, TellsHoldClaim
<1>3. /\ dispatcher'[d].pc = "pass"
      /\ \A e \in Dispatchers \ {d} : dispatcher'[e] = dispatcher[e]
  BY <1>0, KidsEffect DEF TellParent
<1>4. NoClaimWon /\ NoTellWon
  BY <1>3, DispatcherMoves
<1>5. ClaimsOK'
  BY <1>0, <1>1, <1>2, <1>4, ToldRows, NothingMoves, ClaimsKept
<1>6. TellsHoldClaim'
  <2>1. \A e \in Dispatchers, k \in Children : Telling(e, k)' => Telling(e, k) /\ k # c
    BY <1>0, <1>2, <1>3 DEF Telling, TellsHoldClaim
  <2>2. child[c].recorded /\ \A k \in Children \ {c} : told'[k] = told[k]
    BY <1>0, <1>1, <1>2 DEF TellsHoldClaim
  <2>3. QED
    BY <1>0, <2>1, <2>2 DEF TellsHoldClaim, Over
<1>7. QED
  BY <1>5, <1>6

(* advance of the child: the claim and the hand-over.                      *)
LEMMA ClaimChildKeeps ==
  ASSUME IInv, TypeOK', NEW c \in Children, ClaimChild(c)
  PROVE  ClaimsOK' /\ TellsHoldClaim'
<1>0. /\ TypeOK /\ ClaimsOK /\ TellsHoldClaim /\ child \in [Children -> ChildType]
      /\ told \in [Children -> Nat]
      /\ dispatcher' = dispatcher /\ faults' = faults /\ Over(c)
  BY TypeParts DEF IInv, ClaimChild, counters
<1>1. ChildrenKept /\ NoClaimWon /\ NoTellWon
  BY <1>0, ChildMoves, NothingMoves
<1>2. CASE child[c].busy \/ child[c].recorded
  BY <1>0, <1>1, <1>2, NothingMoves, ClaimsKept, TellsKept DEF ClaimChild
<1>3. CASE ~(child[c].busy \/ child[c].recorded)
  <2>1. step' = Told(c) /\ told' = [told EXCEPT ![c] = @ + 1]
    BY <1>3 DEF ClaimChild
  <2>2. ClaimsOK'
    BY <1>0, <1>1, <2>1, ToldRows, NothingMoves, ClaimsKept
  <2>3. child'[c].recorded
    BY <1>0, <1>3 DEF ClaimChild, ChildType
  <2>4. \A e \in Dispatchers : ~Telling(e, c)
    BY <1>0, <1>3 DEF TellsHoldClaim
  <2>5. \A k \in Children \ {c} : told'[k] = told[k]
    BY <1>0, <2>1
  <2>6. TellsHoldClaim'
    BY <1>0, <1>1, <2>3, <2>4, <2>5 DEF TellsHoldClaim, ChildrenKept, Telling, Over
  <2>7. QED
    BY <2>2, <2>6
<1>4. QED
  BY <1>2, <1>3

(* fail_task_step: before the claim the row is ready, so nobody holds it;  *)
(* after the claim this dispatcher holds it.                               *)
LEMMA FailKeeps ==
  ASSUME IInv, TypeOK', NEW d \in Dispatchers, FailBeforeClaim(d) \/ FailAfterClaim(d)
  PROVE  ClaimsOK' /\ TellsHoldClaim'
<1> DEFINE s == dispatcher[d].at
<1>0. /\ TypeOK /\ ClaimsOK /\ TellsHoldClaim /\ s \in Steps
      /\ dispatcher \in [Dispatchers -> DispatcherType] /\ step \in [Steps -> StepType]
      /\ child' = child /\ told' = told /\ faults' = faults /\ NextStep(d)
  BY TypeParts DEF IInv, FailBeforeClaim, FailAfterClaim, FailDispatch, counters,
                   ClaimsOK, TriesReached
<1>1. NoClaimWon /\ NoTellWon
  BY <1>0, NextStepEffect, DispatcherMoves
<1>2. CASE step' = step
  BY <1>0, <1>1, <1>2, NothingMoves, ClaimsKept, TellsKept
<1>3. CASE step' # step
  <2>1. /\ step' = [step EXCEPT ![s].status = "failed"]
        /\ \/ step[s].status = "ready"
           \/ Creating(d) /\ step[s].stamp = dispatcher[d].pin
    BY <1>3 DEF FailBeforeClaim, FailAfterClaim, FailDispatch, Creating
  <2>2. ASSUME InTime(s)
        PROVE  /\ \A e \in Dispatchers : ~(Creating(e)' /\ dispatcher'[e].at = s)
               /\ \A b \in Children : StepOf(b) = s => child[b].status \notin Live
    <3>1. step[s].attempt = 0
      BY <1>0, <2>2 DEF ClaimsOK, FirstAttempt
    <3>2. \A b \in Children : Made(b) /\ StepOf(b) = s => TryOf(b) = 0
      <4>1. \A b \in Children : TryOf(b) \in Nat
        BY TreeAssumption DEF Children, TryOf
      <4>2. QED
        BY <1>0, <3>1, <4>1 DEF ClaimsOK, TriesReached
    <3>3. \A e \in Dispatchers : Creating(e) /\ dispatcher[e].at = s => dispatcher[e].try = 0
      <4>1. \A e \in Dispatchers : dispatcher[e].try \in Nat
        BY <1>0 DEF DispatcherType
      <4>2. QED
        BY <1>0, <3>1, <4>1 DEF ClaimsOK, TriesReached
    <3>4. /\ \A e \in Dispatchers \ {d} : ~(Creating(e) /\ dispatcher[e].at = s)
          /\ \A b \in Children : StepOf(b) = s => ~Made(b)
      BY <1>0, <2>1, <3>1, <3>2, <3>3 DEF ClaimsOK, ReadyIsUnclaimed, OneClaimPerAttempt
    <3>5. dispatcher'[d].pc = "pass" /\ \A e \in Dispatchers \ {d} : dispatcher'[e] = dispatcher[e]
      BY <1>0, NextStepEffect
    <3>6. QED
      BY <3>4, <3>5 DEF Creating, Made, Live
  <2>3. RowsKept
    BY <1>0, <2>1, <2>2 DEF RowsKept, StepType
  <2>4. QED
    BY <1>0, <1>1, <2>3, NothingMoves, ClaimsKept, TellsKept
<1>4. QED
  BY <1>2, <1>3

(* The invariant holds initially. *)
LEMMA InvInit == Init => IInv
<1> SUFFICES ASSUME Init PROVE ClaimsOK /\ TellsHoldClaim
  BY TypeInit DEF IInv
<1>1. /\ \A c \in Children : child[c] = NoChild /\ told[c] = 0 /\ ~Made(c) /\ ~child[c].recorded
      /\ \A d \in Dispatchers : dispatcher[d].pc = "idle"
      /\ \A s \in Steps : step[s].attempt = 0 /\ step[s].status = "ready"
      /\ \A c \in Children : child[c].status \notin Live
  BY DEF Init, NoChild, IdleDispatcher, Made, Live
<1>2. TriesReached /\ ReadyIsUnclaimed /\ OneClaimPerAttempt /\ MadeHasPin /\ TellsHoldClaim
  BY <1>1 DEF TriesReached, ReadyIsUnclaimed, OneClaimPerAttempt, OneChildPerAttempt,
              MadeHasPin, TellsHoldClaim, Creating, Telling
<1>3. ClaimAtStamp /\ ChildAtStamp /\ FirstAttempt /\ FailedIsUnclaimed /\ LoserCannotFail
  BY <1>1 DEF ClaimAtStamp, ChildAtStamp, FirstAttempt, FailedIsUnclaimed, LoserCannotFail,
              Creating
<1>4. QED
  BY <1>2, <1>3 DEF ClaimsOK

(* Every step keeps it. *)
LEMMA InvStep == IInv /\ [Next]_vars => IInv'
<1> SUFFICES ASSUME IInv, [Next]_vars PROVE ClaimsOK' /\ TellsHoldClaim'
  BY TypeStep DEF IInv
<1>0. TypeOK /\ TypeOK' /\ ClaimsOK /\ TellsHoldClaim
  BY TypeStep DEF IInv
<1>t. dispatcher \in [Dispatchers -> DispatcherType] /\ step \in [Steps -> StepType]
  BY <1>0, TypeParts
<1>k. ASSUME NoClaimWon, NoTellWon, RowsKept, ChildrenKept, FaultsKept, told' = told
      PROVE  ClaimsOK' /\ TellsHoldClaim'
  BY <1>0, <1>k, ClaimsKept, TellsKept
<1>1. ASSUME NEW d \in Dispatchers, ReadSteps(d) PROVE ClaimsOK' /\ TellsHoldClaim'
  <2>1. [s \in Steps |-> IF step[s].status = "ready" THEN step[s].stamp ELSE "unseen"]
          \in [Steps -> Stamps \cup {"unseen"}]
    BY <1>t DEF StepType
  <2>2. dispatcher'[d].pc = "pass" /\ \A e \in Dispatchers \ {d} : dispatcher'[e] = dispatcher[e]
    BY <1>t, <1>1, <2>1, DispatcherStates DEF ReadSteps
  <2>3. NoClaimWon /\ NoTellWon
    BY <2>2, DispatcherMoves
  <2>4. QED
    BY <1>1, <1>k, <2>3, NothingMoves DEF ReadSteps
<1>2. ASSUME NEW d \in Dispatchers, NEW s \in Steps, UseStamp(d, s)
      PROVE  ClaimsOK' /\ TellsHoldClaim'
  <2>1. dispatcher[d].seen[s] \in Stamps
    BY <1>t, <1>2 DEF UseStamp, DispatcherType
  <2>2. NoClaimWon /\ NoTellWon
    BY <1>t, <1>2, <2>1, TakeEffect, DispatcherMoves DEF UseStamp
  <2>3. QED
    BY <1>2, <1>k, <2>2, NothingMoves DEF UseStamp, counters
<1>3. ASSUME NEW d \in Dispatchers, SettleParent(d) PROVE ClaimsOK' /\ TellsHoldClaim'
  <2>1. dispatcher'[d].pc = "idle" /\ \A e \in Dispatchers \ {d} : dispatcher'[e] = dispatcher[e]
    BY <1>t, <1>3 DEF SettleParent, IdleDispatcher
  <2>2. QED
    BY <1>3, <1>k, <2>1, NothingMoves, DispatcherMoves DEF SettleParent, counters
<1>4. ASSUME NEW d \in Dispatchers, CrashDispatcher(d) PROVE ClaimsOK' /\ TellsHoldClaim'
  <2>1. dispatcher'[d].pc = "idle" /\ \A e \in Dispatchers \ {d} : dispatcher'[e] = dispatcher[e]
    BY <1>t, <1>4 DEF CrashDispatcher, IdleDispatcher
  <2>2. QED
    BY <1>0, <1>4, <1>k, <2>1, NothingMoves, DispatcherMoves DEF CrashDispatcher
<1>5. ASSUME NEW c \in Children, ChildStarts(c) \/ ChildEnds(c)
      PROVE  ClaimsOK' /\ TellsHoldClaim'
  BY <1>5, <1>k, NothingMoves, ChildMoves DEF ChildStarts, ChildEnds, counters
<1>6. ASSUME NEW c \in Children, CrashAdvance(c) PROVE ClaimsOK' /\ TellsHoldClaim'
  BY <1>0, <1>6, <1>k, NothingMoves, ChildMoves DEF CrashAdvance
<1>7. ASSUME NEW c \in Children, CancelChild(c) PROVE ClaimsOK' /\ TellsHoldClaim'
  BY <1>7, <1>k, NothingMoves, ChildMoves DEF CancelChild, counters
<1>8. ASSUME CancelJob PROVE ClaimsOK' /\ TellsHoldClaim'
  BY <1>0, <1>8, <1>k, NothingMoves DEF CancelJob
<1>9. ASSUME ListChildren \/ EndCancel PROVE ClaimsOK' /\ TellsHoldClaim'
  BY <1>9, <1>k, NothingMoves DEF ListChildren, EndCancel, counters
<1>10. ASSUME CancelSteps \/ CancelServerManaged PROVE ClaimsOK' /\ TellsHoldClaim'
  <2>1. RowsKept
    BY <1>t, <1>10 DEF CancelSteps, CancelServerManaged, RowsKept, StepType
  <2>2. QED
    BY <1>10, <1>k, <2>1, NothingMoves DEF CancelSteps, CancelServerManaged, counters
<1>11. CASE UNCHANGED vars
  BY <1>11, <1>k, NothingMoves DEF vars
<1>12. QED
  BY <1>0, <1>1, <1>2, <1>3, <1>4, <1>5, <1>6, <1>7, <1>8, <1>9, <1>10, <1>11, StampKeeps,
     ClaimKeeps, CreateKeeps, TimeOutKeeps, ReconcileKeeps, TellKeeps, ClaimChildKeeps, FailKeeps
     DEF Next, DispatcherStep, CancelStep

(* The inductive invariant holds of every behaviour.                       *)
THEOREM InvHolds == Spec => []IInv
<1>1. QED
  BY InvInit, InvStep, PTL DEF Spec

(* Rows, children and requests hold values of their kind.                  *)
THEOREM TypesHold == Spec => []TypeOK
<1>1. IInv => TypeOK
  BY DEF IInv
<1>2. QED
  BY <1>1, InvHolds, PTL

(* One attempt of a step starts at most one child job, however many        *)
(* advances of the parent run at once (claim_task_dispatch).               *)
THEOREM DispatchIsExclusive == Spec => []OneChildPerAttempt
<1>1. IInv => OneChildPerAttempt
  BY DEF IInv, ClaimsOK, OneClaimPerAttempt
<1>2. QED
  BY <1>1, InvHolds, PTL

(* A child runs at the commit its step is stamped with, although           *)
(* dispatchers may resolve the template to different commits.              *)
THEOREM ChildrenRunAtStamp == Spec => []ChildAtStamp
<1>1. IInv => ChildAtStamp
  BY DEF IInv, ClaimsOK
<1>2. QED
  BY <1>1, InvHolds, PTL

(* A dispatcher that lost the claim does not fail the step under the one   *)
(* that won it (fail_task_step).                                           *)
THEOREM LosersDoNotFail == Spec => []LoserCannotFail
<1>1. IInv => LoserCannotFail
  BY DEF IInv, ClaimsOK
<1>2. QED
  BY <1>1, InvHolds, PTL
-----------------------------------------------------------------------------
(***************************************************************************)
(* Refinement: what a task step may rely on about its children             *)
(***************************************************************************)

(* The refinement mapping's outcome of a child.                            *)
Ending(c) == IF Over(c) THEN child[c].status ELSE "none"

(* A step that changes nothing TaskCalls sees is a stuttering step of it.  *)
LEMMA CallsStutter ==
  ASSUME \A c \in Children : child'[c].pin = child[c].pin /\ Ending(c)' = Ending(c),
         told' = told
  PROVE  UNCHANGED Calls!vars
BY DEF Calls!vars, Ending

(* A child's step ends it, or changes nothing TaskCalls sees.              *)
LEMMA ChildRefines ==
  ASSUME IInv, NEW c \in Children,
         ChildStarts(c) \/ ChildEnds(c) \/ CrashAdvance(c) \/ CancelChild(c)
  PROVE  [Calls!Next]_(Calls!vars)
<1>1. TypeOK /\ MadeHasPin /\ told' = told
  BY DEF IInv, ClaimsOK, ChildStarts, ChildEnds, CrashAdvance, CancelChild, counters
<1>2. /\ child' \in [Children -> ChildType] /\ child \in [Children -> ChildType]
      /\ \A k \in Children \ {c} : child'[k] = child[k]
      /\ child'[c].pin = child[c].pin
      /\ child[c].status \in Final => child'[c].status = child[c].status
      /\ child'[c].status = "none" <=> child[c].status = "none"
  BY <1>1, ChildEffect, TypeParts
<1>3. CASE Ending(c)' = Ending(c)
  BY <1>1, <1>2, <1>3, CallsStutter DEF Ending, Over
<1>4. CASE Ending(c)' # Ending(c)
  <2>1. ~Over(c) /\ child'[c].status \in Final /\ Ending(c) = "none"
    BY <1>2, <1>4 DEF Ending, Over, Final
  <2>2. child[c].pin # "none"
    BY <1>1, <1>2, <2>1 DEF MadeHasPin, Made, Final
  <2>3. Calls!End(c)
    BY <1>1, <1>2, <2>1, <2>2 DEF Calls!End, Ending, Over
  <2>4. QED
    BY <2>3 DEF Calls!Next
<1>5. QED
  BY <1>3, <1>4
(* A hand-over happens once, after the end.                                *)
LEMMA TellRefines ==
  ASSUME IInv, NEW c \in Children, Over(c), told[c] = 0,
         told' = [told EXCEPT ![c] = @ + 1],
         \A k \in Children : child'[k].pin = child[k].pin /\ Ending(k)' = Ending(k)
  PROVE  [Calls!Next]_(Calls!vars)
<1>1. told' = [told EXCEPT ![c] = 1]
  BY TypeParts DEF IInv
<1>2. Ending(c) # "none"
  BY DEF Ending, Over, Final
<1>3. Calls!Tell(c)
  BY <1>1, <1>2 DEF Calls!Tell, Ending
<1>4. QED
  BY <1>3 DEF Calls!Next

(* A child is made where there was none.                                   *)
LEMMA CreateRefines ==
  ASSUME IInv, NEW d \in Dispatchers, CreateChild(d)
  PROVE  [Calls!Next]_(Calls!vars)
<1> DEFINE s == dispatcher[d].at
           n == dispatcher[d].try
           q == ChildPin(dispatcher[d].pin)
<1>0. /\ TypeOK /\ ClaimsOK /\ s \in Steps /\ Creating(d) /\ told' = told
      /\ dispatcher \in [Dispatchers -> DispatcherType] /\ step \in [Steps -> StepType]
      /\ child \in [Children -> ChildType]
  BY TypeParts DEF IInv, CreateChild, counters, ClaimsOK, TriesReached, Creating
<1>1. PICK c : c = <<s, d, n>>
  OBVIOUS
<1>2. c \in Children /\ StepOf(c) = s /\ TryOf(c) = n
  BY <1>0, <1>1, ClaimedChild
<1>3. PICK born \in {"pending", "completed", "failed"} :
        child' = [child EXCEPT ![c] = [NoChild EXCEPT !.pin = q, !.status = born]]
  BY <1>1 DEF CreateChild
<1>4. /\ child'[c].pin = q /\ child'[c].status = born
      /\ born \in {"pending", "completed", "failed"}
      /\ \A k \in Children \ {c} : child'[k] = child[k]
  BY <1>0, <1>2, <1>3 DEF NoChild
<1>5. q \in Commits \cup {"live"}
  BY <1>0 DEF ChildPin, DispatcherType, Stamps
<1>6. child[c] = NoChild
  BY <1>0, <1>2 DEF ClaimsOK, OneClaimPerAttempt, MadeHasPin
<1>7. child[c].pin = "none"
  BY <1>6 DEF NoChild
<1>8. /\ [k \in Children |-> child'[k].pin] = [[k \in Children |-> child[k].pin] EXCEPT ![c] = q]
      /\ [k \in Children |-> Ending(k)'] = [[k \in Children |-> Ending(k)] EXCEPT ![c] = Ending(c)']
  BY <1>2, <1>4 DEF Ending, Over
<1>9. Ending(c)' \in Final \cup {"none"}
  BY <1>2, <1>4 DEF Ending, Over, Final
<1>10. Calls!Make(c)
  BY <1>0, <1>2, <1>5, <1>7, <1>8, <1>9 DEF Calls!Make, Ending
<1>11. QED
  BY <1>2, <1>10 DEF Calls!Next

(* Every step is one of TaskCalls, or changes nothing it sees.             *)
LEMMA StepRefines == IInv /\ [Next]_vars => [Calls!Next]_(Calls!vars)
<1> SUFFICES ASSUME IInv, [Next]_vars PROVE [Calls!Next]_(Calls!vars)
  OBVIOUS
<1>0. TypeOK /\ TellsHoldClaim
  BY DEF IInv
<1>1. UNCHANGED <<child, told>> => UNCHANGED Calls!vars
  BY CallsStutter DEF Ending, Over
<1>2. ASSUME NEW d \in Dispatchers, Reconcile(d) PROVE UNCHANGED Calls!vars
  <2> DEFINE due == {c \in Children : Settled(c) /\ ~child[c].recorded}
  <2>1. told' = told
    BY <1>2 DEF Reconcile
  <2>2. CASE due = {}
    BY <1>1, <1>2, <2>1, <2>2 DEF Reconcile
  <2>3. CASE due # {}
    <3>1. PICK c \in due : child' = [child EXCEPT ![c].recorded = TRUE]
      BY <1>2, <2>3 DEF Reconcile
    <3>2. c \in Children /\ Over(c)
      BY <3>1 DEF Settled
    <3>3. \A k \in Children : child'[k].pin = child[k].pin /\ Ending(k)' = Ending(k)
      BY <1>0, <3>1, <3>2, ChildEffect DEF Ending, Over
    <3>4. QED
      BY <2>1, <3>3, CallsStutter
  <2>4. QED
    BY <2>2, <2>3
<1>3. ASSUME NEW d \in Dispatchers, TellParent(d) PROVE [Calls!Next]_(Calls!vars)
  <2>1. PICK c \in dispatcher[d].kids : told' = [told EXCEPT ![c] = @ + 1]
    BY <1>3 DEF TellParent
  <2>2. c \in Children /\ Over(c) /\ told[c] = 0
    BY <1>0, <1>3, <2>1, TypeParts DEF DispatcherType, TellsHoldClaim, Telling, TellParent
  <2>3. QED
    BY <1>3, <2>1, <2>2, TellRefines DEF TellParent, Ending, Over
<1>4. ASSUME NEW c \in Children, ClaimChild(c) PROVE [Calls!Next]_(Calls!vars)
  <2>1. \A k \in Children : child'[k].pin = child[k].pin /\ Ending(k)' = Ending(k)
    BY <1>0, <1>4, ChildEffect DEF ClaimChild, Ending, Over
  <2>2. CASE child[c].busy \/ child[c].recorded
    BY <1>4, <2>1, <2>2, CallsStutter DEF ClaimChild
  <2>3. CASE ~(child[c].busy \/ child[c].recorded)
    BY <1>0, <1>4, <2>1, <2>3, TellRefines DEF ClaimChild, TellsHoldClaim
  <2>4. QED
    BY <2>2, <2>3
<1>5. CASE UNCHANGED vars
  BY <1>1, <1>5 DEF vars
<1>6. ASSUME NEW d \in Dispatchers,
             \/ ReadSteps(d) \/ FailBeforeClaim(d) \/ FailAfterClaim(d) \/ ClaimDispatch(d)
             \/ SettleParent(d) \/ CrashDispatcher(d)
             \/ \E s \in Steps : StampPin(d, s) \/ UseStamp(d, s)
      PROVE  UNCHANGED <<child, told>>
  BY <1>6 DEF ReadSteps, FailBeforeClaim, FailAfterClaim, FailDispatch, ClaimDispatch,
              SettleParent, CrashDispatcher, StampPin, UseStamp
<1>7. ASSUME \/ CancelJob \/ CancelSteps \/ CancelServerManaged \/ ListChildren \/ EndCancel
             \/ \E s \in Steps : TimeOut(s)
      PROVE  UNCHANGED <<child, told>>
  BY <1>7 DEF CancelJob, CancelSteps, CancelServerManaged, ListChildren, EndCancel, TimeOut
<1>8. QED
  BY <1>1, <1>2, <1>3, <1>4, <1>5, <1>6, <1>7, ChildRefines, CreateRefines
     DEF Next, DispatcherStep, CancelStep

(* Concurrent dispatchers, workers, timeouts, cancels and crashes          *)
(* implement TaskCalls: a child is made at one commit, ends once, and its  *)
(* outcome is handed to the parent step at most once, after the end.       *)
THEOREM TreeImplementsCalls == Spec => ImplementsCalls
<1>1. Init => Calls!Init
  <2> SUFFICES ASSUME Init PROVE Calls!Init
    OBVIOUS
  <2>1. \A c \in Children : child[c].pin = "none" /\ Ending(c) = "none"
    BY DEF Init, NoChild, Ending, Over, Final
  <2>2. QED
    BY <2>1 DEF Init, Calls!Init, Ending
<1>2. QED
  BY <1>1, StepRefines, InvHolds, PTL DEF Spec, ImplementsCalls, Calls!Spec
=============================================================================
