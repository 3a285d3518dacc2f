----------------------------- MODULE AgentTools -----------------------------
(***************************************************************************)
(* One multi-turn agent step.  A worker claims it, calls the model, and    *)
(* for task tools creates child jobs, saves the conversation in            *)
(* job_step.agent_state and goes away; the step stays running.  The end of *)
(* every child is propagated into the saved conversation, and the last one *)
(* makes the step ready again.  A child may end before its id is saved     *)
(* (the registration barrier), so saving replays the children that are     *)
(* over.  ask_user suspends the step until the user answers.               *)
(*                                                                         *)
(* A propagation, and a user's answer, read agent_state, write it back     *)
(* whole, and release the step in three database accesses; each is an      *)
(* action.  Nothing compares what is written with what was read.           *)
(***************************************************************************)
EXTENDS Naturals, FiniteSets

CONSTANTS
  Calls,         \* task tool calls; a call names its child job
  AgentWorkers,
  AgentUsers,    \* requests to the approve endpoint
  MaxParallel,   \* bound: task tools called in one response
  MaxTurns,      \* action.max_turns
  Interactive    \* action.interactive

ASSUME AgentAssumption ==
  MaxParallel \in Nat /\ MaxTurns \in Nat /\ Interactive \in BOOLEAN

VARIABLES
  status,    \* job_step.status
  saved,     \* job_step.agent_state
  tool,      \* [Calls -> "none", "live" or "over"]: the child jobs
  worker,    \* [AgentWorkers -> [pc, conv, todo]]
  prop,      \* propagations in progress: [Props -> [pc, conv]]
  answer,    \* the requests: [AgentUsers -> [pc, conv]]
  lostUpdate,\* ghost: a write-back changed what is awaited behind another
  stale      \* ghost: a write-back was of a copy that was not the saved one

agentVars == <<status, saved, tool, worker, prop, answer, lostUpdate, stale>>

(* AgentConversationState: the tool calls of its messages, those answered  *)
(* in them, those whose child is awaited and those whose result waits to   *)
(* be injected.                                                            *)
NewConv == [asked |-> {}, answered |-> {}, pending |-> {}, results |-> {},
            turn |-> 0, ask |-> FALSE]

(* The child's own terminal handling, and the replay at registration. *)
Props == Calls \X {"own", "replay"}
CallOf(p) == p[1]

IdleWorker == [pc |-> "idle", conv |-> NewConv, todo |-> {}]
IdleProp == [pc |-> "idle", conv |-> NewConv]
NewAnswer == [pc |-> "new", conv |-> NewConv]
Done == {"completed", "failed"}

AgentInit ==
  /\ status = "ready" /\ saved = NewConv
  /\ tool = [c \in Calls |-> "none"]
  /\ worker = [w \in AgentWorkers |-> IdleWorker]
  /\ prop = [p \in Props |-> IdleProp]
  /\ answer = [u \in AgentUsers |-> NewAnswer]
  /\ lostUpdate = FALSE /\ stale = FALSE

-----------------------------------------------------------------------------
(***************************************************************************)
(* dispatch_agent_loop on a worker                                         *)
(***************************************************************************)

(* Mutant: the results are cleared before they are in the messages. *)
InjectNothing(conv) == [conv EXCEPT !.results = {}]

(* Resolved results become messages; only then are they cleared. *)
Inject(conv) == [conv EXCEPT !.answered = @ \cup conv.results, !.results = {}]

ClaimAgent(w) ==
  /\ status = "ready" /\ worker[w].pc = "idle"
  /\ status' = "running"
  /\ worker' = [worker EXCEPT ![w] = [IdleWorker EXCEPT !.pc = "turn", !.conv = Inject(saved)]]
  /\ UNCHANGED <<saved, tool, prop, answer, lostUpdate, stale>>

(* complete_step: the worker's final report. *)
Report(w, outcome) ==
  /\ status' = outcome
  /\ worker' = [worker EXCEPT ![w] = IdleWorker]
  /\ UNCHANGED <<saved, tool, prop, answer, lostUpdate, stale>>

Turn(w) == worker[w].conv.turn + 1

HasTurn(w) == Turn(w) <= MaxTurns

(* Cancelled, out of turns, or the model call failed. *)
AgentFails(w) == worker[w].pc = "turn" /\ Report(w, "failed")

AgentAnswers(w) == worker[w].pc = "turn" /\ HasTurn(w) /\ Report(w, "completed")

(* MCP tools, unknown tools and a refused ask_user are answered in place. *)
CallsInline(w) ==
  /\ worker[w].pc = "turn" /\ HasTurn(w)
  /\ worker' = [worker EXCEPT ![w].conv.turn = Turn(w)]
  /\ UNCHANGED <<status, saved, tool, prop, answer, lostUpdate, stale>>

CallsTasks(w) ==
  /\ worker[w].pc = "turn" /\ HasTurn(w)
  /\ \E S \in SUBSET {c \in Calls : tool[c] = "none"} :
       /\ S # {} /\ Cardinality(S) <= MaxParallel
       /\ LET conv == worker[w].conv IN
            worker' = [worker EXCEPT ![w] =
              [pc |-> "create", todo |-> S,
               conv |-> [conv EXCEPT !.turn = Turn(w), !.asked = conv.asked \cup S]]]
  /\ UNCHANGED <<status, saved, tool, prop, answer, lostUpdate, stale>>

(* agent_task_tool: one child job per call. *)
CreateToolJob(w) ==
  /\ worker[w].pc = "create"
  /\ \E c \in worker[w].todo :
       /\ tool[c] = "none"
       /\ tool' = [tool EXCEPT ![c] = "live"]
       /\ LET conv == worker[w].conv IN
            worker' = [worker EXCEPT ![w] =
              [pc |-> IF worker[w].todo = {c} THEN "save" ELSE "create",
               todo |-> worker[w].todo \ {c},
               conv |-> [conv EXCEPT !.pending = conv.pending \cup {c}]]]
  /\ UNCHANGED <<status, saved, prop, answer, lostUpdate, stale>>

(* The child cannot be created, or is over at once: BornTerminal. *)
ToolJobFails(w) == worker[w].pc = "create" /\ Report(w, "failed")

(* agent_save_state, first access. *)
SaveState(w) ==
  /\ worker[w].pc = "save"
  /\ saved' = worker[w].conv
  /\ worker' = [worker EXCEPT ![w] = [IdleWorker EXCEPT !.pc = "register"]]
  /\ UNCHANGED <<status, tool, prop, answer, lostUpdate, stale>>

(* Mutant: nobody looks for children that are over already. *)
RegisterOnly(w) ==
  /\ worker[w].pc = "register"
  /\ worker' = [worker EXCEPT ![w] = IdleWorker]
  /\ UNCHANGED <<status, saved, tool, prop, answer, lostUpdate, stale>>

(* agent_children_registered: the awaited children, one after another; the *)
(* ones that are over are propagated once more.                            *)
RegisterChildren(w) ==
  /\ worker[w].pc = "register"
  /\ worker' = [worker EXCEPT ![w].pc = "replay", ![w].todo = saved.pending]
  /\ UNCHANGED <<status, saved, tool, prop, answer, lostUpdate, stale>>

ReplayChild(w) ==
  /\ worker[w].pc = "replay" /\ \A c \in Calls : prop[<<c, "replay">>].pc = "idle"
  /\ IF worker[w].todo = {}
     THEN worker' = [worker EXCEPT ![w] = IdleWorker] /\ UNCHANGED prop
     ELSE \E c \in worker[w].todo :
            /\ worker' = [worker EXCEPT ![w].todo = @ \ {c}]
            /\ prop' = [prop EXCEPT ![<<c, "replay">>].pc =
                          IF tool[c] = "over" THEN "read" ELSE "idle"]
  /\ UNCHANGED <<status, saved, tool, answer, lostUpdate, stale>>

(* ask_user: agent_suspend_step saves the conversation (no child is        *)
(* awaited), then suspends a running step.                                 *)
AsksUser(w) ==
  /\ Interactive /\ worker[w].pc = "turn" /\ HasTurn(w)
  /\ saved' = [worker[w].conv EXCEPT !.turn = Turn(w), !.ask = TRUE]
  /\ worker' = [worker EXCEPT ![w] = [IdleWorker EXCEPT !.pc = "suspend"]]
  /\ UNCHANGED <<status, tool, prop, answer, lostUpdate, stale>>

SuspendAgent(w) ==
  /\ worker[w].pc = "suspend"
  /\ status' = IF status = "running" THEN "suspended" ELSE status
  /\ worker' = [worker EXCEPT ![w] = IdleWorker]
  /\ UNCHANGED <<saved, tool, prop, answer, lostUpdate, stale>>

(* approve_step for ask_user: the rows are read, the answer is added to    *)
(* the copy and written back, then a suspended step becomes ready.         *)
UserReads(u) ==
  /\ status = "suspended" /\ answer[u].pc = "new"
  /\ answer' = [answer EXCEPT ![u] = [pc |-> "write", conv |-> saved]]
  /\ UNCHANGED <<status, saved, tool, worker, prop, lostUpdate, stale>>

UserWrites(u) ==
  /\ answer[u].pc = "write"
  /\ saved' = [answer[u].conv EXCEPT !.ask = FALSE]
  /\ answer' = [answer EXCEPT ![u] = [NewAnswer EXCEPT !.pc = "release"]]
  /\ lostUpdate' = (lostUpdate \/ answer[u].conv.pending # saved.pending)
  /\ stale' = (stale \/ answer[u].conv # saved)
  /\ UNCHANGED <<status, tool, worker, prop>>

UserReleases(u) ==
  /\ answer[u].pc = "release"
  /\ status' = IF status = "suspended" THEN "ready" ELSE status
  /\ answer' = [answer EXCEPT ![u].pc = "done"]
  /\ UNCHANGED <<saved, tool, worker, prop, lostUpdate, stale>>

-----------------------------------------------------------------------------
(***************************************************************************)
(* The children and their propagation                                      *)
(***************************************************************************)

ToolEnds(c) ==
  /\ tool[c] = "live"
  /\ tool' = [tool EXCEPT ![c] = "over"]
  /\ prop' = [prop EXCEPT ![<<c, "own">>].pc = "read"]
  /\ UNCHANGED <<status, saved, worker, answer, lostUpdate, stale>>

(* A child that is not registered is left to the replay. *)
PropRead(p) ==
  /\ prop[p].pc = "read"
  /\ prop' = [prop EXCEPT ![p] = IF CallOf(p) \in saved.pending
                                 THEN [pc |-> "write", conv |-> saved] ELSE IdleProp]
  /\ UNCHANGED <<status, saved, tool, worker, answer, lostUpdate, stale>>

(* resolve_tool_call, and the whole state is written back. *)
Resolve(conv, c) == [conv EXCEPT !.pending = @ \ {c}, !.results = @ \cup {c}]

PropWrite(p) ==
  LET conv == Resolve(prop[p].conv, CallOf(p)) IN
  /\ prop[p].pc = "write"
  /\ saved' = conv
  /\ prop' = [prop EXCEPT ![p] = IF conv.pending = {} THEN [IdleProp EXCEPT !.pc = "release"]
                                 ELSE IdleProp]
  /\ lostUpdate' = (lostUpdate \/ conv.pending \ saved.pending # {})
  /\ stale' = (stale \/ prop[p].conv # saved)
  /\ UNCHANGED <<status, tool, worker, answer>>

PropRelease(p) ==
  /\ prop[p].pc = "release"
  /\ status' = IF status = "running" THEN "ready" ELSE status
  /\ prop' = [prop EXCEPT ![p] = IdleProp]
  /\ UNCHANGED <<saved, tool, worker, answer, lostUpdate, stale>>

-----------------------------------------------------------------------------
WorkerStep(w) ==
  \/ AgentFails(w) \/ AgentAnswers(w) \/ CallsInline(w) \/ CallsTasks(w)
  \/ CreateToolJob(w) \/ ToolJobFails(w) \/ SaveState(w)
  \/ RegisterChildren(w) \/ ReplayChild(w) \/ AsksUser(w) \/ SuspendAgent(w)

PropStep(p) == PropRead(p) \/ PropWrite(p) \/ PropRelease(p)

AgentNext ==
  \/ \E w \in AgentWorkers : ClaimAgent(w) \/ WorkerStep(w)
  \/ \E c \in Calls : ToolEnds(c)
  \/ \E p \in Props : PropStep(p)
  \/ \E u \in AgentUsers : UserReads(u) \/ UserWrites(u) \/ UserReleases(u)

AgentSpec == AgentInit /\ [][AgentNext]_agentVars

-----------------------------------------------------------------------------
(***************************************************************************)
(* Properties                                                              *)
(***************************************************************************)

(* The calls of which a conversation still knows. *)
Held(conv) == conv.answered \cup conv.results \cup conv.pending

(* Safety: no child job is forgotten.  While the step is not over, every   *)
(* child that was created is known to the saved conversation, or to the    *)
(* worker that creates children and has not saved yet; the saved           *)
(* conversation knows of every call the model made; and only children that *)
(* are over have results.  So a worker's save, which compares nothing,     *)
(* never overwrites a result, a registration or an answer that came in     *)
(* since it claimed the step, and a child that ends before its             *)
(* registration is not dropped (agent_save_state, the replay of            *)
(* agent_children_registered, the early return of propagate.rs).  Not      *)
(* claimed once a propagation or an answer wrote back a copy that was not  *)
(* the saved one any more, which nothing compares: see AgentResumes.       *)
NoCallForgotten ==
  \/ stale
  \/ status \in Done
  \/ /\ \A c \in Calls :
          tool[c] # "none" =>
            \/ c \in Held(saved)
            \/ \E w \in AgentWorkers :
                 worker[w].pc \in {"create", "save"} /\ c \in worker[w].conv.pending
     /\ saved.asked = Held(saved)
     /\ \A c \in saved.answered \cup saved.results : tool[c] = "over"

(* Liveness: a step whose worker went away while its children run does not *)
(* stay running, whether a child ends before or after it is registered,    *)
(* unless a propagation or an answer wrote back, behind another, what is   *)
(* still awaited (propagate.rs and agent_children_registered).             *)
AgentResumesUnlessLost == status = "running" ~> (status # "running" \/ lostUpdate)

(* Comment in the worker's poller: a step left running "will be re-claimed *)
(* once child jobs finish or user approves" (poller.rs).                   *)
AgentResumes == status = "running" ~> status # "running"
=============================================================================
