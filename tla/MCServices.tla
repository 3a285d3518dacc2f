----------------------------- MODULE MCServices ------------------------------
(***************************************************************************)
(* Services beside the step engine that share no state: the watcher of a   *)
(* workspace, the approval gate, the agent loop with its tool jobs, and    *)
(* the pin store with its refs.  One run checks them side by side: service *)
(* says which of them runs, and the others stay where they began.          *)
(***************************************************************************)
EXTENDS WorkspaceReload, Approvals, AgentTools, PinStore, PinResolve

CONSTANTS d1, d2, u1, u2, k1, k2, w1, w2, c1, q1, q2, r1, r2

VARIABLE service

serviceVars == <<service, reloadVars, approvalVars, agentVars,
                 pinVars, resolveVars>>

Init ==
  /\ service \in {"reload", "approvals", "agent", "pins", "refs"}
  /\ ReloadInit /\ ApprovalInit /\ AgentInit /\ PinInit /\ ResolveInit
  /\ \A d \in Dispatchers : dispatcher[d] \in Creations => service = "approvals" /\ d = d1

Next ==
  /\ UNCHANGED service
  /\ \/ /\ service = "reload" /\ ReloadNext
        /\ UNCHANGED <<approvalVars, agentVars, pinVars, resolveVars>>
     \/ /\ service = "approvals" /\ ApprovalNext
        /\ UNCHANGED <<reloadVars, agentVars, pinVars, resolveVars>>
     \/ /\ service = "agent" /\ AgentNext
        /\ UNCHANGED <<reloadVars, approvalVars, pinVars, resolveVars>>
     \/ /\ service = "pins" /\ PinNext
        /\ UNCHANGED <<reloadVars, approvalVars, agentVars, resolveVars>>
     \/ /\ service = "refs" /\ ResolveNext
        /\ UNCHANGED <<reloadVars, approvalVars, agentVars, pinVars>>

(* Timers fire, tasks are scheduled, a load ends within its budget and     *)
(* returns its permit.  A peek need not end: PeekFinishes is not fair, but *)
(* an observer stops waiting (PeekTimedOut or PeekObserved).               *)
ReloadFairness ==
  /\ WF_reloadVars(service = "reload" /\ StartupLoad)
  /\ WF_reloadVars(service = "reload" /\ WatcherTick)
  /\ WF_reloadVars(service = "reload" /\ (PeekObserved \/ PeekTimedOut))
  /\ WF_reloadVars(service = "reload" /\ AdmitLoad)
  /\ WF_reloadVars(service = "reload" /\ ReloadClock)
  /\ WF_reloadVars(service = "reload" /\ OthersReturnPermit)
  /\ \A by \in Callers :
       WF_reloadVars(service = "reload" /\ (LoadReads(by) \/ LoadFinishes(by)))

(* A creation and an advance that began go on.  Nobody has to decide. *)
ApprovalFairness ==
  \A d \in Dispatchers : WF_approvalVars(service = "approvals" /\ Dispatch(d))

(* Workers poll and go on, children end, requests run on.  The user need   *)
(* not answer; an answer that was accepted is carried out.                 *)
AgentFairness ==
  /\ WF_agentVars(service = "agent" /\ \E w \in AgentWorkers : ClaimAgent(w))
  /\ \A w \in AgentWorkers : WF_agentVars(service = "agent" /\ WorkerStep(w))
  /\ \A c \in Calls : WF_agentVars(service = "agent" /\ ToolEnds(c))
  /\ \A p \in Props : WF_agentVars(service = "agent" /\ PropStep(p))
  /\ \A u \in AgentUsers :
       WF_agentVars(service = "agent" /\ (UserWrites(u) \/ UserReleases(u)))

Spec ==
  /\ Init /\ [][Next]_serviceVars
  /\ ReloadFairness /\ ApprovalFairness /\ AgentFairness

(* Liveness: once the source stays at a commit that loads, that commit is  *)
(* served and stays served, although every later peek may fail or hang and *)
(* admissions are skipped (watcher.rs, watcher_tick and peek_failed).      *)
WorkspaceFollows == service = "reload" => WorkspaceConverges
=============================================================================
