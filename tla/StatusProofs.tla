---------------------------- MODULE StatusProofs ----------------------------
(***************************************************************************)
(* What a status says is consistent: PhaseIsDerived, for every value of the *)
(* constants under the conditions of StickyProofs.                          *)
(***************************************************************************)
EXTENDS StickyProofs

(* Phase, Ready condition and exit code agree on the server, and at every   *)
(* moment in the copy of the pass.                                          *)
DerivedInv ==
  /\ tunnel # None => Derived(tunnel.status)
  /\ pc # "idle" => Derived(draft)

-----------------------------------------------------------------------------
(* The copy of the pass.                                                    *)

VerdictReasons == TerminalReasons \cup RetryReasons

LEMMA NotReadyDerived ==
  ASSUME NEW status \in Statuses, NEW phase, NEW reason,
         phase \notin {"Active", "Failed"},
         reason # "TunnelActive", reason \notin VerdictReasons
  PROVE  Derived(setNotReady(status, phase, reason))
  BY DEF Derived, setNotReady, Statuses, VerdictReasons

(* The three fields Derived is about.                                       *)
LEMMA DerivedReads ==
  ASSUME NEW status, NEW other, Derived(status),
         other.phase = status.phase,
         other.conditions.Ready = status.conditions.Ready,
         other.lastExitCode = status.lastExitCode
  PROVE  Derived(other)
  BY DEF Derived, Earned

(* The reads before the decision set other conditions than Ready.           *)
LEMMA ReadKeepsReady ==
  ASSUME TypeInv, ReadSteps
  PROVE  /\ draft'.phase = draft.phase
         /\ draft'.conditions.Ready = draft.conditions.Ready
         /\ draft'.lastExitCode = draft.lastExitCode
  <1>1. draft \in Statuses
    BY DEF TypeInv, TypeOK
  <1>2. CASE ReadPod
    BY <1>1, <1>2 DEF ReadPod, Statuses
  <1>3. CASE checkToken
    BY <1>1, <1>3 DEF checkToken, Statuses
  <1>4. CASE resolveServicePort
    BY <1>1, <1>4 DEF resolveServicePort, Statuses
  <1>5. CASE hasReadyEndpoint
    <2> DEFINE address == <<orig.spec.backend, port>>
    <2>1. \/ draft' = [draft EXCEPT
                          !.conditions.BackendReady = "EndpointsReady",
                          !.backendAddress = address]
          \/ draft' = [draft EXCEPT
                          !.conditions.BackendReady = "NoReadyEndpoints"]
      BY <1>5 DEF hasReadyEndpoint
    <2> HIDE DEF address
    <2> QED BY <1>1, <2>1 DEF Statuses
  <1>6. CASE \E call \in {"getPod", "getSecret", "getService", "listSlices"} :
               ReadFails(call)
    BY <1>6 DEF ReadFails, Return
  <1> QED BY <1>2, <1>3, <1>4, <1>5, <1>6 DEF ReadSteps

(* The reason of a failed gate says neither Active nor Failed.              *)
LEMMA GateReason ==
  ASSUME TypeInv, pc = "converge", ~GatesOK,
         NEW reason, reason = IF token = None
                                THEN draft.conditions.TokenReady
                                ELSE draft.conditions.BackendReady
  PROVE  reason # "TunnelActive" /\ reason \notin VerdictReasons
  BY DataAssumption
  DEF TypeInv, PassInv, GatesOK, AllSecretFailures, AllServiceFailures,
      VerdictReasons, RetryReasons, TerminalReasons, TokenReasons

(* What applyVerdict blames: the exit it stores with it.                    *)
LEMMA BlameDerived ==
  ASSUME TypeInv, DecidingOn(existing), Judged,
         NEW phase, NEW verdict, NEW status,
         verdict = classifyPod(existing.agent, orig.spec.behavior),
         phase = IF verdict.terminal THEN "Failed" ELSE "Degraded",
         status = Blame(verdict, Termination(existing.agent))
  PROVE  /\ status \in Statuses
         /\ Derived(setNotReady(status, phase, verdict.reason))
  <1> DEFINE code == Termination(existing.agent)
  <1>1. draft \in Statuses
    BY DEF TypeInv, TypeOK
  <1>2. code \in ExitCodes \cup {NoCode}
    BY DEF TypeInv, TypeOK, DecidingOn, Pods, Agents, Termination
  <1>3. verdict = classifyExit(code, orig.spec.behavior)
    BY DEF classifyPod
  <1>4. status \in Statuses
    BY <1>1, <1>2, <1>3, BlameType
  <1>5. /\ code # NoCode /\ orig.spec.behavior \in Behaviors
        /\ phase = IF verdict.terminal THEN "Failed" ELSE "Degraded"
    <2>1. orig \in Tunnels
      BY DEF TypeInv, PassInv, DecidingOn, Deciding, Converging
    <2>2. code # NoCode
      BY DEF Judged, HasVerdict
    <2> QED BY <2>1, <2>2 DEF Tunnels, Specs
  <1>6. verdict.reason # "TunnelActive"
    BY <1>3, VerdictType DEF TerminalReasons, TokenReasons, RetryReasons
  <1>7. status.lastExitCode = code
    BY <1>1 DEF Blame, Statuses
  <1> DEFINE blamed == setNotReady(status, phase, verdict.reason)
  <1> HIDE DEF code
  <1>8. /\ blamed.phase = phase /\ blamed.conditions.Ready = verdict.reason
        /\ blamed.lastExitCode = code
    BY <1>4, <1>7 DEF setNotReady, Statuses
  <1> HIDE DEF blamed
  <1>9. Earned(blamed)
    BY <1>3, <1>5, <1>8 DEF Earned
  <1>10. blamed.phase # "Active"
    BY <1>5, <1>8
  <1>11. Derived(blamed)
    BY <1>6, <1>8, <1>9, <1>10 DEF Derived
  <1> QED BY <1>4, <1>11 DEF blamed

LEMMA TerminalDerived ==
  ASSUME TypeInv, ApplyTerminal PROVE Derived(draft')
  <1> DEFINE verdict == classifyPod(existing.agent, orig.spec.behavior)
             status  == Blame(verdict, Termination(existing.agent))
             failed  == setNotReady(status, "Failed", verdict.reason)
  <1>1. /\ DecidingOn(existing) /\ Judged
        /\ verdict.terminal /\ StopAgent(failed)
    BY Zenon DEF ApplyTerminal
  <1>2. status \in Statuses /\ Derived(failed)
    <2>1. /\ verdict = classifyPod(existing.agent, orig.spec.behavior)
          /\ status = Blame(verdict, Termination(existing.agent))
      OBVIOUS
    <2> HIDE DEF status, verdict
    <2> QED BY <1>1, <2>1, BlameDerived
  <1> HIDE DEF status, verdict
  <1>3. failed.phase = "Failed" /\ DOMAIN failed = DOMAIN status
    BY <1>2 DEF setNotReady, Statuses
  <1> HIDE DEF failed
  <1>4. draft' = failed \/ draft' = [failed EXCEPT !.podName = FALSE]
    BY <1>1 DEF StopAgent, Return
  <1>5. /\ draft'.phase = failed.phase
        /\ draft'.conditions.Ready = failed.conditions.Ready
        /\ draft'.lastExitCode = failed.lastExitCode
    BY <1>2, <1>3, <1>4 DEF Statuses
  <1> QED BY <1>2, <1>5, DerivedReads

(* The other decisions either fail, and leave phase and Ready as the pass   *)
(* found them, or set the two together.                                     *)
LEMMA DecisionDerived ==
  ASSUME TypeInv, Derived(draft), DecisionSteps PROVE Derived(draft')
  <1>1. draft \in Statuses
    BY DEF TypeInv, TypeOK
  <1>2. CASE WaitForTermination
    BY <1>1, <1>2, NotReadyDerived
    DEF WaitForTermination, Return, VerdictReasons, RetryReasons,
        TerminalReasons, TokenReasons
  <1>3. CASE CreatePod
    <2> DEFINE named == [draft EXCEPT !.podName = TRUE]
    <2>1. draft' = draft \/ draft' = setNotReady(named, "Pending", "PodPending")
      BY <1>3 DEF CreatePod, Return
    <2>2. named \in Statuses
      BY <1>1 DEF Statuses
    <2> HIDE DEF named
    <2> QED BY <2>1, <2>2, NotReadyDerived
        DEF VerdictReasons, RetryReasons, TerminalReasons, TokenReasons
  <1>4. CASE DeleteOutdated
    BY <1>1, <1>4, NotReadyDerived
    DEF DeleteOutdated, Return, VerdictReasons, RetryReasons,
        TerminalReasons, TokenReasons
  <1>5. CASE ApplyRetryable
    <2> DEFINE verdict == classifyPod(existing.agent, orig.spec.behavior)
               status  == Blame(verdict, Termination(existing.agent))
    <2>1. /\ DecidingOn(existing) /\ Judged /\ ~verdict.terminal
          /\ draft' = setNotReady(status, "Degraded", verdict.reason)
      BY <1>5, Zenon DEF ApplyRetryable, Return
    <2>2. /\ verdict = classifyPod(existing.agent, orig.spec.behavior)
          /\ status = Blame(verdict, Termination(existing.agent))
      OBVIOUS
    <2> HIDE DEF status, verdict
    <2> QED BY <2>1, <2>2, BlameDerived
  <1>6. CASE ApplyTerminal
    BY <1>6, TerminalDerived
  <1>7. CASE GateFails
    <2> DEFINE reason == IF token = None THEN draft.conditions.TokenReady
                                         ELSE draft.conditions.BackendReady
               phase == IF existing = None THEN "Pending" ELSE "Degraded"
    <2>1. pc = "converge" /\ ~GatesOK /\ draft' = setNotReady(draft, phase, reason)
      BY <1>7 DEF GateFails, Deciding, Converging, Return
    <2>2. reason # "TunnelActive" /\ reason \notin VerdictReasons
      BY <2>1, GateReason
    <2>3. phase # "Active" /\ phase # "Failed"
      OBVIOUS
    <2> HIDE DEF reason, phase
    <2> QED BY <1>1, <2>1, <2>2, <2>3, NotReadyDerived
  <1>8. CASE ReportActive
    <2> DEFINE active == [draft EXCEPT !.phase = "Active",
                                       !.conditions.Ready = "TunnelActive"]
    <2>1. /\ active.phase = "Active" /\ active.conditions.Ready = "TunnelActive"
          /\ active \in Statuses
      BY <1>1 DEF Statuses, Phases, ReadyConditions
    <2>2. \/ draft' = active
          \/ draft' = [active EXCEPT !.url = active.assignedSubdomain]
      BY <1>8 DEF ReportActive, Return
    <2> HIDE DEF active
    <2>3. /\ draft'.phase = "Active"
          /\ draft'.conditions.Ready = "TunnelActive"
      BY <2>1, <2>2 DEF Statuses
    <2> QED BY <2>3 DEF Derived, TerminalReasons, RetryReasons, TokenReasons
  <1>9. CASE ReportNotReady
    BY <1>1, <1>9, NotReadyDerived
    DEF ReportNotReady, Return, VerdictReasons, RetryReasons,
        TerminalReasons, TokenReasons
  <1> QED BY <1>2, <1>3, <1>4, <1>5, <1>6, <1>7, <1>8, <1>9 DEF DecisionSteps

-----------------------------------------------------------------------------
(* DerivedInv is inductive.                                                 *)

(* Steps of the world leave the locals of a pass alone.                     *)
SideSteps ==
  \/ SyncTunnel \/ SyncPod \/ RequeueAfter \/ World
  \/ EditSpec \/ DeleteTunnel \/ Kubernetes
  \/ SkipPass \/ GetTunnelFails \/ UNCHANGED vars

LEMMA SideKeepsPass == ASSUME TypeInv, SideSteps PROVE UNCHANGED pass
  <1>1. CASE World \/ Kubernetes \/ SyncPod \/ RequeueAfter \/ UNCHANGED vars
    BY <1>1, WorldIsSide, KubernetesIsSide, OtherStepsAreSide DEF SideStep
  <1>2. CASE EditSpec \/ DeleteTunnel
    BY <1>2, UsersAreSide DEF SideStep, Users
  <1>3. CASE SyncTunnel \/ SkipPass \/ GetTunnelFails
    BY <1>3 DEF SyncTunnel, SkipPass, GetTunnelFails
  <1> QED BY <1>1, <1>2, <1>3 DEF SideSteps

(* With no other writer, the patch installs the status of the pass.         *)
LEMMA PatchInstalls ==
  ASSUME TypeInv, StickyInv, patchStatus, tunnel' # tunnel
  PROVE  tunnel'.status = FinalStatus
  <1>1. tunnel # None /\ tunnel' = Patched /\ tunnel.status = orig.status
    BY PatchReports
  <1>2. tunnel \in Tunnels /\ orig \in Tunnels /\ draft \in Statuses
    BY <1>1 DEF TypeInv, TypeOK, PassInv, patchStatus
  <1>3. tunnel'.status = Merge(orig.status, orig.status, FinalStatus)
    BY <1>1, <1>2 DEF Patched, Tunnels
  <1>4. FinalStatus \in Statuses /\ orig.status \in Statuses
    BY <1>2 DEF FinalStatus, Tunnels, Statuses
  <1> HIDE DEF FinalStatus
  <1> QED BY <1>3, <1>4 DEF Merge, Statuses

LEMMA FinalDerived ==
  ASSUME TypeInv, Derived(draft) PROVE Derived(FinalStatus)
  <1>1. draft \in Statuses
    BY DEF TypeInv, TypeOK
  <1> QED BY <1>1, DerivedReads DEF FinalStatus, Statuses

LEMMA InitDerivedInv == Init => DerivedInv
  BY DEF Init, DerivedInv

LEMMA StepDerivedInv ==
  ASSUME ~CacheLag
  PROVE  TypeInv /\ StickyInv /\ WakeInv /\ DerivedInv /\ [Next]_vars
           => DerivedInv'
  <1> SUFFICES ASSUME TypeInv, StickyInv, WakeInv, DerivedInv, [Next]_vars
               PROVE  DerivedInv'
    OBVIOUS
  <1>1. CASE SideSteps
    BY <1>1, SideKeepsStatus, SideKeepsPass
    DEF SideSteps, KeepsStatus, pass, DerivedInv
  <1>2. CASE BeginPass
    <2>1. tunnel' = tunnel /\ cachedTunnel = tunnel /\ tunnel # None
      BY <1>2 DEF WakeInv, CacheFollows, BeginPass, StartPass,
                  NothingToDo
    <2>2. tunnel.status \in Statuses
      BY <2>1 DEF TypeInv, TypeOK, Tunnels
    <2>3. /\ draft'.phase = tunnel.status.phase
          /\ draft'.conditions = tunnel.status.conditions
          /\ draft'.lastExitCode = tunnel.status.lastExitCode
      BY <1>2, <2>1, <2>2 DEF BeginPass, Statuses
    <2> QED BY <2>1, <2>3, DerivedReads DEF DerivedInv
  <1>3. CASE ReadSteps
    <2>1. tunnel' = tunnel /\ pc # "idle"
      BY <1>3, ReadGoesOn DEF PassGoesOn
    <2> QED BY <1>3, <2>1, ReadKeepsReady, DerivedReads DEF DerivedInv
  <1>4. CASE DecisionSteps
    <2>1. tunnel' = tunnel /\ pc # "idle"
      BY <1>4, DecisionGoesOn DEF PassGoesOn
    <2> QED BY <1>4, <2>1, DecisionDerived DEF DerivedInv
  <1>5. CASE patchStatus
    <2>1. pc = "patch" /\ pc' = "idle"
      BY <1>5 DEF patchStatus, EndPass
    <2>2. CASE tunnel' = tunnel
      BY <2>1, <2>2 DEF DerivedInv
    <2>3. CASE tunnel' # tunnel
      BY <1>5, <2>1, <2>3, PatchInstalls, FinalDerived DEF DerivedInv
    <2> QED BY <2>2, <2>3
  <1>6. CASE CreateTunnel
    <2>1. tunnel'.status.phase = ""
      <3>1. PICK spec \in Specs :
              WriteTunnel([uid |-> incarnations + 1, generation |-> 1,
                           deleting |-> FALSE, spec |-> spec,
                           status |-> InitStatus])
        BY <1>6, Zenon DEF CreateTunnel
      <3> QED BY <3>1 DEF WriteTunnel, InitStatus
    <2>2. pc' = pc /\ draft' = draft
      BY <1>6 DEF CreateTunnel, KeepAllButTunnel, pass
    <2> QED BY <2>1, <2>2 DEF DerivedInv, Derived
  <1>7. CASE Crash
    BY <1>7 DEF Crash, DerivedInv
  <1>8. Reconcile => \/ SkipPass \/ GetTunnelFails \/ BeginPass
                     \/ ReadSteps \/ DecisionSteps \/ patchStatus
    BY Zenon DEF Reconcile, ReadSteps, DecisionSteps
  <1> QED BY <1>1, <1>2, <1>3, <1>4, <1>5, <1>6, <1>7, <1>8
          DEF Next, Manager, Users, SideSteps

(* Phase, Ready condition and exit code of a status agree, whichever passes *)
(* wrote them and whatever failed in between (setNotReady, applyVerdict,    *)
(* patchStatus): Failed or Degraded over an exit is what classifyExit says  *)
(* of that exit.                                                            *)
THEOREM PhaseAgrees ==
  ASSUME ~CacheLag
  PROVE  Spec /\ [][CreatedBetweenPasses]_vars => []PhaseIsDerived
  <1>1. DerivedInv => PhaseIsDerived
    BY DEF DerivedInv, PhaseIsDerived, Live
  <1>2. TypeInv /\ StickyInv /\ WakeInv /\ DerivedInv /\ [Next]_vars
          => DerivedInv'
    BY StepDerivedInv
  <1>3. TypeInv /\ WakeInv /\ StickyInv /\ [Next]_vars
          /\ [CreatedBetweenPasses]_vars => StickyInv'
    BY StepStickyInv
  <1> QED BY <1>1, <1>2, <1>3, InitTypeInv, StepTypeInv, InitWakeInv,
             StepWakeInv, InitStickyInv, InitDerivedInv, PTL DEF Spec
=============================================================================
