---------------------------- MODULE FailureProofs ----------------------------
(***************************************************************************)
(* What a recorded failure means: FailureIsExplained and FailureStopsAgent, *)
(* under the conditions of StickyProofs and with calls that succeed.  The   *)
(* last condition is needed, too: a pass that gives up half way pins an old *)
(* failure onto a new generation (run ClaimRetry), and a Delete that fails  *)
(* is never made up for (run ClaimStopped).  Status patches may fail, and   *)
(* the manager may crash, at any time.                                      *)
(***************************************************************************)
EXTENDS StatusProofs

CallsSucceed ==
  Faults \cap {"getPod", "getSecret", "getService", "listSlices", "create",
               "delete"} = {}

(* The failure is the verdict of the recorded exit.                         *)
Explained(status, behavior) ==
  LET verdict == classifyExit(status.lastExitCode, behavior)
  IN verdict.terminal /\ status.conditions.Ready = verdict.reason

Gone(p) == p = None \/ p.deleting

(* A generation has one spec.                                               *)
SameSpec ==
  pc # "idle" /\ tunnel # None /\ orig.generation = tunnel.generation
    => orig.spec = tunnel.spec

(* Nobody but a pass creates the pod, so it finds none where it saw none.   *)
PodFollows ==
  /\ ~podEvent => cachedPod = pod
  /\ pc \in {"getSecret", "getService", "listSlices", "converge"}
       /\ existing = None => pod = None

(* A failure is explained, and has stopped its agent, already in the draft  *)
(* that the patch is about to install.                                      *)
FailureInv ==
  /\ tunnel # None /\ Sticky(tunnel) =>
       Explained(tunnel.status, tunnel.spec.behavior) /\ Gone(pod)
  /\ pc = "patch" /\ draft.phase = "Failed" =>
       Explained(draft, orig.spec.behavior) /\ Gone(pod)

-----------------------------------------------------------------------------
(* The tunnel: an edit makes a new generation, nothing else changes a spec. *)

KeepsSpec ==
  tunnel' # None =>
    /\ tunnel # None
    /\ \/ tunnel'.spec = tunnel.spec /\ tunnel'.generation = tunnel.generation
       \/ tunnel'.generation = tunnel.generation + 1

LEMMA EditKeepsSpec == ASSUME TypeInv, EditSpec PROVE KeepsSpec
  <1>1. PICK spec \in Specs :
          WriteTunnel([tunnel EXCEPT !.spec = spec, !.generation = @ + 1])
    BY DEF EditSpec
  <1>2. tunnel \in Tunnels /\ tunnel # None
    BY DEF EditSpec, TypeInv, TypeOK
  <1>3. tunnel'.generation = tunnel.generation + 1
    BY <1>1, <1>2 DEF WriteTunnel, Tunnels
  <1> QED BY <1>2, <1>3 DEF KeepsSpec

LEMMA DeleteKeepsSpec == ASSUME TypeInv, DeleteTunnel PROVE KeepsSpec
  <1>1. tunnel \in Tunnels /\ tunnel # None
    BY DEF DeleteTunnel, TypeInv, TypeOK
  <1>2. CASE WriteTunnel(None)
    BY <1>2 DEF WriteTunnel, KeepsSpec
  <1>3. CASE WriteTunnel([tunnel EXCEPT !.deleting = TRUE])
    BY <1>1, <1>3 DEF WriteTunnel, Tunnels, KeepsSpec
  <1> QED BY <1>2, <1>3 DEF DeleteTunnel

LEMMA SideKeepsSpec == ASSUME TypeInv, SideSteps PROVE KeepsSpec
  <1>1. CASE World
    <2>1. Outside
      BY <1>1, Zenon DEF World, SecretChanges, ServiceChanges, EndpointsChange
    <2> QED BY <2>1 DEF Outside, KeepsSpec
  <1>2. CASE FinishForegroundDeletion
    BY <1>2 DEF FinishForegroundDeletion, WriteTunnel, KeepsSpec
  <1>3. CASE Kubernetes /\ ~FinishForegroundDeletion
    <2>1. KeepAllButPod
      BY <1>3, Zenon
      DEF Kubernetes, StartContainer, CrashLoopBackOff, BecomeReady,
          ProbeFails, AgentExits, PodDeleted, Evict, PodGone, CollectPod,
          AgentStep
    <2> QED BY <2>1 DEF KeepAllButPod, KeepsSpec
  <1>4. CASE SyncTunnel \/ SyncPod \/ RequeueAfter \/ SkipPass
               \/ GetTunnelFails \/ UNCHANGED vars
    BY <1>4 DEF SyncTunnel, SyncPod, RequeueAfter, SkipPass, GetTunnelFails,
                StartPass, vars, KeepsSpec
  <1> QED BY <1>1, <1>2, <1>3, <1>4, EditKeepsSpec, DeleteKeepsSpec
          DEF SideSteps

LEMMA StepSameSpec ==
  ASSUME ~CacheLag
  PROVE  TypeInv /\ WakeInv /\ StickyInv /\ SameSpec /\ [Next]_vars
           /\ [CreatedBetweenPasses]_vars => SameSpec'
  <1> SUFFICES ASSUME TypeInv, WakeInv, StickyInv, SameSpec, [Next]_vars,
                      [CreatedBetweenPasses]_vars
               PROVE  SameSpec'
    OBVIOUS
  <1>1. /\ tunnel # None => tunnel.generation \in Int
        /\ pc # "idle" => orig.generation \in Int
    BY BoundsAssumption DEF TypeInv, TypeOK, PassInv, Tunnels
  <1>2. CASE SideSteps
    BY <1>1, <1>2, SideKeepsSpec, SideKeepsPass
    DEF KeepsSpec, pass, SameSpec, StickyInv, PassOwnsStatus
  <1>3. CASE BeginPass
    BY <1>3 DEF WakeInv, CacheFollows, BeginPass, StartPass, SameSpec
  <1>4. CASE ReadSteps \/ DecisionSteps
    <2>1. UNCHANGED <<tunnel, orig>> /\ pc # "idle"
      BY <1>4, ReadGoesOn, DecisionGoesOn DEF PassGoesOn
    <2> QED BY <2>1 DEF SameSpec
  <1>5. CASE patchStatus \/ Crash
    BY <1>5 DEF patchStatus, EndPass, Crash, SameSpec
  <1>6. CASE CreateTunnel
    <2>1. incarnations' # incarnations
      BY <1>6, BoundsAssumption DEF CreateTunnel, TypeInv, TypeOK
    <2>2. pc = "idle" /\ pc' = pc
      BY <1>6, <2>1 DEF CreatedBetweenPasses, vars, bounds, CreateTunnel,
                        KeepAllButTunnel, pass
    <2> QED BY <2>2 DEF SameSpec
  <1>7. Reconcile => \/ SkipPass \/ GetTunnelFails \/ BeginPass
                     \/ ReadSteps \/ DecisionSteps \/ patchStatus
    BY Zenon DEF Reconcile, ReadSteps, DecisionSteps
  <1> QED BY <1>2, <1>3, <1>4, <1>5, <1>6, <1>7
          DEF Next, Manager, Users, SideSteps

-----------------------------------------------------------------------------
(* The pod.                                                                 *)

(* Outside of decisions a pod is changed, or removed, but never created,    *)
(* and one on its way out stays so.                                         *)
KeepsPodAway ==
  /\ Gone(pod) => Gone(pod')
  /\ pod = None => pod' = None
  /\ \/ UNCHANGED <<pod, podEvent, cachedPod>>
     \/ cachedPod' = cachedPod /\ \E p : WritePod(p)
     \/ cachedPod' = pod /\ UNCHANGED pod

LEMMA KubernetesPod == ASSUME TypeInv, Kubernetes PROVE KeepsPodAway
  <1> DEFINE agentSteps ==
        StartContainer \/ CrashLoopBackOff \/ BecomeReady \/ ProbeFails
          \/ AgentExits \/ Evict
  <1>1. CASE agentSteps
    <2>1. pod # None /\ ~pod.deleting /\ cachedPod' = cachedPod
      BY <1>1 DEF StartContainer, CrashLoopBackOff, BecomeReady, ProbeFails,
                  AgentExits, Evict, AgentStep, KeepAllButPod
    <2>2. \E p : WritePod(p)
      BY <1>1, Zenon
      DEF StartContainer, CrashLoopBackOff, BecomeReady, ProbeFails,
          AgentExits, Evict, SetAgent
    <2> QED BY <2>1, <2>2 DEF KeepsPodAway, Gone
  <1>2. CASE PodDeleted \/ CollectPod
    <2>1. pod # None /\ ~pod.deleting /\ cachedPod' = cachedPod
      BY <1>2 DEF PodDeleted, CollectPod, KeepAllButPod
    <2>2. \E p : WritePod(p)
      BY <1>2, Zenon DEF PodDeleted, CollectPod
    <2> QED BY <2>1, <2>2 DEF KeepsPodAway, Gone
  <1>3. CASE PodGone
    BY <1>3 DEF PodGone, KeepAllButPod, WritePod, KeepsPodAway, Gone
  <1>4. CASE FinishForegroundDeletion
    BY <1>4 DEF FinishForegroundDeletion, KeepAllButTunnel, KeepsPodAway, Gone
  <1> QED BY <1>1, <1>2, <1>3, <1>4 DEF Kubernetes

LEMMA SideKeepsPodAway == ASSUME TypeInv, SideSteps PROVE KeepsPodAway
  <1>1. CASE World
    <2>1. Outside
      BY <1>1, Zenon DEF World, SecretChanges, ServiceChanges, EndpointsChange
    <2> QED BY <2>1 DEF Outside, watches, KeepsPodAway, Gone
  <1>2. CASE EditSpec \/ DeleteTunnel
    <2>1. KeepAllButTunnel
      BY <1>2, Zenon DEF EditSpec, DeleteTunnel
    <2> QED BY <2>1 DEF KeepAllButTunnel, KeepsPodAway, Gone
  <1>3. CASE SyncPod
    BY <1>3 DEF SyncPod, KeepsPodAway, Gone
  <1>4. CASE SyncTunnel \/ RequeueAfter \/ SkipPass \/ GetTunnelFails
               \/ UNCHANGED vars
    BY <1>4 DEF SyncTunnel, RequeueAfter, SkipPass, GetTunnelFails, StartPass,
                vars, watches, KeepsPodAway, Gone
  <1> QED BY <1>1, <1>2, <1>3, <1>4, KubernetesPod DEF SideSteps

LEMMA ReadKeepsPod ==
  ASSUME ReadSteps PROVE UNCHANGED <<pod, podEvent, cachedPod>>
  <1>1. Local
    BY Zenon DEF ReadSteps, ReadPod, checkToken, resolveServicePort,
                 hasReadyEndpoint, ReadFails
  <1> QED BY <1>1 DEF Local, watches

LEMMA DecisionWritesPod ==
  ASSUME DecisionSteps
  PROVE  /\ pc' = "patch" /\ cachedPod' = cachedPod
         /\ UNCHANGED <<pod, podEvent>> \/ \E p : WritePod(p)
  <1>1. Converging
    BY Zenon DEF DecisionSteps, WaitForTermination, CreatePod, DeleteOutdated,
                 ApplyRetryable, ApplyTerminal, GateFails, ReportActive,
                 ReportNotReady, DecidingOn, Deciding
  <1>2. pc' = "patch"
    BY DEF DecisionSteps, WaitForTermination, CreatePod, DeleteOutdated,
           ApplyRetryable, ApplyTerminal, StopAgent, GateFails, ReportActive,
           ReportNotReady, Return
  <1>3. KeepPod \/ \E p : WritePod(p)
    BY Zenon DEF DecisionSteps, WaitForTermination, CreatePod, DeleteOutdated,
                 ApplyRetryable, ApplyTerminal, StopAgent, GateFails,
                 ReportActive, ReportNotReady, Lost
  <1> QED BY <1>1, <1>2, <1>3 DEF Converging, KeepPod

LEMMA StepPodFollows ==
  ASSUME ~CacheLag
  PROVE  TypeInv /\ StickyInv /\ PodFollows /\ [Next]_vars => PodFollows'
  <1> SUFFICES ASSUME TypeInv, StickyInv, PodFollows, [Next]_vars
               PROVE  PodFollows'
    OBVIOUS
  <1>1. ASSUME NEW p, WritePod(p), cachedPod' = cachedPod, ~podEvent'
        PROVE  cachedPod' = pod'
    BY <1>1 DEF WritePod, PodFollows
  <1>2. CASE SideSteps
    BY <1>1, <1>2, SideKeepsPodAway, SideKeepsPass
    DEF KeepsPodAway, pass, PodFollows
  <1>3. CASE ReadSteps
    <2>1. UNCHANGED <<pod, podEvent, cachedPod>>
      BY <1>3, ReadKeepsPod
    <2>2. CASE ReadPod
      BY <2>1, <2>2 DEF ReadPod, PodFollows
    <2>3. CASE checkToken \/ resolveServicePort \/ hasReadyEndpoint
      BY <2>1, <2>3 DEF checkToken, resolveServicePort, hasReadyEndpoint,
                        PodFollows
    <2>4. CASE \E call \in {"getPod", "getSecret", "getService", "listSlices"} :
                 ReadFails(call)
      BY <2>1, <2>4 DEF ReadFails, Return, PodFollows
    <2> QED BY <1>3, <2>2, <2>3, <2>4 DEF ReadSteps
  <1>4. CASE DecisionSteps
    BY <1>1, <1>4, DecisionWritesPod DEF PodFollows
  <1>5. CASE BeginPass
    BY <1>5 DEF BeginPass, StartPass, watches, PodFollows
  <1>6. CASE patchStatus \/ Crash
    BY <1>6 DEF patchStatus, EndPass, Crash, PodFollows
  <1>7. CASE CreateTunnel
    BY <1>7 DEF CreateTunnel, KeepAllButTunnel, pass, PodFollows
  <1>8. Reconcile => \/ SkipPass \/ GetTunnelFails \/ BeginPass
                     \/ ReadSteps \/ DecisionSteps \/ patchStatus
    BY Zenon DEF Reconcile, ReadSteps, DecisionSteps
  <1> QED BY <1>2, <1>3, <1>4, <1>5, <1>6, <1>7, <1>8
          DEF Next, Manager, Users, SideSteps

-----------------------------------------------------------------------------
(* The decisions of a pass that fails no call.                              *)

(* The failure a pass records: the exit it has judged, the agent stopped.   *)
LEMMA TerminalExplained ==
  ASSUME TypeInv, CallsSucceed, ApplyTerminal
  PROVE  Explained(draft', orig.spec.behavior) /\ Gone(pod')
  <1> DEFINE code    == Termination(existing.agent)
             verdict == classifyExit(code, orig.spec.behavior)
             blamed  == Blame(verdict, code)
             failed  == setNotReady(blamed, "Failed", verdict.reason)
  <1>1. DecidingOn(existing) /\ verdict.terminal /\ StopAgent(failed)
    BY Zenon DEF ApplyTerminal, classifyPod
  <1>2. code \in ExitCodes \cup {NoCode} /\ draft \in Statuses
    BY <1>1 DEF TypeInv, TypeOK, DecidingOn, Pods, Agents, Termination
  <1>3. blamed \in Statuses
    BY <1>2, BlameType
  <1>4. blamed.lastExitCode = code
    BY <1>2 DEF Blame, Statuses
  <1> HIDE DEF blamed
  <1>5. verdict.reason \in ReadyConditions
    BY VerdictType DEF ReadyConditions
  <1> HIDE DEF verdict
  <1>6. failed \in Statuses
    BY <1>3, <1>5, NotReadyType DEF Phases
  <1>7. failed.lastExitCode = code /\ failed.conditions.Ready = verdict.reason
    BY <1>3, <1>4 DEF setNotReady, Statuses
  <1> HIDE DEF failed
  <1>8. ~Lost("delete", Deleted(pod))
    BY DEF Lost, Fault, CallsSucceed
  <1>9. WritePod(Deleted(pod)) /\ draft' = [failed EXCEPT !.podName = FALSE]
    BY <1>1, <1>8 DEF StopAgent, Return
  <1>10. draft'.lastExitCode = code /\ draft'.conditions.Ready = verdict.reason
    BY <1>6, <1>7, <1>9 DEF Statuses
  <1>11. Gone(pod')
    BY <1>9 DEF WritePod, Deleted, Gone, TypeInv, TypeOK, Pods
  <1> QED BY <1>1, <1>10, <1>11 DEF Explained, verdict

LEMMA NotReadyPhase ==
  ASSUME NEW status \in Statuses, NEW phase, NEW reason
  PROVE  setNotReady(status, phase, reason).phase = phase
  BY DEF setNotReady, Statuses

(* No other decision leaves Failed behind.                                  *)
LEMMA OnlyVerdictsFail ==
  ASSUME TypeInv, PodFollows, CallsSucceed, DecisionSteps, ~ApplyTerminal
  PROVE  draft'.phase # "Failed"
  <1>1. draft \in Statuses
    BY DEF TypeInv, TypeOK
  <1>2. CASE WaitForTermination
    BY <1>1, <1>2, NotReadyPhase DEF WaitForTermination, Return
  <1>3. CASE CreatePod
    <2> DEFINE named  == [draft EXCEPT !.podName = TRUE]
               wanted == IF pod = None THEN desiredPod ELSE pod
    <2>1. pod = None
      BY <1>3 DEF CreatePod, Deciding, Converging, PodFollows
    <2>2. ~Lost("create", wanted)
      BY DEF Lost, Fault, CallsSucceed
    <2>3. draft' = setNotReady(named, "Pending", "PodPending")
      BY <1>3, <2>1, <2>2 DEF CreatePod, Return
    <2>4. named \in Statuses
      BY <1>1 DEF Statuses
    <2> HIDE DEF named
    <2> QED BY <2>3, <2>4, NotReadyPhase
  <1>4. CASE DeleteOutdated
    <2>1. ~Lost("delete", Deleted(pod))
      BY DEF Lost, Fault, CallsSucceed
    <2>2. draft' = setNotReady(draft, "Pending", "PodPending")
      BY <1>4, <2>1 DEF DeleteOutdated, Return
    <2> QED BY <1>1, <2>2, NotReadyPhase
  <1>5. CASE ApplyRetryable
    <2> DEFINE verdict == classifyPod(existing.agent, orig.spec.behavior)
               status  == Blame(verdict, Termination(existing.agent))
    <2>1. /\ DecidingOn(existing) /\ Judged /\ ~verdict.terminal
          /\ draft' = setNotReady(status, "Degraded", verdict.reason)
      BY <1>5, Zenon DEF ApplyRetryable, Return
    <2>2. /\ verdict = classifyPod(existing.agent, orig.spec.behavior)
          /\ status = Blame(verdict, Termination(existing.agent))
      OBVIOUS
    <2> HIDE DEF status, verdict
    <2>3. status \in Statuses
      BY <2>1, <2>2, BlameDerived
    <2> QED BY <2>1, <2>3, NotReadyPhase
  <1>6. CASE GateFails
    <2> DEFINE reason == IF token = None THEN draft.conditions.TokenReady
                                         ELSE draft.conditions.BackendReady
               phase == IF existing = None THEN "Pending" ELSE "Degraded"
    <2>1. draft' = setNotReady(draft, phase, reason)
      BY <1>6 DEF GateFails, Return
    <2>2. phase # "Failed"
      OBVIOUS
    <2> HIDE DEF reason, phase
    <2> QED BY <1>1, <2>1, <2>2, NotReadyPhase
  <1>7. CASE ReportActive
    <2> DEFINE active == [draft EXCEPT !.phase = "Active",
                                       !.conditions.Ready = "TunnelActive"]
    <2>1. active.phase = "Active" /\ active \in Statuses
      BY <1>1 DEF Statuses, Phases, ReadyConditions
    <2>2. \/ draft' = active
          \/ draft' = [active EXCEPT !.url = active.assignedSubdomain]
      BY <1>7 DEF ReportActive, Return
    <2> HIDE DEF active
    <2> QED BY <2>1, <2>2 DEF Statuses
  <1>8. CASE ReportNotReady
    BY <1>1, <1>8, NotReadyPhase DEF ReportNotReady, Return
  <1> QED BY <1>2, <1>3, <1>4, <1>5, <1>6, <1>7, <1>8 DEF DecisionSteps

(* Reads do not fail, and so never lead straight to the patch.              *)
LEMMA ReadsSucceed ==
  ASSUME CallsSucceed, ReadSteps PROVE pc' # "patch"
  <1>1. ASSUME NEW call \in {"getPod", "getSecret", "getService", "listSlices"},
               ReadFails(call)
        PROVE  FALSE
    BY <1>1 DEF ReadFails, Fault, CallsSucceed
  <1>2. ReadPod \/ checkToken \/ resolveServicePort \/ hasReadyEndpoint
    BY <1>1, Zenon DEF ReadSteps
  <1> QED BY <1>2 DEF ReadPod, checkToken, resolveServicePort, hasReadyEndpoint

(* While a pass is under way the tunnel has not failed.                     *)
LEMMA NoPassOfFailed ==
  ASSUME TypeInv, WakeInv, StickyInv, pc # "idle", tunnel # None
  PROVE  ~Sticky(tunnel)
  <1>1. /\ tunnel.status = orig.status /\ orig.generation <= tunnel.generation
        /\ orig.status.observedGeneration <= orig.generation
        /\ ~Sticky(orig)
    BY DEF StickyInv, PassOwnsStatus, WakeInv, PassIsDue
  <1>2. /\ orig.generation \in Int /\ tunnel.generation \in Int
        /\ orig.status.observedGeneration \in Int
    BY BoundsAssumption DEF TypeInv, TypeOK, PassInv, Tunnels, Statuses
  <1> QED BY <1>1, <1>2 DEF Sticky

-----------------------------------------------------------------------------
(* FailureInv is inductive.                                                 *)

LEMMA InitFailureInv == Init => SameSpec /\ PodFollows /\ FailureInv
  BY DEF Init, SameSpec, PodFollows, FailureInv

(* A step of the world that keeps status and spec, or makes a generation    *)
(* the status does not report on.                                           *)
LEMMA SideKeepsFailureInv ==
  ASSUME TypeInv, StickyInv, FailureInv, SideSteps PROVE FailureInv'
  <1>1. /\ UNCHANGED pass
        /\ KeepsStatus /\ KeepsSpec
        /\ Gone(pod) => Gone(pod')
    BY SideKeepsPass, SideKeepsStatus, SideKeepsSpec, SideKeepsPodAway
    DEF SideSteps, KeepsPodAway
  <1>2. pc' = pc /\ draft' = draft /\ orig' = orig
    BY <1>1 DEF pass
  <1>3. ASSUME tunnel' # None, Sticky(tunnel')
        PROVE  /\ tunnel # None /\ Sticky(tunnel)
               /\ tunnel'.status = tunnel.status
               /\ tunnel'.spec = tunnel.spec
    <2>1. tunnel # None /\ tunnel'.status = tunnel.status
      BY <1>1, <1>3 DEF KeepsStatus
    <2>2. /\ tunnel.generation \in Int
          /\ tunnel.status.observedGeneration \in Int
      BY <2>1, BoundsAssumption DEF TypeInv, TypeOK, Tunnels, Statuses
    <2>3. tunnel.status.observedGeneration <= tunnel.generation
      BY <2>1 DEF StickyInv, ReportsThePast
    <2>4. tunnel'.generation # tunnel.generation + 1
      BY <1>3, <2>1, <2>2, <2>3 DEF Sticky
    <2>5. /\ tunnel'.spec = tunnel.spec
          /\ tunnel'.generation = tunnel.generation
      BY <1>1, <1>3, <2>4 DEF KeepsSpec
    <2> QED BY <1>3, <2>1, <2>5 DEF Sticky
  <1> QED BY <1>1, <1>2, <1>3 DEF FailureInv

(* What the patch installs is explained, for the spec it is about.          *)
LEMMA PatchKeepsFailureInv ==
  ASSUME TypeInv, StickyInv, SameSpec, FailureInv, patchStatus
  PROVE  FailureInv'
  <1>1. pc = "patch" /\ pc' = "idle" /\ pod' = pod
    BY DEF patchStatus, EndPass
  <1>2. CASE tunnel' = tunnel
    BY <1>1, <1>2 DEF FailureInv
  <1>3. CASE tunnel' # tunnel
    <2>1. /\ tunnel # None /\ tunnel' = Patched
          /\ tunnel'.generation = tunnel.generation
          /\ tunnel'.status.observedGeneration = orig.generation
          /\ tunnel'.status = FinalStatus
      BY <1>3, PatchReports, PatchInstalls
    <2>2. tunnel \in Tunnels /\ draft \in Statuses
      BY <2>1 DEF TypeInv, TypeOK
    <2>3. tunnel'.spec = tunnel.spec
      BY <2>1, <2>2 DEF Patched, Tunnels
    <2>4. /\ tunnel'.status.phase = draft.phase
          /\ tunnel'.status.lastExitCode = draft.lastExitCode
          /\ tunnel'.status.conditions = draft.conditions
      BY <2>1, <2>2 DEF FinalStatus, Statuses
    <2>5. ASSUME Sticky(tunnel')
          PROVE  draft.phase = "Failed" /\ orig.spec = tunnel'.spec
      BY <1>1, <2>1, <2>3, <2>4, <2>5 DEF Sticky, SameSpec
    <2>6. ASSUME Sticky(tunnel')
          PROVE  Explained(tunnel'.status, tunnel'.spec.behavior) /\ Gone(pod)
      BY <1>1, <2>4, <2>5, <2>6 DEF FailureInv, Explained
    <2> QED BY <1>1, <2>6 DEF FailureInv
  <1> QED BY <1>2, <1>3

LEMMA StepFailureInv ==
  ASSUME CallsSucceed
  PROVE  TypeInv /\ WakeInv /\ StickyInv /\ SameSpec /\ PodFollows
           /\ FailureInv /\ [Next]_vars => FailureInv'
  <1> SUFFICES ASSUME TypeInv, WakeInv, StickyInv, SameSpec, PodFollows,
                      FailureInv, [Next]_vars
               PROVE  FailureInv'
    OBVIOUS
  <1>1. CASE SideSteps
    BY <1>1, SideKeepsFailureInv
  <1>2. CASE BeginPass
    BY <1>2 DEF BeginPass, StartPass, FailureInv
  <1>3. CASE ReadSteps
    <2>1. tunnel' = tunnel /\ pc' # "patch" /\ pod' = pod
      BY <1>3, ReadGoesOn, ReadsSucceed, ReadKeepsPod DEF PassGoesOn
    <2> QED BY <2>1 DEF FailureInv
  <1>4. CASE DecisionSteps
    <2>1. UNCHANGED <<tunnel, orig>> /\ pc # "idle"
      BY <1>4, DecisionGoesOn DEF PassGoesOn
    <2>2. tunnel' # None => ~Sticky(tunnel')
      BY <2>1, NoPassOfFailed
    <2>3. CASE ApplyTerminal
      BY <2>1, <2>2, <2>3, TerminalExplained DEF FailureInv
    <2>4. CASE ~ApplyTerminal
      BY <1>4, <2>1, <2>2, <2>4, OnlyVerdictsFail DEF FailureInv
    <2> QED BY <2>3, <2>4
  <1>5. CASE patchStatus
    BY <1>5, PatchKeepsFailureInv
  <1>6. CASE CreateTunnel
    <2>1. tunnel'.status.phase = ""
      <3>1. PICK spec \in Specs :
              WriteTunnel([uid |-> incarnations + 1, generation |-> 1,
                           deleting |-> FALSE, spec |-> spec,
                           status |-> InitStatus])
        BY <1>6, Zenon DEF CreateTunnel
      <3> QED BY <3>1 DEF WriteTunnel, InitStatus
    <2>2. UNCHANGED <<pc, draft, orig, pod>>
      BY <1>6 DEF CreateTunnel, KeepAllButTunnel, pass
    <2> QED BY <2>1, <2>2 DEF FailureInv, Sticky
  <1>7. CASE Crash
    BY <1>7 DEF Crash, FailureInv
  <1>8. Reconcile => \/ SkipPass \/ GetTunnelFails \/ BeginPass
                     \/ ReadSteps \/ DecisionSteps \/ patchStatus
    BY Zenon DEF Reconcile, ReadSteps, DecisionSteps
  <1> QED BY <1>1, <1>2, <1>3, <1>4, <1>5, <1>6, <1>7, <1>8
          DEF Next, Manager, Users, SideSteps

LEMMA FailureInvHolds ==
  ASSUME ~CacheLag, CallsSucceed
  PROVE  Spec /\ [][CreatedBetweenPasses]_vars => []FailureInv
  <1>1. TypeInv /\ WakeInv /\ StickyInv /\ [Next]_vars
          /\ [CreatedBetweenPasses]_vars => StickyInv'
    BY StepStickyInv
  <1>2. TypeInv /\ WakeInv /\ StickyInv /\ SameSpec /\ [Next]_vars
          /\ [CreatedBetweenPasses]_vars => SameSpec'
    BY StepSameSpec
  <1>3. TypeInv /\ StickyInv /\ PodFollows /\ [Next]_vars => PodFollows'
    BY StepPodFollows
  <1>4. TypeInv /\ WakeInv /\ StickyInv /\ SameSpec /\ PodFollows
          /\ FailureInv /\ [Next]_vars => FailureInv'
    BY StepFailureInv
  <1> QED BY <1>1, <1>2, <1>3, <1>4, InitTypeInv, StepTypeInv, InitWakeInv,
             StepWakeInv, InitStickyInv, InitFailureInv, PTL DEF Spec

(* The failure a user sees is the verdict of the last exit under the        *)
(* behavior the spec asks for (applyVerdict, classifyExit), for every       *)
(* interleaving of edits, agent exits, lost patches and crashes.            *)
THEOREM FailuresAreExplained ==
  ASSUME ~CacheLag, CallsSucceed
  PROVE  Spec /\ [][CreatedBetweenPasses]_vars => []FailureIsExplained
  <1>1. FailureInv => FailureIsExplained
    BY DEF FailureInv, FailureIsExplained, Explained, Failed, Live
  <1> QED BY <1>1, FailureInvHolds, PTL

(* "a terminal failure costs one failed pod and nothing ongoing"            *)
(* (applyVerdict): once it is recorded no pod of the tunnel runs, and no    *)
(* pass that was still under way creates another.                           *)
THEOREM FailuresStopAgents ==
  ASSUME ~CacheLag, CallsSucceed
  PROVE  Spec /\ [][CreatedBetweenPasses]_vars => []FailureStopsAgent
  <1>1. FailureInv => FailureStopsAgent
    BY DEF FailureInv, FailureStopsAgent, Gone, Failed, Live
  <1> QED BY <1>1, FailureInvHolds, PTL

(* "retry" keeps the agent re-claiming: the claim of                        *)
(* subdomainCollisionBehavior that a read which fails half way through a    *)
(* pass refutes (run ClaimRetry) does hold where reads and writes succeed.  *)
THEOREM RetryGoesOn ==
  ASSUME ~CacheLag, CallsSucceed
  PROVE  Spec /\ [][CreatedBetweenPasses]_vars => []RetryIsNeverTerminal
  <1>1. FailureIsExplained => RetryIsNeverTerminal
    BY DEF FailureIsExplained, RetryIsNeverTerminal, classifyExit, BadToken,
           Terminal, Retryable
  <1> QED BY <1>1, FailuresAreExplained, PTL

=============================================================================
