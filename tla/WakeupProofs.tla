---------------------------- MODULE WakeupProofs ----------------------------
(***************************************************************************)
(* NoLostWakeup for every value of the constants: any number of faults, any *)
(* lag of the caches.  It is not inductive; WakeInv adds why a pass that    *)
(* ends without a requeue leaves nothing undone.                            *)
(*                                                                          *)
(* From it, SettledPodIsCurrent and SettledStatusIsHonest: what is true     *)
(* when no wake-up is pending, provided the mapping of events to tunnels    *)
(* never loses one (SettledInv).                                            *)
(***************************************************************************)
EXTENDS TunnelControllerProofs

(* An informer without an event to deliver is up to date.                   *)
CacheFollows == ~tunnelEvent => cachedTunnel = tunnel

(* A pass works on a tunnel that has not failed, and only applyVerdict ends *)
(* it without a requeue, with a failure to record.                          *)
PassIsDue ==
  /\ pc # "idle" => ~Sticky(orig)
  /\ pc = "patch" /\ outcome = "done" => draft.phase = "Failed"

(* When the tunnel is refreshed under a pass, the key is queued anew.       *)
RefreshQueues == pc # "idle" => queued \/ orig = cachedTunnel

WakeInv == CacheFollows /\ PassIsDue /\ RefreshQueues /\ NoLostWakeup

-----------------------------------------------------------------------------
(* What each kind of step leaves alone.                                     *)

(* A read or a decision: the pass goes on, the tunnel is not written.       *)
PassGoesOn ==
  /\ UNCHANGED <<tunnel, tunnelEvent, cachedTunnel, queued, timer, orig,
                 incarnations>>
  /\ pc # "idle" /\ pc' # "idle"
  /\ pc' = "patch" /\ outcome' = "done" => draft'.phase = "Failed"

ReadSteps ==
  \/ ReadPod \/ checkToken \/ resolveServicePort \/ hasReadyEndpoint
  \/ \E call \in {"getPod", "getSecret", "getService", "listSlices"} :
        ReadFails(call)

DecisionSteps ==
  \/ WaitForTermination \/ CreatePod \/ DeleteOutdated
  \/ ApplyRetryable \/ ApplyTerminal
  \/ GateFails \/ ReportActive \/ ReportNotReady

LEMMA ReadGoesOn == ReadSteps => PassGoesOn
  <1> SUFFICES ASSUME ReadSteps PROVE PassGoesOn
    OBVIOUS
  <1>1. Local
    BY Zenon DEF ReadSteps, ReadPod, checkToken, resolveServicePort,
                 hasReadyEndpoint, ReadFails
  <1>2. /\ pc # "idle" /\ pc' # "idle"
        /\ pc' = "patch" /\ outcome' = "done" => draft'.phase = "Failed"
    BY DEF ReadSteps, ReadPod, checkToken, resolveServicePort,
           hasReadyEndpoint, ReadFails, Return
  <1> QED BY <1>1, <1>2 DEF PassGoesOn, Local, watches, queue

LEMMA DecisionGoesOn ==
  ASSUME TypeInv, DecisionSteps PROVE PassGoesOn
  <1>1. Converging
    BY Zenon DEF DecisionSteps, WaitForTermination, CreatePod, DeleteOutdated,
                 ApplyRetryable, ApplyTerminal, GateFails, ReportActive,
                 ReportNotReady, DecidingOn, Deciding
  <1>2. pc' = "patch"
    BY DEF DecisionSteps, WaitForTermination, CreatePod, DeleteOutdated,
           ApplyRetryable, ApplyTerminal, StopAgent, GateFails, ReportActive,
           ReportNotReady, Return
  <1>3. outcome' = "done" => ApplyTerminal
    BY DEF DecisionSteps, WaitForTermination, CreatePod, DeleteOutdated,
           ApplyRetryable, GateFails, ReportActive, ReportNotReady, Return
  <1>4. ASSUME ApplyTerminal, outcome' = "done" PROVE draft'.phase = "Failed"
    <2> DEFINE code    == Termination(existing.agent)
               verdict == classifyExit(code, orig.spec.behavior)
               blamed  == Blame(verdict, code)
               failed  == setNotReady(blamed, "Failed", verdict.reason)
    <2>1. StopAgent(failed)
      BY <1>4, Zenon DEF ApplyTerminal, classifyPod
    <2>2. draft' = [failed EXCEPT !.podName = FALSE]
      BY <1>4, <2>1 DEF StopAgent, Return
    <2>3. code \in ExitCodes \cup {NoCode} /\ draft \in Statuses
      BY <1>4 DEF TypeInv, TypeOK, ApplyTerminal, DecidingOn, Pods, Agents,
                  Termination
    <2>4. blamed \in Statuses
      BY <2>3, BlameType
    <2> HIDE DEF blamed, verdict
    <2> QED BY <2>2, <2>4 DEF setNotReady, Statuses
  <1> QED BY <1>1, <1>2, <1>3, <1>4 DEF PassGoesOn, Converging, queue

(* Everything but the passes, the tunnel informer and crashes: a step that  *)
(* may write the tunnel, and then its informer has an event.                *)
SideStep ==
  /\ UNCHANGED <<cachedTunnel, pass>>
  /\ queued => queued'
  /\ timer' = timer \/ queued'
  /\ \/ UNCHANGED <<tunnel, tunnelEvent>>
     \/ \E t : WriteTunnel(t)

LEMMA WorldIsSide == ASSUME TypeInv, World PROVE SideStep
  <1>1. ASSUME NEW index, NEW value, requestsByIndex(index, value)
        PROVE  queued => queued'
    BY <1>1, Zenon DEF requestsByIndex, TypeInv, TypeOK
  <1>2. Outside
    BY Zenon DEF World, SecretChanges, ServiceChanges, EndpointsChange
  <1>3. CASE \E name \in Secrets : SecretChanges(name)
    <2>1. PICK name \in Secrets : SecretChanges(name)
      BY <1>3
    <2>2. requestsByIndex("secret", name)
      BY <2>1, Zenon DEF SecretChanges
    <2> QED BY <1>1, <1>2, <2>2 DEF SideStep, Outside, watches
  <1>4. CASE \E backend \in Backends :
                ServiceChanges(backend) \/ EndpointsChange(backend)
    <2>1. PICK backend \in Backends :
            ServiceChanges(backend) \/ EndpointsChange(backend)
      BY <1>4
    <2>2. requestsByIndex("backend", backend)
      BY <2>1, Zenon DEF ServiceChanges, EndpointsChange
    <2> QED BY <1>1, <1>2, <2>2 DEF SideStep, Outside, watches
  <1> QED BY <1>3, <1>4, Zenon DEF World

LEMMA UsersAreSide == Users => SideStep
  <1> SUFFICES ASSUME Users PROVE SideStep
    OBVIOUS
  <1>1. KeepAllButTunnel
    BY Zenon DEF Users, CreateTunnel, EditSpec, DeleteTunnel
  <1>2. \E t : WriteTunnel(t)
    BY Zenon DEF Users, CreateTunnel, EditSpec, DeleteTunnel
  <1> QED BY <1>1, <1>2 DEF SideStep, KeepAllButTunnel, queue

LEMMA KubernetesIsSide == Kubernetes => SideStep
  <1> SUFFICES ASSUME Kubernetes PROVE SideStep
    OBVIOUS
  <1>1. CASE FinishForegroundDeletion
    BY <1>1 DEF FinishForegroundDeletion, SideStep, KeepAllButTunnel, queue
  <1>2. CASE ~FinishForegroundDeletion
    <2>1. KeepAllButPod
      BY <1>2, Zenon
      DEF Kubernetes, StartContainer, CrashLoopBackOff, BecomeReady,
          ProbeFails, AgentExits, PodDeleted, Evict, PodGone, CollectPod,
          AgentStep
    <2> QED BY <2>1 DEF SideStep, KeepAllButPod, queue
  <1> QED BY <1>1, <1>2

LEMMA OtherStepsAreSide ==
  ASSUME TypeInv, SyncPod \/ RequeueAfter \/ UNCHANGED vars PROVE SideStep
  <1>1. CASE SyncPod
    BY <1>1 DEF SyncPod, SideStep
  <1>2. CASE RequeueAfter
    BY <1>2 DEF RequeueAfter, SideStep, watches
  <1>3. CASE UNCHANGED vars
    BY <1>3 DEF vars, SideStep, watches, queue
  <1> QED BY <1>1, <1>2, <1>3

-----------------------------------------------------------------------------
(* WakeInv is inductive.                                                    *)

LEMMA InitWakeInv == Init => WakeInv
  BY DEF Init, WakeInv, CacheFollows, PassIsDue, RefreshQueues, NoLostWakeup,
         Live

LEMMA SideKeepsWakeInv ==
  ASSUME WakeInv, SideStep PROVE WakeInv'
  <1>1. pc' = pc /\ orig' = orig /\ outcome' = outcome /\ draft' = draft
        /\ cachedTunnel' = cachedTunnel
    BY DEF SideStep, pass
  <1>2. ~tunnelEvent' => ~tunnelEvent /\ tunnel' = tunnel
    BY Zenon DEF SideStep, WriteTunnel
  <1>3. CacheFollows'
    BY <1>1, <1>2 DEF WakeInv, CacheFollows
  <1>4. PassIsDue'
    BY <1>1 DEF WakeInv, PassIsDue, Sticky
  <1>5. RefreshQueues'
    BY <1>1 DEF WakeInv, RefreshQueues, SideStep
  <1>6. NoLostWakeup'
    BY <1>1, <1>2 DEF WakeInv, NoLostWakeup, SideStep, Live, Sticky
  <1> QED BY <1>3, <1>4, <1>5, <1>6 DEF WakeInv

LEMMA GoingOnKeepsWakeInv ==
  ASSUME WakeInv, PassGoesOn PROVE WakeInv'
  BY DEF WakeInv, CacheFollows, PassIsDue, RefreshQueues, NoLostWakeup,
         PassGoesOn, Sticky

LEMMA StartKeepsWakeInv ==
  ASSUME WakeInv, SkipPass \/ GetTunnelFails \/ BeginPass PROVE WakeInv'
  <1>1. /\ UNCHANGED <<tunnel, cachedTunnel, tunnelEvent>> /\ pc = "idle"
    BY DEF SkipPass, GetTunnelFails, BeginPass, StartPass, watches
  <1>2. CacheFollows'
    BY <1>1 DEF WakeInv, CacheFollows
  <1>3. CASE BeginPass
    BY <1>1, <1>2, <1>3
    DEF WakeInv, BeginPass, NothingToDo, PassIsDue, RefreshQueues,
        NoLostWakeup, Sticky
  <1>4. CASE GetTunnelFails
    BY <1>1, <1>2, <1>4
    DEF WakeInv, GetTunnelFails, PassIsDue, RefreshQueues, NoLostWakeup, pass
  <1>5. CASE SkipPass
    <2>1. pc' = "idle"
      BY <1>1, <1>5 DEF SkipPass, pass
    <2>2. Live /\ ~Sticky(tunnel) => tunnelEvent
      BY <1>5 DEF SkipPass, NothingToDo, WakeInv, CacheFollows, Live
    <2> QED BY <1>1, <1>2, <2>1, <2>2
            DEF WakeInv, PassIsDue, RefreshQueues, NoLostWakeup, Live, Sticky
  <1> QED BY <1>3, <1>4, <1>5

(* The end of a pass: a failure it had to record is news to the informer,   *)
(* or was recorded by somebody else and then already known to the cache.    *)
LEMMA PatchKeepsWakeInv ==
  ASSUME TypeInv, WakeInv, patchStatus PROVE WakeInv'
  <1>1. /\ pc = "patch" /\ pc' = "idle" /\ queued' = queued
        /\ cachedTunnel' = cachedTunnel
    BY DEF patchStatus, EndPass
  <1>2. /\ ~tunnelEvent' => ~tunnelEvent /\ tunnel' = tunnel
    BY Zenon DEF patchStatus, KeepTunnel, WriteTunnel
  <1>3. CacheFollows' /\ PassIsDue' /\ RefreshQueues'
    BY <1>1, <1>2 DEF WakeInv, CacheFollows, PassIsDue, RefreshQueues
  <1>4. outcome # "done" => timer' # "none"
    BY DEF patchStatus, EndPass, TypeInv, TypeOK
  <1>5. EndPass(TRUE) => timer' # "none"
    BY DEF EndPass
  <1>6. ASSUME outcome = "done", FinalStatus = orig.status PROVE FALSE
    <2>1. orig \in Tunnels /\ draft \in Statuses
      BY <1>1 DEF TypeInv, TypeOK, PassInv
    <2>2. FinalStatus.phase = "Failed"
          /\ FinalStatus.observedGeneration = orig.generation
      BY <1>1, <1>6, <2>1 DEF WakeInv, PassIsDue, FinalStatus, Statuses
    <2> QED BY <1>1, <1>6, <2>2 DEF WakeInv, PassIsDue, Sticky
  <1>7. ASSUME outcome = "done", FinalStatus # orig.status, tunnel # None,
               WriteTunnel(Patched), ~tunnelEvent', ~queued'
        PROVE  FALSE
    <2>1. orig = tunnel
      BY <1>1, <1>2, <1>7 DEF WakeInv, CacheFollows, RefreshQueues
    <2>2. tunnel = Patched
      BY <1>2, <1>7, Zenon DEF WriteTunnel
    <2>3. tunnel \in Tunnels /\ orig \in Tunnels /\ draft \in Statuses
      BY <1>1, <1>7 DEF TypeInv, TypeOK, PassInv
    <2>4. orig.generation \in 0..MaxGeneration
      BY <2>3, BoundsAssumption DEF Tunnels
    <2>5. FinalStatus \in Statuses
      BY <2>3, <2>4, FieldTypes DEF FinalStatus
    <2>6. tunnel.status = Merge(orig.status, orig.status, FinalStatus)
      BY <2>1, <2>2, <2>3 DEF Patched, Tunnels
    <2>7. Merge(orig.status, orig.status, FinalStatus) = FinalStatus
      BY <2>3, <2>5 DEF Merge, Tunnels, Statuses
    <2> QED BY <1>7, <2>1, <2>6, <2>7
  <1>8. \/ timer' # "none" \/ queued' \/ tunnelEvent'
    BY <1>4, <1>5, <1>6, <1>7 DEF patchStatus
  <1>9. NoLostWakeup'
    BY <1>8 DEF NoLostWakeup
  <1> QED BY <1>3, <1>9 DEF WakeInv

LEMMA SyncTunnelKeepsWakeInv ==
  ASSUME WakeInv, SyncTunnel PROVE WakeInv'
  BY DEF WakeInv, CacheFollows, PassIsDue, RefreshQueues, NoLostWakeup,
         SyncTunnel, pass, Sticky

LEMMA CrashKeepsWakeInv ==
  ASSUME Crash PROVE WakeInv'
  BY DEF WakeInv, CacheFollows, PassIsDue, RefreshQueues, NoLostWakeup,
         Crash, Live

LEMMA StepWakeInv == TypeInv /\ WakeInv /\ [Next]_vars => WakeInv'
  <1> SUFFICES ASSUME TypeInv, WakeInv, [Next]_vars PROVE WakeInv'
    OBVIOUS
  <1>1. CASE Reconcile
    <2>1. \/ SkipPass \/ GetTunnelFails \/ BeginPass
          \/ ReadSteps \/ DecisionSteps \/ patchStatus
      BY <1>1, Zenon DEF Reconcile, ReadSteps, DecisionSteps
    <2> QED BY <2>1, StartKeepsWakeInv, ReadGoesOn, DecisionGoesOn,
               GoingOnKeepsWakeInv, PatchKeepsWakeInv
  <1>2. CASE Manager
    BY <1>2, SyncTunnelKeepsWakeInv, CrashKeepsWakeInv, OtherStepsAreSide,
       SideKeepsWakeInv DEF Manager
  <1>3. CASE World \/ Users \/ Kubernetes \/ UNCHANGED vars
    BY <1>3, WorldIsSide, UsersAreSide, KubernetesIsSide, OtherStepsAreSide,
       SideKeepsWakeInv
  <1> QED BY <1>1, <1>2, <1>3 DEF Next

(* No tunnel that may need work is ever forgotten, with any number of       *)
(* failing calls, lost events, crashes and stale reads: what the requeues   *)
(* and the retries of Reconcile are for.                                    *)
THEOREM WakeupsAreKept == Spec => []NoLostWakeup
  <1>1. WakeInv => NoLostWakeup
    BY DEF WakeInv
  <1> QED BY <1>1, InitTypeInv, StepTypeInv, InitWakeInv, StepWakeInv, PTL
          DEF Spec

-----------------------------------------------------------------------------
(* What a settled controller has done.  Without a lost event, whatever a    *)
(* pass has read is current as long as nothing is about to queue its key    *)
(* anew: SettledInv follows that from each read to the decision, and from   *)
(* the decision to the next change of anything the pass has looked at.      *)

NoEventIsLost == "index" \notin Faults

Quiet == ~queued /\ ~tunnelEvent /\ ~podEvent

TokenOf(spec) ==
  IF secrets[spec.secret] \in Tokens THEN secrets[spec.secret] ELSE None

TokenVerdict(spec) ==
  IF secrets[spec.secret] \in Tokens THEN "TokenFound"
                                     ELSE secrets[spec.secret]

PortOf(spec) ==
  IF services[spec.backend] \in Ports /\ endpoints[spec.backend]
    THEN services[spec.backend] ELSE None

PodCurrent(p, spec) == p # None /\ ~p.deleting /\ p.config = Wanted(spec)

(* The agent is the one it should be, or on its way out.                    *)
PodRight(spec) ==
  /\ Gates(spec) => pod # None /\ (pod.deleting \/ PodCurrent(pod, spec))
  /\ pod # None /\ ~pod.deleting /\ HasVerdict(pod.agent)
       => ~classifyPod(pod.agent, spec.behavior).terminal

(* A status tells the truth about the agent and the gates.                  *)
StatusRight(status, spec) ==
  /\ status.assignedSubdomain = spec.subdomain
  /\ status.podName = (pod # None)
  /\ status.conditions.TokenReady = TokenVerdict(spec)
  /\ status.conditions.BackendReady = "EndpointsReady" <=> PortOf(spec) # None
  /\ status.phase = "Active"
       <=> Gates(spec) /\ PodCurrent(pod, spec) /\ pod.agent.state = "ready"
  /\ status.phase = "Active" =>
       /\ status.backendAddress = <<pod.config.backend, pod.config.port>>
       /\ "domain" \notin Faults => status.url = spec.subdomain

PodCacheFollows == ~podEvent => cachedPod = pod

PodIsRead ==
  pc \in {"getSecret", "getService", "listSlices", "converge"} =>
    /\ draft.podName = (existing # None)
    /\ Quiet => existing = pod

TokenIsRead ==
  pc \in {"getService", "listSlices", "converge"} /\ Quiet =>
    /\ token = TokenOf(orig.spec)
    /\ draft.conditions.TokenReady = TokenVerdict(orig.spec)

ServiceIsRead ==
  pc = "listSlices" /\ Quiet => port = services[orig.spec.backend]

BackendIsRead ==
  /\ pc = "converge" =>
       /\ draft.conditions.BackendReady = "EndpointsReady" <=> port # None
       /\ port # None => draft.backendAddress = <<orig.spec.backend, port>>
  /\ pc = "converge" /\ Quiet => port = PortOf(orig.spec)

DecisionStands ==
  pc = "patch" /\ outcome # "error" /\ Quiet =>
    PodRight(orig.spec) /\ StatusRight(draft, orig.spec)

SettledStands ==
  pc = "idle" /\ timer # "retry" /\ Quiet /\ Live /\ ~Sticky(tunnel) =>
    /\ tunnel.status.observedGeneration = tunnel.generation
    /\ PodRight(tunnel.spec) /\ StatusRight(tunnel.status, tunnel.spec)

SettledInv ==
  /\ PodCacheFollows /\ PodIsRead /\ TokenIsRead /\ ServiceIsRead
  /\ BackendIsRead /\ DecisionStands /\ SettledStands

-----------------------------------------------------------------------------
(* The steps of everybody but the pass.                                     *)

SameWorld(spec) ==
  /\ secrets'[spec.secret] = secrets[spec.secret]
  /\ services'[spec.backend] = services[spec.backend]
  /\ endpoints'[spec.backend] = endpoints[spec.backend]

(* Unless it is to lead to another pass, such a step changes nothing the    *)
(* controller has looked at.                                                *)
Unseen ==
  /\ UNCHANGED pass
  /\ ~podEvent' =>
       \/ cachedPod' = pod'
       \/ ~podEvent /\ UNCHANGED <<pod, cachedPod>>
  /\ Quiet' =>
       /\ Quiet
       /\ UNCHANGED <<tunnel, pod, cachedTunnel, cachedPod, timer, image>>
       /\ cachedTunnel # None => SameWorld(cachedTunnel.spec)

LEMMA InitSettledInv == Init => SettledInv
  BY DEF Init, SettledInv, PodCacheFollows, PodIsRead, TokenIsRead,
         ServiceIsRead, BackendIsRead, DecisionStands, SettledStands, Live

LEMMA SecretIsUnseen ==
  ASSUME TypeInv, NoEventIsLost, NEW name \in Secrets, SecretChanges(name)
  PROVE  Unseen
  <1>1. /\ Outside /\ UNCHANGED <<services, endpoints>>
        /\ queued' = (\/ queued
                      \/ /\ cachedTunnel # None
                         /\ cachedTunnel.spec["secret"] = name)
    BY Zenon DEF SecretChanges, requestsByIndex, Fault, NoEventIsLost
  <1>2. PICK s : secrets' = [secrets EXCEPT ![name] = s]
    BY Zenon DEF SecretChanges
  <1>3. secrets \in [Secrets -> SecretStates]
    BY DEF TypeInv, TypeOK
  <1>4. ASSUME cachedTunnel # None, ~queued'
        PROVE  SameWorld(cachedTunnel.spec)
    <2>1. cachedTunnel.spec.secret \in Secrets
      BY <1>4 DEF TypeInv, TypeOK, Tunnels, Specs
    <2>2. cachedTunnel.spec.secret # name
      BY <1>1, <1>4
    <2> QED BY <1>1, <1>2, <1>3, <2>1, <2>2 DEF SameWorld
  <1>5. ~queued' => ~queued
    BY <1>1, Zenon
  <1> QED BY <1>1, <1>4, <1>5
          DEF Unseen, Quiet, Outside, watches, manager, pass

LEMMA BackendIsUnseen ==
  ASSUME TypeInv, NoEventIsLost, NEW backend \in Backends,
         ServiceChanges(backend) \/ EndpointsChange(backend)
  PROVE  Unseen
  <1>1. /\ Outside /\ UNCHANGED secrets
        /\ queued' = (\/ queued
                      \/ /\ cachedTunnel # None
                         /\ cachedTunnel.spec["backend"] = backend)
    BY Zenon DEF ServiceChanges, EndpointsChange, requestsByIndex, Fault,
                 NoEventIsLost
  <1>2. /\ \E s : services' = [services EXCEPT ![backend] = s]
        /\ \E e : endpoints' = [endpoints EXCEPT ![backend] = e]
    <2>1. services = [services EXCEPT ![backend] = services[backend]]
      BY DEF TypeInv, TypeOK
    <2>2. endpoints = [endpoints EXCEPT ![backend] = endpoints[backend]]
      BY DEF TypeInv, TypeOK
    <2> QED BY <2>1, <2>2, Zenon DEF ServiceChanges, EndpointsChange
  <1>3. services \in [Backends -> ServiceStates]
        /\ endpoints \in [Backends -> BOOLEAN]
    BY DEF TypeInv, TypeOK
  <1>4. ASSUME cachedTunnel # None, ~queued'
        PROVE  SameWorld(cachedTunnel.spec)
    <2>1. cachedTunnel.spec.backend \in Backends
      BY <1>4 DEF TypeInv, TypeOK, Tunnels, Specs
    <2>2. cachedTunnel.spec.backend # backend
      BY <1>1, <1>4
    <2> QED BY <1>1, <1>2, <1>3, <2>1, <2>2 DEF SameWorld
  <1>5. ~queued' => ~queued
    BY <1>1, Zenon
  <1> QED BY <1>1, <1>4, <1>5
          DEF Unseen, Quiet, Outside, watches, manager, pass

LEMMA UsersAreUnseen == ASSUME Users PROVE Unseen
  <1>1. KeepAllButTunnel
    BY Zenon DEF Users, CreateTunnel, EditSpec, DeleteTunnel
  <1>2. \E t : WriteTunnel(t)
    BY Zenon DEF Users, CreateTunnel, EditSpec, DeleteTunnel
  <1>3. ~tunnelEvent' => ~tunnelEvent /\ tunnel' = tunnel
    BY <1>2, Zenon DEF WriteTunnel
  <1> QED BY <1>1, <1>3
          DEF Unseen, Quiet, KeepAllButTunnel, queue, world, manager, SameWorld

LEMMA KubernetesIsUnseen == ASSUME Kubernetes PROVE Unseen
  <1>1. CASE FinishForegroundDeletion
    <2>1. ~tunnelEvent' => ~tunnelEvent /\ tunnel' = tunnel
      BY <1>1, Zenon DEF FinishForegroundDeletion, WriteTunnel
    <2> QED BY <1>1, <2>1
            DEF FinishForegroundDeletion, Unseen, Quiet, KeepAllButTunnel,
                queue, world, manager, SameWorld
  <1>2. CASE ~FinishForegroundDeletion
    <2>1. KeepAllButPod /\ \E p : WritePod(p)
      BY <1>2, Zenon
      DEF Kubernetes, StartContainer, CrashLoopBackOff, BecomeReady,
          ProbeFails, AgentExits, PodDeleted, Evict, PodGone, CollectPod,
          AgentStep, SetAgent
    <2>2. ~podEvent' => ~podEvent /\ pod' = pod
      BY <2>1, Zenon DEF WritePod
    <2> QED BY <2>1, <2>2
            DEF Unseen, Quiet, KeepAllButPod, queue, world, manager, SameWorld
  <1> QED BY <1>1, <1>2

LEMMA OthersAreUnseen ==
  ASSUME SyncTunnel \/ SyncPod \/ RequeueAfter \/ UNCHANGED vars PROVE Unseen
  <1>1. CASE SyncTunnel \/ SyncPod \/ RequeueAfter
    BY <1>1 DEF SyncTunnel, SyncPod, RequeueAfter, Unseen, Quiet, watches
  <1>2. CASE UNCHANGED vars
    BY <1>2 DEF vars, watches, queue, world, manager, Unseen, Quiet, SameWorld
  <1> QED BY <1>1, <1>2

LEMMA RightStays ==
  ASSUME NEW spec, NEW status, SameWorld(spec), UNCHANGED <<pod, image>>
  PROVE  /\ PodRight(spec) => PodRight(spec)'
         /\ StatusRight(status, spec) => StatusRight(status, spec)'
         /\ TokenOf(spec)' = TokenOf(spec)
         /\ TokenVerdict(spec)' = TokenVerdict(spec)
         /\ PortOf(spec)' = PortOf(spec)
  BY DEF SameWorld, PodRight, StatusRight, PodCurrent, Gates, Wanted, TokenOf,
         TokenVerdict, PortOf

LEMMA UnseenKeepsSettledInv ==
  ASSUME TypeInv, WakeInv, SettledInv, Unseen PROVE SettledInv'
  <1>1. UNCHANGED <<pc, orig, draft, existing, token, port, outcome>>
    BY DEF Unseen, pass
  <1>2. PodCacheFollows'
    BY DEF SettledInv, PodCacheFollows, Unseen
  <1>3. ASSUME Quiet', pc # "idle"
        PROVE  /\ Quiet /\ UNCHANGED pod
               /\ SameWorld(orig.spec) /\ UNCHANGED <<pod, image>>
    <2>1. orig = cachedTunnel /\ orig # None
      BY <1>3, NoneAssumption
      DEF Unseen, WakeInv, RefreshQueues, Quiet, TypeInv, PassInv
    <2> QED BY <1>3, <2>1 DEF Unseen
  <1>4. PodIsRead'
    BY <1>1, <1>3 DEF SettledInv, PodIsRead
  <1>5. TokenIsRead'
    BY <1>1, <1>3, RightStays
    DEF SettledInv, TokenIsRead, SameWorld, TokenOf, TokenVerdict
  <1>6. ServiceIsRead'
    BY <1>1, <1>3 DEF SettledInv, ServiceIsRead, SameWorld
  <1>7. BackendIsRead'
    BY <1>1, <1>3 DEF SettledInv, BackendIsRead, SameWorld, PortOf
  <1>8. DecisionStands'
    BY <1>1, <1>3
    DEF SettledInv, DecisionStands, SameWorld, PodRight, StatusRight,
        PodCurrent, Gates, Wanted, TokenVerdict, PortOf
  <1>9. SettledStands'
    <2> SUFFICES ASSUME pc = "idle", timer' # "retry", Quiet', Live',
                        ~Sticky(tunnel)'
                 PROVE  SettledStands'
      BY <1>1 DEF SettledStands
    <2>1. Quiet /\ UNCHANGED <<tunnel, pod, timer, image>>
      BY DEF Unseen
    <2>2. SameWorld(tunnel.spec)
      BY <2>1 DEF WakeInv, CacheFollows, Quiet, Live, Unseen
    <2>3. Live /\ ~Sticky(tunnel)
      BY <2>1 DEF Live, Sticky
    <2> QED BY <1>1, <2>1, <2>2, <2>3
            DEF SettledInv, SettledStands, SameWorld, PodRight, StatusRight,
                PodCurrent, Gates, Wanted, TokenVerdict, PortOf
  <1> QED BY <1>2, <1>4, <1>5, <1>6, <1>7, <1>8, <1>9 DEF SettledInv

-----------------------------------------------------------------------------
(* The reads of a pass.                                                     *)

LEMMA StartKeepsSettledInv ==
  ASSUME TypeInv, WakeInv, SettledInv, SkipPass \/ GetTunnelFails \/ BeginPass
  PROVE  SettledInv'
  <1>1. /\ UNCHANGED <<tunnel, tunnelEvent, pod, podEvent, cachedTunnel,
                       cachedPod>>
        /\ pc = "idle" /\ pc' \in {"idle", "getPod"}
    BY DEF SkipPass, GetTunnelFails, BeginPass, StartPass, watches, pass
  <1>2. PodCacheFollows'
    BY <1>1 DEF SettledInv, PodCacheFollows
  <1>3. SettledStands'
    <2>1. CASE SkipPass
      <3>1. Quiet' => tunnel = cachedTunnel
        BY <1>1 DEF WakeInv, CacheFollows, Quiet
      <3>2. NothingToDo(cachedTunnel)
        BY <2>1 DEF SkipPass
      <3> QED BY <1>1, <3>1, <3>2 DEF SettledStands, NothingToDo, Live, Sticky
    <2>2. CASE GetTunnelFails
      BY <2>2 DEF GetTunnelFails, SettledStands
    <2>3. CASE BeginPass
      BY <2>3 DEF BeginPass, SettledStands
    <2> QED BY <2>1, <2>2, <2>3
  <1> QED BY <1>1, <1>2, <1>3
          DEF SettledInv, PodIsRead, TokenIsRead, ServiceIsRead, BackendIsRead,
              DecisionStands

LEMMA LocalKeeps ==
  ASSUME Local
  PROVE  /\ UNCHANGED <<tunnel, pod, cachedPod, podEvent, secrets, services,
                        endpoints, image, orig>>
         /\ Quiet' = Quiet
         /\ PodCacheFollows' = PodCacheFollows
  BY DEF Local, watches, world, queue, manager, Quiet, PodCacheFollows

LEMMA FailKeepsSettledInv ==
  ASSUME SettledInv, NEW call, ReadFails(call) PROVE SettledInv'
  <1>1. Local /\ pc' = "patch" /\ outcome' = "error"
    BY DEF ReadFails, Return
  <1> QED BY <1>1, LocalKeeps
          DEF SettledInv, PodIsRead, TokenIsRead, ServiceIsRead, BackendIsRead,
              DecisionStands, SettledStands

LEMMA ReadPodKeepsSettledInv ==
  ASSUME TypeInv, SettledInv, ReadPod PROVE SettledInv'
  <1>1. Local /\ pc' = "getSecret" /\ existing' = cachedPod
    BY DEF ReadPod
  <1>2. draft'.podName = (existing' # None)
    BY DEF ReadPod, TypeInv, TypeOK, Statuses
  <1>3. PodIsRead'
    BY <1>1, <1>2, LocalKeeps DEF SettledInv, PodIsRead, PodCacheFollows, Quiet
  <1> QED BY <1>1, <1>3, LocalKeeps
          DEF SettledInv, TokenIsRead, ServiceIsRead, BackendIsRead,
              DecisionStands, SettledStands

LEMMA checkTokenKeepsSettledInv ==
  ASSUME TypeInv, SettledInv, checkToken PROVE SettledInv'
  <1>1. /\ Local /\ pc = "getSecret" /\ pc' = "getService"
        /\ UNCHANGED existing
    BY DEF checkToken
  <1>2. /\ token' = TokenOf(orig.spec)
        /\ draft' = [draft EXCEPT
                       !.conditions.TokenReady = TokenVerdict(orig.spec)]
    BY DEF checkToken, TokenOf, TokenVerdict
  <1>3. /\ draft'.conditions.TokenReady = TokenVerdict(orig.spec)
        /\ draft'.podName = draft.podName
    BY <1>2 DEF TypeInv, TypeOK, Statuses
  <1>4. PodIsRead'
    BY <1>1, <1>3, LocalKeeps DEF SettledInv, PodIsRead
  <1>5. TokenIsRead'
    BY <1>1, <1>2, <1>3, LocalKeeps DEF TokenIsRead, TokenOf, TokenVerdict
  <1> QED BY <1>1, <1>4, <1>5, LocalKeeps
          DEF SettledInv, ServiceIsRead, BackendIsRead, DecisionStands,
              SettledStands

LEMMA resolveServicePortKeepsSettledInv ==
  ASSUME TypeInv, SettledInv, resolveServicePort PROVE SettledInv'
  <1>1. /\ Local /\ pc = "getService" /\ UNCHANGED <<existing, token>>
        /\ pc' \in {"listSlices", "converge"}
    BY DEF resolveServicePort
  <1>2. /\ draft'.podName = draft.podName
        /\ draft'.conditions.TokenReady = draft.conditions.TokenReady
    BY DEF resolveServicePort, TypeInv, TypeOK, Statuses
  <1>3. PodIsRead'
    BY <1>1, <1>2, LocalKeeps DEF SettledInv, PodIsRead
  <1>4. TokenIsRead'
    BY <1>1, <1>2, LocalKeeps DEF SettledInv, TokenIsRead, TokenOf, TokenVerdict
  <1>5. ServiceIsRead'
    BY <1>1, LocalKeeps DEF ServiceIsRead, resolveServicePort
  <1>6. BackendIsRead'
    <2> SUFFICES ASSUME pc' = "converge" PROVE BackendIsRead'
      BY DEF BackendIsRead
    <2>1. /\ services[orig.spec.backend] \in ServiceFailures
          /\ port' = port /\ port = None
          /\ draft' = [draft EXCEPT !.conditions.BackendReady =
                                      services[orig.spec.backend]]
      BY DEF resolveServicePort, TypeInv, PassInv
    <2>2. draft'.conditions.BackendReady = services[orig.spec.backend]
      BY <2>1 DEF TypeInv, TypeOK, Statuses
    <2>3. /\ services[orig.spec.backend] # "EndpointsReady"
          /\ services[orig.spec.backend] \notin Ports
      BY <2>1, DataAssumption DEF AllServiceFailures
    <2> QED BY <1>1, <2>1, <2>2, <2>3, LocalKeeps DEF BackendIsRead, PortOf
  <1> QED BY <1>1, <1>3, <1>4, <1>5, <1>6, LocalKeeps
          DEF SettledInv, DecisionStands, SettledStands

LEMMA hasReadyEndpointKeepsSettledInv ==
  ASSUME TypeInv, SettledInv, hasReadyEndpoint PROVE SettledInv'
  <1>1. /\ Local /\ pc = "listSlices" /\ UNCHANGED <<existing, token>>
        /\ pc' = "converge"
    BY DEF hasReadyEndpoint
  <1>2. /\ draft'.podName = draft.podName
        /\ draft'.conditions.TokenReady = draft.conditions.TokenReady
    BY DEF hasReadyEndpoint, TypeInv, TypeOK, Statuses
  <1>3. PodIsRead'
    BY <1>1, <1>2, LocalKeeps DEF SettledInv, PodIsRead
  <1>4. TokenIsRead'
    BY <1>1, <1>2, LocalKeeps DEF SettledInv, TokenIsRead, TokenOf, TokenVerdict
  <1>5. port \in Ports /\ port # None
    BY <1>1, NoneAssumption DEF TypeInv, PassInv
  <1>6. Quiet' => port = services[orig.spec.backend]
    BY <1>1, LocalKeeps DEF SettledInv, ServiceIsRead
  <1>7. BackendIsRead'
    <2>1. CASE endpoints[orig.spec.backend]
      <3> DEFINE address == <<orig.spec.backend, port>>
      <3>1. /\ port' = port
            /\ draft' = [draft EXCEPT
                            !.conditions.BackendReady = "EndpointsReady",
                            !.backendAddress = address]
        BY <2>1 DEF hasReadyEndpoint
      <3> HIDE DEF address
      <3>2. /\ draft'.conditions.BackendReady = "EndpointsReady"
            /\ draft'.backendAddress = address
        BY <3>1 DEF TypeInv, TypeOK, Statuses
      <3> QED BY <1>1, <1>5, <1>6, <2>1, <3>1, <3>2, LocalKeeps
              DEF BackendIsRead, PortOf, address
    <2>2. CASE ~endpoints[orig.spec.backend]
      <3>1. /\ draft'.conditions.BackendReady = "NoReadyEndpoints"
            /\ port' = None
        BY <2>2 DEF hasReadyEndpoint, TypeInv, TypeOK, Statuses
      <3> QED BY <1>1, <2>2, <3>1, LocalKeeps DEF BackendIsRead, PortOf
    <2> QED BY <2>1, <2>2
  <1> QED BY <1>1, <1>3, <1>4, <1>7, LocalKeeps
          DEF SettledInv, ServiceIsRead, DecisionStands, SettledStands

-----------------------------------------------------------------------------
(* The decision of a pass.                                                  *)

LEMMA DecisionSees ==
  ASSUME TypeInv, SettledInv, pc = "converge", Quiet
  PROVE  /\ existing = pod
         /\ draft \in Statuses
         /\ draft.podName = (pod # None)
         /\ draft.assignedSubdomain = orig.spec.subdomain
         /\ draft.conditions.TokenReady = TokenVerdict(orig.spec)
         /\ draft.conditions.BackendReady = "EndpointsReady"
              <=> PortOf(orig.spec) # None
         /\ GatesOK <=> Gates(orig.spec)
         /\ GatesOK => /\ Desired = Wanted(orig.spec)
                       /\ draft.backendAddress = <<orig.spec.backend, port>>
  <1>1. /\ existing = pod /\ draft.podName = (existing # None)
        /\ token = TokenOf(orig.spec) /\ port = PortOf(orig.spec)
        /\ draft.conditions.TokenReady = TokenVerdict(orig.spec)
        /\ draft.conditions.BackendReady = "EndpointsReady" <=> port # None
        /\ port # None => draft.backendAddress = <<orig.spec.backend, port>>
    BY DEF SettledInv, PodIsRead, TokenIsRead, BackendIsRead
  <1>2. draft \in Statuses /\ draft.assignedSubdomain = orig.spec.subdomain
    BY DEF TypeInv, TypeOK, PassInv
  <1>3. GatesOK <=> Gates(orig.spec)
    <2>1. token # None <=> secrets[orig.spec.secret] \in Tokens
      BY <1>1, NoneAssumption DEF TokenOf
    <2>2. port # None <=> /\ services[orig.spec.backend] \in Ports
                          /\ endpoints[orig.spec.backend]
      BY <1>1, NoneAssumption DEF PortOf
    <2> QED BY <2>1, <2>2 DEF GatesOK, Gates
  <1>4. GatesOK => Desired = Wanted(orig.spec)
    BY <1>1, <1>2 DEF GatesOK, Desired, Wanted, TokenOf, PortOf
  <1>5. GatesOK => draft.backendAddress = <<orig.spec.backend, port>>
    BY <1>1 DEF GatesOK
  <1> QED BY <1>1, <1>2, <1>3, <1>4, <1>5

(* What a decision reports without Active, of an agent that is not ready.   *)
LEMMA NotReadyStands ==
  ASSUME TypeInv, SettledInv, Converging, KeepPod, Quiet,
         Return("requeue", draft'),
         draft'.assignedSubdomain = draft.assignedSubdomain,
         draft'.podName = draft.podName,
         draft'.conditions.TokenReady = draft.conditions.TokenReady,
         draft'.conditions.BackendReady = draft.conditions.BackendReady,
         draft'.phase # "Active",
         PodRight(orig.spec),
         ~(/\ Gates(orig.spec) /\ PodCurrent(pod, orig.spec)
           /\ pod.agent.state = "ready")
  PROVE  DecisionStands'
  <1>1. StatusRight(draft', orig.spec)
    BY DecisionSees DEF Converging, StatusRight
  <1>2. UNCHANGED <<pod, image, orig>> /\ SameWorld(orig.spec)
    BY DEF Converging, KeepPod, world, SameWorld
  <1> QED BY <1>1, <1>2
          DEF DecisionStands, PodRight, StatusRight, PodCurrent, Gates,
              Wanted, TokenVerdict, PortOf, SameWorld

LEMMA NotReadyFields ==
  ASSUME NEW status \in Statuses, NEW phase, NEW reason
  PROVE  LET next == setNotReady(status, phase, reason)
         IN /\ next.assignedSubdomain = status.assignedSubdomain
            /\ next.podName = status.podName
            /\ next.conditions.TokenReady = status.conditions.TokenReady
            /\ next.conditions.BackendReady = status.conditions.BackendReady
            /\ next.phase = phase
  BY DEF setNotReady, Statuses

LEMMA QuietBefore ==
  ASSUME Converging, KeepPod, Quiet' PROVE Quiet
  BY DEF Converging, KeepPod, Quiet, queue

LEMMA WaitStands ==
  ASSUME TypeInv, SettledInv, WaitForTermination, Quiet' PROVE DecisionStands'
  <1>1. Converging /\ KeepPod /\ existing # None /\ existing.deleting
    BY DEF WaitForTermination, Deciding
  <1>2. Quiet /\ existing = pod /\ draft \in Statuses
    BY <1>1, QuietBefore, DecisionSees DEF Converging
  <1>3. PodRight(orig.spec) /\ ~PodCurrent(pod, orig.spec)
    BY <1>1, <1>2 DEF PodRight, PodCurrent
  <1>4. draft' = setNotReady(draft, "Degraded", "PodPending")
        /\ Return("requeue", draft')
    BY DEF WaitForTermination, Return
  <1> QED BY <1>1, <1>2, <1>3, <1>4, NotReadyStands, NotReadyFields

LEMMA GateFailsStands ==
  ASSUME TypeInv, SettledInv, GateFails, Quiet' PROVE DecisionStands'
  <1>1. /\ Converging /\ KeepPod /\ ~GatesOK
        /\ existing # None => ~existing.deleting /\ ~HasVerdict(existing.agent)
    BY DEF GateFails, Deciding, Judged
  <1>2. /\ Quiet /\ existing = pod /\ draft \in Statuses
        /\ ~Gates(orig.spec)
    BY <1>1, QuietBefore, DecisionSees DEF Converging
  <1>3. PodRight(orig.spec)
    BY <1>1, <1>2 DEF PodRight
  <1> DEFINE phase  == IF existing = None THEN "Pending" ELSE "Degraded"
             reason == IF token = None THEN draft.conditions.TokenReady
                                       ELSE draft.conditions.BackendReady
  <1>4. draft' = setNotReady(draft, phase, reason) /\ Return("requeue", draft')
    BY DEF GateFails, Return
  <1>5. phase # "Active"
    OBVIOUS
  <1> HIDE DEF phase, reason
  <1> QED BY <1>1, <1>2, <1>3, <1>4, <1>5, NotReadyStands, NotReadyFields

(* A pod that is up to date as far as the gates allow to say.               *)
LEMMA NotOutdated ==
  ASSUME TypeInv, SettledInv, pc = "converge", Quiet, existing # None,
         ~existing.deleting, ~Outdated
  PROVE  /\ pod # None /\ ~pod.deleting
         /\ Gates(orig.spec) => PodCurrent(pod, orig.spec)
  BY DecisionSees DEF Outdated, PodCurrent

LEMMA RetryableStands ==
  ASSUME TypeInv, SettledInv, ApplyRetryable, Quiet' PROVE DecisionStands'
  <1>1. /\ Converging /\ KeepPod /\ existing # None /\ ~existing.deleting
        /\ ~Outdated /\ HasVerdict(existing.agent)
    BY DEF ApplyRetryable, DecidingOn, Deciding, Judged
  <1>2. Quiet /\ existing = pod /\ draft \in Statuses
    BY <1>1, QuietBefore, DecisionSees DEF Converging
  <1>3. Gates(orig.spec) => PodCurrent(pod, orig.spec)
    BY <1>1, <1>2, NotOutdated DEF Converging
  <1> DEFINE code    == Termination(existing.agent)
             verdict == classifyExit(code, orig.spec.behavior)
             blamed  == Blame(verdict, code)
  <1>4. /\ draft' = setNotReady(blamed, "Degraded", verdict.reason)
        /\ Return("requeue", draft') /\ ~verdict.terminal
    BY DEF ApplyRetryable, Return, classifyPod
  <1>5. PodRight(orig.spec)
    <2>1. ~classifyPod(pod.agent, orig.spec.behavior).terminal
      BY <1>2, <1>4, Zenon DEF classifyPod
    <2>2. pod # None
      BY <1>1, <1>2
    <2> QED BY <1>3, <2>1, <2>2 DEF PodRight
  <1>6. pod.agent.state # "ready"
    BY <1>1, <1>2 DEF HasVerdict
  <1>7. ~verdict.tokenInvalid
    BY <1>4, VerdictType DEF RetryReasons, TokenReasons
  <1>8. code \in ExitCodes \cup {NoCode}
    BY <1>1 DEF TypeInv, TypeOK, Pods, Agents, Termination
  <1>9. blamed \in Statuses
    BY <1>2, <1>8, BlameType
  <1>10. /\ blamed.assignedSubdomain = draft.assignedSubdomain
         /\ blamed.podName = draft.podName
         /\ blamed.conditions.TokenReady = draft.conditions.TokenReady
         /\ blamed.conditions.BackendReady = draft.conditions.BackendReady
    <2> HIDE DEF verdict, code
    <2> QED BY <1>2, <1>7 DEF Blame, Statuses
  <1> HIDE DEF blamed, verdict, code
  <1> QED BY <1>1, <1>2, <1>4, <1>5, <1>6, <1>9, <1>10, NotReadyStands,
             NotReadyFields

LEMMA NotReadyYetStands ==
  ASSUME TypeInv, SettledInv, ReportNotReady, Quiet' PROVE DecisionStands'
  <1>1. /\ Converging /\ KeepPod /\ existing # None /\ ~existing.deleting
        /\ ~Outdated /\ ~HasVerdict(existing.agent)
        /\ existing.agent.state # "ready"
    BY DEF ReportNotReady, DecidingOn, Deciding, Judged
  <1>2. Quiet /\ existing = pod /\ draft \in Statuses
    BY <1>1, QuietBefore, DecisionSees DEF Converging
  <1>3. Gates(orig.spec) => PodCurrent(pod, orig.spec)
    BY <1>1, <1>2, NotOutdated DEF Converging
  <1>4. draft' = setNotReady(draft, "Degraded", "PodNotReady")
        /\ Return("requeue", draft')
    BY DEF ReportNotReady, Return
  <1>5. PodRight(orig.spec)
    BY <1>1, <1>2, <1>3 DEF PodRight
  <1> QED BY <1>1, <1>2, <1>4, <1>5, NotReadyStands, NotReadyFields

LEMMA ActiveStands ==
  ASSUME TypeInv, SettledInv, ReportActive, Quiet' PROVE DecisionStands'
  <1>1. /\ Converging /\ KeepPod /\ existing # None /\ ~existing.deleting
        /\ GatesOK /\ ~Outdated /\ existing.agent.state = "ready"
    BY DEF ReportActive
  <1>2. /\ Quiet /\ existing = pod /\ draft \in Statuses
        /\ Gates(orig.spec) /\ Desired = Wanted(orig.spec)
        /\ draft.backendAddress = <<orig.spec.backend, port>>
        /\ draft.podName = (pod # None)
        /\ draft.assignedSubdomain = orig.spec.subdomain
        /\ draft.conditions.TokenReady = TokenVerdict(orig.spec)
        /\ draft.conditions.BackendReady = "EndpointsReady"
             <=> PortOf(orig.spec) # None
    BY <1>1, QuietBefore, DecisionSees DEF Converging
  <1>3. PodCurrent(pod, orig.spec)
    BY <1>1, <1>2, NotOutdated DEF Converging
  <1>4. PodRight(orig.spec)
    BY <1>1, <1>2, <1>3 DEF PodRight, HasVerdict
  <1> DEFINE active == [draft EXCEPT !.phase = "Active",
                                     !.conditions.Ready = "TunnelActive"]
  <1>5. /\ active.phase = "Active"
        /\ active.assignedSubdomain = draft.assignedSubdomain
        /\ active.podName = draft.podName
        /\ active.backendAddress = draft.backendAddress
        /\ active.conditions.TokenReady = draft.conditions.TokenReady
        /\ active.conditions.BackendReady = draft.conditions.BackendReady
        /\ active \in Statuses
    BY <1>2 DEF Statuses, Phases, ReadyConditions
  <1>6. /\ pc' = "patch"
        /\ \/ draft' = [active EXCEPT !.url = active.assignedSubdomain]
           \/ draft' = active /\ "domain" \in Faults
    BY DEF ReportActive, Return, Fault
  <1> HIDE DEF active
  <1>7. /\ draft'.phase = "Active"
        /\ draft'.assignedSubdomain = draft.assignedSubdomain
        /\ draft'.podName = draft.podName
        /\ draft'.backendAddress = draft.backendAddress
        /\ draft'.conditions.TokenReady = draft.conditions.TokenReady
        /\ draft'.conditions.BackendReady = draft.conditions.BackendReady
        /\ "domain" \notin Faults => draft'.url = draft.assignedSubdomain
    BY <1>5, <1>6 DEF Statuses
  <1>8. /\ pod.config.backend = orig.spec.backend
        /\ pod.config.port = port
    BY <1>2, <1>3 DEF PodCurrent, Desired
  <1>9. StatusRight(draft', orig.spec)
    BY <1>1, <1>2, <1>3, <1>7, <1>8 DEF StatusRight
  <1>10. UNCHANGED <<pod, image, orig>> /\ SameWorld(orig.spec)
    BY <1>1 DEF Converging, KeepPod, world, SameWorld
  <1> QED BY <1>4, <1>9, <1>10
          DEF DecisionStands, PodRight, StatusRight, PodCurrent, Gates,
              Wanted, TokenVerdict, PortOf, SameWorld

(* A decision that writes the pod leads to another pass, or is an error.    *)
LEMMA WritesAreNews ==
  ASSUME TypeInv, SettledInv, CreatePod \/ DeleteOutdated \/ ApplyTerminal,
         Quiet'
  PROVE  outcome' = "error"
  <1>1. Converging /\ pc = "converge"
    BY DEF CreatePod, DeleteOutdated, ApplyTerminal, DecidingOn, Deciding,
           Converging
  <1>2. ASSUME NEW p, WritePod(p) PROVE Quiet /\ pod = p
    BY <1>1, <1>2 DEF WritePod, Quiet, Converging, queue
  <1>3. ASSUME WritePod(Deleted(pod)), existing # None, ~existing.deleting
        PROVE  FALSE
    <2>1. Quiet /\ pod = Deleted(pod)
      BY <1>2, <1>3
    <2>2. existing = pod /\ pod \in Pods
      BY <1>1, <1>3, <2>1, DecisionSees DEF TypeInv, TypeOK
    <2> QED BY <1>3, <2>1, <2>2 DEF Deleted, Pods
  <1>4. CASE CreatePod
    <2>1. ASSUME pod = None, WritePod(desiredPod) PROVE FALSE
      <3>1. desiredPod \in Pods
        BY <1>1, <1>4, desiredPodType DEF CreatePod
      <3> QED BY <1>2, <2>1, <3>1, NoneAssumption
    <2> QED BY <1>4, <2>1 DEF CreatePod, Return
  <1>5. CASE DeleteOutdated
    BY <1>3, <1>5 DEF DeleteOutdated, DecidingOn, Return
  <1>6. CASE ApplyTerminal
    <2>1. existing # None /\ ~existing.deleting
      BY <1>6 DEF ApplyTerminal, DecidingOn
    <2>2. \E failed : StopAgent(failed)
      BY <1>6, Zenon DEF ApplyTerminal
    <2> QED BY <1>3, <2>1, <2>2 DEF StopAgent, Return
  <1> QED BY <1>4, <1>5, <1>6

LEMMA DecisionKeepsSettledInv ==
  ASSUME TypeInv, SettledInv, DecisionSteps PROVE SettledInv'
  <1>1. Converging
    BY Zenon DEF DecisionSteps, WaitForTermination, CreatePod, DeleteOutdated,
                 ApplyRetryable, ApplyTerminal, GateFails, ReportActive,
                 ReportNotReady, DecidingOn, Deciding
  <1>2. pc' = "patch"
    BY DEF DecisionSteps, WaitForTermination, CreatePod, DeleteOutdated,
           ApplyRetryable, ApplyTerminal, StopAgent, GateFails, ReportActive,
           ReportNotReady, Return
  <1>3. KeepPod \/ \E p : WritePod(p)
    BY Zenon DEF DecisionSteps, WaitForTermination, CreatePod, DeleteOutdated,
                 ApplyRetryable, ApplyTerminal, StopAgent, GateFails,
                 ReportActive, ReportNotReady, Lost
  <1>4. PodCacheFollows'
    <2>1. ~podEvent' => ~podEvent /\ pod' = pod
      BY <1>3, Zenon DEF KeepPod, WritePod
    <2> QED BY <1>1, <2>1 DEF Converging, SettledInv, PodCacheFollows
  <1>5. DecisionStands'
    <2>1. CASE Quiet' /\ outcome' # "error"
      BY <2>1, WaitStands, WritesAreNews, RetryableStands, GateFailsStands,
         ActiveStands, NotReadyYetStands DEF DecisionSteps
    <2>2. CASE ~Quiet' \/ outcome' = "error"
      BY <2>2 DEF DecisionStands
    <2> QED BY <2>1, <2>2
  <1> QED BY <1>2, <1>4, <1>5
          DEF SettledInv, PodIsRead, TokenIsRead, ServiceIsRead, BackendIsRead,
              SettledStands

-----------------------------------------------------------------------------
(* The end of a pass.                                                       *)

LEMMA PatchKeepsSettledInv ==
  ASSUME TypeInv, WakeInv, SettledInv, patchStatus PROVE SettledInv'
  <1>1. /\ pc = "patch" /\ pc' = "idle"
        /\ UNCHANGED <<queued, pod, podEvent, cachedPod, cachedTunnel, image,
                       secrets, services, endpoints>>
    BY DEF patchStatus, EndPass, world, manager
  <1>2. /\ ~tunnelEvent' => ~tunnelEvent /\ tunnel' = tunnel
    BY Zenon DEF patchStatus, KeepTunnel, WriteTunnel
  <1>3. PodCacheFollows'
    BY <1>1 DEF SettledInv, PodCacheFollows
  <1>4. SettledStands'
    <2> SUFFICES ASSUME timer' # "retry", Quiet', Live', ~Sticky(tunnel)'
                 PROVE  SettledStands'
      BY DEF SettledStands
    <2>1. Quiet /\ tunnel' = tunnel
      BY <1>1, <1>2 DEF Quiet
    <2>2. orig = tunnel /\ tunnel \in Tunnels /\ draft \in Statuses
      BY <1>1, <2>1
      DEF WakeInv, CacheFollows, RefreshQueues, Quiet, TypeInv, TypeOK, PassInv
    <2>3. outcome # "error" /\ ~EndPass(TRUE)
      BY DEF patchStatus, EndPass
    <2>4. PodRight(orig.spec) /\ StatusRight(draft, orig.spec)
      BY <1>1, <2>1, <2>3 DEF SettledInv, DecisionStands
    <2>5. FinalStatus = tunnel.status
      <3> SUFFICES ASSUME FinalStatus # tunnel.status PROVE FALSE
        OBVIOUS
      <3>1. WriteTunnel(Patched)
        BY <2>2, <2>3 DEF patchStatus
      <3>2. tunnel = Patched
        BY <2>1, <3>1, Zenon DEF WriteTunnel
      <3>3. FinalStatus \in Statuses
        <4>1. orig.generation \in 0..MaxGeneration
          BY <2>2, BoundsAssumption DEF Tunnels
        <4> QED BY <2>2, <4>1, FieldTypes DEF FinalStatus
      <3>4. tunnel.status = Merge(tunnel.status, tunnel.status, FinalStatus)
        BY <2>2, <3>2 DEF Patched, Tunnels
      <3>5. Merge(tunnel.status, tunnel.status, FinalStatus) = FinalStatus
        BY <2>2, <3>3 DEF Merge, Tunnels, Statuses
      <3> QED BY <3>4, <3>5
    <2>6. /\ tunnel.status.observedGeneration = tunnel.generation
          /\ tunnel.status.assignedSubdomain = draft.assignedSubdomain
          /\ tunnel.status.podName = draft.podName
          /\ tunnel.status.conditions = draft.conditions
          /\ tunnel.status.phase = draft.phase
          /\ tunnel.status.backendAddress = draft.backendAddress
          /\ tunnel.status.url = draft.url
      BY <2>2, <2>5 DEF FinalStatus, Statuses
    <2>7. StatusRight(tunnel.status, tunnel.spec)
      BY <2>2, <2>4, <2>6 DEF StatusRight
    <2>8. SameWorld(tunnel.spec)
      BY <1>1 DEF SameWorld
    <2> QED BY <1>1, <2>1, <2>2, <2>4, <2>6, <2>7, <2>8
            DEF SettledStands, PodRight, StatusRight, PodCurrent, Gates,
                Wanted, TokenVerdict, PortOf, SameWorld
  <1> QED BY <1>1, <1>3, <1>4
          DEF SettledInv, PodIsRead, TokenIsRead, ServiceIsRead, BackendIsRead,
              DecisionStands

LEMMA CrashKeepsSettledInv == ASSUME Crash PROVE SettledInv'
  BY DEF Crash, Quiet, Live, SettledInv, PodCacheFollows, PodIsRead,
         TokenIsRead, ServiceIsRead, BackendIsRead, DecisionStands,
         SettledStands

LEMMA StepSettledInv ==
  ASSUME NoEventIsLost
  PROVE  TypeInv /\ WakeInv /\ SettledInv /\ [Next]_vars => SettledInv'
  <1> SUFFICES ASSUME TypeInv, WakeInv, SettledInv, [Next]_vars
               PROVE  SettledInv'
    OBVIOUS
  <1>1. CASE Reconcile
    <2>1. \/ SkipPass \/ GetTunnelFails \/ BeginPass
          \/ ReadSteps \/ DecisionSteps \/ patchStatus
      BY <1>1, Zenon DEF Reconcile, ReadSteps, DecisionSteps
    <2>2. CASE ReadSteps
      BY <2>2, FailKeepsSettledInv, ReadPodKeepsSettledInv,
         checkTokenKeepsSettledInv, resolveServicePortKeepsSettledInv,
         hasReadyEndpointKeepsSettledInv DEF ReadSteps
    <2> QED BY <2>1, <2>2, StartKeepsSettledInv, DecisionKeepsSettledInv,
               PatchKeepsSettledInv
  <1>2. CASE Manager
    BY <1>2, OthersAreUnseen, UnseenKeepsSettledInv, CrashKeepsSettledInv
    DEF Manager
  <1>3. CASE World \/ Users \/ Kubernetes \/ UNCHANGED vars
    <2>1. World => Unseen
      BY SecretIsUnseen, BackendIsUnseen DEF World
    <2> QED BY <1>3, <2>1, UsersAreUnseen, KubernetesIsUnseen,
               OthersAreUnseen, UnseenKeepsSettledInv
  <1> QED BY <1>1, <1>2, <1>3 DEF Next

LEMMA SettledAlways ==
  ASSUME NoEventIsLost PROVE Spec => [](TypeInv /\ SettledInv)
  BY InitTypeInv, StepTypeInv, InitWakeInv, StepWakeInv, InitSettledInv,
     StepSettledInv, PTL DEF Spec

(* The requeues are only a net: without them, a controller that hears of    *)
(* every change has settled with the agent it should have, whatever failed, *)
(* crashed, was edited, or was read too late on the way there.              *)
THEOREM SettledAgentIsCurrent ==
  ASSUME NoEventIsLost PROVE Spec => []SettledPodIsCurrent
  <1>1. TypeInv /\ SettledInv => SettledPodIsCurrent
    BY DEF SettledInv, SettledStands, SettledPodIsCurrent, Settled, Quiet,
           PodRight, PodCurrent, UpToDate
  <1> QED BY <1>1, SettledAlways, PTL

(* Once settled, the status tells the user what is the case: for every      *)
(* history of edits, failures, crashes, re-creations, and stale reads.      *)
THEOREM SettledStatusTellsTheTruth ==
  ASSUME NoEventIsLost PROVE Spec => []SettledStatusIsHonest
  <1>1. ASSUME TypeInv, SettledInv, Settled, ~Sticky(tunnel)
        PROVE  SettledStatusIsHonest
    <2>1. /\ tunnel.status.observedGeneration = tunnel.generation
          /\ StatusRight(tunnel.status, tunnel.spec)
      BY <1>1 DEF SettledInv, SettledStands, Settled, Quiet
    <2>2. PortOf(tunnel.spec) # None
            <=> /\ services[tunnel.spec.backend] \in Ports
                /\ endpoints[tunnel.spec.backend]
      BY NoneAssumption DEF PortOf
    <2> QED BY <2>1, <2>2
            DEF SettledStatusIsHonest, StatusRight, TokenVerdict, PodCurrent,
                UpToDate
  <1>2. TypeInv /\ SettledInv => SettledStatusIsHonest
    BY <1>1 DEF SettledStatusIsHonest
  <1> QED BY <1>2, SettledAlways, PTL
=============================================================================
