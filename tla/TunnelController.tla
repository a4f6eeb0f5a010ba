-------------------------- MODULE TunnelController --------------------------
(***************************************************************************)
(* The JprqTunnel reconciler (internal/controller) driving one tunnel,      *)
(* together with what it interacts with: the API server and the informer    *)
(* caches, the workqueue, the users who edit the tunnel, the Secret, the    *)
(* Service and its endpoints, kubelet, the agent container, and the         *)
(* garbage collector.  Tunnels do not share state in the controller and the *)
(* workqueue never runs two passes for one key, so one tunnel and one       *)
(* worker are enough.                                                       *)
(*                                                                          *)
(* A pass takes one step per API call: between two of them everything else  *)
(* may move.  Secrets, Services and EndpointSlices are represented as the   *)
(* informers show them; the tunnel and its pod, which the pass also writes, *)
(* have a server copy and a cached copy.                                    *)
(*                                                                          *)
(* Left out of status: restartCount, lastFailureMessage and timestamps,     *)
(* which no decision reads.  A condition is its reason.                     *)
(***************************************************************************)
EXTENDS Integers, Classify

CONSTANTS
  Subdomains,       \* values of spec.subdomain
  Backends,         \* values of spec.backend: a Service and a port reference
  Ports,            \* port numbers a Service can resolve the reference to
  Secrets,          \* values of spec.jprqTokenSecret
  Tokens,           \* token bytes a Secret can hold
  Images,           \* values of --agent-image
  ExitCodes,        \* exit codes of the agent container
  SecretFailures,   \* how reading the token may fail
  ServiceFailures,  \* how resolving the backend's port may fail
  None,             \* nil
  CacheLag,         \* may a pass read a tunnel or a pod its watch is behind on?
  Faults,           \* what may go wrong, see Fault
  MaxGeneration,    \* bound on spec edits
  MaxIncarnations,  \* bound on creations of the tunnel
  MaxDisturbances   \* bound on everything that upsets a settled tunnel

(* API calls that may fail, watch events that may get lost while they are   *)
(* mapped to tunnels, a manager that may crash, a pod that may be evicted.  *)
AllFaults ==
  {"getTunnel", "getPod", "getSecret", "getService", "listSlices", "create",
   "delete", "patch", "domain", "index", "crash", "evict"}

AllSecretFailures  == {"SecretNotFound", "SecretKeyNotFound", "EmptyToken"}
AllServiceFailures == {"ServiceNotFound", "PortNotResolvable"}

SecretStates  == SecretFailures \cup Tokens
ServiceStates == ServiceFailures \cup Ports

Specs ==
  [subdomain : Subdomains, behavior : Behaviors, backend : Backends,
   secret : Secrets]

(* What specHash covers, the constants among its inputs left out.           *)
Configs ==
  [image : Images, subdomain : Subdomains, backend : Backends, port : Ports,
   secret : Secrets, token : Tokens]

Agents ==
  [state : ContainerStates, code : ExitCodes \cup {NoCode},
   last : ExitCodes \cup {NoCode}]

Pods ==
  [owner : 1..MaxIncarnations, config : Configs, deleting : BOOLEAN,
   evicted : BOOLEAN, agent : Agents]

Phases == {"", "Pending", "Active", "Degraded", "Failed"}

TokenConditions   == {"", "TokenFound"} \cup SecretFailures \cup TokenReasons
BackendConditions ==
  {"", "EndpointsReady", "NoReadyEndpoints"} \cup ServiceFailures
ReadyConditions   ==
  {"", "TunnelActive", "PodNotReady", "PodPending", "NoReadyEndpoints"}
    \cup SecretFailures \cup ServiceFailures
    \cup TerminalReasons \cup RetryReasons

Statuses ==
  [phase : Phases, observedGeneration : 0..MaxGeneration,
   assignedSubdomain : Subdomains \cup {None},
   backendAddress : (Backends \X Ports) \cup {None},
   podName : BOOLEAN,
   lastExitCode : ExitCodes \cup {NoCode},
   url : Subdomains \cup {None},
   conditions : [Ready : ReadyConditions, TokenReady : TokenConditions,
                 BackendReady : BackendConditions]]

Tunnels ==
  [uid : 1..MaxIncarnations, generation : 1..MaxGeneration,
   deleting : BOOLEAN, spec : Specs, status : Statuses]

ASSUME BoundsAssumption ==
  /\ MaxGeneration \in Nat \ {0}
  /\ MaxIncarnations \in Nat \ {0}
  /\ MaxDisturbances \in Nat
ASSUME FaultsAssumption == Faults \subseteq AllFaults /\ CacheLag \in BOOLEAN
ASSUME CodesAssumption == ExitCodes \subseteq Nat
ASSUME DataAssumption ==
  /\ SecretFailures \subseteq AllSecretFailures
  /\ ServiceFailures \subseteq AllServiceFailures
  /\ Tokens \cap SecretFailures = {}
  /\ Ports \cap ServiceFailures = {}
ASSUME NoneAssumption ==
  /\ None \notin Tokens \cup Ports \cup Subdomains \cup (Backends \X Ports)
  /\ None \notin Tunnels
  /\ None \notin Pods

VARIABLES
  tunnel,        \* the JprqTunnel on the API server, or None
  pod,           \* its agent pod on the API server, or None
  cachedTunnel,  \* the tunnel as its informer shows it
  cachedPod,     \* the pod as its informer shows it
  tunnelEvent,   \* the tunnel informer has an event to deliver
  podEvent,      \* the pod informer has an event to deliver
  secrets,       \* what each Secret resolves to
  services,      \* what each backend's Service resolves to
  endpoints,     \* whether each backend has a ready endpoint
  queued,        \* the tunnel's key is in the workqueue
  timer,         \* the key waits for a back-off ("retry"), a RequeueAfter ("net")
  pc,            \* the next call of the pass, "idle" between passes
  orig,          \* the tunnel as the pass read it (original in Reconcile)
  draft,         \* the status of the pass's working copy
  existing,      \* the pod as the pass read it
  token,         \* the token of a passed token gate, else None
  port,          \* the port of a resolved backend, else None
  outcome,       \* what reconcile returned: "requeue", "error" or "done"
  image,         \* --agent-image of the running manager
  domainKnown,   \* its Resolver has the jprq domain cached
  incarnations, disturbances  \* used up of the bounds

watches == <<cachedTunnel, cachedPod, tunnelEvent, podEvent>>
world   == <<secrets, services, endpoints>>
queue   == <<queued, timer>>
pass    == <<pc, orig, draft, existing, token, port, outcome>>
manager == <<image, domainKnown>>
bounds  == <<incarnations, disturbances>>
vars    == <<tunnel, pod, watches, world, queue, pass, manager, bounds>>

InitStatus ==
  [phase |-> "", observedGeneration |-> 0, assignedSubdomain |-> None,
   backendAddress |-> None, podName |-> FALSE, lastExitCode |-> NoCode,
   url |-> None,
   conditions |-> [Ready |-> "", TokenReady |-> "", BackendReady |-> ""]]

Init ==
  /\ tunnel = None /\ pod = None
  /\ cachedTunnel = None /\ cachedPod = None
  /\ tunnelEvent = FALSE /\ podEvent = FALSE
  /\ secrets \in [Secrets -> SecretStates]
  /\ services \in [Backends -> ServiceStates]
  /\ endpoints \in [Backends -> BOOLEAN]
  /\ queued = FALSE /\ timer = "none"
  /\ pc = "idle" /\ orig = None /\ draft = InitStatus /\ existing = None
  /\ token = None /\ port = None /\ outcome = "done"
  /\ image \in Images /\ domainKnown = FALSE
  /\ incarnations = 0 /\ disturbances = 0

Disturb ==
  disturbances < MaxDisturbances /\ disturbances' = disturbances + 1

Fault(f) == f \in Faults /\ Disturb

(* Writes to the API server: one that changes the object is news to its     *)
(* watch.                                                                   *)
WriteTunnel(t) == tunnel' = t /\ tunnelEvent' = (tunnelEvent \/ t # tunnel)
WritePod(p)    == pod' = p /\ podEvent' = (podEvent \/ p # pod)
KeepTunnel     == UNCHANGED <<tunnel, tunnelEvent>>
KeepPod        == UNCHANGED <<pod, podEvent>>
KeepCaches     == UNCHANGED <<cachedTunnel, cachedPod>>

-----------------------------------------------------------------------------
(* Reconcile, up to the call of reconcile.                                  *)

(* Mutant of Sticky: a failure outlives the edit that re-arms the tunnel.   *)
StickyForGood(t) == t.status.phase = "Failed"

Sticky(t) ==
  /\ t.status.phase = "Failed"
  /\ t.status.observedGeneration = t.generation

(* Mutant of NothingToDo: the check for a terminal failure is missing.      *)
NothingToDoUnlessGone(t) == \/ t = None
                            \/ t # None /\ t.deleting

NothingToDo(t) == \/ t = None
                  \/ t # None /\ (t.deleting \/ Sticky(t))

StartPass ==
  /\ pc = "idle" /\ queued
  /\ CacheLag \/ ~tunnelEvent
  /\ queued' = FALSE
  /\ UNCHANGED <<tunnel, pod, watches, world, manager, incarnations>>

SkipPass ==
  /\ StartPass
  /\ NothingToDo(cachedTunnel)
  /\ UNCHANGED <<timer, pass, disturbances>>

GetTunnelFails ==
  /\ StartPass
  /\ Fault("getTunnel")
  /\ timer' = "retry"
  /\ UNCHANGED pass

BeginPass ==
  /\ StartPass
  /\ ~NothingToDo(cachedTunnel)
  /\ pc' = "getPod"
  /\ orig' = cachedTunnel
  /\ draft' = [cachedTunnel.status EXCEPT
                 !.assignedSubdomain = cachedTunnel.spec.subdomain]
  /\ UNCHANGED <<timer, existing, token, port, outcome, disturbances>>

-----------------------------------------------------------------------------
(* reconcile: the reads.                                                    *)

(* A step of the pass that leaves the API server and the queue alone.       *)
Local == UNCHANGED <<tunnel, pod, watches, world, queue, orig, manager,
                     incarnations>>

(* reconcile returns; what is left of Reconcile is patchStatus.             *)
Return(result, status) ==
  /\ pc' = "patch" /\ outcome' = result /\ draft' = status
  /\ existing' = None /\ token' = None /\ port' = None

(* A failed read abandons reconcile; the status is patched all the same.    *)
ReadFails(call) ==
  /\ pc = call /\ Fault(call)
  /\ Return("error", draft)
  /\ Local

(* Mutant of ReadPod: the name of a pod that is gone stays in the status.   *)
ReadPodKeepingName ==
  /\ pc = "getPod"
  /\ CacheLag \/ ~podEvent
  /\ existing' = cachedPod
  /\ draft' = [draft EXCEPT !.podName = @ \/ cachedPod # None]
  /\ pc' = "getSecret"
  /\ UNCHANGED <<token, port, outcome, disturbances>> /\ Local

ReadPod ==
  /\ pc = "getPod"
  /\ CacheLag \/ ~podEvent
  /\ existing' = cachedPod
  /\ draft' = [draft EXCEPT !.podName = (cachedPod # None)]
  /\ pc' = "getSecret"
  /\ UNCHANGED <<token, port, outcome, disturbances>> /\ Local

checkToken ==
  /\ pc = "getSecret"
  /\ LET secret == secrets[orig.spec.secret]
         found  == secret \in Tokens
     IN /\ token' = IF found THEN secret ELSE None
        /\ draft' = [draft EXCEPT !.conditions.TokenReady =
                       IF found THEN "TokenFound" ELSE secret]
  /\ pc' = "getService"
  /\ UNCHANGED <<existing, port, outcome, disturbances>> /\ Local

resolveServicePort ==
  /\ pc = "getService"
  /\ LET service == services[orig.spec.backend]
     IN \/ /\ service \in Ports
           /\ port' = service /\ pc' = "listSlices"
           /\ UNCHANGED draft
        \/ /\ service \in ServiceFailures
           /\ pc' = "converge"
           /\ draft' = [draft EXCEPT !.conditions.BackendReady = service]
           /\ UNCHANGED port
  /\ UNCHANGED <<existing, token, outcome, disturbances>> /\ Local

hasReadyEndpoint ==
  /\ pc = "listSlices"
  /\ LET backend == orig.spec.backend
     IN \/ /\ endpoints[backend]
           /\ draft' = [draft EXCEPT
                          !.conditions.BackendReady = "EndpointsReady",
                          !.backendAddress = <<backend, port>>]
           /\ UNCHANGED port
        \/ /\ ~endpoints[backend]
           /\ draft' = [draft EXCEPT
                          !.conditions.BackendReady = "NoReadyEndpoints"]
           /\ port' = None
  /\ pc' = "converge"
  /\ UNCHANGED <<existing, token, outcome, disturbances>> /\ Local

-----------------------------------------------------------------------------
(* reconcile: the decision.  Its branches exclude each other.               *)

GatesOK == token # None /\ port # None

(* desiredPod(agentConfig(...)), as far as the spec hash tells pods apart.  *)
Desired ==
  [image |-> image, subdomain |-> draft.assignedSubdomain,
   backend |-> orig.spec.backend, port |-> port,
   secret |-> orig.spec.secret, token |-> token]

(* Mutant of desiredPod: the owner reference is forgotten.                  *)
UnownedPod ==
  [owner |-> None, config |-> Desired, deleting |-> FALSE,
   evicted |-> FALSE, agent |-> NoStatus]

desiredPod ==
  [owner |-> orig.uid, config |-> Desired, deleting |-> FALSE,
   evicted |-> FALSE, agent |-> NoStatus]

(* Mutant of Outdated: the token digest is not part of the spec hash.       *)
OutdatedButForToken ==
  GatesOK /\ [existing.config EXCEPT !.token = token] # Desired

Outdated == GatesOK /\ existing.config # Desired
Judged   == HasVerdict(existing.agent)

(* Mutant of setNotReady: the Ready condition is not set.                   *)
setPhaseOnly(status, phase, reason) == [status EXCEPT !.phase = phase]

setNotReady(status, phase, reason) ==
  [status EXCEPT !.phase = phase, !.conditions.Ready = reason]

Converging ==
  /\ pc = "converge"
  /\ UNCHANGED <<tunnel, tunnelEvent, cachedTunnel, cachedPod, world, queue,
                 orig, image, incarnations>>

Deciding == Converging /\ UNCHANGED domainKnown

(* The pass has a pod, not yet deleted when it was read.                    *)
DecidingOn(p) == Deciding /\ p # None /\ ~p.deleting

Deleted(p) == IF p = None THEN None ELSE [p EXCEPT !.deleting = TRUE]

(* A call that fails may have taken effect all the same.                    *)
Lost(call, p) == Fault(call) /\ (KeepPod \/ WritePod(p))

WaitForTermination ==
  /\ Deciding /\ existing # None /\ existing.deleting
  /\ Return("requeue", setNotReady(draft, "Degraded", "PodPending"))
  /\ KeepPod /\ UNCHANGED disturbances

(* Mutant of CreatePod: AlreadyExists is answered by replacing the pod.      *)
ReplacePod ==
  /\ Deciding /\ existing = None /\ GatesOK
  /\ WritePod(desiredPod) /\ UNCHANGED disturbances
  /\ Return("requeue", setNotReady([draft EXCEPT !.podName = TRUE],
                                   "Pending", "PodPending"))

CreatePod ==
  /\ Deciding /\ existing = None /\ GatesOK
  /\ \/ /\ pod = None
        /\ WritePod(desiredPod) /\ UNCHANGED disturbances
        /\ Return("requeue", setNotReady([draft EXCEPT !.podName = TRUE],
                                         "Pending", "PodPending"))
     \/ /\ pod # None                                     \* AlreadyExists
        /\ KeepPod /\ UNCHANGED disturbances
        /\ Return("error", draft)
     \/ /\ Lost("create", IF pod = None THEN desiredPod ELSE pod)
        /\ Return("error", draft)

DeleteOutdated ==
  /\ DecidingOn(existing) /\ Outdated
  /\ \/ /\ WritePod(Deleted(pod)) /\ UNCHANGED disturbances
        /\ Return("requeue", setNotReady(draft, "Pending", "PodPending"))
     \/ /\ Lost("delete", Deleted(pod))
        /\ Return("error", draft)

(* applyVerdict: what it records, and how it stops a failed agent.          *)

(* Mutant of Blame: lastExitCode keeps its first value.                     *)
BlameOnce(verdict, code) ==
  [draft EXCEPT
     !.lastExitCode = IF @ = NoCode THEN code ELSE @,
     !.conditions.TokenReady =
        IF verdict.tokenInvalid THEN verdict.reason ELSE @]

Blame(verdict, code) ==
  [draft EXCEPT
     !.lastExitCode = code,
     !.conditions.TokenReady =
        IF verdict.tokenInvalid THEN verdict.reason ELSE @]

(* Mutant of StopAgent: the pod of a failed tunnel is left alone.           *)
LeaveAgent(failed) ==
  KeepPod /\ UNCHANGED disturbances /\ Return("done", failed)

StopAgent(failed) ==
  \/ /\ WritePod(Deleted(pod)) /\ UNCHANGED disturbances
     /\ Return("done", [failed EXCEPT !.podName = FALSE])
  \/ /\ Lost("delete", Deleted(pod))
     /\ Return("error", failed)

ApplyRetryable ==
  /\ DecidingOn(existing) /\ ~Outdated /\ Judged
  /\ LET verdict == classifyPod(existing.agent, orig.spec.behavior)
         status  == Blame(verdict, Termination(existing.agent))
     IN /\ ~verdict.terminal
        /\ Return("requeue", setNotReady(status, "Degraded", verdict.reason))
  /\ KeepPod /\ UNCHANGED disturbances

ApplyTerminal ==
  /\ DecidingOn(existing) /\ ~Outdated /\ Judged
  /\ LET verdict == classifyPod(existing.agent, orig.spec.behavior)
         status  == Blame(verdict, Termination(existing.agent))
     IN /\ verdict.terminal
        /\ StopAgent(setNotReady(status, "Failed", verdict.reason))

GateFails ==
  /\ Deciding /\ ~GatesOK
  /\ existing # None => ~existing.deleting /\ ~Judged
  /\ Return("requeue",
            setNotReady(draft,
                        IF existing = None THEN "Pending" ELSE "Degraded",
                        IF token = None THEN draft.conditions.TokenReady
                                        ELSE draft.conditions.BackendReady))
  /\ KeepPod /\ UNCHANGED disturbances

(* URLFor names the subdomain; without a domain the URL stays as it was.    *)
(* The Resolver fetches the domain until it has it once.                    *)
ReportActive ==
  /\ Converging /\ existing # None /\ ~existing.deleting
  /\ GatesOK /\ ~Outdated /\ existing.agent.state = "ready"
  /\ LET active == [draft EXCEPT !.phase = "Active",
                                 !.conditions.Ready = "TunnelActive"]
     IN \/ /\ domainKnown' = TRUE /\ UNCHANGED disturbances
           /\ Return("requeue",
                     [active EXCEPT !.url = active.assignedSubdomain])
        \/ /\ ~domainKnown /\ Fault("domain") /\ UNCHANGED domainKnown
           /\ Return("requeue", active)
  /\ KeepPod

ReportNotReady ==
  /\ DecidingOn(existing) /\ GatesOK /\ ~Outdated /\ ~Judged
  /\ existing.agent.state # "ready"
  /\ Return("requeue", setNotReady(draft, "Degraded", "PodNotReady"))
  /\ KeepPod /\ UNCHANGED disturbances

-----------------------------------------------------------------------------
(* patchStatus, and the end of the pass.                                    *)

(* Mutant of FinalStatus: observedGeneration counts passes.                 *)
CountingStatus ==
  [draft EXCEPT !.observedGeneration = orig.status.observedGeneration + 1]

FinalStatus == [draft EXCEPT !.observedGeneration = orig.generation]

(* A JSON merge patch: the fields that differ from original, written over   *)
(* whatever the server has; conditions, a list, as a whole.                 *)
Merge(server, from, to) ==
  [field \in DOMAIN server |->
     IF to[field] # from[field] THEN to[field] ELSE server[field]]

Patched ==
  [tunnel EXCEPT !.status = Merge(tunnel.status, orig.status, FinalStatus)]

(* Mutants of EndPass: only an error of reconcile is retried; a pass that   *)
(* waits for something is not repeated.                                     *)
EndPassIgnoringPatch(patchFailed) ==
  /\ timer' = IF outcome = "error" THEN "retry"
              ELSE IF outcome = "requeue" /\ timer = "none" THEN "net"
              ELSE timer
  /\ pc' = "idle" /\ orig' = None /\ draft' = InitStatus /\ outcome' = "done"
  /\ UNCHANGED <<queued, existing, token, port, pod, podEvent, cachedTunnel,
                 cachedPod, world, manager, incarnations>>

EndPassWithoutNet(patchFailed) ==
  /\ timer' = IF patchFailed \/ outcome = "error" THEN "retry" ELSE timer
  /\ pc' = "idle" /\ orig' = None /\ draft' = InitStatus /\ outcome' = "done"
  /\ UNCHANGED <<queued, existing, token, port, pod, podEvent, cachedTunnel,
                 cachedPod, world, manager, incarnations>>

EndPass(patchFailed) ==
  /\ timer' = IF patchFailed \/ outcome = "error" THEN "retry"
              ELSE IF outcome = "requeue" /\ timer = "none" THEN "net"
              ELSE timer
  /\ pc' = "idle" /\ orig' = None /\ draft' = InitStatus /\ outcome' = "done"
  /\ UNCHANGED <<queued, existing, token, port, pod, podEvent, cachedTunnel,
                 cachedPod, world, manager, incarnations>>

patchStatus ==
  /\ pc = "patch"
  /\ \/ /\ FinalStatus = orig.status
        /\ KeepTunnel /\ EndPass(FALSE) /\ UNCHANGED disturbances
     \/ /\ FinalStatus # orig.status /\ tunnel # None
        /\ WriteTunnel(Patched) /\ EndPass(FALSE) /\ UNCHANGED disturbances
     \/ /\ FinalStatus # orig.status /\ tunnel = None          \* NotFound
        /\ KeepTunnel /\ EndPass(TRUE) /\ UNCHANGED disturbances
     \/ /\ FinalStatus # orig.status /\ Fault("patch") /\ EndPass(TRUE)
        /\ KeepTunnel \/ (tunnel # None /\ WriteTunnel(Patched))

Reconcile ==
  \/ SkipPass \/ GetTunnelFails \/ BeginPass
  \/ ReadPod \/ checkToken \/ resolveServicePort \/ hasReadyEndpoint
  \/ \E call \in {"getPod", "getSecret", "getService", "listSlices"} :
        ReadFails(call)
  \/ WaitForTermination \/ CreatePod \/ DeleteOutdated
  \/ ApplyRetryable \/ ApplyTerminal
  \/ GateFails \/ ReportActive \/ ReportNotReady
  \/ patchStatus

-----------------------------------------------------------------------------
(* The manager: watches, requeues, crashes.  An informer that is behind     *)
(* catches up in one event (events for one object coalesce).                *)

SyncTunnel ==
  /\ tunnelEvent /\ tunnelEvent' = FALSE
  /\ cachedTunnel' = tunnel
  /\ queued' = TRUE
  /\ UNCHANGED <<tunnel, pod, cachedPod, podEvent, world, timer, pass,
                 manager, bounds>>

SyncPod ==
  /\ podEvent /\ podEvent' = FALSE
  /\ cachedPod' = pod
  /\ queued' = TRUE
  /\ UNCHANGED <<tunnel, pod, cachedTunnel, tunnelEvent, world, timer, pass,
                 manager, bounds>>

RequeueAfter ==
  /\ timer # "none" /\ timer' = "none"
  /\ queued' = TRUE
  /\ UNCHANGED <<tunnel, pod, watches, world, pass, manager, bounds>>

(* The process dies, perhaps replaced by one with another --agent-image;    *)
(* the new one lists everything and queues every tunnel it finds.           *)
Crash ==
  /\ Fault("crash")
  /\ image' \in Images /\ domainKnown' = FALSE
  /\ cachedTunnel' = tunnel /\ tunnelEvent' = FALSE
  /\ cachedPod' = pod /\ podEvent' = FALSE
  /\ queued' = (tunnel # None \/ pod # None) /\ timer' = "none"
  /\ pc' = "idle" /\ orig' = None /\ draft' = InitStatus /\ outcome' = "done"
  /\ existing' = None /\ token' = None /\ port' = None
  /\ UNCHANGED <<tunnel, pod, world, incarnations>>

(* requestsByIndex: an event on something the cached tunnel refers to       *)
(* queues it; the event is lost when the index cannot be read.              *)
requestsByIndex(index, value) ==
  \/ /\ Disturb
     /\ queued' = (\/ queued
                   \/ cachedTunnel # None /\ cachedTunnel.spec[index] = value)
  \/ Fault("index") /\ UNCHANGED queued

Outside == UNCHANGED <<tunnel, pod, watches, timer, pass, manager,
                       incarnations>>

SecretChanges(name) ==
  /\ \E s \in SecretStates \ {secrets[name]} :
        secrets' = [secrets EXCEPT ![name] = s]
  /\ requestsByIndex("secret", name)
  /\ UNCHANGED <<services, endpoints>> /\ Outside

ServiceChanges(backend) ==
  /\ \E s \in ServiceStates \ {services[backend]} :
        services' = [services EXCEPT ![backend] = s]
  /\ requestsByIndex("backend", backend)
  /\ UNCHANGED <<secrets, endpoints>> /\ Outside

EndpointsChange(backend) ==
  /\ endpoints' = [endpoints EXCEPT ![backend] = ~@]
  /\ requestsByIndex("backend", backend)
  /\ UNCHANGED <<secrets, services>> /\ Outside

-----------------------------------------------------------------------------
(* Users.                                                                   *)

KeepAllButTunnel ==
  UNCHANGED <<pod, podEvent, cachedTunnel, cachedPod, world, queue, pass,
              manager>>

CreateTunnel ==
  /\ tunnel = None /\ incarnations < MaxIncarnations
  /\ incarnations' = incarnations + 1
  /\ \E spec \in Specs :
        WriteTunnel([uid |-> incarnations + 1, generation |-> 1,
                     deleting |-> FALSE, spec |-> spec,
                     status |-> InitStatus])
  /\ UNCHANGED disturbances /\ KeepAllButTunnel

EditSpec ==
  /\ tunnel # None /\ tunnel.generation < MaxGeneration
  /\ \E spec \in Specs \ {tunnel.spec} :
        WriteTunnel([tunnel EXCEPT !.spec = spec, !.generation = @ + 1])
  /\ UNCHANGED bounds /\ KeepAllButTunnel

(* kubectl delete, with background or with foreground propagation.          *)
DeleteTunnel ==
  /\ tunnel # None /\ ~tunnel.deleting /\ Disturb
  /\ WriteTunnel(None) \/ WriteTunnel([tunnel EXCEPT !.deleting = TRUE])
  /\ UNCHANGED incarnations /\ KeepAllButTunnel

-----------------------------------------------------------------------------
(* Kubelet, the agent container and the garbage collector.                  *)

KeepAllButPod ==
  UNCHANGED <<tunnel, tunnelEvent, cachedTunnel, cachedPod, world, queue,
              pass, manager, incarnations>>

(* The agent goes on while its pod lives.                                   *)
AgentStep(states) ==
  /\ pod # None /\ ~pod.deleting /\ ~pod.evicted
  /\ pod.agent.state \in states
  /\ KeepAllButPod

SetAgent(agent) == WritePod([pod EXCEPT !.agent = agent])

StartContainer ==
  /\ AgentStep({"unknown", "terminated", "waiting"})
  /\ SetAgent([state |-> "running", code |-> NoCode,
               last |-> IF pod.agent.state = "terminated"
                          THEN pod.agent.code ELSE pod.agent.last])
  /\ UNCHANGED disturbances

CrashLoopBackOff ==
  /\ AgentStep({"terminated"})
  /\ SetAgent([state |-> "waiting", code |-> NoCode, last |-> pod.agent.code])
  /\ UNCHANGED disturbances

(* TunnelOpened arrived, /healthz answers 200 and the probe has seen it.    *)
BecomeReady ==
  /\ AgentStep({"running", "unready"})
  /\ SetAgent([pod.agent EXCEPT !.state = "ready"])
  /\ UNCHANGED disturbances

(* /healthz never goes back to 503: the agent still has its tunnel.         *)
ProbeFails ==
  /\ AgentStep({"ready"}) /\ Disturb
  /\ SetAgent([pod.agent EXCEPT !.state = "unready"])

(* Verdicts of the jprq server come before TunnelOpened: an agent that is   *)
(* past it only exits cleanly, unexpectedly, or on a dropped stream.          *)
ServingExits == {ExitOK, ExitUnexpected, ExitEventStreamDropped}

AgentExits ==
  /\ AgentStep({"running", "ready", "unready"}) /\ Disturb
  /\ \E code \in ExitCodes :
        /\ pod.agent.state # "running" => code \in ServingExits
        /\ SetAgent([pod.agent EXCEPT !.state = "terminated", !.code = code])

(* Deleted by somebody else: a user, a drained node.                        *)
PodDeleted ==
  /\ pod # None /\ ~pod.deleting /\ Disturb
  /\ WritePod(Deleted(pod))
  /\ KeepAllButPod

(* Node-pressure eviction: the pod object stays, in phase Failed, with its  *)
(* container killed, and kubelet never restarts it.                         *)
Evict ==
  /\ AgentStep({"running", "ready", "unready"}) /\ Fault("evict")
  /\ ExitUnexpected \in ExitCodes
  /\ WritePod([pod EXCEPT !.evicted = TRUE,
                          !.agent = [@ EXCEPT !.state = "terminated",
                                              !.code = ExitUnexpected]])

PodGone ==
  /\ pod # None /\ pod.deleting
  /\ WritePod(None)
  /\ KeepAllButPod /\ UNCHANGED disturbances

(* By owner reference: a pod without one is not its business.               *)
CollectPod ==
  /\ pod # None /\ ~pod.deleting /\ pod.owner # None
  /\ \/ tunnel = None
     \/ tunnel # None /\ (tunnel.uid # pod.owner \/ tunnel.deleting)
  /\ WritePod(Deleted(pod))
  /\ KeepAllButPod /\ UNCHANGED disturbances

FinishForegroundDeletion ==
  /\ tunnel # None /\ tunnel.deleting
  /\ pod = None \/ (pod # None /\ pod.owner # tunnel.uid)
  /\ WriteTunnel(None)
  /\ KeepAllButTunnel /\ UNCHANGED bounds

Manager == SyncTunnel \/ SyncPod \/ RequeueAfter \/ Crash

World == \/ \E name \in Secrets : SecretChanges(name)
         \/ \E backend \in Backends : ServiceChanges(backend)
         \/ \E backend \in Backends : EndpointsChange(backend)

Users == CreateTunnel \/ EditSpec \/ DeleteTunnel

Kubernetes ==
  \/ StartContainer \/ CrashLoopBackOff \/ BecomeReady \/ ProbeFails
  \/ AgentExits \/ PodDeleted \/ Evict
  \/ PodGone \/ CollectPod \/ FinishForegroundDeletion

Next == Reconcile \/ Manager \/ World \/ Users \/ Kubernetes

Spec == Init /\ [][Next]_vars

-----------------------------------------------------------------------------
(* Fairness.  The workqueue hands out what is queued, informers deliver,    *)
(* delayed keys are added, a pass goes on to its end; kubelet restarts and  *)
(* probes containers and removes deleted pods; the garbage collector works; *)
(* an agent that does not exit gets its tunnel.  Nobody has to edit or      *)
(* delete anything, and nothing has to go wrong.                            *)
Fairness ==
  /\ WF_vars(Reconcile)
  /\ WF_vars(SyncTunnel) /\ WF_vars(SyncPod) /\ WF_vars(RequeueAfter)
  /\ WF_vars(StartContainer) /\ WF_vars(BecomeReady)
  /\ WF_vars(PodGone) /\ WF_vars(CollectPod)
  /\ WF_vars(FinishForegroundDeletion)

FairSpec == Spec /\ Fairness

-----------------------------------------------------------------------------
(* Properties.                                                              *)

TypeOK ==
  /\ tunnel \in Tunnels \cup {None}
  /\ pod \in Pods \cup {None}
  /\ cachedTunnel \in Tunnels \cup {None}
  /\ cachedPod \in Pods \cup {None}
  /\ tunnelEvent \in BOOLEAN /\ podEvent \in BOOLEAN
  /\ secrets \in [Secrets -> SecretStates]
  /\ services \in [Backends -> ServiceStates]
  /\ endpoints \in [Backends -> BOOLEAN]
  /\ queued \in BOOLEAN /\ timer \in {"none", "net", "retry"}
  /\ pc \in {"idle", "getPod", "getSecret", "getService", "listSlices",
             "converge", "patch"}
  /\ orig \in Tunnels \cup {None}
  /\ draft \in Statuses
  /\ existing \in Pods \cup {None}
  /\ token \in Tokens \cup {None}
  /\ port \in Ports \cup {None}
  /\ outcome \in {"requeue", "error", "done"}
  /\ image \in Images /\ domainKnown \in BOOLEAN
  /\ incarnations \in 0..MaxIncarnations
  /\ disturbances \in 0..MaxDisturbances

Live == tunnel # None /\ ~tunnel.deleting

Failed == Live /\ Sticky(tunnel)

(* A tunnel that may need work is never forgotten: its key is queued or     *)
(* will be, or a pass is on its way.  Only a terminal failure is left       *)
(* without a requeue (the comment at the end of applyVerdict), and that     *)
(* only once it is recorded on the API server, whatever call failed, event  *)
(* got lost, or crash came in between.                                      *)
NoLostWakeup ==
  Live /\ ~Sticky(tunnel) => queued \/ timer # "none" \/ tunnelEvent \/ pc # "idle"

(* "Failed is sticky: it clears only when metadata.generation changes"      *)
(* (status.phase in jprqtunnel_types.go): as long as a failed tunnel is not *)
(* edited, no pass touches anything in its status.                          *)
StickyFailure ==
  [][Failed /\ tunnel' # None /\ tunnel'.uid = tunnel.uid
       => \/ tunnel'.generation # tunnel.generation
          \/ tunnel'.status = tunnel.status]_vars

(* The failure a user sees is the verdict of the last exit under the        *)
(* behavior the spec asks for now, with the reason that goes with it: never *)
(* the verdict of an earlier spec or of an earlier tunnel of that name.     *)
FailureIsExplained ==
  Failed =>
    LET verdict == classifyExit(tunnel.status.lastExitCode,
                                tunnel.spec.behavior)
    IN verdict.terminal /\ tunnel.status.conditions.Ready = verdict.reason

(* "Deleted rather than left to crash-loop, so a terminal failure costs one *)
(* failed pod and nothing ongoing" (applyVerdict).                          *)
FailureStopsAgent == Failed => pod = None \/ pod.deleting

(* Phase is derived: Active exactly with Ready TunnelActive, and Failed or  *)
(* Degraded over an exit only if the exit code in the same status earns     *)
(* that reason with, or without, giving up.  SubdomainBusy alone does not   *)
(* tell which (classifyExit), so phase, reason and exit code must agree,    *)
(* whichever passes wrote the three.  The behavior that decided need not be *)
(* the spec's of now: a status may be of a generation before.               *)
Earned(status) ==
  \E behavior \in Behaviors :
    LET verdict == classifyExit(status.lastExitCode, behavior)
    IN /\ status.lastExitCode # NoCode
       /\ status.conditions.Ready = verdict.reason
       /\ status.phase = IF verdict.terminal THEN "Failed" ELSE "Degraded"

Derived(status) ==
  status.phase # "" =>
    /\ status.phase = "Active" <=> status.conditions.Ready = "TunnelActive"
    /\ \/ status.phase = "Failed"
       \/ status.conditions.Ready \in TerminalReasons \cup RetryReasons
       => Earned(status)

PhaseIsDerived == Live => Derived(tunnel.status)

(* The controller has nothing left to do until something happens or a       *)
(* RequeueAfter comes up.                                                   *)
Settled == /\ Live /\ pc = "idle" /\ ~queued /\ timer # "retry"
           /\ ~tunnelEvent /\ ~podEvent

Gates(spec) ==
  /\ secrets[spec.secret] \in Tokens
  /\ services[spec.backend] \in Ports
  /\ endpoints[spec.backend]

Wanted(spec) ==
  [image |-> image, subdomain |-> spec.subdomain, backend |-> spec.backend,
   port |-> services[spec.backend], secret |-> spec.secret,
   token |-> secrets[spec.secret]]

UpToDate(p) == p # None /\ ~p.deleting /\ p.config = Wanted(tunnel.spec)

(* The requeues are a net for missed events only (the requeueWaiting        *)
(* comment): without any, a settled controller has already got the agent it *)
(* should have.  Open gates mean an up-to-date pod, or one on its way out;  *)
(* a live pod with a terminal verdict has been acted on.                    *)
SettledPodIsCurrent ==
  Settled /\ ~Sticky(tunnel) =>
    /\ Gates(tunnel.spec) => pod # None /\ (pod.deleting \/ UpToDate(pod))
    /\ pod # None /\ ~pod.deleting /\ HasVerdict(pod.agent)
         => ~classifyPod(pod.agent, tunnel.spec.behavior).terminal

(* "a user can tell from kubectl get jprqtunnel whether the tunnel is live, *)
(* and if not, exactly why" (DESIGN.md 1): once settled, the status is      *)
(* about the current spec, pod, token and backend; an active tunnel shows   *)
(* the address its running agent was given, and, where the domain is never  *)
(* unknown, the URL of its current subdomain.                               *)
SettledStatusIsHonest ==
  Settled /\ ~Sticky(tunnel) =>
    LET status == tunnel.status
        secret == secrets[tunnel.spec.secret]
    IN /\ status.observedGeneration = tunnel.generation
       /\ status.assignedSubdomain = tunnel.spec.subdomain
       /\ status.podName = (pod # None)
       /\ status.conditions.TokenReady =
            IF secret \in Tokens THEN "TokenFound" ELSE secret
       /\ status.conditions.BackendReady = "EndpointsReady"
            <=> services[tunnel.spec.backend] \in Ports
                  /\ endpoints[tunnel.spec.backend]
       /\ status.phase = "Active"
            <=> /\ Gates(tunnel.spec) /\ UpToDate(pod)
                /\ pod.agent.state = "ready"
       /\ status.phase = "Active" =>
            /\ status.backendAddress = <<pod.config.backend, pod.config.port>>
            /\ "domain" \notin Faults => status.url = tunnel.spec.subdomain

(* Every edit is eventually observed, every failing call eventually made up *)
(* for: a tunnel whose gates stay open ends up Active, with an agent of the *)
(* current configuration, unless it has failed.                             *)
Converges ==
  <>[](Live /\ Gates(tunnel.spec) =>
         \/ Sticky(tunnel)
         \/ UpToDate(pod) /\ tunnel.status.phase = "Active"
              /\ tunnel.status.observedGeneration = tunnel.generation)

(* Garbage collection through the owner reference is all the cleanup there  *)
(* is (Reconcile: "v1 needs no finalizer"): whatever a pass that was under  *)
(* way when the tunnel went still creates, no agent outlives its tunnel.    *)
OrphansAreCollected ==
  <>[](pod # None => Live /\ pod.owner = tunnel.uid)

(* The status of the tunnel keeps the promises of TunnelLifecycle: reports  *)
(* on generations in order, catching up with every edit, and failures that  *)
(* only an edit clears.                                                     *)
Life ==
  IF tunnel = None THEN None
  ELSE [generation |-> tunnel.generation,
        observed   |-> tunnel.status.observedGeneration,
        failed     |-> tunnel.status.phase = "Failed"]

ASSUME LifeAssumption ==
  None \notin [generation : Nat, observed : Nat, failed : BOOLEAN]

Lifecycle == INSTANCE TunnelLifecycle WITH life <- Life, Absent <- None

ImplementsLifecycle == Lifecycle!Spec

(* An agent's history is kubelet's alone: a pod enters with a container     *)
(* that has done nothing, and from then on only the container's own steps   *)
(* show in it, whatever passes create, delete, or find there already.       *)
Container == INSTANCE AgentContainer WITH container <- pod.agent

AgentsAreContainers ==
  [][pod' # None =>
       IF pod = None THEN pod'.agent = NoStatus
                     ELSE pod'.agent = pod.agent \/ Container!Next]_vars
=============================================================================
