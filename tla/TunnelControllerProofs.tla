----------------------- MODULE TunnelControllerProofs -----------------------
(***************************************************************************)
(* Proofs about TunnelController for every value of its constants.          *)
(* TypeOK is not inductive: what a pass puts into the Ready condition is    *)
(* well typed only because of what its earlier reads left behind, which     *)
(* PassInv records.                                                         *)
(***************************************************************************)
EXTENDS TunnelController, TLAPS

(* What the calls already made guarantee about the locals of the pass.      *)
PassInv ==
  /\ pc # "idle" => /\ orig \in Tunnels
                    /\ draft.assignedSubdomain = orig.spec.subdomain
  /\ pc \in {"idle", "getPod", "getSecret", "getService", "patch"}
       => port = None
  /\ pc = "listSlices" => port \in Ports
  /\ pc \in {"getService", "listSlices", "converge"} /\ token = None
       => draft.conditions.TokenReady \in SecretFailures
  /\ pc = "converge" /\ port = None
       => draft.conditions.BackendReady \in
            ServiceFailures \cup {"NoReadyEndpoints"}

TypeInv == TypeOK /\ PassInv

(* The Boolean variables, kept apart from the rest of TypeOK.               *)
Flags ==
  /\ tunnelEvent \in BOOLEAN /\ podEvent \in BOOLEAN
  /\ queued \in BOOLEAN /\ domainKnown \in BOOLEAN

-----------------------------------------------------------------------------
(* The operators on statuses.                                               *)

LEMMA InitStatusType == InitStatus \in Statuses
  BY BoundsAssumption
  DEF InitStatus, Statuses, Phases, ReadyConditions, TokenConditions,
      BackendConditions, NoCode

(* A merge patch of well-typed statuses is one.                             *)
LEMMA MergeType ==
  ASSUME NEW server \in Statuses, NEW from \in Statuses, NEW to \in Statuses
  PROVE  Merge(server, from, to) \in Statuses
  BY DEF Merge, Statuses

(* The verdicts of classifyExit: the reasons of terminal ones and of the    *)
(* others, and only a token reason blames the token.                        *)
LEMMA VerdictType ==
  ASSUME NEW code, NEW behavior
  PROVE  LET verdict == classifyExit(code, behavior)
         IN /\ verdict.reason \in TerminalReasons \cup RetryReasons
            /\ verdict.tokenInvalid \in BOOLEAN
            /\ verdict.tokenInvalid => verdict.reason \in TokenReasons
            /\ verdict.terminal \in BOOLEAN
            /\ verdict.terminal => verdict.reason \in TerminalReasons
            /\ ~verdict.terminal => verdict.reason \in RetryReasons
  BY DEF classifyExit, BadToken, Terminal, Retryable, TerminalReasons,
         RetryReasons, TokenReasons

LEMMA NotReadyType ==
  ASSUME NEW status \in Statuses, NEW phase \in Phases,
         NEW reason \in ReadyConditions
  PROVE  setNotReady(status, phase, reason) \in Statuses
  BY DEF setNotReady, Statuses

(* Fields of a status that a pass sets, one at a time.                      *)
LEMMA FieldTypes ==
  ASSUME NEW status \in Statuses
  PROVE  /\ \A b \in BOOLEAN : [status EXCEPT !.podName = b] \in Statuses
         /\ \A c \in TokenConditions :
              [status EXCEPT !.conditions.TokenReady = c] \in Statuses
         /\ \A c \in BackendConditions :
              [status EXCEPT !.conditions.BackendReady = c] \in Statuses
         /\ \A s \in Subdomains :
              [status EXCEPT !.assignedSubdomain = s] \in Statuses
         /\ \A s \in Subdomains : [status EXCEPT !.url = s] \in Statuses
         /\ \A g \in 0..MaxGeneration :
              [status EXCEPT !.observedGeneration = g] \in Statuses
  BY DEF Statuses

LEMMA BlameType ==
  ASSUME NEW code \in ExitCodes \cup {NoCode}, NEW behavior,
         draft \in Statuses
  PROVE  Blame(classifyExit(code, behavior), code) \in Statuses
  BY VerdictType DEF Blame, Statuses, TokenConditions

-----------------------------------------------------------------------------
(* The initial states.                                                      *)

LEMMA InitTypeInv == Init => TypeInv
  <1> SUFFICES ASSUME Init PROVE TypeInv
    OBVIOUS
  <1>1. Flags
    BY Zenon DEF Init, Flags
  <1>2. /\ incarnations \in 0..MaxIncarnations
        /\ disturbances \in 0..MaxDisturbances
    BY BoundsAssumption DEF Init
  <1>3. TypeOK
    BY <1>1, <1>2, InitStatusType DEF Init, Flags, TypeOK
  <1>4. PassInv
    BY DEF Init, PassInv
  <1> QED BY <1>3, <1>4 DEF TypeInv

-----------------------------------------------------------------------------
(* The steps of a pass.                                                     *)

LEMMA StartPassType ==
  ASSUME TypeInv, StartPass
  PROVE  /\ Flags'
         /\ tunnel' = tunnel /\ pod' = pod /\ cachedTunnel' = cachedTunnel
         /\ cachedPod' = cachedPod /\ world' = world /\ image' = image
         /\ incarnations' = incarnations /\ pc = "idle"
  <1>1. Flags'
    BY Zenon DEF TypeInv, TypeOK, StartPass, watches, manager, Flags
  <1> QED BY <1>1 DEF StartPass, watches, manager

LEMMA DisturbType ==
  ASSUME TypeInv, Disturb \/ UNCHANGED disturbances
  PROVE  disturbances' \in 0..MaxDisturbances
  BY BoundsAssumption DEF TypeInv, TypeOK, Disturb

LEMMA SkipPassType == TypeInv /\ SkipPass => TypeInv'
  <1> SUFFICES ASSUME TypeInv, SkipPass PROVE TypeInv'
    OBVIOUS
  <1> QED BY StartPassType
          DEF TypeInv, TypeOK, PassInv, Flags, SkipPass, pass, world

LEMMA GetTunnelFailsType == TypeInv /\ GetTunnelFails => TypeInv'
  <1> SUFFICES ASSUME TypeInv, GetTunnelFails PROVE TypeInv'
    OBVIOUS
  <1>1. disturbances' \in 0..MaxDisturbances
    BY DisturbType DEF GetTunnelFails, Fault
  <1> QED BY <1>1, StartPassType
          DEF TypeInv, TypeOK, PassInv, Flags, GetTunnelFails, pass, world

LEMMA BeginPassType == TypeInv /\ BeginPass => TypeInv'
  <1> SUFFICES ASSUME TypeInv, BeginPass PROVE TypeInv'
    OBVIOUS
  <1>1. cachedTunnel \in Tunnels
    BY DEF TypeInv, TypeOK, BeginPass, NothingToDo
  <1>2. draft' \in Statuses
    BY <1>1, FieldTypes DEF BeginPass, Tunnels, Specs
  <1>3. draft'.assignedSubdomain = orig'.spec.subdomain
    BY <1>1 DEF BeginPass, Tunnels, Statuses
  <1>4. TypeOK'
    BY <1>1, <1>2, StartPassType
    DEF TypeInv, TypeOK, Flags, BeginPass, world
  <1>5. PassInv'
    BY <1>1, <1>3, StartPassType DEF TypeInv, PassInv, BeginPass
  <1> QED BY <1>4, <1>5 DEF TypeInv

(* Steps that neither touch the API server nor the queue.                   *)
LEMMA LocalType ==
  ASSUME TypeInv, Local
  PROVE  /\ Flags'
         /\ tunnel' = tunnel /\ pod' = pod /\ cachedTunnel' = cachedTunnel
         /\ cachedPod' = cachedPod /\ world' = world /\ timer' = timer
         /\ orig' = orig /\ image' = image /\ incarnations' = incarnations
  <1>1. Flags'
    BY Zenon DEF TypeInv, TypeOK, Local, watches, queue, manager, Flags
  <1> QED BY <1>1 DEF Local, watches, queue, manager

LEMMA ReadFailsType ==
  ASSUME NEW call \in {"getPod", "getSecret", "getService", "listSlices"},
         TypeInv, ReadFails(call)
  PROVE  TypeInv'
  <1>1. disturbances' \in 0..MaxDisturbances
    BY DisturbType DEF ReadFails, Fault
  <1>2. pc # "idle"
    BY DEF ReadFails
  <1> QED BY <1>1, <1>2, LocalType
          DEF TypeInv, TypeOK, PassInv, Flags, ReadFails, Return, world

LEMMA ReadPodType == TypeInv /\ ReadPod => TypeInv'
  <1> SUFFICES ASSUME TypeInv, ReadPod PROVE TypeInv'
    OBVIOUS
  <1> DEFINE exists == cachedPod # None
  <1>1. exists \in BOOLEAN /\ draft' = [draft EXCEPT !.podName = exists]
    BY Zenon DEF ReadPod
  <1>2. draft \in Statuses
    BY DEF TypeInv, TypeOK
  <1> HIDE DEF exists
  <1>3. draft' \in Statuses
    BY <1>1, <1>2, FieldTypes, Zenon
  <1>4. draft'.assignedSubdomain = draft.assignedSubdomain
    BY <1>1, <1>2 DEF Statuses
  <1> QED BY <1>3, <1>4, LocalType
          DEF TypeInv, TypeOK, PassInv, Flags, ReadPod, world

LEMMA checkTokenType == TypeInv /\ checkToken => TypeInv'
  <1> SUFFICES ASSUME TypeInv, checkToken PROVE TypeInv'
    OBVIOUS
  <1>1. orig \in Tunnels /\ orig.spec.secret \in Secrets
    BY DEF TypeInv, PassInv, checkToken, Tunnels, Specs
  <1> DEFINE secret == secrets[orig.spec.secret]
             c == IF secret \in Tokens THEN "TokenFound" ELSE secret
  <1>2. secret \in SecretFailures \cup Tokens
    BY <1>1 DEF TypeInv, TypeOK, SecretStates
  <1>3. c \in TokenConditions
    BY <1>2, DataAssumption DEF TokenConditions, AllSecretFailures
  <1>4. /\ draft' = [draft EXCEPT !.conditions.TokenReady = c]
        /\ token' = IF secret \in Tokens THEN secret ELSE None
    BY DEF checkToken
  <1>5. draft \in Statuses
    BY DEF TypeInv, TypeOK
  <1>6. draft' \in Statuses
    BY <1>3, <1>4, <1>5, FieldTypes
  <1>7. /\ draft'.assignedSubdomain = draft.assignedSubdomain
        /\ draft'.conditions.TokenReady = c
    BY <1>4, <1>5 DEF Statuses
  <1>8. token' = None => c \in SecretFailures
    BY <1>2, <1>4, NoneAssumption
  <1>9. token' \in Tokens \cup {None}
    BY <1>4
  <1> HIDE DEF c, secret
  <1> QED BY <1>6, <1>7, <1>8, <1>9, LocalType
          DEF TypeInv, TypeOK, PassInv, Flags, checkToken, world

LEMMA resolveServicePortType == TypeInv /\ resolveServicePort => TypeInv'
  <1> SUFFICES ASSUME TypeInv, resolveServicePort PROVE TypeInv'
    OBVIOUS
  <1>1. draft \in Statuses
    BY DEF TypeInv, TypeOK
  <1>2. ServiceFailures \subseteq BackendConditions
    BY DataAssumption DEF BackendConditions
  <1> DEFINE service == services[orig.spec.backend]
  <1>3. CASE service \in Ports /\ port' = service /\ pc' = "listSlices" /\ UNCHANGED draft
    BY <1>3, LocalType
    DEF TypeInv, TypeOK, PassInv, Flags, resolveServicePort, world
  <1>4. CASE /\ service \in ServiceFailures /\ pc' = "converge" /\ UNCHANGED port
             /\ draft' = [draft EXCEPT !.conditions.BackendReady = service]
    <2>1. draft' \in Statuses
      BY <1>1, <1>2, <1>4, FieldTypes
    <2>2. /\ draft'.assignedSubdomain = draft.assignedSubdomain
          /\ draft'.conditions.TokenReady = draft.conditions.TokenReady
          /\ draft'.conditions.BackendReady \in ServiceFailures
      BY <1>1, <1>4 DEF Statuses
    <2> QED BY <1>4, <2>1, <2>2, LocalType
            DEF TypeInv, TypeOK, PassInv, Flags, resolveServicePort, world
  <1> QED BY <1>3, <1>4 DEF resolveServicePort

LEMMA hasReadyEndpointType == TypeInv /\ hasReadyEndpoint => TypeInv'
  <1> SUFFICES ASSUME TypeInv, hasReadyEndpoint PROVE TypeInv'
    OBVIOUS
  <1>1. draft \in Statuses /\ port \in Ports
    BY DEF TypeInv, TypeOK, PassInv, hasReadyEndpoint
  <1>2. orig.spec.backend \in Backends
    BY DEF TypeInv, PassInv, hasReadyEndpoint, Tunnels, Specs
  <1>3. port # None
    BY <1>1, NoneAssumption
  <1> DEFINE backend == orig.spec.backend
  <1>4. /\ draft' \in Statuses
        /\ draft'.assignedSubdomain = draft.assignedSubdomain
        /\ draft'.conditions.TokenReady = draft.conditions.TokenReady
        /\ port' # None \/ draft'.conditions.BackendReady = "NoReadyEndpoints"
        /\ port' \in Ports \cup {None}
    <2>1. CASE /\ endpoints[backend] /\ UNCHANGED port
               /\ draft' = [draft EXCEPT
                              !.conditions.BackendReady = "EndpointsReady",
                              !.backendAddress = <<backend, port>>]
      BY <1>1, <1>2, <1>3, <2>1 DEF Statuses, BackendConditions
    <2>2. CASE /\ ~endpoints[backend] /\ port' = None
               /\ draft' = [draft EXCEPT
                              !.conditions.BackendReady = "NoReadyEndpoints"]
      BY <1>1, <2>2 DEF Statuses, BackendConditions
    <2> QED BY <2>1, <2>2 DEF hasReadyEndpoint
  <1> QED BY <1>4, LocalType
          DEF TypeInv, TypeOK, PassInv, Flags, hasReadyEndpoint, world

-----------------------------------------------------------------------------
(* The decision of a pass.                                                  *)

LEMMA DeletedType ==
  ASSUME TypeInv PROVE Deleted(pod) \in Pods \cup {None}
  BY DEF TypeInv, TypeOK, Deleted, Pods

LEMMA desiredPodType ==
  ASSUME TypeInv, pc = "converge", GatesOK PROVE desiredPod \in Pods
  <1>1. orig \in Tunnels /\ draft.assignedSubdomain = orig.spec.subdomain
    BY DEF TypeInv, PassInv
  <1>2. image \in Images /\ port \in Ports /\ token \in Tokens
    BY DEF TypeInv, TypeOK, GatesOK
  <1>3. Desired \in Configs
    BY <1>1, <1>2 DEF Desired, Configs, Tunnels, Specs
  <1>4. NoStatus \in Agents
    BY DEF NoStatus, Agents, ContainerStates
  <1> QED BY <1>1, <1>3, <1>4 DEF desiredPod, Pods, Tunnels

LEMMA PodWriteType ==
  ASSUME TypeInv, NEW p \in Pods \cup {None}, KeepPod \/ WritePod(p)
  PROVE  pod' \in Pods \cup {None} /\ podEvent' \in BOOLEAN
  <1>1. CASE KeepPod
    BY <1>1 DEF TypeInv, TypeOK, KeepPod
  <1>2. CASE WritePod(p)
    BY <1>2, Zenon DEF WritePod
  <1> QED BY <1>1, <1>2

(* A decision whose status and pod are well typed leads to a good state.    *)
LEMMA DecisionType ==
  ASSUME TypeInv, Converging, disturbances' \in 0..MaxDisturbances,
         NEW result \in {"requeue", "error", "done"}, NEW status \in Statuses,
         status.assignedSubdomain = draft.assignedSubdomain,
         Return(result, status),
         pod' \in Pods \cup {None}, podEvent' \in BOOLEAN,
         domainKnown' \in BOOLEAN
  PROVE  TypeInv'
  <1>1. tunnelEvent' \in BOOLEAN /\ queued' \in BOOLEAN
    BY Zenon DEF TypeInv, TypeOK, Converging, queue
  <1>2. TypeOK'
    BY <1>1 DEF TypeInv, TypeOK, Converging, Return, world, queue
  <1>3. PassInv'
    BY DEF TypeInv, PassInv, Converging, Return
  <1> QED BY <1>2, <1>3 DEF TypeInv

(* The branches that call nothing but the recorder.                         *)
LEMMA QuietDecisionType ==
  ASSUME TypeInv, Deciding, KeepPod, UNCHANGED disturbances,
         NEW result \in {"requeue", "error", "done"}, NEW status \in Statuses,
         status.assignedSubdomain = draft.assignedSubdomain,
         Return(result, status)
  PROVE  TypeInv'
  <1>1. disturbances' \in 0..MaxDisturbances
    BY DisturbType
  <1>2. pod' \in Pods \cup {None} /\ podEvent' \in BOOLEAN
    BY DEF TypeInv, TypeOK, KeepPod
  <1>3. domainKnown' \in BOOLEAN /\ Converging
    BY Zenon DEF TypeInv, TypeOK, Deciding
  <1> QED BY <1>1, <1>2, <1>3, DecisionType

LEMMA NotReadyKeeps ==
  ASSUME NEW status \in Statuses, NEW phase, NEW reason
  PROVE  setNotReady(status, phase, reason).assignedSubdomain
           = status.assignedSubdomain
  BY DEF setNotReady, Statuses

LEMMA WaitForTerminationType == TypeInv /\ WaitForTermination => TypeInv'
  <1> SUFFICES ASSUME TypeInv, WaitForTermination PROVE TypeInv'
    OBVIOUS
  <1> DEFINE status == setNotReady(draft, "Degraded", "PodPending")
  <1>1. draft \in Statuses
    BY DEF TypeInv, TypeOK
  <1>2. /\ status \in Statuses
        /\ status.assignedSubdomain = draft.assignedSubdomain
    BY <1>1, NotReadyType, NotReadyKeeps DEF Phases, ReadyConditions
  <1> HIDE DEF status
  <1>3. /\ Deciding /\ KeepPod /\ UNCHANGED disturbances
        /\ Return("requeue", status)
    BY DEF WaitForTermination, status
  <1> QED BY <1>2, <1>3, QuietDecisionType

LEMMA ReportNotReadyType == TypeInv /\ ReportNotReady => TypeInv'
  <1> SUFFICES ASSUME TypeInv, ReportNotReady PROVE TypeInv'
    OBVIOUS
  <1> DEFINE status == setNotReady(draft, "Degraded", "PodNotReady")
  <1>1. draft \in Statuses
    BY DEF TypeInv, TypeOK
  <1>2. /\ status \in Statuses
        /\ status.assignedSubdomain = draft.assignedSubdomain
    BY <1>1, NotReadyType, NotReadyKeeps DEF Phases, ReadyConditions
  <1> HIDE DEF status
  <1>3. /\ Deciding /\ KeepPod /\ UNCHANGED disturbances
        /\ Return("requeue", status)
    BY DEF ReportNotReady, DecidingOn, status
  <1> QED BY <1>2, <1>3, QuietDecisionType

(* The reason of a failed gate is one of the Ready condition: PassInv.      *)
LEMMA GateFailsType == TypeInv /\ GateFails => TypeInv'
  <1> SUFFICES ASSUME TypeInv, GateFails PROVE TypeInv'
    OBVIOUS
  <1> DEFINE phase  == IF existing = None THEN "Pending" ELSE "Degraded"
             reason == IF token = None THEN draft.conditions.TokenReady
                                       ELSE draft.conditions.BackendReady
             status == setNotReady(draft, phase, reason)
  <1>1. draft \in Statuses /\ phase \in Phases
    BY DEF TypeInv, TypeOK, Phases
  <1>2. reason \in ReadyConditions
    BY DEF TypeInv, PassInv, GateFails, Deciding, Converging, GatesOK,
           ReadyConditions
  <1> HIDE DEF phase, reason
  <1>3. /\ status \in Statuses
        /\ status.assignedSubdomain = draft.assignedSubdomain
    BY <1>1, <1>2, NotReadyType, NotReadyKeeps
  <1> HIDE DEF status
  <1>4. /\ Deciding /\ KeepPod /\ UNCHANGED disturbances
        /\ Return("requeue", status)
    BY DEF GateFails, status, phase, reason
  <1> QED BY <1>3, <1>4, QuietDecisionType

LEMMA ApplyRetryableType == TypeInv /\ ApplyRetryable => TypeInv'
  <1> SUFFICES ASSUME TypeInv, ApplyRetryable PROVE TypeInv'
    OBVIOUS
  <1> DEFINE code    == Termination(existing.agent)
             verdict == classifyExit(code, orig.spec.behavior)
             blamed  == Blame(verdict, code)
             status  == setNotReady(blamed, "Degraded", verdict.reason)
  <1>1. draft \in Statuses
    BY DEF TypeInv, TypeOK
  <1>2. code \in ExitCodes \cup {NoCode}
    BY DEF TypeInv, TypeOK, ApplyRetryable, DecidingOn, Pods, Agents,
           Termination
  <1>3. /\ blamed \in Statuses
        /\ blamed.assignedSubdomain = draft.assignedSubdomain
    BY <1>1, <1>2, BlameType DEF Blame, Statuses
  <1>4. verdict.reason \in ReadyConditions
    BY VerdictType DEF ReadyConditions
  <1> HIDE DEF blamed, verdict, code
  <1>5. /\ status \in Statuses
        /\ status.assignedSubdomain = draft.assignedSubdomain
    BY <1>3, <1>4, NotReadyType, NotReadyKeeps DEF Phases
  <1> HIDE DEF status
  <1>6. /\ Deciding /\ KeepPod /\ UNCHANGED disturbances
        /\ Return("requeue", status)
    BY DEF ApplyRetryable, DecidingOn, classifyPod, status, blamed, verdict,
           code
  <1> QED BY <1>5, <1>6, QuietDecisionType

LEMMA CreatePodType == TypeInv /\ CreatePod => TypeInv'
  <1> SUFFICES ASSUME TypeInv, CreatePod PROVE TypeInv'
    OBVIOUS
  <1> DEFINE named  == [draft EXCEPT !.podName = TRUE]
             status == setNotReady(named, "Pending", "PodPending")
             wanted == IF pod = None THEN desiredPod ELSE pod
  <1>1. draft \in Statuses /\ pod \in Pods \cup {None}
    BY DEF TypeInv, TypeOK
  <1>2. named \in Statuses /\ named.assignedSubdomain = draft.assignedSubdomain
    BY <1>1 DEF Statuses
  <1> HIDE DEF named
  <1>3. status \in Statuses /\ status.assignedSubdomain = draft.assignedSubdomain
    BY <1>2, NotReadyType, NotReadyKeeps DEF Phases, ReadyConditions
  <1>4. Deciding /\ Converging /\ GatesOK /\ domainKnown' \in BOOLEAN
    BY Zenon DEF TypeInv, TypeOK, CreatePod, Deciding
  <1>5. desiredPod \in Pods
    BY <1>4, desiredPodType DEF Converging
  <1>6. wanted \in Pods \cup {None}
    BY <1>1, <1>5
  <1> HIDE DEF status, wanted
  <1>7. CASE /\ WritePod(desiredPod) /\ UNCHANGED disturbances
             /\ Return("requeue", status)
    BY <1>3, <1>4, <1>5, <1>7, PodWriteType, DisturbType, DecisionType
  <1>8. CASE KeepPod /\ UNCHANGED disturbances /\ Return("error", draft)
    BY <1>1, <1>4, <1>8, QuietDecisionType
  <1>9. CASE Lost("create", wanted) /\ Return("error", draft)
    <2>1. Disturb /\ (KeepPod \/ WritePod(wanted))
      BY <1>9 DEF Lost, Fault
    <2> QED BY <1>1, <1>4, <1>6, <1>9, <2>1, PodWriteType, DisturbType,
               DecisionType
  <1> QED BY <1>7, <1>8, <1>9, Zenon DEF CreatePod, status, named, wanted

(* Deletions: one that goes through, one whose answer is lost.              *)
LEMMA DeletionType ==
  ASSUME TypeInv, \/ WritePod(Deleted(pod)) /\ UNCHANGED disturbances
                  \/ Lost("delete", Deleted(pod))
  PROVE  /\ pod' \in Pods \cup {None} /\ podEvent' \in BOOLEAN
         /\ disturbances' \in 0..MaxDisturbances
  <1> DEFINE deleted == Deleted(pod)
  <1>1. deleted \in Pods \cup {None}
    BY DeletedType
  <1> HIDE DEF deleted
  <1>2. /\ KeepPod \/ WritePod(deleted)
        /\ Disturb \/ UNCHANGED disturbances
    BY Zenon DEF Lost, Fault, deleted
  <1> QED BY <1>1, <1>2, PodWriteType, DisturbType

LEMMA DeleteOutdatedType == TypeInv /\ DeleteOutdated => TypeInv'
  <1> SUFFICES ASSUME TypeInv, DeleteOutdated PROVE TypeInv'
    OBVIOUS
  <1> DEFINE status == setNotReady(draft, "Pending", "PodPending")
  <1>1. draft \in Statuses
    BY DEF TypeInv, TypeOK
  <1>2. status \in Statuses /\ status.assignedSubdomain = draft.assignedSubdomain
    BY <1>1, NotReadyType, NotReadyKeeps DEF Phases, ReadyConditions
  <1> HIDE DEF status
  <1>3. Converging /\ domainKnown' \in BOOLEAN
    BY Zenon DEF TypeInv, TypeOK, DeleteOutdated, DecidingOn, Deciding
  <1>4. /\ \/ WritePod(Deleted(pod)) /\ UNCHANGED disturbances
           \/ Lost("delete", Deleted(pod))
        /\ Return("requeue", status) \/ Return("error", draft)
    BY Zenon DEF DeleteOutdated, status
  <1> QED BY <1>1, <1>2, <1>3, <1>4, DeletionType, DecisionType

LEMMA ApplyTerminalType == TypeInv /\ ApplyTerminal => TypeInv'
  <1> SUFFICES ASSUME TypeInv, ApplyTerminal PROVE TypeInv'
    OBVIOUS
  <1> DEFINE code    == Termination(existing.agent)
             verdict == classifyExit(code, orig.spec.behavior)
             blamed  == Blame(verdict, code)
             failed  == setNotReady(blamed, "Failed", verdict.reason)
             stopped == [failed EXCEPT !.podName = FALSE]
  <1>1. draft \in Statuses
    BY DEF TypeInv, TypeOK
  <1>2. code \in ExitCodes \cup {NoCode}
    BY DEF TypeInv, TypeOK, ApplyTerminal, DecidingOn, Pods, Agents,
           Termination
  <1>3. /\ blamed \in Statuses
        /\ blamed.assignedSubdomain = draft.assignedSubdomain
    BY <1>1, <1>2, BlameType DEF Blame, Statuses
  <1>4. verdict.reason \in ReadyConditions
    BY VerdictType DEF ReadyConditions
  <1>5. StopAgent(failed) /\ Converging /\ domainKnown' \in BOOLEAN
    BY Zenon DEF TypeInv, TypeOK, ApplyTerminal, DecidingOn, Deciding,
                 classifyPod
  <1> HIDE DEF blamed, verdict, code
  <1>6. failed \in Statuses /\ failed.assignedSubdomain = draft.assignedSubdomain
    BY <1>3, <1>4, NotReadyType, NotReadyKeeps DEF Phases
  <1> HIDE DEF failed
  <1>7. /\ stopped \in Statuses
        /\ stopped.assignedSubdomain = draft.assignedSubdomain
    BY <1>6 DEF Statuses
  <1> HIDE DEF stopped
  <1>8. /\ \/ WritePod(Deleted(pod)) /\ UNCHANGED disturbances
           \/ Lost("delete", Deleted(pod))
        /\ Return("done", stopped) \/ Return("error", failed)
    BY <1>5, Zenon DEF StopAgent, stopped
  <1> QED BY <1>5, <1>6, <1>7, <1>8, DeletionType, DecisionType

LEMMA ReportActiveType == TypeInv /\ ReportActive => TypeInv'
  <1> SUFFICES ASSUME TypeInv, ReportActive PROVE TypeInv'
    OBVIOUS
  <1> DEFINE active == [draft EXCEPT !.phase = "Active",
                                     !.conditions.Ready = "TunnelActive"]
             named  == [active EXCEPT !.url = active.assignedSubdomain]
  <1>1. Converging /\ KeepPod
    BY DEF ReportActive
  <1>2. draft \in Statuses /\ draft.assignedSubdomain \in Subdomains
    BY <1>1 DEF TypeInv, TypeOK, PassInv, Converging, Tunnels, Specs
  <1>3. /\ active \in Statuses
        /\ active.assignedSubdomain = draft.assignedSubdomain
    BY <1>2 DEF Statuses, Phases, ReadyConditions
  <1>4. /\ named \in Statuses
        /\ named.assignedSubdomain = draft.assignedSubdomain
    BY <1>2, <1>3 DEF Statuses
  <1>5. pod' \in Pods \cup {None} /\ podEvent' \in BOOLEAN
    BY <1>1, PodWriteType DEF TypeInv, TypeOK
  <1>6. /\ domainKnown' \in BOOLEAN
        /\ Disturb \/ UNCHANGED disturbances
        /\ Return("requeue", named) \/ Return("requeue", active)
    BY Zenon DEF ReportActive, Fault, TypeInv, TypeOK
  <1> HIDE DEF active, named
  <1> QED BY <1>1, <1>3, <1>4, <1>5, <1>6, DisturbType, DecisionType

LEMMA TunnelWriteType ==
  ASSUME TypeInv, NEW t \in Tunnels \cup {None}, KeepTunnel \/ WriteTunnel(t)
  PROVE  tunnel' \in Tunnels \cup {None} /\ tunnelEvent' \in BOOLEAN
  <1>1. CASE KeepTunnel
    BY <1>1 DEF TypeInv, TypeOK, KeepTunnel
  <1>2. CASE WriteTunnel(t)
    BY <1>2, Zenon DEF WriteTunnel
  <1> QED BY <1>1, <1>2

LEMMA EndPassType ==
  ASSUME TypeInv, NEW patchFailed, EndPass(patchFailed),
         tunnel' \in Tunnels \cup {None}, tunnelEvent' \in BOOLEAN,
         disturbances' \in 0..MaxDisturbances, pc = "patch"
  PROVE  TypeInv'
  <1>1. /\ queued' \in BOOLEAN /\ domainKnown' \in BOOLEAN
        /\ podEvent' \in BOOLEAN
    BY Zenon DEF TypeInv, TypeOK, EndPass, manager
  <1>2. timer' \in {"none", "net", "retry"}
    BY DEF TypeInv, TypeOK, EndPass
  <1>3. TypeOK'
    BY <1>1, <1>2, InitStatusType
    DEF TypeInv, TypeOK, EndPass, world, manager
  <1>4. PassInv'
    BY DEF TypeInv, PassInv, EndPass
  <1> QED BY <1>3, <1>4 DEF TypeInv

LEMMA PatchedType ==
  ASSUME TypeInv, pc = "patch", tunnel # None PROVE Patched \in Tunnels
  <1>1. tunnel \in Tunnels /\ orig \in Tunnels /\ draft \in Statuses
    BY DEF TypeInv, TypeOK, PassInv
  <1>2. orig.generation \in 0..MaxGeneration
    BY <1>1, BoundsAssumption DEF Tunnels
  <1>3. FinalStatus \in Statuses
    BY <1>1, <1>2, FieldTypes DEF FinalStatus
  <1>4. Merge(tunnel.status, orig.status, FinalStatus) \in Statuses
    BY <1>1, <1>3, MergeType DEF Tunnels
  <1> QED BY <1>1, <1>4 DEF Patched, Tunnels

LEMMA patchStatusType == TypeInv /\ patchStatus => TypeInv'
  <1> SUFFICES ASSUME TypeInv, patchStatus PROVE TypeInv'
    OBVIOUS
  <1> DEFINE written == IF tunnel # None THEN Patched ELSE None
  <1>1. pc = "patch" /\ (EndPass(FALSE) \/ EndPass(TRUE))
    BY DEF patchStatus
  <1>2. written \in Tunnels \cup {None}
    BY <1>1, PatchedType
  <1>3. KeepTunnel \/ WriteTunnel(written)
    BY DEF patchStatus
  <1>4. Disturb \/ UNCHANGED disturbances
    BY Zenon DEF patchStatus, Fault
  <1> HIDE DEF written
  <1>5. /\ tunnel' \in Tunnels \cup {None} /\ tunnelEvent' \in BOOLEAN
        /\ disturbances' \in 0..MaxDisturbances
    BY <1>2, <1>3, <1>4, TunnelWriteType, DisturbType
  <1> QED BY <1>1, <1>5, EndPassType

LEMMA ReconcileType == TypeInv /\ Reconcile => TypeInv'
  <1> SUFFICES ASSUME TypeInv, Reconcile PROVE TypeInv'
    OBVIOUS
  <1> QED BY SkipPassType, GetTunnelFailsType, BeginPassType, ReadPodType,
             checkTokenType, resolveServicePortType, hasReadyEndpointType,
             ReadFailsType, WaitForTerminationType, CreatePodType,
             DeleteOutdatedType, ApplyRetryableType, ApplyTerminalType,
             GateFailsType, ReportActiveType, ReportNotReadyType,
             patchStatusType, Zenon DEF Reconcile

-----------------------------------------------------------------------------
(* Everything around the pass.                                              *)

(* Steps that leave the pass, the manager and the data alone: only the      *)
(* types of what they write matter.                                         *)
LEMMA AroundType ==
  ASSUME TypeInv, UNCHANGED <<world, pass, manager>>,
         tunnel' \in Tunnels \cup {None}, pod' \in Pods \cup {None},
         cachedTunnel' \in Tunnels \cup {None},
         cachedPod' \in Pods \cup {None},
         tunnelEvent' \in BOOLEAN, podEvent' \in BOOLEAN, queued' \in BOOLEAN,
         timer' \in {"none", "net", "retry"},
         incarnations' \in 0..MaxIncarnations,
         disturbances' \in 0..MaxDisturbances
  PROVE  TypeInv'
  <1>1. domainKnown' \in BOOLEAN
    BY Zenon DEF TypeInv, TypeOK, manager
  <1>2. TypeOK'
    BY <1>1 DEF TypeInv, TypeOK, world, pass, manager
  <1>3. PassInv'
    BY DEF TypeInv, PassInv, pass
  <1> QED BY <1>2, <1>3 DEF TypeInv

LEMMA SyncTunnelType == TypeInv /\ SyncTunnel => TypeInv'
  <1> SUFFICES ASSUME TypeInv, SyncTunnel PROVE TypeInv'
    OBVIOUS
  <1>1. tunnelEvent' \in BOOLEAN /\ podEvent' \in BOOLEAN /\ queued' \in BOOLEAN
    BY Zenon DEF TypeInv, TypeOK, SyncTunnel
  <1>2. /\ UNCHANGED <<world, pass, manager, timer, incarnations, disturbances,
                       tunnel, pod, cachedPod>>
        /\ cachedTunnel' = tunnel
    BY DEF SyncTunnel, bounds
  <1> QED BY <1>1, <1>2, AroundType DEF TypeInv, TypeOK

LEMMA SyncPodType == TypeInv /\ SyncPod => TypeInv'
  <1> SUFFICES ASSUME TypeInv, SyncPod PROVE TypeInv'
    OBVIOUS
  <1>1. tunnelEvent' \in BOOLEAN /\ podEvent' \in BOOLEAN /\ queued' \in BOOLEAN
    BY Zenon DEF TypeInv, TypeOK, SyncPod
  <1>2. /\ UNCHANGED <<world, pass, manager, timer, incarnations, disturbances,
                       tunnel, pod, cachedTunnel>>
        /\ cachedPod' = pod
    BY DEF SyncPod, bounds
  <1> QED BY <1>1, <1>2, AroundType DEF TypeInv, TypeOK

LEMMA RequeueAfterType == TypeInv /\ RequeueAfter => TypeInv'
  <1> SUFFICES ASSUME TypeInv, RequeueAfter PROVE TypeInv'
    OBVIOUS
  <1>1. tunnelEvent' \in BOOLEAN /\ podEvent' \in BOOLEAN /\ queued' \in BOOLEAN
    BY Zenon DEF TypeInv, TypeOK, RequeueAfter, watches
  <1>2. /\ UNCHANGED <<world, pass, manager, incarnations, disturbances,
                       tunnel, pod, cachedTunnel, cachedPod>>
        /\ timer' = "none"
    BY DEF RequeueAfter, bounds, watches
  <1> QED BY <1>1, <1>2, AroundType DEF TypeInv, TypeOK

LEMMA CrashType == TypeInv /\ Crash => TypeInv'
  <1> SUFFICES ASSUME TypeInv, Crash PROVE TypeInv'
    OBVIOUS
  <1>1. disturbances' \in 0..MaxDisturbances
    BY DisturbType DEF Crash, Fault
  <1>2. Flags'
    BY Zenon DEF Crash, Flags
  <1>3. TypeOK'
    BY <1>1, <1>2, InitStatusType DEF TypeInv, TypeOK, Flags, Crash, world
  <1>4. PassInv'
    BY DEF Crash, PassInv
  <1> QED BY <1>3, <1>4 DEF TypeInv

(* An event on data the tunnel refers to.                                   *)
LEMMA EventType ==
  ASSUME TypeInv, NEW index, NEW value, requestsByIndex(index, value), Outside,
         secrets' \in [Secrets -> SecretStates],
         services' \in [Backends -> ServiceStates],
         endpoints' \in [Backends -> BOOLEAN]
  PROVE  TypeInv'
  <1>1. disturbances' \in 0..MaxDisturbances
    BY DisturbType DEF requestsByIndex, Fault
  <1>2. Flags'
    BY Zenon DEF TypeInv, TypeOK, requestsByIndex, Outside, watches, manager, Flags
  <1>3. TypeOK'
    BY <1>1, <1>2
    DEF TypeInv, TypeOK, Flags, Outside, watches, pass, manager
  <1>4. PassInv'
    BY DEF TypeInv, PassInv, Outside, pass
  <1> QED BY <1>3, <1>4 DEF TypeInv

LEMMA WorldType == TypeInv /\ World => TypeInv'
  <1> SUFFICES ASSUME TypeInv, World PROVE TypeInv'
    OBVIOUS
  <1>1. ASSUME NEW name \in Secrets, SecretChanges(name) PROVE TypeInv'
    <2>1. /\ secrets' \in [Secrets -> SecretStates]
          /\ UNCHANGED <<services, endpoints>> /\ Outside
      BY <1>1 DEF SecretChanges, TypeInv, TypeOK
    <2>2. requestsByIndex("secret", name)
      BY <1>1, Zenon DEF SecretChanges
    <2> QED BY <2>1, <2>2, EventType DEF TypeInv, TypeOK
  <1>2. ASSUME NEW backend \in Backends, ServiceChanges(backend) PROVE TypeInv'
    <2>1. /\ services' \in [Backends -> ServiceStates]
          /\ UNCHANGED <<secrets, endpoints>> /\ Outside
      BY <1>2 DEF ServiceChanges, TypeInv, TypeOK
    <2>2. requestsByIndex("backend", backend)
      BY <1>2, Zenon DEF ServiceChanges
    <2> QED BY <2>1, <2>2, EventType DEF TypeInv, TypeOK
  <1>3. ASSUME NEW backend \in Backends, EndpointsChange(backend) PROVE TypeInv'
    <2>1. /\ endpoints' \in [Backends -> BOOLEAN]
          /\ UNCHANGED <<secrets, services>> /\ Outside
      BY <1>3 DEF EndpointsChange, TypeInv, TypeOK
    <2>2. requestsByIndex("backend", backend)
      BY <1>3, Zenon DEF EndpointsChange
    <2> QED BY <2>1, <2>2, EventType DEF TypeInv, TypeOK
  <1> QED BY <1>1, <1>2, <1>3, Zenon DEF World

(* Users and the garbage collector write the tunnel, nothing of the pass.   *)
LEMMA TunnelStepType ==
  ASSUME TypeInv, KeepAllButTunnel, NEW t \in Tunnels \cup {None},
         WriteTunnel(t), incarnations' \in 0..MaxIncarnations,
         Disturb \/ UNCHANGED disturbances
  PROVE  TypeInv'
  <1>1. podEvent' \in BOOLEAN /\ queued' \in BOOLEAN
    BY Zenon DEF TypeInv, TypeOK, KeepAllButTunnel, queue
  <1>2. UNCHANGED <<pod, cachedTunnel, cachedPod, world, timer, pass, manager>>
    BY DEF KeepAllButTunnel, queue
  <1> QED BY <1>1, <1>2, TunnelWriteType, DisturbType, AroundType
          DEF TypeInv, TypeOK

LEMMA UsersType == TypeInv /\ Users => TypeInv'
  <1> SUFFICES ASSUME TypeInv, Users PROVE TypeInv'
    OBVIOUS
  <1>1. CASE CreateTunnel
    <2>1. PICK spec \in Specs :
            WriteTunnel([uid |-> incarnations + 1, generation |-> 1,
                         deleting |-> FALSE, spec |-> spec,
                         status |-> InitStatus])
      BY <1>1 DEF CreateTunnel
    <2>2. incarnations + 1 \in 1..MaxIncarnations
      BY <1>1, BoundsAssumption DEF TypeInv, TypeOK, CreateTunnel
    <2> DEFINE t == [uid |-> incarnations + 1, generation |-> 1,
                     deleting |-> FALSE, spec |-> spec, status |-> InitStatus]
    <2>3. t \in Tunnels
      BY <2>2, InitStatusType, BoundsAssumption DEF Tunnels
    <2>4. incarnations' \in 0..MaxIncarnations
      BY <1>1, <2>2 DEF CreateTunnel
    <2> HIDE DEF t
    <2> QED BY <1>1, <2>1, <2>3, <2>4, TunnelStepType DEF CreateTunnel, t
  <1>2. CASE EditSpec
    <2>1. PICK spec \in Specs :
            WriteTunnel([tunnel EXCEPT !.spec = spec, !.generation = @ + 1])
      BY <1>2 DEF EditSpec
    <2> DEFINE t == [tunnel EXCEPT !.spec = spec, !.generation = @ + 1]
    <2>2. tunnel \in Tunnels /\ tunnel.generation < MaxGeneration
      BY <1>2 DEF EditSpec, TypeInv, TypeOK
    <2>3. tunnel.generation + 1 \in 1..MaxGeneration
      BY <2>2, BoundsAssumption DEF Tunnels
    <2>4. t \in Tunnels
      BY <2>2, <2>3 DEF Tunnels
    <2> HIDE DEF t
    <2> QED BY <1>2, <2>1, <2>4, TunnelStepType
            DEF EditSpec, bounds, t, TypeInv, TypeOK
  <1>3. CASE DeleteTunnel
    <2> DEFINE t == [tunnel EXCEPT !.deleting = TRUE]
    <2>1. t \in Tunnels
      BY <1>3 DEF DeleteTunnel, TypeInv, TypeOK, Tunnels
    <2> HIDE DEF t
    <2> QED BY <1>3, <2>1, TunnelStepType DEF DeleteTunnel, t, TypeInv, TypeOK
  <1> QED BY <1>1, <1>2, <1>3, Zenon DEF Users

(* Kubelet, the agent and the garbage collector write the pod.              *)
LEMMA PodStepType ==
  ASSUME TypeInv, KeepAllButPod, NEW p \in Pods \cup {None}, WritePod(p),
         Disturb \/ UNCHANGED disturbances
  PROVE  TypeInv'
  <1>1. tunnelEvent' \in BOOLEAN /\ queued' \in BOOLEAN
    BY Zenon DEF TypeInv, TypeOK, KeepAllButPod, queue
  <1>2. UNCHANGED <<tunnel, cachedTunnel, cachedPod, world, timer, pass,
                    manager, incarnations>>
    BY DEF KeepAllButPod, queue
  <1> QED BY <1>1, <1>2, PodWriteType, DisturbType, AroundType
          DEF TypeInv, TypeOK

LEMMA SetAgentType ==
  ASSUME TypeInv, KeepAllButPod, pod # None, NEW agent \in Agents,
         SetAgent(agent), Disturb \/ UNCHANGED disturbances
  PROVE  TypeInv'
  <1> DEFINE p == [pod EXCEPT !.agent = agent]
  <1>1. p \in Pods \cup {None}
    BY DEF TypeInv, TypeOK, Pods
  <1>2. WritePod(p)
    BY DEF SetAgent
  <1> HIDE DEF p
  <1> QED BY <1>1, <1>2, PodStepType

LEMMA AgentStepType ==
  ASSUME TypeInv, NEW states, AgentStep(states)
  PROVE  KeepAllButPod /\ pod # None /\ pod \in Pods /\ pod.agent \in Agents
  BY DEF TypeInv, TypeOK, AgentStep, Pods

LEMMA KubernetesType == TypeInv /\ Kubernetes => TypeInv'
  <1> SUFFICES ASSUME TypeInv, Kubernetes PROVE TypeInv'
    OBVIOUS
  <1>1. CASE StartContainer
    <2> DEFINE agent ==
          [state |-> "running", code |-> NoCode,
           last |-> IF pod.agent.state = "terminated"
                      THEN pod.agent.code ELSE pod.agent.last]
    <2>1. KeepAllButPod /\ pod # None /\ pod.agent \in Agents
      BY <1>1, AgentStepType DEF StartContainer
    <2>2. agent \in Agents
      BY <2>1 DEF Agents, ContainerStates
    <2> QED BY <1>1, <2>1, <2>2, SetAgentType DEF StartContainer
  <1>2. CASE CrashLoopBackOff
    <2>1. KeepAllButPod /\ pod # None /\ pod.agent \in Agents
      BY <1>2, AgentStepType DEF CrashLoopBackOff
    <2>2. [state |-> "waiting", code |-> NoCode, last |-> pod.agent.code]
            \in Agents
      BY <2>1 DEF Agents, ContainerStates
    <2> QED BY <1>2, <2>1, <2>2, SetAgentType DEF CrashLoopBackOff
  <1>3. CASE BecomeReady
    <2>1. KeepAllButPod /\ pod # None /\ pod.agent \in Agents
      BY <1>3, AgentStepType DEF BecomeReady
    <2>2. [pod.agent EXCEPT !.state = "ready"] \in Agents
      BY <2>1 DEF Agents, ContainerStates
    <2> QED BY <1>3, <2>1, <2>2, SetAgentType DEF BecomeReady
  <1>4. CASE ProbeFails
    <2>1. KeepAllButPod /\ pod # None /\ pod.agent \in Agents
      BY <1>4, AgentStepType DEF ProbeFails
    <2>2. [pod.agent EXCEPT !.state = "unready"] \in Agents
      BY <2>1 DEF Agents, ContainerStates
    <2> QED BY <1>4, <2>1, <2>2, SetAgentType DEF ProbeFails
  <1>5. CASE AgentExits
    <2>1. KeepAllButPod /\ pod # None /\ pod.agent \in Agents
      BY <1>5, AgentStepType DEF AgentExits
    <2>2. PICK code \in ExitCodes :
            SetAgent([pod.agent EXCEPT !.state = "terminated", !.code = code])
      BY <1>5 DEF AgentExits
    <2>3. [pod.agent EXCEPT !.state = "terminated", !.code = code] \in Agents
      BY <2>1 DEF Agents, ContainerStates
    <2> QED BY <1>5, <2>1, <2>2, <2>3, SetAgentType DEF AgentExits
  <1>6. CASE PodDeleted
    BY <1>6, DeletedType, PodStepType DEF PodDeleted
  <1>7. CASE Evict
    <2> DEFINE p == [pod EXCEPT !.evicted = TRUE,
                       !.agent = [@ EXCEPT !.state = "terminated",
                                           !.code = ExitUnexpected]]
    <2>1. KeepAllButPod /\ pod # None /\ pod \in Pods /\ pod.agent \in Agents
      BY <1>7, AgentStepType DEF Evict
    <2>2. [pod.agent EXCEPT !.state = "terminated", !.code = ExitUnexpected]
            \in Agents
      BY <1>7, <2>1 DEF Agents, ContainerStates, Evict
    <2>3. p \in Pods \cup {None}
      BY <2>1, <2>2 DEF Pods
    <2>4. WritePod(p) /\ Disturb
      BY <1>7 DEF Evict, Fault
    <2> HIDE DEF p
    <2> QED BY <2>1, <2>3, <2>4, PodStepType
  <1>8. CASE PodGone
    BY <1>8, PodStepType DEF PodGone
  <1>9. CASE CollectPod
    BY <1>9, DeletedType, PodStepType DEF CollectPod
  <1>10. CASE FinishForegroundDeletion
    BY <1>10, TunnelStepType DEF FinishForegroundDeletion, bounds, TypeInv,
                                 TypeOK
  <1> QED BY <1>1, <1>2, <1>3, <1>4, <1>5, <1>6, <1>7, <1>8, <1>9, <1>10, Zenon
          DEF Kubernetes

LEMMA StutterType == TypeInv /\ UNCHANGED vars => TypeInv'
  <1> SUFFICES ASSUME TypeInv, UNCHANGED vars PROVE TypeInv'
    OBVIOUS
  <1>1. tunnelEvent' \in BOOLEAN /\ podEvent' \in BOOLEAN /\ queued' \in BOOLEAN
    BY Zenon DEF TypeInv, TypeOK, vars, watches, queue
  <1>2. UNCHANGED <<tunnel, pod, cachedTunnel, cachedPod, world, timer, pass,
                    manager, incarnations, disturbances>>
    BY DEF vars, watches, queue, bounds
  <1> QED BY <1>1, <1>2, AroundType DEF TypeInv, TypeOK

LEMMA StepTypeInv == TypeInv /\ [Next]_vars => TypeInv'
  BY ReconcileType, SyncTunnelType, SyncPodType, RequeueAfterType, CrashType,
     WorldType, UsersType, KubernetesType, StutterType, Zenon
  DEF Next, Manager

(* Whatever the users, the cluster and the failures do, every variable of   *)
(* the reconciler keeps its type; among others, observedGeneration is       *)
(* always a generation and every reason written to Ready is a reason of     *)
(* that condition, GateFails included.                                      *)
THEOREM TypeCorrect == Spec => []TypeOK
  <1>1. TypeInv => TypeOK
    BY DEF TypeInv
  <1> QED BY <1>1, InitTypeInv, StepTypeInv, PTL DEF Spec
-----------------------------------------------------------------------------
(* The agent's container, as the contract AgentContainer has it.  The       *)
(* instance has its own copy of the contract's names.                       *)

LEMMA ContractNames ==
  /\ Container!NoCode = NoCode /\ Container!NoStatus = NoStatus
  /\ Container!ExitOK = ExitOK /\ Container!ExitUnexpected = ExitUnexpected
  /\ Container!ExitEventStreamDropped = ExitEventStreamDropped
  /\ Container!AllExitCodes = AllExitCodes
  BY DEF Container!NoCode, Container!NoStatus, Container!AllExitCodes,
         Container!ExitOK, Container!ExitUnexpected,
         Container!ExitSubdomainBusy, Container!ExitCNAMEBusy,
         Container!ExitAccountTunnelLimit, Container!ExitAuthFailed,
         Container!ExitInvalidSubdomain, Container!ExitNotAllowlisted,
         Container!ExitConfigFailure, Container!ExitEventServerUnreachable,
         Container!ExitEventStreamDropped,
         NoCode, NoStatus, AllExitCodes, ExitOK, ExitUnexpected,
         ExitSubdomainBusy, ExitCNAMEBusy, ExitAccountTunnelLimit,
         ExitAuthFailed, ExitInvalidSubdomain, ExitNotAllowlisted,
         ExitConfigFailure, ExitEventServerUnreachable, ExitEventStreamDropped

(* What AgentsAreContainers says of a step.                                 *)
KeepsContract ==
  pod' # None =>
    IF pod = None THEN pod'.agent = NoStatus
                  ELSE pod'.agent = pod.agent \/ Container!Next

LEMMA NoNewsKeepsContract ==
  ASSUME TypeInv, UNCHANGED pod \/ WritePod(Deleted(pod)) \/ WritePod(None)
  PROVE  KeepsContract
  <1>1. CASE UNCHANGED pod \/ WritePod(None)
    BY <1>1 DEF WritePod, KeepsContract
  <1>2. CASE WritePod(Deleted(pod)) /\ pod = None
    BY <1>2 DEF WritePod, Deleted, KeepsContract
  <1>3. CASE WritePod(Deleted(pod)) /\ pod # None
    <2>1. pod \in Pods /\ pod' = [pod EXCEPT !.deleting = TRUE]
      BY <1>3 DEF TypeInv, TypeOK, WritePod, Deleted
    <2>2. pod'.agent = pod.agent
      BY <2>1 DEF Pods
    <2> QED BY <1>3, <2>2 DEF KeepsContract
  <1> QED BY <1>1, <1>2, <1>3

LEMMA CreatePodKeepsContract == TypeInv /\ CreatePod => KeepsContract
  <1> SUFFICES ASSUME TypeInv, CreatePod PROVE KeepsContract
    OBVIOUS
  <1>1. desiredPod.agent = NoStatus
    BY DEF desiredPod
  <1>2. CASE pod = None
    <2>1. pod' = pod \/ pod' = desiredPod
      BY <1>2 DEF CreatePod, KeepPod, WritePod, Lost
    <2> QED BY <1>1, <1>2, <2>1 DEF KeepsContract
  <1>3. CASE pod # None
    <2>1. UNCHANGED pod
      BY <1>3 DEF CreatePod, KeepPod, WritePod, Lost
    <2> QED BY <2>1, NoNewsKeepsContract
  <1> QED BY <1>2, <1>3

(* Passes create and delete; they never touch what is in a pod.             *)
LEMMA ReconcileKeepsContract == TypeInv /\ Reconcile => KeepsContract
  <1> SUFFICES ASSUME TypeInv, Reconcile PROVE KeepsContract
    OBVIOUS
  <1>1. CASE SkipPass \/ GetTunnelFails \/ BeginPass
    BY <1>1, StartPassType, NoNewsKeepsContract
    DEF SkipPass, GetTunnelFails, BeginPass
  <1>2. CASE \/ ReadPod \/ checkToken \/ resolveServicePort \/ hasReadyEndpoint
             \/ \E call \in {"getPod", "getSecret", "getService",
                             "listSlices"} : ReadFails(call)
    <2>1. Local
      BY <1>2, Zenon DEF ReadPod, checkToken, resolveServicePort,
                         hasReadyEndpoint, ReadFails
    <2> QED BY <2>1, LocalType, NoNewsKeepsContract
  <1>3. CASE CreatePod
    BY <1>3, CreatePodKeepsContract
  <1>4. CASE \/ WaitForTermination \/ ApplyRetryable \/ GateFails
             \/ ReportActive \/ ReportNotReady
    <2>1. KeepPod
      BY <1>4, Zenon DEF WaitForTermination, ApplyRetryable, GateFails,
                         ReportActive, ReportNotReady
    <2> QED BY <2>1, NoNewsKeepsContract DEF KeepPod
  <1>5. CASE DeleteOutdated \/ ApplyTerminal
    <2>1. KeepPod \/ WritePod(Deleted(pod))
      BY <1>5, Zenon DEF DeleteOutdated, ApplyTerminal, StopAgent, Lost
    <2> QED BY <2>1, NoNewsKeepsContract DEF KeepPod
  <1>6. CASE patchStatus
    <2>1. \E failed : EndPass(failed)
      BY <1>6, Zenon DEF patchStatus
    <2> QED BY <2>1, NoNewsKeepsContract DEF EndPass
  <1> QED BY <1>1, <1>2, <1>3, <1>4, <1>5, <1>6, Zenon DEF Reconcile

LEMMA SetAgentKeeps ==
  ASSUME TypeInv, pod # None, NEW agent, SetAgent(agent)
  PROVE  pod'.agent = agent
  BY DEF TypeInv, TypeOK, Pods, SetAgent, WritePod

(* An exit, written by fields and as a record.                              *)
LEMMA ExitedAgent ==
  ASSUME NEW agent \in Agents, NEW code
  PROVE  [agent EXCEPT !.state = "terminated", !.code = code]
           = [state |-> "terminated", code |-> code, last |-> agent.last]
  <1> DEFINE a == [agent EXCEPT !.state = "terminated", !.code = code]
             b == [state |-> "terminated", code |-> code, last |-> agent.last]
  <1>1. DOMAIN a = DOMAIN b
    BY DEF Agents
  <1>2. a.state = b.state /\ a.code = b.code /\ a.last = b.last
    BY DEF Agents
  <1>3. DOMAIN b = {"state", "code", "last"}
    OBVIOUS
  <1> QED BY <1>1, <1>2, <1>3

LEMMA ExitKeepsContract ==
  ASSUME TypeInv, ExitCodes \subseteq AllExitCodes, NEW code \in ExitCodes,
         pod # None, pod \in Pods,
         pod.agent.state \in {"running", "ready", "unready"},
         pod.agent.state # "running" => code \in ServingExits,
         pod'.agent = [pod.agent EXCEPT !.state = "terminated", !.code = code]
  PROVE  KeepsContract
  <1>1. pod'.agent = [state |-> "terminated", code |-> code,
                      last |-> pod.agent.last]
    BY ExitedAgent DEF Pods
  <1>2. Container!Exit(code)
    BY <1>1, ContractNames DEF Container!Exit, ServingExits
  <1> QED BY <1>2, ContractNames DEF Container!Next, KeepsContract

LEMMA KubernetesKeepsContract ==
  ASSUME ExitCodes \subseteq AllExitCodes, TypeInv, Kubernetes
  PROVE  KeepsContract
  <1>1. CASE StartContainer
    <2>1. pod # None /\ pod.agent.state \in {"unknown", "terminated", "waiting"}
      BY <1>1 DEF StartContainer, AgentStep
    <2>2. pod'.agent = [state |-> "running", code |-> NoCode,
                        last |-> IF pod.agent.state = "terminated"
                                   THEN pod.agent.code ELSE pod.agent.last]
      BY <1>1, <2>1, SetAgentKeeps DEF StartContainer
    <2>3. Container!Start
      BY <2>1, <2>2, ContractNames DEF Container!Start
    <2> QED BY <2>1, <2>3 DEF Container!Next, KeepsContract
  <1>2. CASE CrashLoopBackOff
    <2>1. pod # None /\ pod.agent.state = "terminated"
      BY <1>2 DEF CrashLoopBackOff, AgentStep
    <2>2. pod'.agent = [state |-> "waiting", code |-> NoCode,
                        last |-> pod.agent.code]
      BY <1>2, <2>1, SetAgentKeeps DEF CrashLoopBackOff
    <2>3. Container!BackOff
      BY <2>1, <2>2, ContractNames DEF Container!BackOff
    <2> QED BY <2>1, <2>3 DEF Container!Next, KeepsContract
  <1>3. CASE BecomeReady
    <2>1. pod # None /\ pod.agent.state \in {"running", "unready"}
      BY <1>3 DEF BecomeReady, AgentStep
    <2>2. pod'.agent = [pod.agent EXCEPT !.state = "ready"]
      BY <1>3, <2>1, SetAgentKeeps DEF BecomeReady
    <2>3. Container!Ready
      BY <2>1, <2>2 DEF Container!Ready
    <2> QED BY <2>1, <2>3 DEF Container!Next, KeepsContract
  <1>4. CASE ProbeFails
    <2>1. pod # None /\ pod.agent.state = "ready"
      BY <1>4 DEF ProbeFails, AgentStep
    <2>2. pod'.agent = [pod.agent EXCEPT !.state = "unready"]
      BY <1>4, <2>1, SetAgentKeeps DEF ProbeFails
    <2>3. Container!Unready
      BY <2>1, <2>2 DEF Container!Unready
    <2> QED BY <2>1, <2>3 DEF Container!Next, KeepsContract
  <1>5. CASE AgentExits
    <2>1. /\ pod # None /\ pod \in Pods
          /\ pod.agent.state \in {"running", "ready", "unready"}
      BY <1>5, AgentStepType DEF AgentExits, AgentStep
    <2>2. PICK code \in ExitCodes :
            /\ pod.agent.state # "running" => code \in ServingExits
            /\ SetAgent([pod.agent EXCEPT !.state = "terminated",
                                          !.code = code])
      BY <1>5, Zenon DEF AgentExits
    <2>3. pod'.agent = [pod.agent EXCEPT !.state = "terminated", !.code = code]
      BY <2>1, <2>2, SetAgentKeeps
    <2> QED BY <2>1, <2>2, <2>3, ExitKeepsContract
  <1>6. CASE Evict
    <2>1. /\ pod # None /\ pod \in Pods /\ ExitUnexpected \in ExitCodes
          /\ pod.agent.state \in {"running", "ready", "unready"}
      BY <1>6, AgentStepType DEF Evict, AgentStep
    <2>2. pod'.agent = [pod.agent EXCEPT !.state = "terminated",
                                         !.code = ExitUnexpected]
      BY <1>6, <2>1 DEF Evict, WritePod, Pods
    <2> QED BY <2>1, <2>2, ExitKeepsContract DEF ServingExits
  <1>7. CASE PodDeleted \/ CollectPod \/ PodGone \/ FinishForegroundDeletion
    <2>1. UNCHANGED pod \/ WritePod(Deleted(pod)) \/ WritePod(None)
      BY <1>7 DEF PodDeleted, CollectPod, PodGone, FinishForegroundDeletion,
                  KeepAllButTunnel
    <2> QED BY <2>1, NoNewsKeepsContract
  <1> QED BY <1>1, <1>2, <1>3, <1>4, <1>5, <1>6, <1>7, Zenon DEF Kubernetes

LEMMA OthersKeepContract ==
  TypeInv /\ (Manager \/ World \/ Users \/ UNCHANGED vars) => KeepsContract
  <1> SUFFICES ASSUME TypeInv, Manager \/ World \/ Users \/ UNCHANGED vars
               PROVE  KeepsContract
    OBVIOUS
  <1>1. CASE Manager \/ UNCHANGED vars
    <2>1. UNCHANGED pod
      BY <1>1 DEF Manager, SyncTunnel, SyncPod, RequeueAfter, Crash, vars
    <2> QED BY <2>1, NoNewsKeepsContract
  <1>2. CASE World
    <2>1. Outside
      BY <1>2, Zenon DEF World, SecretChanges, ServiceChanges, EndpointsChange
    <2> QED BY <2>1, NoNewsKeepsContract DEF Outside
  <1>3. CASE Users
    <2>1. KeepAllButTunnel
      BY <1>3, Zenon DEF Users, CreateTunnel, EditSpec, DeleteTunnel
    <2> QED BY <2>1, NoNewsKeepsContract DEF KeepAllButTunnel
  <1> QED BY <1>1, <1>2, <1>3

(* A pod enters with a container that has done nothing, and what            *)
(* classifyPod and agentReady read of it later is a history the contract    *)
(* allows: no pass, deletion or AlreadyExists forges one.                   *)
THEOREM AgentsKeepContract ==
  ASSUME ExitCodes \subseteq AllExitCodes PROVE Spec => AgentsAreContainers
  <1>1. TypeInv /\ [Next]_vars => KeepsContract
    BY ReconcileKeepsContract, KubernetesKeepsContract, OthersKeepContract,
       Zenon DEF Next
  <1>2. TypeInv /\ [Next]_vars => [KeepsContract]_vars
    BY <1>1
  <1>3. Spec => [][KeepsContract]_vars
    BY <1>2, InitTypeInv, StepTypeInv, PTL DEF Spec
  <1> QED BY <1>3, Zenon DEF AgentsAreContainers, KeepsContract

(* The container of a live pod moves, and nothing else does; losing its     *)
(* readiness and exiting use up a disturbance.                              *)
AgentMoves ==
  /\ pod # None /\ ~pod.deleting /\ ~pod.evicted
  /\ Container!Next
  /\ SetAgent(pod'.agent)
  /\ IF pod'.agent.state \in {"unready", "terminated"}
       THEN Disturb ELSE UNCHANGED disturbances
  /\ KeepAllButPod

(* Conversely, nothing an agent can do under the contract, which            *)
(* AgentProofs shows to be all it does, is missing from the cluster the     *)
(* reconciler is checked and proved against.                                *)
THEOREM ContractIsAdmitted ==
  ASSUME TypeOK, AllExitCodes \subseteq ExitCodes, AgentMoves
  PROVE  Kubernetes
  <1>1. /\ pod \in Pods /\ pod.agent \in Agents
        /\ \A states : pod.agent.state \in states => AgentStep(states)
    BY DEF TypeOK, Pods, AgentMoves, AgentStep
  <1>2. CASE Container!Start
    <2>1. AgentStep({"unknown", "terminated", "waiting"})
      BY <1>1, <1>2 DEF Container!Start
    <2>2. pod'.agent = [state |-> "running", code |-> NoCode,
                        last |-> IF pod.agent.state = "terminated"
                                   THEN pod.agent.code ELSE pod.agent.last]
      BY <1>2, ContractNames DEF Container!Start
    <2>3. UNCHANGED disturbances
      BY <2>2 DEF AgentMoves
    <2>4. StartContainer
      BY <2>1, <2>2, <2>3 DEF StartContainer, AgentMoves
    <2> QED BY <2>4 DEF Kubernetes
  <1>3. CASE Container!BackOff
    <2>1. AgentStep({"terminated"})
      BY <1>1, <1>3 DEF Container!BackOff
    <2>2. pod'.agent = [state |-> "waiting", code |-> NoCode,
                        last |-> pod.agent.code]
      BY <1>3, ContractNames DEF Container!BackOff
    <2>3. UNCHANGED disturbances
      BY <2>2 DEF AgentMoves
    <2>4. CrashLoopBackOff
      BY <2>1, <2>2, <2>3 DEF CrashLoopBackOff, AgentMoves
    <2> QED BY <2>4 DEF Kubernetes
  <1>4. CASE Container!Ready
    <2>1. AgentStep({"running", "unready"})
      BY <1>1, <1>4 DEF Container!Ready
    <2>2. pod'.agent = [pod.agent EXCEPT !.state = "ready"]
      BY <1>4 DEF Container!Ready
    <2>3. pod'.agent.state = "ready"
      BY <1>1, <2>2 DEF Agents
    <2>4. UNCHANGED disturbances
      BY <2>3 DEF AgentMoves
    <2>5. BecomeReady
      BY <2>1, <2>2, <2>4 DEF BecomeReady, AgentMoves
    <2> QED BY <2>5 DEF Kubernetes
  <1>5. CASE Container!Unready
    <2>1. AgentStep({"ready"})
      BY <1>1, <1>5 DEF Container!Unready
    <2>2. pod'.agent = [pod.agent EXCEPT !.state = "unready"]
      BY <1>5 DEF Container!Unready
    <2>3. pod'.agent.state = "unready"
      BY <1>1, <2>2 DEF Agents
    <2>4. Disturb
      BY <2>3 DEF AgentMoves
    <2>5. ProbeFails
      BY <2>1, <2>2, <2>4 DEF ProbeFails, AgentMoves
    <2> QED BY <2>5 DEF Kubernetes
  <1>6. CASE \E code \in Container!AllExitCodes : Container!Exit(code)
    <2>1. PICK code \in ExitCodes : Container!Exit(code)
      BY <1>6, ContractNames
    <2>2. AgentStep({"running", "ready", "unready"})
      BY <1>1, <2>1 DEF Container!Exit
    <2>3. /\ pod.agent.state # "running" => code \in ServingExits
          /\ pod'.agent = [state |-> "terminated", code |-> code,
                           last |-> pod.agent.last]
      BY <2>1, ContractNames DEF Container!Exit, ServingExits
    <2>4. pod'.agent = [pod.agent EXCEPT !.state = "terminated", !.code = code]
      BY <1>1, <2>3, ExitedAgent
    <2>5. Disturb
      BY <2>3 DEF AgentMoves
    <2>6. AgentExits
      BY <2>2, <2>3, <2>4, <2>5 DEF AgentExits, AgentMoves
    <2> QED BY <2>6 DEF Kubernetes
  <1> QED BY <1>2, <1>3, <1>4, <1>5, <1>6 DEF AgentMoves, Container!Next
=============================================================================
