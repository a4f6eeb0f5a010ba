---------------------------- MODULE StickyProofs ----------------------------
(***************************************************************************)
(* StickyFailure, for passes that read the tunnel from an up-to-date cache  *)
(* and for tunnels that are not re-created while a pass over their          *)
(* predecessor is still under way.  Both conditions are needed: without the *)
(* first a stale pass overwrites a failure (run ClaimSticky), without the   *)
(* second a status patch can reach the tunnel's successor.                  *)
(* Under the same conditions, the safety of TunnelLifecycle.                *)
(***************************************************************************)
EXTENDS WakeupProofs, TunnelClaims

(* The condition on the user: a new tunnel of the name waits for the pass.  *)
CreatedBetweenPasses == CreateTunnel => pc = "idle"

(* The status reports on a generation that exists.                          *)
ReportsThePast ==
  tunnel # None => tunnel.status.observedGeneration <= tunnel.generation

(* Nobody but the pass writes the status while it is under way.             *)
PassOwnsStatus ==
  pc # "idle" /\ tunnel # None =>
    /\ tunnel.status = orig.status
    /\ orig.generation <= tunnel.generation
    /\ orig.status.observedGeneration <= orig.generation

BeforeCreation ==
  incarnations = 0 => tunnel = None /\ cachedTunnel = None /\ pc = "idle"

StickyInv == ReportsThePast /\ PassOwnsStatus /\ BeforeCreation

-----------------------------------------------------------------------------
LEMMA InitStickyInv == Init => StickyInv
  BY DEF Init, StickyInv, ReportsThePast, PassOwnsStatus, BeforeCreation

(* What a step that leaves the status and the pass alone does to a tunnel   *)
(* that exists: it may edit or delete it.                                   *)
KeepsStatus ==
  /\ UNCHANGED <<pc, orig>>
  /\ tunnel' # None =>
       /\ tunnel # None
       /\ tunnel'.status = tunnel.status
       /\ tunnel'.generation >= tunnel.generation
  /\ incarnations' = incarnations
  /\ cachedTunnel' \in {cachedTunnel, tunnel}

LEMMA KeepsStatusKeepsInv ==
  ASSUME TypeInv, StickyInv, KeepsStatus, TypeInv' PROVE StickyInv'
  <1>1. tunnel' # None =>
          /\ tunnel.status.observedGeneration \in Int
          /\ tunnel.generation \in Int /\ tunnel'.generation \in Int
    BY BoundsAssumption DEF KeepsStatus, TypeInv, TypeOK, Tunnels, Statuses
  <1>2. ReportsThePast'
    BY <1>1 DEF StickyInv, ReportsThePast, KeepsStatus
  <1>3. pc # "idle" => orig.generation \in Int
    BY BoundsAssumption DEF TypeInv, PassInv, Tunnels
  <1>4. PassOwnsStatus'
    BY <1>1, <1>3 DEF StickyInv, PassOwnsStatus, KeepsStatus
  <1>5. BeforeCreation'
    BY DEF StickyInv, BeforeCreation, KeepsStatus
  <1> QED BY <1>2, <1>4, <1>5 DEF StickyInv

LEMMA EditKeepsStatus == ASSUME TypeInv, EditSpec PROVE KeepsStatus
  <1>1. PICK spec \in Specs :
          WriteTunnel([tunnel EXCEPT !.spec = spec, !.generation = @ + 1])
    BY DEF EditSpec
  <1>2. tunnel \in Tunnels /\ tunnel # None /\ tunnel.generation \in Int
    BY BoundsAssumption DEF EditSpec, TypeInv, TypeOK, Tunnels
  <1>3. /\ tunnel'.status = tunnel.status
        /\ tunnel'.generation = tunnel.generation + 1
    BY <1>1, <1>2 DEF WriteTunnel, Tunnels
  <1> QED BY <1>2, <1>3
          DEF EditSpec, KeepAllButTunnel, pass, bounds, KeepsStatus

LEMMA DeleteKeepsStatus == ASSUME TypeInv, DeleteTunnel PROVE KeepsStatus
  <1>1. tunnel \in Tunnels /\ tunnel # None /\ tunnel.generation \in Int
    BY BoundsAssumption DEF DeleteTunnel, TypeInv, TypeOK, Tunnels
  <1>2. CASE WriteTunnel(None)
    BY <1>1, <1>2
    DEF WriteTunnel, DeleteTunnel, KeepAllButTunnel, pass, KeepsStatus
  <1>3. CASE WriteTunnel([tunnel EXCEPT !.deleting = TRUE])
    BY <1>1, <1>3
    DEF WriteTunnel, Tunnels, DeleteTunnel, KeepAllButTunnel, pass, KeepsStatus
  <1> QED BY <1>2, <1>3 DEF DeleteTunnel

LEMMA TunnelUntouched ==
  ASSUME TypeInv, UNCHANGED <<tunnel, pc, orig, incarnations>>,
         cachedTunnel' \in {cachedTunnel, tunnel}
  PROVE  KeepsStatus
  BY BoundsAssumption DEF KeepsStatus, TypeInv, TypeOK, Tunnels

(* All steps but creations, crashes, and the beginning and end of a pass.   *)
LEMMA SideKeepsStatus ==
  ASSUME TypeInv,
         \/ SyncTunnel \/ SyncPod \/ RequeueAfter \/ World
         \/ EditSpec \/ DeleteTunnel \/ Kubernetes
         \/ SkipPass \/ GetTunnelFails \/ UNCHANGED vars
  PROVE  KeepsStatus
  <1>1. CASE World
    <2>1. Outside
      BY <1>1, Zenon DEF World, SecretChanges, ServiceChanges, EndpointsChange
    <2> QED BY <2>1, TunnelUntouched DEF Outside, watches, pass
  <1>2. CASE FinishForegroundDeletion
    BY <1>2 DEF FinishForegroundDeletion, WriteTunnel, KeepAllButTunnel, pass,
                bounds, KeepsStatus
  <1>3. CASE Kubernetes /\ ~FinishForegroundDeletion
    <2>1. KeepAllButPod
      BY <1>3, Zenon
      DEF Kubernetes, StartContainer, CrashLoopBackOff, BecomeReady,
          ProbeFails, AgentExits, PodDeleted, Evict, PodGone, CollectPod,
          AgentStep
    <2> QED BY <2>1, TunnelUntouched DEF KeepAllButPod, pass
  <1>4. CASE SyncTunnel \/ SyncPod \/ RequeueAfter
    BY <1>4, TunnelUntouched
    DEF SyncTunnel, SyncPod, RequeueAfter, watches, pass, bounds
  <1>5. CASE SkipPass \/ GetTunnelFails
    BY <1>5, TunnelUntouched
    DEF SkipPass, GetTunnelFails, StartPass, watches, pass
  <1>6. CASE UNCHANGED vars
    BY <1>6, TunnelUntouched DEF vars, watches, pass, bounds
  <1> QED BY <1>1, <1>2, <1>3, <1>4, <1>5, <1>6, EditKeepsStatus,
             DeleteKeepsStatus

LEMMA GoingOnKeepsStatus == ASSUME TypeInv, PassGoesOn, StickyInv, TypeInv'
                            PROVE  StickyInv'
  <1>1. tunnel # None => tunnel.generation \in Int
    BY BoundsAssumption DEF TypeInv, TypeOK, Tunnels
  <1> QED BY <1>1 DEF StickyInv, ReportsThePast, PassOwnsStatus,
                      BeforeCreation, PassGoesOn

LEMMA CreateKeepsInv ==
  ASSUME TypeInv, StickyInv, CreateTunnel, pc = "idle" PROVE StickyInv'
  <1>1. PICK spec \in Specs :
          WriteTunnel([uid |-> incarnations + 1, generation |-> 1,
                       deleting |-> FALSE, spec |-> spec,
                       status |-> InitStatus])
    BY DEF CreateTunnel
  <1>2. tunnel'.status.observedGeneration = 0 /\ tunnel'.generation = 1
    BY <1>1 DEF WriteTunnel, InitStatus
  <1>3. incarnations' # 0
    BY BoundsAssumption DEF CreateTunnel, TypeInv, TypeOK
  <1>4. pc' = "idle"
    BY DEF CreateTunnel, KeepAllButTunnel, pass
  <1> QED BY <1>2, <1>3, <1>4
          DEF StickyInv, ReportsThePast, PassOwnsStatus, BeforeCreation

LEMMA BeginKeepsInv ==
  ASSUME TypeInv, WakeInv, ~CacheLag, StickyInv, BeginPass
  PROVE  StickyInv'
  <1>1. /\ cachedTunnel = tunnel /\ orig' = tunnel
        /\ UNCHANGED <<tunnel, cachedTunnel, incarnations>>
    BY DEF WakeInv, CacheFollows, BeginPass, StartPass, watches
  <1>2. tunnel \in Tunnels /\ tunnel.generation \in Int
    BY <1>1, BoundsAssumption
    DEF TypeInv, TypeOK, BeginPass, NothingToDo, Tunnels
  <1>3. incarnations # 0
    BY <1>1 DEF StickyInv, BeforeCreation, BeginPass, NothingToDo
  <1> QED BY <1>1, <1>2, <1>3
          DEF StickyInv, ReportsThePast, PassOwnsStatus, BeforeCreation

LEMMA CrashKeepsInv ==
  ASSUME TypeInv, StickyInv, Crash PROVE StickyInv'
  BY DEF StickyInv, ReportsThePast, PassOwnsStatus, BeforeCreation, Crash

(* The patch of a pass reports on the generation the pass has read.         *)
LEMMA PatchReports ==
  ASSUME TypeInv, StickyInv, patchStatus, tunnel' # tunnel
  PROVE  /\ tunnel # None /\ tunnel' = Patched
         /\ tunnel'.generation = tunnel.generation
         /\ tunnel'.status.observedGeneration = orig.generation
         /\ orig.generation <= tunnel.generation
         /\ tunnel.status = orig.status
  <1>1. tunnel # None /\ tunnel' = Patched /\ pc = "patch"
    BY DEF patchStatus, KeepTunnel, WriteTunnel
  <1>2. tunnel \in Tunnels /\ orig \in Tunnels /\ draft \in Statuses
    BY <1>1 DEF TypeInv, TypeOK, PassInv
  <1>3. /\ tunnel.status = orig.status
        /\ orig.generation <= tunnel.generation
    BY <1>1 DEF StickyInv, PassOwnsStatus
  <1>4. /\ tunnel'.generation = tunnel.generation
        /\ tunnel'.status = Merge(orig.status, orig.status, FinalStatus)
    BY <1>1, <1>2, <1>3 DEF Patched, Tunnels
  <1>5. FinalStatus.observedGeneration = orig.generation
    BY <1>2 DEF FinalStatus, Statuses
  <1>6. "observedGeneration" \in DOMAIN orig.status
    BY <1>2 DEF Tunnels, Statuses
  <1>7. tunnel'.status.observedGeneration = orig.generation
    BY <1>4, <1>5, <1>6 DEF Merge
  <1> QED BY <1>1, <1>3, <1>4, <1>7

LEMMA PatchKeepsInv ==
  ASSUME TypeInv, StickyInv, patchStatus PROVE StickyInv'
  <1>1. /\ pc # "idle" /\ pc' = "idle"
        /\ UNCHANGED <<cachedTunnel, incarnations>>
    BY DEF patchStatus, EndPass
  <1>2. CASE tunnel' = tunnel
    BY <1>1, <1>2
    DEF StickyInv, ReportsThePast, PassOwnsStatus, BeforeCreation
  <1>3. CASE tunnel' # tunnel
    BY <1>1, <1>3, PatchReports
    DEF StickyInv, ReportsThePast, PassOwnsStatus, BeforeCreation
  <1> QED BY <1>2, <1>3

LEMMA StepStickyInv ==
  ASSUME ~CacheLag
  PROVE  TypeInv /\ WakeInv /\ StickyInv /\ [Next]_vars
           /\ [CreatedBetweenPasses]_vars => StickyInv'
  <1> SUFFICES ASSUME TypeInv, WakeInv, StickyInv, [Next]_vars,
                      [CreatedBetweenPasses]_vars
               PROVE  StickyInv'
    OBVIOUS
  <1>0. CASE CreateTunnel
    <2>1. incarnations' # incarnations
      BY <1>0, BoundsAssumption DEF CreateTunnel, TypeInv, TypeOK
    <2>2. pc = "idle"
      BY <1>0, <2>1 DEF CreatedBetweenPasses, vars, bounds
    <2> QED BY <1>0, <2>2, CreateKeepsInv
  <1>1. TypeInv'
    BY StepTypeInv
  <1>2. CASE Reconcile
    <2>1. \/ SkipPass \/ GetTunnelFails \/ BeginPass
          \/ ReadSteps \/ DecisionSteps \/ patchStatus
      BY <1>2, Zenon DEF Reconcile, ReadSteps, DecisionSteps
    <2> QED BY <1>1, <2>1, SideKeepsStatus, KeepsStatusKeepsInv, BeginKeepsInv,
               ReadGoesOn, DecisionGoesOn, GoingOnKeepsStatus, PatchKeepsInv
  <1>3. CASE Manager \/ World \/ Users \/ Kubernetes \/ UNCHANGED vars
    BY <1>0, <1>1, <1>3, SideKeepsStatus, KeepsStatusKeepsInv, CrashKeepsInv
    DEF Manager, Users
  <1> QED BY <1>2, <1>3 DEF Next

-----------------------------------------------------------------------------
StickyStep ==
  Failed /\ tunnel' # None /\ tunnel'.uid = tunnel.uid
    => \/ tunnel'.generation # tunnel.generation
       \/ tunnel'.status = tunnel.status

(* A pass that patches works on a tunnel that had not failed when it was    *)
(* read, and nobody else has written the status since.                      *)
LEMMA NoPatchOfFailed ==
  ASSUME TypeInv, WakeInv, StickyInv, patchStatus,
         tunnel # None, Sticky(tunnel)
  PROVE  tunnel' = tunnel
  <1> SUFFICES ASSUME tunnel' # tunnel PROVE FALSE
    OBVIOUS
  <1>1. tunnel.status = orig.status /\ orig.generation <= tunnel.generation
    BY PatchReports
  <1>2. pc = "patch" /\ tunnel # None
    BY DEF patchStatus
  <1>3. /\ ~Sticky(orig) /\ Sticky(tunnel)
        /\ orig.status.observedGeneration <= orig.generation
    BY <1>2 DEF WakeInv, PassIsDue, StickyInv, PassOwnsStatus
  <1>4. /\ orig.generation \in Int /\ tunnel.generation \in Int
        /\ orig.status.observedGeneration \in Int
    BY <1>2, BoundsAssumption
    DEF TypeInv, TypeOK, PassInv, Tunnels, Statuses
  <1> QED BY <1>1, <1>3, <1>4 DEF Sticky

LEMMA StepIsSticky == TypeInv /\ WakeInv /\ StickyInv /\ [Next]_vars => StickyStep
  <1> SUFFICES ASSUME TypeInv, WakeInv, StickyInv, [Next]_vars
               PROVE  StickyStep
    OBVIOUS
  <1>1. CASE KeepsStatus
    BY <1>1 DEF KeepsStatus, StickyStep
  <1>2. CASE tunnel' = tunnel
    BY <1>2 DEF StickyStep
  <1>3. CASE Reconcile
    <2>1. \/ SkipPass \/ GetTunnelFails \/ BeginPass
          \/ ReadSteps \/ DecisionSteps \/ patchStatus
      BY <1>3, Zenon DEF Reconcile, ReadSteps, DecisionSteps
    <2>2. BeginPass => tunnel' = tunnel
      BY DEF BeginPass, StartPass
    <2>3. ReadSteps \/ DecisionSteps => tunnel' = tunnel
      BY ReadGoesOn, DecisionGoesOn DEF PassGoesOn
    <2>4. patchStatus => StickyStep
      BY NoPatchOfFailed DEF StickyStep, Failed, Live
    <2> QED BY <1>1, <1>2, <2>1, <2>2, <2>3, <2>4, SideKeepsStatus
  <1>4. CASE CreateTunnel
    BY <1>4 DEF CreateTunnel, StickyStep, Failed, Live
  <1>5. CASE Crash
    BY <1>2, <1>5 DEF Crash
  <1> QED BY <1>1, <1>3, <1>4, <1>5, SideKeepsStatus DEF Next, Manager, Users

(* The promise of status.phase, "Failed is sticky: it clears only when      *)
(* metadata.generation changes", for every number of edits, faults and      *)
(* crashes: no pass touches the status of a tunnel that has failed.         *)
THEOREM FailureSticks ==
  ASSUME ~CacheLag
  PROVE  Spec /\ [][CreatedBetweenPasses]_vars => StickyFailure
  <1>1. TypeInv /\ WakeInv /\ StickyInv /\ [Next]_vars
          /\ [CreatedBetweenPasses]_vars => StickyInv'
    BY StepStickyInv
  <1>2. TypeInv /\ WakeInv /\ StickyInv /\ [Next]_vars => [StickyStep]_vars
    BY StepIsSticky
  <1>3. Spec /\ [][CreatedBetweenPasses]_vars => [][StickyStep]_vars
    BY <1>1, <1>2, InitTypeInv, StepTypeInv, InitWakeInv, StepWakeInv,
       InitStickyInv, PTL DEF Spec
  <1> QED BY <1>3 DEF StickyFailure, StickyStep

(* The same promise as the doc comment words it, which fails as soon as a   *)
(* pass may read the tunnel too early (run ClaimSticky): under these        *)
(* conditions phase Failed goes only with an edit of the spec.              *)
THEOREM FailedClearsByEdit ==
  ASSUME ~CacheLag
  PROVE  Spec /\ [][CreatedBetweenPasses]_vars => FailedClearsOnlyByEdit
  <1> DEFINE Clears == Failed /\ tunnel' # None /\ tunnel'.uid = tunnel.uid
                         /\ tunnel'.generation = tunnel.generation
                         => tunnel'.status.phase = "Failed"
  <1>1. [StickyStep]_vars => [Clears]_vars
    BY DEF StickyStep, Failed, Sticky
  <1>2. StickyFailure => [][Clears]_vars
    BY <1>1, PTL DEF StickyFailure, StickyStep
  <1>3. Spec /\ [][CreatedBetweenPasses]_vars => [][Clears]_vars
    BY <1>2, FailureSticks, PTL
  <1> QED BY <1>3 DEF FailedClearsOnlyByEdit

(* The condition on the user is met where no tunnel is created twice, as in *)
(* the runs that check these properties.                                    *)
LEMMA OneTunnelIsInTime ==
  ASSUME ~CacheLag, MaxIncarnations = 1
  PROVE  Spec => [][CreatedBetweenPasses]_vars
  <1>1. TypeInv /\ StickyInv => [CreatedBetweenPasses]_vars
    BY DEF TypeInv, TypeOK, StickyInv, BeforeCreation, CreateTunnel,
           CreatedBetweenPasses
  <1>2. TypeInv /\ WakeInv /\ StickyInv /\ [Next]_vars
          /\ [CreatedBetweenPasses]_vars => StickyInv'
    BY StepStickyInv
  <1> QED BY <1>1, <1>2, InitTypeInv, StepTypeInv, InitWakeInv, StepWakeInv,
             InitStickyInv, PTL DEF Spec

-----------------------------------------------------------------------------
(* The safety of TunnelLifecycle: which of its steps a step amounts to.     *)

LEMMA LifeOf ==
  ASSUME TypeInv, tunnel # None
  PROVE  /\ Life = [generation |-> tunnel.generation,
                    observed   |-> tunnel.status.observedGeneration,
                    failed     |-> tunnel.status.phase = "Failed"]
         /\ Life # None
         /\ Life \in [generation : Nat, observed : Nat, failed : BOOLEAN]
         /\ tunnel \in Tunnels
         /\ tunnel.generation \in Nat
         /\ tunnel.status.observedGeneration \in Nat
  <1>1. tunnel \in Tunnels
    BY DEF TypeInv, TypeOK
  <1>2. tunnel.status \in Statuses /\ tunnel.generation \in Nat
    BY <1>1, BoundsAssumption DEF Tunnels
  <1>3. tunnel.status.observedGeneration \in Nat
    BY <1>2, BoundsAssumption DEF Statuses
  <1>4. [generation |-> tunnel.generation,
         observed   |-> tunnel.status.observedGeneration,
         failed     |-> tunnel.status.phase = "Failed"]
          \in [generation : Nat, observed : Nat, failed : BOOLEAN]
    BY <1>2, <1>3
  <1> QED BY <1>1, <1>2, <1>3, <1>4, LifeAssumption DEF Life

(* An update of two fields, named so that SMT need not look into them.      *)
LEMMA ReportedLife ==
  ASSUME NEW before \in [generation : Nat, observed : Nat, failed : BOOLEAN],
         NEW after \in [generation : Nat, observed : Nat, failed : BOOLEAN],
         after.generation = before.generation
  PROVE  after = [before EXCEPT !.observed = after.observed,
                                !.failed = after.failed]
  OBVIOUS

LEMMA SameLife ==
  ASSUME tunnel' = tunnel \/ (/\ tunnel # None /\ tunnel' # None
                              /\ tunnel'.generation = tunnel.generation
                              /\ tunnel'.status = tunnel.status)
  PROVE  UNCHANGED Life
  BY DEF Life

LEMMA CreateIsCreate ==
  ASSUME TypeInv, CreateTunnel PROVE Lifecycle!Create
  <1>1. PICK spec \in Specs :
          WriteTunnel([uid |-> incarnations + 1, generation |-> 1,
                       deleting |-> FALSE, spec |-> spec,
                       status |-> InitStatus])
    BY DEF CreateTunnel
  <1>2. /\ tunnel'.generation = 1
        /\ tunnel'.status.observedGeneration = 0
        /\ tunnel'.status.phase # "Failed"
    BY <1>1 DEF WriteTunnel, InitStatus
  <1>3. tunnel = None
    BY DEF CreateTunnel
  <1>4. tunnel' # None
    <2>1. incarnations + 1 \in 1..MaxIncarnations /\ 1 \in 1..MaxGeneration
      BY BoundsAssumption DEF CreateTunnel, TypeInv, TypeOK
    <2>2. tunnel' \in Tunnels
      BY <1>1, <2>1, InitStatusType DEF WriteTunnel, Tunnels
    <2> QED BY <2>2, NoneAssumption
  <1> QED BY <1>2, <1>3, <1>4 DEF Life, Lifecycle!Create

LEMMA EditIsEdit ==
  ASSUME TypeInv, EditSpec PROVE Lifecycle!Edit
  <1>1. PICK spec \in Specs :
          WriteTunnel([tunnel EXCEPT !.spec = spec, !.generation = @ + 1])
    BY DEF EditSpec
  <1>2. tunnel \in Tunnels /\ tunnel # None
    BY DEF EditSpec, TypeInv, TypeOK
  <1>3. /\ tunnel'.status = tunnel.status
        /\ tunnel'.generation = tunnel.generation + 1
    BY <1>1, <1>2 DEF WriteTunnel, Tunnels
  <1>4. tunnel' # None
    <2>1. tunnel.generation + 1 \in 1..MaxGeneration
      BY <1>2, BoundsAssumption DEF EditSpec, Tunnels
    <2>2. tunnel' \in Tunnels
      BY <1>1, <1>2, <2>1 DEF WriteTunnel, Tunnels
    <2> QED BY <2>2, NoneAssumption
  <1> QED BY <1>2, <1>3, <1>4, LifeOf DEF Life, Lifecycle!Edit

LEMMA DeleteIsDelete ==
  ASSUME TypeInv, TypeInv', DeleteTunnel \/ FinishForegroundDeletion
  PROVE  [Lifecycle!Delete]_Life
  <1>1. tunnel # None /\ Life # None
    BY LifeOf DEF DeleteTunnel, FinishForegroundDeletion
  <1>2. CASE tunnel' = None
    BY <1>1, <1>2 DEF Life, Lifecycle!Delete
  <1>3. CASE tunnel' # None
    <2>1. tunnel' = [tunnel EXCEPT !.deleting = TRUE]
      BY <1>3 DEF DeleteTunnel, FinishForegroundDeletion, WriteTunnel
    <2> QED BY <1>1, <1>3, <2>1, LifeOf, SameLife DEF Tunnels
  <1> QED BY <1>2, <1>3

LEMMA PatchIsReport ==
  ASSUME TypeInv, TypeInv', WakeInv, StickyInv, patchStatus
  PROVE  [Lifecycle!Report]_Life
  <1>1. CASE tunnel' = tunnel
    BY <1>1, SameLife
  <1>2. CASE tunnel' # tunnel
    <2>1. /\ tunnel # None
          /\ tunnel'.generation = tunnel.generation
          /\ tunnel'.status.observedGeneration = orig.generation
          /\ orig.generation <= tunnel.generation
          /\ tunnel.status = orig.status
      BY <1>2, PatchReports
    <2>2. ~Sticky(tunnel)
      BY <1>2, <2>1, NoPatchOfFailed
    <2>3. pc = "patch"
      BY DEF patchStatus
    <2>4. /\ orig.status.observedGeneration <= orig.generation
          /\ orig.generation \in Nat
      BY <2>1, <2>3, BoundsAssumption
      DEF StickyInv, PassOwnsStatus, TypeInv, PassInv, Tunnels
    <2>5. tunnel' # None
      BY <1>2, <2>1, <2>3, PatchReports, PatchedType, NoneAssumption
    <2>6. ~Lifecycle!Settled
      <3> DEFINE failed == tunnel.status.phase = "Failed"
      <3>0. Life = [generation |-> tunnel.generation,
                    observed |-> tunnel.status.observedGeneration,
                    failed |-> failed]
        BY <2>1, LifeOf
      <3> HIDE DEF failed
      <3>1. /\ Life.failed = failed
            /\ Life.observed = tunnel.status.observedGeneration
            /\ Life.generation = tunnel.generation
        BY <3>0
      <3> USE DEF failed
      <3> QED BY <2>2, <3>1 DEF Sticky, Lifecycle!Settled
    <2>7. orig.generation \in Life.observed .. Life.generation
      BY <2>1, <2>4, LifeOf
    <2>8. /\ Life'.observed = orig.generation
          /\ Life'.generation = Life.generation
      BY <2>1, <2>5, LifeOf DEF Life
    <2>9. /\ Life \in [generation : Nat, observed : Nat, failed : BOOLEAN]
          /\ Life' \in [generation : Nat, observed : Nat, failed : BOOLEAN]
      <3>1. Life \in [generation : Nat, observed : Nat, failed : BOOLEAN]
        BY <2>1, LifeOf
      <3>2. tunnel.generation \in Nat /\ orig.generation \in Nat
        BY <2>1, <2>4, LifeOf
      <3>3. Life' = [generation |-> tunnel.generation,
                     observed   |-> orig.generation,
                     failed     |-> tunnel'.status.phase = "Failed"]
        BY <2>1, <2>5 DEF Life
      <3> QED BY <3>1, <3>2, <3>3
    <2>10. Life' = [Life EXCEPT !.observed = Life'.observed,
                                !.failed = Life'.failed]
      BY <2>8, <2>9, ReportedLife
    <2>11. Life'.failed \in BOOLEAN
      BY <2>9
    <2> QED BY <2>1, <2>6, <2>7, <2>8, <2>10, <2>11, LifeOf
            DEF Lifecycle!Report
  <1> QED BY <1>1, <1>2

LEMMA StepLives ==
  TypeInv /\ WakeInv /\ StickyInv /\ [Next]_vars => [Lifecycle!Next]_Life
  <1> SUFFICES ASSUME TypeInv, WakeInv, StickyInv, [Next]_vars
               PROVE  [Lifecycle!Next]_Life
    OBVIOUS
  <1>1. TypeInv'
    BY StepTypeInv
  <1>2. CASE UNCHANGED tunnel
    BY <1>2, SameLife
  <1>3. CASE Reconcile
    <2>1. \/ SkipPass \/ GetTunnelFails \/ BeginPass
          \/ ReadSteps \/ DecisionSteps \/ patchStatus
      BY <1>3, Zenon DEF Reconcile, ReadSteps, DecisionSteps
    <2>2. SkipPass \/ GetTunnelFails \/ BeginPass => tunnel' = tunnel
      BY DEF SkipPass, GetTunnelFails, BeginPass, StartPass
    <2>3. ReadSteps \/ DecisionSteps => tunnel' = tunnel
      BY ReadGoesOn, DecisionGoesOn DEF PassGoesOn
    <2> QED BY <1>1, <1>2, <2>1, <2>2, <2>3, PatchIsReport DEF Lifecycle!Next
  <1>4. CASE Manager
    BY <1>2, <1>4 DEF Manager, SyncTunnel, SyncPod, RequeueAfter, Crash
  <1>5. CASE World
    <2>1. Outside
      BY <1>5, Zenon DEF World, SecretChanges, ServiceChanges, EndpointsChange
    <2> QED BY <1>2, <2>1 DEF Outside
  <1>6. CASE Users
    BY <1>1, <1>6, CreateIsCreate, EditIsEdit, DeleteIsDelete
    DEF Users, Lifecycle!Next
  <1>7. CASE FinishForegroundDeletion
    BY <1>1, <1>7, DeleteIsDelete DEF Lifecycle!Next
  <1>8. CASE Kubernetes /\ ~FinishForegroundDeletion
    <2>1. KeepAllButPod
      BY <1>8, Zenon
      DEF Kubernetes, StartContainer, CrashLoopBackOff, BecomeReady,
          ProbeFails, AgentExits, PodDeleted, Evict, PodGone, CollectPod,
          AgentStep
    <2> QED BY <1>2, <2>1 DEF KeepAllButPod
  <1>9. CASE UNCHANGED vars
    BY <1>2, <1>9 DEF vars
  <1> QED BY <1>3, <1>4, <1>5, <1>6, <1>7, <1>8, <1>9 DEF Next

(* The promises of TunnelLifecycle but for its fairness: the status reports *)
(* on generations in order and never ahead of the spec, and a failure of    *)
(* the current generation is final until an edit, whatever fails, crashes,  *)
(* or gets lost.  That the reports catch up is left to the model checker.   *)
THEOREM StatusFollowsLifecycle ==
  ASSUME ~CacheLag
  PROVE  Spec /\ [][CreatedBetweenPasses]_vars => Lifecycle!Safe
  <1>1. Init => Life = None
    BY DEF Init, Life
  <1>2. TypeInv /\ WakeInv /\ StickyInv /\ [Next]_vars
          /\ [CreatedBetweenPasses]_vars => StickyInv'
    BY StepStickyInv
  <1>3. TypeInv /\ WakeInv /\ StickyInv /\ [Next]_vars
          => [Lifecycle!Next]_Life
    BY StepLives
  <1> QED BY <1>1, <1>2, <1>3, InitTypeInv, StepTypeInv, InitWakeInv,
             StepWakeInv, InitStickyInv, PTL DEF Spec, Lifecycle!Safe
=============================================================================
