# Verification of jprq-bek

jprq-bek is a Kubernetes operator. A user writes a `JprqTunnel`; the operator
runs one agent pod for it (the jprq client of `cli/`), the agent asks the jprq
server for a public subdomain and forwards its traffic to a Service. The
operator learns what became of the agent from its exit code and its readiness,
and tells the user through the tunnel's status.

This directory holds TLA+ modules translated from the source, TLC
configurations that check them, and TLAPS proofs. References such as
`jprqtunnel_controller.go:540` are lines of `src/internal/controller/`.

## 1. Inventory

| Part | State it keeps | Operations | Talks to |
|---|---|---|---|
| Reconciler (`jprqtunnel_controller.go`, `pod.go`) | none between passes; within one: tunnel as read, working copy, pod as read, token, port | `Reconcile`: sticky check, four reads, one decision (create, delete, judge, report), `patchStatus` | API server, informer caches, resolver |
| Exit-code contract (`cli/jprq/exitcodes.go`, `classify.go`) | none | `classifyExit`, `classifyPod`, `agentStatus` | kubelet's container status |
| API type (`jprqtunnel_types.go`, CRD) | spec, generation, status (phase, observedGeneration, conditions, lastExitCode, url, ...) | user edits; status patches | users, reconciler |
| Watches and workqueue (`SetupWithManager`, `requestsByIndex`) | informer caches, queued key, delayed key | events, index lookups, back-off, `RequeueAfter` | API server, reconciler |
| Manager (`cmd/main.go`) | `--agent-image`, leader lease | start, crash, restart | all of the above |
| Domain resolver (`jprqconfig/resolver.go`) | cached domain under a mutex | `Domain` with fetch and timeout | config host |
| Agent process (`cli/main.go`, `jprqc.go`, `config.go`) | `healthy`, event connection | load config, dial, request, open, serve, exit, SIGTERM | jprq server, kubelet's probes |
| Event framing (`cli/jprq/events.go`) | bytes of a stream | `Read`, `Write` | agent, jprq server |
| Connection forwarding (`cli/jprq/bind.go`, `handleEvent`) | two connections | two copy loops | backend, jprq server |
| HTTP debugger (`cli/debugger/`) | maps of listeners and connections, without a lock | run, connection, dispatch, events | browser |
| jprq server | tunnels, quota, holders of names | grants, refusals | external |

What each has to get right, and what makes that hard:

* **Reconciler.** A terminal failure is remembered, explained and stops its
  agent; a tunnel that is not failed is never forgotten; the settled status is
  about the current spec; a tunnel that can work ends up working. Hard: every
  call may fail or take effect without an answer, the world moves between any
  two of them, passes read lagging caches, the manager may die anywhere, and
  the status patch is a merge without a resourceVersion.
* **Exit codes.** A verdict is about an exit of *this* agent with *this*
  configuration. Hard: `LastTerminationState` outlives what it describes.
* **Watches.** Every change that matters leads to a pass. Hard: index lookups
  fail, events coalesce, the slow requeue is the only net.
* **Manager, GC.** No agent outlives its tunnel although there is no finalizer;
  a restart with another image replaces the agents.
* **Domain resolver.** Callers share one fetch; a failing host must not hold up
  the tunnels. Hard: the mutex is held for up to ten seconds.
* **Agent.** One exit code per cause; ready only with a tunnel; leaves cleanly
  on SIGTERM. Hard: the client's goroutine, the health server and the signal
  handler run concurrently, and `os.Exit` may come from any of them.
* **Framing, forwarding, debugger.** Bytes arrive in order, once, and both
  directions end. Hard: short reads, 16-bit lengths, half-closed connections,
  goroutines sending to listeners that are gone.

`PROJECT.json` lists each hazard at its line.

## 2. Modules

```
Classify            exit codes, container status, verdicts       (operators)

control plane
  TunnelController  reconciler + Kubernetes around one tunnel
    TunnelLifecycle         abstract: what a tunnel promises; implemented by it
    TunnelClaims            what the repository says and the code does not keep
      MCTunnelController    instances for TLC
    TunnelControllerProofs  types, the agent's contract    \
      WakeupProofs          no lost wake-up, settled state  |
        StickyProofs        sticky failures, lifecycle      | TLAPS
          StatusProofs      phase and condition agree       |
            FailureProofs   failures explained and stopped /
                            (the last three also use TunnelClaims)
  DomainResolver    several passes around one mutex and one cached domain
    MCDomainResolver, ResolverProofs

data plane
  EventStream       framing of the event connection              (operators)
    Agent           the agent's goroutines, jprq server, kubelet
      AgentContainer        abstract: the container TunnelController assumes;
                            implemented by Agent, and used by
                            TunnelController for its pods
      MCAgent, AgentProofs
  Forwarding        one forwarded connection: two copy loops, two peers
    ByteStream              abstract: what one direction promises;
                            implemented, twice, by Forwarding
    Debugger        parsers, listeners and page; composed with a connection
      MCDebugger, ForwardingProofs
```

Control and data plane meet in the container: `TunnelController` lets the agent's
container start, get ready, lose its readiness and exit as `AgentContainer` says
(`BecomeReady`, `ProbeFails`, `AgentExits`, ...), and `Agent`, translated from
`cli/`, is shown to do nothing else. Both sides of this contract are proved, see 4.

### TunnelController

One tunnel name, one worker: tunnels share no state in the controller (but the
resolver's cache, see `DomainResolver` below), and the workqueue never runs two
passes for one key at a time.

| Variables | Code |
|---|---|
| `tunnel`, `pod` | the objects on the API server; `None` when there is none |
| `cachedTunnel`, `cachedPod`, `tunnelEvent`, `podEvent` | the informers: what `r.Get` returns, and whether an event is on its way |
| `secrets`, `services`, `endpoints` | what `checkToken`, `resolveServicePort`, `hasReadyEndpoint` find |
| `queued`, `timer` | the workqueue: key ready; key delayed by a back-off or a `RequeueAfter` |
| `pc`, `orig`, `draft`, `existing`, `token`, `port`, `outcome` | locals of `Reconcile` and `reconcile`: `original`, the working copy's status, the pod, both gates, the returned result |
| `image`, `domainKnown` | `AgentImage`, `Resolver.cached` |
| `incarnations`, `disturbances` | the bounds used up |

A pass takes one step per API call, and the branches of `reconcile` after the
reads are one action each:

| Actions | Code |
|---|---|
| `SkipPass`, `GetTunnelFails`, `BeginPass` | `Reconcile` up to `r.reconcile` |
| `ReadPod`, `checkToken`, `resolveServicePort`, `hasReadyEndpoint`, `ReadFails` | the reads, and their error returns |
| `WaitForTermination`, `CreatePod`, `DeleteOutdated` | a pod on its way out, missing, or with another spec hash |
| `ApplyRetryable`, `ApplyTerminal` | `classifyPod` and `applyVerdict` |
| `GateFails`, `ReportNotReady`, `ReportActive` | the remaining returns |
| `patchStatus` | the merge patch, and what `Reconcile` returns to the queue |
| `SyncTunnel`, `SyncPod`, `RequeueAfter`, `Crash`, `*Changes` | watches, delayed keys, the manager's restart, watches on what the tunnel refers to |
| `CreateTunnel`, `EditSpec`, `DeleteTunnel` | users (external) |
| `StartContainer` ... `Evict`, `PodGone`, `CollectPod`, `FinishForegroundDeletion` | kubelet, agent, garbage collector (external) |

Abstractions. The spec hash is the record of what it covers, so two pods have
the same hash exactly when these agree. A condition is its reason, and where the
code gives two verdicts one reason (`SubdomainBusy`, retried or final) so does the
model; an exit code keeps its number. The merge patch (`Merge`) replaces the fields that differ from
what the pass read, conditions as one list, which is what a JSON merge patch of
this status does. A failing call may have taken effect or not (`Lost`). An
informer that is behind catches up in one event. Of the inputs of the Secret
the name and key pair is one value.

Left out: `restartCount`, `lastFailureMessage`, times and the text of messages,
Kubernetes events (nothing decides on them; the price is that a patch differing
*only* in one of these is no step of the model); admission; leader election
(one manager at a time).

### TunnelLifecycle

The abstract specification: an edit is a new generation, reports are about
generations in order and catch up with every edit, a failure of the current
generation is final until an edit. `TunnelController` implements it under the
mapping `Life` (generation, observedGeneration, phase = Failed).

### DomainResolver

`TunnelController` has one tunnel and so nobody who waits for `Resolver.mu`. Here
several workers reconcile several tunnels. (`SetupWithManager` leaves
`MaxConcurrentReconciles` at its default of one; the mutex is there for more, and
with one worker the module's states are a subset of those checked.)

| Variables | Code (`resolver.go`, `jprqtunnel_controller.go`) |
|---|---|
| `queue`, `pc`, `at`, `spec`, `found` | the workqueue and the locals of each pass |
| `mu`, `cached`, `Override` | the fields of `Resolver` |
| `subdomain`, `pod`, `url` | of each tunnel: spec, pod, status.url |
| `host`, `domain`, `process`, `changes` | config host, its answer, the manager's process, the bound |

`StartPass`, `ConvergePod` (the pod comes first and its pass ends there), `Lock`,
`CheckCache`, `FetchSucceeds`, `FetchFails` (every error return of `fetch`, and
its deadline), `OverrideDomain`, `ReportActive` (`reconcile` from the call of
`Domain` to the end); `Edit`, `HostChanges`, `Restart` from outside. Of the
convergence of a pod only its order before the domain is kept.

### EventStream, Agent, AgentContainer

`EventStream` has the two facts about framing that can go wrong: the length field
is 16 bits wide (`Frame`, `Decodes`), and gob leaves zero fields out of a message
and alone in the struct it decodes into (`decode`).

`Agent` is one container: the process and all that acts on it.

| Actions | Code |
|---|---|
| `Arguments`, `Load`, `GoStart`, `Notify`, `AwaitSignal` | `main`, `openTunnel` (`cli/main.go`), `Config.Load` (`config.go`) |
| `GoServeHealth`, `Dial`, `RequestTunnel`, `ReceiveAnswer`, `CheckAnswer`, `NextConnection`, `LoseStream` | `Start` (`jprqc.go`) |
| `DialBoth`, `SendPort` | `handleEvent` up to the port, then `Forwarding` |
| `serveHealth`, `Probe`, `UseProbe` | the health server and kubelet's probe of it |
| `Grant`, `Refuse`, `Announce`, `Drop`, `FallSilent` | jprq server and config host (external) |
| `StartContainer`, `ContainerDied`, `CrashLoopBackOff`, `Terminate`, `OOMKilled` | kubelet (external) |

Every goroutine takes one step per call that another goroutine, a signal or a peer
can come between. `Exit` is `os.Exit`: it stops all of them. SIGTERM before
`signal.Notify` kills the process (`Terminate`), after it waits in the channel's
buffer. A short read (`conn.Read` may return fewer bytes than asked for) makes
everything the stream says after it arbitrary (`Garbage`), for which reason
`framed` appears in the properties. Abstractions: a port is the number of its
announcement, an error message is the prefix `exitCodeForServerError` looks for,
an encoding is as long as it takes to fit the length field or not.

### Forwarding, Debugger

A connection from the moment both ends are dialed. `Read`, `Write`, `Tap`, `Close`
are the body of `Bind` (`bind.go`) with *every* way `Read` and `Write` may end:
EOF, the deadline of a second, a connection the other loop has closed, a reset.
Peers `Send`, `ShutDown` their sending half, `ClosePeer`, `Reset`. A chunk is what
one `Read` returns; chunks are numbered, so that order, loss and repetition show.

`ByteStream` is what a user of the tunnel may expect of either direction: chunks
are offered, delivered one by one in the order offered, and at some moment the
stream is cut, for good. `Forwarding` implements it in both directions, with
`Offered` the chunks the source has sent and `Severed` the moment the agent has
closed the destination or the destination has gone. It says more than `InOrder`,
which only looks at what has arrived: nothing arrives once the stream is cut, and
nothing that has arrived changes.

`Debugger` adds `Parse` (`parser.go`: one message through a `bufio.Reader` of its
own, which may swallow more than the message) and what becomes of a message:

| Actions | Code (`server.go`, `script.js`) |
|---|---|
| `RangeOn`, `GoSend`, `EndRange` | `dispatchEvent`: the range comes to an entry of the map; `go`; the end |
| `Join`, `DeleteListener`, `CloseEvents` | `eventHandler`: registration, and its deferred calls |
| `Receive`, `SendPanics` | a sender's event arrives; or its channel is closed |
| `handleEvent`, `handleResponse` | the page |

`dispatchEvent` has no lock: between any two of its steps pages come and go. `left`
is what its range has still to come to. An entry deleted meanwhile is not come to
any more, one made meanwhile is or is not (Go's rules for a range over a map), and
the entry the range is at gets its goroutine whatever has become of it. A map
written while it is ranged over or while another handler writes it, and a send on a
closed channel, end the process (`panicked`); the former is a choice, as the
runtime may notice or not. One message is one chunk; a chunk after `http` is not
HTTP (an upgrade) and stops its parser. `Capacity` gives each pipe a capacity of its
own in messages: a buffer of 256 KiB holds many small messages and a part of a
large one. `received` remembers for the properties what a page was given.

## 3. Runs

| Run | Question | Result |
|---|---|---|
| `Controller` | With up-to-date reads, failing patches, crashes, edits, token and port changes and agent exits in any order: are types, failures, phases and the settled status right? | holds, 2.8 million states |
| `Wakeups` | With lagging caches and *every* kind of fault: is a tunnel ever forgotten, does a pod show what no container does? | holds, 2.5 million states |
| `Recovery` | After any one fault or disturbance and an edit: does the tunnel converge, do orphans go, is `TunnelLifecycle` implemented? | holds, 0.5 million states |
| `Resolver` | With a config host that refuses or is silent, edits and restarts: do pods come, do URLs agree and converge? | holds, 0.4 million states |
| `Agent` | With goroutines, server, kubelet and signals in any order: is readiness, is the exit code true, does the agent end and come back? | holds, 0.5 million states |
| `Forwarding` | With ends that half-close, close, crash or are slow, with and without debugger: does all arrive, in order, is each direction a stream, does the connection end, does the page pair right and miss nothing? | holds, 0.85 million states |
| `Claim...` (six) | A sentence of the repository each | violated, see 5 |

Properties, each aimed at what several steps or actors must do wrong together:

* `NoLostWakeup`: a live tunnel without a *recorded* terminal failure has its
  key queued, delayed, on its way as an event, or in a pass.
* `StickyFailure` (step): nothing in the status of a failed tunnel changes until
  it is edited. A pass under way when the failure was written would break it.
* `FailureIsExplained`: the recorded failure is the verdict of the recorded exit
  code under the *current* `subdomainCollisionBehavior`.
* `FailureStopsAgent`: a failed tunnel has no running pod. It holds here, where
  patches fail and managers crash; `ClaimStopped` shows which fault breaks it.
* `PhaseIsDerived`: phase, Ready condition and exit code agree, whichever passes
  wrote them. Active goes with `TunnelActive`; a status that says Failed, or whose
  Ready names a verdict, has an exit code that earns this reason with this phase:
  with `SubdomainBusy`, Failed where the verdict is final and Degraded where it is
  retried.
* `SettledPodIsCurrent`: when nothing is queued or on its way, open gates mean an
  up-to-date pod *before* any slow requeue.
* `SettledStatusIsHonest`: then the status is about the current spec, pod, token
  and backend, Active means exactly that a current agent is ready, and
  `backendAddress` and `url` of an active tunnel are those of the agent that runs
  (an agent keeps the address it was started with while the Service's port moves).
* `Converges`, `OrphansAreCollected`, `ImplementsLifecycle`: liveness and
  refinement.
* `AgentsAreContainers` (step): a pod enters with a container that has done nothing,
  and its history then changes only as `AgentContainer` says. Everything a verdict
  is drawn from hangs on it; a retried Create that replaced the pod it finds, for
  one, would wipe a termination that no pass has judged.
* `UrlsAgree`: all URLs one process wrote have one domain, although workers race
  for the cache and the host changes its answer (with the one worker the manager
  starts, what is left of this is a cache that is written once). `PodsAreMade`: a silent config
  host never keeps a pod from being made, not even through the mutex.
  `UrlsConverge`: stale URLs are put right once the host answers.
* `ReadyMeansOpened`: no agent is reported ready without a tunnel of this run,
  however late kubelet uses the answer to a probe. `VerdictsAreTheServers`: a code
  the controller treats as terminal was said by the server to this run.
  `ServedAsAnnounced`: the n-th announced connection is served under the n-th port,
  although all events are decoded into one variable that goroutines are given.
* `SigtermEndsAgent`, `LostStreamEndsAgent`, `ComesBack`: the agent ends when it
  must and is ready again otherwise; `ImplementsContainer`: refinement.
* `InOrder`, `WholeResponse`: the loops copy without gap or repetition and do not
  cut a response short for a client that waits. `ImplementsStreams`: refinement of
  `ByteStream` in both directions. `EndTogether`: in the end no connection is half
  dead. `EveryChunkArrives`: nothing stalls, the debugger included. Both except a
  loop that waits for the pipe of a stopped parser (`Held`), the way the code has to
  wait for ever.
* `PairedRight`, `ExchangesAreShown`: the page puts request and response together,
  whichever event arrives first and however many messages wait in a pipe. After a
  parser has swallowed a message (`swallowed`) the numbers of the rest are off and
  `PairedRight` says nothing: that is what the code does.
* `PageHasNoGaps`: from the first message a watching page was told of, it has been
  sent every later one of that direction whose dispatch is over. A range that goes
  on while pages come and go must not pass over one that was there, and a slow page
  must not cost it an event.

### Bounds

*Controller runs.* `MaxGeneration = 2` allows an edit during any pass over the
first generation; an edit to a third is the same situation with other numbers,
since the code compares generations only with the one observed. `Wakeups` has one
generation: a wake-up is lost or not by what a pass and its calls do, and lagging
caches and all faults fill the state space as it is; the theorem covers the rest.
`MaxDisturbances` bounds agent exits, world changes, deletions and faults
together: two in `Controller`, so that a fault can follow an exit or a token
rotation; one in `Wakeups` and `Recovery`, which enable all twelve and all but one
of the faults. `MaxIncarnations = 1`: a merge patch meant for a deleted tunnel can
land on its successor, which breaks `FailureIsExplained` already with two (section
4, `CreatedBetweenPasses`); re-creation is covered by the proofs. Two tokens, two ports make their change
possible; the other sets have one member each, as the code compares their values
only through the spec hash. Exit codes: one retryable (1) and one terminal, 10
where the behavior matters and 13 where the token condition does. Tokens, ports
and images are symmetric; only `Controller`, which checks no liveness, uses that.

*`Resolver`.* Two workers, tunnels, subdomains and domains: one to hold the mutex
and one to wait, one to fill the cache and one to find it filled. `MaxChanges = 2`:
an edit or restart, and a change of the host. Deadlock is checked: passes repeat.

*`Agent`.* `MaxAnnounced = 2`, so that an event is decoded over an earlier one;
`MaxDisturbances = 1` per container history, all kinds of it, across restarts;
`Width = 2` and `RequestSizes = {1, 2}`, a request that fits and one that does
not; one message that is a verdict and one unknown to the contract (the table as a
whole is in the proof).

*`Forwarding`.* Two chunks per direction, the least that can be out of order. The
request pipe holds one message and the response pipe two (`Pipes`): the one fills
and makes its loop wait, in the other two messages wait, to be parsed in turn or
swallowed. One trouble; one visit of the page, which comes or goes at any point of
either range and may be told of the second message only. One page never races
another, so that two handlers that write the map at once are in the model and not
in this run; the proofs are for any number of pages. A parser that stops leaves at
most one chunk behind it, for which its pipe has room: no loop is held for good in
this run, for which three chunks would be needed.

Deadlock is not checked where the system rightly stops: a failed tunnel, a deleted
pod, a closed connection.

### Fairness

`TunnelController`: `FairSpec` assumes weak fairness of the pass and of queue,
informers and delayed keys (controller-runtime promises each: at-least-once
delivery to the cache, `AddAfter`, rate-limited retries); of kubelet starting
containers of the pods that are to run (`restartPolicy: Always` in `pod.go`) and
removing deleted pods; of the garbage collector; and of `BecomeReady`: an agent
that does *not* exit gets its tunnel and its probe. Exits, edits, world changes
and faults are not fair: nothing has to happen to help. `ApplyRetryable`, back-off
and the agent's next try need no fairness of their own: they are steps of the pass
or of kubelet.

`Agent` shows what the fairness of `BecomeReady` stands on: `ComesBack` holds with
the goroutines (Go's scheduler), a server that is not silent (`Grant`), kubelet's
start, probe and notice of an exit being weakly fair, and names the exceptions,
each a way the code has to wait for ever or fail every time: the pod's deletion, a
host that accepts and never answers (no dial, read or fetch of the agent has a
timeout), a health server that could not listen, arguments or a request that are
wrong each time.

`Debugger`: goroutines and a page that watches are weakly fair; client, backend and
browser need do nothing. `DomainResolver`: passes are weakly fair, `Lock` strongly
(`sync.Mutex` hands itself to a waiter of more than a millisecond), `StartPass`
strongly (the queue is first in, first out); nothing is assumed of the config host
but in `UrlsConverge`, which says so.

## 4. Proofs

All theorems hold for every value of the constants under the `ASSUME`s of the
modules (bounds are naturals, exit codes naturals, the failure values are not
tokens or ports, `None` and `Zero` are none of the values they stand in for). TLC
evaluates these assumptions in every run.

### Control plane

* `TypeCorrect`: `Spec => []TypeOK`. Not inductive: the reason that `GateFails`
  copies from a gate's condition into Ready is a legal one only because of what
  the earlier reads of the same pass left there. `PassInv` says what each value
  of `pc` guarantees about the locals; one lemma per action.
* `WakeupsAreKept`: `Spec => []NoLostWakeup`, for any faults and any cache lag.
  `WakeInv` adds: a cache without a pending event is up to date (`CacheFollows`);
  a pass works on a tunnel that has not failed, and one whose outcome is `done`
  carries phase Failed in its draft (`PassIsDue`), so that either its patch
  records the failure or the failing patch is retried; and a tunnel refreshed
  under a pass has its key queued (`RefreshQueues`), so that a patch computed for
  a generation that is no longer current is followed by another pass. All steps
  but the start and end of a pass, the tunnel's event and the crash are *side
  steps* or let the pass *go on*, handled by one lemma each.
* `AgentsKeepContract`: `Spec => AgentsAreContainers`, for exit codes the contract has
  (`AllExitCodes`) and any faults, lag and number of re-creations: the pod of a pass
  that creates, deletes, loses the answer to either, or meets AlreadyExists keeps
  the history its container has. `ContractIsAdmitted` is the converse, for one step:
  whatever `AgentContainer` lets the container of a pod do that is neither evicted
  nor being deleted (within the bound on disturbances) is a step of `Kubernetes`,
  provided `ExitCodes` has all codes of the contract. The container of an
  evicted pod has ended for good; that of a pod being deleted is not judged. Together with `AgentImplementsContainer` below this makes of the two planes one
  argument: an agent of `cli/` does only what the contract allows, the controller's
  surroundings contain all of that, and so the theorems about the reconciler hold
  for the real agent and not for an obliging stand-in.
* `FailureSticks`: `Spec /\ [][CreatedBetweenPasses]_vars => StickyFailure` if tunnels
  are read up to date (`~CacheLag`). `CreatedBetweenPasses` is a condition on the
  user: a tunnel may be deleted and created again any number of times, but the new
  one does not come while a pass over the old one is under way. `StickyInv`: a
  report is never ahead of the generation it is about (`ReportsThePast`); while a
  pass is under way the server's status is still the one it read, since it is the
  only writer (`PassOwnsStatus`). A patch therefore never meets a failed tunnel it
  did not read as such, and a pass never starts from one.
  `OneTunnelIsInTime` shows that with one incarnation, as in the runs, the condition
  always holds.
* `FailedClearsByEdit`: under the same conditions `Spec => FailedClearsOnlyByEdit`, the
  sentence of the API's comment that `ClaimSticky` refutes when a pass reads the
  tunnel too early.

  Both conditions are needed. Without up-to-date reads `ClaimSticky` refutes these
  properties. Without `CreatedBetweenPasses` TLC, given `Controller` with
  `MaxIncarnations = 2`, refutes `FailureIsExplained`: a pass over a deleted tunnel
  with behavior `fail` patches Failed, for a busy subdomain, onto its successor with
  behavior `retry`; with `CreatedBetweenPasses` as an action constraint it finds all
  properties of `Controller` true (4.0 million states).
* `StatusFollowsLifecycle`: `Spec /\ [][CreatedBetweenPasses]_vars => Lifecycle!Safe`
  with up-to-date reads, the refinement of `TunnelLifecycle` but for its fairness:
  every step of the detailed model is a Create, an Edit, a Delete, a Report or nothing to the life of the
  tunnel. Only the patch needs an invariant: `StickyInv` says that it reports on a
  generation between the last one reported on and the current one, and that it
  never meets a failure of the current generation.
* `SettledAgentIsCurrent`, `SettledStatusTellsTheTruth`: `Spec =>
  []SettledPodIsCurrent` and `[]SettledStatusIsHonest` whenever index lookups
  do not fail (`NoEventIsLost`), with any lag of the caches, any other fault, and
  any number of re-creations: more than the run `Controller` has. `SettledInv`
  follows what the pass knows. As long as nothing is about to queue the key
  (`Quiet`), the pod, the token, the Service and the endpoints are what the pass
  has read of them (`PodIsRead`, `TokenIsRead`, `ServiceIsRead`, `BackendIsRead`);
  so the decision is right for them (`DecisionStands`), a decision that wrote the
  pod has ended the quiet (`WritesAreNews`), and a patch that changed the status
  has too; what is left is a pass that found everything as the status says
  (`SettledStands`). Every step of anybody else either is an event for this key or
  touches nothing the pass has looked at (`Unseen`): this is where a lost event
  would hurt, and why there is a requeue.
* `PhaseAgrees`: `[]PhaseIsDerived` under the conditions of `FailureSticks`, whatever
  calls fail. `DerivedInv` says it of the server's status and of the pass's copy at
  every moment: reads leave phase, Ready and exit code alone; a verdict sets all
  three and what it sets is earned (`Earned`), another decision sets phase and Ready
  to what is no verdict, an error sets nothing; and since the pass is the only
  writer (`PassOwnsStatus`), the merge patch installs the copy as a whole
  (`PatchInstalls`).
* `FailuresAreExplained`, `FailuresStopAgents`: `[]FailureIsExplained` and
  `[]FailureStopsAgent` under the conditions of `FailureSticks` and `CallsSucceed`:
  reads, Create and Delete do not fail; patches may, with or without effect, and
  the manager may crash anywhere. `FailureInv` says both of the server's status and of a draft
  about to be patched. It rests on `SameSpec` (a generation has one spec, so the
  behavior a verdict was given under is the one of the generation it is
  recorded for) and `PodFollows` (a pass that saw no pod finds none when it
  creates one, so Create never answers AlreadyExists). No part of `CallsSucceed` can be
  dropped: with any one of its six calls allowed to fail and the other faults
  off, TLC refutes one of the two (`ClaimRetry` and `ClaimStopped` show how).
  `RetryGoesOn`: then also `Spec => []RetryIsNeverTerminal`, the sentence `ClaimRetry`
  refutes, since a failure over a busy name is no verdict under `retry`.

* `UrlsAlwaysAgree`, `ResolverTypeCorrect`: `ResolverInv` says that check and fetch
  happen under the mutex and the fetch with an empty cache (`Guarded`), so the
  cache is filled once per process; what a pass was given and every URL of this
  process is that domain (`FoundIsBase`, `WrittenIsBase`). `CacheIsWriteOnce` says the
  first of this of every step, and so why `TunnelController` may keep one bit of the
  cache, `domainKnown`.

### Data plane

* `AgentTypeCorrect`, `ReadyIsOpened`, `VerdictsAreSaid`: `AgentInv` follows the
  server's answer. Nothing is on the wire before the server has granted or refused
  (`Early`); every frame, the event the client looks at, `healthy` and the exit
  code say what it said (`Answers`); readiness comes after `healthy`, and a client
  that has come this far exits with no verdict (`Served`). `TablesAgree` puts the
  agent's table of messages and the controller's table of codes side by side.
* `PortsAreAnnounced`: `Spec => []ServedAsAnnounced`. `Numbered`: handlers are
  numbered by their ports, and the wire goes on where they end, behind the answer
  if that is still unread; a port that is not zero is what `decode` leaves in the
  event, whatever was there before.
* `AgentImplementsContainer`: every step maps to one of `AgentContainer` or a
  stutter, from `AgentInv`.
* `ChunksInOrder`, `ResponsesAreWhole`: `ForwardInv` says, of one direction, that up
  to a reset what is written is what was read, but for the chunk in hand
  (`Ordered`); and, of both, who ends first (`Finished`): while client and backend
  are well, the request loop ends only after the response loop, and that one only
  at the end of what the backend sends.
* `PagesPair`: `Spec => []PairedRight`. `DebugInv` relates what a parser has counted,
  what its pipe holds and the chunk in hand to what the loop has read (`Counted`);
  as long as nothing is swallowed the i-th message that waits is the i-th after
  those counted, a message has the number of its chunk on either side, and ranges,
  senders and page only pass it on.
* `DebuggerTypeCorrect`: `Spec => []DebuggerTypeOK`, which bounds every number in the
  debugger by what was read and every pipe by its capacity. Not inductive: a parser
  counts no further than what the loop has read only because what it has counted,
  what waits in its pipe and the chunk the loop is about to tap are all different
  (`Accounted`); the rest are the bounds themselves (`Limits`).
* `PagesHaveNoGaps`: `Spec => []PageHasNoGaps`, for any number of pages. `GapInv`
  says of a range under way that a watching page which was told of any message of
  that direction is one the range still comes to, or has been told of this message
  too (`Catching`); of a page not yet there that it knows nothing and no range comes
  to it (`Unseen`), so that one which joins starts without a gap; and that no page
  knows a message not yet counted (`Older`). A range that ends has nobody left to
  come to, and the message it was about joins the gapless ones.
* `ConnectionsAreStreams`: `Spec => ImplementsStreams`. Every step is, for either
  direction, an offer, a delivery, the cut, or nothing (`Streams`). Only `Write`
  needs the invariant: the chunk in hand is the next one (`Ordered`).

### Only model-checked

Liveness and the part of `ImplementsLifecycle` that says that reports catch up:
fairness and ENABLED are out of the prover's reach. Every invariant and every step
property of a passing run is stated by a theorem. Two claims that runs refute,
`JudgedByItsOwnAgent` and `WorkingTunnelIsNotFailed`, have no theorem: their
counterexamples need no fault that could be assumed away.

## 5. What the code does not keep

Each of these runs checks one sentence of the repository and fails; `findings` in
`PROJECT.json` quotes it.

1. `ClaimRetry`. `patchStatus` stamps `observedGeneration` also when `reconcile`
   gave up on an error. A tunnel failed over a busy name is edited to `retry`; one
   read fails in the first pass; Failed now counts for the new generation, is
   sticky, and the edit is never acted upon.
2. `ClaimJudged`. Whose agent a pod is, is not looked at before it is judged. An
   outdated pod is replaced first only if both gates pass: an edit that points at
   a Secret or backend not ready yet is failed by the exit of the previous
   configuration's agent. With `MaxGeneration = 1`, `MaxIncarnations = 2`,
   `MaxDisturbances = 2` and one backend the same claim fails for a tunnel that was
   deleted and created again: the pod is found by name, and it is its predecessor's.
3. `ClaimProbe`. A serving agent that was restarted after a busy name and misses
   one readiness probe is judged by the old termination, and deleted.
4. `ClaimStopped`. If the Delete of the failed pod fails, the status is Failed
   and sticky all the same; nothing deletes the pod any more.
5. `ClaimSticky`. A pass woken by that deletion reads the tunnel as it was before
   the failure and overwrites Failed.
6. `ClaimEviction`. An evicted pod stays in phase Failed and is neither gone nor
   outdated nor restarted: the tunnel stays Degraded for good.

Two more differences from DESIGN.md show in the models and have no run of their
own. A SIGTERM before `signal.Notify` ends the agent with 2, not with the 0 of
DESIGN.md 7.5 (`Terminate`; harmless, as only a pod on its way out gets one). And
"status.url stays empty" until a fetch succeeds (DESIGN.md 9.2) is true of a new
tunnel only: after a restart with the config host unreachable, the URL of the
earlier process stays (`DomainResolver`, `ReportActive`), even one an edit of the
subdomain has made wrong; `UrlsConverge` says that it is put right.

## 6. Not modelled

* The agent's laptop commands `auth` and `serve`: the agent's pod uses `http` only.
* The jprq server: not in the repository. `Agent` has what the agent hears of it;
  its quota and its one holder per subdomain stay outside, so nothing here says
  which of two tunnels that want one name gets it.
* `WriteError`, rendering and static content of the debugger, bodies, statuses and
  interim responses of HTTP.
* Several connections at once. They share the listeners, the page, and the map of
  connections, which their goroutines write without a lock: another way for the
  process to end. A connection is named by the client's port, so that one from a
  port used before repeats the ids of the earlier one on the page.
* Admission (patterns, CEL rules, `cname`, `addSuffix`): specs range over admitted
  values. `restartCount`, `lastFailureMessage`, Kubernetes events, times.
* Flags, TLS, metrics, leader election: one manager runs at a time.
* Generated code, manifests, style sheets, test helpers: no state of their own that
  a check could reach.

## 7. Plan

1. **Several tunnels and the server's names**: two `TunnelController`s and an
   external holder per subdomain; no two Active tunnels with one name; the old
   agent releases its name before its successor needs it; what a tunnel created
   under its predecessor's pass inherits (`CreatedBetweenPasses` fails).
2. **Debugger**: two connections at once, with the unlocked map they share and ids
   that repeat; interim responses.
