-------------------------------- MODULE Agent --------------------------------
(***************************************************************************)
(* The agent (cli/): one container that kubelet starts, probes, signals and *)
(* restarts, the process in it, and the jprq server and the config host it  *)
(* talks to.                                                                *)
(*                                                                          *)
(* The process has several goroutines: main (arguments, configuration,      *)
(* signals), the client (event connection), the health server, and one per  *)
(* announced connection, followed here up to the port it sends, which is    *)
(* what the server finds the connection by (Forwarding has the rest).  Any  *)
(* of them may end the process.                                             *)
(***************************************************************************)
EXTENDS EventStream, Sequences, Classify

CONSTANTS
  Commands,        \* ways the agent is invoked
  Errors,          \* messages the server refuses a tunnel with
  RequestSizes,    \* lengths of an encoded TunnelRequested
  MaxAnnounced,    \* bound on connections announced per run
  MaxDisturbances  \* bound on everything that upsets a serving agent

Ports == 1..MaxAnnounced   \* a port is numbered by its announcement

AllErrors == {"subdomain is busy:", "cname is busy:",
              "tunnels limit reached for", "authentication failed",
              "invalid subdomain", "jprq is now invite-only service", "other"}

ASSUME AgentAssumption ==
  /\ Commands \subseteq {"http", "help", "unknown"}
  /\ Errors \subseteq AllErrors
  /\ MaxAnnounced \in Nat /\ MaxDisturbances \in Nat
  /\ Zero \notin Errors /\ Zero \notin Ports
  /\ RequestSizes \subseteq Nat /\ Width > 1

VARIABLES
  container,    \* what kubelet reports, see Classify
  terminating,  \* kubelet has sent SIGTERM: the pod is being deleted
  probe,        \* a probe's answer on its way to kubelet: "none", "ok", "bad"
  command,      \* os.Args[1], or JPRQ_PROTOCOL
  request,      \* the length of its TunnelRequested, mostly the token's
  exit,         \* the exit code of the process, NoCode while there is none
  main,         \* what the main goroutine does next
  signalled,    \* the buffer of signalChan is full
  client,       \* what Start does next
  health,       \* the health server: "off", "starting", "up", "failed"
  healthy,      \* j.healthy
  event,        \* what Read last left in t, then in event
  handlers,     \* goroutines of handleEvent, one per event: where each is, its port
  server,       \* the server's end of the event connection
  wire,         \* frames on their way from the server
  announced,    \* connections the server announced in this run
  refusal,      \* the error it refused this run with, else None
  granted,      \* it opened a tunnel for this run
  framed,       \* no read of this run has come short
  silent,       \* a host that takes connections and never answers
  disturbances

None == Zero

process == <<main, signalled, client, health, healthy, event, handlers>>
remote  == <<server, wire, announced, refusal, granted, silent>>
kubelet == <<container, terminating, probe, command, request>>
vars    == <<kubelet, exit, process, remote, framed, disturbances>>

NoEvent   == [port |-> Zero, error |-> Zero]
Connected == {"accepted", "asked", "opened"}

Init ==
  /\ container = NoStatus /\ terminating = FALSE /\ probe = "none"
  /\ command \in Commands /\ request \in RequestSizes
  /\ exit = NoCode
  /\ main = "down" /\ signalled = FALSE /\ client = "none"
  /\ health = "off" /\ healthy = FALSE
  /\ event = NoEvent /\ handlers = <<>>
  /\ server = "none" /\ wire = <<>> /\ announced = 0
  /\ refusal = None /\ granted = FALSE /\ framed = TRUE
  /\ silent = "nobody" /\ disturbances = 0

Disturb == disturbances < MaxDisturbances /\ disturbances' = disturbances + 1
Calm    == UNCHANGED disturbances

Alive == main # "down" /\ exit = NoCode

(* os.Exit, or what the Go runtime makes of a signal: all goroutines stop,  *)
(* the kernel closes the connections.                                       *)
End(code) ==
  /\ exit' = code
  /\ server' = IF server \in Connected THEN "closed" ELSE server

Exit(code) ==
  /\ End(code)
  /\ UNCHANGED <<kubelet, process, wire, announced, refusal, granted, silent,
                 framed>>

-----------------------------------------------------------------------------
(* main.                                                                    *)

Main(at) == Alive /\ main = at

MainOnly ==
  UNCHANGED <<kubelet, exit, signalled, health, healthy, event,
              handlers, remote, framed>>

Arguments ==
  /\ Main("arguments") /\ Calm
  /\ \/ command = "http" /\ main' = "load"
        /\ UNCHANGED client /\ MainOnly
     \/ command = "help" /\ Exit(ExitOK)
     \/ command = "unknown" /\ Exit(ExitUnexpected)

(* The token's file, then the config host, without a timeout.               *)
Load ==
  /\ Main("load") /\ silent # "config host"
  /\ \/ main' = "start" /\ Calm /\ UNCHANGED client /\ MainOnly
     \/ Disturb /\ Exit(ExitConfigFailure)

GoStart ==
  /\ Main("start") /\ main' = "notify" /\ client' = "health"
  /\ Calm /\ MainOnly

(* signal.Notify; a while later main starts to wait on the channel.         *)
Notify ==
  /\ \/ Main("notify") /\ main' = "receive"
     \/ Main("receive") /\ main' = "await"
  /\ Calm /\ UNCHANGED client /\ MainOnly

AwaitSignal ==
  /\ Main("await") /\ signalled
  /\ Calm /\ Exit(ExitOK)

-----------------------------------------------------------------------------
(* Start.                                                                   *)

Client(at) == Alive /\ client = at

ClientOnly ==
  UNCHANGED <<kubelet, exit, main, signalled, handlers, announced,
              refusal, granted, silent>>

GoServeHealth ==
  /\ Client("health") /\ client' = "dial" /\ health' = "starting"
  /\ Calm /\ ClientOnly
  /\ UNCHANGED <<healthy, event, server, wire, framed>>

Dial ==
  /\ Client("dial")
  /\ \/ /\ client' = "request" /\ server' = "accepted" /\ Calm /\ ClientOnly
        /\ UNCHANGED <<health, healthy, event, wire, framed>>
     \/ Disturb /\ Exit(ExitEventServerUnreachable)

(* Mutant of RequestTunnel: a failed write ends the goroutine only.         *)
RequestOrReturn ==
  /\ Client("request") /\ Calm
  /\ client' = IF server = "accepted" THEN "open" ELSE "none"
  /\ server' = IF server = "accepted" /\ Decodes(Frame(NoEvent, request))
               THEN "asked" ELSE "closed"
  /\ UNCHANGED <<health, healthy, event, wire, framed>>
  /\ ClientOnly

(* A request too long for its length field is none to the server.           *)
RequestTunnel ==
  /\ Client("request") /\ Calm
  /\ \/ /\ server = "accepted" /\ client' = "open"
        /\ server' = IF Decodes(Frame(NoEvent, request)) THEN "asked"
                                                         ELSE "closed"
        /\ UNCHANGED <<health, healthy, event, wire, framed>>
        /\ ClientOnly
     \/ server = "closed" /\ Exit(ExitEventServerUnreachable)

(* Read, into event.  A read that comes short leaves nobody knows what in   *)
(* event and the rest of the frame for the next one: from there on anything *)
(* may be read, or nothing that gob accepts.                                *)
Garbage == [port : Ports \cup {Zero}, error : Errors \cup {Zero}]

Read(into) ==
  /\ wire # <<>>
  /\ \/ /\ framed /\ Decodes(Head(wire))
        /\ event' = decode(into, Head(wire))
        /\ wire' = Tail(wire) /\ UNCHANGED framed /\ Calm
     \/ /\ framed /\ Disturb /\ framed' = FALSE
        /\ event' \in Garbage /\ UNCHANGED wire
     \/ /\ ~framed /\ UNCHANGED framed /\ Calm
        /\ event' \in Garbage /\ wire' = Tail(wire)

Unreadable ==
  \/ /\ Calm
     /\ \/ wire = <<>> /\ server = "closed"
        \/ wire # <<>> /\ (framed => ~Decodes(Head(wire)))
  \/ wire # <<>> /\ framed /\ Disturb

(* Mutant of ReceiveAnswer: any answer will do to be healthy.               *)
ReceiveAnyAnswer ==
  /\ Client("open")
  /\ \/ /\ Read(NoEvent) /\ client' = "check" /\ healthy' = TRUE
        /\ ClientOnly /\ UNCHANGED <<health, server>>
     \/ Unreadable /\ Exit(ExitEventServerUnreachable)

ReceiveAnswer ==
  /\ Client("open")
  /\ \/ /\ Read(NoEvent) /\ client' = "check" /\ ClientOnly
        /\ UNCHANGED <<health, healthy, server>>
     \/ Unreadable /\ Exit(ExitEventServerUnreachable)

(* Mutant of exitCodeForServerError: an unknown refusal is taken for the    *)
(* most common one.                                                         *)
exitCodeByDefault(message) ==
  CASE message = "cname is busy:"                  -> ExitCNAMEBusy
    [] message = "tunnels limit reached for"       -> ExitAccountTunnelLimit
    [] message = "authentication failed"           -> ExitAuthFailed
    [] message = "invalid subdomain"               -> ExitInvalidSubdomain
    [] message = "jprq is now invite-only service" -> ExitNotAllowlisted
    [] OTHER                                       -> ExitSubdomainBusy

exitCodeForServerError(message) ==
  CASE message = "subdomain is busy:"              -> ExitSubdomainBusy
    [] message = "cname is busy:"                  -> ExitCNAMEBusy
    [] message = "tunnels limit reached for"       -> ExitAccountTunnelLimit
    [] message = "authentication failed"           -> ExitAuthFailed
    [] message = "invalid subdomain"               -> ExitInvalidSubdomain
    [] message = "jprq is now invite-only service" -> ExitNotAllowlisted
    [] OTHER                                       -> ExitUnexpected

CheckAnswer ==
  /\ Client("check") /\ Calm
  /\ \/ /\ event.error = Zero
        /\ client' = "loop" /\ healthy' = TRUE /\ event' = NoEvent
        /\ UNCHANGED <<health, server, wire, framed>> /\ ClientOnly
     \/ event.error # Zero /\ Exit(exitCodeForServerError(event.error))

(* The event loop.  handleEvent is given a copy of the event.               *)
NextConnection ==
  /\ Client("loop")
  /\ Read(event)
  /\ handlers' = Append(handlers, [at |-> "dial", port |-> event'.port])
  /\ UNCHANGED <<kubelet, exit, main, signalled, client, health, healthy,
                 server, announced, refusal, granted, silent>>

(* Mutants of LoseStream: the code of a stream that never was; only a log   *)
(* line.                                                                    *)
LoseStreamAsDial ==
  /\ Client("loop") /\ Unreadable
  /\ Exit(ExitEventServerUnreachable)

LoseStreamQuietly ==
  /\ Client("loop") /\ Unreadable /\ client' = "none"
  /\ ClientOnly /\ UNCHANGED <<health, healthy, event, server, wire, framed>>

LoseStream ==
  /\ Client("loop") /\ Unreadable
  /\ Exit(ExitEventStreamDropped)

-----------------------------------------------------------------------------
(* handleEvent and the health server.                                       *)

HandlerOnly ==
  /\ Calm
  /\ UNCHANGED <<kubelet, exit, main, signalled, client, health, healthy,
                 event, remote, framed>>

(* Neither dial has a bearing on anything but this connection.              *)
DialBoth(n) ==
  /\ Alive /\ handlers[n].at = "dial"
  /\ \E next \in {"send", "gone"} :
        handlers' = [handlers EXCEPT ![n].at = next]
  /\ HandlerOnly

(* Mutant of SendPort: the goroutine was given the event, not a copy.       *)
SendSharedPort(n) ==
  /\ Alive /\ handlers[n].at = "send"
  /\ handlers' = [handlers EXCEPT ![n] = [at |-> "sent", port |-> event.port]]
  /\ HandlerOnly

SendPort(n) ==
  /\ Alive /\ handlers[n].at = "send"
  /\ handlers' = [handlers EXCEPT ![n].at = "sent"]
  /\ HandlerOnly

(* ListenAndServe: a failure is logged and no more.                         *)
serveHealth ==
  /\ Alive /\ health = "starting"
  /\ \/ health' = "up" /\ Calm
     \/ health' = "failed" /\ Disturb
  /\ UNCHANGED <<kubelet, exit, main, signalled, client, healthy, event,
                 handlers, remote, framed>>

-----------------------------------------------------------------------------
(* The jprq server and the config host.                                     *)

ServerOnly ==
  UNCHANGED <<kubelet, exit, process, framed, silent>>

Send(e) == wire' = Append(wire, Frame(e, 1))

Grant ==
  /\ server = "asked" /\ silent # "event server"
  /\ server' = "opened" /\ granted' = TRUE /\ Send(NoEvent)
  /\ Calm /\ UNCHANGED <<announced, refusal>> /\ ServerOnly

Refuse ==
  /\ server = "asked" /\ Disturb
  /\ \E error \in Errors :
        refusal' = error /\ Send([NoEvent EXCEPT !.error = error])
  /\ server' = "closed" /\ UNCHANGED <<announced, granted>> /\ ServerOnly

(* The ports of clients connected at the same time differ; which they are   *)
(* does not matter.                                                         *)
Announce ==
  /\ server = "opened" /\ announced < MaxAnnounced
  /\ announced' = announced + 1
  /\ Send([NoEvent EXCEPT !.port = announced'])
  /\ Calm /\ UNCHANGED <<server, refusal, granted>> /\ ServerOnly

Drop ==
  /\ server \in Connected /\ Disturb
  /\ server' = "closed"
  /\ UNCHANGED <<wire, announced, refusal, granted>> /\ ServerOnly

(* A host goes on taking connections and never answers again.               *)
FallSilent ==
  /\ silent = "nobody" /\ Disturb
  /\ silent' \in {"config host", "event server"}
  /\ UNCHANGED <<kubelet, exit, process, server, wire, announced, refusal,
                 granted, framed>>

-----------------------------------------------------------------------------
(* Kubelet.                                                                 *)

StartContainer ==
  /\ container.state \in {"unknown", "terminated", "waiting"}
  /\ ~terminating
  /\ container' =
       [state |-> "running", code |-> NoCode,
        last |-> IF container.state = "terminated" THEN container.code
                                                   ELSE container.last]
  /\ probe' = "none" /\ exit' = NoCode
  /\ main' = "arguments" /\ signalled' = FALSE /\ client' = "none"
  /\ health' = "off" /\ healthy' = FALSE
  /\ event' = NoEvent /\ handlers' = <<>>
  /\ server' = "none" /\ wire' = <<>> /\ announced' = 0
  /\ refusal' = None /\ granted' = FALSE /\ framed' = TRUE
  /\ Calm /\ UNCHANGED <<terminating, command, request, silent>>

KubeletOnly == UNCHANGED <<command, request, process, remote, framed>>

ContainerDied ==
  /\ container.state \in {"running", "ready", "unready"} /\ exit # NoCode
  /\ container' = [container EXCEPT !.state = "terminated", !.code = exit]
  /\ Calm /\ UNCHANGED <<terminating, probe, exit>> /\ KubeletOnly

CrashLoopBackOff ==
  /\ container.state = "terminated" /\ ~terminating
  /\ container' = [state |-> "waiting", code |-> NoCode,
                   last |-> container.code]
  /\ Calm /\ UNCHANGED <<terminating, probe, exit>> /\ KubeletOnly

(* /healthz answers; a probe may also time out.                             *)
Probe ==
  /\ container.state \in {"running", "ready", "unready"} /\ probe = "none"
  /\ \/ Calm /\ probe' = IF Alive /\ health = "up" /\ healthy THEN "ok"
                                                              ELSE "bad"
     \/ Disturb /\ probe' = "bad"
  /\ UNCHANGED <<container, terminating, exit>> /\ KubeletOnly

(* Kubelet uses the answer later; the process may be gone by then.          *)
UseProbe ==
  /\ container.state \in {"running", "ready", "unready"} /\ probe # "none"
  /\ container' =
       [container EXCEPT !.state = IF probe = "ok" THEN "ready"
                                   ELSE IF @ = "ready" THEN "unready" ELSE @]
  /\ probe' = "none"
  /\ Calm /\ UNCHANGED <<terminating, exit>> /\ KubeletOnly

(* SIGTERM kills what has not asked to be told of it (Go's runtime then     *)
(* exits with 2, as process 1 of a container); else it goes to signalChan,  *)
(* which holds one signal until main receives it.                           *)
SignalDeath == 2

SendSigterm ==
  /\ ~terminating /\ terminating' = TRUE
  /\ Calm
  /\ UNCHANGED <<container, probe, command, request, main, client, health,
                 healthy, event, handlers, wire, announced, refusal, granted,
                 silent, framed>>

(* Mutant of Terminate: the channel has no buffer.                          *)
TerminateUnbuffered ==
  /\ SendSigterm
  /\ \/ ~Alive /\ UNCHANGED <<exit, server, signalled>>
     \/ /\ Alive /\ main \in {"receive", "await"}
        /\ signalled' = (main = "await") /\ UNCHANGED <<exit, server>>
     \/ /\ Alive /\ main \notin {"receive", "await"}
        /\ End(SignalDeath) /\ UNCHANGED signalled

Terminate ==
  /\ SendSigterm
  /\ \/ ~Alive /\ UNCHANGED <<exit, server, signalled>>
     \/ /\ Alive /\ main \in {"receive", "await"}
        /\ signalled' = TRUE /\ UNCHANGED <<exit, server>>
     \/ /\ Alive /\ main \notin {"receive", "await"}
        /\ End(SignalDeath) /\ UNCHANGED signalled

(* Out of memory: SIGKILL.                                                  *)
OOMKilled == Alive /\ Disturb /\ Exit(137)

Goroutines ==
  \/ Arguments \/ Load \/ GoStart \/ Notify \/ AwaitSignal
  \/ GoServeHealth \/ Dial \/ RequestTunnel \/ ReceiveAnswer \/ CheckAnswer
  \/ NextConnection \/ LoseStream \/ serveHealth
  \/ \E n \in DOMAIN handlers : DialBoth(n) \/ SendPort(n)

Hosts == Grant \/ Refuse \/ Announce \/ Drop \/ FallSilent

Kubelet == StartContainer \/ ContainerDied \/ CrashLoopBackOff \/ Probe
             \/ UseProbe \/ Terminate \/ OOMKilled

Next == Goroutines \/ Hosts \/ Kubelet

Spec == Init /\ [][Next]_vars

MainGoroutine   == Arguments \/ Load \/ GoStart \/ Notify \/ AwaitSignal
ClientGoroutine == GoServeHealth \/ Dial \/ RequestTunnel \/ ReceiveAnswer
                     \/ CheckAnswer \/ NextConnection \/ LoseStream

(* The Go scheduler runs every goroutine that can go on; a server that is   *)
(* not silent answers; kubelet probes, notices exits and restarts.  Nothing *)
(* has to go wrong, and nobody has to delete the pod.                       *)
Fairness ==
  /\ WF_vars(MainGoroutine) /\ WF_vars(ClientGoroutine)
  /\ WF_vars(serveHealth)
  /\ WF_vars(Grant)
  /\ WF_vars(StartContainer) /\ WF_vars(ContainerDied)
  /\ WF_vars(Probe) /\ WF_vars(UseProbe)

FairSpec == Spec /\ Fairness

-----------------------------------------------------------------------------
(* Properties.                                                              *)

AgentTypeOK ==
  /\ container \in [state : ContainerStates, code : Nat \cup {NoCode},
                    last : Nat \cup {NoCode}]
  /\ terminating \in BOOLEAN /\ probe \in {"none", "ok", "bad"}
  /\ command \in Commands /\ request \in RequestSizes /\ exit \in Nat \cup {NoCode}
  /\ main \in {"down", "arguments", "load", "start", "notify", "receive", "await"}
  /\ signalled \in BOOLEAN
  /\ client \in {"none", "health", "dial", "request", "open", "check", "loop"}
  /\ health \in {"off", "starting", "up", "failed"} /\ healthy \in BOOLEAN
  /\ event \in Garbage
  /\ handlers \in Seq([at : {"dial", "send", "sent", "gone"},
                      port : Ports \cup {Zero}])
  /\ server \in {"none", "closed"} \cup Connected
  /\ wire \in Seq({Frame(e, 1) : e \in Garbage})
  /\ announced \in 0..MaxAnnounced /\ refusal \in Errors \cup {None}
  /\ granted \in BOOLEAN /\ framed \in BOOLEAN
  /\ silent \in {"nobody", "config host", "event server"}
  /\ disturbances \in 0..MaxDisturbances

(* "readiness means 'tunnel established', not 'process alive'" (DESIGN.md   *)
(* 7.3): as long as no read has come short, kubelet does not report an      *)
(* agent ready, nor once ready, that has not been given a tunnel since it   *)
(* was started, however late it uses the answer of a probe.                 *)
ReadyMeansOpened ==
  framed /\ container.state \in {"ready", "unready"} => granted

(* The exit code carries the server's verdict, and only that (DESIGN.md     *)
(* 7.2): what the controller makes of the code is what the server said to   *)
(* this run of the agent, and no trouble with network or configuration, nor *)
(* a message the contract does not know, is taken for a verdict.            *)
SaidBy ==
  [AuthFailed                |-> "authentication failed",
   NotAllowlisted            |-> "jprq is now invite-only service",
   AccountTunnelLimitReached |-> "tunnels limit reached for",
   SubdomainBusy             |-> "subdomain is busy:",
   InvalidSubdomain          |-> "invalid subdomain",
   CNAMEBusy                 |-> "cname is busy:"]

VerdictsAreTheServers ==
  LET verdict == classifyExit(exit, "fail")
  IN framed /\ verdict.terminal => refusal = SaidBy[verdict.reason]

(* The server finds the connection an agent makes for a client by the port  *)
(* it sends first: the n-th announced connection gets the n-th announced    *)
(* port, whatever events the loop has read into the same variable since.    *)
ServedAsAnnounced ==
  framed =>
    \A n \in DOMAIN handlers :
      handlers[n].at = "sent" =>
        n <= announced /\ handlers[n].port = n

(* What kubelet sees of an agent is what the controller's model takes agent *)
(* containers to do; in particular an agent that was ready never exits with *)
(* a verdict.  Codes unknown to the contract count as ExitUnexpected, as in *)
(* classifyExit.                                                            *)
Seen(code) ==
  IF code = NoCode \/ code \in AllExitCodes THEN code ELSE ExitUnexpected

Reported ==
  [state |-> container.state,
   code  |-> Seen(container.code),
   last  |-> Seen(container.last)]

Container == INSTANCE AgentContainer WITH container <- Reported

ImplementsContainer == Container!Spec

(* SIGTERM ends the agent wherever it is, waiting for a silent host         *)
(* included (DESIGN.md 7.5); no kill has to help.                           *)
SigtermEndsAgent == terminating ~> ~Alive

(* A tunnel whose event connection is gone is given up: the agent exits, so *)
(* that kubelet can start it again (DESIGN.md F2), and does not stay ready  *)
(* with nothing behind it.                                                  *)
LostStreamEndsAgent ==
  Alive /\ client = "loop" /\ server = "closed" ~> ~Alive

(* Restarts are the reconnect (pod.go): whatever ends the agent, it comes   *)
(* back and is ready again.  What it does not come back from: its pod's     *)
(* deletion, a host that never answers (nothing times out), a health server *)
(* that could not listen (nothing retries or exits), and a request that is  *)
(* too long or arguments that are wrong every time.                         *)
Stuck ==
  \/ terminating
  \/ silent # "nobody"
  \/ health = "failed"
  \/ command \in {"help", "unknown"}
  \/ ~Decodes(Frame(NoEvent, request))

ComesBack == <>[](Stuck \/ container.state = "ready")
==============================================================================
