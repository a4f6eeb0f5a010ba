----------------------------- MODULE AgentProofs -----------------------------
(***************************************************************************)
(* What the controller may believe of an agent, for any errors, commands,   *)
(* lengths, and any number of announced connections and disturbances:       *)
(* ready means that a tunnel was opened, a terminal exit code means that    *)
(* the server said so, and the container does only what TunnelController    *)
(* takes containers to do.                                                  *)
(*                                                                          *)
(* The argument follows the server's answer: no frame is on the wire before *)
(* the server has opened or refused the tunnel (Early), every frame then    *)
(* says which (Answers), event says the same when the client looks at it,   *)
(* and healthy or the exit code repeat it.  Readiness comes after healthy   *)
(* (Served), and a client that has come this far only exits with codes that *)
(* are no verdicts.                                                         *)
(***************************************************************************)
EXTENDS Agent, TLAPS

Answer(frame) == decode(NoEvent, frame).error

Early ==
  /\ client \in {"none", "health", "dial"} => server = "none"
  /\ server \in {"none", "accepted", "asked"} =>
       /\ wire = <<>> /\ refusal = None
       /\ client \notin {"check", "loop"}
  /\ server \in {"accepted", "asked"} => exit = NoCode

Says(error) ==
  IF error = Zero THEN granted ELSE error = refusal

Verdict == classifyExit(exit, "fail")

Answers ==
  framed =>
    /\ \A i \in DOMAIN wire : Says(Answer(wire[i]))
    /\ server = "opened" => granted
    /\ client = "check" => Says(event.error)
    /\ healthy => granted
    /\ Verdict.terminal => refusal = SaidBy[Verdict.reason]

(* Exits of an agent that has served: SIGTERM with and without Notify, a    *)
(* lost stream, SIGKILL.                                                    *)
ServedExits == {ExitOK, SignalDeath, ExitEventStreamDropped, 137}

Served ==
  /\ client # "none" => main \in {"notify", "receive", "await"}
  /\ healthy => client = "loop"
  /\ probe = "ok" => healthy
  /\ container.state \in {"ready", "unready"} => healthy
  /\ healthy /\ exit # NoCode => exit \in ServedExits

-----------------------------------------------------------------------------
(* The type invariant in parts, of which a step disturbs few.               *)

Frames == {Frame(e, 1) : e \in Garbage}
Codes  == Nat \cup {NoCode}

KubeletTypes ==
  /\ container \in [state : ContainerStates, code : Codes, last : Codes]
  /\ terminating \in BOOLEAN /\ probe \in {"none", "ok", "bad"}
  /\ command \in Commands /\ request \in RequestSizes

ProcessTypes ==
  /\ exit \in Codes
  /\ main \in {"down", "arguments", "load", "start", "notify", "receive", "await"}
  /\ signalled \in BOOLEAN
  /\ client \in {"none", "health", "dial", "request", "open", "check", "loop"}
  /\ health \in {"off", "starting", "up", "failed"} /\ healthy \in BOOLEAN

HandlerTypes ==
  handlers \in Seq([at : {"dial", "send", "sent", "gone"},
                    port : Ports \cup {Zero}])

StreamTypes == event \in Garbage /\ wire \in Seq(Frames)

HostTypes ==
  /\ server \in {"none", "closed", "accepted", "asked", "opened"}
  /\ announced \in 0..MaxAnnounced /\ refusal \in Errors \cup {None}
  /\ granted \in BOOLEAN /\ framed \in BOOLEAN
  /\ silent \in {"nobody", "config host", "event server"}

Bounded == disturbances \in 0..MaxDisturbances

Types == /\ KubeletTypes /\ ProcessTypes /\ HandlerTypes
         /\ StreamTypes /\ HostTypes /\ Bounded

AgentInv == Types /\ Early /\ Answers /\ Served

LEMMA TypesInParts == Types <=> AgentTypeOK
<1>1. server \in {"none", "closed"} \cup Connected
        <=> server \in {"none", "closed", "accepted", "asked", "opened"}
  BY DEF Connected
<1> QED BY <1>1, Zenon
        DEF AgentTypeOK, Types, KubeletTypes, ProcessTypes, HandlerTypes,
            StreamTypes, HostTypes, Bounded, Codes, Frames

-----------------------------------------------------------------------------
(* Frames and codes.                                                        *)

(* A frame made of an event decodes to that event's error, into a fresh     *)
(* event, and to an event in any case.                                      *)
LEMMA AnswerOfFrame ==
  ASSUME NEW e \in Garbage
  PROVE  Answer(Frame(e, 1)) = e.error
BY DEF Answer, decode, Frame, Garbage, NoEvent

LEMMA DecodedIsEvent ==
  ASSUME NEW into \in Garbage, NEW frame \in Frames
  PROVE  decode(into, frame) \in Garbage
<1>1. PICK e \in Garbage : frame = Frame(e, 1)
  BY DEF Frames
<1> DEFINE d == decode(into, frame)
<1>2. d = [f \in {"port", "error"} |-> d[f]]
  BY DEF decode, Garbage
<1>3. d.port \in Ports \cup {Zero} /\ d.error \in Errors \cup {Zero}
  BY <1>1 DEF decode, Frame, Garbage
<1> QED BY <1>2, <1>3 DEF Garbage

LEMMA NoEventIsEvent == NoEvent \in Garbage
  BY DEF NoEvent, Garbage

(* Codes that are no verdicts.                                              *)
Plain == {NoCode, ExitOK, ExitUnexpected, SignalDeath, ExitConfigFailure,
          ExitEventServerUnreachable, ExitEventStreamDropped, 137}

Contract == {"subdomain is busy:", "cname is busy:",
             "tunnels limit reached for", "authentication failed",
             "invalid subdomain", "jprq is now invite-only service"}

LEMMA CodeNumbers ==
  /\ ExitOK = 0 /\ ExitUnexpected = 1 /\ ExitSubdomainBusy = 10
  /\ ExitCNAMEBusy = 11 /\ ExitAccountTunnelLimit = 12
  /\ ExitAuthFailed = 13 /\ ExitInvalidSubdomain = 14
  /\ ExitNotAllowlisted = 15 /\ ExitConfigFailure = 20
  /\ ExitEventServerUnreachable = 21 /\ ExitEventStreamDropped = 22
  /\ SignalDeath = 2 /\ NoCode = -1
BY DEF ExitOK, ExitUnexpected, ExitSubdomainBusy, ExitCNAMEBusy,
       ExitAccountTunnelLimit, ExitAuthFailed, ExitInvalidSubdomain,
       ExitNotAllowlisted, ExitConfigFailure, ExitEventServerUnreachable,
       ExitEventStreamDropped, SignalDeath, NoCode

LEMMA PlainIsRetryable ==
  ASSUME NEW code \in Plain
  PROVE  ~classifyExit(code, "fail").terminal /\ code \in Nat \cup {NoCode}
<1>1. classifyExit(code, "fail") = Retryable("AgentExited")
  BY CodeNumbers DEF Plain, classifyExit
<1> QED BY <1>1, CodeNumbers DEF Plain, Retryable

(* The agent's table of messages and the controller's table of codes agree. *)
Agrees(message) ==
  LET code    == exitCodeForServerError(message)
      verdict == classifyExit(code, "fail")
  IN /\ code \in Nat
     /\ verdict.terminal => message = SaidBy[verdict.reason]

LEMMA AgreesByReason ==
  ASSUME NEW message, NEW code \in Nat, NEW reason,
         exitCodeForServerError(message) = code,
         classifyExit(code, "fail").reason = reason,
         SaidBy[reason] = message
  PROVE  Agrees(message)
BY DEF Agrees

LEMMA TablesAgree == \A message : Agrees(message)
<1> SUFFICES ASSUME NEW message PROVE Agrees(message)
  OBVIOUS
<1>1. CASE message = "subdomain is busy:"
  <2>1. exitCodeForServerError(message) = ExitSubdomainBusy
    BY <1>1 DEF exitCodeForServerError
  <2>2. classifyExit(ExitSubdomainBusy, "fail").reason = "SubdomainBusy"
    BY CodeNumbers DEF classifyExit, Terminal
  <2>3. SaidBy["SubdomainBusy"] = message
    BY <1>1 DEF SaidBy
  <2> QED BY <2>1, <2>2, <2>3, AgreesByReason, CodeNumbers
<1>2. CASE message = "cname is busy:"
  <2>1. exitCodeForServerError(message) = ExitCNAMEBusy
    BY <1>2 DEF exitCodeForServerError
  <2>2. classifyExit(ExitCNAMEBusy, "fail").reason = "CNAMEBusy"
    BY CodeNumbers DEF classifyExit, Terminal
  <2>3. SaidBy["CNAMEBusy"] = message
    BY <1>2 DEF SaidBy
  <2> QED BY <2>1, <2>2, <2>3, AgreesByReason, CodeNumbers
<1>3. CASE message = "tunnels limit reached for"
  <2>1. exitCodeForServerError(message) = ExitAccountTunnelLimit
    BY <1>3 DEF exitCodeForServerError
  <2>2. classifyExit(ExitAccountTunnelLimit, "fail").reason = "AccountTunnelLimitReached"
    BY CodeNumbers DEF classifyExit, Terminal
  <2>3. SaidBy["AccountTunnelLimitReached"] = message
    BY <1>3 DEF SaidBy
  <2> QED BY <2>1, <2>2, <2>3, AgreesByReason, CodeNumbers
<1>4. CASE message = "authentication failed"
  <2>1. exitCodeForServerError(message) = ExitAuthFailed
    BY <1>4 DEF exitCodeForServerError
  <2>2. classifyExit(ExitAuthFailed, "fail").reason = "AuthFailed"
    BY CodeNumbers DEF classifyExit, BadToken, Terminal
  <2>3. SaidBy["AuthFailed"] = message
    BY <1>4 DEF SaidBy
  <2> QED BY <2>1, <2>2, <2>3, AgreesByReason, CodeNumbers
<1>5. CASE message = "invalid subdomain"
  <2>1. exitCodeForServerError(message) = ExitInvalidSubdomain
    BY <1>5 DEF exitCodeForServerError
  <2>2. classifyExit(ExitInvalidSubdomain, "fail").reason = "InvalidSubdomain"
    BY CodeNumbers DEF classifyExit, Terminal
  <2>3. SaidBy["InvalidSubdomain"] = message
    BY <1>5 DEF SaidBy
  <2> QED BY <2>1, <2>2, <2>3, AgreesByReason, CodeNumbers
<1>6. CASE message = "jprq is now invite-only service"
  <2>1. exitCodeForServerError(message) = ExitNotAllowlisted
    BY <1>6 DEF exitCodeForServerError
  <2>2. classifyExit(ExitNotAllowlisted, "fail").reason = "NotAllowlisted"
    BY CodeNumbers DEF classifyExit, BadToken, Terminal
  <2>3. SaidBy["NotAllowlisted"] = message
    BY <1>6 DEF SaidBy
  <2> QED BY <2>1, <2>2, <2>3, AgreesByReason, CodeNumbers
<1>7. CASE message \notin Contract
  <2>1. exitCodeForServerError(message) = ExitUnexpected
    BY <1>7 DEF exitCodeForServerError, Contract
  <2>2. ~classifyExit(ExitUnexpected, "fail").terminal
    BY PlainIsRetryable DEF Plain
  <2> QED BY <2>1, <2>2, CodeNumbers DEF Agrees
<1> QED BY <1>1, <1>2, <1>3, <1>4, <1>5, <1>6, <1>7 DEF Contract

LEMMA InitAgent == Init => AgentInv
<1> SUFFICES ASSUME Init PROVE AgentInv
  OBVIOUS
<1> USE DEF Init
<1>1. KubeletTypes /\ ProcessTypes
  BY DEF KubeletTypes, ProcessTypes, NoStatus, ContainerStates, Codes
<1>2. HandlerTypes /\ StreamTypes
  BY NoEventIsEvent DEF HandlerTypes, StreamTypes
<1>3. HostTypes /\ Bounded
  <2>1. MaxAnnounced \in Nat /\ MaxDisturbances \in Nat
    BY AgentAssumption
  <2>2. announced \in 0..MaxAnnounced /\ Bounded
    BY <2>1 DEF Bounded
  <2>3. refusal \in Errors \cup {None}
    OBVIOUS
  <2> QED BY <2>2, <2>3, Zenon DEF HostTypes
<1>4. Early /\ Served
  BY DEF Early, Served, NoStatus
<1>5. ~Verdict.terminal
  BY PlainIsRetryable DEF Verdict, Plain
<1>6. Answers
  BY <1>5 DEF Answers
<1> QED BY <1>1, <1>2, <1>3, <1>4, <1>6 DEF AgentInv, Types
-----------------------------------------------------------------------------
(* Steps that end the process.                                              *)

LEMMA DisturbBound ==
  ASSUME Bounded, Disturb \/ Calm
  PROVE  Bounded'
<1>1. MaxDisturbances \in Nat
  BY AgentAssumption
<1> QED BY <1>1 DEF Bounded, Disturb, Calm

(* What an exit may say, given what the server said.                        *)
MaySay(code) ==
  /\ code \in Nat
  /\ framed /\ classifyExit(code, "fail").terminal
       => refusal = SaidBy[classifyExit(code, "fail").reason]
  /\ healthy => code \in ServedExits

LEMMA ExitKeeps ==
  ASSUME AgentInv, NEW code, MaySay(code), Exit(code), Disturb \/ Calm
  PROVE  AgentInv'
<1> USE DEF AgentInv, Exit, End, kubelet, process
<1>1. Types'
  <2>1. KubeletTypes' /\ ProcessTypes'
    BY DEF Types, KubeletTypes, ProcessTypes, MaySay, Codes
  <2>2. HandlerTypes' /\ StreamTypes'
    BY DEF Types, HandlerTypes, StreamTypes
  <2>3. HostTypes'
    BY DEF Types, HostTypes
  <2> QED BY <2>1, <2>2, <2>3, DisturbBound DEF Types
<1>2. Early'
  BY DEF Early, Connected, Types, HostTypes
<1>3. Answers'
  BY DEF Answers, Says, Answer, Verdict, MaySay, Connected
<1>4. Served'
  BY DEF Served, MaySay
<1> QED BY <1>1, <1>2, <1>3, <1>4

(* Nothing an agent exits with before it serves is a verdict, but for what  *)
(* the server said.                                                         *)
LEMMA PlainExitKeeps ==
  ASSUME AgentInv, NEW code \in Plain \ {NoCode},
         healthy => code \in ServedExits,
         Exit(code), Disturb \/ Calm
  PROVE  AgentInv'
<1>1. MaySay(code)
  BY PlainIsRetryable, CodeNumbers DEF MaySay, Plain
<1> QED BY <1>1, ExitKeeps

-----------------------------------------------------------------------------
(* main.                                                                    *)

LEMMA MainKeeps ==
  ASSUME AgentInv, MainGoroutine
  PROVE  AgentInv'
<1> USE DEF AgentInv
<1>1. CASE /\ UNCHANGED <<kubelet, exit, signalled, health, healthy, event,
                           handlers, remote, framed, disturbances>>
           /\ \/ UNCHANGED client /\ main' = "load"
              \/ UNCHANGED client /\ main = "load" /\ main' = "start"
              \/ client' = "health" /\ main = "start" /\ main' = "notify"
              \/ UNCHANGED client /\ main' \in {"receive", "await"}
           /\ main \in {"arguments", "load", "start", "notify", "receive"}
           /\ main' = "load" => main = "arguments"
  <2> USE <1>1 DEF kubelet, remote
  <2>1. Types'
    <3>1. KubeletTypes' /\ HandlerTypes' /\ StreamTypes' /\ HostTypes' /\ Bounded'
      BY DEF Types, KubeletTypes, HandlerTypes, StreamTypes, HostTypes, Bounded
    <3>2. ProcessTypes'
      BY DEF Types, ProcessTypes
    <3> QED BY <3>1, <3>2 DEF Types
  <2>2. Early'
    BY DEF Early, Served
  <2>3. Answers'
    BY DEF Answers, Says, Answer, Verdict
  <2>4. Served'
    BY DEF Served
  <2> QED BY <2>1, <2>2, <2>3, <2>4
<1>2. CASE Arguments
  <2>1. CASE command = "http" /\ main' = "load" /\ UNCHANGED client /\ MainOnly
    BY <1>1, <1>2, <2>1 DEF Arguments, Main, MainOnly, Calm
  <2>2. CASE Exit(ExitOK) \/ Exit(ExitUnexpected)
    <3>1. ~healthy
      BY <1>2 DEF Arguments, Main, Served
    <3> QED BY <1>2, <2>2, <3>1, PlainExitKeeps, CodeNumbers
            DEF Arguments, Plain
  <2> QED BY <1>2, <2>1, <2>2 DEF Arguments
<1>3. CASE Load
  <2>1. CASE main' = "start" /\ Calm /\ UNCHANGED client /\ MainOnly
    BY <1>1, <1>3, <2>1 DEF Load, Main, MainOnly, Calm
  <2>2. CASE Disturb /\ Exit(ExitConfigFailure)
    <3>1. ~healthy
      BY <1>3 DEF Load, Main, Served
    <3> QED BY <2>2, <3>1, PlainExitKeeps, CodeNumbers DEF Plain
  <2> QED BY <1>3, <2>1, <2>2 DEF Load
<1>4. CASE GoStart \/ Notify
  BY <1>1, <1>4 DEF GoStart, Notify, Main, MainOnly, Calm
<1>5. CASE AwaitSignal
  BY <1>5, PlainExitKeeps, CodeNumbers DEF AwaitSignal, Plain, ServedExits
<1> QED BY <1>2, <1>3, <1>4, <1>5 DEF MainGoroutine

-----------------------------------------------------------------------------
(* Start.                                                                   *)

(* Before the answer: the server has said nothing, or it is on the wire.    *)
LEMMA ConnectKeeps ==
  ASSUME AgentInv, GoServeHealth \/ Dial \/ RequestTunnel
  PROVE  AgentInv'
<1> USE DEF AgentInv
<1>0. ~healthy
  BY DEF GoServeHealth, Dial, RequestTunnel, Client, Served
<1>1. CASE \/ Dial /\ Exit(ExitEventServerUnreachable)
           \/ RequestTunnel /\ Exit(ExitEventServerUnreachable)
  <2>1. Disturb \/ Calm
    BY <1>1 DEF Dial, RequestTunnel
  <2> QED BY <1>0, <1>1, <2>1, PlainExitKeeps, CodeNumbers DEF Plain
<1>2. CASE /\ ClientOnly /\ Calm /\ Alive
           /\ UNCHANGED <<healthy, event, wire, framed>>
           /\ health' \in {health, "starting"}
           /\ \/ client = "health" /\ client' = "dial" /\ server' = server
              \/ client = "dial" /\ client' = "request" /\ server' = "accepted"
              \/ /\ client = "request" /\ client' = "open"
                 /\ server = "accepted" /\ server' \in {"asked", "closed"}
  <2> USE <1>2 DEF ClientOnly, Calm, kubelet
  <2>1. Types'
    <3>1. KubeletTypes' /\ HandlerTypes' /\ StreamTypes' /\ Bounded'
      BY DEF Types, KubeletTypes, HandlerTypes, StreamTypes, Bounded
    <3>2. ProcessTypes'
      BY DEF Types, ProcessTypes
    <3>3. HostTypes'
      BY DEF Types, HostTypes
    <3> QED BY <3>1, <3>2, <3>3 DEF Types
  <2>2. Early'
    BY DEF Early, Alive
  <2>3. Answers'
    BY DEF Answers, Says, Answer, Verdict
  <2>4. Served'
    BY <1>0 DEF Served
  <2> QED BY <2>1, <2>2, <2>3, <2>4
<1>3. CASE GoServeHealth
  BY <1>2, <1>3 DEF GoServeHealth, Client
<1>4. CASE Dial
  BY <1>1, <1>2, <1>4 DEF Dial, Client
<1>5. CASE RequestTunnel
  BY <1>1, <1>2, <1>5 DEF RequestTunnel, Client
<1> QED BY <1>3, <1>4, <1>5

(* A framed read takes the head of the wire and no byte more.               *)
LEMMA ReadFacts ==
  ASSUME AgentInv, NEW into \in Garbage, Read(into)
  PROVE  /\ event' \in Garbage /\ framed' \in BOOLEAN
         /\ wire # <<>> /\ wire' \in Seq(Frames)
         /\ framed' => /\ framed
                       /\ event' = decode(into, Head(wire))
                       /\ wire' = Tail(wire)
         /\ Disturb \/ Calm
<1>1. wire \in Seq(Frames)
  BY DEF AgentInv, Types, StreamTypes
<1>2. wire # <<>>
  BY DEF Read
<1>3. Head(wire) \in Frames /\ Tail(wire) \in Seq(Frames)
  BY <1>1, <1>2
<1>4. decode(into, Head(wire)) \in Garbage
  BY <1>3, DecodedIsEvent
<1>5. framed \in BOOLEAN
  BY DEF AgentInv, Types, HostTypes
<1>6. CASE /\ framed /\ event' = decode(into, Head(wire))
           /\ wire' = Tail(wire) /\ UNCHANGED framed /\ Calm
  BY <1>2, <1>3, <1>4, <1>5, <1>6, Zenon
<1>7. CASE framed /\ Disturb /\ framed' = FALSE /\ event' \in Garbage /\ UNCHANGED wire
  BY <1>1, <1>2, <1>7, Zenon
<1>8. CASE ~framed /\ UNCHANGED framed /\ Calm /\ event' \in Garbage /\ wire' = Tail(wire)
  BY <1>2, <1>3, <1>5, <1>8, Zenon
<1> QED BY <1>6, <1>7, <1>8, Zenon DEF Read

(* What is left on the wire after a read says what it said before.          *)
LEMMA TailSays ==
  ASSUME wire \in Seq(Frames), wire # <<>>,
         \A i \in DOMAIN wire : Says(Answer(wire[i]))
  PROVE  /\ Says(Answer(Head(wire)))
         /\ \A i \in DOMAIN Tail(wire) : Says(Answer(Tail(wire)[i]))
<1>1. 1 \in DOMAIN wire /\ Head(wire) = wire[1]
  OBVIOUS
<1>2. \A i \in DOMAIN Tail(wire) :
        i + 1 \in DOMAIN wire /\ Tail(wire)[i] = wire[i + 1]
  OBVIOUS
<1> QED BY <1>1, <1>2

LEMMA ReceiveKeeps ==
  ASSUME AgentInv, ReceiveAnswer
  PROVE  AgentInv'
<1> USE DEF AgentInv
<1>0. ~healthy /\ Alive
  BY DEF ReceiveAnswer, Client, Served
<1>1. CASE Unreadable /\ Exit(ExitEventServerUnreachable)
  <2>1. Disturb \/ Calm
    BY <1>1 DEF Unreadable
  <2> QED BY <1>0, <1>1, <2>1, PlainExitKeeps, CodeNumbers DEF Plain
<1>2. CASE /\ Read(NoEvent) /\ client' = "check" /\ ClientOnly
           /\ UNCHANGED <<health, healthy, server>>
  <2> USE <1>2 DEF ClientOnly, kubelet
  <2>1. Types'
    <3>1. StreamTypes' /\ framed' \in BOOLEAN /\ Bounded'
      BY ReadFacts, NoEventIsEvent, DisturbBound DEF Types, StreamTypes
    <3>2. KubeletTypes' /\ ProcessTypes' /\ HandlerTypes'
      BY DEF Types, KubeletTypes, ProcessTypes, HandlerTypes
    <3> QED BY <3>1, <3>2 DEF Types, HostTypes
  <2>2. Early'
    <3>1. server \notin {"none", "accepted", "asked"}
      BY ReadFacts, NoEventIsEvent DEF Early
    <3> QED BY <3>1 DEF Early
  <2>3. Answers'
    <3>1. ASSUME framed'
          PROVE  /\ \A i \in DOMAIN wire' : Says(Answer(wire'[i]))
                 /\ Says(event'.error)
      <4>1. framed /\ wire' = Tail(wire) /\ event'.error = Answer(Head(wire))
            /\ wire # <<>>
        BY <3>1, ReadFacts, NoEventIsEvent DEF Answer
      <4>2. wire \in Seq(Frames)
        BY DEF Types, StreamTypes
      <4> QED BY <4>1, <4>2, TailSays DEF Answers
    <3>2. framed' => framed
      BY ReadFacts, NoEventIsEvent
    <3>3. \A error : Says(error)' = Says(error)
      BY DEF Says
    <3> QED BY <3>1, <3>2, <3>3 DEF Answers, Answer, Says, Verdict
  <2>4. Served'
    <3>1. client # "none" /\ ~healthy'
      BY <1>0 DEF ReceiveAnswer, Client
    <3> QED BY <1>0, <3>1 DEF Served
  <2> QED BY <2>1, <2>2, <2>3, <2>4
<1> QED BY <1>1, <1>2 DEF ReceiveAnswer

LEMMA CheckKeeps ==
  ASSUME AgentInv, CheckAnswer
  PROVE  AgentInv'
<1> USE DEF AgentInv
<1>1. CASE event.error # Zero /\ Exit(exitCodeForServerError(event.error))
  <2> DEFINE code == exitCodeForServerError(event.error)
  <2>1. Agrees(event.error)
    BY TablesAgree
  <2>2. ~healthy /\ (framed => event.error = refusal)
    BY <1>1 DEF CheckAnswer, Client, Served, Answers, Says
  <2>3. MaySay(code)
    BY <2>1, <2>2 DEF MaySay, Agrees
  <2> QED BY <1>1, <2>3, ExitKeeps DEF CheckAnswer
<1>2. CASE /\ event.error = Zero
           /\ client' = "loop" /\ healthy' = TRUE /\ event' = NoEvent
           /\ UNCHANGED <<health, server, wire, framed>> /\ ClientOnly
  <2> USE <1>2 DEF ClientOnly, kubelet
  <2>0. Calm /\ Alive /\ client = "check"
    BY DEF CheckAnswer, Client
  <2>1. Types'
    <3>1. KubeletTypes' /\ HandlerTypes' /\ HostTypes' /\ Bounded'
      BY <2>0 DEF Types, KubeletTypes, HandlerTypes, HostTypes, Bounded, Calm
    <3>2. ProcessTypes'
      BY DEF Types, ProcessTypes
    <3>3. StreamTypes'
      BY NoEventIsEvent DEF Types, StreamTypes
    <3> QED BY <3>1, <3>2, <3>3 DEF Types
  <2>2. Early'
    BY <2>0 DEF Early
  <2>3. Answers'
    BY <2>0 DEF Answers, Says, Answer, Verdict
  <2>4. Served'
    BY <2>0 DEF Served, Alive
  <2> QED BY <2>1, <2>2, <2>3, <2>4
<1> QED BY <1>1, <1>2 DEF CheckAnswer

(* The event loop: it reads into the event of the last round, and what it   *)
(* reads is a connection's whoever wrote it.                                *)
LEMMA LoopKeeps ==
  ASSUME AgentInv, NextConnection
  PROVE  AgentInv'
<1> USE DEF AgentInv, NextConnection, kubelet
<1>1. event \in Garbage /\ wire \in Seq(Frames)
  BY DEF Types, StreamTypes
<1>2. /\ event' \in Garbage /\ framed' \in BOOLEAN
      /\ wire # <<>> /\ wire' \in Seq(Frames)
      /\ framed' => framed /\ wire' = Tail(wire)
      /\ Disturb \/ Calm
  BY <1>1, ReadFacts
<1>3. Types'
  <2>1. KubeletTypes' /\ ProcessTypes' /\ Bounded'
    BY <1>2, DisturbBound DEF Types, KubeletTypes, ProcessTypes
  <2>2. StreamTypes' /\ HostTypes'
    BY <1>2 DEF Types, StreamTypes, HostTypes
  <2>3. HandlerTypes'
    <3>1. event'.port \in Ports \cup {Zero}
      BY <1>2 DEF Garbage
    <3> QED BY <3>1 DEF Types, HandlerTypes
  <2> QED BY <2>1, <2>2, <2>3 DEF Types
<1>4. Early'
  <2>1. server \notin {"none", "accepted", "asked"}
    BY <1>2 DEF Early
  <2> QED BY <2>1 DEF Early
<1>5. Answers'
  <2>1. ASSUME framed'
        PROVE  \A i \in DOMAIN wire' : Says(Answer(wire'[i]))
    BY <1>1, <1>2, <2>1, TailSays DEF Answers
  <2>2. \A error : Says(error)' = Says(error)
    BY DEF Says
  <2>3. client' # "check"
    BY DEF Client
  <2> QED BY <1>2, <2>1, <2>2, <2>3 DEF Answers, Answer, Verdict
<1>6. Served'
  BY DEF Served
<1> QED BY <1>3, <1>4, <1>5, <1>6

LEMMA LoseKeeps ==
  ASSUME AgentInv, LoseStream
  PROVE  AgentInv'
<1>1. Disturb \/ Calm
  BY DEF LoseStream, Unreadable
<1> QED BY <1>1, PlainExitKeeps, CodeNumbers
        DEF LoseStream, Plain, ServedExits

-----------------------------------------------------------------------------
(* The other goroutines.                                                    *)

LEMMA HandlerKeeps ==
  ASSUME AgentInv, NEW n \in DOMAIN handlers, DialBoth(n) \/ SendPort(n)
  PROVE  AgentInv'
<1> DEFINE Handler == [at : {"dial", "send", "sent", "gone"},
                       port : Ports \cup {Zero}]
<1> USE DEF AgentInv, HandlerOnly, Calm, kubelet, remote
<1>0. HandlerOnly
  BY DEF DialBoth, SendPort
<1>1. HandlerTypes'
  <2>1. handlers \in Seq(Handler)
    BY DEF Types, HandlerTypes
  <2>2. PICK at \in {"send", "sent", "gone"} :
          handlers' = [handlers EXCEPT ![n].at = at]
    BY DEF DialBoth, SendPort
  <2>3. [handlers[n] EXCEPT !.at = at] \in Handler
    <3>1. handlers[n] \in Handler
      <4> HIDE DEF Handler
      <4> QED BY <2>1
    <3> QED BY <3>1
  <2>4. handlers' = [handlers EXCEPT ![n] = [handlers[n] EXCEPT !.at = at]]
    BY <2>2
  <2> QED BY <2>1, <2>3, <2>4 DEF HandlerTypes
<1>2. Types'
  <2>1. KubeletTypes' /\ ProcessTypes'
    BY <1>0 DEF Types, KubeletTypes, ProcessTypes
  <2>2. StreamTypes' /\ HostTypes' /\ Bounded'
    BY <1>0 DEF Types, StreamTypes, HostTypes, Bounded
  <2> QED BY <1>1, <2>1, <2>2 DEF Types
<1>3. Early' /\ Served'
  BY <1>0 DEF Early, Served
<1>4. Answers'
  BY <1>0 DEF Answers, Says, Answer, Verdict
<1> QED BY <1>2, <1>3, <1>4

LEMMA HealthKeeps ==
  ASSUME AgentInv, serveHealth
  PROVE  AgentInv'
<1> USE DEF AgentInv, serveHealth, kubelet, remote
<1>1. Types'
  <2>1. Bounded'
    BY DisturbBound DEF Types
  <2>2. ProcessTypes'
    BY DEF Types, ProcessTypes
  <2>3. KubeletTypes' /\ HandlerTypes' /\ StreamTypes' /\ HostTypes'
    BY DEF Types, KubeletTypes, HandlerTypes, StreamTypes, HostTypes
  <2> QED BY <2>1, <2>2, <2>3 DEF Types
<1>2. Early' /\ Served'
  BY DEF Early, Served
<1>3. Answers'
  BY DEF Answers, Says, Answer, Verdict
<1> QED BY <1>1, <1>2, <1>3

-----------------------------------------------------------------------------
(* The hosts.                                                               *)

(* What the server says is on the wire until the client reads it.           *)
LEMMA SayKeeps ==
  ASSUME AgentInv, Disturb \/ Calm, ServerOnly,
         NEW e \in Garbage, Send(e), framed => Says(e.error)',
         server \in {"asked", "opened"}, server' \in {"opened", "closed"},
         server = "asked" \/ UNCHANGED refusal,
         granted => granted', framed /\ server' = "opened" => granted',
         announced' \in 0..MaxAnnounced, refusal' \in Errors \cup {None},
         granted' \in BOOLEAN,
         server = "asked" => wire = <<>> /\ client \notin {"check", "loop"}
  PROVE  AgentInv'
<1> USE DEF AgentInv, ServerOnly, kubelet, process
<1>1. wire \in Seq(Frames) /\ Frame(e, 1) \in Frames
  BY DEF Types, StreamTypes, Frames
<1>2. Types'
  <2>1. KubeletTypes' /\ ProcessTypes' /\ HandlerTypes' /\ Bounded'
    BY DisturbBound DEF Types, KubeletTypes, ProcessTypes, HandlerTypes
  <2>2. StreamTypes'
    BY <1>1 DEF Types, StreamTypes, Send
  <2>3. HostTypes'
    BY DEF Types, HostTypes
  <2> QED BY <2>1, <2>2, <2>3 DEF Types
<1>3. Early'
  BY DEF Early
<1>4. Answers'
  <2> SUFFICES ASSUME framed
               PROVE  /\ \A i \in DOMAIN wire' : Says(Answer(wire[i]))'
                      /\ server' = "opened" => granted'
                      /\ client = "check" => Says(event.error)'
                      /\ healthy => granted'
                      /\ Verdict.terminal => refusal' = SaidBy[Verdict.reason]
    BY DEF Answers, Answer, Verdict
  <2>1. \A i \in DOMAIN wire' : Says(Answer(wire[i]))'
    <3> SUFFICES ASSUME NEW i \in DOMAIN wire'
                 PROVE  Says(Answer(wire[i]))'
      OBVIOUS
    <3>1. CASE i = Len(wire) + 1
      <4>1. wire'[i] = Frame(e, 1)
        BY <1>1, <3>1 DEF Send
      <4>2. Answer(wire'[i]) = e.error
        BY <4>1, AnswerOfFrame
      <4> QED BY <4>2 DEF Says, Answer
    <3>2. CASE i # Len(wire) + 1
      <4>1. i \in DOMAIN wire /\ wire'[i] = wire[i]
        BY <1>1, <3>2 DEF Send
      <4>2. server # "asked" /\ UNCHANGED refusal
        BY <4>1
      <4>3. Says(Answer(wire[i]))
        BY <4>1 DEF Answers
      <4> QED BY <4>1, <4>2, <4>3 DEF Answer, Says
    <3> QED BY <3>1, <3>2
  <2>2. client = "check" => Says(event.error)'
    BY DEF Answers, Says
  <2>3. server = "asked" => ~Verdict.terminal
    BY PlainIsRetryable DEF Early, Verdict, Plain
  <2> QED BY <2>1, <2>2, <2>3 DEF Answers
<1>5. Served'
  BY DEF Served
<1> QED BY <1>2, <1>3, <1>4, <1>5

LEMMA ServerKeeps ==
  ASSUME AgentInv, Grant \/ Refuse \/ Announce
  PROVE  AgentInv'
<1> USE DEF AgentInv
<1>0. /\ MaxAnnounced \in Nat /\ announced \in 0..MaxAnnounced
      /\ refusal \in Errors \cup {None} /\ granted \in BOOLEAN
  BY AgentAssumption DEF Types, HostTypes
<1>1. CASE Grant
  <2>1. NoEvent \in Garbage /\ NoEvent.error = Zero
    BY NoEventIsEvent DEF NoEvent
  <2>2. Says(NoEvent.error)'
    BY <1>1, <2>1 DEF Says, Grant
  <2> QED BY <1>0, <1>1, <2>1, <2>2, SayKeeps DEF Grant, Early
<1>2. CASE Refuse
  <2>1. PICK error \in Errors :
          refusal' = error /\ Send([NoEvent EXCEPT !.error = error])
    BY <1>2 DEF Refuse
  <2> DEFINE e == [NoEvent EXCEPT !.error = error]
  <2>2. e \in Garbage /\ e.error = error
    BY DEF NoEvent, Garbage
  <2>3. Says(e.error)'
    BY <2>1, <2>2, AgentAssumption DEF Says
  <2> HIDE DEF e
  <2> QED BY <1>0, <1>2, <2>1, <2>2, <2>3, SayKeeps DEF Refuse, Early, e
<1>3. CASE Announce
  <2>1. announced' \in 1..MaxAnnounced
    BY <1>0, <1>3 DEF Announce
  <2>2. PICK n \in 1..MaxAnnounced : n = announced'
    BY <2>1
  <2> DEFINE e == [NoEvent EXCEPT !.port = n]
  <2>3. e \in Garbage /\ e.error = Zero
    BY <2>1 DEF NoEvent, Garbage, Ports
  <2>4. /\ Send(e) /\ ServerOnly /\ Calm /\ server = "opened"
        /\ UNCHANGED <<server, refusal, granted>>
    BY <1>3, <2>2 DEF Announce
  <2>5. framed => Says(e.error)' /\ granted
    BY <2>3, <2>4 DEF Says, Answers
  <2>6. announced' \in 0..MaxAnnounced
    BY <1>0, <2>1
  <2> HIDE DEF e
  <2> QED BY <1>0, <2>3, <2>4, <2>5, <2>6, SayKeeps
<1> QED BY <1>1, <1>2, <1>3

LEMMA TroubleKeeps ==
  ASSUME AgentInv, Drop \/ FallSilent
  PROVE  AgentInv'
<1> USE DEF AgentInv
<1>0. /\ Disturb
      /\ UNCHANGED <<container, terminating, probe, command, request, exit,
                     main, signalled, client, health, healthy, event,
                     handlers, wire, announced, refusal, granted, framed>>
      /\ \/ server \in Connected /\ server' = "closed" /\ UNCHANGED silent
         \/ silent' \in {"config host", "event server"} /\ UNCHANGED server
  BY DEF Drop, FallSilent, ServerOnly, kubelet, process
<1>1. Types'
  <2>1. KubeletTypes' /\ HandlerTypes'
    BY <1>0 DEF Types, KubeletTypes, HandlerTypes
  <2>2. ProcessTypes' /\ StreamTypes'
    BY <1>0 DEF Types, ProcessTypes, StreamTypes
  <2>3. HostTypes' /\ Bounded'
    BY <1>0, DisturbBound DEF Types, HostTypes
  <2> QED BY <2>1, <2>2, <2>3 DEF Types
<1>2. Early'
  BY <1>0 DEF Early, Connected
<1>3. Answers'
  BY <1>0 DEF Answers, Says, Answer, Verdict
<1>4. Served'
  BY <1>0 DEF Served
<1> QED BY <1>1, <1>2, <1>3, <1>4

-----------------------------------------------------------------------------
(* Kubelet.                                                                 *)

LEMMA StartKeeps ==
  ASSUME AgentInv, StartContainer
  PROVE  AgentInv'
<1> USE DEF AgentInv, StartContainer
<1>1. Types'
  <2>1. KubeletTypes'
    <3>1. container'.last \in Codes /\ NoCode \in Codes
      BY DEF Types, KubeletTypes, Codes
    <3>2. container' = [state |-> "running", code |-> NoCode,
                        last  |-> container'.last]
      OBVIOUS
    <3>3. "running" \in ContainerStates
      BY DEF ContainerStates
    <3> QED BY <3>1, <3>2, <3>3 DEF Types, KubeletTypes
  <2>2. ProcessTypes' /\ HandlerTypes'
    <3>1. exit' \in Codes /\ HandlerTypes'
      BY DEF HandlerTypes, Codes
    <3> QED BY <3>1 DEF ProcessTypes
  <2>3. StreamTypes'
    BY NoEventIsEvent DEF StreamTypes
  <2>4. HostTypes'
    <3>1. announced' \in 0..MaxAnnounced
      BY AgentAssumption
    <3>2. silent \in {"nobody", "config host", "event server"}
      BY DEF Types, HostTypes
    <3> QED BY <3>1, <3>2, Zenon DEF HostTypes
  <2>5. Bounded'
    BY DisturbBound DEF Types
  <2> QED BY <2>1, <2>2, <2>3, <2>4, <2>5 DEF Types
<1>2. Early' /\ Served'
  BY DEF Early, Served
<1>3. ~Verdict'.terminal
  BY PlainIsRetryable DEF Verdict, Plain
<1>4. Answers'
  BY <1>3 DEF Answers
<1> QED BY <1>1, <1>2, <1>4

(* Steps that only concern what kubelet reports.                            *)
LEMMA ReportKeeps ==
  ASSUME AgentInv, UNCHANGED <<terminating, exit>>, KubeletOnly,
         Disturb \/ Calm,
         container' \in [state : ContainerStates, code : Codes, last : Codes],
         probe' \in {"none", "ok", "bad"},
         probe' = "ok" => healthy,
         container'.state \in {"ready", "unready"} => healthy
  PROVE  AgentInv'
<1> USE DEF AgentInv, KubeletOnly, process, remote
<1>1. Types'
  <2>1. KubeletTypes' /\ HandlerTypes'
    BY DEF Types, KubeletTypes, HandlerTypes
  <2>2. ProcessTypes' /\ StreamTypes'
    BY DEF Types, ProcessTypes, StreamTypes
  <2>3. HostTypes' /\ Bounded'
    BY DisturbBound DEF Types, HostTypes
  <2> QED BY <2>1, <2>2, <2>3 DEF Types
<1>2. Early'
  BY DEF Early
<1>3. Answers'
  BY DEF Answers, Says, Answer, Verdict
<1>4. Served'
  BY DEF Served
<1> QED BY <1>1, <1>2, <1>3, <1>4

LEMMA StatusKeeps ==
  ASSUME AgentInv, ContainerDied \/ CrashLoopBackOff \/ Probe \/ UseProbe
  PROVE  AgentInv'
<1> USE DEF AgentInv
<1>0. /\ container \in [state : ContainerStates, code : Codes, last : Codes]
      /\ probe \in {"none", "ok", "bad"} /\ exit \in Codes /\ NoCode \in Codes
  BY DEF Types, KubeletTypes, ProcessTypes, Codes
<1>1. CASE ContainerDied
  <2>1. container' \in [state : ContainerStates, code : Codes, last : Codes]
    BY <1>0, <1>1 DEF ContainerDied, ContainerStates
  <2>2. container'.state = "terminated"
    BY <1>0, <1>1 DEF ContainerDied
  <2>3. probe' = "ok" => healthy
    BY <1>1 DEF ContainerDied, Served
  <2> QED BY <1>0, <1>1, <2>1, <2>2, <2>3, ReportKeeps DEF ContainerDied
<1>2. CASE CrashLoopBackOff
  <2>1. container' \in [state : ContainerStates, code : Codes, last : Codes]
    BY <1>0, <1>2 DEF CrashLoopBackOff, ContainerStates
  <2>2. container'.state = "waiting"
    BY <1>2 DEF CrashLoopBackOff
  <2>3. probe' = "ok" => healthy
    BY <1>2 DEF CrashLoopBackOff, Served
  <2> QED BY <1>0, <1>2, <2>1, <2>2, <2>3, ReportKeeps DEF CrashLoopBackOff
<1>3. CASE Probe
  BY <1>0, <1>3, ReportKeeps DEF Probe, Served
<1>4. CASE UseProbe
  <2>1. container' \in [state : ContainerStates, code : Codes, last : Codes]
    BY <1>0, <1>4 DEF UseProbe, ContainerStates
  <2>2. container'.state \in {"ready", "unready"} => healthy
    BY <1>0, <1>4 DEF UseProbe, Served
  <2> QED BY <1>4, <2>1, <2>2, ReportKeeps DEF UseProbe
<1> QED BY <1>1, <1>2, <1>3, <1>4

(* SIGTERM kills an agent that does not catch it yet, which no client has   *)
(* been started by.                                                         *)
LEMMA TerminateKeeps ==
  ASSUME AgentInv, Terminate
  PROVE  AgentInv'
<1> USE DEF AgentInv
<1>0. /\ Calm /\ terminating' = TRUE
      /\ UNCHANGED <<container, probe, command, request, main, client, health,
                     healthy, event, handlers, wire, announced, refusal,
                     granted, silent, framed>>
      /\ \/ UNCHANGED <<exit, server>> /\ signalled' \in {signalled, TRUE}
         \/ exit = NoCode /\ End(SignalDeath) /\ UNCHANGED signalled
  BY DEF Terminate, SendSigterm, Alive
<1>1. Types'
  <2>1. KubeletTypes' /\ HandlerTypes'
    BY <1>0 DEF Types, KubeletTypes, HandlerTypes
  <2>2. ProcessTypes'
    <3>1. exit' \in Codes
      <4>1. exit \in Codes /\ SignalDeath \in Codes
        BY CodeNumbers DEF Types, ProcessTypes, Codes
      <4>2. exit' \in {exit, SignalDeath}
        BY <1>0 DEF End
      <4> QED BY <4>1, <4>2
    <3>2. signalled' \in BOOLEAN
      BY <1>0 DEF Types, ProcessTypes
    <3> QED BY <1>0, <3>1, <3>2, Zenon DEF Types, ProcessTypes
  <2>3. HostTypes'
    BY <1>0 DEF Types, HostTypes, End
  <2>4. StreamTypes' /\ Bounded'
    BY <1>0, DisturbBound DEF Types, StreamTypes
  <2> QED BY <2>1, <2>2, <2>3, <2>4 DEF Types
<1>2. Early'
  BY <1>0 DEF Early, End, Connected
<1>3. Answers'
  <2>1. ~classifyExit(SignalDeath, "fail").terminal
    BY PlainIsRetryable DEF Plain
  <2> QED BY <1>0, <2>1 DEF Answers, Says, Answer, Verdict, End, Connected
<1>4. Served'
  BY <1>0 DEF Served, End, ServedExits
<1> QED BY <1>1, <1>2, <1>3, <1>4

LEMMA OOMKeeps ==
  ASSUME AgentInv, OOMKilled
  PROVE  AgentInv'
BY PlainExitKeeps, CodeNumbers DEF OOMKilled, Plain, ServedExits

-----------------------------------------------------------------------------
(* The theorems.                                                            *)

LEMMA StutterKeeps ==
  ASSUME AgentInv, UNCHANGED vars
  PROVE  AgentInv'
<1> USE DEF vars, kubelet, process, remote, AgentInv
<1>1. Types'
  <2>1. KubeletTypes' /\ ProcessTypes' /\ HandlerTypes'
    BY DEF Types, KubeletTypes, ProcessTypes, HandlerTypes
  <2>2. StreamTypes' /\ HostTypes' /\ Bounded'
    BY DEF Types, StreamTypes, HostTypes, Bounded
  <2> QED BY <2>1, <2>2 DEF Types
<1>2. Early' /\ Served'
  BY DEF Early, Served
<1>3. Answers'
  BY DEF Answers, Says, Answer, Verdict
<1> QED BY <1>1, <1>2, <1>3

LEMMA AgentStep == AgentInv /\ [Next]_vars => AgentInv'
<1> SUFFICES ASSUME AgentInv, [Next]_vars PROVE AgentInv'
  OBVIOUS
<1>1. CASE Goroutines
  <2>1. CASE MainGoroutine
    BY <2>1, MainKeeps
  <2>2. CASE ClientGoroutine
    BY <2>2, ConnectKeeps, ReceiveKeeps, CheckKeeps, LoopKeeps, LoseKeeps
    DEF ClientGoroutine
  <2>3. CASE serveHealth
    BY <2>3, HealthKeeps
  <2>4. CASE \E n \in DOMAIN handlers : DialBoth(n) \/ SendPort(n)
    BY <2>4, HandlerKeeps
  <2> QED BY <1>1, <2>1, <2>2, <2>3, <2>4
          DEF Goroutines, MainGoroutine, ClientGoroutine
<1>2. CASE Hosts
  BY <1>2, ServerKeeps, TroubleKeeps DEF Hosts
<1>3. CASE Kubelet
  BY <1>3, StartKeeps, StatusKeeps, TerminateKeeps, OOMKeeps DEF Kubelet
<1>4. CASE UNCHANGED vars
  BY <1>4, StutterKeeps
<1> QED BY <1>1, <1>2, <1>3, <1>4 DEF Next

LEMMA AgentAlways == Spec => []AgentInv
BY InitAgent, AgentStep, PTL DEF Spec

(* Every variable keeps its type, whatever order goroutines, hosts and      *)
(* kubelet take their steps in.                                             *)
THEOREM AgentTypeCorrect == Spec => []AgentTypeOK
<1>1. AgentInv => AgentTypeOK
  BY TypesInParts DEF AgentInv
<1> QED BY <1>1, AgentAlways, PTL

(* Kubelet reports no agent ready that has not been given its tunnel.       *)
THEOREM ReadyIsOpened == Spec => []ReadyMeansOpened
<1>1. AgentInv => ReadyMeansOpened
  BY DEF AgentInv, Served, Answers, ReadyMeansOpened
<1> QED BY <1>1, AgentAlways, PTL

(* A terminal exit code repeats what the server said to this very run.      *)
THEOREM VerdictsAreSaid == Spec => []VerdictsAreTheServers
<1>1. AgentInv => VerdictsAreTheServers
  BY DEF AgentInv, Answers, Verdict, VerdictsAreTheServers
<1> QED BY <1>1, AgentAlways, PTL

-----------------------------------------------------------------------------
(* Announcements: while no read comes short, the wire holds what comes      *)
(* after the handlers, in the order of the ports, behind the answer if the  *)
(* client has not read it yet.                                              *)
PortOf(frame) == decode(NoEvent, frame).port

Lead == IF client \in {"check", "loop"} THEN 0 ELSE 1

Numbered ==
  framed =>
    /\ \A n \in DOMAIN handlers : handlers[n].port = n
    /\ client # "loop" => handlers = <<>>
    /\ \A i \in DOMAIN wire :
         i > Lead => PortOf(wire[i]) = Len(handlers) + i - Lead
    /\ \/ Len(wire) + Len(handlers) = Lead + announced
       \/ server # "opened" /\ Lead = 1 /\ wire = <<>> /\ announced = 0

LEMMA PortOfFrame ==
  ASSUME NEW e \in Garbage
  PROVE  PortOf(Frame(e, 1)) = e.port
BY DEF PortOf, decode, Frame, Garbage, NoEvent

(* Whatever event a port is read into, it is the port of the frame.         *)
LEMMA PortIsRead ==
  ASSUME NEW into \in Garbage, NEW frame \in Frames, PortOf(frame) # Zero
  PROVE  decode(into, frame).port = PortOf(frame)
<1>1. DOMAIN into = {"port", "error"}
  BY DEF Garbage
<1> QED BY <1>1 DEF PortOf, decode, NoEvent

LEMMA SequenceTypes ==
  ASSUME AgentInv
  PROVE  /\ wire \in Seq(Frames) /\ event \in Garbage
         /\ \E S : handlers \in Seq(S)
         /\ Len(wire) \in Nat /\ Len(handlers) \in Nat
         /\ announced \in Nat /\ announced \in 0..MaxAnnounced
         /\ MaxAnnounced \in Nat /\ framed \in BOOLEAN
         /\ Lead \in {0, 1}
<1>1. wire \in Seq(Frames) /\ event \in Garbage /\ \E S : handlers \in Seq(S)
  BY DEF AgentInv, Types, StreamTypes, HandlerTypes
<1>2. MaxAnnounced \in Nat /\ announced \in 0..MaxAnnounced /\ framed \in BOOLEAN
  BY AgentAssumption DEF AgentInv, Types, HostTypes
<1> QED BY <1>1, <1>2 DEF Lead

(* Steps that move no event.                                                *)
LEMMA NothingMoves ==
  ASSUME AgentInv, Numbered, UNCHANGED <<framed, wire, announced, Lead>>,
         client' # "loop" => client # "loop",
         server' = "opened" => server = "opened",
         DOMAIN handlers' = DOMAIN handlers,
         Len(handlers') = Len(handlers),
         handlers = <<>> => handlers' = <<>>,
         \A n \in DOMAIN handlers : handlers'[n].port = handlers[n].port
  PROVE  Numbered'
BY DEF Numbered, PortOf, NoEvent, decode

LEMMA ReceiveNumbers ==
  ASSUME AgentInv, Numbered, ReceiveAnswer
  PROVE  Numbered'
<1>1. CASE Unreadable /\ Exit(ExitEventServerUnreachable)
  BY <1>1, NothingMoves DEF Exit, End, process, Lead
<1>2. CASE Read(NoEvent) /\ client' = "check" /\ ClientOnly
           /\ UNCHANGED <<health, healthy, server>>
  <2> SUFFICES ASSUME framed' PROVE Numbered'
    BY DEF Numbered
  <2>1. framed /\ wire # <<>> /\ wire' = Tail(wire)
    BY <1>2, ReadFacts, NoEventIsEvent
  <2>2. Lead = 1 /\ Lead' = 0 /\ handlers = <<>> /\ handlers' = handlers
    BY <1>2, <2>1 DEF ReceiveAnswer, Client, Lead, Numbered, ClientOnly
  <2>3. Len(wire) = 1 + announced /\ announced' = announced
    BY <1>2, <2>1, <2>2, SequenceTypes DEF Numbered, ClientOnly
  <2>4. Len(wire') + Len(handlers') = Lead' + announced'
    BY <2>1, <2>2, <2>3, SequenceTypes
  <2>5. ASSUME NEW i \in DOMAIN wire'
        PROVE  PortOf(wire'[i]) = Len(handlers') + i - Lead'
    <3>1. i \in Nat \ {0} /\ i + 1 \in DOMAIN wire /\ wire'[i] = wire[i + 1]
      BY <2>1, <2>5, SequenceTypes
    <3>2. i + 1 > Lead
      BY <2>2, <3>1
    <3>3. PortOf(wire[i + 1]) = Len(handlers) + (i + 1) - Lead
      BY <2>1, <3>1, <3>2 DEF Numbered
    <3> QED BY <2>2, <3>1, <3>3
  <2>6. \A n \in DOMAIN handlers' : handlers'[n].port = n
    BY <2>2
  <2> QED BY <2>2, <2>4, <2>5, <2>6 DEF Numbered, PortOf, NoEvent, decode
<1> QED BY <1>1, <1>2 DEF ReceiveAnswer

LEMMA LoopNumbers ==
  ASSUME AgentInv, Numbered, NextConnection
  PROVE  Numbered'
<1> SUFFICES ASSUME framed' PROVE Numbered'
  BY DEF Numbered
<1>1. /\ Read(event) /\ client = "loop"
      /\ handlers' = Append(handlers, [at |-> "dial", port |-> event'.port])
      /\ UNCHANGED <<client, announced, server>>
  BY DEF NextConnection, Client
<1>2. /\ framed /\ wire # <<>> /\ wire' = Tail(wire)
      /\ event' = decode(event, Head(wire))
  BY <1>1, ReadFacts, SequenceTypes
<1>3. Lead = 0 /\ Lead' = 0
  BY <1>1 DEF Lead
<1>4. Len(wire) + Len(handlers) = announced
  BY <1>2, <1>3, SequenceTypes DEF Numbered
<1>5. 1 \in DOMAIN wire /\ Head(wire) = wire[1] /\ Head(wire) \in Frames
  BY <1>2, SequenceTypes
<1>6. PortOf(Head(wire)) = Len(handlers) + 1
  <2>1. PortOf(wire[1]) = Len(handlers) + 1 - Lead
    BY <1>2, <1>3, <1>5 DEF Numbered
  <2> QED BY <1>3, <1>5, <2>1, SequenceTypes
<1>7. event'.port = Len(handlers) + 1
  <2>1. Len(handlers) + 1 \in Ports
    BY <1>2, <1>4, SequenceTypes DEF Ports
  <2>2. PortOf(Head(wire)) # Zero
    BY <1>6, <2>1, AgentAssumption
  <2> QED BY <1>2, <1>5, <1>6, <2>2, PortIsRead, SequenceTypes
<1>8. /\ Len(handlers') = Len(handlers) + 1 /\ Len(wire') = Len(wire) - 1
      /\ DOMAIN handlers' = 1..Len(handlers) + 1
      /\ handlers'[Len(handlers) + 1].port = Len(handlers) + 1
      /\ \A n \in DOMAIN handlers : handlers'[n] = handlers[n]
  BY <1>1, <1>2, <1>7, SequenceTypes
<1>9. ASSUME NEW n \in DOMAIN handlers'
      PROVE  handlers'[n].port = n
  <2>1. n = Len(handlers) + 1 \/ n \in DOMAIN handlers
    BY <1>8, SequenceTypes
  <2> QED BY <1>2, <1>8, <2>1 DEF Numbered
<1>10. ASSUME NEW i \in DOMAIN wire'
       PROVE  PortOf(wire'[i]) = Len(handlers') + i - Lead'
  <2>1. i \in Nat \ {0} /\ i + 1 \in DOMAIN wire /\ wire'[i] = wire[i + 1]
    BY <1>2, <1>10, SequenceTypes
  <2>2. i + 1 > Lead
    BY <1>3, <2>1
  <2>3. PortOf(wire[i + 1]) = Len(handlers) + (i + 1) - Lead
    BY <1>2, <2>1, <2>2 DEF Numbered
  <2> QED BY <1>3, <1>8, <2>1, <2>3, SequenceTypes
<1>11. Len(wire') + Len(handlers') = Lead' + announced'
  BY <1>1, <1>3, <1>4, <1>8, SequenceTypes
<1> QED BY <1>1, <1>9, <1>10, <1>11 DEF Numbered, PortOf, NoEvent, decode

(* The answer comes first, the ports in their order after it.               *)
LEMMA SayNumbers ==
  ASSUME AgentInv, Numbered, ServerOnly, NEW e \in Garbage, Send(e),
         \/ /\ server = "asked" /\ announced' = announced
         \/ /\ server = "opened" /\ announced' = announced + 1
            /\ e.port = announced'
  PROVE  Numbered'
<1> SUFFICES ASSUME framed PROVE Numbered'
  BY DEF Numbered, ServerOnly, process
<1>1. /\ UNCHANGED <<client, handlers, framed, Lead>>
      /\ wire' = Append(wire, Frame(e, 1))
  BY DEF ServerOnly, process, Send, Lead
<1>2. Len(wire') = Len(wire) + 1 /\ DOMAIN wire' = 1..Len(wire) + 1
      /\ wire'[Len(wire) + 1] = Frame(e, 1)
      /\ \A i \in DOMAIN wire : wire'[i] = wire[i]
      /\ DOMAIN wire = 1..Len(wire)
  BY <1>1, SequenceTypes
<1>3. CASE server = "asked" /\ announced' = announced
  <2>1. wire = <<>> /\ Lead = 1
    BY <1>3 DEF AgentInv, Early, Lead
  <2>2. handlers = <<>> /\ announced = 0 /\ Len(wire) = 0
    BY <1>3, <2>1, SequenceTypes DEF Numbered, Lead
  <2>3. \A i \in DOMAIN wire' : i = 1
    BY <1>2, <2>2
  <2> QED BY <1>1, <1>2, <1>3, <2>1, <2>2, <2>3
          DEF Numbered, PortOf, NoEvent, decode
<1>4. CASE server = "opened" /\ announced' = announced + 1 /\ e.port = announced'
  <2>1. Len(wire) + Len(handlers) = Lead + announced
    BY <1>4 DEF Numbered
  <2>2. PortOf(Frame(e, 1)) = announced + 1
    BY <1>4, PortOfFrame
  <2>3. ASSUME NEW i \in DOMAIN wire', i > Lead
        PROVE  PortOf(wire'[i]) = Len(handlers) + i - Lead
    <3>1. CASE i = Len(wire) + 1
      BY <1>2, <2>1, <2>2, <3>1, SequenceTypes
    <3>2. CASE i # Len(wire) + 1
      <4>1. i \in DOMAIN wire
        BY <1>2, <3>2, SequenceTypes
      <4> QED BY <1>2, <2>3, <4>1 DEF Numbered
    <3> QED BY <3>1, <3>2
  <2>4. Len(wire') + Len(handlers') = Lead' + announced'
    BY <1>1, <1>2, <1>4, <2>1, SequenceTypes
  <2> QED BY <1>1, <2>3, <2>4 DEF Numbered, PortOf, NoEvent, decode
<1> QED BY <1>3, <1>4

LEMMA ServerNumbers ==
  ASSUME AgentInv, Numbered, Grant \/ Refuse \/ Announce
  PROVE  Numbered'
<1>1. CASE Grant
  BY <1>1, SayNumbers, NoEventIsEvent DEF Grant
<1>2. CASE Refuse
  <2>1. PICK error \in Errors : Send([NoEvent EXCEPT !.error = error])
    BY <1>2 DEF Refuse
  <2> DEFINE e == [NoEvent EXCEPT !.error = error]
  <2>2. e \in Garbage
    BY DEF NoEvent, Garbage
  <2> HIDE DEF e
  <2> QED BY <1>2, <2>1, <2>2, SayNumbers DEF Refuse, e
<1>3. CASE Announce
  <2>1. announced' \in 1..MaxAnnounced /\ announced' = announced + 1
    BY <1>3, SequenceTypes DEF Announce
  <2>2. PICK n \in 1..MaxAnnounced : n = announced'
    BY <2>1
  <2> DEFINE e == [NoEvent EXCEPT !.port = n]
  <2>3. e \in Garbage /\ e.port = announced'
    BY <2>2 DEF NoEvent, Garbage, Ports
  <2>4. Send(e) /\ ServerOnly /\ server = "opened"
    BY <1>3, <2>2 DEF Announce
  <2> HIDE DEF e
  <2> QED BY <2>1, <2>3, <2>4, SayNumbers
<1> QED BY <1>1, <1>2, <1>3

LEMMA HandlerNumbers ==
  ASSUME AgentInv, Numbered,
         NEW n \in DOMAIN handlers, DialBoth(n) \/ SendPort(n)
  PROVE  Numbered'
<1>1. PICK at : handlers' = [handlers EXCEPT ![n].at = at]
  BY DEF DialBoth, SendPort
<1>2. PICK S : handlers \in Seq(S)
  BY SequenceTypes
<1>3. DOMAIN handlers' = DOMAIN handlers /\ Len(handlers') = Len(handlers)
  BY <1>1, <1>2
<1>4. \A m \in DOMAIN handlers : handlers'[m].port = handlers[m].port
  BY <1>1
<1>5. UNCHANGED <<framed, wire, announced, client, server>>
  BY DEF DialBoth, SendPort, HandlerOnly, remote
<1>6. handlers # <<>>
  OBVIOUS
<1> QED BY <1>3, <1>4, <1>5, <1>6, NothingMoves DEF Lead

LEMMA NumberedStep == AgentInv /\ Numbered /\ [Next]_vars => Numbered'
<1> SUFFICES ASSUME AgentInv, Numbered, [Next]_vars PROVE Numbered'
  OBVIOUS
<1>1. CASE ReceiveAnswer
  BY <1>1, ReceiveNumbers
<1>2. CASE NextConnection
  BY <1>2, LoopNumbers
<1>3. CASE Grant \/ Refuse \/ Announce
  BY <1>3, ServerNumbers
<1>4. CASE \E n \in DOMAIN handlers : DialBoth(n) \/ SendPort(n)
  BY <1>4, HandlerNumbers
<1>5. CASE StartContainer
  <2>1. /\ handlers' = <<>> /\ wire' = <<>> /\ announced' = 0
        /\ server' = "none" /\ client' = "none"
    BY <1>5 DEF StartContainer
  <2> QED BY <2>1 DEF Numbered, Lead
<1>6. CASE \/ MainGoroutine \/ GoServeHealth \/ Dial \/ RequestTunnel
           \/ CheckAnswer \/ LoseStream \/ serveHealth
  <2>1. UNCHANGED <<framed, wire, announced, handlers>>
    BY <1>6
    DEF MainGoroutine, Arguments, Load, GoStart, Notify, AwaitSignal,
        GoServeHealth, Dial, RequestTunnel, CheckAnswer, LoseStream,
        serveHealth, MainOnly, ClientOnly, Exit, process, remote
  <2>2. Lead' = Lead /\ (client' # "loop" => client # "loop")
    BY <1>6
    DEF MainGoroutine, Arguments, Load, GoStart, Notify, AwaitSignal,
        GoServeHealth, Dial, RequestTunnel, CheckAnswer, LoseStream,
        serveHealth, MainOnly, ClientOnly, Exit, process, Client, Lead,
        AgentInv, Served, Main
  <2>3. server' = "opened" => server = "opened"
    BY <1>6
    DEF MainGoroutine, Arguments, Load, GoStart, Notify, AwaitSignal,
        GoServeHealth, Dial, RequestTunnel, CheckAnswer, LoseStream,
        serveHealth, MainOnly, ClientOnly, Exit, End, remote
  <2> QED BY <2>1, <2>2, <2>3, NothingMoves
<1>7. CASE \/ Drop \/ FallSilent \/ ContainerDied \/ CrashLoopBackOff
           \/ Probe \/ UseProbe \/ Terminate \/ OOMKilled \/ UNCHANGED vars
  <2>1. UNCHANGED <<framed, wire, announced, handlers, client>>
    BY <1>7
    DEF Drop, FallSilent, ContainerDied, CrashLoopBackOff, Probe, UseProbe,
        Terminate, OOMKilled, SendSigterm, ServerOnly, KubeletOnly, Exit,
        process, remote, vars
  <2>2. server' = "opened" => server = "opened"
    BY <1>7
    DEF Drop, FallSilent, ContainerDied, CrashLoopBackOff, Probe, UseProbe,
        Terminate, OOMKilled, KubeletOnly, Exit, End, remote, vars
  <2> QED BY <2>1, <2>2, NothingMoves DEF Lead
<1> QED BY <1>1, <1>2, <1>3, <1>4, <1>5, <1>6, <1>7
        DEF Next, Goroutines, Hosts, Kubelet, MainGoroutine

(* The n-th announced connection gets the n-th announced port.              *)
THEOREM PortsAreAnnounced == Spec => []ServedAsAnnounced
<1>1. Init => Numbered
  BY DEF Init, Numbered, Lead
<1>2. AgentInv /\ Numbered => ServedAsAnnounced
  <2> SUFFICES ASSUME AgentInv, Numbered, framed, NEW n \in DOMAIN handlers
               PROVE  n <= announced /\ handlers[n].port = n
    BY DEF ServedAsAnnounced
  <2>1. handlers[n].port = n /\ client = "loop" /\ n \in 1..Len(handlers)
    BY SequenceTypes DEF Numbered
  <2>2. Len(wire) + Len(handlers) = announced
    BY <2>1, SequenceTypes DEF Numbered, Lead
  <2> QED BY <2>1, <2>2, SequenceTypes
<1> QED BY <1>1, <1>2, NumberedStep, AgentAlways, PTL DEF Spec

-----------------------------------------------------------------------------
(* The refinement.                                                          *)

LEMMA SeenCodes ==
  /\ Seen(NoCode) = NoCode
  /\ \A code \in Nat : Seen(code) \in AllExitCodes
  /\ \A code \in ServedExits :
       Seen(code) \in {ExitOK, ExitUnexpected, ExitEventStreamDropped}
<1>1. Seen(NoCode) = NoCode
  BY DEF Seen
<1>2. ASSUME NEW code \in Nat
      PROVE  Seen(code) \in AllExitCodes
  <2>1. code # NoCode /\ ExitUnexpected \in AllExitCodes
    BY CodeNumbers DEF AllExitCodes
  <2> QED BY <2>1 DEF Seen
<1>3. ASSUME NEW code \in ServedExits
      PROVE  Seen(code) \in {ExitOK, ExitUnexpected, ExitEventStreamDropped}
  <2>1. code \in {ExitOK, ExitEventStreamDropped} \/ code \in {2, 137}
    BY CodeNumbers DEF ServedExits
  <2>2. 2 \notin AllExitCodes /\ 137 \notin AllExitCodes
    BY CodeNumbers DEF AllExitCodes
  <2>3. code # NoCode
    BY <2>1, CodeNumbers
  <2> QED BY <2>1, <2>2, <2>3 DEF Seen
<1> QED BY <1>1, <1>2, <1>3

(* The instance has its own copy of the contract's names.                   *)
LEMMA SameContract ==
  /\ Container!NoCode = NoCode /\ Container!NoStatus = NoStatus
  /\ Container!ExitOK = ExitOK /\ Container!ExitUnexpected = ExitUnexpected
  /\ Container!ExitEventStreamDropped = ExitEventStreamDropped
  /\ Container!AllExitCodes = AllExitCodes
<1>1. /\ Container!NoCode = NoCode
      /\ Container!ExitOK = ExitOK /\ Container!ExitUnexpected = ExitUnexpected
      /\ Container!ExitEventStreamDropped = ExitEventStreamDropped
  BY CodeNumbers
  DEF Container!NoCode, Container!ExitOK, Container!ExitUnexpected,
      Container!ExitEventStreamDropped
<1>2. Container!NoStatus = NoStatus
  BY <1>1 DEF Container!NoStatus, NoStatus
<1>3. Container!AllExitCodes = AllExitCodes
  BY CodeNumbers
  DEF Container!AllExitCodes, AllExitCodes,
      Container!ExitOK, Container!ExitUnexpected,
      Container!ExitSubdomainBusy, Container!ExitCNAMEBusy,
      Container!ExitAccountTunnelLimit, Container!ExitAuthFailed,
      Container!ExitInvalidSubdomain, Container!ExitNotAllowlisted,
      Container!ExitConfigFailure, Container!ExitEventServerUnreachable,
      Container!ExitEventStreamDropped
<1> QED BY <1>1, <1>2, <1>3

(* A step of the agent is a step of its container, or none.                 *)
LEMMA ContainerStep ==
  ASSUME AgentInv, AgentInv', [Next]_vars
  PROVE  [Container!Next]_Reported
<1> DEFINE Status == [state : ContainerStates, code : Codes, last : Codes]
<1>0. container \in Status /\ container' \in Status
  BY DEF AgentInv, Types, KubeletTypes
<1>1. /\ Reported.state = container.state
      /\ Reported' = [state |-> container'.state, code |-> Seen(container'.code),
                      last |-> Seen(container'.last)]
      /\ Reported = [state |-> container.state, code |-> Seen(container.code),
                     last |-> Seen(container.last)]
  BY DEF Reported
<1>2. CASE UNCHANGED container
  BY <1>1, <1>2
<1>3. CASE StartContainer
  <2>1. Container!Start
    BY <1>0, <1>1, <1>3, SeenCodes, SameContract DEF StartContainer, Container!Start
  <2> QED BY <2>1 DEF Container!Next
<1>4. CASE CrashLoopBackOff
  <2>1. Container!BackOff
    BY <1>0, <1>1, <1>4, SeenCodes, SameContract DEF CrashLoopBackOff, Container!BackOff
  <2> QED BY <2>1 DEF Container!Next
<1>5. CASE UseProbe
  <2>1. CASE probe = "ok" /\ container.state # "ready"
    <3>1. container' = [container EXCEPT !.state = "ready"]
      BY <1>5, <2>1 DEF UseProbe
    <3>2. Container!Ready
      BY <1>0, <1>1, <1>5, <2>1, <3>1 DEF UseProbe, Container!Ready
    <3> QED BY <3>2 DEF Container!Next
  <2>2. CASE probe # "ok" /\ container.state = "ready"
    <3>1. container' = [container EXCEPT !.state = "unready"]
      BY <1>5, <2>2 DEF UseProbe
    <3>2. Container!Unready
      BY <1>0, <1>1, <2>2, <3>1 DEF Container!Unready
    <3> QED BY <3>2 DEF Container!Next
  <2>3. CASE (probe = "ok") <=> (container.state = "ready")
    <3>1. UNCHANGED container
      BY <1>0, <1>5, <2>3 DEF UseProbe
    <3> QED BY <1>2, <3>1
  <2> QED BY <2>1, <2>2, <2>3
<1>6. CASE ContainerDied
  <2>1. exit \in Nat
    BY <1>6 DEF ContainerDied, AgentInv, Types, ProcessTypes, Codes
  <2>2. Seen(exit) \in AllExitCodes
    BY <2>1, SeenCodes
  <2>3. container.state # "running"
          => Seen(exit) \in {ExitOK, ExitUnexpected, ExitEventStreamDropped}
    <3>1. container.state # "running" => exit \in ServedExits
      BY <1>6 DEF ContainerDied, AgentInv, Served
    <3> QED BY <3>1, SeenCodes
  <2>4. container' = [container EXCEPT !.state = "terminated", !.code = exit]
    BY <1>6 DEF ContainerDied
  <2>5. container.state \in {"running", "ready", "unready"}
    BY <1>6 DEF ContainerDied
  <2>6. /\ container'.state = "terminated" /\ container'.code = exit
        /\ container'.last = container.last
    BY <1>0, <2>4
  <2>7. Container!Exit(Seen(exit))
    BY <1>1, <2>3, <2>5, <2>6, SameContract DEF Container!Exit
  <2> QED BY <2>2, <2>7, SameContract DEF Container!Next
<1>7. CASE Goroutines \/ Hosts \/ Probe \/ Terminate \/ OOMKilled
  <2>1. UNCHANGED container
    BY <1>7
    DEF Goroutines, Hosts, Probe, Terminate, OOMKilled, SendSigterm, Exit,
        KubeletOnly, kubelet, MainOnly, ClientOnly, HandlerOnly, ServerOnly,
        Arguments, Load, GoStart, Notify, AwaitSignal, GoServeHealth, Dial,
        RequestTunnel, ReceiveAnswer, CheckAnswer, NextConnection, LoseStream,
        serveHealth, DialBoth, SendPort, Grant, Refuse, Announce, Drop,
        FallSilent
  <2> QED BY <1>2, <2>1
<1>8. CASE UNCHANGED vars
  BY <1>2, <1>8 DEF vars, kubelet
<1> QED BY <1>3, <1>4, <1>5, <1>6, <1>7, <1>8 DEF Next, Kubelet

(* The agent does to its container only what TunnelController takes         *)
(* containers to do.                                                        *)
THEOREM AgentImplementsContainer == Spec => ImplementsContainer
<1>1. Init => Reported = Container!NoStatus
  BY SeenCodes, SameContract DEF Init, Reported, NoStatus
<1>2. AgentInv /\ AgentInv' /\ [Next]_vars => [Container!Next]_Reported
  BY ContainerStep
<1> QED BY <1>1, <1>2, AgentAlways, PTL
        DEF Spec, ImplementsContainer, Container!Spec
==============================================================================
