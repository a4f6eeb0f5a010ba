----------------------------- MODULE Forwarding -----------------------------
(***************************************************************************)
(* One forwarded connection: two loops (Bind, cli/jprq/bind.go) that copy   *)
(* between a connection to the jprq server and one to the backend, each     *)
(* with a tap to the HTTP debugger or without, from the moment handleEvent  *)
(* has dialed both (Agent has what comes before).                           *)
(*                                                                          *)
(* What is forwarded is a sequence of chunks per direction, numbered: what  *)
(* one Read returns.  What TCP may do is left to nondeterminism: a chunk    *)
(* written for a peer that has gone is lost, and comes back as a reset.     *)
(***************************************************************************)
EXTENDS Integers, Sequences

CONSTANTS Chunks,      \* chunks per direction
          Capacity,    \* chunks a tap can hold: 256 KiB, in each direction
          MaxTroubles  \* bound on what upsets a connection or a page

Directions == {"request", "response"}
Ends       == {"remote", "local"}

ASSUME ForwardingAssumption ==
  /\ Chunks \in Nat /\ MaxTroubles \in Nat
  /\ Capacity \in [Directions -> Nat \ {0}]

src(d) == IF d = "request" THEN "remote" ELSE "local"
dst(d) == IF d = "request" THEN "local" ELSE "remote"

VARIABLES
  http,      \* how many chunks, one message each, come before an Upgrade
  debugging, \* httpDebugger # nil
  panicked,  \* the process is gone
  open,      \* the agent's end of each connection
  peer,      \* the other end: "open", "finished" (its sending half shut down),
             \* "closed", "reset"
  sent,      \* how many chunks a source has sent
  read,      \* how many of them a loop has read
  loop,      \* where each loop is
  buf,       \* the chunk it is about to write or tap, 0 when there is none
  written,   \* chunks written for the destination
  slow,      \* a write of this direction has timed out
  tap,       \* what the pipe to the parser holds
  troubles

bindings == <<open, loop, buf, read, written, slow>>
peers    == <<peer, sent, troubles>>
fixed    == <<http, debugging>>

InitForwarding ==
  /\ http \in 0..Chunks /\ debugging \in BOOLEAN /\ panicked = FALSE
  /\ open = [e \in Ends |-> TRUE] /\ peer = [e \in Ends |-> "open"]
  /\ sent = [d \in Directions |-> 0] /\ read = [d \in Directions |-> 0]
  /\ loop = [d \in Directions |-> "read"] /\ buf = [d \in Directions |-> 0]
  /\ written = [d \in Directions |-> <<>>]
  /\ slow = [d \in Directions |-> FALSE]
  /\ tap = [d \in Directions |-> <<>>]
  /\ troubles = 0

Trouble == troubles < MaxTroubles /\ troubles' = troubles + 1

-----------------------------------------------------------------------------
(* Bind.                                                                    *)

At(d, label) == ~panicked /\ loop[d] = label
Go(d, label) == loop' = [loop EXCEPT ![d] = label]

(* Mutant of Read: any error ends the loop, the deadline's included.        *)
ReadOrReturn(d) ==
  /\ At(d, "read")
  /\ \/ /\ open[src(d)] /\ read[d] < sent[d]
        /\ read' = [read EXCEPT ![d] = @ + 1] /\ buf' = [buf EXCEPT ![d] = read'[d]]
        /\ Go(d, "write")
     \/ /\ read[d] = sent[d] \/ ~open[src(d)] \/ peer[src(d)] = "reset"
        /\ Go(d, "close dst") /\ UNCHANGED <<read, buf>>
  /\ UNCHANGED <<fixed, panicked, open, written, slow, tap, peers>>

(* Mutant of Read: a quiet second leaves the bytes of the last read in hand. *)
ReadAgain(d) ==
  /\ At(d, "read")
  /\ \/ /\ open[src(d)] /\ read[d] < sent[d]
        /\ read' = [read EXCEPT ![d] = @ + 1] /\ buf' = [buf EXCEPT ![d] = read'[d]]
     \/ /\ read[d] = sent[d] /\ peer[src(d)] = "open"
        /\ buf' = [buf EXCEPT ![d] = read[d]] /\ UNCHANGED read
  /\ Go(d, "write")
  /\ UNCHANGED <<fixed, panicked, open, written, slow, tap, peers>>

(* Only io.EOF ends the loop.  The one second deadline and a connection the *)
(* other loop has closed are errors too: the loop goes on with no bytes.    *)
(* So is a reset, once; what was sent before it may be lost.                *)
Read(d) ==
  /\ At(d, "read")
  /\ \/ /\ open[src(d)] /\ read[d] < sent[d]
        /\ read' = [read EXCEPT ![d] = @ + 1] /\ buf' = [buf EXCEPT ![d] = read'[d]]
        /\ Go(d, "write")
     \/ /\ \/ ~open[src(d)]
           \/ read[d] = sent[d] /\ peer[src(d)] = "open"
        /\ Go(d, "write") /\ UNCHANGED <<read, buf>>
     \/ /\ open[src(d)]
        /\ \/ read[d] = sent[d] /\ peer[src(d)] \in {"finished", "closed"}
           \/ peer[src(d)] = "reset"
        /\ Go(d, "close dst") /\ UNCHANGED <<read, buf>>
  /\ UNCHANGED <<fixed, panicked, open, written, slow, tap, peers>>

Broken(d) == ~open[dst(d)] \/ peer[dst(d)] = "reset"

Tapped(d) == debugging /\ buf[d] # 0
Emptied(d) == buf' = [buf EXCEPT ![d] = 0]

WriteFails(d, label) ==
  /\ Go(d, label)
  /\ \/ Broken(d) /\ UNCHANGED <<peers, slow>>
     \/ /\ ~Broken(d) /\ buf[d] # 0 /\ Trouble
        /\ slow' = [slow EXCEPT ![d] = TRUE] /\ UNCHANGED <<peer, sent>>
  /\ Emptied(d) /\ UNCHANGED written

WriteSucceeds(d) ==
  /\ ~Broken(d)
  /\ IF Tapped(d) THEN Go(d, "tap") /\ UNCHANGED buf
                  ELSE Go(d, "read") /\ Emptied(d)
  /\ IF buf[d] = 0 THEN UNCHANGED <<written, peer>>
     ELSE IF peer[dst(d)] = "closed"
          THEN peer' = [peer EXCEPT ![dst(d)] = "reset"] /\ UNCHANGED written
          ELSE written' = [written EXCEPT ![d] = Append(@, buf[d])]
                 /\ UNCHANGED peer
  /\ UNCHANGED <<sent, troubles, slow>>

(* Mutant of Write: its error is ignored like that of Read.                 *)
WriteOrGoOn(d) ==
  /\ At(d, "write")
  /\ WriteSucceeds(d) \/ WriteFails(d, IF open[dst(d)] THEN "read" ELSE "close dst")
  /\ UNCHANGED <<fixed, panicked, open, read, tap>>

(* An error of Write does end the loop: its destination is closed or reset, *)
(* or did not take the chunk within a second.  A chunk for a peer that has  *)
(* closed is taken by the kernel and answered with a reset.                 *)
Write(d) ==
  /\ At(d, "write")
  /\ WriteSucceeds(d) \/ WriteFails(d, "close dst")
  /\ UNCHANGED <<fixed, panicked, open, read, tap>>

(* Mutant of Tap: a pipe that grows.                                        *)
TapAnyway(d) ==
  /\ At(d, "tap")
  /\ tap' = [tap EXCEPT ![d] = Append(@, buf[d])]
  /\ Go(d, "read") /\ Emptied(d)
  /\ UNCHANGED <<fixed, panicked, open, read, written, slow, peers>>

(* debug.Write waits for room in the pipe.                                  *)
Tap(d) ==
  /\ At(d, "tap") /\ Len(tap[d]) < Capacity[d]
  /\ tap' = [tap EXCEPT ![d] = Append(@, buf[d])]
  /\ Go(d, "read") /\ Emptied(d)
  /\ UNCHANGED <<fixed, panicked, open, read, written, slow, peers>>

(* Mutant of Close: a loop closes the end it writes to and no other, and    *)
(* handleEvent defers nothing.                                              *)
CloseOne(d) ==
  /\ At(d, "close dst")
  /\ open' = [open EXCEPT ![dst(d)] = FALSE] /\ Go(d, "ended")
  /\ UNCHANGED <<fixed, panicked, read, buf, written, slow, tap, peers>>

(* The deferred calls, dst first.  handleEvent's own, after the request     *)
(* loop, find both ends closed already.                                     *)
Close(d) ==
  /\ \/ At(d, "close dst") /\ open' = [open EXCEPT ![dst(d)] = FALSE]
                           /\ Go(d, "close src")
     \/ At(d, "close src") /\ open' = [open EXCEPT ![src(d)] = FALSE]
                           /\ Go(d, "ended")
  /\ UNCHANGED <<fixed, panicked, read, buf, written, slow, tap, peers>>

Bind(d) == Read(d) \/ Write(d) \/ Tap(d) \/ Close(d)

-----------------------------------------------------------------------------
(* The client, behind the jprq server, and the backend.                     *)

PeersOnly == UNCHANGED <<fixed, panicked, bindings, tap>>

(* Messages take turns; an upgraded connection has no turns.                *)
Send(d) ==
  /\ ~panicked /\ open[src(d)] /\ peer[src(d)] = "open" /\ sent[d] < Chunks
  /\ sent[d] < http =>
       IF d = "request" THEN sent[d] <= Len(written["response"])
                        ELSE sent[d] < Len(written["request"])
  /\ sent' = [sent EXCEPT ![d] = @ + 1]
  /\ PeersOnly /\ UNCHANGED <<peer, troubles>>

(* A peer may shut down its sending half, close or crash; what it does once *)
(* the agent has closed makes no difference.                                *)
Leave(e, status) ==
  /\ open[e] /\ ~panicked /\ Trouble
  /\ peer' = [peer EXCEPT ![e] = status]
  /\ PeersOnly /\ UNCHANGED sent

ShutDown(e)  == peer[e] = "open" /\ Leave(e, "finished")
ClosePeer(e) == peer[e] \in {"open", "finished"} /\ Leave(e, "closed")
Reset(e)     == peer[e] # "reset" /\ Leave(e, "reset")

Peers ==
  \/ \E d \in Directions : Send(d)
  \/ \E e \in Ends : ShutDown(e) \/ ClosePeer(e) \/ Reset(e)

-----------------------------------------------------------------------------
(* Properties.                                                              *)

ForwardingTypeOK ==
  /\ http \in 0..Chunks /\ debugging \in BOOLEAN /\ panicked \in BOOLEAN
  /\ open \in [Ends -> BOOLEAN]
  /\ peer \in [Ends -> {"open", "finished", "closed", "reset"}]
  /\ sent \in [Directions -> 0..Chunks] /\ read \in [Directions -> 0..Chunks]
  /\ loop \in [Directions ->
                 {"read", "write", "tap", "close dst", "close src", "ended"}]
  /\ buf \in [Directions -> 0..Chunks]
  /\ written \in [Directions -> Seq(1..Chunks)]
  /\ slow \in [Directions -> BOOLEAN]
  /\ \A d \in Directions : Len(tap[d]) <= Capacity[d]
  /\ troubles \in 0..MaxTroubles

(* A destination is given what its source has sent, in order, without a gap *)
(* and without a repetition, whatever reads and writes fail on the way.     *)
InOrder ==
  \A d \in Directions :
    /\ Len(written[d]) <= sent[d]
    /\ \A n \in DOMAIN written[d] : written[d][n] = n

(* A connection is not cut short by the agent: when both loops have ended   *)
(* for a client that has not shut down even its sending half, the backend   *)
(* was neither reset (by an answer to a request it had closed itself to,    *)
(* for one) nor either side too slow, then the client was given all that    *)
(* the backend sent.  Quiet seconds, and an idle client, change nothing.    *)
(* A client that shuts down its sending half early is no such client: Bind  *)
(* answers its EOF by closing both ends.                                    *)
WholeResponse ==
  /\ \A d \in Directions : loop[d] = "ended" /\ ~slow[d]
  /\ peer["remote"] = "open" /\ peer["local"] # "reset"
  => Len(written["response"]) = sent["response"]

(* Each direction is a ByteStream: what was delivered is never taken back,  *)
(* and nothing more is once the agent has closed the destination or the     *)
(* destination has gone, in whatever order the loops, the deadlines and the *)
(* two ends get there.                                                      *)
Offered(d) == [n \in 1..sent[d] |-> n]
Severed(d) == Broken(d) \/ peer[dst(d)] = "closed"

RequestStream == INSTANCE ByteStream
  WITH Chunk <- 1..Chunks, offered <- Offered("request"),
       delivered <- written["request"], cut <- Severed("request")

ResponseStream == INSTANCE ByteStream
  WITH Chunk <- 1..Chunks, offered <- Offered("response"),
       delivered <- written["response"], cut <- Severed("response")

ImplementsStreams == RequestStream!Spec /\ ResponseStream!Spec
=============================================================================
