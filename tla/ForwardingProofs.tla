--------------------------- MODULE ForwardingProofs ---------------------------
(***************************************************************************)
(* What a forwarded connection delivers, for any number of chunks, any      *)
(* capacity, any browsers, and any number of ends that shut down, close,    *)
(* crash or are slow: chunks arrive in order and without a gap, and the     *)
(* agent does not cut a response short; and the debugger's page pairs       *)
(* requests and responses right and has no gaps.                            *)
(*                                                                          *)
(* The order follows one loop at a time (Ordered): up to a reset, what is   *)
(* written is what was read, but for the chunk in hand.  The second         *)
(* argument is about who ends first (Finished): as long as client and       *)
(* backend are well, the request loop has no reason to end but the response *)
(* loop's having closed its ends, and that loop none but EOF.               *)
(***************************************************************************)
EXTENDS Debugger, TLAPS

Labels   == {"read", "write", "tap", "close dst", "close src", "ended"}
Statuses == {"open", "finished", "closed", "reset"}
Closing  == {"close dst", "close src", "ended"}

Types ==
  /\ sent \in [Directions -> Nat] /\ read \in [Directions -> Nat]
  /\ buf \in [Directions -> Nat] /\ written \in [Directions -> Seq(Nat)]
  /\ loop \in [Directions -> Labels]
  /\ peer \in [Ends -> Statuses] /\ open \in [Ends -> BOOLEAN]
  /\ slow \in [Directions -> BOOLEAN]

Intact(d) == peer[dst(d)] # "reset"

Ordered(d) ==
  /\ read[d] <= sent[d] /\ Len(written[d]) <= read[d]
  /\ \A n \in DOMAIN written[d] : written[d][n] = n
  /\ loop[d] = "read" => buf[d] = 0
  /\ Intact(d) =>
       /\ loop[d] \in {"read", "tap"} => Len(written[d]) = read[d]
       /\ loop[d] = "write" =>
            IF buf[d] = 0 THEN Len(written[d]) = read[d]
            ELSE buf[d] = read[d] /\ Len(written[d]) = read[d] - 1

Well ==
  /\ peer["remote"] = "open" /\ peer["local"] # "reset"
  /\ ~slow["request"] /\ ~slow["response"]

Finished ==
  Well =>
    /\ \A e \in Ends : ~open[e] => loop["response"] \in Closing
    /\ loop["request"] \in Closing => loop["response"] \in Closing
    /\ loop["response"] \in Closing =>
         /\ Len(written["response"]) = sent["response"]
         /\ peer["local"] \in {"finished", "closed"}

ForwardInv == Types /\ (\A d \in Directions : Ordered(d)) /\ Finished

LEMMA Sides ==
  /\ Directions = {"request", "response"} /\ Ends = {"remote", "local"}
  /\ src("request") = "remote" /\ dst("request") = "local"
  /\ src("response") = "local" /\ dst("response") = "remote"
BY DEF Directions, Ends, src, dst

LEMMA TypeFacts ==
  ASSUME Types, NEW d \in Directions
  PROVE  /\ read[d] \in Nat /\ sent[d] \in Nat /\ buf[d] \in Nat
         /\ written[d] \in Seq(Nat) /\ Len(written[d]) \in Nat
         /\ loop[d] \in Labels
<1>1. written[d] \in Seq(Nat)
  BY DEF Types
<1>2. Len(written[d]) \in Nat
  BY <1>1
<1> QED BY <1>1, <1>2 DEF Types

LEMMA InitForwardInv == Init => ForwardInv
<1> SUFFICES ASSUME Init PROVE ForwardInv
  OBVIOUS
<1> USE DEF Init, InitForwarding
<1>1. Types
  BY DEF Types, Labels, Statuses
<1>2. ASSUME NEW d \in Directions
      PROVE  Ordered(d)
  BY DEF Ordered
<1>3. Finished
  BY Sides DEF Finished, Closing
<1> QED BY <1>1, <1>2, <1>3 DEF ForwardInv

(* Whoever is well was well before.                                         *)
LEMMA ReadKeeps ==
  ASSUME ForwardInv, NEW d \in Directions, Read(d)
  PROVE  ForwardInv'
<1> USE DEF ForwardInv, Read, At, Go, peers
<1>0. d \in {"request", "response"} /\ src(d) \in Ends /\ dst(d) \in Ends
  BY Sides
<1>1. Types'
  <2>1. UNCHANGED <<sent, written, peer, open, slow>>
    OBVIOUS
  <2>2. loop' \in [Directions -> Labels]
    BY DEF Types, Labels
  <2>3. read' \in [Directions -> Nat]
    <3>1. read' = read \/ read' = [read EXCEPT ![d] = read[d] + 1]
      OBVIOUS
    <3>2. read[d] + 1 \in Nat /\ read \in [Directions -> Nat]
      <4>1. Types
        OBVIOUS
      <4> HIDE DEF ForwardInv, Read, At, Go, peers
      <4>2. read[d] \in Nat
        BY <4>1, TypeFacts
      <4> QED BY <4>1, <4>2 DEF Types
    <3> HIDE DEF ForwardInv, Read, At, Go, peers
    <3> QED BY <3>1, <3>2
  <2>4. buf' \in [Directions -> Nat]
    <3>1. read'[d] \in Nat
      BY <2>3
    <3> QED BY <3>1 DEF Types
  <2> QED BY <2>1, <2>2, <2>3, <2>4 DEF Types
<1>2. ASSUME NEW e \in Directions
      PROVE  Ordered(e)'
  <2>1. CASE e # d
    <3>1. loop'[e] = loop[e] /\ read'[e] = read[e] /\ buf'[e] = buf[e]
      BY <2>1 DEF Types
    <3> QED BY <3>1 DEF Ordered, Intact
  <2>2. CASE e = d
    <3>1. CASE /\ read[d] < sent[d] /\ read' = [read EXCEPT ![d] = @ + 1]
               /\ buf' = [buf EXCEPT ![d] = read'[d]]
               /\ loop' = [loop EXCEPT ![d] = "write"]
      <4>1. read'[d] = read[d] + 1 /\ buf'[d] = read[d] + 1 /\ loop'[d] = "write"
        BY <3>1 DEF Types
      <4>2. read[d] \in Nat /\ sent[d] \in Nat /\ Len(written[d]) \in Nat
        BY TypeFacts
      <4>3. UNCHANGED <<sent, written, peer>> /\ loop[d] = "read"
        OBVIOUS
      <4> HIDE DEF Read
      <4> QED BY <2>2, <3>1, <4>1, <4>2, <4>3 DEF Ordered, Intact
    <3>2. CASE UNCHANGED <<read, buf>> /\ loop' = [loop EXCEPT ![d] = "write"]
      <4>1. loop'[d] = "write"
        BY <3>2 DEF Types
      <4> QED BY <2>2, <3>2, <4>1 DEF Ordered, Intact
    <3>3. CASE UNCHANGED <<read, buf>> /\ loop' = [loop EXCEPT ![d] = "close dst"]
      <4>1. loop'[d] = "close dst"
        BY <3>3 DEF Types
      <4> QED BY <2>2, <3>3, <4>1 DEF Ordered, Intact
    <3> QED BY <3>1, <3>2, <3>3
  <2> QED BY <2>1, <2>2
<1>3. Finished'
  <2> SUFFICES ASSUME Well' PROVE Finished'
    BY DEF Finished
  <2>1. Well
    BY DEF Well
  <2>2. CASE loop' = [loop EXCEPT ![d] = "write"]
    <3>1. \A e \in Directions : loop[e] \in Closing <=> loop'[e] \in Closing
      BY <2>2 DEF Types, Closing
    <3> QED BY <2>1, <3>1, Sides DEF Finished
  <2>3. CASE /\ loop' = [loop EXCEPT ![d] = "close dst"] /\ open[src(d)]
             /\ \/ read[d] = sent[d] /\ peer[src(d)] \in {"finished", "closed"}
                \/ peer[src(d)] = "reset"
    <3>1. d = "response"
      BY <1>0, <2>1, <2>3, Sides DEF Well
    <3>2. read[d] = sent[d] /\ peer["local"] \in {"finished", "closed"}
      BY <2>1, <2>3, <3>1, Sides DEF Well
    <3>3. Len(written[d]) = read[d]
      BY <2>1, <3>1, Sides DEF Ordered, Intact, Well
    <3>4. loop'["response"] = "close dst"
      BY <2>3, <3>1 DEF Types
    <3> QED BY <3>1, <3>2, <3>3, <3>4 DEF Finished, Closing
  <2> QED BY <2>2, <2>3
<1> QED BY <1>1, <1>2, <1>3

LEMMA WriteKeeps ==
  ASSUME ForwardInv, NEW d \in Directions, Write(d)
  PROVE  ForwardInv'
<1> USE DEF ForwardInv
<1>0. /\ d \in {"request", "response"} /\ dst(d) \in Ends
      /\ loop[d] = "write" /\ UNCHANGED <<open, read, sent>>
      /\ Types
  BY Sides DEF Write, At, WriteSucceeds, WriteFails, peers
<1>1. CASE WriteFails(d, "close dst")
  <2>0. /\ loop' = [loop EXCEPT ![d] = "close dst"]
        /\ buf' = [buf EXCEPT ![d] = 0] /\ UNCHANGED <<written, peer>>
        /\ \/ Broken(d) /\ UNCHANGED slow
           \/ slow' = [slow EXCEPT ![d] = TRUE]
    BY <1>1 DEF WriteFails, Go, Emptied, peers
  <2>1. Types'
    BY <1>0, <2>0 DEF Types, Labels
  <2>2. ASSUME NEW e \in Directions
        PROVE  Ordered(e)'
    <3>1. loop'[e] = IF e = d THEN "close dst" ELSE loop[e]
      BY <1>0, <2>0 DEF Types
    <3>2. e # d => buf'[e] = buf[e]
      BY <1>0, <2>0 DEF Types
    <3>3. Ordered(e) /\ UNCHANGED <<written, peer, sent, read>>
      BY <1>0, <2>0
    <3>4. CASE e = d
      BY <3>1, <3>3, <3>4 DEF Ordered, Intact
    <3>5. CASE e # d
      BY <3>1, <3>2, <3>3, <3>5 DEF Ordered, Intact
    <3> QED BY <3>4, <3>5
  <2>3. Finished'
    <3> SUFFICES ASSUME Well' PROVE Finished'
      BY DEF Finished
    <3>1. Well /\ ~slow'[d]
      <4>1. ~slow'[d]
        BY <1>0 DEF Well
      <4>2. UNCHANGED slow
        BY <1>0, <2>0, <4>1 DEF Types
      <4> QED BY <2>0, <4>1, <4>2 DEF Well
    <3>2. ~open[dst(d)]
      <4>1. Broken(d)
        BY <1>0, <2>0, <3>1 DEF Types
      <4> QED BY <1>0, <3>1, <4>1, Sides DEF Broken, Well
    <3>3. loop["response"] \in Closing
      BY <1>0, <3>1, <3>2 DEF Finished
    <3>4. loop'["response"] \in Closing
      <4>1. loop'["response"] \in {loop["response"], "close dst"}
        BY <1>0, <2>0, Sides DEF Types
      <4> QED BY <3>3, <4>1 DEF Closing
    <3> QED BY <1>0, <2>0, <3>1, <3>3, <3>4 DEF Finished
  <2> QED BY <2>1, <2>2, <2>3
<1>2. CASE WriteSucceeds(d)
  <2>0. /\ ~Broken(d) /\ UNCHANGED <<sent, slow>>
        /\ loop'[d] \in {"tap", "read"}
        /\ \A e \in Directions \ {d} : loop'[e] = loop[e]
        /\ loop' \in [Directions -> Labels]
        /\ \/ loop'[d] = "tap" /\ UNCHANGED buf
           \/ loop'[d] = "read" /\ buf' = [buf EXCEPT ![d] = 0]
    BY <1>0, <1>2 DEF WriteSucceeds, Go, Emptied, Types, Labels
  <2>1. \/ buf[d] = 0 /\ UNCHANGED <<written, peer>>
        \/ /\ buf[d] # 0 /\ peer[dst(d)] = "closed"
           /\ peer' = [peer EXCEPT ![dst(d)] = "reset"] /\ UNCHANGED written
        \/ /\ buf[d] # 0 /\ UNCHANGED peer
           /\ written' = [written EXCEPT ![d] = Append(written[d], buf[d])]
    BY <1>2 DEF WriteSucceeds
  <2>2. peer[dst(d)] # "reset"
    BY <2>0 DEF Broken
  <2>3. written' \in [Directions -> Seq(Nat)]
    <3>1. written[d] \in Seq(Nat) /\ buf[d] \in Nat
      BY <1>0, TypeFacts
    <3>2. Append(written[d], buf[d]) \in Seq(Nat)
      BY <3>1
    <3> QED BY <1>0, <2>1, <3>2 DEF Types
  <2>4. Types'
    <3>1. peer' \in [Ends -> Statuses]
      BY <1>0, <2>1 DEF Types, Statuses
    <3>2. buf' \in [Directions -> Nat]
      BY <1>0, <2>0 DEF Types
    <3> QED BY <1>0, <2>0, <2>3, <3>1, <3>2 DEF Types
  <2>5. ASSUME NEW e \in Directions
        PROVE  Ordered(e)'
    <3>1. CASE e # d
      <4>1. loop'[e] = loop[e] /\ buf'[e] = buf[e] /\ written'[e] = written[e]
        BY <1>0, <2>0, <2>1, <3>1 DEF Types
      <4>2. peer'[dst(e)] = peer[dst(e)]
        BY <1>0, <2>1, <3>1, Sides DEF Types
      <4> QED BY <1>0, <4>1, <4>2 DEF Ordered, Intact
    <3>2. CASE e = d /\ buf[d] = 0
      <4>1. UNCHANGED <<written, peer>> /\ buf'[d] = 0
        BY <1>0, <2>0, <2>1, <3>2 DEF Types
      <4> QED BY <1>0, <2>0, <3>2, <4>1 DEF Ordered, Intact
    <3>3. CASE e = d /\ buf[d] # 0 /\ UNCHANGED written
      <4>1. peer'[dst(d)] = "reset"
        BY <1>0, <2>1, <3>3 DEF Types
        \* Append changes written
      <4>2. loop'[d] = "read" => buf'[d] = 0
        BY <1>0, <2>0 DEF Types
      <4> QED BY <1>0, <2>0, <3>3, <4>1, <4>2 DEF Ordered, Intact
    <3>4. CASE /\ e = d /\ buf[d] # 0
               /\ written' = [written EXCEPT ![d] = Append(written[d], buf[d])]
      <4>1. /\ written[d] \in Seq(Nat) /\ buf[d] \in Nat /\ read[d] \in Nat
            /\ written'[d] = Append(written[d], buf[d])
        BY <1>0, <3>4, TypeFacts DEF Types
      <4>2. buf[d] = read[d] /\ Len(written[d]) = read[d] - 1
        BY <1>0, <2>2, <3>4 DEF Ordered, Intact
      <4>3. /\ Len(written'[d]) = read[d]
            /\ \A n \in DOMAIN written'[d] : written'[d][n] = n
        <5>1. \A n \in DOMAIN written[d] : written[d][n] = n
          BY DEF Ordered
        <5> QED BY <4>1, <4>2, <5>1
      <4>4. loop'[d] = "read" => buf'[d] = 0
        BY <1>0, <2>0 DEF Types
      <4>5. read[d] <= sent[d]
        BY DEF Ordered
      <4> QED BY <1>0, <2>0, <3>4, <4>1, <4>3, <4>4, <4>5 DEF Ordered, Intact
    <3> QED BY <2>1, <3>1, <3>2, <3>3, <3>4
  <2>6. Finished'
    <3> SUFFICES ASSUME Well' PROVE Finished'
      BY DEF Finished
    <3>1. peer' = peer /\ Well
      <4>1. peer'[dst(d)] # "reset"
        BY <1>0, Sides DEF Well
      <4>2. peer' = peer
        BY <1>0, <2>1, <4>1 DEF Types
      <4> QED BY <2>0, <4>2 DEF Well
    <3>2. \A e \in Directions : loop'[e] \in Closing <=> loop[e] \in Closing
      BY <1>0, <2>0 DEF Closing
    <3>3. loop["response"] \in Closing => written'["response"] = written["response"]
      BY <1>0, <2>1, Sides DEF Types, Closing
    <3> QED BY <1>0, <3>1, <3>2, <3>3, Sides DEF Finished
  <2> QED BY <2>4, <2>5, <2>6
<1> QED BY <1>1, <1>2 DEF Write

LEMMA TapKeeps ==
  ASSUME ForwardInv, NEW d \in Directions, Tap(d)
  PROVE  ForwardInv'
<1> USE DEF ForwardInv
<1>0. /\ Types /\ loop[d] = "tap" /\ loop' = [loop EXCEPT ![d] = "read"]
      /\ buf' = [buf EXCEPT ![d] = 0]
      /\ UNCHANGED <<open, read, written, slow, peer, sent>>
  BY DEF Tap, At, Go, Emptied, peers
<1>1. Types'
  BY <1>0 DEF Types, Labels
<1>2. ASSUME NEW e \in Directions
      PROVE  Ordered(e)'
  <2>1. /\ loop'[e] = IF e = d THEN "read" ELSE loop[e]
        /\ buf'[e] = IF e = d THEN 0 ELSE buf[e]
    BY <1>0 DEF Types
  <2> QED BY <1>0, <2>1 DEF Ordered, Intact
<1>3. Finished'
  <2>1. \A e \in Directions : loop'[e] \in Closing <=> loop[e] \in Closing
    BY <1>0 DEF Types, Closing
  <2> QED BY <1>0, <2>1, Sides DEF Finished, Well
<1> QED BY <1>1, <1>2, <1>3

(* The request loop comes to close its ends after the response loop only.   *)
LEMMA CloseKeeps ==
  ASSUME ForwardInv, NEW d \in Directions, Close(d)
  PROVE  ForwardInv'
<1> USE DEF ForwardInv
<1>0. /\ Types /\ d \in {"request", "response"}
      /\ UNCHANGED <<read, buf, written, slow, peer, sent>>
      /\ loop[d] \in Closing
  BY Sides DEF Close, At, peers, Closing
<1>1. PICK e \in Ends, label \in {"close src", "ended"} :
        open' = [open EXCEPT ![e] = FALSE] /\ loop' = [loop EXCEPT ![d] = label]
  BY <1>0, Sides DEF Close, Go
<1>2. Types'
  BY <1>0, <1>1 DEF Types, Labels
<1>3. ASSUME NEW c \in Directions
      PROVE  Ordered(c)'
  <2>1. loop'[c] = loop[c] \/ loop'[c] \in {"close src", "ended"}
    BY <1>0, <1>1 DEF Types
  <2> QED BY <1>0, <2>1 DEF Ordered, Intact
<1>4. Finished'
  <2>1. \A c \in Directions : loop'[c] \in Closing <=> loop[c] \in Closing
    BY <1>0, <1>1 DEF Types, Closing
  <2>2. Well => loop["response"] \in Closing
    BY <1>0, Sides DEF Finished
  <2> QED BY <1>0, <2>1, <2>2, Sides DEF Finished, Well
<1> QED BY <1>2, <1>3, <1>4

(* A backend that is no longer open sends no more, so what the response     *)
(* loop has delivered when it closes stays all there is.                    *)
LEMMA SendKeeps ==
  ASSUME ForwardInv, NEW d \in Directions, Send(d)
  PROVE  ForwardInv'
<1> USE DEF ForwardInv
<1>0. /\ Types /\ UNCHANGED <<open, loop, buf, read, written, slow, peer>>
      /\ peer[src(d)] = "open" /\ sent' = [sent EXCEPT ![d] = sent[d] + 1]
  BY DEF Send, PeersOnly, bindings
<1>1. Types'
  <2>1. sent[d] + 1 \in Nat
    BY <1>0, TypeFacts
  <2>2. sent' \in [Directions -> Nat]
    BY <1>0, <2>1 DEF Types
  <2> QED BY <1>0, <2>2 DEF Types
<1>2. ASSUME NEW e \in Directions
      PROVE  Ordered(e)'
  <2>1. sent[e] \in Nat /\ read[e] \in Nat
    BY <1>0, TypeFacts
  <2>2. sent'[e] = sent[e] \/ sent'[e] = sent[e] + 1
    BY <1>0 DEF Types
  <2>3. read[e] <= sent[e] => read[e] <= sent'[e]
    BY <2>1, <2>2
  <2> QED BY <1>0, <2>3 DEF Ordered, Intact
<1>3. Finished'
  <2>1. loop["response"] \in Closing /\ Well => sent'["response"] = sent["response"]
    BY <1>0, Sides DEF Finished, Types
  <2> QED BY <1>0, <2>1 DEF Finished, Well
<1> QED BY <1>1, <1>2, <1>3

(* No end opens again.                                                      *)
LEMMA LeaveKeeps ==
  ASSUME ForwardInv, NEW e \in Ends, ShutDown(e) \/ ClosePeer(e) \/ Reset(e)
  PROVE  ForwardInv'
<1> USE DEF ForwardInv
<1>0. PICK status \in {"finished", "closed", "reset"} :
        /\ Leave(e, status)
        /\ peer[e] # "reset"
  BY DEF ShutDown, ClosePeer, Reset
<1>1. /\ Types /\ UNCHANGED <<open, loop, buf, read, written, slow, sent>>
      /\ peer' = [peer EXCEPT ![e] = status]
  BY <1>0 DEF Leave, PeersOnly, bindings
<1>2. Types'
  BY <1>1 DEF Types, Statuses
<1>3. ASSUME NEW d \in Directions
      PROVE  Ordered(d)'
  <2>1. dst(d) \in Ends
    BY Sides
  <2>2. Intact(d)' => Intact(d)
    BY <1>0, <1>1, <2>1 DEF Types, Intact
  <2> QED BY <1>1, <2>2 DEF Ordered
<1>4. Finished'
  <2> SUFFICES ASSUME Well' PROVE Finished'
    BY DEF Finished
  <2>1. e = "local" /\ status \in {"finished", "closed"}
    BY <1>1, Sides DEF Well, Types
  <2>2. Well
    BY <1>0, <1>1, <2>1 DEF Well, Types
  <2>3. peer'["local"] \in {"finished", "closed"}
    BY <1>1, <2>1 DEF Types
  <2> QED BY <1>1, <2>2, <2>3 DEF Finished
<1> QED BY <1>2, <1>3, <1>4

(* The debugger sees a connection and changes none of it: not even a        *)
(* parser that stops makes anything but a loop wait.                        *)
copied == <<sent, read, buf, written, loop, peer, open, slow>>

LEMMA OthersCopyNothing == [Next]_vars /\ ~Connection => UNCHANGED copied
<1> SUFFICES ASSUME [Next]_vars, ~Connection PROVE UNCHANGED copied
  OBVIOUS
<1> USE DEF copied, forwarding, bindings, peers
<1>1. ASSUME NEW d \in Directions, Parse(d) \/ dispatchEvent(d)
      PROVE  UNCHANGED copied
  BY <1>1 DEF Parse, dispatchEvent, RangeOn, GoSend, EndRange
<1>2. ASSUME NEW b \in Browsers, Join(b) \/ DeleteListener(b) \/ CloseEvents(b)
      PROVE  UNCHANGED copied
  BY <1>2 DEF Join, DeleteListener, CloseEvents, WriteListeners
<1>3. ASSUME NEW p \in pending, Receive(p) \/ SendPanics(p)
      PROVE  UNCHANGED copied
  BY <1>3 DEF Receive, SendPanics
<1>4. CASE UNCHANGED vars
  BY <1>4 DEF vars
<1> QED BY <1>1, <1>2, <1>3, <1>4 DEF Next

LEMMA OthersKeep ==
  ASSUME ForwardInv, [Next]_vars, ~Connection
  PROVE  ForwardInv'
<1>1. UNCHANGED copied
  BY OthersCopyNothing
<1> QED BY <1>1 DEF ForwardInv, Types, Ordered, Intact, Finished, Well, copied

LEMMA StepForwardInv == ForwardInv /\ [Next]_vars => ForwardInv'
<1> SUFFICES ASSUME ForwardInv, [Next]_vars PROVE ForwardInv'
  OBVIOUS
<1>1. CASE Connection
  <2>1. ASSUME NEW d \in Directions, Bind(d)
        PROVE  ForwardInv'
    BY <2>1, ReadKeeps, WriteKeeps, TapKeeps, CloseKeeps DEF Bind
  <2>2. CASE Peers
    BY <2>2, SendKeeps, LeaveKeeps DEF Peers
  <2> QED BY <1>1, <2>1, <2>2 DEF Connection
<1>2. CASE ~Connection
  BY <1>2, OthersKeep
<1> QED BY <1>1, <1>2

LEMMA AlwaysForwardInv == Spec => []ForwardInv
<1> QED BY InitForwardInv, StepForwardInv, PTL DEF Spec

(* Whatever reads and writes fail on the way, a destination is given what   *)
(* its source has sent, in order, without a gap and without a repetition    *)
(* (Bind in cli/jprq/bind.go).                                              *)
THEOREM ChunksInOrder == Spec => []InOrder
<1>1. ASSUME ForwardInv, NEW d \in Directions
      PROVE  /\ Len(written[d]) <= sent[d]
             /\ \A n \in DOMAIN written[d] : written[d][n] = n
  <2>1. Types /\ Ordered(d)
    BY <1>1 DEF ForwardInv
  <2>2. read[d] \in Nat /\ sent[d] \in Nat /\ Len(written[d]) \in Nat
    BY <2>1, TypeFacts
  <2> QED BY <2>1, <2>2 DEF Ordered
<1>2. ForwardInv => InOrder
  BY <1>1 DEF InOrder
<1> QED BY AlwaysForwardInv, <1>2, PTL

(* When both loops of Bind have ended for a client that has not even shut   *)
(* down its sending half, with a backend that was not reset and no side too *)
(* slow, the client was given all that the backend sent.                    *)
THEOREM ResponsesAreWhole == Spec => []WholeResponse
<1>1. ForwardInv => WholeResponse
  BY Sides DEF ForwardInv, WholeResponse, Finished, Well, Closing
<1> QED BY AlwaysForwardInv, <1>1, PTL

-----------------------------------------------------------------------------
(* The debugger.  A parser that swallows none of its messages counts them   *)
(* as the loop does: the n-th chunk becomes the message with number n - 1   *)
(* on either side, and page and senders go by that number.                  *)

Events  == [kind : Directions, id : Nat, message : Nat]
Parsers == {"parsing", "ranging", "stopped"}
Pages   == [received : SUBSET Events, requests : SUBSET Events,
            early : SUBSET Events,
            answered : SUBSET [request : Nat, response : Nat]]

Inspected ==
  /\ tap \in [Directions -> Seq(Nat)] /\ index \in [Directions -> Nat]
  /\ parser \in [Directions -> Parsers] /\ swallowed \in BOOLEAN
  /\ event \in [Directions -> Events]
  /\ left \in [Directions -> SUBSET Browsers]
  /\ listener \in [Directions -> SUBSET Browsers]
  /\ \A p \in pending : p.browser \in Browsers /\ p.event \in Events
  /\ page \in [Browsers -> Pages]

Carried(d) == IF buf[d] # 0 THEN 1 ELSE 0

Counted(d) ==
  /\ buf[d] # 0 => buf[d] = read[d] /\ loop[d] \in {"write", "tap"}
  /\ loop[d] = "tap" => buf[d] # 0 /\ debugging
  /\ ~swallowed /\ parser[d] # "stopped" =>
       /\ \A i \in DOMAIN tap[d] : tap[d][i] = index[d] + i
       /\ debugging /\ loop[d] \notin Closing
            => index[d] + Len(tap[d]) + Carried(d) = read[d]

Right(e) == e.message = e.id + 1

Shown(s) ==
  /\ \A e \in s.requests \cup s.early : Right(e)
  /\ \A a \in s.answered : a.request = a.response

Paired ==
  ~swallowed =>
    /\ \A d \in Directions : parser[d] = "ranging" => Right(event[d])
    /\ \A p \in pending : Right(p.event)
    /\ \A b \in Browsers : Shown(page[b])

DebugInv == Inspected /\ (\A d \in Directions : Counted(d)) /\ Paired

LEMMA InitDebugInv == Init => DebugInv
<1> SUFFICES ASSUME Init PROVE DebugInv
  OBVIOUS
<1> USE DEF Init, InitForwarding
<1>1. NoEvent \in Events /\ EmptyPage \in Pages /\ Shown(EmptyPage)
  BY Sides DEF NoEvent, Events, EmptyPage, Pages, Shown
<1>2. Inspected
  <2>1. tap \in [Directions -> Seq(Nat)] /\ index \in [Directions -> Nat]
    OBVIOUS
  <2>2. parser \in [Directions -> Parsers] /\ swallowed \in BOOLEAN
    BY DEF Parsers
  <2> QED BY <1>1, <2>1, <2>2 DEF Inspected
<1>3. ASSUME NEW d \in Directions
      PROVE  Counted(d)
  BY DEF Counted, Carried
<1>4. Paired
  BY <1>1 DEF Paired
<1> QED BY <1>2, <1>3, <1>4 DEF DebugInv

(* A loop step changes at most one chunk in hand and one pipe.              *)
LEMMA ReadCounts ==
  ASSUME ForwardInv, DebugInv, NEW d \in Directions, Read(d),
         UNCHANGED <<parsing, views>>
  PROVE  DebugInv'
<1> USE DEF DebugInv, parsing, ranges, views
<1>1. /\ Types /\ loop[d] = "read" /\ buf[d] = 0 /\ read[d] \in Nat
      /\ UNCHANGED <<tap, debugging>>
      /\ \/ /\ read' = [read EXCEPT ![d] = read[d] + 1]
            /\ buf' = [buf EXCEPT ![d] = read'[d]]
            /\ loop' = [loop EXCEPT ![d] = "write"]
         \/ /\ UNCHANGED <<read, buf>>
            /\ \/ loop' = [loop EXCEPT ![d] = "write"]
               \/ loop' = [loop EXCEPT ![d] = "close dst"]
  <2>1. Types /\ loop[d] = "read" /\ buf[d] = 0
    BY DEF ForwardInv, Read, At, Ordered
  <2>2. read[d] \in Nat
    BY <2>1, TypeFacts
  <2> QED BY <2>1, <2>2 DEF Read, Go, fixed
<1>2. Inspected' /\ Paired'
  BY <1>1 DEF Inspected, Paired
<1>3. ASSUME NEW e \in Directions
      PROVE  Counted(e)'
  <2>1. CASE e # d
    <3>1. read'[e] = read[e] /\ buf'[e] = buf[e] /\ loop'[e] = loop[e]
      BY <1>1, <2>1 DEF Types
    <3> QED BY <1>1, <3>1 DEF Counted, Carried
  <2>2. CASE e = d
    <3>1. Len(tap[d]) \in Nat /\ index[d] \in Nat
      BY DEF Inspected
    <3>2. \/ /\ read'[d] = read[d] + 1 /\ buf'[d] = read[d] + 1
             /\ loop'[d] = "write"
          \/ /\ read'[d] = read[d] /\ buf'[d] = 0
             /\ loop'[d] \in {"write", "close dst"}
      BY <1>1 DEF Types
    <3>3. UNCHANGED <<tap, index, parser, swallowed, debugging>>
      BY <1>1
    <3>4. Counted(d)
      OBVIOUS
    <3> HIDE DEF DebugInv
    <3>5. ~swallowed /\ parser[d] # "stopped" =>
            /\ \A i \in DOMAIN tap[d] : tap[d][i] = index[d] + i
            /\ debugging => index[d] + Len(tap[d]) = read[d]
      <4>1. loop[d] \notin Closing /\ Carried(d) = 0
        BY <1>1 DEF Closing, Carried
      <4> QED BY <3>1, <3>4, <4>1 DEF Counted
    <3>6. read'[d] = read[d] + Carried(d)' /\ Carried(d)' \in Nat
      <4>1. read[d] \in Nat
        BY <1>1
      <4>2. \/ read'[d] = read[d] + 1 /\ buf'[d] # 0
            \/ read'[d] = read[d] /\ buf'[d] = 0
        <5>1. read[d] + 1 # 0
          BY <4>1
        <5> QED BY <3>2, <5>1
      <4> QED BY <4>1, <4>2 DEF Carried
    <3>7. ASSUME debugging, ~swallowed, parser[d] # "stopped"
          PROVE  index[d] + Len(tap[d]) + Carried(d)' = read'[d]
      <4>1. index[d] + Len(tap[d]) = read[d]
        BY <3>5, <3>7
      <4>2. read'[d] = read[d] + Carried(d)'
        BY <3>6
      <4> QED BY <4>1, <4>2
    <3>8. /\ buf'[d] # 0 => buf'[d] = read'[d] /\ loop'[d] = "write"
          /\ loop'[d] # "tap"
      BY <3>2
    <3> QED BY <2>2, <3>3, <3>5, <3>7, <3>8 DEF Counted
  <2> QED BY <2>1, <2>2
<1> QED BY <1>2, <1>3

LEMMA WriteCounts ==
  ASSUME ForwardInv, DebugInv, NEW d \in Directions, Write(d),
         UNCHANGED <<parsing, views>>
  PROVE  DebugInv'
<1> USE DEF DebugInv, parsing, ranges, views
<1>1. /\ Types /\ loop[d] = "write" /\ UNCHANGED <<tap, debugging, read>>
      /\ \/ /\ Tapped(d) /\ UNCHANGED buf
            /\ loop' = [loop EXCEPT ![d] = "tap"]
         \/ /\ ~Tapped(d) /\ buf' = [buf EXCEPT ![d] = 0]
            /\ loop' = [loop EXCEPT ![d] = "read"]
         \/ /\ buf' = [buf EXCEPT ![d] = 0]
            /\ loop' = [loop EXCEPT ![d] = "close dst"]
  BY DEF ForwardInv, Write, WriteSucceeds, WriteFails, At, Go, Emptied, fixed
<1>2. Inspected' /\ Paired'
  BY <1>1 DEF Inspected, Paired
<1>3. ASSUME NEW e \in Directions
      PROVE  Counted(e)'
  <2>1. CASE e # d
    <3>1. buf'[e] = buf[e] /\ loop'[e] = loop[e]
      BY <1>1, <2>1 DEF Types
    <3> QED BY <1>1, <3>1 DEF Counted, Carried
  <2>2. CASE e = d
    <3>1. \/ Tapped(d) /\ buf'[d] = buf[d] /\ loop'[d] = "tap"
          \/ ~Tapped(d) /\ buf'[d] = 0 /\ loop'[d] = "read"
          \/ buf'[d] = 0 /\ loop'[d] = "close dst"
      BY <1>1 DEF Types
    <3>2. Counted(d)
      OBVIOUS
    <3> QED BY <1>1, <2>2, <3>1, <3>2 DEF Counted, Carried, Tapped, Closing
  <2> QED BY <2>1, <2>2
<1> QED BY <1>2, <1>3

LEMMA TapCounts ==
  ASSUME ForwardInv, DebugInv, NEW d \in Directions, Tap(d),
         UNCHANGED <<parsing, views>>
  PROVE  DebugInv'
<1> USE DEF DebugInv, parsing, ranges, views
<1>1. /\ Types /\ loop[d] = "tap" /\ UNCHANGED <<debugging, read>>
      /\ tap' = [tap EXCEPT ![d] = Append(tap[d], buf[d])]
      /\ loop' = [loop EXCEPT ![d] = "read"] /\ buf' = [buf EXCEPT ![d] = 0]
  BY DEF ForwardInv, Tap, At, Go, Emptied, fixed
<1>2. /\ buf[d] \in Nat /\ read[d] \in Nat /\ index[d] \in Nat
      /\ tap[d] \in Seq(Nat) /\ Len(tap[d]) \in Nat
  <2>1. tap[d] \in Seq(Nat) /\ index[d] \in Nat
    BY DEF Inspected
  <2> QED BY <1>1, <2>1, TypeFacts
<1>3. Inspected' /\ Paired'
  <2>1. Append(tap[d], buf[d]) \in Seq(Nat)
    BY <1>2
  <2> QED BY <1>1, <2>1 DEF Inspected, Paired
<1>4. ASSUME NEW e \in Directions
      PROVE  Counted(e)'
  <2>1. CASE e # d
    <3>1. buf'[e] = buf[e] /\ loop'[e] = loop[e] /\ tap'[e] = tap[e]
      BY <1>1, <2>1 DEF Types, Inspected
    <3> QED BY <1>1, <3>1 DEF Counted, Carried
  <2>2. CASE e = d
    <3>1. /\ tap'[d] = Append(tap[d], buf[d]) /\ loop'[d] = "read" /\ buf'[d] = 0
      BY <1>1 DEF Types, Inspected
    <3>2. /\ Len(tap'[d]) = Len(tap[d]) + 1 /\ DOMAIN tap'[d] = 1..Len(tap[d]) + 1
          /\ tap'[d][Len(tap[d]) + 1] = buf[d]
          /\ \A i \in DOMAIN tap[d] : tap'[d][i] = tap[d][i]
          /\ DOMAIN tap[d] = 1..Len(tap[d])
      BY <1>2, <3>1
    <3>3. buf[d] # 0 /\ buf[d] = read[d] /\ debugging
      BY <1>1 DEF Counted
    <3>4. ASSUME ~swallowed, parser[d] # "stopped"
          PROVE  /\ index[d] + Len(tap[d]) + 1 = read[d]
                 /\ \A i \in DOMAIN tap'[d] : tap'[d][i] = index[d] + i
      <4>1. index[d] + Len(tap[d]) + 1 = read[d]
        BY <1>1, <3>3, <3>4 DEF Counted, Carried, Closing
      <4>2. ASSUME NEW i \in DOMAIN tap'[d]
            PROVE  tap'[d][i] = index[d] + i
        <5>1. CASE i \in DOMAIN tap[d]
          BY <3>2, <3>4, <5>1 DEF Counted
        <5>2. CASE i = Len(tap[d]) + 1
          <6>1. tap'[d][i] = read[d]
            BY <3>2, <3>3, <5>2
          <6> QED BY <1>2, <4>1, <5>2, <6>1
        <5> QED BY <1>2, <3>2, <5>1, <5>2
      <4> QED BY <4>1, <4>2
    <3>5. UNCHANGED <<index, parser, swallowed, debugging, read>>
      BY <1>1
    <3> HIDE DEF DebugInv
    <3>6. ASSUME ~swallowed, parser[d] # "stopped"
          PROVE  index[d] + Len(tap'[d]) + 0 = read[d]
      <4>1. index[d] + Len(tap[d]) + 1 = read[d]
        BY <3>4, <3>6
      <4>2. Len(tap'[d]) = Len(tap[d]) + 1
        BY <3>2
      <4>3. index[d] \in Nat /\ Len(tap[d]) \in Nat /\ read[d] \in Nat
        BY <1>2
      <4> QED BY <4>1, <4>2, <4>3
    <3>7. Carried(d)' = 0
      BY <3>1 DEF Carried
    <3> QED BY <2>2, <3>1, <3>4, <3>5, <3>6, <3>7 DEF Counted
  <2> QED BY <2>1, <2>2
<1> QED BY <1>3, <1>4

LEMMA RestCounts ==
  ASSUME ForwardInv, DebugInv, Close("request") \/ Close("response") \/ Peers,
         UNCHANGED <<parsing, views>>
  PROVE  DebugInv'
<1> USE DEF DebugInv, parsing, ranges, views
<1>1. /\ Types /\ UNCHANGED <<tap, debugging, read, buf>>
      /\ \A d \in Directions :
           loop'[d] = loop[d] \/ (loop[d] \in Closing /\ loop'[d] \in Closing)
  <2>1. Types
    BY DEF ForwardInv
  <2>2. CASE Peers
    <3>1. UNCHANGED <<tap, debugging, read, buf, loop>>
      BY <2>2
      DEF Peers, Send, ShutDown, ClosePeer, Reset, Leave, PeersOnly, bindings, fixed
    <3>2. \A d \in Directions : loop'[d] = loop[d]
      BY <3>1
    <3> QED BY <2>1, <3>1, <3>2, Zenon
  <2>3. ASSUME NEW d \in Directions, Close(d)
        PROVE  /\ UNCHANGED <<tap, debugging, read, buf>>
               /\ \A e \in Directions :
                    loop'[e] = loop[e] \/ (loop[e] \in Closing /\ loop'[e] \in Closing)
    <3>1. UNCHANGED <<tap, debugging, read, buf>> /\ loop[d] \in Closing
      BY <2>3 DEF Close, At, fixed, Closing
    <3>2. PICK label \in {"close src", "ended"} :
            loop' = [loop EXCEPT ![d] = label]
      BY <2>3 DEF Close, Go
    <3>3. ASSUME NEW e \in Directions
          PROVE  loop'[e] = loop[e] \/ (loop[e] \in Closing /\ loop'[e] \in Closing)
      <4>1. loop'[e] = IF e = d THEN label ELSE loop[e]
        BY <2>1, <3>2 DEF Types
      <4> QED BY <3>1, <4>1 DEF Closing
    <3> QED BY <3>1, <3>3, Zenon
  <2> QED BY <2>1, <2>2, <2>3, Sides
<1>2. Inspected' /\ Paired'
  BY <1>1 DEF Inspected, Paired
<1>3. ASSUME NEW e \in Directions
      PROVE  Counted(e)'
  BY <1>1 DEF Counted, Carried, Closing
<1> QED BY <1>2, <1>3

LEMMA TailFacts ==
  ASSUME NEW s \in Seq(Nat), s # <<>>
  PROVE  /\ Len(s) \in Nat /\ Len(Tail(s)) \in Nat
         /\ Len(Tail(s)) + 1 = Len(s)
         /\ \A i \in DOMAIN Tail(s) :
              i \in Nat /\ i + 1 \in DOMAIN s /\ Tail(s)[i] = s[i + 1]
<1>1. Len(s) \in Nat /\ Len(s) # 0 /\ DOMAIN s = 1..Len(s)
  OBVIOUS
<1>2. Len(Tail(s)) = Len(s) - 1 /\ DOMAIN Tail(s) = 1..Len(s) - 1
  OBVIOUS
<1>3. \A i \in 1..Len(s) - 1 : Tail(s)[i] = s[i + 1]
  OBVIOUS
<1> QED BY <1>1, <1>2, <1>3

(* As long as nothing is swallowed the messages in a pipe keep the numbers  *)
(* of their chunks.                                                         *)
LEMMA ParseCounts ==
  ASSUME DebugInv, NEW d \in Directions, Parse(d)
  PROVE  DebugInv'
<1> USE DEF DebugInv
<1>1. /\ UNCHANGED <<debugging, loop, read, buf, listener, pending, page>>
      /\ parser[d] = "parsing" /\ tap[d] # <<>>
      /\ tap[d] \in Seq(Nat) /\ index[d] \in Nat
  BY DEF Parse, bindings, fixed, views, Inspected
<1>2. PICK rest \in {Tail(tap[d]), <<>>, <<Torn>>} :
        /\ Len(tap[d]) = 1 => rest = <<>>
        /\ swallowed' = (swallowed \/ rest # Tail(tap[d]))
        /\ tap' = [tap EXCEPT ![d] = rest]
  BY DEF Parse
<1>3. \/ /\ parser' = [parser EXCEPT ![d] = "stopped"]
         /\ UNCHANGED <<index, event, left>>
      \/ /\ parser' = [parser EXCEPT ![d] = "ranging"]
         /\ event' = [event EXCEPT ![d] = Message(d)]
         /\ index' = [index EXCEPT ![d] = index[d] + 1]
         /\ left' = [left EXCEPT ![d] = Listeners]
  BY DEF Parse
<1>4. rest \in Seq(Nat) /\ Head(tap[d]) \in Nat
  <2>1. Torn \in Nat
    BY ForwardingAssumption DEF Torn
  <2>2. <<Torn>> \in Seq(Nat) /\ <<>> \in Seq(Nat)
    BY <2>1
  <2>3. Tail(tap[d]) \in Seq(Nat) /\ Head(tap[d]) \in Nat
    BY <1>1
  <2> QED BY <2>2, <2>3
<1>5. Message(d) \in Events
  BY <1>1, <1>4 DEF Message, Events
<1>6. Inspected'
  <2>1. tap' \in [Directions -> Seq(Nat)] /\ swallowed' \in BOOLEAN
    BY <1>2, <1>4 DEF Inspected
  <2>2. parser' \in [Directions -> Parsers]
    BY <1>3 DEF Inspected, Parsers
  <2>3. event' \in [Directions -> Events]
    BY <1>3, <1>5 DEF Inspected
  <2>4. index' \in [Directions -> Nat]
    <3>1. index \in [Directions -> Nat] /\ index[d] + 1 \in Nat
      BY <1>1 DEF Inspected
    <3> HIDE DEF DebugInv
    <3> QED BY <1>3, <3>1
  <2>5. left' \in [Directions -> SUBSET Browsers]
    <3>1. left \in [Directions -> SUBSET Browsers]
      BY DEF Inspected
    <3>2. Listeners \in SUBSET Browsers
      BY DEF Listeners
    <3> HIDE DEF DebugInv
    <3> QED BY <1>3, <3>1, <3>2
  <2> QED BY <1>1, <2>1, <2>2, <2>3, <2>4, <2>5 DEF Inspected
<1>7. ASSUME ~swallowed'
      PROVE  ~swallowed /\ rest = Tail(tap[d])
  <2>1. swallowed' <=> (swallowed \/ rest # Tail(tap[d]))
    BY <1>2
  <2> QED BY <1>7, <2>1
<1>8. ASSUME NEW e \in Directions
      PROVE  Counted(e)'
  <2>1. CASE e # d
    <3>1. tap'[e] = tap[e] /\ parser'[e] = parser[e] /\ index'[e] = index[e]
      BY <1>2, <1>3, <2>1 DEF Inspected
    <3> QED BY <1>1, <1>2, <3>1 DEF Counted, Carried
  <2>2. CASE e = d
    <3>1. CASE parser'[d] = "stopped" \/ swallowed'
      BY <1>1, <2>2, <3>1 DEF Counted
    <3>2. CASE ~swallowed' /\ parser'[d] # "stopped"
      <4>1. index'[d] = index[d] + 1 /\ tap'[d] = Tail(tap[d]) /\ ~swallowed
        BY <1>2, <1>3, <1>7, <3>2 DEF Inspected
      <4>2. /\ Len(tap[d]) \in Nat /\ Len(tap'[d]) \in Nat
            /\ Len(tap'[d]) + 1 = Len(tap[d])
            /\ \A i \in DOMAIN tap'[d] :
                 i \in Nat /\ i + 1 \in DOMAIN tap[d] /\ tap'[d][i] = tap[d][i + 1]
        BY <1>1, <4>1, TailFacts
      <4>3. /\ \A i \in DOMAIN tap[d] : tap[d][i] = index[d] + i
            /\ debugging /\ loop[d] \notin Closing
                 => index[d] + Len(tap[d]) + Carried(d) = read[d]
        BY <1>1, <4>1 DEF Counted
      <4>4. ASSUME NEW i \in DOMAIN tap'[d]
            PROVE  tap'[d][i] = index'[d] + i
        <5>1. tap'[d][i] = index[d] + (i + 1) /\ i \in Nat
          BY <4>2, <4>3
        <5>2. index[d] \in Nat /\ index'[d] = index[d] + 1
          BY <1>1, <4>1
        <5> HIDE DEF DebugInv
        <5>3. index[d] + (i + 1) = (index[d] + 1) + i
          BY <5>1, <5>2
        <5> QED BY <5>1, <5>2, <5>3
      <4>5. index'[d] + Len(tap'[d]) = index[d] + Len(tap[d])
        BY <1>1, <4>1, <4>2
      <4> QED BY <1>1, <2>2, <4>3, <4>4, <4>5 DEF Counted, Carried
    <3> QED BY <3>1, <3>2
  <2> QED BY <2>1, <2>2
<1>9. Paired'
  <2> SUFFICES ASSUME ~swallowed'
               PROVE  \A e \in Directions :
                        parser'[e] = "ranging" => Right(event'[e])
    BY <1>1, <1>2 DEF Paired
  <2>1. ~swallowed /\ Right(Message(d))
    <3>1. ~swallowed /\ tap[d][1] = index[d] + 1
      <4>1. 1 \in DOMAIN tap[d]
        BY <1>1
      <4> QED BY <1>1, <1>7, <4>1 DEF Counted
    <3> QED BY <3>1 DEF Right, Message
  <2> TAKE e \in Directions
  <2>2. CASE e # d
    BY <1>3, <2>1, <2>2 DEF Paired, Inspected
  <2>3. CASE e = d
    BY <1>3, <2>1, <2>3 DEF Inspected
  <2> QED BY <2>2, <2>3
<1> QED BY <1>6, <1>8, <1>9

(* handleResponse and handleEvent keep a page a page.                       *)
LEMMA ResponsePage ==
  ASSUME NEW s \in Pages, NEW e \in Events
  PROVE  /\ handleResponse(s, e) \in Pages
         /\ handleResponse(s, e).received = s.received
<1> DEFINE pairs == {[request |-> r.message, response |-> e.message] :
                       r \in {q \in s.requests : q.id = e.id}}
<1>1. pairs \subseteq [request : Nat, response : Nat]
  BY DEF Pages, Events
<1>2. \/ handleResponse(s, e) = [s EXCEPT !.answered = s.answered \cup pairs]
      \/ handleResponse(s, e) = [s EXCEPT !.early = s.early \cup {e}]
  BY DEF handleResponse
<1> HIDE DEF pairs
<1> QED BY <1>1, <1>2 DEF Pages

LEMMA EventPage ==
  ASSUME NEW s \in Pages, NEW e \in Events
  PROVE  handleEvent(s, e) \in Pages /\ handleEvent(s, e).received = s.received
<1> DEFINE added   == [s EXCEPT !.requests = s.requests \cup {e}]
           waiting == {r \in s.early : r.id = e.id}
           first   == CHOOSE r \in waiting : TRUE
<1>1. added \in Pages /\ added.received = s.received /\ added.early = s.early
  BY DEF Pages
<1>2. \/ handleEvent(s, e) = handleResponse(s, e)
      \/ handleEvent(s, e) = added
      \/ waiting # {} /\ handleEvent(s, e) = handleResponse(added, first)
  BY <1>1 DEF handleEvent
<1>3. waiting # {} => first \in Events
  <2>1. waiting # {} => first \in waiting
    OBVIOUS
  <2> HIDE DEF first
  <2> QED BY <2>1 DEF Pages
<1> HIDE DEF added, first, waiting
<1> QED BY <1>1, <1>2, <1>3, ResponsePage

(* handleResponse and handleEvent put together what has the same number.    *)
LEMMA ResponseIsShown ==
  ASSUME NEW s \in Pages, NEW e \in Events, Right(e), Shown(s)
  PROVE  Shown(handleResponse(s, e))
<1> DEFINE pairs == {[request |-> r.message, response |-> e.message] :
                       r \in {q \in s.requests : q.id = e.id}}
<1>1. CASE \E r \in s.requests : r.id = e.id
  <2>1. \A a \in pairs : a \in [request : Nat, response : Nat]
                           /\ a.request = a.response
    BY DEF Pages, Events, Shown, Right
  <2>2. handleResponse(s, e) = [s EXCEPT !.answered = s.answered \cup pairs]
    BY <1>1 DEF handleResponse
  <2> HIDE DEF pairs
  <2> QED BY <2>1, <2>2 DEF Pages, Shown
<1>2. CASE ~\E r \in s.requests : r.id = e.id
  BY <1>2 DEF handleResponse, Pages, Shown
<1> QED BY <1>1, <1>2

LEMMA EventIsShown ==
  ASSUME NEW s \in Pages, NEW e \in Events, Right(e), Shown(s)
  PROVE  Shown(handleEvent(s, e))
<1> DEFINE added   == [s EXCEPT !.requests = s.requests \cup {e}]
           waiting == {r \in s.early : r.id = e.id}
           first   == CHOOSE r \in waiting : TRUE
<1>1. CASE e.kind = "response"
  BY <1>1, ResponseIsShown DEF handleEvent
<1>2. CASE e.kind # "response"
  <2>1. added \in Pages /\ Shown(added) /\ added.early = s.early
    BY DEF Pages, Shown
  <2>2. CASE waiting = {}
    <3>1. handleEvent(s, e) = added
      BY <1>2, <2>1, <2>2 DEF handleEvent
    <3> QED BY <2>1, <3>1
  <2>3. CASE waiting # {}
    <3>1. first \in s.early
      BY <2>3
    <3>2. first \in Events /\ Right(first)
      BY <3>1 DEF Pages, Shown
    <3>3. handleEvent(s, e) = handleResponse(added, first)
      BY <1>2, <2>1, <2>3 DEF handleEvent
    <3> HIDE DEF added, first
    <3> QED BY <2>1, <3>2, <3>3, ResponseIsShown
  <2> QED BY <2>2, <2>3
<1> QED BY <1>1, <1>2

(* dispatchEvent and the listeners pass on what they are given.             *)
LEMMA ListenersCount ==
  ASSUME DebugInv,
         \/ \E d \in Directions : dispatchEvent(d)
         \/ \E b \in Browsers : Join(b) \/ DeleteListener(b) \/ CloseEvents(b)
         \/ \E p \in pending : Receive(p) \/ SendPanics(p)
         \/ UNCHANGED vars
  PROVE  DebugInv'
<1> USE DEF DebugInv
<1>1. UNCHANGED <<debugging, loop, read, buf, tap, index, swallowed>>
  <2> USE DEF forwarding, bindings, fixed, parsing
  <2>1. ASSUME NEW d \in Directions, dispatchEvent(d)
        PROVE  UNCHANGED <<debugging, loop, read, buf, tap, index, swallowed>>
    BY <2>1 DEF dispatchEvent, RangeOn, GoSend, EndRange
  <2>2. ASSUME NEW b \in Browsers, Join(b) \/ DeleteListener(b) \/ CloseEvents(b)
        PROVE  UNCHANGED <<debugging, loop, read, buf, tap, index, swallowed>>
    BY <2>2 DEF Join, DeleteListener, CloseEvents, WriteListeners
  <2>3. ASSUME NEW p \in pending, Receive(p) \/ SendPanics(p)
        PROVE  UNCHANGED <<debugging, loop, read, buf, tap, index, swallowed>>
    BY <2>3 DEF Receive, SendPanics
  <2>4. CASE UNCHANGED vars
    BY <2>4 DEF vars
  <2> QED BY <2>1, <2>2, <2>3, <2>4
<1>2. ASSUME UNCHANGED <<parser, event, pending, page>>,
             left' \in [Directions -> SUBSET Browsers],
             listener' \in [Directions -> SUBSET Browsers]
      PROVE  DebugInv'
  BY <1>1, <1>2 DEF Inspected, Counted, Carried, Paired
<1>3. ASSUME NEW d \in Directions, dispatchEvent(d)
      PROVE  DebugInv'
  <2>1. CASE RangeOn(d)
    <3>1. /\ UNCHANGED <<parser, event, pending, page>>
          /\ \E b \in left[d] : listener' = [listener EXCEPT ![d] = {b}]
                               /\ left' = [left EXCEPT ![d] = left[d] \ {b}]
      BY <2>1 DEF RangeOn, views
    <3>2. /\ left' \in [Directions -> SUBSET Browsers]
          /\ listener' \in [Directions -> SUBSET Browsers]
      BY <3>1 DEF Inspected
    <3> QED BY <1>2, <3>1, <3>2
  <2>2. CASE GoSend(d)
    <3>1. /\ parser[d] = "ranging" /\ UNCHANGED <<parser, event, left, page>>
          /\ pending' = pending \cup [browser : listener[d], event : {event[d]}]
          /\ listener' = [listener EXCEPT ![d] = {}]
      BY <2>2 DEF GoSend, Ranging
    <3>2. ASSUME NEW p \in pending', p \notin pending
          PROVE  p.browser \in Browsers /\ p.event = event[d]
      <4>1. p \in [browser : listener[d], event : {event[d]}]
        BY <3>1, <3>2
      <4>2. p.browser \in listener[d] /\ p.event = event[d]
        BY <4>1
      <4> QED BY <4>2 DEF Inspected
    <3>3. listener' \in [Directions -> SUBSET Browsers] /\ event[d] \in Events
      BY <3>1 DEF Inspected
    <3>4. Inspected'
      BY <1>1, <3>1, <3>2, <3>3 DEF Inspected
    <3>5. \A e \in Directions : Counted(e)'
      BY <1>1, <3>1 DEF Counted, Carried
    <3>6. Paired'
      BY <1>1, <3>1, <3>2 DEF Paired
    <3> QED BY <3>4, <3>5, <3>6
  <2>3. CASE EndRange(d)
    <3>1. /\ parser[d] = "ranging" /\ UNCHANGED <<left, listener, pending, page>>
          /\ parser' = [parser EXCEPT ![d] = "parsing"]
          /\ event' = [event EXCEPT ![d] = NoEvent]
      BY <2>3 DEF EndRange, Ranging, ranges, views
    <3>2. NoEvent \in Events
      BY Sides DEF NoEvent, Events
    <3>3. Inspected'
      BY <1>1, <3>1, <3>2 DEF Inspected, Parsers
    <3>4. \A e \in Directions :
            /\ parser'[e] = "stopped" <=> parser[e] = "stopped"
            /\ parser'[e] = "ranging" => e # d /\ parser[e] = "ranging"
                                           /\ event'[e] = event[e]
      BY <3>1 DEF Inspected
    <3>5. \A e \in Directions : Counted(e)'
      BY <1>1, <3>4 DEF Counted, Carried
    <3>6. Paired'
      BY <1>1, <3>1, <3>4 DEF Paired
    <3> QED BY <3>3, <3>5, <3>6
  <2> QED BY <1>3, <2>1, <2>2, <2>3 DEF dispatchEvent
<1>4. ASSUME NEW p \in pending, Receive(p)
      PROVE  DebugInv'
  <2> DEFINE s     == page[p.browser]
             after == Kept(s, p.event)
  <2>1. /\ UNCHANGED <<parser, event, left, listener>> /\ pending' = pending \ {p}
        /\ p.browser \in Browsers /\ p.event \in Events /\ s \in Pages
        /\ page' = [page EXCEPT ![p.browser] = after]
    <3>1. UNCHANGED <<parser, event, left, listener>> /\ pending' = pending \ {p}
      BY <1>4 DEF Receive, parsing, ranges
    <3>2. p.browser \in Browsers /\ p.event \in Events /\ s \in Pages
      BY <1>4 DEF Inspected
    <3>3. page' = [page EXCEPT ![p.browser] = after]
      BY <1>4 DEF Receive
    <3> QED BY <3>1, <3>2, <3>3
  <2> HIDE DEF s
  <2>2. after \in Pages
    BY <2>1, EventPage DEF Kept, Pages
  <2>3. Inspected' /\ \A d \in Directions : Counted(d)'
    BY <1>1, <2>1, <2>2 DEF Inspected, Counted, Carried
  <2>4. ASSUME ~swallowed
        PROVE  \A b \in Browsers : Shown(page'[b])
    <3>1. Right(p.event) /\ Shown(s)
      BY <2>1, <2>4 DEF Paired, s
    <3>2. Shown(handleEvent(s, p.event)) /\ handleEvent(s, p.event) \in Pages
      BY <2>1, <3>1, EventIsShown, EventPage
    <3>3. Shown(after)
      BY <3>2 DEF Kept, Shown, Pages
    <3> HIDE DEF after
    <3> QED BY <2>1, <2>4, <3>3 DEF Paired, Inspected
  <2>5. Paired'
    BY <1>1, <2>1, <2>4 DEF Paired
  <2> QED BY <2>3, <2>5
<1>5. ASSUME NEW b \in Browsers, Join(b) \/ DeleteListener(b) \/ CloseEvents(b)
      PROVE  DebugInv'
  <2>1. UNCHANGED <<parser, event, listener, pending, page>>
    BY <1>5 DEF Join, DeleteListener, CloseEvents, WriteListeners, parsing, ranges
  <2>2. left' \in [Directions -> SUBSET Browsers]
    <3>1. left \in [Directions -> SUBSET Browsers]
      BY DEF Inspected
    <3> HIDE DEF DebugInv
    <3>2. CASE Join(b)
      BY <3>1, <3>2 DEF Join
    <3>3. CASE DeleteListener(b)
      <4>1. left' = [d \in Directions |-> left[d] \ {b}]
        BY <3>3 DEF DeleteListener
      <4> QED BY <3>1, <4>1
    <3>4. CASE CloseEvents(b)
      BY <3>1, <3>4 DEF CloseEvents, parsing, ranges
    <3> QED BY <1>5, <3>2, <3>3, <3>4
  <2>3. listener' \in [Directions -> SUBSET Browsers]
    BY <2>1 DEF Inspected
  <2> QED BY <1>2, <2>1, <2>2, <2>3
<1>6. ASSUME NEW p \in pending, SendPanics(p)
      PROVE  DebugInv'
  BY <1>2, <1>6 DEF SendPanics, parsing, ranges, views, Inspected
<1>7. CASE UNCHANGED vars
  BY <1>2, <1>7 DEF vars, parsing, ranges, views, Inspected
<1> QED BY <1>3, <1>4, <1>5, <1>6, <1>7

LEMMA StepDebugInv == ForwardInv /\ DebugInv /\ [Next]_vars => DebugInv'
<1> SUFFICES ASSUME ForwardInv, DebugInv, [Next]_vars PROVE DebugInv'
  OBVIOUS
<1>1. CASE Connection
  <2>1. UNCHANGED <<parsing, views>>
    BY <1>1 DEF Connection
  <2>2. ASSUME NEW d \in Directions, Bind(d)
        PROVE  DebugInv'
    BY <2>1, <2>2, ReadCounts, WriteCounts, TapCounts, RestCounts, Sides DEF Bind
  <2>3. CASE Peers
    BY <2>1, <2>3, RestCounts
  <2> QED BY <1>1, <2>2, <2>3 DEF Connection
<1>2. CASE \E d \in Directions : Parse(d)
  BY <1>2, ParseCounts
<1>3. CASE ~Connection /\ ~\E d \in Directions : Parse(d)
  BY <1>3, ListenersCount DEF Next
<1> QED BY <1>1, <1>2, <1>3

(* The page shows a response with the request it answers as long as no      *)
(* parser has swallowed a message, however many wait in the pipes: for any  *)
(* number of messages and pages (parser.go, server.go, script.js).          *)
THEOREM PagesPair == Spec => []PairedRight
<1>1. DebugInv => PairedRight
  BY DEF DebugInv, Paired, Shown, PairedRight
<1> QED BY <1>1, InitForwardInv, StepForwardInv, InitDebugInv, StepDebugInv, PTL
        DEF Spec

-----------------------------------------------------------------------------
(* Types.  Counters are bounded because nothing is counted that was not     *)
(* read: messages numbered, chunks in the pipe and the chunk in hand are    *)
(* together never more than what the loop has read, even where a parser     *)
(* has lost count.                                                          *)
AccountedFor(d) == index[d] + Len(tap[d]) + Carried(d) <= read[d]

Accounted == \A d \in Directions : AccountedFor(d)

LEMMA CountTypes ==
  ASSUME ForwardInv, DebugInv, NEW d \in Directions
  PROVE  /\ index[d] \in Nat /\ Len(tap[d]) \in Nat /\ read[d] \in Nat
         /\ Carried(d) \in {0, 1}
<1>1. tap[d] \in Seq(Nat) /\ index[d] \in Nat
  BY DEF DebugInv, Inspected
<1>2. read[d] \in Nat
  BY TypeFacts DEF ForwardInv
<1>3. Carried(d) \in {0, 1}
  BY DEF Carried
<1>4. Len(tap[d]) \in Nat
  BY <1>1
<1> QED BY <1>1, <1>2, <1>3, <1>4

LEMMA BindAccounts ==
  ASSUME ForwardInv, DebugInv, Accounted, NEW d \in Directions, Bind(d),
         UNCHANGED parsing
  PROVE  Accounted'
<1>1. Types /\ UNCHANGED index
  BY DEF ForwardInv, parsing
<1>2. ASSUME NEW e \in Directions, e # d
      PROVE  /\ tap'[e] = tap[e] /\ read'[e] = read[e] /\ buf'[e] = buf[e]
  <2> USE DEF Read, Write, WriteSucceeds, WriteFails, Tap, Close, Emptied
  <2>1. \/ UNCHANGED tap
        \/ tap' = [tap EXCEPT ![d] = Append(tap[d], buf[d])]
    BY DEF Bind
  <2>2. UNCHANGED read \/ read' = [read EXCEPT ![d] = read[d] + 1]
    BY DEF Bind
  <2>3. UNCHANGED buf \/ \E b : buf' = [buf EXCEPT ![d] = b]
    BY DEF Bind
  <2> QED BY <1>1, <1>2, <2>1, <2>2, <2>3 DEF Types, DebugInv, Inspected
<1>3. \/ Len(tap'[d]) = Len(tap[d])
         /\ \/ read'[d] = read[d] /\ (buf'[d] = buf[d] \/ buf'[d] = 0)
            \/ read'[d] = read[d] + 1 /\ buf[d] = 0
      \/ /\ Len(tap'[d]) = Len(tap[d]) + 1 /\ read'[d] = read[d]
         /\ buf[d] # 0 /\ buf'[d] = 0
  <2>1. CASE Read(d)
    <3>1. loop[d] = "read" /\ buf[d] = 0 /\ UNCHANGED tap
      BY <2>1 DEF ForwardInv, Ordered, Read, At
    <3>2. UNCHANGED <<read, buf>> \/ read' = [read EXCEPT ![d] = read[d] + 1]
      BY <2>1 DEF Read
    <3>3. UNCHANGED <<read, buf>> \/ read'[d] = read[d] + 1
      BY <1>1, <3>2 DEF Types
    <3> QED BY <3>1, <3>3
  <2>2. CASE Write(d)
    <3>1. /\ UNCHANGED <<tap, read>>
          /\ UNCHANGED buf \/ buf' = [buf EXCEPT ![d] = 0]
      BY <2>2 DEF Write, WriteSucceeds, WriteFails, Emptied
    <3> QED BY <1>1, <3>1 DEF Types
  <2>3. CASE Tap(d)
    <3>1. /\ tap' = [tap EXCEPT ![d] = Append(tap[d], buf[d])]
          /\ buf' = [buf EXCEPT ![d] = 0] /\ UNCHANGED read /\ loop[d] = "tap"
      BY <2>3 DEF Tap, Emptied, At
    <3>2. buf[d] # 0 /\ tap[d] \in Seq(Nat) /\ buf[d] \in Nat
      BY <1>1, <3>1, TypeFacts DEF DebugInv, Counted, Inspected
    <3>3. tap'[d] = Append(tap[d], buf[d]) /\ buf'[d] = 0
      BY <1>1, <3>1 DEF Types, DebugInv, Inspected
    <3>4. Len(Append(tap[d], buf[d])) = Len(tap[d]) + 1
      BY <3>2
    <3> QED BY <3>1, <3>2, <3>3, <3>4
  <2>4. CASE Close(d)
    BY <2>4 DEF Close
  <2> QED BY <2>1, <2>2, <2>3, <2>4 DEF Bind
<1>4. AccountedFor(d)'
  <2>1. AccountedFor(d) /\ index'[d] = index[d]
    BY <1>1 DEF Accounted
  <2> DEFINE i == index[d]
             n == Len(tap[d])
             r == read[d]
  <2>2. i \in Nat /\ n \in Nat /\ r \in Nat
    BY CountTypes
  <2> HIDE DEF i, n, r
  <2>3. i + n + Carried(d) <= r
    BY <2>1 DEF AccountedFor, i, n, r
  <2>4. \/ Len(tap'[d]) = n /\ read'[d] = r /\ Carried(d)' \in {0, Carried(d)}
        \/ Len(tap'[d]) = n /\ read'[d] = r + 1 /\ Carried(d) = 0
        \/ /\ Len(tap'[d]) = n + 1 /\ read'[d] = r
           /\ Carried(d) = 1 /\ Carried(d)' = 0
    BY <1>3 DEF Carried, n, r
  <2>5. Carried(d) \in {0, 1} /\ Carried(d)' \in {0, 1}
    BY DEF Carried
  <2>6. i + Len(tap'[d]) + Carried(d)' <= read'[d]
    BY <2>2, <2>3, <2>4, <2>5
  <2> QED BY <2>1, <2>6 DEF AccountedFor, i
<1>5. ASSUME NEW e \in Directions, e # d
      PROVE  AccountedFor(e)'
  BY <1>1, <1>2, <1>5 DEF Accounted, AccountedFor, Carried
<1> QED BY <1>4, <1>5 DEF Accounted

(* What is left of a pipe when its first message has been taken.            *)
LEMMA Shortened ==
  ASSUME NEW s \in Seq(Nat), s # <<>>,
         NEW rest \in {Tail(s), <<>>, <<Torn>>}, Len(s) = 1 => rest = <<>>
  PROVE  Len(rest) \in Nat /\ Len(rest) + 1 <= Len(s)
<1>1. Len(s) \in Nat /\ Len(s) # 0
  OBVIOUS
<1>2. CASE rest = Tail(s)
  <2>1. Len(rest) = Len(s) - 1
    BY <1>2
  <2> QED BY <1>1, <2>1
<1>3. CASE rest = <<>>
  <2>1. Len(rest) = 0
    BY <1>3
  <2> QED BY <1>1, <2>1
<1>4. CASE rest = <<Torn>> /\ Len(s) # 1
  <2> DEFINE n == Len(s)
             k == Len(rest)
  <2>1. n \in Nat /\ n # 0 /\ n # 1
    BY <1>1, <1>4
  <2>2. k = 1
    BY <1>4
  <2> HIDE DEF n, k
  <2>3. k \in Nat /\ k + 1 <= n
    BY <2>1, <2>2
  <2> QED BY <2>3 DEF n, k
<1>5. rest = Tail(s) \/ rest = <<>> \/ (rest = <<Torn>> /\ Len(s) # 1)
  BY Zenon
<1> QED BY <1>2, <1>3, <1>4, <1>5, Zenon

(* Whatever a parser takes, swallows or leaves, it takes its message.       *)
LEMMA ParseAccounts ==
  ASSUME ForwardInv, DebugInv, Accounted, NEW d \in Directions, Parse(d)
  PROVE  Accounted'
<1>1. UNCHANGED <<read, buf>> /\ tap[d] # <<>> /\ tap[d] \in Seq(Nat)
  BY DEF Parse, bindings, DebugInv, Inspected
<1>2. PICK rest \in {Tail(tap[d]), <<>>, <<Torn>>} :
        /\ Len(tap[d]) = 1 => rest = <<>>
        /\ tap' = [tap EXCEPT ![d] = rest]
  BY DEF Parse
<1>3. UNCHANGED index \/ index' = [index EXCEPT ![d] = index[d] + 1]
  BY DEF Parse
<1>4. Len(rest) \in Nat /\ Len(rest) + 1 <= Len(tap[d])
  BY <1>1, <1>2, Shortened
<1>5. ASSUME NEW e \in Directions
      PROVE  AccountedFor(e)'
  <2>1. Carried(e)' = Carried(e)
    BY <1>1 DEF Carried
  <2>2. \/ e # d /\ tap'[e] = tap[e] /\ index'[e] = index[e]
        \/ e = d /\ tap'[d] = rest /\ index'[d] \in {index[d], index[d] + 1}
    BY <1>2, <1>3 DEF DebugInv, Inspected
  <2>3. index[e] + Len(tap[e]) + Carried(e) <= read[e]
    BY DEF Accounted, AccountedFor
  <2>4. CASE e # d
    BY <1>1, <2>1, <2>2, <2>3, <2>4 DEF AccountedFor
  <2>5. CASE e = d
    <3> DEFINE i == index[d]
               n == Len(tap[d])
               k == Len(rest)
               c == Carried(d)
               r == read[d]
    <3>1. i \in Nat /\ n \in Nat /\ c \in Nat /\ r \in Nat /\ k \in Nat
      BY <1>4, CountTypes
    <3>2. i + n + c <= r /\ k + 1 <= n
      BY <1>4, <2>3, <2>5
    <3>3. /\ index'[d] \in {i, i + 1} /\ Len(tap'[d]) = k
          /\ Carried(d)' = c /\ read'[d] = r
      BY <1>1, <2>1, <2>2, <2>5
    <3> HIDE DEF i, n, k, c, r
    <3>4. index'[d] + Len(tap'[d]) + Carried(d)' <= read'[d]
      BY <3>1, <3>2, <3>3
    <3> QED BY <2>5, <3>4 DEF AccountedFor
  <2> QED BY <2>4, <2>5
<1> QED BY <1>5 DEF Accounted

LEMMA StepAccounted ==
  ASSUME ForwardInv, DebugInv, Accounted, [Next]_vars
  PROVE  Accounted'
<1>1. ASSUME UNCHANGED <<index, tap, buf, read>>
      PROVE  Accounted'
  BY <1>1 DEF Accounted, AccountedFor, Carried
<1> USE DEF forwarding, bindings, parsing
<1>2. CASE Connection
  <2>1. CASE Peers
    BY <1>1, <1>2, <2>1
    DEF Connection, Peers, Send, ShutDown, ClosePeer, Reset, Leave, PeersOnly
  <2>2. ASSUME NEW d \in Directions, Bind(d)
        PROVE  Accounted'
    BY <1>2, <2>2, BindAccounts DEF Connection
  <2> QED BY <1>2, <2>1, <2>2 DEF Connection
<1>3. ASSUME NEW d \in Directions, Parse(d)
      PROVE  Accounted'
  BY <1>3, ParseAccounts
<1>4. ASSUME NEW d \in Directions, dispatchEvent(d)
      PROVE  Accounted'
  BY <1>1, <1>4 DEF dispatchEvent, RangeOn, GoSend, EndRange
<1>5. ASSUME NEW b \in Browsers, Join(b) \/ DeleteListener(b) \/ CloseEvents(b)
      PROVE  Accounted'
  BY <1>1, <1>5 DEF Join, DeleteListener, CloseEvents, WriteListeners
<1>6. ASSUME NEW p \in pending, Receive(p) \/ SendPanics(p)
      PROVE  Accounted'
  BY <1>1, <1>6 DEF Receive, SendPanics
<1>7. CASE UNCHANGED vars
  BY <1>1, <1>7 DEF vars
<1> QED BY <1>2, <1>3, <1>4, <1>5, <1>6, <1>7 DEF Next

Visits == {"away", "watching", "deleted", "gone"}

Limits ==
  /\ http \in 0..Chunks /\ debugging \in BOOLEAN /\ panicked \in BOOLEAN
  /\ troubles \in 0..MaxTroubles
  /\ visit \in [Browsers -> Visits] /\ DOMAIN page = Browsers
  /\ \A d \in Directions : sent[d] <= Chunks /\ Len(tap[d]) <= Capacity[d]
  /\ \A d \in Directions : event[d].id <= Chunks /\ event[d].message <= Chunks

DebuggerInv == ForwardInv /\ DebugInv /\ Accounted /\ Limits

LEMMA InitDebuggerInv == Init => DebuggerInv
<1> SUFFICES ASSUME Init PROVE DebuggerInv
  OBVIOUS
<1>1. ForwardInv /\ DebugInv
  BY InitForwardInv, InitDebugInv
<1> USE DEF Init, InitForwarding
<1>2. Accounted
  <2> SUFFICES ASSUME NEW d \in Directions PROVE AccountedFor(d)
    BY DEF Accounted
  <2>1. index[d] = 0 /\ read[d] = 0 /\ buf[d] = 0 /\ Len(tap[d]) = 0
    OBVIOUS
  <2> QED BY <2>1 DEF AccountedFor, Carried
<1>3. panicked \in BOOLEAN /\ debugging \in BOOLEAN
  BY Zenon
<1>4. troubles \in 0..MaxTroubles
  BY ForwardingAssumption
<1>5. visit \in [Browsers -> Visits] /\ DOMAIN page = Browsers
  BY DEF Visits
<1>6. ASSUME NEW d \in Directions
      PROVE  /\ sent[d] <= Chunks /\ Len(tap[d]) <= Capacity[d]
             /\ event[d].id <= Chunks /\ event[d].message <= Chunks
  <2>1. sent[d] = 0 /\ Len(tap[d]) = 0 /\ event[d] = NoEvent
    OBVIOUS
  <2> QED BY <2>1, ForwardingAssumption DEF NoEvent
<1>7. http \in 0..Chunks
  OBVIOUS
<1> QED BY <1>1, <1>2, <1>3, <1>4, <1>5, <1>6, <1>7 DEF DebuggerInv, Limits

LEMMA StepFlags ==
  ASSUME Limits, [Next]_vars
  PROVE  /\ UNCHANGED <<http, debugging>> /\ panicked' \in BOOLEAN
         /\ troubles' \in 0..MaxTroubles
<1>0. panicked \in BOOLEAN /\ troubles \in 0..MaxTroubles
  BY Zenon DEF Limits
<1>1. UNCHANGED fixed
  <2>1. CASE Connection
    BY <2>1 DEF Connection, Bind, Read, Write, Tap, Close, Peers, Send, ShutDown,
                ClosePeer, Reset, Leave, PeersOnly
  <2>2. ASSUME NEW d \in Directions, Parse(d) \/ dispatchEvent(d)
        PROVE  UNCHANGED fixed
    BY <2>2 DEF Parse, dispatchEvent, RangeOn, GoSend, EndRange, forwarding
  <2>3. ASSUME NEW b \in Browsers, Join(b) \/ DeleteListener(b) \/ CloseEvents(b)
        PROVE  UNCHANGED fixed
    BY <2>3 DEF Join, DeleteListener, CloseEvents, WriteListeners, forwarding
  <2>4. ASSUME NEW p \in pending, Receive(p) \/ SendPanics(p)
        PROVE  UNCHANGED fixed
    BY <2>4 DEF Receive, SendPanics, forwarding
  <2>5. CASE UNCHANGED vars
    BY <2>5 DEF vars, forwarding
  <2> QED BY <2>1, <2>2, <2>3, <2>4, <2>5 DEF Next
<1>2. UNCHANGED troubles \/ Trouble
  <2> USE DEF forwarding, peers
  <2>1. CASE Connection
    BY <2>1 DEF Connection, Bind, Read, Write, WriteFails, WriteSucceeds, Tap,
                Close, Peers, Send, ShutDown, ClosePeer, Reset, Leave
  <2>2. ASSUME NEW d \in Directions, Parse(d) \/ dispatchEvent(d)
        PROVE  UNCHANGED troubles
    BY <2>2 DEF Parse, dispatchEvent, RangeOn, GoSend, EndRange
  <2>3. ASSUME NEW b \in Browsers, Join(b) \/ DeleteListener(b) \/ CloseEvents(b)
        PROVE  UNCHANGED troubles \/ Trouble
    BY <2>3 DEF Join, DeleteListener, CloseEvents
  <2>4. ASSUME NEW p \in pending, Receive(p) \/ SendPanics(p)
        PROVE  UNCHANGED troubles
    BY <2>4 DEF Receive, SendPanics
  <2>5. CASE UNCHANGED vars
    BY <2>5 DEF vars
  <2> QED BY <2>1, <2>2, <2>3, <2>4, <2>5 DEF Next
<1>3. troubles' \in 0..MaxTroubles
  BY <1>0, <1>2, ForwardingAssumption DEF Trouble
<1>4. panicked' = panicked \/ panicked' \in BOOLEAN
  <2>1. CASE Connection
    BY <2>1 DEF Connection, Bind, Read, Write, Tap, Close, Peers, Send, ShutDown,
                ClosePeer, Reset, Leave, PeersOnly
  <2>2. ASSUME NEW d \in Directions, Parse(d) \/ dispatchEvent(d)
        PROVE  UNCHANGED panicked
    BY <2>2 DEF Parse, dispatchEvent, RangeOn, GoSend, EndRange
  <2>3. ASSUME NEW b \in Browsers, Join(b) \/ DeleteListener(b)
        PROVE  panicked' \in BOOLEAN
    <3>1. panicked' \in
            {FALSE, \/ \E d \in Directions : parser[d] = "ranging"
                    \/ \E c \in Browsers \ {b} : visit[c] \in {"away", "watching"}}
      BY <2>3 DEF Join, DeleteListener, WriteListeners
    <3> QED BY <3>1, Zenon
  <2>4. ASSUME NEW b \in Browsers, CloseEvents(b)
        PROVE  UNCHANGED panicked
    BY <2>4 DEF CloseEvents
  <2>5. ASSUME NEW p \in pending, Receive(p)
        PROVE  UNCHANGED panicked
    BY <2>5 DEF Receive
  <2>6. ASSUME NEW p \in pending, SendPanics(p)
        PROVE  panicked' \in BOOLEAN
    BY <2>6, Zenon DEF SendPanics
  <2>7. CASE UNCHANGED vars
    BY <2>7 DEF vars
  <2> QED BY <2>1, <2>2, <2>3, <2>4, <2>5, <2>6, <2>7, Zenon DEF Next
<1>5. panicked' \in BOOLEAN
  BY <1>0, <1>4, Zenon
<1> QED BY <1>1, <1>3, <1>5, Zenon DEF fixed

LEMMA StepVisits ==
  ASSUME Limits, [Next]_vars
  PROVE  visit' \in [Browsers -> Visits] /\ DOMAIN page' = Browsers
<1> USE DEF Limits
<1>1. UNCHANGED visit \/ \E b \in Browsers, v \in Visits : visit' = [visit EXCEPT ![b] = v]
  <2> USE DEF views, Visits
  <2>1. CASE Connection
    BY <2>1 DEF Connection
  <2>2. ASSUME NEW d \in Directions, Parse(d) \/ dispatchEvent(d)
        PROVE  UNCHANGED visit
    BY <2>2 DEF Parse, dispatchEvent, RangeOn, GoSend, EndRange
  <2>3. ASSUME NEW b \in Browsers, Join(b) \/ DeleteListener(b) \/ CloseEvents(b)
        PROVE  \E v \in Visits : visit' = [visit EXCEPT ![b] = v]
    BY <2>3 DEF Join, DeleteListener, CloseEvents, WriteListeners
  <2>4. ASSUME NEW p \in pending, Receive(p) \/ SendPanics(p)
        PROVE  UNCHANGED visit
    BY <2>4 DEF Receive, SendPanics
  <2>5. CASE UNCHANGED vars
    BY <2>5 DEF vars
  <2> QED BY <2>1, <2>2, <2>3, <2>4, <2>5 DEF Next
<1>2. UNCHANGED page \/ \E b, v : page' = [page EXCEPT ![b] = v]
  <2> USE DEF views
  <2>1. CASE Connection
    BY <2>1 DEF Connection
  <2>2. ASSUME NEW d \in Directions, Parse(d) \/ dispatchEvent(d)
        PROVE  UNCHANGED page
    BY <2>2 DEF Parse, dispatchEvent, RangeOn, GoSend, EndRange
  <2>3. ASSUME NEW b \in Browsers, Join(b) \/ DeleteListener(b) \/ CloseEvents(b)
        PROVE  UNCHANGED page
    BY <2>3 DEF Join, DeleteListener, CloseEvents, WriteListeners
  <2>4. ASSUME NEW p \in pending, Receive(p) \/ SendPanics(p)
        PROVE  UNCHANGED page \/ \E b, v : page' = [page EXCEPT ![b] = v]
    BY <2>4 DEF Receive, SendPanics
  <2>5. CASE UNCHANGED vars
    BY <2>5 DEF vars
  <2> QED BY <2>1, <2>2, <2>3, <2>4, <2>5 DEF Next
<1> QED BY <1>1, <1>2

(* No pipe and no source goes over its bound.                               *)
LEMMA StepLengths ==
  ASSUME ForwardInv, DebugInv, Limits, [Next]_vars, NEW c \in Directions
  PROVE  sent'[c] <= Chunks /\ Len(tap'[c]) <= Capacity[c]
<1> USE DEF forwarding, bindings, peers
<1>0. /\ sent[c] <= Chunks /\ Len(tap[c]) <= Capacity[c] /\ sent[c] \in Nat
      /\ Types /\ tap \in [Directions -> Seq(Nat)]
  BY TypeFacts DEF Limits, ForwardInv, DebugInv, Inspected
<1>1. CASE UNCHANGED <<sent, tap>>
  BY <1>0, <1>1
<1>2. CASE Connection
  <2>1. ASSUME NEW d \in Directions, Read(d) \/ Write(d) \/ Close(d)
        PROVE  UNCHANGED <<sent, tap>>
    BY <2>1 DEF Read, Write, WriteFails, WriteSucceeds, Close
  <2>2. ASSUME NEW d \in Directions, Tap(d)
        PROVE  Len(tap'[c]) <= Capacity[c] /\ UNCHANGED sent
    <3>1. /\ Len(tap[d]) < Capacity[d] /\ UNCHANGED sent
          /\ tap' = [tap EXCEPT ![d] = Append(tap[d], buf[d])]
      BY <2>2 DEF Tap
    <3>2. buf[d] \in Nat /\ tap[d] \in Seq(Nat)
      BY <1>0, TypeFacts
    <3>3. Len(Append(tap[d], buf[d])) = Len(tap[d]) + 1 /\ Len(tap[d]) \in Nat
      BY <3>2
    <3>4. Len(Append(tap[d], buf[d])) <= Capacity[d]
      <4> DEFINE n == Len(tap[d])
                 k == Capacity[d]
      <4>1. n \in Nat /\ k \in Nat /\ n < k /\ Len(Append(tap[d], buf[d])) = n + 1
        BY <3>1, <3>3, ForwardingAssumption
      <4> HIDE DEF n, k
      <4>2. Len(Append(tap[d], buf[d])) <= k
        BY <4>1
      <4> QED BY <4>2 DEF k
    <3>5. tap'[c] = IF c = d THEN Append(tap[d], buf[d]) ELSE tap[c]
      BY <1>0, <3>1
    <3> QED BY <1>0, <3>1, <3>4, <3>5
  <2>3. ASSUME NEW d \in Directions, Send(d)
        PROVE  sent'[c] <= Chunks /\ UNCHANGED tap
    <3>1. /\ sent[d] < Chunks /\ sent' = [sent EXCEPT ![d] = sent[d] + 1]
          /\ UNCHANGED tap /\ sent[d] \in Nat
      BY <1>0, <2>3, TypeFacts DEF Send, PeersOnly
    <3>2. sent'[c] = IF c = d THEN sent[d] + 1 ELSE sent[c]
      BY <1>0, <3>1 DEF Types
    <3> QED BY <1>0, <3>1, <3>2, ForwardingAssumption
  <2>4. ASSUME NEW e \in Ends, ShutDown(e) \/ ClosePeer(e) \/ Reset(e)
        PROVE  UNCHANGED <<sent, tap>>
    BY <2>4 DEF ShutDown, ClosePeer, Reset, Leave, PeersOnly
  <2> QED BY <1>0, <1>1, <1>2, <2>1, <2>2, <2>3, <2>4 DEF Connection, Bind, Peers
<1>3. ASSUME NEW d \in Directions, Parse(d)
      PROVE  sent'[c] <= Chunks /\ Len(tap'[c]) <= Capacity[c]
  <2>1. UNCHANGED sent /\ tap[d] \in Seq(Nat) /\ tap[d] # <<>>
    BY <1>0, <1>3 DEF Parse
  <2>2. PICK rest \in {Tail(tap[d]), <<>>, <<Torn>>} :
          /\ Len(tap[d]) = 1 => rest = <<>>
          /\ tap' = [tap EXCEPT ![d] = rest]
    BY <1>3 DEF Parse
  <2>3. Len(rest) \in Nat /\ Len(rest) + 1 <= Len(tap[d])
    BY <2>1, <2>2, Shortened
  <2>4. Len(tap[d]) \in Nat /\ Len(tap[d]) <= Capacity[d] /\ Capacity[d] \in Nat
    BY <2>1, ForwardingAssumption DEF Limits
  <2>5. Len(rest) <= Capacity[d]
    <3> DEFINE n == Len(tap[d])
               k == Len(rest)
               most == Capacity[d]
    <3>1. k \in Nat /\ n \in Nat /\ k + 1 <= n /\ n <= most /\ most \in Nat
      BY <2>3, <2>4
    <3> HIDE DEF n, k, most
    <3>2. k <= most
      BY <3>1
    <3> QED BY <3>2 DEF k, most
  <2>6. tap'[c] = IF c = d THEN rest ELSE tap[c]
    BY <1>0, <2>2
  <2> QED BY <1>0, <2>1, <2>5, <2>6
<1>4. ASSUME NEW d \in Directions, dispatchEvent(d)
      PROVE  UNCHANGED <<sent, tap>>
  BY <1>4 DEF dispatchEvent, RangeOn, GoSend, EndRange
<1>5. ASSUME NEW b \in Browsers, Join(b) \/ DeleteListener(b) \/ CloseEvents(b)
      PROVE  UNCHANGED <<sent, tap>>
  BY <1>5 DEF Join, DeleteListener, CloseEvents, WriteListeners
<1>6. ASSUME NEW p \in pending, Receive(p) \/ SendPanics(p)
      PROVE  UNCHANGED <<sent, tap>>
  BY <1>6 DEF Receive, SendPanics
<1>7. CASE UNCHANGED vars
  BY <1>1, <1>7 DEF vars
<1> QED BY <1>1, <1>2, <1>3, <1>4, <1>5, <1>6, <1>7 DEF Next

(* What is dispatched has a number the loop has read, and is HTTP.          *)
LEMMA StepEvents ==
  ASSUME DebuggerInv, [Next]_vars, NEW c \in Directions
  PROVE  event'[c].id <= Chunks /\ event'[c].message <= Chunks
<1> USE DEF DebuggerInv
<1>0. /\ event[c].id <= Chunks /\ event[c].message <= Chunks
      /\ event \in [Directions -> Events]
  BY DEF Limits, DebugInv, Inspected
<1>1. CASE UNCHANGED event
  BY <1>0, <1>1
<1>2. ASSUME NEW d \in Directions, Parse(d)
      PROVE  event'[c].id <= Chunks /\ event'[c].message <= Chunks
  <2>1. CASE event' = [event EXCEPT ![d] = Message(d)] /\ ~Unparsable(Head(tap[d]))
    <3>1. Head(tap[d]) <= Chunks
      <4>1. tap[d] # <<>> /\ tap[d] \in Seq(Nat)
        BY <1>2 DEF Parse, DebugInv, Inspected
      <4>2. Head(tap[d]) \in Nat
        BY <4>1
      <4> DEFINE h == Head(tap[d])
      <4>3. h \in Nat /\ ~(h > http) /\ http \in 0..Chunks
        BY <2>1, <4>2 DEF Unparsable, Limits
      <4> HIDE DEF h
      <4>4. h <= Chunks
        BY <4>3, ForwardingAssumption
      <4> QED BY <4>4 DEF h
    <3>2. index[d] <= Chunks
      <4> DEFINE i == index[d]
                 n == Len(tap[d])
                 k == Carried(d)
                 r == read[d]
                 s == sent[d]
      <4>1. i \in Nat /\ n \in Nat /\ k \in {0, 1} /\ r \in Nat /\ s \in Nat
        BY CountTypes, TypeFacts DEF ForwardInv
      <4>2. i + n + k <= r /\ r <= s /\ s <= Chunks
        BY DEF Accounted, AccountedFor, ForwardInv, Ordered, Limits
      <4> HIDE DEF i, n, k, r, s
      <4>3. i <= Chunks
        BY <4>1, <4>2, ForwardingAssumption
      <4> QED BY <4>3 DEF i
    <3>3. Message(d).id = index[d] /\ Message(d).message = Head(tap[d])
      BY DEF Message
    <3>4. event'[c] = IF c = d THEN Message(d) ELSE event[c]
      BY <1>0, <2>1
    <3> QED BY <1>0, <3>1, <3>2, <3>3, <3>4
  <2> QED BY <1>1, <1>2, <2>1 DEF Parse
<1>3. ASSUME NEW d \in Directions, dispatchEvent(d)
      PROVE  event'[c].id <= Chunks /\ event'[c].message <= Chunks
  <2>1. UNCHANGED event \/ event' = [event EXCEPT ![d] = NoEvent]
    BY <1>3 DEF dispatchEvent, RangeOn, GoSend, EndRange
  <2>2. event'[c] = event[c] \/ event'[c] = NoEvent
    BY <1>0, <2>1
  <2> QED BY <1>0, <2>2, ForwardingAssumption DEF NoEvent
<1>4. CASE Connection
  BY <1>1, <1>4 DEF Connection, parsing
<1>5. ASSUME NEW b \in Browsers, Join(b) \/ DeleteListener(b) \/ CloseEvents(b)
      PROVE  UNCHANGED event
  BY <1>5 DEF Join, DeleteListener, CloseEvents, WriteListeners, parsing
<1>6. ASSUME NEW p \in pending, Receive(p) \/ SendPanics(p)
      PROVE  UNCHANGED event
  BY <1>6 DEF Receive, SendPanics, parsing
<1>7. CASE UNCHANGED vars
  BY <1>1, <1>7 DEF vars, parsing
<1> QED BY <1>1, <1>2, <1>3, <1>4, <1>5, <1>6, <1>7 DEF Next

LEMMA StepDebuggerInv == DebuggerInv /\ [Next]_vars => DebuggerInv'
<1> SUFFICES ASSUME DebuggerInv, [Next]_vars PROVE DebuggerInv'
  OBVIOUS
<1>1. ForwardInv' /\ DebugInv' /\ Accounted'
  BY StepForwardInv, StepDebugInv, StepAccounted DEF DebuggerInv
<1>2. http' \in 0..Chunks /\ debugging' \in BOOLEAN
  BY StepFlags, Zenon DEF DebuggerInv, Limits
<1>3. panicked' \in BOOLEAN /\ troubles' \in 0..MaxTroubles
  BY StepFlags DEF DebuggerInv
<1>4. visit' \in [Browsers -> Visits] /\ DOMAIN page' = Browsers
  BY StepVisits DEF DebuggerInv
<1>5. ASSUME NEW d \in Directions
      PROVE  /\ sent'[d] <= Chunks /\ Len(tap'[d]) <= Capacity[d]
             /\ event'[d].id <= Chunks /\ event'[d].message <= Chunks
  BY StepLengths, StepEvents DEF DebuggerInv
<1>6. Limits'
  BY <1>2, <1>3, <1>4, <1>5 DEF Limits
<1> QED BY <1>1, <1>6 DEF DebuggerInv

(* For any number of chunks, pages and troubles, loops, pipes, parsers,     *)
(* listeners and pages keep their types: no pipe holds more than its        *)
(* capacity, no loop writes what it has not read, and no message has a      *)
(* number that was not read (Bind in cli/jprq/bind.go, cli/debugger/).      *)
THEOREM DebuggerTypeCorrect == Spec => []DebuggerTypeOK
<1>1. ASSUME DebuggerInv, NEW d \in Directions
      PROVE  /\ sent[d] \in 0..Chunks /\ read[d] \in 0..Chunks
             /\ buf[d] \in 0..Chunks /\ index[d] \in 0..Chunks
             /\ written[d] \in Seq(1..Chunks)
             /\ event[d] \in [kind : Directions, id : 0..Chunks, message : 0..Chunks]
  <2>1. /\ read[d] \in Nat /\ sent[d] \in Nat /\ buf[d] \in Nat
        /\ written[d] \in Seq(Nat) /\ Len(written[d]) \in Nat
        /\ index[d] \in Nat /\ Len(tap[d]) \in Nat /\ Carried(d) \in {0, 1}
        /\ Chunks \in Nat
    BY <1>1, TypeFacts, CountTypes, ForwardingAssumption DEF DebuggerInv, ForwardInv
  <2>2. /\ read[d] <= sent[d] /\ sent[d] <= Chunks /\ Len(written[d]) <= read[d]
        /\ index[d] + Len(tap[d]) + Carried(d) <= read[d]
        /\ buf[d] = 0 \/ buf[d] = read[d]
    BY <1>1 DEF DebuggerInv, ForwardInv, DebugInv, Ordered, Counted, Limits,
                Accounted, AccountedFor
  <2>3. read[d] <= Chunks /\ index[d] <= Chunks /\ Len(written[d]) <= Chunks
    <3> DEFINE i == index[d]
               n == Len(tap[d])
               k == Carried(d)
               r == read[d]
               s == sent[d]
               w == Len(written[d])
    <3>1. /\ i \in Nat /\ n \in Nat /\ k \in {0, 1} /\ r \in Nat /\ s \in Nat
          /\ w \in Nat /\ Chunks \in Nat
          /\ r <= s /\ s <= Chunks /\ w <= r /\ i + n + k <= r
      BY <2>1, <2>2
    <3> HIDE DEF i, n, k, r, s, w
    <3>2. r <= Chunks /\ i <= Chunks /\ w <= Chunks
      BY <3>1
    <3> QED BY <3>2 DEF i, r, w
  <2>4. written[d] \in Seq(1..Chunks)
    <3>1. \A m \in DOMAIN written[d] : written[d][m] = m
      BY <1>1 DEF DebuggerInv, ForwardInv, Ordered
    <3>2. \A m \in 1..Len(written[d]) : written[d][m] \in 1..Chunks
      BY <2>1, <2>3, <3>1
    <3> QED BY <2>1, <3>2
  <2>5. event[d] \in Events /\ event[d].id <= Chunks /\ event[d].message <= Chunks
    BY <1>1 DEF DebuggerInv, DebugInv, Inspected, Limits
  <2> QED BY <2>1, <2>2, <2>3, <2>4, <2>5 DEF Events
<1>2. ASSUME DebuggerInv
      PROVE  ForwardingTypeOK
  <2>1. /\ http \in 0..Chunks /\ debugging \in BOOLEAN /\ panicked \in BOOLEAN
        /\ troubles \in 0..MaxTroubles
        /\ \A d \in Directions : Len(tap[d]) <= Capacity[d]
    BY <1>2, Zenon DEF DebuggerInv, Limits
  <2>2. Types
    BY <1>2 DEF DebuggerInv, ForwardInv
  <2>3. /\ open \in [Ends -> BOOLEAN] /\ slow \in [Directions -> BOOLEAN]
        /\ peer \in [Ends -> {"open", "finished", "closed", "reset"}]
        /\ loop \in [Directions ->
                       {"read", "write", "tap", "close dst", "close src", "ended"}]
    BY <2>2, Zenon DEF Types, Statuses, Labels
  <2>4. /\ sent \in [Directions -> 0..Chunks] /\ read \in [Directions -> 0..Chunks]
        /\ buf \in [Directions -> 0..Chunks]
        /\ written \in [Directions -> Seq(1..Chunks)]
    BY <1>1, <1>2, <2>2 DEF Types
  <2> QED BY <2>1, <2>3, <2>4, Zenon DEF ForwardingTypeOK
<1>3. ASSUME DebuggerInv
      PROVE  DebuggerTypeOK
  <2>1. /\ parser \in [Directions -> {"parsing", "ranging", "stopped"}]
        /\ left \in [Directions -> SUBSET Browsers]
        /\ listener \in [Directions -> SUBSET Browsers]
        /\ swallowed \in BOOLEAN
        /\ \A p \in pending : p.browser \in Browsers /\ p.event \in Events
    BY <1>3, Zenon DEF DebuggerInv, DebugInv, Inspected, Parsers
  <2>2. \A p \in pending : p.browser \in Browsers /\ p.event.kind \in Directions
    BY <2>1 DEF Events
  <2>3. visit \in [Browsers -> {"away", "watching", "deleted", "gone"}]
        /\ DOMAIN page = Browsers
    BY <1>3, Zenon DEF DebuggerInv, Limits, Visits
  <2> QED BY <1>1, <1>2, <1>3, <2>1, <2>2, <2>3, Zenon DEF DebuggerTypeOK
<1>4. DebuggerInv => DebuggerTypeOK
  BY <1>3
<1> QED BY InitDebuggerInv, StepDebuggerInv, <1>4, PTL DEF Spec

-----------------------------------------------------------------------------
(* No page has gaps.  While a range goes on, a watching page that was told  *)
(* of a message of the direction before is one the range still comes to,  *)
(* or was told of this one too: the range may miss a page that came in its  *)
(* course, never one that was there when it began.                          *)
Known(b) == Sent(b) \cup page[b].received

Heard(b, d) == {e.id : e \in {f \in Known(b) : f.kind = d}}

Reached(b, d) == b \in left[d] \cup listener[d]

Numbered(d) ==
  parser[d] = "ranging" => event[d].kind = d /\ event[d].id + 1 = index[d]

Older(b) == \A e \in Known(b) : e.id < index[e.kind]

Unseen(b) ==
  visit[b] = "away" => Known(b) = {} /\ \A d \in Directions : ~Reached(b, d)

Catching(b, d) ==
  visit[b] = "watching" /\ parser[d] = "ranging" /\ Heard(b, d) # {} =>
    Reached(b, d) \/ index[d] - 1 \in Heard(b, d)

NoGap(b, d) ==
  visit[b] = "watching" =>
    \A i, j \in Nat :
      i < j /\ j < Dispatched(d) /\ i \in Heard(b, d) => j \in Heard(b, d)

GapInv ==
  /\ \A d \in Directions : Numbered(d)
  /\ \A b \in Browsers : Older(b) /\ Unseen(b)
  /\ \A b \in Browsers, d \in Directions : Catching(b, d) /\ NoGap(b, d)

LEMMA InitGapInv == Init => GapInv
<1> SUFFICES ASSUME Init PROVE GapInv
  OBVIOUS
<1>1. \A b \in Browsers : Known(b) = {}
  BY DEF Init, Known, Sent, EmptyPage
<1>2. /\ \A d \in Directions : parser[d] = "parsing"
      /\ \A b \in Browsers : visit[b] = "away"
      /\ \A b \in Browsers, d \in Directions : ~Reached(b, d)
  BY DEF Init, Reached
<1> QED BY <1>1, <1>2
        DEF GapInv, Numbered, Older, Unseen, Catching, NoGap

(* Events that are known are numbered messages.                             *)
LEMMA KnownEvents ==
  ASSUME DebugInv, NEW b \in Browsers, NEW e \in Known(b)
  PROVE  e \in Events
<1>1. page[b].received \subseteq Events
  BY DEF DebugInv, Inspected, Pages
<1>2. Sent(b) \subseteq Events
  BY DEF DebugInv, Inspected, Sent
<1> QED BY <1>1, <1>2 DEF Known

(* What neither parses nor begins or ends a range keeps GapInv as long as   *)
(* it leaves what each page knows, who watches and who is still reached.    *)
LEMMA KnowingKeepsGapInv ==
  ASSUME GapInv, UNCHANGED <<parser, index, event, visit>>,
         \A b \in Browsers : Known(b)' = Known(b),
         \A b \in Browsers, d \in Directions : Reached(b, d)' <=> Reached(b, d)
  PROVE  GapInv'
<1>1. \A d \in Directions : Dispatched(d)' = Dispatched(d)
  BY DEF Dispatched
<1>2. \A b \in Browsers, d \in Directions : Heard(b, d)' = Heard(b, d)
  BY DEF Heard
<1>3. \A d \in Directions : Numbered(d)'
  BY DEF GapInv, Numbered
<1>4. \A b \in Browsers : Older(b)' /\ Unseen(b)'
  BY <1>1 DEF GapInv, Older, Unseen
<1>5. ASSUME NEW b \in Browsers, NEW d \in Directions
      PROVE  Catching(b, d)' /\ NoGap(b, d)'
  BY <1>1, <1>2 DEF GapInv, Catching, NoGap
<1> QED BY <1>3, <1>4, <1>5 DEF GapInv

LEMMA ParseLeavesNoGap ==
  ASSUME DebugInv, GapInv, NEW d \in Directions, Parse(d)
  PROVE  GapInv'
<1>1. /\ UNCHANGED <<visit, pending, page, listener>> /\ parser[d] = "parsing"
      /\ index \in [Directions -> Nat]
  BY DEF Parse, views, DebugInv, Inspected
<1>2. \A b \in Browsers : Known(b)' = Known(b)
  BY <1>1 DEF Known, Sent
<1>3. \A b \in Browsers, c \in Directions : Heard(b, c)' = Heard(b, c)
  BY <1>2 DEF Heard
<1>4. /\ \A c \in Directions : Numbered(c)
      /\ \A b \in Browsers : Older(b) /\ Unseen(b)
      /\ \A b \in Browsers, c \in Directions : Catching(b, c) /\ NoGap(b, c)
  BY DEF GapInv
<1>5. CASE Unparsable(Head(tap[d]))
  <2>1. /\ UNCHANGED <<index, event, left>>
        /\ \A c \in Directions :
             /\ parser'[c] = "ranging" <=> parser[c] = "ranging"
             /\ Dispatched(c)' = Dispatched(c)
    BY <1>1, <1>5 DEF Parse, DebugInv, Inspected, Dispatched
  <2>2. \A b \in Browsers, c \in Directions : Reached(b, c)' <=> Reached(b, c)
    BY <1>1, <2>1 DEF Reached
  <2>3. \A c \in Directions : Numbered(c)'
    BY <1>4, <2>1 DEF Numbered
  <2>4. \A b \in Browsers : Older(b)' /\ Unseen(b)'
    BY <1>1, <1>2, <1>4, <2>1, <2>2 DEF Older, Unseen
  <2>5. ASSUME NEW b \in Browsers, NEW c \in Directions
        PROVE  Catching(b, c)' /\ NoGap(b, c)'
    <3>1. Catching(b, c)'
      BY <1>1, <1>3, <1>4, <2>1, <2>2 DEF Catching
    <3>2. NoGap(b, c)'
      BY <1>1, <1>3, <1>4, <2>1 DEF NoGap
    <3> QED BY <3>1, <3>2
  <2> QED BY <2>3, <2>4, <2>5 DEF GapInv
<1>6. CASE ~Unparsable(Head(tap[d]))
  <2>1. /\ parser' = [parser EXCEPT ![d] = "ranging"]
        /\ event' = [event EXCEPT ![d] = Message(d)]
        /\ index' = [index EXCEPT ![d] = index[d] + 1]
        /\ left' = [left EXCEPT ![d] = Listeners]
    BY <1>6 DEF Parse
  <2>2. /\ parser'[d] = "ranging" /\ event'[d] = Message(d)
        /\ index'[d] = index[d] + 1 /\ left'[d] = Listeners
        /\ \A c \in Directions \ {d} :
             /\ parser'[c] = parser[c] /\ event'[c] = event[c]
             /\ index'[c] = index[c] /\ left'[c] = left[c]
    BY <2>1 DEF DebugInv, Inspected
  <2>3. /\ \A c \in Directions : index'[c] \in Nat /\ index[c] <= index'[c]
        /\ index'[d] - 1 = index[d]
    BY <1>1, <2>2
  <2>4. \A c \in Directions : Numbered(c)'
    <3>1. Numbered(d)'
      BY <2>2 DEF Numbered, Message
    <3>2. \A c \in Directions \ {d} : Numbered(c)'
      BY <1>4, <2>2 DEF Numbered
    <3> QED BY <3>1, <3>2
  <2>5. ASSUME NEW b \in Browsers
        PROVE  Older(b)'
    <3>1. ASSUME NEW e \in Known(b)
          PROVE  e.id < index'[e.kind]
      <4>1. e.id \in Nat /\ e.kind \in Directions
        BY KnownEvents DEF Events
      <4>2. e.id < index[e.kind] /\ index[e.kind] \in Nat
        BY <1>1, <1>4, <4>1 DEF Older
      <4> QED BY <2>3, <4>1, <4>2
    <3> QED BY <1>2, <3>1 DEF Older
  <2>6. ASSUME NEW b \in Browsers
        PROVE  Unseen(b)'
    <3>1. visit[b] = "away" => b \notin Listeners
      BY DEF Listeners
    <3> QED BY <1>1, <1>2, <1>4, <2>2, <3>1 DEF Unseen, Reached
  <2>7. ASSUME NEW b \in Browsers, NEW c \in Directions
        PROVE  Catching(b, c)' /\ NoGap(b, c)'
    <3>1. Catching(b, c)'
      <4>1. CASE c = d
        <5>1. visit[b] = "watching" => Reached(b, d)'
          BY <2>2 DEF Listeners, Reached
        <5> QED BY <1>1, <4>1, <5>1 DEF Catching
      <4>2. CASE c # d
        <5>1. /\ parser'[c] = parser[c] /\ index'[c] = index[c]
              /\ Reached(b, c)' <=> Reached(b, c)
          BY <1>1, <2>2, <4>2 DEF Reached
        <5> QED BY <1>1, <1>3, <1>4, <5>1 DEF Catching
      <4> QED BY <4>1, <4>2
    <3>2. Dispatched(c)' = Dispatched(c)
      BY <1>1, <2>2, <2>3 DEF Dispatched
    <3>3. NoGap(b, c)'
      BY <1>1, <1>3, <1>4, <3>2 DEF NoGap
    <3> QED BY <3>1, <3>3
  <2> QED BY <2>4, <2>5, <2>6, <2>7 DEF GapInv
<1> QED BY <1>5, <1>6

LEMMA GoSendLeavesNoGap ==
  ASSUME DebugInv, GapInv, NEW d \in Directions, GoSend(d)
  PROVE  GapInv'
<1> DEFINE e == event[d]
<1>1. /\ UNCHANGED <<parser, index, event, left, visit, page>>
      /\ parser[d] = "ranging" /\ index \in [Directions -> Nat]
      /\ pending' = pending \cup [browser : listener[d], event : {e}]
      /\ listener' = [listener EXCEPT ![d] = {}]
      /\ listener \in [Directions -> SUBSET Browsers]
  BY DEF GoSend, Ranging, DebugInv, Inspected
<1>2. e.kind = d /\ e.id = index[d] - 1 /\ e.id \in Nat
  <2>1. e.kind = d /\ e.id + 1 = index[d]
    BY <1>1 DEF GapInv, Numbered
  <2>2. e.id \in Nat
    BY DEF DebugInv, Inspected, Events
  <2> QED BY <2>1, <2>2
<1>3. ASSUME NEW b \in Browsers
      PROVE  Known(b)' = IF b \in listener[d] THEN Known(b) \cup {e} ELSE Known(b)
  <2>1. Sent(b)' = IF b \in listener[d] THEN Sent(b) \cup {e} ELSE Sent(b)
    <3> DEFINE new == [browser : listener[d], event : {e}]
    <3>1. pending' = pending \cup new
      BY <1>1
    <3>2. \A q \in new : q.browser \in listener[d] /\ q.event = e
      OBVIOUS
    <3>3. b \in listener[d] => \E q \in new : q.browser = b /\ q.event = e
      <4>1. b \in listener[d] => [browser |-> b, event |-> e] \in new
        OBVIOUS
      <4> QED BY <4>1
    <3> HIDE DEF new, e
    <3>4. \A x : x \in Sent(b)' <=>
                   x \in Sent(b) \/ (b \in listener[d] /\ x = e)
      BY <3>1, <3>2, <3>3 DEF Sent
    <3> QED BY <3>4
  <2> QED BY <1>1, <2>1 DEF Known
<1>4. ASSUME NEW b \in Browsers, NEW c \in Directions
      PROVE  Heard(b, c)' = IF b \in listener[d] /\ c = d
                            THEN Heard(b, c) \cup {e.id} ELSE Heard(b, c)
  BY <1>2, <1>3 DEF Heard
<1>5. ASSUME NEW b \in Browsers, NEW c \in Directions
      PROVE  /\ Reached(b, c)' => Reached(b, c)
             /\ Reached(b, c) => Reached(b, c)' \/ (b \in listener[d] /\ c = d)
  BY <1>1 DEF Reached
<1> HIDE DEF e
<1>6. /\ \A c \in Directions : Numbered(c)
      /\ \A b \in Browsers : Older(b) /\ Unseen(b)
      /\ \A b \in Browsers, c \in Directions : Catching(b, c) /\ NoGap(b, c)
  BY DEF GapInv
<1>7. \A c \in Directions : Numbered(c)'
  BY <1>1, <1>6 DEF Numbered
<1>8. ASSUME NEW b \in Browsers
      PROVE  Older(b)' /\ Unseen(b)'
  <2>1. e.id < index[e.kind]
    BY <1>1, <1>2
  <2>2. Older(b)'
    BY <1>1, <1>3, <1>6, <2>1 DEF Older
  <2>3. visit[b] = "away" => b \notin listener[d]
    BY <1>6 DEF Unseen, Reached
  <2>4. Unseen(b)'
    BY <1>1, <1>3, <1>5, <1>6, <2>3 DEF Unseen
  <2> QED BY <2>2, <2>4
<1>9. ASSUME NEW b \in Browsers, NEW c \in Directions
      PROVE  Catching(b, c)' /\ NoGap(b, c)'
  <2>1. CASE b \in listener[d] /\ c = d
    <3>1. Heard(b, c)' = Heard(b, c) \cup {e.id}
      BY <1>4, <2>1
    <3>2. Catching(b, c)'
      BY <1>1, <1>2, <2>1, <3>1 DEF Catching
    <3>3. Dispatched(c)' = e.id /\ Dispatched(c) = e.id
      BY <1>1, <1>2, <2>1 DEF Dispatched
    <3>4. NoGap(b, c)'
      BY <1>1, <1>2, <1>6, <3>1, <3>3 DEF NoGap
    <3> QED BY <3>2, <3>4
  <2>2. CASE ~(b \in listener[d] /\ c = d)
    <3>1. /\ Heard(b, c)' = Heard(b, c) /\ (Reached(b, c)' <=> Reached(b, c))
          /\ Dispatched(c)' = Dispatched(c)
      BY <1>1, <1>4, <1>5, <2>2 DEF Dispatched
    <3> QED BY <1>1, <1>6, <3>1 DEF Catching, NoGap
  <2> QED BY <2>1, <2>2
<1> QED BY <1>7, <1>8, <1>9 DEF GapInv

(* A range that ends has told of its message every page that was told of    *)
(* one before.                                                              *)
LEMMA EndRangeLeavesNoGap ==
  ASSUME DebugInv, GapInv, NEW d \in Directions, EndRange(d)
  PROVE  GapInv'
<1>1. /\ UNCHANGED <<index, left, listener, visit, pending, page>>
      /\ parser[d] = "ranging" /\ left[d] = {} /\ listener[d] = {}
      /\ index \in [Directions -> Nat]
      /\ parser'[d] = "parsing"
      /\ \A c \in Directions \ {d} : parser'[c] = parser[c] /\ event'[c] = event[c]
  BY DEF EndRange, Ranging, ranges, views, DebugInv, Inspected
<1>2. \A b \in Browsers : Known(b)' = Known(b)
  BY <1>1 DEF Known, Sent
<1>3. \A b \in Browsers, c \in Directions :
        Heard(b, c)' = Heard(b, c) /\ (Reached(b, c)' <=> Reached(b, c))
  BY <1>1, <1>2 DEF Heard, Reached
<1>4. /\ \A c \in Directions : Numbered(c)
      /\ \A b \in Browsers : Older(b) /\ Unseen(b)
      /\ \A b \in Browsers, c \in Directions : Catching(b, c) /\ NoGap(b, c)
  BY DEF GapInv
<1>5. \A c \in Directions : Numbered(c)'
  BY <1>1, <1>4 DEF Numbered
<1>6. \A b \in Browsers : Older(b)' /\ Unseen(b)'
  BY <1>1, <1>2, <1>3, <1>4 DEF Older, Unseen
<1>7. ASSUME NEW b \in Browsers, NEW c \in Directions
      PROVE  Catching(b, c)' /\ NoGap(b, c)'
  <2>1. CASE c # d
    <3>1. parser'[c] = parser[c] /\ Dispatched(c)' = Dispatched(c)
      BY <1>1, <2>1 DEF Dispatched
    <3> QED BY <1>1, <1>3, <1>4, <3>1 DEF Catching, NoGap
  <2>2. CASE c = d
    <3>1. Catching(b, c)'
      BY <1>1, <2>2 DEF Catching
    <3>2. ASSUME visit[b] = "watching", NEW i \in Nat, NEW j \in Nat,
                 i < j, j < index[d], i \in Heard(b, d)
          PROVE  j \in Heard(b, d)
      <4>1. index[d] - 1 \in Heard(b, d)
        BY <1>1, <1>4, <3>2 DEF Catching, Reached
      <4>2. j < index[d] - 1 \/ j = index[d] - 1
        BY <1>1, <3>2
      <4>3. j < index[d] - 1 => j \in Heard(b, d)
        BY <1>1, <1>4, <3>2 DEF NoGap, Dispatched
      <4> QED BY <4>1, <4>2, <4>3
    <3>3. Dispatched(d)' = index[d]
      BY <1>1 DEF Dispatched
    <3>4. NoGap(b, c)'
      BY <1>1, <1>3, <2>2, <3>2, <3>3 DEF NoGap
    <3> QED BY <3>1, <3>4
  <2> QED BY <2>1, <2>2
<1> QED BY <1>5, <1>6, <1>7 DEF GapInv

(* A page that comes knows nothing yet, and one that goes need not.         *)
LEMMA VisitsLeaveNoGap ==
  ASSUME DebugInv, GapInv, NEW b \in Browsers, NEW v \in Visits \ {"away"},
         UNCHANGED <<parser, index, event, pending, page>>,
         visit' = [visit EXCEPT ![b] = v], visit \in [Browsers -> Visits],
         v = "watching" => visit[b] = "away",
         \A c \in Browsers \ {b}, d \in Directions : Reached(c, d)' <=> Reached(c, d)
  PROVE  GapInv'
<1>1. \A c \in Browsers : Known(c)' = Known(c)
  BY DEF Known, Sent
<1>2. \A c \in Browsers, d \in Directions : Heard(c, d)' = Heard(c, d)
  BY <1>1 DEF Heard
<1>3. \A d \in Directions : Dispatched(d)' = Dispatched(d)
  BY DEF Dispatched
<1>4. visit'[b] = v /\ \A c \in Browsers \ {b} : visit'[c] = visit[c]
  OBVIOUS
<1>5. \A d \in Directions : Numbered(d)'
  BY DEF GapInv, Numbered
<1>6. \A c \in Browsers : Older(c)'
  BY <1>1 DEF GapInv, Older
<1>7. ASSUME NEW c \in Browsers, c # b
      PROVE  Unseen(c)' /\ \A d \in Directions : Catching(c, d)' /\ NoGap(c, d)'
  BY <1>1, <1>2, <1>3, <1>4, <1>7 DEF GapInv, Unseen, Catching, NoGap
<1>8. Unseen(b)'
  BY <1>4 DEF Unseen
<1>9. ASSUME NEW d \in Directions
      PROVE  Catching(b, d)' /\ NoGap(b, d)'
  <2>1. v = "watching" => Heard(b, d) = {}
    BY DEF GapInv, Unseen, Heard
  <2> QED BY <1>2, <1>4, <2>1 DEF Catching, NoGap
<1> QED BY <1>5, <1>6, <1>7, <1>8, <1>9 DEF GapInv

LEMMA StepGapInv == DebuggerInv /\ GapInv /\ [Next]_vars => GapInv'
<1> SUFFICES ASSUME DebuggerInv, GapInv, [Next]_vars PROVE GapInv'
  OBVIOUS
<1>1. DebugInv /\ visit \in [Browsers -> Visits]
  BY DEF DebuggerInv, Limits
<1>2. ASSUME UNCHANGED <<parsing, visit>>,
             \A b \in Browsers : Known(b)' = Known(b)
      PROVE  GapInv'
  <2>1. UNCHANGED <<parser, index, event, left, listener, visit>>
    BY <1>2 DEF parsing, ranges
  <2>2. \A b \in Browsers, d \in Directions : Reached(b, d)' <=> Reached(b, d)
    BY <2>1 DEF Reached
  <2> QED BY <1>2, <2>1, <2>2, KnowingKeepsGapInv
<1>3. CASE Connection \/ UNCHANGED vars
  BY <1>2, <1>3 DEF Connection, vars, views, Known, Sent
<1>4. ASSUME NEW d \in Directions, RangeOn(d)
      PROVE  GapInv'
  <2>1. PICK b \in left[d] :
          /\ listener[d] = {}
          /\ listener' = [listener EXCEPT ![d] = {b}]
          /\ left' = [left EXCEPT ![d] = left[d] \ {b}]
    BY <1>4 DEF RangeOn
  <2>2. UNCHANGED <<parser, index, event, visit, pending, page>>
    BY <1>4 DEF RangeOn, views
  <2>3. /\ left \in [Directions -> SUBSET Browsers]
        /\ listener \in [Directions -> SUBSET Browsers]
    BY <1>1 DEF DebugInv, Inspected
  <2>4. \A c \in Browsers, k \in Directions : Reached(c, k)' <=> Reached(c, k)
    BY <2>1, <2>3 DEF Reached
  <2>5. \A c \in Browsers : Known(c)' = Known(c)
    BY <2>2 DEF Known, Sent
  <2> QED BY <2>2, <2>4, <2>5, KnowingKeepsGapInv
<1>5. ASSUME NEW d \in Directions, Parse(d) \/ dispatchEvent(d)
      PROVE  GapInv'
  BY <1>1, <1>4, <1>5, ParseLeavesNoGap, GoSendLeavesNoGap, EndRangeLeavesNoGap
     DEF dispatchEvent
<1>6. ASSUME NEW b \in Browsers, Join(b) \/ DeleteListener(b) \/ CloseEvents(b)
      PROVE  GapInv'
  <2>1. UNCHANGED <<parser, index, event, listener, pending, page>>
    BY <1>6
       DEF Join, DeleteListener, CloseEvents, WriteListeners, parsing, ranges
  <2>2. PICK v \in Visits \ {"away"} :
          /\ visit' = [visit EXCEPT ![b] = v]
          /\ v = "watching" => visit[b] = "away"
    BY <1>6 DEF Join, DeleteListener, CloseEvents, WriteListeners, Visits
  <2>3. \A c \in Browsers \ {b}, d \in Directions : Reached(c, d)' <=> Reached(c, d)
    <3>1. CASE Join(b)
      BY <2>1, <3>1 DEF Join, Reached
    <3>2. CASE DeleteListener(b)
      BY <2>1, <3>2 DEF DeleteListener, Reached
    <3>3. CASE CloseEvents(b)
      BY <3>3 DEF CloseEvents, parsing, ranges, Reached
    <3> QED BY <1>6, <3>1, <3>2, <3>3
  <2> QED BY <1>1, <2>1, <2>2, <2>3, VisitsLeaveNoGap
<1>7. ASSUME NEW p \in pending, Receive(p)
      PROVE  GapInv'
  <2>1. /\ UNCHANGED <<parsing, visit>> /\ pending' = pending \ {p}
        /\ page' = [page EXCEPT ![p.browser] = Kept(page[p.browser], p.event)]
    BY <1>7 DEF Receive
  <2>2. /\ page \in [Browsers -> Pages] /\ p.browser \in Browsers
        /\ p.event \in Events
    BY <1>1 DEF DebugInv, Inspected
  <2>3. Kept(page[p.browser], p.event).received
          = page[p.browser].received \cup {p.event}
    BY <2>2, EventPage DEF Kept, Pages
  <2>4. ASSUME NEW b \in Browsers
        PROVE  Known(b)' = Known(b)
    <3>1. CASE b # p.browser
      BY <2>1, <2>2, <3>1 DEF Known, Sent
    <3>2. CASE b = p.browser
      <4>1. page'[b].received = page[b].received \cup {p.event}
        BY <2>1, <2>2, <2>3, <3>2
      <4>2. Sent(b) = Sent(b)' \cup {p.event}
        BY <2>1, <3>2 DEF Sent
      <4> QED BY <4>1, <4>2 DEF Known
    <3> QED BY <3>1, <3>2
  <2> QED BY <1>2, <2>1, <2>4
<1>8. ASSUME NEW p \in pending, SendPanics(p)
      PROVE  GapInv'
  BY <1>2, <1>8 DEF SendPanics, views, Known, Sent
<1> QED BY <1>3, <1>5, <1>6, <1>7, <1>8 DEF Next

(* From the first message it was told of a watching page has been sent      *)
(* every later one of that direction whose dispatch is over, however many   *)
(* pages come and go while ranges go on (dispatchEvent and the handler of   *)
(* events in server.go).                                                    *)
THEOREM PagesHaveNoGaps == Spec => []PageHasNoGaps
<1>1. ASSUME GapInv
      PROVE  PageHasNoGaps
  <2>1. ASSUME NEW b \in Browsers, NEW d \in Directions, NEW i
        PROVE  Told(b, d, i) <=> i \in Heard(b, d)
    BY DEF Told, Heard, Known
  <2>2. 0..Chunks - 1 \subseteq Nat
    BY ForwardingAssumption
  <2> QED BY <1>1, <2>1, <2>2 DEF PageHasNoGaps, GapInv, NoGap
<1>2. GapInv => PageHasNoGaps
  BY <1>1
<1>3. DebuggerInv /\ GapInv /\ [Next]_vars => DebuggerInv' /\ GapInv'
  BY StepDebuggerInv, StepGapInv
<1> QED BY InitDebuggerInv, InitGapInv, <1>2, <1>3, PTL DEF Spec

-----------------------------------------------------------------------------
(* The refinement of ByteStream.  Of a step only what one direction sees of *)
(* it matters.                                                              *)
Stutters(d) ==
  sent'[d] = sent[d] /\ written'[d] = written[d] /\ (Severed(d)' <=> Severed(d))

Offers(d) ==
  /\ sent'[d] = sent[d] + 1 /\ sent[d] < Chunks
  /\ written'[d] = written[d] /\ (Severed(d)' <=> Severed(d))

Delivers(d) ==
  /\ ~Severed(d) /\ ~Severed(d)' /\ sent'[d] = sent[d]
  /\ Len(written[d]) < sent[d]
  /\ written'[d] = Append(written[d], Len(written[d]) + 1)

Cuts(d) ==
  ~Severed(d) /\ Severed(d)' /\ sent'[d] = sent[d] /\ written'[d] = written[d]

Streams(d) == Stutters(d) \/ Offers(d) \/ Delivers(d) \/ Cuts(d)

LEMMA UntouchedStreams ==
  ASSUME UNCHANGED <<sent, written, open, peer>>, NEW d \in Directions
  PROVE  Streams(d)
BY DEF Streams, Stutters, Severed, Broken

LEMMA WriteStreams ==
  ASSUME ForwardInv, NEW c \in Directions, Write(c), NEW d \in Directions
  PROVE  Streams(d)
<1>1. /\ Types /\ Ordered(d) /\ loop[c] = "write" /\ UNCHANGED <<open, sent>>
  BY DEF ForwardInv, Write, At, WriteSucceeds, WriteFails, peers
<1>2. CASE WriteFails(c, "close dst")
  BY <1>1, <1>2, UntouchedStreams DEF WriteFails, peers
<1>3. CASE WriteSucceeds(c)
  <2>1. ~Broken(c)
    BY <1>3 DEF WriteSucceeds
  <2>2. \/ UNCHANGED <<written, peer>>
        \/ /\ peer[dst(c)] = "closed" /\ UNCHANGED written
           /\ peer' = [peer EXCEPT ![dst(c)] = "reset"]
        \/ /\ buf[c] # 0 /\ peer[dst(c)] # "closed" /\ UNCHANGED peer
           /\ written' = [written EXCEPT ![c] = Append(written[c], buf[c])]
    BY <1>3 DEF WriteSucceeds
  <2>3. CASE UNCHANGED <<written, peer>>
    BY <1>1, <2>3, UntouchedStreams
  <2>4. CASE /\ peer[dst(c)] = "closed" /\ UNCHANGED written
             /\ peer' = [peer EXCEPT ![dst(c)] = "reset"]
    <3>1. dst(c) \in Ends /\ dst(d) \in Ends /\ peer \in [Ends -> Statuses]
      BY <1>1, Sides DEF Types
    <3>2. peer'[dst(d)] = IF dst(d) = dst(c) THEN "reset" ELSE peer[dst(d)]
      BY <2>4, <3>1
    <3> QED BY <1>1, <2>4, <3>2 DEF Streams, Stutters, Severed, Broken
  <2>5. CASE /\ buf[c] # 0 /\ peer[dst(c)] # "closed" /\ UNCHANGED peer
             /\ written' = [written EXCEPT ![c] = Append(written[c], buf[c])]
    <3>1. CASE c # d
      <4>1. written'[d] = written[d]
        BY <1>1, <2>5, <3>1 DEF Types
      <4> QED BY <1>1, <2>5, <4>1 DEF Streams, Stutters, Severed, Broken
    <3>2. CASE c = d
      <4>1. ~Severed(d) /\ ~Severed(d)' /\ peer[dst(d)] # "reset"
        BY <1>1, <2>1, <2>5, <3>2 DEF Severed, Broken
      <4>2. /\ buf[d] = read[d] /\ Len(written[d]) = read[d] - 1
            /\ read[d] <= sent[d]
        BY <1>1, <2>5, <3>2, <4>1 DEF Ordered, Intact
      <4>3. written'[d] = Append(written[d], buf[d])
        BY <1>1, <2>5, <3>2 DEF Types
      <4>4. read[d] \in Nat /\ sent[d] \in Nat /\ Len(written[d]) \in Nat
        BY <1>1, TypeFacts
      <4>5. buf[d] = Len(written[d]) + 1 /\ Len(written[d]) < sent[d]
        BY <4>2, <4>4
      <4> QED BY <1>1, <4>1, <4>3, <4>5 DEF Streams, Delivers
    <3> QED BY <3>1, <3>2
  <2> QED BY <2>2, <2>3, <2>4, <2>5
<1> QED BY <1>2, <1>3 DEF Write

LEMMA StepStreams ==
  ASSUME ForwardInv, [Next]_vars, NEW d \in Directions
  PROVE  Streams(d)
<1>1. Types /\ dst(d) \in Ends
  BY Sides DEF ForwardInv
<1>2. CASE ~Connection
  BY <1>2, OthersCopyNothing, UntouchedStreams DEF copied
<1>3. ASSUME NEW c \in Directions, Read(c) \/ Tap(c)
      PROVE  Streams(d)
  BY <1>3, UntouchedStreams DEF Read, Tap, peers
<1>4. ASSUME NEW c \in Directions, Close(c)
      PROVE  Streams(d)
  <2>1. PICK e \in Ends : open' = [open EXCEPT ![e] = FALSE]
    BY <1>4, Sides DEF Close
  <2>2. UNCHANGED <<sent, written, peer>>
    BY <1>4 DEF Close, peers
  <2>3. Severed(d) => Severed(d)'
    BY <1>1, <2>1, <2>2 DEF Severed, Broken, Types
  <2> QED BY <2>2, <2>3, Zenon DEF Streams, Stutters, Cuts
<1>5. ASSUME NEW c \in Directions, Send(c)
      PROVE  Streams(d)
  <2>1. /\ UNCHANGED <<open, written, peer>> /\ sent[c] < Chunks
        /\ sent' = [sent EXCEPT ![c] = sent[c] + 1]
    BY <1>5 DEF Send, PeersOnly, bindings
  <2>2. sent'[d] = IF d = c THEN sent[d] + 1 ELSE sent[d]
    BY <1>1, <2>1 DEF Types
  <2>3. Severed(d)' <=> Severed(d)
    BY <2>1 DEF Severed, Broken
  <2> QED BY <2>1, <2>2, <2>3 DEF Streams, Stutters, Offers
<1>6. ASSUME NEW e \in Ends, ShutDown(e) \/ ClosePeer(e) \/ Reset(e)
      PROVE  Streams(d)
  <2>1. PICK status \in {"finished", "closed", "reset"} :
          /\ Leave(e, status) /\ peer[e] # "reset"
          /\ status = "finished" => peer[e] = "open"
    BY <1>6 DEF ShutDown, ClosePeer, Reset
  <2>2. UNCHANGED <<open, written, sent>> /\ peer' = [peer EXCEPT ![e] = status]
    BY <2>1 DEF Leave, PeersOnly, bindings
  <2>3. Severed(d) => Severed(d)'
    BY <1>1, <2>1, <2>2 DEF Severed, Broken, Types
  <2> QED BY <2>2, <2>3, Zenon DEF Streams, Stutters, Cuts
<1> QED BY <1>2, <1>3, <1>4, <1>5, <1>6, WriteStreams DEF Connection, Bind, Peers

(* The abstract sequence of what was offered, from the counter of it.       *)
LEMMA Numbers ==
  ASSUME NEW n \in Nat
  PROVE  /\ [i \in 1..n |-> i] \in Seq(Nat) /\ Len([i \in 1..n |-> i]) = n
         /\ [i \in 1..n + 1 |-> i] = Append([i \in 1..n |-> i], n + 1)
<1>1. [i \in 1..n |-> i] \in Seq(Nat) /\ Len([i \in 1..n |-> i]) = n
  OBVIOUS
<1> DEFINE longer == Append([i \in 1..n |-> i], n + 1)
<1>2. /\ longer \in Seq(Nat) /\ Len(longer) = n + 1 /\ DOMAIN longer = 1..n + 1
      /\ \A i \in 1..n + 1 : longer[i] = i
  BY <1>1
<1>3. longer = [i \in 1..n + 1 |-> i]
  <2>1. longer = [i \in 1..n + 1 |-> longer[i]]
    BY <1>2
  <2> HIDE DEF longer
  <2> QED BY <1>2, <2>1
<1> QED BY <1>1, <1>3

(* What a step of a stream offers, delivers or cuts is what ByteStream lets *)
(* it.                                                                      *)
LEMMA SeveredOrNot ==
  ASSUME NEW d \in Directions
  PROVE  /\ Severed(d) = TRUE \/ Severed(d) = FALSE
         /\ Severed(d)' = TRUE \/ Severed(d)' = FALSE
<1>1. Severed(d) \in BOOLEAN
  BY Zenon DEF Severed
<1>2. Severed(d)' \in BOOLEAN
  BY Zenon DEF Severed
<1> QED BY <1>1, <1>2, Zenon

LEMMA SeveredAsBefore ==
  ASSUME NEW d \in Directions, Severed(d)' <=> Severed(d)
  PROVE  Severed(d)' = Severed(d)
<1> DEFINE now  == Severed(d)
           then == Severed(d)'
<1>1. now \in {TRUE, FALSE} /\ then \in {TRUE, FALSE}
  BY SeveredOrNot
<1>2. then <=> now
  OBVIOUS
<1> HIDE DEF now, then
<1>3. then = now
  BY <1>1, <1>2
<1> QED BY <1>3 DEF now, then

LEMMA OfferMaps ==
  ASSUME ForwardInv, NEW d \in Directions, Offers(d)
  PROVE  /\ \E chunk \in 1..Chunks : Offered(d)' = Append(Offered(d), chunk)
         /\ UNCHANGED <<written[d], Severed(d)>>
<1>1. sent[d] \in Nat
  BY TypeFacts DEF ForwardInv
<1>2. sent[d] + 1 \in 1..Chunks
  BY <1>1, ForwardingAssumption DEF Offers
<1>3. Offered(d)' = Append(Offered(d), sent[d] + 1)
  <2>1. Offered(d)' = [i \in 1..sent[d] + 1 |-> i]
    BY DEF Offers, Offered
  <2> QED BY <1>1, <2>1, Numbers DEF Offered
<1>4. UNCHANGED written[d] /\ UNCHANGED Severed(d)
  BY SeveredAsBefore, Zenon DEF Offers
<1> QED BY <1>2, <1>3, <1>4, Zenon

LEMMA DeliverMaps ==
  ASSUME ForwardInv, NEW d \in Directions, Delivers(d)
  PROVE  /\ ~Severed(d) /\ Len(written[d]) < Len(Offered(d))
         /\ written'[d] = Append(written[d], Offered(d)[Len(written[d]) + 1])
         /\ UNCHANGED <<Offered(d), Severed(d)>>
<1>1. sent[d] \in Nat /\ Len(written[d]) \in Nat
  BY TypeFacts DEF ForwardInv
<1>2. UNCHANGED Offered(d) /\ Len(Offered(d)) = sent[d]
  BY <1>1, Numbers DEF Offered, Delivers
<1>3. Offered(d)[Len(written[d]) + 1] = Len(written[d]) + 1
  <2>1. Len(written[d]) + 1 \in 1..sent[d]
    BY <1>1 DEF Delivers
  <2> QED BY <2>1 DEF Offered
<1>4. UNCHANGED Severed(d)
  BY SeveredAsBefore, Zenon DEF Delivers
<1>5. ~Severed(d) /\ Len(written[d]) < Len(Offered(d))
  BY <1>2 DEF Delivers
<1>6. written'[d] = Append(written[d], Offered(d)[Len(written[d]) + 1])
  BY <1>3 DEF Delivers
<1> QED BY <1>2, <1>4, <1>5, <1>6, Zenon

LEMMA CutMaps ==
  ASSUME NEW d \in Directions, Cuts(d)
  PROVE  /\ ~Severed(d) /\ Severed(d)' = TRUE
         /\ UNCHANGED <<Offered(d), written[d]>>
<1>1. Severed(d)' = TRUE /\ ~Severed(d)
  BY SeveredOrNot, Zenon DEF Cuts
<1>2. UNCHANGED <<Offered(d), written[d]>>
  BY DEF Cuts, Offered
<1> QED BY <1>1, <1>2, Zenon

LEMMA StutterMaps ==
  ASSUME NEW d \in Directions, Stutters(d)
  PROVE  UNCHANGED <<Offered(d), written[d], Severed(d)>>
<1>1. UNCHANGED Severed(d)
  BY SeveredAsBefore, Zenon DEF Stutters
<1>2. UNCHANGED <<Offered(d), written[d]>>
  BY DEF Stutters, Offered
<1> QED BY <1>1, <1>2, Zenon

(* Each direction of a forwarded connection is a ByteStream, whatever loops, *)
(* deadlines, peers and debugger do: what is delivered is what was offered,  *)
(* in order, one at a time, never taken back, and nothing is delivered once  *)
(* the agent has closed the destination or it has gone (Bind in              *)
(* cli/jprq/bind.go).                                                        *)
THEOREM ConnectionsAreStreams == Spec => ImplementsStreams
<1>1. Init => RequestStream!Init /\ ResponseStream!Init
  <2> SUFFICES ASSUME Init PROVE RequestStream!Init /\ ResponseStream!Init
    OBVIOUS
  <2>1. ASSUME NEW d \in Directions
        PROVE  Offered(d) = <<>> /\ written[d] = <<>> /\ Severed(d) = FALSE
    <3>1. sent[d] = 0 /\ written[d] = <<>> /\ open = [e \in Ends |-> TRUE]
          /\ peer = [e \in Ends |-> "open"]
      BY DEF Init, InitForwarding
    <3>2. ~Severed(d)
      BY <3>1, Sides DEF Severed, Broken
    <3>3. Offered(d) = <<>>
      BY <3>1 DEF Offered
    <3> QED BY <3>1, <3>2, <3>3, Zenon DEF Severed
  <2> QED BY <2>1, Sides DEF RequestStream!Init, ResponseStream!Init
<1>2. ForwardInv /\ [Next]_vars
        => [RequestStream!Next]_<<Offered("request"), written["request"],
                                  Severed("request")>>
  <2> SUFFICES ASSUME ForwardInv, [Next]_vars
               PROVE  \/ RequestStream!Next
                      \/ UNCHANGED <<Offered("request"), written["request"],
                                     Severed("request")>>
    OBVIOUS
  <2>1. Streams("request") /\ "request" \in Directions
    BY StepStreams, Sides
  <2>2. CASE Stutters("request")
    BY <2>1, <2>2, StutterMaps, Zenon
  <2>3. CASE Offers("request")
    <3>1. RequestStream!Offer
      BY <2>1, <2>3, OfferMaps, Zenon DEF RequestStream!Offer
    <3> QED BY <3>1 DEF RequestStream!Next
  <2>4. CASE Delivers("request")
    <3>1. RequestStream!Deliver
      BY <2>1, <2>4, DeliverMaps, Zenon DEF RequestStream!Deliver
    <3> QED BY <3>1 DEF RequestStream!Next
  <2>5. CASE Cuts("request")
    <3>1. RequestStream!Cut
      BY <2>1, <2>5, CutMaps, Zenon DEF RequestStream!Cut
    <3> QED BY <3>1 DEF RequestStream!Next
  <2> QED BY <2>1, <2>2, <2>3, <2>4, <2>5 DEF Streams
<1>3. ForwardInv /\ [Next]_vars
        => [ResponseStream!Next]_<<Offered("response"), written["response"],
                                   Severed("response")>>
  <2> SUFFICES ASSUME ForwardInv, [Next]_vars
               PROVE  \/ ResponseStream!Next
                      \/ UNCHANGED <<Offered("response"), written["response"],
                                     Severed("response")>>
    OBVIOUS
  <2>1. Streams("response") /\ "response" \in Directions
    BY StepStreams, Sides
  <2>2. CASE Stutters("response")
    BY <2>1, <2>2, StutterMaps, Zenon
  <2>3. CASE Offers("response")
    <3>1. ResponseStream!Offer
      BY <2>1, <2>3, OfferMaps, Zenon DEF ResponseStream!Offer
    <3> QED BY <3>1 DEF ResponseStream!Next
  <2>4. CASE Delivers("response")
    <3>1. ResponseStream!Deliver
      BY <2>1, <2>4, DeliverMaps, Zenon DEF ResponseStream!Deliver
    <3> QED BY <3>1 DEF ResponseStream!Next
  <2>5. CASE Cuts("response")
    <3>1. ResponseStream!Cut
      BY <2>1, <2>5, CutMaps, Zenon DEF ResponseStream!Cut
    <3> QED BY <3>1 DEF ResponseStream!Next
  <2> QED BY <2>1, <2>2, <2>3, <2>4, <2>5 DEF Streams
<1> QED BY <1>1, <1>2, <1>3, AlwaysForwardInv, PTL
        DEF Spec, ImplementsStreams, RequestStream!Spec, ResponseStream!Spec
===============================================================================
