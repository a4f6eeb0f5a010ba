------------------------------ MODULE Debugger ------------------------------
(***************************************************************************)
(* The HTTP debugger (cli/debugger/): two parsers that read the taps of a   *)
(* forwarded connection, the listeners that are told of what they find, and *)
(* the page that puts requests and responses together.  Composed with the   *)
(* connection: a parser that stops reading holds the connection up.         *)
(***************************************************************************)
EXTENDS Forwarding

CONSTANT Browsers   \* visits of the page, each with a listenerId of its own

VARIABLES
  parser,    \* of each tap: "parsing", "ranging" (dispatchEvent) or "stopped"
  index,     \* i, the number of the next message in its tap
  event,     \* what it dispatches
  left,      \* listeners its range over the map has still to come to
  listener,  \* the one it has come to, {} before and after
  swallowed, \* some parser threw away more than the message it parsed
  visit,    \* of each browser: "away", "watching", "deleted" (its listener,
            \* not yet its channel), "gone"
  pending,  \* goroutines that send an event to a listener
  page      \* what the page of each browser holds

views == <<visit, pending, page>>
ranges == <<left, listener>>
parsing == <<parser, index, event, ranges, swallowed>>
forwarding == <<fixed, bindings, peers, tap>>
vars  == <<forwarding, panicked, parsing, views>>

(* What a page has received is remembered for the properties only.          *)
EmptyPage ==
  [received |-> {}, requests |-> {}, answered |-> {}, early |-> {}]
NoEvent   == [kind |-> "request", id |-> 0, message |-> 0]

Init ==
  /\ InitForwarding
  /\ parser = [d \in Directions |-> "parsing"]
  /\ index = [d \in Directions |-> 0]
  /\ event = [d \in Directions |-> NoEvent]
  /\ left = [d \in Directions |-> {}] /\ listener = [d \in Directions |-> {}]
  /\ swallowed = FALSE
  /\ visit = [b \in Browsers |-> "away"]
  /\ pending = {} /\ page = [b \in Browsers |-> EmptyPage]

-----------------------------------------------------------------------------
(* The parsers.                                                             *)

Torn == Chunks + 1   \* what a message is whose beginning is missing

Unparsable(n) == n > http

(* Mutant of Message: a response is taken to answer the request before it.  *)
LatestRequest(d) ==
  [kind |-> d, message |-> Head(tap[d]),
   id |-> IF d = "request" \/ index["request"] = 0 THEN index[d]
                                                   ELSE index["request"] - 1]

Message(d) == [kind |-> d, id |-> index[d], message |-> Head(tap[d])]

Listeners == {b \in Browsers : visit[b] = "watching"}

(* Each message is read through a bufio.Reader of its own, which takes what *)
(* else is there from the pipe, a part of it or nothing, and is then thrown *)
(* away.  A parser that fails stops, and nobody reads its pipe any more.    *)
(* One that does not calls dispatchEvent, whose range begins.               *)
Parse(d) ==
  /\ ~panicked /\ parser[d] = "parsing" /\ tap[d] # <<>>
  /\ \E rest \in {Tail(tap[d]), <<>>, <<Torn>>} :
        /\ Len(tap[d]) = 1 => rest = <<>>
        /\ swallowed' = (swallowed \/ rest # Tail(tap[d]))
        /\ tap' = [tap EXCEPT ![d] = rest]
  /\ IF Unparsable(Head(tap[d]))
     THEN parser' = [parser EXCEPT ![d] = "stopped"]
          /\ UNCHANGED <<index, event, left>>
     ELSE /\ parser' = [parser EXCEPT ![d] = "ranging"]
          /\ event' = [event EXCEPT ![d] = Message(d)]
          /\ index' = [index EXCEPT ![d] = @ + 1]
          /\ left' = [left EXCEPT ![d] = Listeners]
  /\ UNCHANGED <<fixed, panicked, bindings, peers, listener, views>>

(* dispatchEvent has no lock: a listener may go, or come, at any point of   *)
(* its range over the map.                                                  *)
Ranging(d) == ~panicked /\ parser[d] = "ranging"

RangeOn(d) ==
  /\ Ranging(d) /\ listener[d] = {}
  /\ \E b \in left[d] :
        /\ listener' = [listener EXCEPT ![d] = {b}]
        /\ left' = [left EXCEPT ![d] = @ \ {b}]
  /\ UNCHANGED <<forwarding, panicked, parser, index, event, swallowed, views>>

(* Mutant of GoSend: a listener that has an event coming is passed over.    *)
SendIfFree(d) ==
  /\ Ranging(d) /\ listener[d] # {}
  /\ pending' = pending \cup [browser : listener[d] \ {p.browser : p \in pending},
                              event : {event[d]}]
  /\ listener' = [listener EXCEPT ![d] = {}]
  /\ UNCHANGED <<forwarding, panicked, parser, index, event, left, swallowed,
                 visit, page>>

(* The goroutine of the listener the range has come to, be it in the map    *)
(* any more or not.                                                         *)
GoSend(d) ==
  /\ Ranging(d) /\ listener[d] # {}
  /\ pending' = pending \cup [browser : listener[d], event : {event[d]}]
  /\ listener' = [listener EXCEPT ![d] = {}]
  /\ UNCHANGED <<forwarding, panicked, parser, index, event, left, swallowed,
                 visit, page>>

EndRange(d) ==
  /\ Ranging(d) /\ listener[d] = {} /\ left[d] = {}
  /\ parser' = [parser EXCEPT ![d] = "parsing"]
  /\ event' = [event EXCEPT ![d] = NoEvent]
  /\ UNCHANGED <<forwarding, panicked, index, ranges, swallowed, views>>

dispatchEvent(d) == RangeOn(d) \/ GoSend(d) \/ EndRange(d)

-----------------------------------------------------------------------------
(* The listeners.                                                           *)

(* The map has no lock.  Go's runtime may notice, and end the process, when *)
(* it is written while dispatchEvent ranges over it, or while the handler   *)
(* of another page writes it.                                               *)
WriteListeners(b, status) ==
  /\ ~panicked
  /\ visit' = [visit EXCEPT ![b] = status]
  /\ panicked' \in
       {FALSE, \/ \E d \in Directions : parser[d] = "ranging"
               \/ \E c \in Browsers \ {b} : visit[c] \in {"away", "watching"}}
  /\ UNCHANGED <<fixed, bindings, peer, sent, tap, parser, index, event,
                 listener, swallowed, pending, page>>

(* A range comes to an entry made meanwhile, or does not.                   *)
Join(b) ==
  /\ visit[b] = "away" /\ debugging /\ WriteListeners(b, "watching")
  /\ \E noticing \in SUBSET {d \in Directions : parser[d] = "ranging"} :
       left' = [d \in Directions |->
                  IF d \in noticing THEN left[d] \cup {b} ELSE left[d]]
  /\ UNCHANGED troubles

(* The deferred calls: delete, then close.                                  *)
DeleteListener(b) ==
  /\ visit[b] = "watching" /\ WriteListeners(b, "deleted")
  /\ left' = [d \in Directions |-> left[d] \ {b}]
  /\ Trouble

CloseEvents(b) ==
  /\ ~panicked /\ visit[b] = "deleted"
  /\ visit' = [visit EXCEPT ![b] = "gone"]
  /\ UNCHANGED <<forwarding, panicked, parsing, pending, page>>

(* A send on a closed channel.                                              *)
SendPanics(p) ==
  /\ ~panicked /\ visit[p.browser] = "gone"
  /\ panicked' = TRUE
  /\ UNCHANGED <<forwarding, parsing, views>>

(* handleEvent of script.js: a response waits for its request.              *)
handleResponse(shown, e) ==
  IF \E r \in shown.requests : r.id = e.id
  THEN [shown EXCEPT !.answered = @ \cup
          {[request |-> r.message, response |-> e.message] :
             r \in {q \in shown.requests : q.id = e.id}}]
  ELSE [shown EXCEPT !.early = @ \cup {e}]

(* Mutant of handleEvent: a response without a request is dropped.          *)
handleInOrder(shown, e) ==
  IF e.kind = "request" THEN [shown EXCEPT !.requests = @ \cup {e}]
  ELSE [handleResponse(shown, e) EXCEPT !.early = {}]

handleEvent(shown, e) ==
  IF e.kind = "response" THEN handleResponse(shown, e)
  ELSE LET added == [shown EXCEPT !.requests = @ \cup {e}]
           waiting == {r \in shown.early : r.id = e.id}
       IN IF waiting = {} THEN added
          ELSE handleResponse(added, CHOOSE r \in waiting : TRUE)

Kept(shown, e) == [handleEvent(shown, e) EXCEPT !.received = @ \cup {e}]

(* The handler takes any of the events that wait, and the page gets it.     *)
Receive(p) ==
  /\ ~panicked /\ p \in pending /\ visit[p.browser] = "watching"
  /\ pending' = pending \ {p}
  /\ page' = [page EXCEPT ![p.browser] = Kept(@, p.event)]
  /\ UNCHANGED <<forwarding, panicked, parsing, visit>>

-----------------------------------------------------------------------------
Connection ==
  /\ (\E d \in Directions : Bind(d)) \/ Peers
  /\ UNCHANGED <<parsing, views>>

Next ==
  \/ Connection
  \/ \E d \in Directions : Parse(d) \/ dispatchEvent(d)
  \/ \E b \in Browsers : Join(b) \/ DeleteListener(b) \/ CloseEvents(b)
  \/ \E p \in pending : Receive(p) \/ SendPanics(p)

Spec == Init /\ [][Next]_vars

(* Goroutines run, and a watching browser reads.  Neither client, backend   *)
(* nor browser has to do anything.                                          *)
Fairness ==
  /\ \A d \in Directions :
       /\ WF_vars(Bind(d) /\ UNCHANGED <<parsing, views>>)
       /\ WF_vars(Parse(d) \/ dispatchEvent(d))
  /\ \A b \in Browsers : WF_vars(\E p \in pending : p.browser = b /\ Receive(p))

FairSpec == Spec /\ Fairness

-----------------------------------------------------------------------------
(* Properties.                                                              *)

DebuggerTypeOK ==
  /\ ForwardingTypeOK
  /\ parser \in [Directions -> {"parsing", "ranging", "stopped"}]
  /\ \A d \in Directions :
       /\ index[d] \in 0..Chunks
       /\ event[d] \in [kind : Directions, id : 0..Chunks, message : 0..Chunks]
  /\ left \in [Directions -> SUBSET Browsers]
  /\ listener \in [Directions -> SUBSET Browsers]
  /\ swallowed \in BOOLEAN
  /\ visit \in [Browsers -> {"away", "watching", "deleted", "gone"}]
  /\ \A p \in pending : p.browser \in Browsers /\ p.event.kind \in Directions
  /\ DOMAIN page = Browsers

(* When one loop has ended so does the other, in the end: no connection is  *)
(* left half open and no loop polls for ever, but for a loop that waits for *)
(* good on a pipe whose parser has stopped, which nothing ever frees.       *)
Held(d) == loop[d] = "tap" /\ parser[d] = "stopped"

EndTogether ==
  <>[](\/ \A d \in Directions : loop[d] # "ended"
       \/ \A d \in Directions : loop[d] = "ended" \/ Held(d)
       \/ panicked)

(* What one end sends the other gets in the end, as long as nobody closes,  *)
(* resets or is slow: a debugger that is there does not hold a connection   *)
(* up unless its parser has met something that is not HTTP.                 *)
Undisturbed ==
  /\ \A e \in Ends : peer[e] = "open"
  /\ \A d \in Directions : ~slow[d]
  /\ ~panicked

EveryChunkArrives ==
  <>[](Undisturbed => \A d \in Directions :
         Len(written[d]) = sent[d] \/ Held(d))

(* The page shows a response with the request it answers, however parsers,  *)
(* senders and page are interleaved and however many messages wait in a     *)
(* pipe, as long as no parser has swallowed any (which shifts the numbers   *)
(* of those after it).                                                      *)
PairedRight ==
  ~swallowed => \A b \in Browsers : \A a \in page[b].answered :
                  a.request = a.response

(* A page that has been sent, or is being sent, both halves of an exchange  *)
(* shows them together in the end, whichever arrives first.                 *)
Sent(b) == {p.event : p \in {q \in pending : q.browser = b}}

Told(b, d, i) ==
  \E e \in Sent(b) \cup page[b].received : e.kind = d /\ e.id = i

ExchangesAreShown ==
  <>[](\A b \in Browsers, i \in 0..Chunks - 1 :
         /\ Told(b, "request", i) /\ Told(b, "response", i)
         /\ visit[b] = "watching" /\ ~panicked
         => \E r \in page[b].requests : r.id = i /\
              \E a \in page[b].answered : a.request = r.message)

(* A page has no gaps: from the first message it was told of, a watching    *)
(* page has been sent every later one of that direction whose dispatch is   *)
(* over, although pages come and go while a range goes on, the senders of   *)
(* several messages overtake each other, and nothing is kept for a page     *)
(* that is slow to read.                                                    *)
Dispatched(d) == IF parser[d] = "ranging" THEN index[d] - 1 ELSE index[d]

PageHasNoGaps ==
  \A b \in Browsers, d \in Directions :
    visit[b] = "watching" =>
      \A i, j \in 0..Chunks - 1 :
        i < j /\ j < Dispatched(d) /\ Told(b, d, i) => Told(b, d, j)
=============================================================================
