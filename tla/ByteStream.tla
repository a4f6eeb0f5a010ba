----------------------------- MODULE ByteStream -----------------------------
(***************************************************************************)
(* What forwarding promises of one direction of a connection, without a     *)
(* word about loops, deadlines or taps: chunks are delivered one by one in  *)
(* the order they were offered, none twice and none left out, until the     *)
(* stream is cut, once and for good.  What was on its way then is lost.     *)
(***************************************************************************)
EXTENDS Integers, Sequences

CONSTANT Chunk   \* what can be offered

VARIABLES offered, delivered, cut

Init == offered = <<>> /\ delivered = <<>> /\ cut = FALSE

(* An end may go on sending for a while after the other has gone.           *)
Offer ==
  /\ \E chunk \in Chunk : offered' = Append(offered, chunk)
  /\ UNCHANGED <<delivered, cut>>

Deliver ==
  /\ ~cut /\ Len(delivered) < Len(offered)
  /\ delivered' = Append(delivered, offered[Len(delivered) + 1])
  /\ UNCHANGED <<offered, cut>>

Cut == ~cut /\ cut' = TRUE /\ UNCHANGED <<offered, delivered>>

Next == Offer \/ Deliver \/ Cut

Spec == Init /\ [][Next]_<<offered, delivered, cut>>
=============================================================================
