-------------------------- MODULE TunnelLifecycle --------------------------
(***************************************************************************)
(* What a JprqTunnel promises its user, without a word about how: every     *)
(* spec edit is a new generation, the status reports on generations in      *)
(* order and catches up with the last one, and a failure reported for the   *)
(* current generation is final until an edit makes a new one                *)
(* (status.phase and status.observedGeneration in jprqtunnel_types.go).     *)
(***************************************************************************)
EXTENDS Naturals

CONSTANT Absent   \* life of a tunnel that does not exist

VARIABLE life     \* generation, the one the status reports on, and failed

Settled == life # Absent /\ life.failed /\ life.observed = life.generation

Create ==
  /\ life = Absent
  /\ life' = [generation |-> 1, observed |-> 0, failed |-> FALSE]

Edit ==
  /\ life # Absent
  /\ life' = [life EXCEPT !.generation = @ + 1]

Delete == life # Absent /\ life' = Absent

(* A report may be about a generation that an edit has overtaken.           *)
Report ==
  /\ life # Absent /\ ~Settled
  /\ \E generation \in life.observed .. life.generation, failed \in BOOLEAN :
        life' = [life EXCEPT !.observed = generation, !.failed = failed]

CatchUp ==
  /\ Report
  /\ life.observed # life.generation /\ life'.observed = life.generation

Next == Create \/ Edit \/ Delete \/ Report

Safe == life = Absent /\ [][Next]_life

Spec == Safe /\ WF_life(CatchUp)
=============================================================================
