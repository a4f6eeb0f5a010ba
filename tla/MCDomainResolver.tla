-------------------------- MODULE MCDomainResolver --------------------------
(***************************************************************************)
(* DomainResolver on a small instance.  The safety properties treat workers *)
(* and tunnels alike, but the run also checks liveness: no symmetry.        *)
(***************************************************************************)
EXTENDS DomainResolver, TLC
=============================================================================
