------------------------- MODULE MCTunnelController -------------------------
(***************************************************************************)
(* TunnelController and TunnelClaims on small instances: every constant is  *)
(* given in the .cfg of a run.                                              *)
(***************************************************************************)
EXTENDS TunnelClaims, TLC

(* Tokens, images and ports are only compared; sound for the runs without   *)
(* liveness, the only ones that use it.                                     *)
Symmetry ==
  Permutations(Tokens) \cup Permutations(Images) \cup Permutations(Ports)
=============================================================================
