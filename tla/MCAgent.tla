------------------------------- MODULE MCAgent -------------------------------
(***************************************************************************)
(* Agent on a small instance: every constant is given in Agent.cfg.         *)
(***************************************************************************)
EXTENDS Agent, TLC
==============================================================================
