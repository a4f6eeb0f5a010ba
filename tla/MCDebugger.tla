----------------------------- MODULE MCDebugger -----------------------------
(***************************************************************************)
(* A forwarded connection and its debugger on a small instance: the other   *)
(* constants are given in Forwarding.cfg.                                   *)
(***************************************************************************)
EXTENDS Debugger, TLC

(* Requests so large that one fills its pipe, and smaller responses: of the *)
(* two pipes one makes its loop wait and in the other messages wait.        *)
Pipes == [request |-> 1, response |-> 2]
=============================================================================
