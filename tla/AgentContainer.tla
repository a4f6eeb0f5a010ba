--------------------------- MODULE AgentContainer ---------------------------
(***************************************************************************)
(* The agent's container as the controller has it in mind: it starts, gets  *)
(* ready, may lose and regain its readiness, exits and is started again.    *)
(* These are the steps TunnelController takes for it (StartContainer,       *)
(* CrashLoopBackOff, BecomeReady, ProbeFails, AgentExits); Agent is shown   *)
(* to take no others.                                                       *)
(***************************************************************************)
EXTENDS Classify

VARIABLE container   \* its status, see Classify

Start ==
  /\ container.state \in {"unknown", "terminated", "waiting"}
  /\ container' =
       [state |-> "running", code |-> NoCode,
        last |-> IF container.state = "terminated" THEN container.code
                                                   ELSE container.last]

BackOff ==
  /\ container.state = "terminated"
  /\ container' = [state |-> "waiting", code |-> NoCode,
                   last |-> container.code]

Ready ==
  /\ container.state \in {"running", "unready"}
  /\ container' = [container EXCEPT !.state = "ready"]

Unready ==
  /\ container.state = "ready"
  /\ container' = [container EXCEPT !.state = "unready"]

(* Verdicts of the server do not come after readiness.                      *)
Exit(code) ==
  /\ container.state \in {"running", "ready", "unready"}
  /\ container.state # "running"
       => code \in {ExitOK, ExitUnexpected, ExitEventStreamDropped}
  /\ container' = [state |-> "terminated", code |-> code,
                   last |-> container.last]

Next == Start \/ BackOff \/ Ready \/ Unready
          \/ \E code \in AllExitCodes : Exit(code)

Spec == container = NoStatus /\ [][Next]_container
=============================================================================
