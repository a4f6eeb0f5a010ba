------------------------------ MODULE Classify ------------------------------
(***************************************************************************)
(* The exit-code contract between the agent and the controller:            *)
(* cli/jprq/exitcodes.go names the codes, cli/jprqc.go turns the server's   *)
(* error message into one of them, and internal/controller/classify.go      *)
(* turns the exit code of the agent container into a verdict.               *)
(*                                                                          *)
(* A server message is abstracted to the prefix the code matches on.  The   *)
(* wording of a verdict is left out.                                        *)
(***************************************************************************)
EXTENDS Integers

ExitOK                     == 0
ExitUnexpected             == 1
ExitSubdomainBusy          == 10
ExitCNAMEBusy              == 11
ExitAccountTunnelLimit     == 12
ExitAuthFailed             == 13
ExitInvalidSubdomain       == 14
ExitNotAllowlisted         == 15
ExitConfigFailure          == 20
ExitEventServerUnreachable == 21
ExitEventStreamDropped     == 22

AllExitCodes ==
  {ExitOK, ExitUnexpected, ExitSubdomainBusy, ExitCNAMEBusy,
   ExitAccountTunnelLimit, ExitAuthFailed, ExitInvalidSubdomain,
   ExitNotAllowlisted, ExitConfigFailure, ExitEventServerUnreachable,
   ExitEventStreamDropped}

(* A nil *ContainerStateTerminated, or a nil status.lastExitCode. *)
NoCode == -1

Behaviors == {"fail", "retry"}

-----------------------------------------------------------------------------
(* classifyExit.  DeletePod is set exactly where Terminal is: one field      *)
(* stands for both.                                                         *)

Retryable(reason) ==
  [terminal |-> FALSE, tokenInvalid |-> FALSE, reason |-> reason]

Terminal(reason) ==
  [terminal |-> TRUE, tokenInvalid |-> FALSE, reason |-> reason]

BadToken(reason) == [Terminal(reason) EXCEPT !.tokenInvalid = TRUE]

(* Reasons of terminal verdicts and of the others; SubdomainBusy is both.   *)
TokenReasons == {"AuthFailed", "NotAllowlisted"}

TerminalReasons ==
  TokenReasons \cup {"AccountTunnelLimitReached", "SubdomainBusy",
                     "InvalidSubdomain", "CNAMEBusy"}

RetryReasons == {"SubdomainBusy", "AgentExited"}

classifyExit(code, behavior) ==
  CASE code = ExitAuthFailed         -> BadToken("AuthFailed")
    [] code = ExitNotAllowlisted     -> BadToken("NotAllowlisted")
    [] code = ExitAccountTunnelLimit -> Terminal("AccountTunnelLimitReached")
    [] code = ExitSubdomainBusy      ->
         IF behavior = "retry" THEN Retryable("SubdomainBusy")
                               ELSE Terminal("SubdomainBusy")
    [] code = ExitInvalidSubdomain   -> Terminal("InvalidSubdomain")
    [] code = ExitCNAMEBusy          -> Terminal("CNAMEBusy")
    [] OTHER                         -> Retryable("AgentExited")

-----------------------------------------------------------------------------
(* The agent container's status as kubelet reports it.                      *)
(*   state: "unknown"     no ContainerStatus yet (agentStatus returns nil)  *)
(*          "running"     running, not ready yet                            *)
(*          "ready"       running and ready                                 *)
(*          "unready"     running, ready before, the last probe failed      *)
(*          "terminated"  State.Terminated, with exit code code             *)
(*          "waiting"     State.Waiting, e.g. CrashLoopBackOff              *)
(*   last:  LastTerminationState.Terminated.ExitCode                        *)

ContainerStates == {"unknown", "running", "ready", "unready", "terminated",
                    "waiting"}

NoStatus == [state |-> "unknown", code |-> NoCode, last |-> NoCode]

(* The termination classifyPod judges by: the last one recorded, else the   *)
(* current one.                                                             *)
Termination(agent) == IF agent.last # NoCode THEN agent.last ELSE agent.code

(* The ok result of classifyPod: there is a termination to classify, and    *)
(* the container is not at the moment running and ready.                    *)
HasVerdict(agent) ==
  /\ agent.state \notin {"unknown", "ready"}
  /\ Termination(agent) # NoCode

classifyPod(agent, behavior) == classifyExit(Termination(agent), behavior)

=============================================================================
