---------------------------- MODULE TunnelClaims ----------------------------
(***************************************************************************)
(* What the repository says of the reconciler and the code does not keep,   *)
(* one claim per definition; TunnelController says what it does keep.       *)
(* README.md tells the run, and the story, behind each.                     *)
(***************************************************************************)
EXTENDS TunnelController

(* "retry" leaves the agent to keep re-claiming until the holder releases   *)
(* the name (subdomainCollisionBehavior in jprqtunnel_types.go), and Failed *)
(* clears when the generation changes (status.phase there): a tunnel edited *)
(* to retry is not Failed over a busy subdomain.                            *)
RetryIsNeverTerminal ==
  Failed /\ tunnel.spec.behavior = "retry"
    => tunnel.status.conditions.Ready # "SubdomainBusy"

(* "Converge the pod before anything can return early, so a crash-looping   *)
(* tunnel can still be fixed by editing its spec" (reconcile), and "Either  *)
(* delete and recreate it, or edit the spec" (DESIGN.md 10.1): a tunnel is  *)
(* failed by an agent of its own that ran its configuration, not by that of *)
(* its predecessor nor of the spec before the edit.                         *)
JudgedByItsOwnAgent ==
  Failed /\ pod # None =>
    /\ pod.owner = tunnel.uid
    /\ pod.config.subdomain = tunnel.spec.subdomain
    /\ pod.config.backend = tunnel.spec.backend
    /\ pod.config.secret = tunnel.spec.secret

(* LastTerminationState persists after a successful restart, and judging by *)
(* it "would mark a working tunnel Failed" (classifyPod): an agent that has *)
(* its tunnel is not failed over a missed probe.                            *)
WorkingTunnelIsNotFailed ==
  [][pc = "converge" /\ existing # None /\ existing.agent.state = "unready"
       => draft'.phase # "Failed"]_vars

(* "Failed is sticky: it clears only when metadata.generation changes"      *)
(* (status.phase in jprqtunnel_types.go), with the manager's cached client. *)
FailedClearsOnlyByEdit ==
  [][Failed /\ tunnel' # None /\ tunnel'.uid = tunnel.uid
       /\ tunnel'.generation = tunnel.generation
       => tunnel'.status.phase = "Failed"]_vars
=============================================================================
