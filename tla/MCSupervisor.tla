---------------------------- MODULE MCSupervisor ----------------------------
(* Instances of Supervisor for TLC.                                        *)
EXTENDS Supervisor, TLC

CONSTANTS i1, n1
OneName == (i1 :> n1)

\* lxc and mount do what they are asked, so the daemon does not die; a
\* container may still end by itself.
Healthy ==
  /\ mpc' # "dead" /\ failed' = FALSE /\ handle' = "held"
  /\ mpc = "prepare" => mpc' = "restart"
  /\ mpc \in {"stop", "destroyStop"} => running' = running \ {Name}
  /\ mpc = "destroy" => Name \notin defined'
HealthySpec == SupInit /\ [][SupNext /\ Healthy]_allVars /\ SupFairness
=============================================================================
