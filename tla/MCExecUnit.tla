---------------------------- MODULE MCExecUnit ----------------------------
(* Instances of ExecUnit for TLC: the name, environment and AutoStart flag  *)
(* of each unit.                                                            *)
EXTENDS ExecUnit, TLC

CONSTANTS u1, u2, u3, s1, s2, e1

\* One unit in one container.
OneName == (u1 :> s1)
OneEnv  == (u1 :> e1)

\* Two units with names of their own in one container; unit u3 is the
\* template object, which the walk visits as well: it has no name.
TwoNamed  == (u1 :> s1 @@ u2 :> s2 @@ u3 :> NoName)
ThreeEnvs == (u1 :> e1 @@ u2 :> e1 @@ u3 :> e1)

\* Commands end only when they are killed, and in a running container the
\* check and the attach succeed.
Healthy(t) ==
  ~Exit(t) /\ ~((CheckFails(t) \/ AttachFails(t)) /\ home[Svc(t)] \in up)
NextHealthy == Next /\ \A t \in Threads : Healthy(t)
HealthySpec == Init /\ [][NextHealthy]_vars /\ Fairness

=============================================================================
