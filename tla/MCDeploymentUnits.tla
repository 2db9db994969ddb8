------------------------ MODULE MCDeploymentUnits ------------------------
(* Instances of DeploymentUnits for TLC.                                   *)
EXTENDS DeploymentUnits, TLC

CONSTANTS d1, d2, e1

\* Two units in one container.
OneEnv == [d \in Dus |-> e1]

\* No step reads reported or mounted, and of the properties of the run only
\* TypeOK reads one of them: states that differ in these alone are not told
\* apart.
Unreported == <<index, temp, used, stored, content, removed, config, running, dm, saved,
                removals, op, pc, arg, env, mem, blind, old, unmade>>
=============================================================================
