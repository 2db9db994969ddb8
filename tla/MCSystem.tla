------------------------------ MODULE MCSystem ------------------------------
(* Instances of System for TLC: one environment with an overlay and one    *)
(* unit in it.                                                             *)
EXTENDS System, TLC

CONSTANTS i1, n1, u1
OneName == (i1 :> n1)
OneEnv  == (u1 :> n1)

=============================================================================
