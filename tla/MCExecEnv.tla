----------------------------- MODULE MCExecEnv -----------------------------
(* Instances of ExecEnv for TLC.  i1 and i2 share a name, i3 has no Type.   *)
EXTENDS ExecEnv, TLC

CONSTANTS i1, i2, i3, n1, n2

TwoNames == (i1 :> n1 @@ i2 :> n1 @@ i3 :> n2)

\* The instance without a Type is there and enabled, and has no container.
Typeless == i3 \in present /\ enable[i3] /\ n2 \notin defined
SmallInit == Init /\ Typeless
SmallSpec == SmallInit /\ [][Next /\ Typeless']_vars /\ Fairness
=============================================================================
