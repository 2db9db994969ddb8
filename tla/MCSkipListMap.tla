--------------------------- MODULE MCSkipListMap ---------------------------
(* Three keys: a first, a middle and a last node.  A map is filled from an *)
(* empty one, from the outer keys and from the lower two.                  *)
EXTENDS SkipListMap, TLC

MCOthers == {<<>>, 1 :> 1 @@ 3 :> 0, <<0, 1>>}

=============================================================================
