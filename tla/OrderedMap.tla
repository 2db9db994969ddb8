----------------------------- MODULE OrderedMap -----------------------------
(***************************************************************************)
(* What lxcd::map promises: a dictionary whose keys are visited in their   *)
(* order, by an iterator that keeps its place while other keys come and    *)
(* go, and loses it when its own key is erased or all keys are replaced.   *)
(* A key may be erased only while it, or a later one, is present.          *)
(***************************************************************************)
EXTENDS Naturals, FiniteSetsExt

CONSTANTS
  Keys, Values,
  Others,       \* the dictionaries it may be filled from
  Default,      \* the value of a key that operator[] adds
  End, Rend,    \* the places behind the last key and before the first
  Dangling      \* no place any more

VARIABLES
  dict,         \* the keys present and their values
  pos,          \* the place of the iterator: a key, End, Rend or Dangling
  alive         \* the program runs
mapVars == <<dict, pos, alive>>

With(d, k, v) == [j \in DOMAIN d \cup {k} |-> IF j = k THEN v ELSE d[j]]
Without(d, k) == [j \in DOMAIN d \ {k} |-> d[j]]
\* d, and what e has of other keys.
Merged(d, e) == [j \in DOMAIN d \cup DOMAIN e |-> IF j \in DOMAIN d THEN d[j] ELSE e[j]]

Least(S)    == IF S = {} THEN End ELSE Min(S)
Greatest(S) == IF S = {} THEN Rend ELSE Max(S)
Following == Least({k \in DOMAIN dict : pos = Rend \/ k > pos})
Preceding == Greatest({k \in DOMAIN dict : pos = End \/ k < pos})

Init == dict = <<>> /\ pos = End /\ alive = TRUE

Insert(k, v) == dict' = Merged(dict, With(<<>>, k, v)) /\ pos' = k
Index(k) == dict' = Merged(dict, With(<<>>, k, Default)) /\ UNCHANGED pos
Store(k, v) == dict' = With(dict, k, v) /\ UNCHANGED pos
InsertRange(e) == dict' = Merged(dict, e) /\ UNCHANGED pos
EraseKey(k) ==
  /\ dict' = Without(dict, k)
  /\ pos' = IF pos = k THEN Dangling ELSE pos
  /\ alive' = (\E j \in DOMAIN dict : k <= j)
EraseIter == pos \in Keys /\ dict' = Without(dict, pos) /\ pos' = Following
Assign(e) == dict' = e /\ pos' = Dangling
Clear == dict' = <<>> /\ pos' = Dangling
Find(k) == pos' = (IF k \in DOMAIN dict THEN k ELSE End) /\ UNCHANGED dict
Begin == pos' = Least(DOMAIN dict) /\ UNCHANGED dict
ReverseBegin == pos' = Greatest(DOMAIN dict) /\ UNCHANGED dict
Increment == pos \notin {End, Dangling} /\ pos' = Following /\ UNCHANGED dict
Decrement == pos \notin {Rend, Dangling} /\ pos' = Preceding /\ UNCHANGED dict

Change ==
  \/ \E k \in Keys : Index(k) \/ \E v \in Values : Insert(k, v) \/ Store(k, v)
  \/ \E e \in Others : InsertRange(e) \/ Assign(e)
  \/ EraseIter \/ Clear
Move == (\E k \in Keys : Find(k)) \/ Begin \/ ReverseBegin \/ Increment \/ Decrement
Next ==
  /\ alive
  /\ (\E k \in Keys : EraseKey(k)) \/ (Change /\ UNCHANGED alive) \/ (Move /\ UNCHANGED alive)

Spec == Init /\ [][Next]_mapVars

=============================================================================
