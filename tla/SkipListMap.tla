---------------------------- MODULE SkipListMap ----------------------------
(***************************************************************************)
(* lxcd::map (include_priv/utils/map.h): a skip list.  Every node has an    *)
(* array of forward links, one per level it is in, and a link back on the  *)
(* bottom level.  The daemon keeps in it the deployment units of the       *)
(* index, the processes of the execution units, the routes of the REST     *)
(* interface and the members of a JSON object.                             *)
(*                                                                         *)
(* A map is used by one thread at a time, so each call is one step.  What  *)
(* can go wrong is in the links: a level that keeps a node that was freed, *)
(* loses the nodes behind it, or an iterator left on a freed node.  One    *)
(* call ends the program: the erase of a key that is behind the last.      *)
(***************************************************************************)
EXTENDS Naturals, FiniteSetsExt

CONSTANTS
  Keys,         \* numbers, for their order
  Values, Default,
  Others,       \* the contents of the maps and lists a map is filled from
  Nodes,        \* the addresses a node can get, numbers
  Levels,       \* _LEVELS: the highest level
  HeadNode, TailNode, NoNode, NoItem, End, Rend, Dangling

ASSUME MapAssumption ==
  /\ Keys \subseteq Nat /\ IsFiniteSet(Keys) /\ Default \in Values /\ Levels \in Nat
  /\ Others \subseteq UNION {[S -> Values] : S \in SUBSET Keys}
  /\ Nodes = 1..Cardinality(Keys) /\ NoItem \notin [key : Keys, value : Values]
  /\ {HeadNode, TailNode, NoNode} \cap Nodes = {}
  /\ HeadNode # TailNode /\ HeadNode # NoNode /\ TailNode # NoNode
  /\ {End, Rend, Dangling} \cap Keys = {} /\ End # Rend
  /\ Dangling \notin Nodes \cup {HeadNode, TailNode, NoNode, End, Rend}

VARIABLES
  map,          \* _head and _tail with the nodes between, _max, _size
  it,           \* the node an iterator of a caller is on; Dangling when the
                \* node was freed or is no longer one of the map
  alive         \* the program runs
vars == <<map, it, alive>>

Live(m) == {n \in Nodes : m.item[n] # NoItem}
At(m, i) == {n \in Nodes : i \in DOMAIN m.next[n]}

-----------------------------------------------------------------------------
(* map_ctor.  A forward array has the levels of its node as its domain;    *)
(* that of a freed node is gone.                                           *)
Empty ==
  [next |-> [n \in Nodes \cup {HeadNode} |->
               IF n = HeadNode THEN [i \in 0..Levels |-> IF i = 0 THEN TailNode ELSE NoNode]
                           ELSE <<>>],
   prev |-> [n \in Nodes \cup {TailNode} |-> IF n = TailNode THEN HeadNode ELSE NoNode],
   item |-> [n \in Nodes |-> NoItem],
   max  |-> 0,
   size |-> 0]

(* The inner loop of every search: along level i while the next key is     *)
(* smaller.  Level 0 ends at the tail, the others with NULL.               *)
Walk(m, i, k) ==
  LET walk[n \in At(m, i) \cup {HeadNode}] ==
        LET s == m.next[n][i]
        IN  IF s \in Nodes /\ m.item[s].key < k THEN walk[s] ELSE n
  IN walk

(* _updated: where the search leaves each level, from _max down; above     *)
(* _max it is the head, which random_level fills in.                       *)
Updated(m, k) ==
  LET updated[i \in 0..(Levels + 1)] ==
        IF i > m.max THEN HeadNode ELSE Walk(m, i, k)[updated[i + 1]]
  IN updated

Candidate(m, k) == m.next[Updated(m, k)[0]][0]

FindAtBottom(m, k) ==
  LET c == Candidate(m, k)
  IN  IF c \in Nodes /\ m.item[c].key = k THEN c ELSE NoNode

(* Links new with level l into the list, with its neighbours found by u.   *)
Linked(m, new, l, u) ==
  [n \in DOMAIN m.next |->
     IF n = new THEN [i \in 0..l |-> m.next[u[i]][i]]
     ELSE [i \in DOMAIN m.next[n] |->
             IF i <= l /\ u[i] = n THEN new ELSE m.next[n][i]]]

(* Slips: an existing key gets the new value; the node behind the new one  *)
(* keeps its link back.                                                    *)
InsertedOver(m, k, v, l) ==
  LET u == Updated(m, k)
      new == Min(Nodes \ Live(m))
      old == FindAtBottom(m, k)
  IN  IF old # NoNode THEN [m EXCEPT !.item[old].value = v]
      ELSE [next |-> Linked(m, new, l, u),
            prev |-> [m.prev EXCEPT ![new] = u[0], ![m.next[u[0]][0]] = new],
            item |-> [m.item EXCEPT ![new] = [key |-> k, value |-> v]],
            max  |-> Max({m.max, l}),
            size |-> m.size + 1]

InsertedForward(m, k, v, l) ==
  LET u == Updated(m, k)
      new == Min(Nodes \ Live(m))
  IN  IF FindAtBottom(m, k) # NoNode THEN m
      ELSE [next |-> Linked(m, new, l, u),
            prev |-> [m.prev EXCEPT ![new] = u[0]],
            item |-> [m.item EXCEPT ![new] = [key |-> k, value |-> v]],
            max  |-> Max({m.max, l}),
            size |-> m.size + 1]

(* insert with the level l that random_level draws: an existing key stays  *)
(* as it is.                                                               *)
Inserted(m, k, v, l) ==
  LET u == Updated(m, k)
      new == Min(Nodes \ Live(m))
  IN  IF FindAtBottom(m, k) # NoNode THEN m
      ELSE [next |-> Linked(m, new, l, u),
            prev |-> [m.prev EXCEPT ![new] = u[0], ![m.next[u[0]][0]] = new],
            item |-> [m.item EXCEPT ![new] = [key |-> k, value |-> v]],
            max  |-> Max({m.max, l}),
            size |-> m.size + 1]

(* The insert of every element of another map or list, in its order: of    *)
(* filled[k] the keys below k are in.                                      *)
InsertedAll(m, d, lv) ==
  LET filled[k \in 0..(Max({0} \cup Keys) + 1)] ==
        IF k = 0 THEN m
        ELSE IF k - 1 \in DOMAIN d THEN Inserted(filled[k - 1], k - 1, d[k - 1], lv[k - 1])
        ELSE filled[k - 1]
  IN filled[Max({0} \cup Keys) + 1]

(* The highest level in use: erase lowers _max while it is empty.          *)
Lowered(next, max) == Max({0} \cup {i \in 1..max : next[HeadNode][i] # NoNode})

(* Slip: the node is taken out of the bottom level only.                   *)
ErasedBottom(m, k) ==
  LET u == Updated(m, k)
      c == FindAtBottom(m, k)
      next == [n \in DOMAIN m.next |->
                 IF n = c THEN <<>> ELSE [i \in DOMAIN m.next[n] |->
                   IF i = 0 /\ u[i] = n THEN m.next[c][i] ELSE m.next[n][i]]]
  IN  IF c = NoNode THEN m
      ELSE [next |-> next,
            prev |-> [m.prev EXCEPT ![m.next[c][0]] = m.prev[c], ![c] = NoNode],
            item |-> [m.item EXCEPT ![c] = NoItem],
            max  |-> Lowered(next, m.max),
            size |-> m.size - 1]

(* erase: unlink level by level, from the bottom, as far as the node is    *)
(* there; mend the link back; free the node.                               *)
Erased(m, k) ==
  LET u == Updated(m, k)
      c == FindAtBottom(m, k)
      levels == {i \in 0..m.max : \A j \in 0..i : m.next[u[j]][j] = c}
      next == [n \in DOMAIN m.next |->
                 IF n = c THEN <<>> ELSE [i \in DOMAIN m.next[n] |->
                   IF i \in levels /\ u[i] = n THEN m.next[c][i] ELSE m.next[n][i]]]
  IN  IF c = NoNode THEN m
      ELSE [next |-> next,
            prev |-> [m.prev EXCEPT ![m.next[c][0]] = m.prev[c], ![c] = NoNode],
            item |-> [m.item EXCEPT ![c] = NoItem],
            max  |-> Lowered(next, m.max),
            size |-> m.size - 1]

-----------------------------------------------------------------------------
Init == map = Empty /\ it = TailNode /\ alive = TRUE

Insert(k, v) ==
  /\ \E l \in 0..Levels : map' = Inserted(map, k, v, l)
  /\ it' = FindAtBottom(map', k)

(* operator[]: a key that is not there is added.  The const one adds none  *)
(* and changes nothing.                                                    *)
Index(k) ==
  /\ \E l \in 0..Levels : map' = Inserted(map, k, Default, l)
  /\ UNCHANGED it

(* operator[] and an assignment through the reference it returns.          *)
Store(k, v) ==
  /\ \E l \in 0..Levels :
       LET m == Inserted(map, k, Default, l)
       IN  map' = [m EXCEPT !.item[FindAtBottom(m, k)].value = v]
  /\ UNCHANGED it

InsertRange(d) ==
  /\ \E lv \in [DOMAIN d -> 0..Levels] : map' = InsertedAll(map, d, lv)
  /\ UNCHANGED it

(* erase(key), without a test that the search has ended before the tail:   *)
(* behind the last key it compares with the value of the tail, a NULL      *)
(* pointer.  An iterator on the node that is freed dangles.                *)
EraseKey(k) ==
  /\ map' = Erased(map, k)
  /\ it' = IF it = FindAtBottom(map, k) THEN Dangling ELSE it
  /\ alive' = (Candidate(map, k) # TailNode)

(* Slip: the iterator stays on the erased node.                            *)
EraseIterStays ==
  /\ it \in Nodes
  /\ map' = Erased(map, map.item[it].key)
  /\ UNCHANGED it

(* erase(it++), the way a loop erases what it found.                       *)
EraseIter ==
  /\ it \in Nodes
  /\ it' = map.next[it][0]
  /\ map' = Erased(map, map.item[it].key)

(* operator=, the copy constructor and the one from a list: an empty map,  *)
(* then every element of the other in turn.  The old nodes, head and tail  *)
(* are freed.                                                              *)
Assign(d) ==
  /\ \E lv \in [DOMAIN d -> 0..Levels] : map' = InsertedAll(Empty, d, lv)
  /\ it' = Dangling

(* clear: the nodes are freed, or all of them lost, since its loop tests a *)
(* variable it has not set yet; the map is empty either way, with a head   *)
(* and a tail of its own.                                                  *)
Clear == map' = Empty /\ it' = Dangling

Find(k) ==
  /\ it' = IF FindAtBottom(map, k) = NoNode THEN TailNode ELSE FindAtBottom(map, k)
  /\ UNCHANGED map

Begin == it' = map.next[HeadNode][0] /\ UNCHANGED map
ReverseBegin == it' = map.prev[TailNode] /\ UNCHANGED map

(* Forward go ++ and the prefix -- of a reverse iterator; back go -- and   *)
(* the ++ of a reverse iterator, but also its postfix --.  Callers stop at *)
(* end() and rend(), and do not use an iterator that dangles.              *)
Increment == it \notin {TailNode, Dangling} /\ it' = map.next[it][0] /\ UNCHANGED map
Decrement == it \notin {HeadNode, Dangling} /\ it' = map.prev[it] /\ UNCHANGED map

Change ==
  \/ \E k \in Keys : Index(k) \/ \E v \in Values : Insert(k, v) \/ Store(k, v)
  \/ \E d \in Others : InsertRange(d) \/ Assign(d)
  \/ EraseIter \/ Clear
Move == (\E k \in Keys : Find(k)) \/ Begin \/ ReverseBegin \/ Increment \/ Decrement
Next ==
  /\ alive
  /\ (\E k \in Keys : EraseKey(k)) \/ (Change /\ UNCHANGED alive) \/ (Move /\ UNCHANGED alive)

Spec == Init /\ [][Next]_vars

-----------------------------------------------------------------------------
(* The type of the variables; an iterator that is not given up as dangling *)
(* is on a node of the map.                                                *)
Arrays == {<<>>} \cup UNION {[0..l -> Nodes \cup {TailNode, NoNode}] : l \in 0..Levels}
Maps ==
  [next : [Nodes \cup {HeadNode} -> Arrays],
   prev : [Nodes \cup {TailNode} -> Nodes \cup {HeadNode, NoNode}],
   item : [Nodes -> [key : Keys, value : Values] \cup {NoItem}],
   max  : 0..Levels, size : Nat]
TypeOK ==
  /\ map \in Maps /\ it \in Live(map) \cup {HeadNode, TailNode, Dangling}
  /\ alive \in BOOLEAN

(* The nodes of level i behind n, which s, the link of n, has to lead to   *)
(* the nearest of.                                                         *)
Behind(m, i, n) == {x \in At(m, i) : n = HeadNode \/ m.item[n].key < m.item[x].key}
Nearest(m, i, n, s) ==
  IF Behind(m, i, n) = {} THEN s = (IF i = 0 THEN TailNode ELSE NoNode)
  ELSE s \in Behind(m, i, n) /\ \A x \in Behind(m, i, n) : m.item[s].key <= m.item[x].key

(* Each level is the ordered list of exactly the live nodes that reach it: *)
(* whatever was inserted with whatever levels and erased since, no search  *)
(* passes a freed node, leaves an array or misses a key (insert and erase, *)
(* map.h:339 and :396).  _max is the highest level in use and _size counts.*)
Sound(m) ==
  /\ \A i \in 0..Levels, n \in Nodes \cup {HeadNode} :
       i \in DOMAIN m.next[n] => Nearest(m, i, n, m.next[n][i])
  /\ DOMAIN m.next[HeadNode] = 0..Levels
  /\ \A n \in Nodes : IF n \in Live(m) THEN \E l \in 0..m.max : DOMAIN m.next[n] = 0..l
                                          ELSE DOMAIN m.next[n] = {}
  /\ \A a, b \in Live(m) : m.item[a].key = m.item[b].key => a = b
  /\ m.max = 0 \/ At(m, m.max) # {}
  /\ m.size = Cardinality(Live(m))
LevelsSound == Sound(map)

(* The links back mirror the bottom level, the tail's included: rbegin()   *)
(* and -- visit what begin() and ++ do (map.h:373-379 and :422-428).       *)
Mirrored(m) == \A n \in Live(m) \cup {HeadNode} : m.prev[m.next[n][0]] = n
BackLinks == Mirrored(map)

(* The map implements an ordered dictionary whose iterator keeps its place *)
(* while other keys are erased and inserted, as the loop of                *)
(* removeDeploymentUnit needs (deployment_unit_helper.cpp:240-262), and    *)
(* whose erase of a key behind the last ends the program (map.h:415).      *)
ContentsOf(m) ==
  [k \in {m.item[n].key : n \in Live(m)} |->
     m.item[CHOOSE n \in Live(m) : m.item[n].key = k].value]
Place ==
  CASE it = TailNode -> End [] it = HeadNode -> Rend
    [] it \in Live(map) -> map.item[it].key [] OTHER -> Dangling
Dictionary == INSTANCE OrderedMap WITH dict <- ContentsOf(map), pos <- Place
ImplementsOrderedMap == Dictionary!Spec

=============================================================================
