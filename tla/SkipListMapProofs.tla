-------------------------- MODULE SkipListMapProofs -------------------------
(* Proofs about SkipListMap for any keys, values and number of levels.     *)
EXTENDS SkipListMap, FiniteSetTheorems, FunctionTheorems, TLAPS

(* The constants, in the form the steps use them. *)
LEMMA MapFacts ==
  /\ Keys \subseteq Nat /\ Levels \in Nat /\ Default \in Values
  /\ HeadNode \notin Nodes /\ TailNode \notin Nodes /\ NoNode \notin Nodes
  /\ HeadNode # TailNode /\ HeadNode # NoNode /\ TailNode # NoNode
  /\ Dangling \notin Nodes \cup {HeadNode, TailNode, NoNode}
BY MapAssumption

-----------------------------------------------------------------------------
(* Induction, without an operator as its parameter.                        *)

(* Every non-empty set of naturals has a least element. *)
LEMMA LeastNat ==
  ASSUME NEW S \in SUBSET Nat, S # {}
  PROVE  \E x \in S : \A y \in S : x <= y
<1> DEFINE Less == {p \in Nat \X Nat : p[1] < p[2]}
<1>1. IsWellFoundedOn(Less, Nat)
  BY NatLessThanWellFounded DEF OpToRel
<1>2. \A x, y \in Nat : <<y, x>> \in Less <=> y < x
  OBVIOUS
<1> HIDE DEF Less
<1>3. PICK x \in S : \A y \in S : <<y, x>> \notin Less
  BY <1>1, WFMin
<1>4. \A y \in S : ~(y < x)
  BY <1>2, <1>3
<1> QED
  BY <1>4

(* A set that holds 0 and the successor of each of its elements. *)
LEMMA NatInd ==
  ASSUME NEW S \in SUBSET Nat, 0 \in S, \A n \in S : n + 1 \in S
  PROVE  S = Nat
<1> SUFFICES ASSUME Nat \ S # {} PROVE FALSE
  OBVIOUS
<1>1. PICK x \in Nat \ S : \A y \in Nat \ S : x <= y
  BY LeastNat
<1>2. x - 1 \in Nat /\ x - 1 \in S
  BY <1>1
<1> QED
  BY <1>1, <1>2

(* A non-empty set of naturals with a bound has a greatest element. *)
LEMMA GreatestNat ==
  ASSUME NEW S \in SUBSET Nat, S # {}, NEW b \in Nat, \A x \in S : x <= b
  PROVE  \E x \in S : \A y \in S : y <= x
<1> DEFINE T == {z \in Nat : z <= b /\ b - z \in S}
<1>1. T # {}
  <2>1. PICK x \in S : TRUE
    OBVIOUS
  <2>2. b - x \in T
    BY <2>1
  <2> QED
    BY <2>2
<1>2. PICK z \in T : \A y \in T : z <= y
  BY <1>1, LeastNat
<1>3. z \in Nat /\ b - z \in S
  BY <1>2
<1>4. ASSUME NEW y \in S PROVE y <= b - z
  <2>1. b - y \in T /\ y \in Nat
    OBVIOUS
  <2> HIDE DEF T
  <2>2. z <= b - y
    BY <1>2, <2>1
  <2> QED
    BY <1>3, <2>1, <2>2
<1> QED
  BY <1>3, <1>4

-----------------------------------------------------------------------------
(* What a sound map looks like.                                            *)

Good(m) == m \in Maps /\ Sound(m) /\ Mirrored(m)
Key(m, n) == m.item[n].key

(* The nodes of a level are live, have keys of their own, and are on the   *)
(* levels below; their links lead to the nearest node behind them.         *)
LEMMA GoodFacts ==
  ASSUME NEW m, Good(m)
  PROVE  /\ \A n \in Live(m) : Key(m, n) \in Keys /\ Key(m, n) \in Nat /\ n \in Nodes
         /\ \A a, b \in Live(m) : Key(m, a) = Key(m, b) => a = b
         /\ \A i \in 0..Levels : At(m, i) \subseteq Live(m)
         /\ \A i, j \in 0..Levels : i <= j => At(m, j) \subseteq At(m, i)
         /\ At(m, 0) = Live(m)
         /\ m.max \in 0..Levels /\ \A i \in 0..Levels : i > m.max => At(m, i) = {}
         /\ \A i \in 0..Levels, n \in Nodes \cup {HeadNode} :
              n \in At(m, i) \cup {HeadNode} => Nearest(m, i, n, m.next[n][i])
<1> USE MapFacts
<1>1. ASSUME NEW n \in Live(m) PROVE Key(m, n) \in Keys /\ Key(m, n) \in Nat /\ n \in Nodes
  BY DEF Good, Maps, Live, Key
<1>2. \A a, b \in Live(m) : Key(m, a) = Key(m, b) => a = b
  BY DEF Good, Sound, Key
<1>3. m.max \in 0..Levels
  BY DEF Good, Maps
<1>4. \A n \in Nodes : IF n \in Live(m) THEN \E l \in 0..m.max : DOMAIN m.next[n] = 0..l
                                      ELSE DOMAIN m.next[n] = {}
  BY DEF Good, Sound
<1>5. \A i \in 0..Levels : At(m, i) \subseteq Live(m)
  BY <1>4 DEF At
<1>6. \A i, j \in 0..Levels : i <= j => At(m, j) \subseteq At(m, i)
  BY <1>3, <1>4 DEF At
<1>7. At(m, 0) = Live(m)
  BY <1>3, <1>4 DEF At, Live
<1>8. \A i \in 0..Levels : i > m.max => At(m, i) = {}
  BY <1>3, <1>4 DEF At
<1>9. ASSUME NEW i \in 0..Levels, NEW n \in At(m, i) \cup {HeadNode}
      PROVE  Nearest(m, i, n, m.next[n][i])
  BY DEF Good, Sound, At
<1> QED
  BY <1>1, <1>2, <1>3, <1>5, <1>6, <1>7, <1>8, <1>9

-----------------------------------------------------------------------------
(* The search.                                                             *)

(* The last node of level i whose key is smaller than k, or the head. *)
Under(m, i, k) == {n \in At(m, i) : Key(m, n) < k}
IsLast(m, i, k, x) ==
  IF Under(m, i, k) = {} THEN x = HeadNode
  ELSE x \in Under(m, i, k) /\ \A y \in Under(m, i, k) : Key(m, y) <= Key(m, x)

(* There is one. *)
LEMMA LastExists ==
  ASSUME NEW m, Good(m), NEW i \in 0..Levels, NEW k \in Nat
  PROVE  \E x : IsLast(m, i, k, x)
<1> CASE Under(m, i, k) # {}
  <2> DEFINE S == {Key(m, n) : n \in Under(m, i, k)}
  <2>1. S \in SUBSET Nat /\ S # {} /\ \A x \in S : x <= k
    BY GoodFacts DEF Under
  <2>2. PICK j \in S : \A y \in S : y <= j
    BY <2>1, GreatestNat
  <2> QED
    BY <2>2 DEF IsLast
<1> QED
  BY DEF IsLast

(* There is only one. *)
LEMMA LastUnique ==
  ASSUME NEW m, Good(m), NEW i \in 0..Levels, NEW k \in Nat,
         NEW x, IsLast(m, i, k, x), NEW y, IsLast(m, i, k, y)
  PROVE  x = y
<1> CASE Under(m, i, k) # {}
  <2>1. /\ x \in Live(m) /\ y \in Live(m) /\ Key(m, x) <= Key(m, y) /\ Key(m, y) <= Key(m, x)
    BY GoodFacts DEF IsLast, Under
  <2> QED
    BY <2>1, GoodFacts
<1> QED
  BY DEF IsLast

(* From a node under k the next one is behind it and under k, or the node  *)
(* was the last.                                                           *)
LEMMA WalkStep ==
  ASSUME NEW m, Good(m), NEW i \in 0..Levels, NEW k \in Nat,
         NEW n \in At(m, i) \cup {HeadNode}, n = HeadNode \/ Key(m, n) < k,
         NEW s, s = m.next[n][i]
  PROVE  IF s \in Nodes /\ Key(m, s) < k
         THEN s \in At(m, i) /\ (n = HeadNode \/ Key(m, n) < Key(m, s))
         ELSE IsLast(m, i, k, n)
<1> USE MapFacts
<1>1. Nearest(m, i, n, s)
  BY GoodFacts DEF At
<1>2. CASE s \in Nodes /\ Key(m, s) < k
  BY <1>1, <1>2 DEF Nearest, Behind, Key
<1>3. CASE ~(s \in Nodes /\ Key(m, s) < k)
  <2>1. ASSUME NEW y \in Under(m, i, k), n = HeadNode \/ Key(m, n) < Key(m, y)
        PROVE  FALSE
    <3>1. y \in Behind(m, i, n)
      BY <2>1 DEF Behind, Key, Under
    <3>2. s \in At(m, i) /\ Key(m, s) <= Key(m, y)
      BY <1>1, <3>1 DEF Nearest, Behind, Key
    <3>3. s \in Nodes /\ Key(m, s) \in Nat /\ Key(m, y) \in Nat /\ Key(m, y) < k
      BY <3>2, GoodFacts DEF Under
    <3> QED
      BY <1>3, <3>2, <3>3
  <2>2. CASE n = HeadNode
    <3>1. Under(m, i, k) = {}
      BY <2>1, <2>2
    <3> QED
      BY <1>3, <2>2, <3>1 DEF IsLast
  <2>3. CASE n # HeadNode
    <3>1. n \in Under(m, i, k)
      BY <2>3 DEF Under
    <3>2. \A y \in Under(m, i, k) : Key(m, y) \in Nat
      BY GoodFacts DEF Under
    <3>3. \A y \in Under(m, i, k) : Key(m, y) <= Key(m, n)
      BY <2>1, <3>1, <3>2
    <3> QED
      BY <1>3, <3>1, <3>3 DEF IsLast
  <2> QED
    BY <2>2, <2>3
<1> QED
  BY <1>2, <1>3

(* The inner loop of a search ends at the last node under k. *)
WalkBody(f, m, i, k) == [n \in At(m, i) \cup {HeadNode} |->
  LET s == m.next[n][i] IN IF s \in Nodes /\ m.item[s].key < k THEN f[s] ELSE n]

(* The recursion of the walk has a solution, which CHOOSE finds. *)
LEMMA WalkSolved ==
  ASSUME NEW m, Good(m), NEW i \in 0..Levels, NEW k \in Nat
  PROVE  Walk(m, i, k) = WalkBody(Walk(m, i, k), m, i, k)
<1>1. PICK last : IsLast(m, i, k, last)
  BY LastExists
<1> DEFINE D == At(m, i) \cup {HeadNode}
           low(n) == n = HeadNode \/ Key(m, n) < k
           g == [n \in D |-> IF low(n) THEN last ELSE n]
<1>2. ASSUME NEW n \in D, NEW s, s = m.next[n][i]
      PROVE  g[n] = IF s \in Nodes /\ Key(m, s) < k THEN g[s] ELSE n
  <2>1. CASE low(n)
    <3>1. CASE s \in Nodes /\ Key(m, s) < k
      <4>1. s \in D
        BY <1>2, <2>1, <3>1, WalkStep
      <4> QED
        BY <2>1, <3>1, <4>1
    <3>2. CASE ~(s \in Nodes /\ Key(m, s) < k)
      <4>1. IsLast(m, i, k, n)
        BY <1>2, <2>1, <3>2, WalkStep
      <4>2. n = last
        BY <1>1, <4>1, LastUnique
      <4> QED
        BY <2>1, <3>2, <4>2
    <3> QED
      BY <3>1, <3>2
  <2>2. CASE ~low(n)
    <3>1. ~(s \in Nodes /\ Key(m, s) < k)
      <4>1. Nearest(m, i, n, s) /\ n \in At(m, i)
        BY <1>2, <2>2, GoodFacts, MapFacts DEF At
      <4>2. s \in Nodes => s \in At(m, i) /\ Key(m, n) < Key(m, s)
        BY <4>1, <2>2, MapFacts DEF Nearest, Behind, Key
      <4>3. Key(m, n) \in Nat /\ (s \in Nodes => Key(m, s) \in Nat)
        BY <4>1, <4>2, GoodFacts
      <4> QED
        BY <2>2, <4>2, <4>3
    <3> QED
      BY <2>2, <3>1
  <2> QED
    BY <2>1, <2>2
<1> HIDE DEF low
<1>3. g = WalkBody(g, m, i, k)
  <2>1. \A n \in D : g[n] = LET s == m.next[n][i] IN IF s \in Nodes /\ m.item[s].key < k THEN g[s] ELSE n
    BY SMTT(40), <1>2 DEF Key
  <2>2. g = [n \in D |-> g[n]]
    OBVIOUS
  <2> HIDE DEF g
  <2> QED
    BY <2>1, <2>2 DEF WalkBody
<1>4. Walk(m, i, k) = CHOOSE f : f = WalkBody(f, m, i, k)
  BY DEF Walk, WalkBody
<1> HIDE DEF g
<1> QED
  BY <1>3, <1>4

(* So from a node under k the walk ends at the last. *)
LEMMA WalkIs ==
  ASSUME NEW m, Good(m), NEW i \in 0..Levels, NEW k \in Nat,
         NEW n \in At(m, i) \cup {HeadNode}, n = HeadNode \/ Key(m, n) < k
  PROVE  IsLast(m, i, k, Walk(m, i, k)[n])
<1> DEFINE D == At(m, i) \cup {HeadNode}
           low(x) == x = HeadNode \/ Key(m, x) < k
           w == Walk(m, i, k)
           far(x) == IF x = HeadNode THEN k + 1 ELSE k - Key(m, x)
           T == {x \in D : low(x) /\ ~IsLast(m, i, k, w[x])}
<1>1. \A x \in D : w[x] = LET s == m.next[x][i] IN IF s \in Nodes /\ Key(m, s) < k THEN w[s] ELSE x
  <2>1. w = WalkBody(w, m, i, k)
    BY WalkSolved
  <2> HIDE DEF w
  <2> QED
    BY <2>1 DEF WalkBody, Key
<1>2. \A x \in D : low(x) => far(x) \in Nat
  BY GoodFacts
<1> HIDE DEF w
<1> SUFFICES ASSUME T # {} PROVE FALSE
  BY DEF w
<1>3. PICK x \in T : \A y \in T : far(x) <= far(y)
  <2> DEFINE F == {far(y) : y \in T}
  <2>1. F \in SUBSET Nat /\ F # {}
    BY <1>2
  <2>2. PICK d \in F : \A e \in F : d <= e
    BY <2>1, LeastNat
  <2> QED
    BY <2>2
<1>4. PICK s : s = m.next[x][i]
  OBVIOUS
<1>5. CASE s \in Nodes /\ Key(m, s) < k
  <2>1. s \in At(m, i) /\ (x = HeadNode \/ Key(m, x) < Key(m, s))
    BY <1>3, <1>4, <1>5, WalkStep
  <2>2. w[x] = w[s]
    BY <1>1, <1>3, <1>4, <1>5
  <2>3. s \in T
    BY <1>3, <1>5, <2>1, <2>2
  <2>4. Key(m, s) \in Nat /\ (x # HeadNode => Key(m, x) \in Nat) /\ s # HeadNode
    BY <1>3, <2>1, GoodFacts, MapFacts
  <2> QED
    BY <1>3, <2>1, <2>3, <2>4
<1>6. CASE ~(s \in Nodes /\ Key(m, s) < k)
  <2>1. IsLast(m, i, k, x)
    BY <1>3, <1>4, <1>6, WalkStep
  <2>2. w[x] = x
    BY <1>1, <1>3, <1>4, <1>6
  <2> QED
    BY <1>3, <2>1, <2>2
<1> QED
  BY <1>5, <1>6

(* The whole search ends, at each level, at the last node under k. *)
UpdatedBody(f, m, k) == [i \in 0..(Levels + 1) |->
  IF i > m.max THEN HeadNode ELSE Walk(m, i, k)[f[i + 1]]]

(* The recursion of the search has a solution, which CHOOSE finds. *)
LEMMA UpdatedSolved ==
  ASSUME NEW m, Good(m), NEW k \in Nat
  PROVE  Updated(m, k) = UpdatedBody(Updated(m, k), m, k)
<1> USE MapFacts
<1> DEFINE g == [i \in 0..(Levels + 1) |->
                   IF i > m.max THEN HeadNode ELSE CHOOSE x : IsLast(m, i, k, x)]
<1>0. m.max \in 0..Levels
  BY GoodFacts
<1>1. ASSUME NEW i \in 0..Levels, i <= m.max
      PROVE  g[i] = Walk(m, i, k)[g[i + 1]]
  <2>1. g[i] = CHOOSE x : IsLast(m, i, k, x)
    BY <1>0, <1>1
  <2>2. IsLast(m, i, k, g[i])
    BY <2>1, LastExists
  <2>3. i + 1 \in 0..(Levels + 1) /\ (i + 1 <= m.max => i + 1 \in 0..Levels)
    BY <1>0
  <2>4. g[i + 1] = HeadNode \/ (g[i + 1] \in At(m, i) /\ Key(m, g[i + 1]) < k)
    <3>1. CASE i + 1 > m.max
      BY <2>3, <3>1
    <3>2. CASE ~(i + 1 > m.max)
      <4>1. i + 1 \in 0..Levels
        BY <1>0, <2>3, <3>2
      <4>2. g[i + 1] = CHOOSE x : IsLast(m, i + 1, k, x)
        BY <2>3, <3>2
      <4>3. IsLast(m, i + 1, k, g[i + 1])
        BY <4>1, <4>2, LastExists
      <4>4. At(m, i + 1) \subseteq At(m, i)
        BY <4>1, GoodFacts
      <4> HIDE DEF g
      <4> QED
        BY <4>3, <4>4 DEF IsLast, Under
    <3> QED
      BY <3>1, <3>2
  <2> HIDE DEF g
  <2>5. IsLast(m, i, k, Walk(m, i, k)[g[i + 1]])
    BY <2>4, WalkIs
  <2> QED
    BY <2>2, <2>5, LastUnique
<1>2. g = UpdatedBody(g, m, k)
  <2>1. ASSUME NEW i \in 0..(Levels + 1)
        PROVE  g[i] = IF i > m.max THEN HeadNode ELSE Walk(m, i, k)[g[i + 1]]
    <3>1. CASE i > m.max
      BY <3>1
    <3>2. CASE ~(i > m.max)
      <4>1. i \in 0..Levels /\ i <= m.max
        BY <1>0, <3>2
      <4> HIDE DEF g
      <4> QED
        BY <1>1, <3>2, <4>1
    <3> QED
      BY <3>1, <3>2
  <2>2. g = [i \in 0..(Levels + 1) |-> g[i]]
    OBVIOUS
  <2> HIDE DEF g
  <2> QED
    BY <2>1, <2>2 DEF UpdatedBody
<1>3. Updated(m, k) = CHOOSE f : f = UpdatedBody(f, m, k)
  BY DEF Updated, UpdatedBody
<1> HIDE DEF g
<1> QED
  BY <1>2, <1>3

(* So it ends at the last of each level, wherever the level above left it. *)
LEMMA UpdatedIs ==
  ASSUME NEW m, Good(m), NEW k \in Nat
  PROVE  \A i \in 0..Levels : IsLast(m, i, k, Updated(m, k)[i])
<1> USE MapFacts
<1> DEFINE u == Updated(m, k)
           S == {n \in Nat : n <= Levels => IsLast(m, Levels - n, k, u[Levels - n])}
<1>0. m.max \in 0..Levels /\ \A i \in 0..Levels : i > m.max => At(m, i) = {}
  BY GoodFacts
<1>1. \A i \in 0..(Levels + 1) : u[i] = IF i > m.max THEN HeadNode ELSE Walk(m, i, k)[u[i + 1]]
  <2>1. u = UpdatedBody(u, m, k)
    BY UpdatedSolved
  <2> HIDE DEF u
  <2> QED
    BY <2>1 DEF UpdatedBody
<1> HIDE DEF u
<1>2. ASSUME NEW i \in 0..Levels,
             i + 1 \in 0..Levels => IsLast(m, i + 1, k, u[i + 1])
      PROVE  IsLast(m, i, k, u[i])
  <2>1. CASE i > m.max
    <3>1. u[i] = HeadNode /\ Under(m, i, k) = {}
      BY <1>0, <1>1, <2>1 DEF Under
    <3> QED
      BY <3>1 DEF IsLast
  <2>2. CASE ~(i > m.max)
    <3>1. u[i] = Walk(m, i, k)[u[i + 1]]
      BY <1>1, <2>2
    <3>2. u[i + 1] = HeadNode \/ (u[i + 1] \in At(m, i) /\ Key(m, u[i + 1]) < k)
      <4>1. CASE i + 1 \in 0..Levels
        <5>1. At(m, i + 1) \subseteq At(m, i)
          BY <4>1, GoodFacts
        <5> QED
          BY <1>2, <4>1, <5>1 DEF IsLast, Under
      <4>2. CASE i + 1 \notin 0..Levels
        <5>1. i + 1 \in 0..(Levels + 1) /\ i + 1 > m.max
          BY <1>0, <4>2
        <5> QED
          BY <1>1, <5>1
      <4> QED
        BY <4>1, <4>2
    <3> QED
      BY <3>1, <3>2, WalkIs
  <2> QED
    BY <2>1, <2>2
<1>3. 0 \in S
  <2>1. Levels + 1 \notin 0..Levels /\ Levels \in 0..Levels /\ Levels - 0 = Levels
    OBVIOUS
  <2> QED
    BY <1>2, <2>1
<1>4. ASSUME NEW n \in S PROVE n + 1 \in S
  <2> SUFFICES ASSUME n + 1 <= Levels
               PROVE  IsLast(m, Levels - (n + 1), k, u[Levels - (n + 1)])
    OBVIOUS
  <2>1. PICK i \in 0..Levels : i = Levels - (n + 1)
    OBVIOUS
  <2>2. i + 1 = Levels - n /\ n <= Levels
    BY <2>1
  <2>3. IsLast(m, i + 1, k, u[i + 1])
    BY <1>4, <2>2
  <2> QED
    BY <1>2, <2>1, <2>3
<1>5. S = Nat
  <2>1. S \in SUBSET Nat
    OBVIOUS
  <2> HIDE DEF S
  <2> QED
    BY <1>3, <1>4, <2>1, NatInd
<1>6. ASSUME NEW i \in 0..Levels PROVE IsLast(m, i, k, u[i])
  <2>1. PICK n \in Nat : n = Levels - i
    OBVIOUS
  <2>2. n <= Levels /\ Levels - n = i
    BY <2>1
  <2>3. n \in S
    BY <1>5, <2>1
  <2> QED
    BY <2>2, <2>3
<1> QED
  BY <1>6 DEF u

(* The node with key k is found at the bottom, and no other. *)
LEMMA FindIs ==
  ASSUME NEW m, Good(m), NEW k \in Nat
  PROVE  /\ FindAtBottom(m, k) # NoNode =>
              FindAtBottom(m, k) \in Live(m) /\ Key(m, FindAtBottom(m, k)) = k
         /\ FindAtBottom(m, k) = NoNode => \A n \in Live(m) : Key(m, n) # k
<1> USE MapFacts
<1>1. PICK x : x = Updated(m, k)[0]
  OBVIOUS
<1>2. PICK c : c = Candidate(m, k)
  OBVIOUS
<1>3. c = m.next[x][0] /\ IsLast(m, 0, k, x) /\ At(m, 0) = Live(m)
  BY <1>1, <1>2, UpdatedIs, GoodFacts DEF Candidate
<1>4. x \in At(m, 0) \cup {HeadNode} /\ (x = HeadNode \/ Key(m, x) < k)
  BY <1>3 DEF IsLast, Under
<1>5. Nearest(m, 0, x, c)
  BY <1>3, <1>4, GoodFacts DEF At
<1>6. c \in Nodes => c \in Live(m)
  BY <1>3, <1>5 DEF Nearest, Behind
<1>7. ASSUME NEW n \in Live(m), Key(m, n) = k PROVE c = n
  <2>1. n \in Behind(m, 0, x) /\ Key(m, n) \in Nat
    BY SMTT(40), <1>3, <1>4, <1>7, GoodFacts DEF Behind, Key
  <2>2. c \in Live(m) /\ Key(m, c) <= k /\ c \in Behind(m, 0, x) /\ Key(m, c) \in Nat
    BY <1>3, <1>5, <1>7, <2>1, GoodFacts DEF Nearest, Behind, Key
  <2>3. ~(Key(m, c) < k)
    <3> SUFFICES ASSUME Key(m, c) < k PROVE FALSE
      OBVIOUS
    <3>1. c \in Under(m, 0, k)
      BY <1>3, <2>2 DEF Under
    <3>2. x \in Live(m) /\ Key(m, c) <= Key(m, x) /\ x # HeadNode
      BY <1>3, <3>1, GoodFacts DEF IsLast, Under
    <3>3. Key(m, x) < Key(m, c) /\ Key(m, x) \in Nat
      BY <2>2, <3>2, GoodFacts DEF Behind, Key
    <3> QED
      BY <2>2, <3>2, <3>3
  <2> QED
    BY <1>7, <2>2, <2>3, GoodFacts
<1>8. FindAtBottom(m, k) = IF c \in Nodes /\ Key(m, c) = k THEN c ELSE NoNode
  BY <1>2 DEF FindAtBottom, Key
<1> QED
  BY <1>6, <1>7, <1>8, GoodFacts

(* The search ends at the tail exactly when no key is as large.            *)
LEMMA TailIs ==
  ASSUME NEW m, Good(m), NEW k \in Nat
  PROVE  Candidate(m, k) # TailNode <=> \E n \in Live(m) : k <= Key(m, n)
<1> USE MapFacts
<1>1. PICK x : x = Updated(m, k)[0]
  OBVIOUS
<1>2. PICK c : c = Candidate(m, k)
  OBVIOUS
<1>3. c = m.next[x][0] /\ IsLast(m, 0, k, x) /\ At(m, 0) = Live(m)
  BY <1>1, <1>2, UpdatedIs, GoodFacts DEF Candidate
<1>4. x \in At(m, 0) \cup {HeadNode} /\ (x = HeadNode \/ Key(m, x) < k)
  BY <1>3 DEF IsLast, Under
<1>5. Nearest(m, 0, x, c)
  BY <1>3, <1>4, GoodFacts DEF At
<1>6. c # TailNode <=> Behind(m, 0, x) # {}
  <2>1. Behind(m, 0, x) \subseteq Nodes
    BY DEF Behind, At
  <2> QED
    BY <1>5, <2>1 DEF Nearest
<1>7. ASSUME NEW n \in Live(m) PROVE n \in Behind(m, 0, x) <=> k <= Key(m, n)
  <2>1. Key(m, n) \in Nat /\ (x # HeadNode => Key(m, x) \in Nat)
    BY <1>3, <1>4, GoodFacts
  <2>2. ASSUME k <= Key(m, n) PROVE n \in Behind(m, 0, x)
    BY <1>3, <1>4, <2>1, <2>2 DEF Behind, Key
  <2>3. ASSUME n \in Behind(m, 0, x), Key(m, n) < k PROVE FALSE
    <3>1. n \in Under(m, 0, k)
      BY <1>3, <2>3 DEF Under
    <3>2. x # HeadNode /\ Key(m, n) <= Key(m, x)
      BY <1>3, <3>1, GoodFacts DEF IsLast, Under
    <3>3. Key(m, x) < Key(m, n)
      BY <2>3, <3>2 DEF Behind, Key
    <3> QED
      BY <2>1, <3>2, <3>3
  <2> QED
    BY <2>1, <2>2, <2>3
<1>8. Behind(m, 0, x) \subseteq Live(m)
  BY <1>3 DEF Behind
<1> QED
  BY <1>2, <1>6, <1>7, <1>8

-----------------------------------------------------------------------------
(* insert.                                                                 *)

(* The types of the parts. *)
LEMMA PartTypes ==
  ASSUME NEW m, Good(m)
  PROVE  /\ DOMAIN m.next = Nodes \cup {HeadNode} /\ DOMAIN m.next[HeadNode] = 0..Levels
         /\ m.prev \in [Nodes \cup {TailNode} -> Nodes \cup {HeadNode, NoNode}]
         /\ m.item \in [Nodes -> [key : Keys, value : Values] \cup {NoItem}]
         /\ m.max \in 0..Levels /\ m.size \in Nat /\ m.size = Cardinality(Live(m))
         /\ \A n \in Live(m) : \E j \in 0..m.max : DOMAIN m.next[n] = 0..j
         /\ \A n \in Nodes \ Live(m) : DOMAIN m.next[n] = {}
         /\ m.max = 0 \/ At(m, m.max) # {}
<1>1. /\ DOMAIN m.next = Nodes \cup {HeadNode}
      /\ m.prev \in [Nodes \cup {TailNode} -> Nodes \cup {HeadNode, NoNode}]
      /\ m.item \in [Nodes -> [key : Keys, value : Values] \cup {NoItem}]
      /\ m.max \in 0..Levels /\ m.size \in Nat
  BY DEF Good, Maps
<1>2. /\ DOMAIN m.next[HeadNode] = 0..Levels /\ m.size = Cardinality(Live(m))
      /\ m.max = 0 \/ At(m, m.max) # {}
      /\ \A n \in Nodes : IF n \in Live(m) THEN \E j \in 0..m.max : DOMAIN m.next[n] = 0..j
                                           ELSE DOMAIN m.next[n] = {}
  BY DEF Good, Sound
<1>3. Live(m) \subseteq Nodes
  BY DEF Live
<1> QED
  BY <1>1, <1>2, <1>3

(* There are finitely many nodes. *)
LEMMA LiveFinite == ASSUME NEW m PROVE IsFiniteSet(Live(m)) /\ IsFiniteSet(Nodes)
<1>1. IsFiniteSet(Nodes)
  BY MapAssumption, FS_CardinalityType, FS_Interval
<1> QED
  BY <1>1, FS_Subset DEF Live

(* As long as a key is not there, a node is free. *)
LEMMA FreeNode ==
  ASSUME NEW m, Good(m), NEW k \in Keys, \A n \in Live(m) : Key(m, n) # k
  PROVE  Nodes \ Live(m) # {}
<1> SUFFICES ASSUME Live(m) = Nodes PROVE FALSE
  BY DEF Live
<1> DEFINE f == [n \in Nodes |-> Key(m, n)]
<1>1. Cardinality(Keys) \in Nat /\ Cardinality(Nodes) = Cardinality(Keys)
  <2>1. \A n \in Nat : Cardinality(1..n) = n
    BY FS_Interval
  <2> QED
    BY <2>1, MapAssumption, FS_CardinalityType
<1>2. f \in Injection(Nodes, Keys)
  <2>1. f \in [Nodes -> Keys] /\ \A a, b \in Nodes : f[a] = f[b] => a = b
    BY GoodFacts
  <2> HIDE DEF f
  <2> QED
    BY <2>1, Fun_IsInj
<1>3. f \in Surjection(Nodes, Keys)
  BY <1>1, <1>2, MapAssumption, FS_Injection
<1>4. PICK n \in Nodes : f[n] = k
  BY <1>3, Fun_SurjectionProperties
<1> QED
  BY <1>4

(* insert takes a node that is free. *)
LEMMA MinNode ==
  ASSUME NEW S \in SUBSET Nodes, S # {} PROVE Min(S) \in S
<1>1. S \in SUBSET Nat
  BY MapAssumption, FS_CardinalityType
<1>2. \E x \in S : \A y \in S : x <= y
  BY <1>1, LeastNat
<1> QED
  BY <1>2 DEF Min

(* The maximum of a bounded set is in it. *)
LEMMA MaxOf ==
  ASSUME NEW S \in SUBSET Nat, S # {}, NEW b \in Nat, \A x \in S : x <= b
  PROVE  Max(S) \in S /\ \A x \in S : x <= Max(S)
<1>1. \E x \in S : \A y \in S : x >= y
  BY GreatestNat
<1> QED
  BY <1>1 DEF Max

(* An array of links is one of nodes and ends. *)
LEMMA ArrayType ==
  ASSUME NEW f, f = [i \in DOMAIN f |-> f[i]],
         DOMAIN f = {} \/ (\E j \in 0..Levels : DOMAIN f = 0..j),
         \A i \in DOMAIN f : f[i] \in Nodes \cup {TailNode, NoNode}
  PROVE  f \in Arrays
<1>1. CASE DOMAIN f = {}
  <2>1. f = <<>>
    BY <1>1
  <2> QED
    BY <2>1 DEF Arrays
<1>2. ASSUME NEW j \in 0..Levels, DOMAIN f = 0..j
      PROVE  f \in Arrays
  BY <1>2 DEF Arrays
<1> QED
  BY <1>1, <1>2

(* The parts of a record that a map has, whatever its links are. *)
Shaped(r) ==
  /\ r = [next |-> r.next, prev |-> r.prev, item |-> r.item, max |-> r.max, size |-> r.size]
  /\ r.next = [n \in Nodes \cup {HeadNode} |-> r.next[n]]
  /\ \A n \in Nodes \cup {HeadNode} : r.next[n] = [i \in DOMAIN r.next[n] |-> r.next[n][i]]
  /\ r.prev \in [Nodes \cup {TailNode} -> Nodes \cup {HeadNode, NoNode}]
  /\ r.item \in [Nodes -> [key : Keys, value : Values] \cup {NoItem}]
  /\ r.max \in 0..Levels

(* Its levels and its links, every link to the nearest node behind.        *)
Linking(r) ==
  /\ DOMAIN r.next[HeadNode] = 0..Levels
  /\ \A n \in Live(r) : \E j \in 0..r.max : DOMAIN r.next[n] = 0..j
  /\ \A n \in Nodes \ Live(r) : DOMAIN r.next[n] = {}
  /\ \A a, b \in Live(r) : Key(r, a) = Key(r, b) => a = b
  /\ \A i \in 0..Levels : \A n \in At(r, i) \cup {HeadNode} : Nearest(r, i, n, r.next[n][i])
  /\ \A n \in Live(r) \cup {HeadNode} : r.prev[r.next[n][0]] = n

(* A record of links that are sound, mirrored and counted is a good map. *)
LEMMA MakeGood ==
  ASSUME NEW r, Shaped(r), Linking(r), r.size = Cardinality(Live(r)),
         r.max = 0 \/ At(r, r.max) # {}
  PROVE  Good(r)
<1> USE MapFacts
<1>1. ASSUME NEW n \in Nodes \cup {HeadNode} PROVE r.next[n] \in Arrays
  <2>0. r.next[n] = [i \in DOMAIN r.next[n] |-> r.next[n][i]]
    BY DEF Shaped
  <2>1. DOMAIN r.next[n] = {} \/ (\E j \in 0..Levels : DOMAIN r.next[n] = 0..j)
    <3>1. CASE n = HeadNode
      BY <3>1 DEF Linking
    <3>2. CASE n \in Live(r)
      <4>1. PICK j \in 0..r.max : DOMAIN r.next[n] = 0..j
        BY <3>2 DEF Linking
      <4>2. r.max \in 0..Levels
        BY DEF Shaped
      <4> QED
        BY <4>1, <4>2
    <3>3. CASE n \in Nodes \ Live(r)
      BY <3>3 DEF Linking
    <3> QED
      BY <3>1, <3>2, <3>3
  <2>2. ASSUME NEW i \in DOMAIN r.next[n] PROVE r.next[n][i] \in Nodes \cup {TailNode, NoNode}
    <3>1. i \in 0..Levels /\ n \in At(r, i) \cup {HeadNode}
      BY <2>1, <2>2 DEF At
    <3> QED
      BY <3>1 DEF Linking, Nearest, Behind, At
  <2> QED
    BY <2>0, <2>1, <2>2, ArrayType
<1>2. r.size \in Nat
  BY LiveFinite, FS_CardinalityType
<1>3. r \in Maps
  BY <1>1, <1>2 DEF Maps, Shaped
<1>4. Sound(r)
  <2>1. ASSUME NEW i \in 0..Levels, NEW n \in Nodes \cup {HeadNode}, i \in DOMAIN r.next[n]
        PROVE  Nearest(r, i, n, r.next[n][i])
    BY <2>1 DEF At, Linking
  <2> QED
    BY <2>1 DEF Sound, Key, Linking, Live
<1>5. Mirrored(r)
  BY DEF Mirrored, Linking
<1> QED
  BY <1>3, <1>4, <1>5 DEF Good

(* The last node under k, of each level, and what its link leads to. *)
LEMMA LastFacts ==
  ASSUME NEW m, Good(m), NEW k \in Nat, NEW i \in 0..Levels, NEW x, IsLast(m, i, k, x)
  PROVE  /\ x \in At(m, i) \cup {HeadNode} /\ x \in Live(m) \cup {HeadNode}
         /\ x = HeadNode \/ Key(m, x) < k
         /\ \A y \in At(m, i) : Key(m, y) < k =>
              x # HeadNode /\ Key(m, y) <= Key(m, x)
         /\ Behind(m, i, x) = {y \in At(m, i) : ~(Key(m, y) < k)}
         /\ Nearest(m, i, x, m.next[x][i])
<1>1. /\ x \in At(m, i) \cup {HeadNode} /\ (x = HeadNode \/ Key(m, x) < k)
      /\ \A y \in At(m, i) : Key(m, y) < k => x # HeadNode /\ Key(m, y) <= Key(m, x)
  BY MapFacts DEF IsLast, Under, At
<1>2. At(m, i) \subseteq Live(m) /\ \A y \in Live(m) : Key(m, y) \in Nat
  BY GoodFacts
<1>3. Behind(m, i, x) = {y \in At(m, i) : ~(Key(m, y) < k)}
  <2>1. ASSUME NEW y \in At(m, i) PROVE (x = HeadNode \/ Key(m, x) < Key(m, y)) <=> ~(Key(m, y) < k)
    BY <1>1, <1>2
  <2> QED
    BY <2>1 DEF Behind, Key
<1>4. Nearest(m, i, x, m.next[x][i])
  BY <1>1, GoodFacts DEF At
<1> QED
  BY <1>1, <1>2, <1>3, <1>4

(* The map with a new node in front of which u stands on each level. *)
Grown(m, k, v, l, u, new) ==
  [next |-> Linked(m, new, l, u),
   prev |-> [m.prev EXCEPT ![new] = u[0], ![m.next[u[0]][0]] = new],
   item |-> [m.item EXCEPT ![new] = [key |-> k, value |-> v]],
   max  |-> Max({m.max, l}),
   size |-> m.size + 1]

(* A new node linked behind the last nodes under its key makes a good map. *)
LEMMA InsertGood ==
  ASSUME NEW m, Good(m), NEW k \in Keys, NEW v \in Values, NEW l \in 0..Levels,
         \A n \in Live(m) : Key(m, n) # k,
         NEW u, \A i \in 0..Levels : IsLast(m, i, k, u[i]),
         NEW new \in Nodes \ Live(m),
         NEW r, r = Grown(m, k, v, l, u, new)
  PROVE  /\ Good(r) /\ Live(r) = Live(m) \cup {new} /\ r.item[new] = [key |-> k, value |-> v]
         /\ \A n \in Live(m) : r.item[n] = m.item[n]
<1> USE MapFacts
<1>0. r = [next |-> Linked(m, new, l, u),
          prev |-> [m.prev EXCEPT ![new] = u[0], ![m.next[u[0]][0]] = new],
          item |-> [m.item EXCEPT ![new] = [key |-> k, value |-> v]],
          max  |-> Max({m.max, l}),
          size |-> m.size + 1]
  BY DEF Grown
<1>1. k \in Nat /\ Live(m) \subseteq Nodes
  BY DEF Live
<1>2. /\ r.item = [m.item EXCEPT ![new] = [key |-> k, value |-> v]]
      /\ r.item[new] = [key |-> k, value |-> v]
      /\ \A n \in Nodes \ {new} : r.item[n] = m.item[n]
      /\ r.item \in [Nodes -> [key : Keys, value : Values] \cup {NoItem}]
  BY <1>0, PartTypes
<1>3. Live(r) = Live(m) \cup {new}
  <2>1. [key |-> k, value |-> v] # NoItem
    BY MapAssumption
  <2> QED
    BY <1>1, <1>2, <2>1 DEF Live
<1>4. Key(r, new) = k /\ \A n \in Live(m) : Key(r, n) = Key(m, n) /\ r.item[n] = m.item[n] /\ n # new
  BY SMTT(40), <1>1, <1>2 DEF Key
<1>5. /\ r.next = [n \in Nodes \cup {HeadNode} |-> r.next[n]]
      /\ r.next[new] = [i \in 0..l |-> m.next[u[i]][i]]
      /\ \A n \in (Nodes \cup {HeadNode}) \ {new} : r.next[n] =
           [i \in DOMAIN m.next[n] |-> IF i <= l /\ u[i] = n THEN new ELSE m.next[n][i]]
  BY <1>0, PartTypes DEF Linked
<1>51. /\ DOMAIN r.next[new] = 0..l /\ \A i \in 0..l : r.next[new][i] = m.next[u[i]][i]
       /\ \A n \in (Nodes \cup {HeadNode}) \ {new} :
            /\ DOMAIN r.next[n] = DOMAIN m.next[n]
            /\ \A i \in DOMAIN m.next[n] :
                 r.next[n][i] = IF i <= l /\ u[i] = n THEN new ELSE m.next[n][i]
  <2>1. DOMAIN r.next[new] = 0..l /\ \A i \in 0..l : r.next[new][i] = m.next[u[i]][i]
    BY <1>5
  <2>2. ASSUME NEW n \in (Nodes \cup {HeadNode}) \ {new}
        PROVE  /\ DOMAIN r.next[n] = DOMAIN m.next[n]
               /\ \A i \in DOMAIN m.next[n] :
                    r.next[n][i] = IF i <= l /\ u[i] = n THEN new ELSE m.next[n][i]
    <3> DEFINE g == [i \in DOMAIN m.next[n] |-> IF i <= l /\ u[i] = n THEN new ELSE m.next[n][i]]
    <3>1. r.next[n] = g
      BY <1>5
    <3>2. /\ DOMAIN g = DOMAIN m.next[n]
          /\ \A i \in DOMAIN m.next[n] : g[i] = IF i <= l /\ u[i] = n THEN new ELSE m.next[n][i]
      OBVIOUS
    <3> HIDE DEF g
    <3> QED
      BY <3>1, <3>2
  <2> QED
    BY <2>1, <2>2
<1>6. ASSUME NEW i \in 0..Levels
      PROVE  At(r, i) = At(m, i) \cup (IF i <= l THEN {new} ELSE {})
  <2>1. i \in DOMAIN r.next[new] <=> i <= l
    BY <1>51
  <2>2. new \notin At(m, i)
    BY GoodFacts
  <2>3. \A n \in Nodes \ {new} : i \in DOMAIN r.next[n] <=> i \in DOMAIN m.next[n]
    BY <1>51
  <2> QED
    BY <2>1, <2>2, <2>3 DEF At
<1>7. /\ \A i \in 0..Levels : At(m, i) \subseteq Live(m)
      /\ \A n \in Live(m) : Key(m, n) \in Nat /\ Key(m, n) # k
  BY GoodFacts
<1>8. ASSUME NEW i \in 0..Levels, NEW n \in At(r, i) \cup {HeadNode}
      PROVE  Nearest(r, i, n, r.next[n][i])
  <2>1. /\ u[i] \in At(m, i) \cup {HeadNode} /\ (u[i] = HeadNode \/ Key(m, u[i]) < k)
        /\ \A y \in At(m, i) : Key(m, y) < k => u[i] # HeadNode /\ Key(m, y) <= Key(m, u[i])
        /\ Behind(m, i, u[i]) = {y \in At(m, i) : ~(Key(m, y) < k)}
        /\ Nearest(m, i, u[i], m.next[u[i]][i])
    BY SMTT(40), <1>1, LastFacts
  <2>2. CASE n = new
    <3>1. i <= l /\ r.next[n][i] = m.next[u[i]][i]
      <4>1. new \in At(r, i) /\ new \notin At(m, i)
        BY <1>7, <2>2
      <4>2. i <= l
        BY <1>6, <4>1
      <4> QED
        BY <1>51, <2>2, <4>2
    <3>2. Behind(r, i, n) = Behind(m, i, u[i])
      <4>1. \A y \in At(m, i) : Key(r, n) < Key(r, y) <=> ~(Key(m, y) < k)
        BY <1>1, <1>4, <1>7, <2>2
      <4>2. ~(Key(r, n) < Key(r, new)) /\ n # HeadNode
        BY <1>1, <1>4, <2>2
      <4> QED
        BY <1>6, <2>1, <3>1, <4>1, <4>2 DEF Behind, Key
    <3>3. \A y \in Behind(m, i, u[i]) : Key(r, y) = Key(m, y)
      BY <1>4, <1>7, <2>1
    <3> QED
      BY <2>1, <3>1, <3>2, <3>3 DEF Nearest, Key
  <2>3. CASE n # new
    <3>1. n \in At(m, i) \cup {HeadNode} /\ (n # HeadNode => n \in Live(m))
      BY <1>6, <1>7, <2>3
    <3>2. i \in DOMAIN m.next[n]
      BY <3>1, PartTypes DEF At
    <3>3. r.next[n][i] = IF i <= l /\ u[i] = n THEN new ELSE m.next[n][i]
      BY <1>51, <2>3, <3>1, <3>2 DEF At
    <3>4. Behind(r, i, n) =
            Behind(m, i, n) \cup (IF i <= l /\ (n = HeadNode \/ Key(m, n) < k) THEN {new} ELSE {})
      BY <1>4, <1>6, <1>7, <3>1 DEF Behind, Key
    <3>5. \A y \in Behind(m, i, n) : y \in Live(m) /\ Key(r, y) = Key(m, y) /\ Key(m, y) \in Nat /\ Key(m, y) # k
      BY <1>4, <1>7 DEF Behind
    <3>6. Nearest(m, i, n, m.next[n][i])
      BY <3>1, GoodFacts DEF At
    <3>7. CASE i <= l /\ u[i] = n
      <4>1. r.next[n][i] = new /\ new \in Behind(r, i, n)
        BY <2>1, <3>3, <3>4, <3>7
      <4>2. \A y \in Behind(r, i, n) : Key(r, new) <= Key(r, y)
        BY SMTT(40), <1>1, <1>4, <2>1, <3>4, <3>5, <3>7
      <4> QED
        BY <4>1, <4>2 DEF Nearest, Key
    <3>8. CASE i > l
      BY <3>3, <3>4, <3>5, <3>6, <3>8 DEF Nearest, Key
    <3>9. CASE i <= l /\ u[i] # n /\ ~(n = HeadNode \/ Key(m, n) < k)
      BY <3>3, <3>4, <3>5, <3>6, <3>9 DEF Nearest, Key
    <3>10. CASE i <= l /\ u[i] # n /\ (n = HeadNode \/ Key(m, n) < k)
      <4>1. PICK s : s = m.next[n][i]
        OBVIOUS
      <4>2. u[i] # HeadNode /\ u[i] \in At(m, i) /\ (n = HeadNode \/ Key(m, n) < Key(m, u[i]))
        <5>1. CASE n = HeadNode
          BY <2>1, <3>10, <5>1
        <5>2. CASE n # HeadNode
          <6>1. n \in At(m, i) /\ u[i] # HeadNode /\ Key(m, n) <= Key(m, u[i])
            BY <2>1, <3>1, <3>10, <5>2
          <6>2. Key(m, n) # Key(m, u[i])
            BY <1>7, <2>1, <3>10, <6>1, GoodFacts
          <6> QED
            BY <1>7, <2>1, <6>1, <6>2
        <5> QED
          BY <5>1, <5>2
      <4>3. u[i] \in Behind(m, i, n)
        BY <4>2 DEF Behind, Key
      <4>4. s \in Behind(m, i, n) /\ Key(m, s) <= Key(m, u[i])
            /\ \A x \in Behind(m, i, n) : Key(m, s) <= Key(m, x)
        BY <3>6, <4>1, <4>3 DEF Nearest, Key
      <4>5. Key(m, s) < k
        BY <1>1, <1>7, <2>1, <3>5, <4>2, <4>4
      <4>6. \A x \in Behind(r, i, n) : Key(r, s) <= Key(r, x)
        BY <1>1, <1>4, <3>4, <3>5, <4>4, <4>5
      <4>7. s \in Behind(r, i, n) /\ r.next[n][i] = s
        BY <3>3, <3>4, <3>10, <4>1, <4>4
      <4> QED
        BY <4>6, <4>7 DEF Nearest, Key
    <3> QED
      BY <3>7, <3>8, <3>9, <3>10
  <2> QED
    BY <2>2, <2>3
<1>9. PICK c : c = m.next[u[0]][0]
  OBVIOUS
<1>10. /\ u[0] \in Live(m) \cup {HeadNode} /\ c \in Live(m) \cup {TailNode} /\ c # new
       /\ 0 \in 0..Levels /\ At(m, 0) = Live(m)
  <2>1. 0 \in 0..Levels /\ At(m, 0) = Live(m)
    BY GoodFacts
  <2>2. u[0] \in Live(m) \cup {HeadNode} /\ Nearest(m, 0, u[0], c)
    BY <1>1, <1>9, <2>1, LastFacts
  <2>3. c \in Live(m) \cup {TailNode}
    BY <2>1, <2>2 DEF Nearest, Behind
  <2> QED
    BY <2>1, <2>2, <2>3
<1>11. /\ r.prev = [m.prev EXCEPT ![new] = u[0], ![c] = new]
       /\ r.prev \in [Nodes \cup {TailNode} -> Nodes \cup {HeadNode, NoNode}]
       /\ r.prev[c] = new /\ r.prev[new] = u[0]
       /\ \A n \in (Nodes \cup {TailNode}) \ {c, new} : r.prev[n] = m.prev[n]
  <2>1. r.prev = [m.prev EXCEPT ![new] = u[0], ![c] = new]
    BY <1>0, <1>9
  <2>2. m.prev \in [Nodes \cup {TailNode} -> Nodes \cup {HeadNode, NoNode}]
    BY PartTypes
  <2> QED
    BY <1>1, <1>10, <2>1, <2>2
<1>12. ASSUME NEW n \in Live(r) \cup {HeadNode} PROVE r.prev[r.next[n][0]] = n
  <2>1. CASE n = new
    <3>1. r.next[n][0] = c
      BY <1>51, <1>9, <2>1
    <3> QED
      BY <1>11, <2>1, <3>1
  <2>2. CASE n # new
    <3>1. n \in Live(m) \cup {HeadNode} /\ 0 \in DOMAIN m.next[n] /\ n \in Nodes \cup {HeadNode}
      <4>1. n \in Live(m) \cup {HeadNode}
        BY <1>3, <2>2
      <4>2. 0 \in DOMAIN m.next[HeadNode]
        BY <1>10, PartTypes
      <4> QED
        BY <1>1, <1>10, <4>1, <4>2 DEF At
    <3>2. r.next[n][0] = IF u[0] = n THEN new ELSE m.next[n][0]
      BY <1>51, <2>2, <3>1
    <3>3. CASE u[0] = n
      BY <1>11, <3>2, <3>3
    <3>4. CASE u[0] # n
      <4>1. PICK s : s = m.next[n][0]
        OBVIOUS
      <4>2. m.prev[s] = n /\ m.prev[c] = u[0]
        BY <1>9, <1>10, <3>1, <4>1 DEF Good, Mirrored
      <4>3. Nearest(m, 0, n, s)
        BY <1>10, <3>1, <4>1, GoodFacts
      <4>4. s \in Live(m) \cup {TailNode}
        BY <1>10, <4>3 DEF Nearest, Behind
      <4> QED
        BY <1>1, <1>11, <3>2, <3>4, <4>1, <4>2, <4>4
    <3> QED
      BY <3>3, <3>4
  <2> QED
    BY <2>1, <2>2
<1>13. /\ r.max \in {m.max, l} /\ m.max <= r.max /\ l <= r.max /\ r.max \in 0..Levels
       /\ m.max \in 0..Levels
  <2>1. m.max \in 0..Levels /\ r.max = Max({m.max, l})
    BY <1>0, PartTypes
  <2>2. Max({m.max, l}) \in {m.max, l} /\ \A x \in {m.max, l} : x <= Max({m.max, l})
    BY <2>1, MaxOf
  <2> QED
    BY <2>1, <2>2
<1>14. \A n \in Live(r) : \E j \in 0..r.max : DOMAIN r.next[n] = 0..j
  <2> TAKE n \in Live(r)
  <2>1. CASE n = new
    <3>1. l \in 0..r.max /\ DOMAIN r.next[n] = 0..l
      BY <1>51, <1>13, <2>1
    <3> QED
      BY <3>1
  <2>2. CASE n # new
    <3>1. n \in Live(m) /\ n \in Nodes
      BY <1>1, <1>3, <2>2
    <3>2. PICK j \in 0..m.max : DOMAIN m.next[n] = 0..j
      BY <3>1, PartTypes
    <3>3. DOMAIN r.next[n] = 0..j /\ j \in 0..r.max
      BY <1>51, <1>13, <2>2, <3>1, <3>2
    <3> QED
      BY <3>3
  <2> QED
    BY <2>1, <2>2
<1>15. DOMAIN r.next[HeadNode] = 0..Levels /\ \A n \in Nodes \ Live(r) : DOMAIN r.next[n] = {}
  <2>1. DOMAIN m.next[HeadNode] = 0..Levels /\ \A n \in Nodes \ Live(m) : DOMAIN m.next[n] = {}
    BY PartTypes
  <2> QED
    BY <1>3, <1>51, <2>1
<1>16. r.max = 0 \/ At(r, r.max) # {}
  <2>1. CASE r.max = l
    <3>1. new \in At(r, l)
      BY <1>51 DEF At
    <3> QED
      BY <2>1, <3>1
  <2>2. CASE r.max = m.max
    <3>1. m.max = 0 \/ At(m, m.max) # {}
      BY PartTypes
    <3>2. At(m, m.max) \subseteq At(r, m.max)
      BY <1>6, <1>13
    <3> QED
      BY <2>2, <3>1, <3>2
  <2> QED
    BY <1>13, <2>1, <2>2
<1>17. r.size = Cardinality(Live(r))
  <2>1. Cardinality(Live(m) \cup {new}) = Cardinality(Live(m)) + 1
    BY LiveFinite, FS_AddElement
  <2>2. r.size = m.size + 1 /\ m.size = Cardinality(Live(m))
    BY <1>0, PartTypes
  <2> QED
    BY <1>3, <2>1, <2>2
<1>18. \A a, b \in Live(r) : Key(r, a) = Key(r, b) => a = b
  BY <1>3, <1>4, <1>7, GoodFacts
<1>19. Shaped(r)
  <2>1. \A n \in Nodes \cup {HeadNode} : r.next[n] = [i \in DOMAIN r.next[n] |-> r.next[n][i]]
    BY ZenonT(40), <1>5
  <2>2. r = [next |-> r.next, prev |-> r.prev, item |-> r.item, max |-> r.max, size |-> r.size]
    BY <1>0
  <2>3. r.next = [n \in Nodes \cup {HeadNode} |-> r.next[n]]
    BY <1>5
  <2> QED
    BY <1>2, <1>11, <1>13, <2>1, <2>2, <2>3 DEF Shaped
<1>20. Linking(r)
  BY <1>8, <1>12, <1>14, <1>15, <1>18 DEF Linking
<1>21. Good(r)
  BY <1>16, <1>17, <1>19, <1>20, MakeGood
<1> QED
  BY <1>2, <1>3, <1>4, <1>21

-----------------------------------------------------------------------------
(* erase.                                                                  *)

(* The nodes before a node, level by level: the link of the last node      *)
(* under its key is to it exactly on the levels it reaches.                *)
LEMMA LinkToIt ==
  ASSUME NEW m, Good(m), NEW c \in Live(m), NEW i \in 0..Levels, NEW x,
         IsLast(m, i, Key(m, c), x)
  PROVE  m.next[x][i] = c <=> c \in At(m, i)
<1> USE MapFacts
<1>1. Key(m, c) \in Nat /\ c \in Nodes
  BY GoodFacts
<1>2. /\ Behind(m, i, x) = {y \in At(m, i) : ~(Key(m, y) < Key(m, c))}
      /\ Nearest(m, i, x, m.next[x][i])
  BY <1>1, LastFacts
<1>3. ASSUME c \in At(m, i) PROVE m.next[x][i] = c
  <2>1. c \in Behind(m, i, x)
    BY <1>1, <1>2, <1>3
  <2>2. PICK s : s = m.next[x][i]
    OBVIOUS
  <2>3. s \in At(m, i) /\ ~(Key(m, s) < Key(m, c)) /\ Key(m, s) <= Key(m, c)
    BY <1>2, <2>1, <2>2 DEF Nearest, Key
  <2>4. s \in Live(m) /\ Key(m, s) \in Nat
    BY <2>3, GoodFacts
  <2>5. Key(m, s) = Key(m, c)
    BY <1>1, <2>3, <2>4
  <2> QED
    BY <2>2, <2>4, <2>5, GoodFacts
<1>4. ASSUME m.next[x][i] = c PROVE c \in At(m, i)
  BY <1>1, <1>2, <1>4 DEF Nearest
<1> QED
  BY <1>3, <1>4

(* Only the last node under a key links to the node of that key. *)
LEMMA OnlyLink ==
  ASSUME NEW m, Good(m), NEW c \in Live(m), NEW i \in 0..Levels, NEW x,
         IsLast(m, i, Key(m, c), x),
         NEW n \in At(m, i) \cup {HeadNode}, m.next[n][i] = c
  PROVE  n = x
<1> USE MapFacts
<1>1. Key(m, c) \in Nat /\ c \in Nodes
  BY GoodFacts
<1>2. /\ x \in At(m, i) \cup {HeadNode} /\ (x = HeadNode \/ Key(m, x) < Key(m, c))
      /\ \A y \in At(m, i) : Key(m, y) < Key(m, c) =>
           x # HeadNode /\ Key(m, y) <= Key(m, x)
  BY <1>1, LastFacts
<1>3. Nearest(m, i, n, c)
  BY GoodFacts
<1>4. c \in Behind(m, i, n) /\ \A y \in Behind(m, i, n) : Key(m, c) <= Key(m, y)
  BY <1>1, <1>3 DEF Nearest, Key
<1>5. n = HeadNode \/ Key(m, n) < Key(m, c)
  BY <1>4 DEF Behind, Key
<1> SUFFICES ASSUME n # x PROVE FALSE
  OBVIOUS
<1>6. At(m, i) \subseteq Live(m) /\ \A y \in Live(m) : Key(m, y) \in Nat
  BY GoodFacts
<1>7. x # HeadNode /\ x \in At(m, i) /\ (n = HeadNode \/ Key(m, n) < Key(m, x))
  <2>1. CASE n = HeadNode
    BY <1>2, <2>1
  <2>2. CASE n # HeadNode
    <3>1. n \in At(m, i) /\ x # HeadNode /\ Key(m, n) <= Key(m, x)
      BY <1>2, <1>5, <2>2
    <3>2. Key(m, n) # Key(m, x)
      BY <1>2, <1>6, <3>1, GoodFacts
    <3> QED
      BY <1>2, <1>6, <3>1, <3>2
  <2> QED
    BY <2>1, <2>2
<1>8. x \in Behind(m, i, n)
  BY <1>7 DEF Behind, Key
<1> QED
  BY <1>1, <1>2, <1>4, <1>6, <1>7, <1>8

(* The links without the node, on every level it reaches.                  *)
Unlinked(m, c, u) ==
  [n \in DOMAIN m.next |->
     IF n = c THEN <<>> ELSE [i \in DOMAIN m.next[n] |->
       IF c \in At(m, i) /\ u[i] = n THEN m.next[c][i] ELSE m.next[n][i]]]

(* A node unlinked wherever it is makes a good map. *)
LEMMA EraseGood ==
  ASSUME NEW m, Good(m), NEW c \in Live(m),
         NEW u, \A i \in 0..Levels : IsLast(m, i, Key(m, c), u[i]),
         NEW r, r = [next |-> Unlinked(m, c, u),
                     prev |-> [m.prev EXCEPT ![m.next[c][0]] = m.prev[c], ![c] = NoNode],
                     item |-> [m.item EXCEPT ![c] = NoItem],
                     max  |-> Lowered(Unlinked(m, c, u), m.max),
                     size |-> m.size - 1]
  PROVE  /\ Good(r) /\ Live(r) = Live(m) \ {c}
         /\ \A n \in Live(r) : r.item[n] = m.item[n]
<1> USE MapFacts
<1>1. Key(m, c) \in Nat /\ c \in Nodes /\ Live(m) \subseteq Nodes /\ 0 \in 0..Levels /\ At(m, 0) = Live(m)
  BY GoodFacts DEF Live
<1>2. /\ r.item[c] = NoItem
      /\ \A n \in Nodes \ {c} : r.item[n] = m.item[n]
      /\ r.item \in [Nodes -> [key : Keys, value : Values] \cup {NoItem}]
  BY <1>1, PartTypes
<1>3. Live(r) = Live(m) \ {c}
  BY <1>1, <1>2 DEF Live
<1>4. \A n \in Live(r) : n \in Live(m) /\ n # c /\ Key(r, n) = Key(m, n) /\ r.item[n] = m.item[n]
  BY <1>1, <1>2, <1>3 DEF Key
<1>5. /\ r.next = [n \in Nodes \cup {HeadNode} |-> r.next[n]]
      /\ r.next[c] = <<>>
      /\ \A n \in (Nodes \cup {HeadNode}) \ {c} : r.next[n] =
           [i \in DOMAIN m.next[n] |-> IF c \in At(m, i) /\ u[i] = n THEN m.next[c][i] ELSE m.next[n][i]]
  BY <1>1, PartTypes DEF Unlinked
<1>6. /\ DOMAIN r.next[c] = {}
      /\ \A n \in (Nodes \cup {HeadNode}) \ {c} :
           /\ DOMAIN r.next[n] = DOMAIN m.next[n]
           /\ \A i \in DOMAIN m.next[n] :
                r.next[n][i] = IF c \in At(m, i) /\ u[i] = n THEN m.next[c][i] ELSE m.next[n][i]
  <2>1. DOMAIN r.next[c] = {}
    BY <1>5
  <2>2. ASSUME NEW n \in (Nodes \cup {HeadNode}) \ {c}
        PROVE  /\ DOMAIN r.next[n] = DOMAIN m.next[n]
               /\ \A i \in DOMAIN m.next[n] :
                    r.next[n][i] = IF c \in At(m, i) /\ u[i] = n THEN m.next[c][i] ELSE m.next[n][i]
    <3> DEFINE g == [i \in DOMAIN m.next[n] |->
                       IF c \in At(m, i) /\ u[i] = n THEN m.next[c][i] ELSE m.next[n][i]]
    <3>1. r.next[n] = g
      BY <1>5
    <3>2. /\ DOMAIN g = DOMAIN m.next[n]
          /\ \A i \in DOMAIN m.next[n] :
               g[i] = IF c \in At(m, i) /\ u[i] = n THEN m.next[c][i] ELSE m.next[n][i]
      OBVIOUS
    <3> HIDE DEF g
    <3> QED
      BY <3>1, <3>2
  <2> QED
    BY <2>1, <2>2
<1>7. ASSUME NEW i \in 0..Levels PROVE At(r, i) = At(m, i) \ {c}
  <2>1. i \notin DOMAIN r.next[c]
    BY <1>6
  <2>2. \A n \in Nodes \ {c} : i \in DOMAIN r.next[n] <=> i \in DOMAIN m.next[n]
    BY <1>6
  <2> QED
    BY <2>1, <2>2 DEF At
<1>8. \A i \in 0..Levels : At(m, i) \subseteq Live(m)
  BY GoodFacts
<1>9. ASSUME NEW i \in 0..Levels, NEW n \in At(r, i) \cup {HeadNode}
      PROVE  Nearest(r, i, n, r.next[n][i])
  <2>1. n \in At(m, i) \cup {HeadNode} /\ n # c /\ (n # HeadNode => n \in Live(r))
    BY <1>1, <1>3, <1>7, <1>8
  <2>2. i \in DOMAIN m.next[n] /\ n \in (Nodes \cup {HeadNode}) \ {c}
    BY <2>1, PartTypes DEF At
  <2>3. r.next[n][i] = IF c \in At(m, i) /\ u[i] = n THEN m.next[c][i] ELSE m.next[n][i]
    BY <1>6, <2>2
  <2>4. Behind(r, i, n) = Behind(m, i, n) \ {c}
    <3>1. \A y \in At(m, i) \ {c} : y \in Live(r) /\ Key(r, y) = Key(m, y)
      BY <1>3, <1>4, <1>8
    <3>2. n # HeadNode => Key(r, n) = Key(m, n)
      BY <1>4, <2>1
    <3> QED
      BY <1>7, <3>1, <3>2 DEF Behind, Key
  <2>5. \A y \in Behind(r, i, n) : y \in Live(r) /\ y \in Live(m) /\ Key(r, y) = Key(m, y) /\ Key(m, y) \in Nat
    <3>1. \A y \in Behind(r, i, n) : y \in At(r, i)
      BY DEF Behind
    <3> QED
      BY ZenonT(40), <1>3, <1>4, <1>7, <1>8, <3>1, GoodFacts
  <2>6. Nearest(m, i, n, m.next[n][i])
    BY <2>1, GoodFacts
  <2>7. CASE c \in At(m, i) /\ u[i] = n
    <3>1. Nearest(m, i, c, m.next[c][i]) /\ r.next[n][i] = m.next[c][i]
      BY <2>3, <2>7, GoodFacts
    <3>2. Behind(m, i, n) = {y \in At(m, i) : ~(Key(m, y) < Key(m, c))}
      BY <1>1, <2>7, LastFacts
    <3>3. Behind(m, i, c) = Behind(m, i, n) \ {c}
      <4>1. \A y \in At(m, i) : Key(m, c) < Key(m, y) <=> ~(Key(m, y) < Key(m, c)) /\ y # c
        BY <1>1, <1>8, GoodFacts
      <4> QED
        BY <1>1, <3>2, <4>1 DEF Behind, Key
    <3>4. Behind(m, i, c) = Behind(r, i, n)
      BY <2>4, <3>3
    <3> QED
      BY ZenonT(40), <2>5, <3>1, <3>4 DEF Nearest, Key
  <2>8. CASE c \notin At(m, i)
    <3>1. Behind(r, i, n) = Behind(m, i, n) /\ r.next[n][i] = m.next[n][i]
      BY <2>3, <2>4, <2>8 DEF Behind
    <3> QED
      BY SMTT(40), <2>5, <2>6, <3>1 DEF Nearest, Key
  <2>9. CASE u[i] # n
    <3>1. m.next[n][i] # c
      BY <2>1, <2>9, OnlyLink
    <3>2. r.next[n][i] = m.next[n][i]
      BY <2>3, <2>9
    <3> QED
      BY SMTT(40), <2>4, <2>5, <2>6, <3>1, <3>2 DEF Nearest, Key
  <2> QED
    BY <2>7, <2>8, <2>9
<1>10. PICK s : s = m.next[c][0]
  OBVIOUS
<1>11. /\ s \in Live(m) \cup {TailNode} /\ s # c /\ u[0] \in Live(m) \cup {HeadNode} /\ u[0] # c
       /\ m.next[u[0]][0] = c /\ m.prev[c] = u[0]
  <2>1. Nearest(m, 0, c, s)
    BY <1>1, <1>10, GoodFacts
  <2>2. s \in Live(m) \cup {TailNode} /\ s # c
    BY <1>1, <2>1 DEF Nearest, Behind, Key
  <2>3. u[0] \in Live(m) \cup {HeadNode} /\ u[0] # c
    BY <1>1, LastFacts
  <2>4. m.next[u[0]][0] = c
    BY <1>1, LinkToIt
  <2>5. m.prev[c] = u[0]
    BY <2>3, <2>4 DEF Good, Mirrored
  <2> QED
    BY <2>2, <2>3, <2>4, <2>5
<1>12. /\ r.prev \in [Nodes \cup {TailNode} -> Nodes \cup {HeadNode, NoNode}]
       /\ r.prev[s] = u[0] /\ r.prev[c] = NoNode
       /\ \A n \in (Nodes \cup {TailNode}) \ {c, s} : r.prev[n] = m.prev[n]
  <2>1. r.prev = [m.prev EXCEPT ![s] = u[0], ![c] = NoNode]
    BY <1>10, <1>11
  <2>2. m.prev \in [Nodes \cup {TailNode} -> Nodes \cup {HeadNode, NoNode}]
    BY <1>1, PartTypes
  <2>3. /\ s \in Nodes \cup {TailNode} /\ c \in Nodes \cup {TailNode}
        /\ u[0] \in Nodes \cup {HeadNode} /\ s # c
    BY <1>1, <1>11, PartTypes
  <2>4. r.prev \in [Nodes \cup {TailNode} -> Nodes \cup {HeadNode, NoNode}]
    BY <2>1, <2>2, <2>3
  <2>5. r.prev[s] = u[0] /\ r.prev[c] = NoNode
    BY <2>1, <2>2, <2>3
  <2>6. \A n \in (Nodes \cup {TailNode}) \ {c, s} : r.prev[n] = m.prev[n]
    BY <2>1, <2>2
  <2> QED
    BY <2>4, <2>5, <2>6
<1>13. ASSUME NEW n \in Live(r) \cup {HeadNode} PROVE r.prev[r.next[n][0]] = n
  <2>1. /\ n \in Live(m) \cup {HeadNode} /\ n # c /\ n \in (Nodes \cup {HeadNode}) \ {c}
        /\ 0 \in DOMAIN m.next[n] /\ n \in At(m, 0) \cup {HeadNode}
    <3>1. n \in Live(m) \cup {HeadNode} /\ n # c
      BY <1>1, <1>3
    <3>2. 0 \in DOMAIN m.next[HeadNode]
      BY <1>1, PartTypes
    <3>3. n \in Live(m) => 0 \in DOMAIN m.next[n]
      BY <1>1 DEF At
    <3> QED
      BY <1>1, <3>1, <3>2, <3>3
  <2>2. r.next[n][0] = IF u[0] = n THEN s ELSE m.next[n][0]
    BY <1>1, <1>6, <1>10, <2>1
  <2>3. CASE u[0] = n
    BY <1>12, <2>2, <2>3
  <2>4. CASE u[0] # n
    <3>1. PICK t : t = m.next[n][0]
      OBVIOUS
    <3>2. m.prev[t] = n /\ m.prev[s] = c
      BY <1>10, <2>1, <3>1 DEF Good, Mirrored
    <3>3. Nearest(m, 0, n, t)
      BY <1>1, <2>1, <3>1, GoodFacts
    <3>4. t \in Live(m) \cup {TailNode}
      BY <1>1, <3>3 DEF Nearest, Behind
    <3>5. t # s /\ t # c
      BY <1>11, <2>1, <2>4, <3>2
    <3> QED
      BY <1>1, <1>12, <2>2, <2>4, <3>1, <3>2, <3>4, <3>5
  <2> QED
    BY <2>3, <2>4
<1>14. PICK S : S = {0} \cup {i \in 1..m.max : r.next[HeadNode][i] # NoNode}
  OBVIOUS
<1>15. m.max \in 0..Levels /\ r.max = Max(S)
  BY <1>14, PartTypes DEF Lowered
<1>16. r.max \in S /\ (\A i \in S : i <= r.max) /\ r.max \in 0..m.max /\ r.max \in 0..Levels
  <2>1. m.max \in Nat
    BY <1>15
  <2>2. S \in SUBSET Nat /\ S # {} /\ \A x \in S : x <= m.max
    BY <1>14, <2>1
  <2>3. Max(S) \in S /\ \A x \in S : x <= Max(S)
    BY <2>1, <2>2, MaxOf
  <2>4. r.max \in Nat /\ r.max <= m.max
    BY <1>15, <2>2, <2>3
  <2> QED
    BY <1>15, <2>3, <2>4
<1>17. \A i \in 1..m.max : i \in S <=> At(r, i) # {}
  <2> TAKE i \in 1..m.max
  <2>1. i \in 0..Levels /\ i # 0
    BY <1>15
  <2>2. Nearest(r, i, HeadNode, r.next[HeadNode][i])
    BY <1>9, <2>1
  <2>3. Behind(r, i, HeadNode) = At(r, i)
    BY DEF Behind
  <2>4. NoNode \notin At(r, i)
    BY DEF At
  <2> QED
    BY <1>14, <2>1, <2>2, <2>3, <2>4 DEF Nearest
<1>18. r.max = 0 \/ At(r, r.max) # {}
  BY <1>16, <1>17
<1>19. \A n \in Live(r) : \E j \in 0..r.max : DOMAIN r.next[n] = 0..j
  <2> TAKE n \in Live(r)
  <2>1. n \in Live(m) /\ n \in Nodes \ {c}
    BY <1>1, <1>4
  <2>2. PICK j \in 0..m.max : DOMAIN m.next[n] = 0..j
    BY <2>1, PartTypes
  <2>3. DOMAIN r.next[n] = 0..j
    BY <1>6, <2>1, <2>2
  <2>4. j # 0 => j \in 1..m.max /\ n \in At(r, j)
    BY <1>15, <2>1, <2>2, <2>3 DEF At
  <2>5. j <= r.max
    BY <1>16, <1>17, <2>4
  <2> QED
    BY <1>16, <2>3, <2>5
<1>20. DOMAIN r.next[HeadNode] = 0..Levels /\ \A n \in Nodes \ Live(r) : DOMAIN r.next[n] = {}
  <2>1. DOMAIN m.next[HeadNode] = 0..Levels /\ \A n \in Nodes \ Live(m) : DOMAIN m.next[n] = {}
    BY PartTypes
  <2> QED
    BY <1>1, <1>3, <1>6, <2>1
<1>21. r.size = Cardinality(Live(r))
  <2>1. Cardinality(Live(m) \ {c}) = Cardinality(Live(m)) - 1
    BY LiveFinite, FS_RemoveElement
  <2>2. r.size = m.size - 1 /\ m.size = Cardinality(Live(m))
    BY PartTypes
  <2> QED
    BY <1>3, <2>1, <2>2
<1>22. \A a, b \in Live(r) : Key(r, a) = Key(r, b) => a = b
  BY <1>4, GoodFacts
<1>23. Shaped(r)
  <2>1. \A n \in Nodes \cup {HeadNode} : r.next[n] = [i \in DOMAIN r.next[n] |-> r.next[n][i]]
    <3> TAKE n \in Nodes \cup {HeadNode}
    <3>1. CASE n = c
      <4>1. r.next[n] = <<>>
        BY <1>5, <3>1
      <4> QED
        BY <4>1
    <3>2. CASE n # c
      BY ZenonT(40), <1>5, <3>2
    <3> QED
      BY <3>1, <3>2
  <2>2. r = [next |-> r.next, prev |-> r.prev, item |-> r.item, max |-> r.max, size |-> r.size]
    OBVIOUS
  <2>3. r.next = [n \in Nodes \cup {HeadNode} |-> r.next[n]]
    BY <1>5
  <2> QED
    BY <1>2, <1>12, <1>16, <2>1, <2>2, <2>3 DEF Shaped
<1>24. Linking(r)
  BY <1>9, <1>13, <1>19, <1>20, <1>22 DEF Linking
<1>25. Good(r)
  BY <1>18, <1>21, <1>23, <1>24, MakeGood
<1> QED
  BY <1>3, <1>4, <1>25

(* erase takes out the levels the search led to, which are those.          *)
LEMMA ErasedGood ==
  ASSUME NEW m, Good(m), NEW k \in Nat
  PROVE  LET c == FindAtBottom(m, k)
         IN  /\ Good(Erased(m, k))
             /\ c = NoNode => Erased(m, k) = m
             /\ c # NoNode => /\ Live(Erased(m, k)) = Live(m) \ {c}
                              /\ \A n \in Live(Erased(m, k)) : Erased(m, k).item[n] = m.item[n]
<1> USE MapFacts
<1>1. PICK c : c = FindAtBottom(m, k)
  OBVIOUS
<1>2. CASE c = NoNode
  BY <1>1, <1>2 DEF Erased
<1>3. CASE c # NoNode
  <2>1. c \in Live(m) /\ Key(m, c) = k
    BY <1>1, <1>3, FindIs
  <2>2. PICK u : u = Updated(m, k)
    OBVIOUS
  <2>3. \A i \in 0..Levels : IsLast(m, i, Key(m, c), u[i])
    BY <2>1, <2>2, UpdatedIs
  <2>4. PICK levels : levels = {i \in 0..m.max : \A j \in 0..i : m.next[u[j]][j] = c}
    OBVIOUS
  <2>5. \A i \in 0..Levels : i \in levels <=> c \in At(m, i)
    <3> TAKE i \in 0..Levels
    <3>1. \A j \in 0..Levels : m.next[u[j]][j] = c <=> c \in At(m, j)
      BY <2>1, <2>3, LinkToIt
    <3>2. \A j \in 0..i : j \in 0..Levels /\ (c \in At(m, i) => c \in At(m, j))
      BY GoodFacts
    <3>3. c \in At(m, i) => i \in 0..m.max
      BY GoodFacts
    <3>4. i \in 0..i
      OBVIOUS
    <3> QED
      BY <2>4, <3>1, <3>2, <3>3, <3>4
  <2>6. PICK next : next = [n \in DOMAIN m.next |->
                 IF n = c THEN <<>> ELSE [i \in DOMAIN m.next[n] |->
                   IF i \in levels /\ u[i] = n THEN m.next[c][i] ELSE m.next[n][i]]]
    OBVIOUS
  <2>7. next = Unlinked(m, c, u)
    <3>1. \A n \in DOMAIN m.next : \A i \in DOMAIN m.next[n] : i \in 0..Levels
      <4> TAKE n \in DOMAIN m.next
      <4>1. n = HeadNode \/ n \in Live(m) \/ n \in Nodes \ Live(m)
        BY PartTypes
      <4>2. CASE n = HeadNode
        BY <4>2, PartTypes
      <4>3. CASE n \in Live(m)
        <5>1. PICK j \in 0..m.max : DOMAIN m.next[n] = 0..j
          BY <4>3, PartTypes
        <5> QED
          BY <5>1, PartTypes
      <4>4. CASE n \in Nodes \ Live(m)
        BY <4>4, PartTypes
      <4> QED
        BY <4>1, <4>2, <4>3, <4>4
    <3>2. \A n \in DOMAIN m.next : \A i \in DOMAIN m.next[n] : i \in levels <=> c \in At(m, i)
      BY <2>5, <3>1
    <3> QED
      BY <2>6, <3>2 DEF Unlinked
  <2>8. PICK r : r = Erased(m, k)
    OBVIOUS
  <2>9. r = [next |-> next,
             prev |-> [m.prev EXCEPT ![m.next[c][0]] = m.prev[c], ![c] = NoNode],
             item |-> [m.item EXCEPT ![c] = NoItem],
             max  |-> Lowered(next, m.max),
             size |-> m.size - 1]
    BY <1>1, <1>3, <2>2, <2>4, <2>6, <2>8 DEF Erased
  <2>10. Good(r) /\ Live(r) = Live(m) \ {c} /\ \A n \in Live(r) : r.item[n] = m.item[n]
    BY SMTT(40), <2>1, <2>3, <2>7, <2>9, EraseGood
  <2> QED
    BY <1>1, <1>3, <2>8, <2>10
<1> QED
  BY <1>2, <1>3

-----------------------------------------------------------------------------
(* The map with another value at a node. *)
Stored(m, n, v) == [m EXCEPT !.item[n].value = v]

(* An assignment changes a value only. *)
LEMMA StoredGood ==
  ASSUME NEW m, Good(m), NEW n \in Live(m), NEW v \in Values
  PROVE  LET r == Stored(m, n, v)
         IN  /\ Good(r) /\ Live(r) = Live(m) /\ r.item[n] = [key |-> Key(m, n), value |-> v]
             /\ \A x \in Live(m) \ {n} : r.item[x] = m.item[x]
<1> USE MapFacts
<1>0. PICK r : r = Stored(m, n, v)
  OBVIOUS
<1>1. n \in Nodes /\ m.item[n] \in [key : Keys, value : Values]
  <2>1. n \in Nodes /\ m.item[n] # NoItem
    BY DEF Live
  <2>2. m.item \in [Nodes -> [key : Keys, value : Values] \cup {NoItem}]
    BY PartTypes
  <2> QED
    BY <2>1, <2>2
<1>2. m \in Maps
  BY DEF Good
<1>3. /\ r.next = m.next /\ r.prev = m.prev /\ r.max = m.max /\ r.size = m.size
      /\ r.item = [m.item EXCEPT ![n] = [key |-> m.item[n].key, value |-> v]]
      /\ r = [next |-> r.next, prev |-> r.prev, item |-> r.item, max |-> r.max, size |-> r.size]
  BY <1>0, <1>1, <1>2 DEF Maps, Stored
<1>4. /\ r.item[n] = [key |-> Key(m, n), value |-> v]
      /\ \A x \in Nodes \ {n} : r.item[x] = m.item[x]
      /\ r.item \in [Nodes -> [key : Keys, value : Values] \cup {NoItem}]
  <2>1. m.item \in [Nodes -> [key : Keys, value : Values] \cup {NoItem}]
    BY PartTypes
  <2> QED
    BY <1>1, <1>3, <2>1 DEF Key
<1>5. Live(r) = Live(m)
  <2>1. r.item[n] # NoItem
    <3>1. r.item[n] \in [key : Keys, value : Values]
      BY <1>1, <1>4 DEF Key
    <3> QED
      BY <3>1, MapAssumption
  <2> QED
    BY <1>4, <2>1 DEF Live
<1>6. \A x \in Live(m) : Key(r, x) = Key(m, x) /\ (x # n => r.item[x] = m.item[x])
  BY <1>4 DEF Key, Live
<1>7. \A i : At(r, i) = At(m, i)
  BY <1>3 DEF At
<1>8. ASSUME NEW i \in 0..Levels, NEW x \in At(r, i) \cup {HeadNode}
      PROVE  Nearest(r, i, x, r.next[x][i])
  <2>1. x \in At(m, i) \cup {HeadNode} /\ At(m, i) \subseteq Live(m)
    BY <1>7, <1>8, GoodFacts
  <2>2. Nearest(m, i, x, m.next[x][i])
    BY <2>1, GoodFacts
  <2>3. Behind(r, i, x) = Behind(m, i, x)
    BY <1>6, <1>7, <2>1 DEF Behind, Key
  <2>4. \A y \in Behind(m, i, x) : Key(r, y) = Key(m, y)
    BY <1>6, <2>1 DEF Behind
  <2> QED
    BY <1>3, <2>2, <2>3, <2>4 DEF Nearest, Key
<1>9. Shaped(r)
  <2>1. /\ m.next = [x \in Nodes \cup {HeadNode} |-> m.next[x]]
        /\ \A x \in Nodes \cup {HeadNode} : m.next[x] \in Arrays
        /\ m.prev \in [Nodes \cup {TailNode} -> Nodes \cup {HeadNode, NoNode}]
        /\ m.max \in 0..Levels
    BY <1>2 DEF Maps
  <2>2. ASSUME NEW f \in Arrays PROVE f = [i \in DOMAIN f |-> f[i]]
    <3>1. CASE f = <<>>
      BY <3>1
    <3>2. ASSUME NEW j \in 0..Levels, f \in [0..j -> Nodes \cup {TailNode, NoNode}]
          PROVE  f = [i \in DOMAIN f |-> f[i]]
      BY <3>2
    <3> QED
      BY <3>1, <3>2 DEF Arrays
  <2> QED
    BY <1>3, <1>4, <2>1, <2>2 DEF Shaped
<1>10. Linking(r)
  <2>1. \A a, b \in Live(r) : Key(r, a) = Key(r, b) => a = b
    BY <1>5, <1>6, GoodFacts
  <2>2. \A x \in Live(r) \cup {HeadNode} : r.prev[r.next[x][0]] = x
    BY <1>3, <1>5 DEF Good, Mirrored
  <2>3. /\ DOMAIN r.next[HeadNode] = 0..Levels
        /\ \A x \in Live(r) : \E j \in 0..r.max : DOMAIN r.next[x] = 0..j
        /\ \A x \in Nodes \ Live(r) : DOMAIN r.next[x] = {}
    <3>1. /\ DOMAIN m.next[HeadNode] = 0..Levels
          /\ \A x \in Live(m) : \E j \in 0..m.max : DOMAIN m.next[x] = 0..j
          /\ \A x \in Nodes \ Live(m) : DOMAIN m.next[x] = {}
      BY PartTypes
    <3> QED
      BY <1>3, <1>5, <3>1
  <2> QED
    BY <1>8, <2>1, <2>2, <2>3 DEF Linking
<1>11. r.size = Cardinality(Live(r)) /\ (r.max = 0 \/ At(r, r.max) # {})
  <2>1. m.size = Cardinality(Live(m)) /\ (m.max = 0 \/ At(m, m.max) # {})
    BY PartTypes
  <2> QED
    BY <1>3, <1>5, <1>7, <2>1
<1>12. Good(r)
  BY <1>9, <1>10, <1>11, MakeGood
<1> QED
  BY <1>0, <1>4, <1>5, <1>6, <1>12

-----------------------------------------------------------------------------
(* The empty map, and the maps insert makes.                               *)

(* No node is live, and the head links to the ends. *)
LEMMA EmptyGood == Good(Empty) /\ Live(Empty) = {}
<1> USE MapFacts
<1>1. PICK r : r = Empty
  OBVIOUS
<1>2. /\ r.item = [n \in Nodes |-> NoItem] /\ r.max = 0 /\ r.size = 0
      /\ r.prev = [n \in Nodes \cup {TailNode} |-> IF n = TailNode THEN HeadNode ELSE NoNode]
      /\ r.next[HeadNode] = [i \in 0..Levels |-> IF i = 0 THEN TailNode ELSE NoNode]
      /\ \A n \in Nodes : r.next[n] = <<>>
      /\ r.next = [n \in Nodes \cup {HeadNode} |-> r.next[n]]
      /\ r = [next |-> r.next, prev |-> r.prev, item |-> r.item, max |-> r.max, size |-> r.size]
  BY <1>1 DEF Empty
<1>3. Live(r) = {}
  BY <1>2 DEF Live
<1>4. \A i \in 0..Levels : At(r, i) = {}
  <2>1. \A n \in Nodes : DOMAIN r.next[n] = {}
    BY <1>2
  <2> QED
    BY <2>1 DEF At
<1>5. Shaped(r)
  <2>1. \A n \in Nodes \cup {HeadNode} : r.next[n] = [i \in DOMAIN r.next[n] |-> r.next[n][i]]
    <3> TAKE n \in Nodes \cup {HeadNode}
    <3>1. CASE n = HeadNode
      BY <1>2, <3>1
    <3>2. CASE n # HeadNode
      <4>1. r.next[n] = <<>>
        BY <1>2, <3>2
      <4> QED
        BY <4>1
    <3> QED
      BY <3>1, <3>2
  <2>2. r.prev \in [Nodes \cup {TailNode} -> Nodes \cup {HeadNode, NoNode}]
    BY <1>2
  <2>3. r.item \in [Nodes -> [key : Keys, value : Values] \cup {NoItem}] /\ r.max \in 0..Levels
    BY <1>2
  <2>4. r.next = [n \in Nodes \cup {HeadNode} |-> r.next[n]]
    BY <1>2
  <2>5. r = [next |-> r.next, prev |-> r.prev, item |-> r.item, max |-> r.max, size |-> r.size]
    BY <1>2
  <2> QED
    BY <2>1, <2>2, <2>3, <2>4, <2>5 DEF Shaped
<1>6. Linking(r)
  <2>1. DOMAIN r.next[HeadNode] = 0..Levels /\ \A n \in Nodes : DOMAIN r.next[n] = {}
    BY <1>2
  <2>2. ASSUME NEW i \in 0..Levels, NEW n \in At(r, i) \cup {HeadNode}
        PROVE  Nearest(r, i, n, r.next[n][i])
    <3>1. n = HeadNode /\ Behind(r, i, n) = {}
      BY <1>4 DEF Behind
    <3>2. r.next[HeadNode][i] = IF i = 0 THEN TailNode ELSE NoNode
      BY <1>2
    <3> QED
      BY <3>1, <3>2 DEF Nearest
  <2>3. r.prev[r.next[HeadNode][0]] = HeadNode
    <3>1. r.next[HeadNode][0] = TailNode
      BY <1>2
    <3> QED
      BY <1>2, <3>1
  <2> QED
    BY <1>3, <2>1, <2>2, <2>3 DEF Linking
<1>7. r.size = Cardinality(Live(r)) /\ r.max = 0
  BY <1>2, <1>3, FS_EmptySet
<1>8. Good(r)
  BY <1>5, <1>6, <1>7, MakeGood
<1> QED
  BY <1>1, <1>3, <1>8

(* insert: a key that is there changes nothing, a new one takes one node.  *)
LEMMA InsertedGood ==
  ASSUME NEW m, Good(m), NEW k \in Keys, NEW v \in Values, NEW l \in 0..Levels
  PROVE  LET r == Inserted(m, k, v, l)
         IN  /\ Good(r) /\ Live(m) \subseteq Live(r) /\ \A n \in Live(m) : r.item[n] = m.item[n]
             /\ FindAtBottom(m, k) # NoNode => r = m
             /\ FindAtBottom(m, k) = NoNode => \E new \in Nodes \ Live(m) :
                  Live(r) = Live(m) \cup {new} /\ r.item[new] = [key |-> k, value |-> v]
<1> USE MapFacts
<1>0. PICK r : r = Inserted(m, k, v, l)
  OBVIOUS
<1>1. CASE FindAtBottom(m, k) # NoNode
  BY <1>1 DEF Inserted
<1>2. CASE FindAtBottom(m, k) = NoNode
  <2>1. k \in Nat /\ \A n \in Live(m) : Key(m, n) # k
    BY <1>2, FindIs
  <2>2. PICK u : u = Updated(m, k)
    OBVIOUS
  <2>3. \A i \in 0..Levels : IsLast(m, i, k, u[i])
    BY <2>1, <2>2, UpdatedIs
  <2>4. PICK new \in Nodes \ Live(m) : new = Min(Nodes \ Live(m))
    BY <2>1, FreeNode, MinNode
  <2>5. r = Grown(m, k, v, l, u, new)
    BY <1>0, <1>2, <2>2, <2>4 DEF Inserted, Grown
  <2>6. /\ Good(r) /\ Live(r) = Live(m) \cup {new} /\ r.item[new] = [key |-> k, value |-> v]
        /\ \A n \in Live(m) : r.item[n] = m.item[n]
    BY <2>1, <2>3, <2>5, InsertGood
  <2> QED
    BY <1>0, <1>2, <2>6
<1> QED
  BY <1>1, <1>2

-----------------------------------------------------------------------------
(* The contents.                                                           *)

(* The keys of the live nodes, each with the value of its node. *)
LEMMA ContentsAre ==
  ASSUME NEW m, Good(m)
  PROVE  /\ ContentsOf(m) = [k \in DOMAIN ContentsOf(m) |-> ContentsOf(m)[k]]
         /\ \A k : k \in DOMAIN ContentsOf(m) <=> \E n \in Live(m) : Key(m, n) = k
         /\ DOMAIN ContentsOf(m) \subseteq Keys
         /\ \A n \in Live(m) : ContentsOf(m)[Key(m, n)] = m.item[n].value
<1>1. DOMAIN ContentsOf(m) = {Key(m, n) : n \in Live(m)}
  BY DEF ContentsOf, Key
<1>11. \A k : k \in DOMAIN ContentsOf(m) <=> \E n \in Live(m) : Key(m, n) = k
  BY <1>1
<1>2. ContentsOf(m) = [k \in DOMAIN ContentsOf(m) |-> ContentsOf(m)[k]]
  BY DEF ContentsOf
<1>3. DOMAIN ContentsOf(m) \subseteq Keys
  BY <1>1, GoodFacts
<1>4. ASSUME NEW n \in Live(m) PROVE ContentsOf(m)[Key(m, n)] = m.item[n].value
  <2>1. PICK x : x = CHOOSE y \in Live(m) : m.item[y].key = Key(m, n)
    OBVIOUS
  <2>2. x \in Live(m) /\ Key(m, x) = Key(m, n)
    BY <2>1 DEF Key
  <2>3. x = n
    BY <2>2, GoodFacts
  <2>4. Key(m, n) \in {m.item[y].key : y \in Live(m)}
    BY DEF Key
  <2>5. ContentsOf(m)[Key(m, n)] = m.item[x].value
    BY <2>1, <2>4 DEF ContentsOf
  <2> QED
    BY <2>3, <2>5
<1> QED
  BY <1>11, <1>2, <1>3, <1>4

(* A search finds exactly the keys of the contents. *)
LEMMA FindsContents ==
  ASSUME NEW m, Good(m), NEW k \in Nat
  PROVE  FindAtBottom(m, k) # NoNode <=> k \in DOMAIN ContentsOf(m)
<1>1. k \in DOMAIN ContentsOf(m) <=> \E n \in Live(m) : Key(m, n) = k
  BY ContentsAre
<1> QED
  BY <1>1, FindIs

(* insert adds its key, and keeps what was there. *)
LEMMA InsertedContents ==
  ASSUME NEW m, Good(m), NEW k \in Keys, NEW v \in Values, NEW l \in 0..Levels
  PROVE  LET r == Inserted(m, k, v, l)
         IN  /\ DOMAIN ContentsOf(r) = DOMAIN ContentsOf(m) \cup {k}
             /\ \A j \in DOMAIN ContentsOf(m) : ContentsOf(r)[j] = ContentsOf(m)[j]
             /\ k \notin DOMAIN ContentsOf(m) => ContentsOf(r)[k] = v
<1> DEFINE r == Inserted(m, k, v, l)
<1> HIDE DEF r
<1>00. /\ Good(r) /\ \A n \in Live(m) : r.item[n] = m.item[n]
       /\ FindAtBottom(m, k) # NoNode => r = m
       /\ FindAtBottom(m, k) = NoNode => \E new \in Nodes \ Live(m) :
            Live(r) = Live(m) \cup {new} /\ r.item[new] = [key |-> k, value |-> v]
  BY InsertedGood DEF r
<1>0. k \in Nat
  BY MapFacts
<1>1. CASE FindAtBottom(m, k) # NoNode
  BY <1>0, <1>00, <1>1, FindsContents DEF r
<1>2. CASE FindAtBottom(m, k) = NoNode
  <2>1. Good(r) /\ \A n \in Live(m) : r.item[n] = m.item[n]
    BY <1>00
  <2>2. PICK new \in Nodes \ Live(m) :
          Live(r) = Live(m) \cup {new} /\ r.item[new] = [key |-> k, value |-> v]
    BY <1>00, <1>2
  <2>3. Key(r, new) = k /\ \A n \in Live(m) : Key(r, n) = Key(m, n)
    BY <2>1, <2>2 DEF Key
  <2>4. DOMAIN ContentsOf(r) = DOMAIN ContentsOf(m) \cup {k}
    <3>1. \A j : j \in DOMAIN ContentsOf(r) <=> \E n \in Live(r) : Key(r, n) = j
      BY <2>1, ContentsAre
    <3>2. \A j : j \in DOMAIN ContentsOf(m) <=> \E n \in Live(m) : Key(m, n) = j
      BY ContentsAre
    <3> QED
      BY SMTT(40), <2>2, <2>3, <3>1, <3>2
  <2>5. ContentsOf(r)[k] = v
    <3>1. ContentsOf(r)[Key(r, new)] = r.item[new].value
      BY <2>1, <2>2, ContentsAre
    <3> QED
      BY <2>2, <2>3, <3>1
  <2>6. ASSUME NEW j \in DOMAIN ContentsOf(m) PROVE ContentsOf(r)[j] = ContentsOf(m)[j]
    <3>1. PICK n \in Live(m) : Key(m, n) = j
      BY ContentsAre
    <3>2. ContentsOf(r)[Key(r, n)] = r.item[n].value
      BY <2>1, <2>2, ContentsAre
    <3>3. ContentsOf(m)[Key(m, n)] = m.item[n].value
      BY ContentsAre
    <3> QED
      BY <2>1, <2>3, <3>1, <3>2, <3>3
  <2> QED
    BY <2>4, <2>5, <2>6 DEF r
<1> QED
  BY <1>1, <1>2

(* erase takes its key out. *)
LEMMA ErasedContents ==
  ASSUME NEW m, Good(m), NEW k \in Nat
  PROVE  LET r == Erased(m, k)
         IN  /\ DOMAIN ContentsOf(r) = DOMAIN ContentsOf(m) \ {k}
             /\ \A j \in DOMAIN ContentsOf(r) : ContentsOf(r)[j] = ContentsOf(m)[j]
<1> DEFINE r == Erased(m, k)
<1> HIDE DEF r
<1>1. CASE FindAtBottom(m, k) = NoNode
  BY ZenonT(40), <1>1, ErasedGood, FindsContents DEF r
<1>2. CASE FindAtBottom(m, k) # NoNode
  <2>1. PICK c : c = FindAtBottom(m, k)
    OBVIOUS
  <2>2. c \in Live(m) /\ Key(m, c) = k
    BY <1>2, <2>1, FindIs
  <2>3. /\ Good(r) /\ Live(r) = Live(m) \ {c}
        /\ \A n \in Live(r) : r.item[n] = m.item[n]
    BY <1>2, <2>1, ErasedGood DEF r
  <2>4. \A n \in Live(r) : n \in Live(m) /\ Key(r, n) = Key(m, n) /\ Key(m, n) # k
    BY <2>2, <2>3, GoodFacts DEF Key
  <2>5. DOMAIN ContentsOf(r) = DOMAIN ContentsOf(m) \ {k}
    <3>1. \A j : j \in DOMAIN ContentsOf(r) <=> \E n \in Live(r) : Key(r, n) = j
      BY <2>3, ContentsAre
    <3>2. \A j : j \in DOMAIN ContentsOf(m) <=> \E n \in Live(m) : Key(m, n) = j
      BY ContentsAre
    <3> QED
      BY <2>2, <2>3, <2>4, <3>1, <3>2
  <2>6. ASSUME NEW j \in DOMAIN ContentsOf(r) PROVE ContentsOf(r)[j] = ContentsOf(m)[j]
    <3>1. PICK n \in Live(r) : Key(r, n) = j
      BY <2>3, ContentsAre
    <3>2. ContentsOf(r)[Key(r, n)] = r.item[n].value
      BY <2>3, ContentsAre
    <3>3. ContentsOf(m)[Key(m, n)] = m.item[n].value
      BY <2>4, ContentsAre
    <3> QED
      BY <2>3, <2>4, <3>1, <3>2, <3>3
  <2> QED
    BY <2>5, <2>6 DEF r
<1> QED
  BY <1>1, <1>2

(* An assignment through an iterator or a reference sets one value. *)
LEMMA StoredContents ==
  ASSUME NEW m, Good(m), NEW n \in Live(m), NEW v \in Values
  PROVE  LET r == Stored(m, n, v)
         IN  /\ DOMAIN ContentsOf(r) = DOMAIN ContentsOf(m)
             /\ ContentsOf(r)[Key(m, n)] = v
             /\ \A j \in DOMAIN ContentsOf(m) \ {Key(m, n)} : ContentsOf(r)[j] = ContentsOf(m)[j]
<1> DEFINE r == Stored(m, n, v)
<1> HIDE DEF r
<1>1. /\ Good(r) /\ Live(r) = Live(m) /\ r.item[n] = [key |-> Key(m, n), value |-> v]
      /\ \A x \in Live(m) \ {n} : r.item[x] = m.item[x]
  BY StoredGood DEF r
<1>2. \A x \in Live(m) : Key(r, x) = Key(m, x)
  BY <1>1 DEF Key
<1>3. DOMAIN ContentsOf(r) = DOMAIN ContentsOf(m)
  <2>1. \A j : j \in DOMAIN ContentsOf(r) <=> \E x \in Live(r) : Key(r, x) = j
    BY <1>1, ContentsAre
  <2>2. \A j : j \in DOMAIN ContentsOf(m) <=> \E x \in Live(m) : Key(m, x) = j
    BY ContentsAre
  <2> QED
    BY <1>1, <1>2, <2>1, <2>2
<1>4. ContentsOf(r)[Key(m, n)] = v
  <2>1. ContentsOf(r)[Key(r, n)] = r.item[n].value
    BY <1>1, ContentsAre
  <2> QED
    BY <1>1, <1>2, <2>1
<1>5. ASSUME NEW j \in DOMAIN ContentsOf(m) \ {Key(m, n)} PROVE ContentsOf(r)[j] = ContentsOf(m)[j]
  <2>1. PICK x \in Live(m) : Key(m, x) = j
    BY ContentsAre
  <2>2. ContentsOf(r)[Key(r, x)] = r.item[x].value
    BY <1>1, ContentsAre
  <2>3. ContentsOf(m)[Key(m, x)] = m.item[x].value
    BY ContentsAre
  <2> QED
    BY <1>1, <1>2, <2>1, <2>2, <2>3
<1> QED
  BY <1>3, <1>4, <1>5 DEF r

-----------------------------------------------------------------------------
(* Inserting all of another map or list.                                   *)

(* A finite set of naturals has a bound. *)
LEMMA Bounded ==
  ASSUME NEW T \in SUBSET Nat, IsFiniteSet(T)
  PROVE  \E b \in Nat : \A x \in T : x <= b
<1> DEFINE S == {n \in Nat : \A U \in SUBSET Nat : IsFiniteSet(U) /\ Cardinality(U) = n =>
                               \E b \in Nat : \A x \in U : x <= b}
<1>1. 0 \in S
  <2>1. ASSUME NEW U \in SUBSET Nat, IsFiniteSet(U), Cardinality(U) = 0
        PROVE  \E b \in Nat : \A x \in U : x <= b
    <3>1. U = {}
      BY <2>1, FS_EmptySet
    <3> QED
      BY <3>1
  <2> QED
    BY <2>1
<1>2. ASSUME NEW n \in S PROVE n + 1 \in S
  <2>1. ASSUME NEW U \in SUBSET Nat, IsFiniteSet(U), Cardinality(U) = n + 1
        PROVE  \E b \in Nat : \A x \in U : x <= b
    <3>1. U # {}
      BY <2>1, FS_EmptySet
    <3>2. PICK y \in U : TRUE
      BY <3>1
    <3>3. PICK V : V = U \ {y}
      OBVIOUS
    <3>4. V \in SUBSET Nat /\ IsFiniteSet(V) /\ Cardinality(V) = n
      <4>1. IsFiniteSet(V) /\ Cardinality(V) = Cardinality(U) - 1
        BY <2>1, <3>2, <3>3, FS_RemoveElement
      <4>2. n \in Nat
        OBVIOUS
      <4> QED
        BY <2>1, <3>3, <4>1, <4>2
    <3>5. PICK b \in Nat : \A x \in V : x <= b
      BY <1>2, <3>4
    <3>6. y \in Nat /\ b + y \in Nat /\ \A x \in U : x <= b + y
      <4>1. y \in Nat
        BY <3>2
      <4>2. \A x \in Nat : x <= b => x <= b + y
        BY <4>1
      <4>3. ASSUME NEW x \in U PROVE x <= b + y
        <5>1. CASE x = y
          BY <4>1, <5>1
        <5>2. CASE x # y
          BY <3>3, <3>5, <4>2, <5>2
        <5> QED
          BY <5>1, <5>2
      <4> QED
        BY <4>1, <4>3
    <3> QED
      BY <3>6
  <2> QED
    BY <2>1
<1> HIDE DEF S
<1>3. S = Nat
  <2>1. S \in SUBSET Nat
    BY DEF S
  <2> QED
    BY <1>1, <1>2, <2>1, NatInd
<1>4. Cardinality(T) \in S
  BY <1>3, FS_CardinalityType
<1> QED
  BY <1>4 DEF S

(* The body of the recursion of InsertedAll. *)
FilledBody(f, m, d, lv, N) ==
  [k \in 0..N |-> IF k = 0 THEN m
                  ELSE IF k - 1 \in DOMAIN d THEN Inserted(f[k - 1], k - 1, d[k - 1], lv[k - 1])
                  ELSE f[k - 1]]
LastKey == Max({0} \cup Keys)

(* It has a solution, which CHOOSE finds. *)
LEMMA FilledSolved ==
  ASSUME NEW m, NEW d, NEW lv, NEW N \in Nat
  PROVE  \E f : f = FilledBody(f, m, d, lv, N)
<1> DEFINE Step(x, j) == IF j \in DOMAIN d THEN Inserted(x, j, d[j], lv[j]) ELSE x
           S == {n \in Nat : \E f : f = [k \in 0..n |-> IF k = 0 THEN m ELSE Step(f[k - 1], k - 1)]}
<1>0. \A f, n : FilledBody(f, m, d, lv, n) = [k \in 0..n |-> IF k = 0 THEN m ELSE Step(f[k - 1], k - 1)]
  BY DEF FilledBody
<1> HIDE DEF Step
<1>1. 0 \in S
  <2> DEFINE f == [k \in 0..0 |-> m]
  <2>1. f = [k \in 0..0 |-> IF k = 0 THEN m ELSE Step(f[k - 1], k - 1)]
    OBVIOUS
  <2> QED
    BY <2>1
<1>2. ASSUME NEW n \in S PROVE n + 1 \in S
  <2>1. n \in Nat /\ n + 1 \in Nat
    OBVIOUS
  <2>2. PICK f : f = [k \in 0..n |-> IF k = 0 THEN m ELSE Step(f[k - 1], k - 1)]
    OBVIOUS
  <2>3. \A k \in 0..n : f[k] = IF k = 0 THEN m ELSE Step(f[k - 1], k - 1)
    BY <2>2
  <2> DEFINE g == [k \in 0..(n + 1) |-> IF k = n + 1 THEN Step(f[n], n) ELSE f[k]]
  <2>4. ASSUME NEW k \in 0..(n + 1)
        PROVE  g[k] = IF k = 0 THEN m ELSE Step(g[k - 1], k - 1)
    <3>1. CASE k = n + 1
      <4>1. k # 0 /\ k - 1 = n /\ n \in 0..(n + 1) /\ n # n + 1
        BY <2>1, <3>1
      <4>2. g[n] = f[n]
        BY <4>1
      <4>3. g[k] = Step(f[n], n)
        BY <3>1
      <4> QED
        BY <4>1, <4>2, <4>3
    <3>2. CASE k # n + 1
      <4>1. k \in 0..n /\ (k # 0 => k - 1 \in 0..(n + 1) /\ k - 1 # n + 1)
        BY <2>1, <3>2
      <4>2. g[k] = f[k] /\ (k # 0 => g[k - 1] = f[k - 1])
        BY <3>2, <4>1
      <4> QED
        BY <2>3, <4>1, <4>2
    <3> QED
      BY <3>1, <3>2
  <2>5. g = [k \in 0..(n + 1) |-> g[k]]
    OBVIOUS
  <2> HIDE DEF g
  <2>6. g = [k \in 0..(n + 1) |-> IF k = 0 THEN m ELSE Step(g[k - 1], k - 1)]
    BY <2>4, <2>5
  <2> QED
    BY <2>1, <2>6
<1>3. S \in SUBSET Nat
  OBVIOUS
<1>4. S = Nat
  <2> HIDE DEF S
  <2> QED
    BY <1>1, <1>2, <1>3, NatInd
<1>5. \E f : f = [k \in 0..N |-> IF k = 0 THEN m ELSE Step(f[k - 1], k - 1)]
  BY <1>4
<1> QED
  BY <1>5 DEF FilledBody, Step

(* The inserts of InsertedAll one by one; every key has its turn. *)
LEMMA InsertedAllIs ==
  ASSUME NEW m, NEW d, NEW lv
  PROVE  /\ LastKey \in Nat /\ \A k \in Keys : k <= LastKey
         /\ \E f : /\ f[0] = m /\ InsertedAll(m, d, lv) = f[LastKey + 1]
                   /\ \A k \in 0..LastKey :
                        f[k + 1] = IF k \in DOMAIN d THEN Inserted(f[k], k, d[k], lv[k]) ELSE f[k]
<1> USE MapFacts
<1>1. LastKey \in Nat /\ \A k \in Keys : k <= LastKey
  <2>1. PICK b \in Nat : \A x \in Keys : x <= b
    BY MapAssumption, Bounded
  <2>2. PICK S : S = {0} \cup Keys
    OBVIOUS
  <2>3. S \in SUBSET Nat /\ S # {} /\ \A x \in S : x <= b
    BY <2>1, <2>2
  <2>4. Max(S) \in S /\ \A x \in S : x <= Max(S)
    BY <2>3, MaxOf
  <2> QED
    BY <2>2, <2>3, <2>4 DEF LastKey
<1>2. PICK N \in Nat : N = LastKey + 1
  BY <1>1
<1>3. PICK f : f = CHOOSE g : g = FilledBody(g, m, d, lv, N)
  OBVIOUS
<1>4. InsertedAll(m, d, lv) = f[N]
  BY <1>2, <1>3 DEF InsertedAll, FilledBody, LastKey
<1>5. f = FilledBody(f, m, d, lv, N)
  BY <1>3, FilledSolved
<1>6. \A k \in 0..N : f[k] = IF k = 0 THEN m
                  ELSE IF k - 1 \in DOMAIN d THEN Inserted(f[k - 1], k - 1, d[k - 1], lv[k - 1])
                  ELSE f[k - 1]
  BY <1>5 DEF FilledBody
<1>7. f[0] = m
  BY <1>6
<1>8. ASSUME NEW k \in 0..LastKey
      PROVE  f[k + 1] = IF k \in DOMAIN d THEN Inserted(f[k], k, d[k], lv[k]) ELSE f[k]
  <2>1. k + 1 \in 0..N /\ k + 1 # 0 /\ (k + 1) - 1 = k
    BY <1>1, <1>2
  <2> QED
    BY <1>6, <2>1
<1> QED
  BY <1>1, <1>2, <1>4, <1>7, <1>8

(* r is m with what d has of other keys. *)
Fills(r, m, d) ==
  /\ Good(r) /\ Live(m) \subseteq Live(r)
  /\ DOMAIN ContentsOf(r) = DOMAIN ContentsOf(m) \cup DOMAIN d
  /\ \A n \in Live(m) : r.item[n] = m.item[n]
  /\ \A j \in DOMAIN ContentsOf(m) : ContentsOf(r)[j] = ContentsOf(m)[j]
  /\ \A j \in DOMAIN d \ DOMAIN ContentsOf(m) : ContentsOf(r)[j] = d[j]

(* They keep the map good, and what it has: the other adds its keys. *)
LEMMA InsertedAllGood ==
  ASSUME NEW m, Good(m), NEW d, DOMAIN d \subseteq Keys, d \in [DOMAIN d -> Values],
         NEW lv \in [DOMAIN d -> 0..Levels]
  PROVE  Fills(InsertedAll(m, d, lv), m, d)
<1> USE MapFacts
<1>0. PICK K \in SUBSET Keys : K = DOMAIN d /\ d \in [K -> Values]
  OBVIOUS
<1>1. PICK N \in Nat : N = LastKey /\ \A k \in Keys : k <= N
  BY InsertedAllIs
<1>2. PICK f : /\ f[0] = m /\ InsertedAll(m, d, lv) = f[N + 1]
               /\ \A k \in 0..N :
                    f[k + 1] = IF k \in DOMAIN d THEN Inserted(f[k], k, d[k], lv[k]) ELSE f[k]
  BY <1>1, InsertedAllIs
<1> DEFINE P(x, k) ==
             /\ Good(x) /\ Live(m) \subseteq Live(x)
             /\ DOMAIN ContentsOf(x) = DOMAIN ContentsOf(m) \cup {j \in K : j < k}
             /\ \A n \in Live(m) : x.item[n] = m.item[n]
             /\ \A j \in DOMAIN ContentsOf(m) : ContentsOf(x)[j] = ContentsOf(m)[j]
             /\ \A j \in K \ DOMAIN ContentsOf(m) : j < k => ContentsOf(x)[j] = d[j]
           S == {k \in Nat : k <= N + 1 => P(f[k], k)}
<1>3. 0 \in S
  <2>1. \A j \in K : ~(j < 0)
    OBVIOUS
  <2>2. P(m, 0)
    BY <2>1
  <2> HIDE DEF P
  <2> QED
    BY <1>2, <2>2
<1>4. ASSUME NEW k \in S PROVE k + 1 \in S
  <2> SUFFICES ASSUME k + 1 <= N + 1 PROVE P(f[k + 1], k + 1)
    OBVIOUS
  <2>1. k \in Nat /\ k \in 0..N /\ k <= N + 1
    OBVIOUS
  <2>2. PICK x : x = f[k]
    OBVIOUS
  <2>3. PICK y : y = f[k + 1]
    OBVIOUS
  <2>4. P(x, k)
    BY <2>1, <2>2
  <2>5. \A j \in K : j < k + 1 <=> j < k \/ j = k
    BY <2>1
  <2>6. \A j \in K : ~(j < k) \/ j # k
    BY <2>1
  <2>7. CASE k \in K
    <3>1. d[k] \in Values /\ lv[k] \in 0..Levels /\ k \in Keys
      BY <1>0, <2>7
    <3>2. y = Inserted(x, k, d[k], lv[k])
      BY <1>0, <1>2, <2>1, <2>2, <2>3, <2>7
    <3>3. Good(y) /\ Live(x) \subseteq Live(y) /\ \A n \in Live(x) : y.item[n] = x.item[n]
      <4>1. Good(x)
        BY <2>4
      <4> HIDE DEF P
      <4>2. PICK v \in Values, l \in 0..Levels : v = d[k] /\ l = lv[k]
        BY <3>1
      <4>3. y = Inserted(x, k, v, l) /\ k \in Keys
        BY <3>1, <3>2, <4>2
      <4> HIDE DEF S
      <4> QED
        <5> DEFINE r == Inserted(x, k, v, l)
        <5>1. Good(r) /\ Live(x) \subseteq Live(r) /\ \A n \in Live(x) : r.item[n] = x.item[n]
          BY <4>1, <4>3, InsertedGood
        <5> QED
          BY <4>3, <5>1
    <3>4. /\ DOMAIN ContentsOf(y) = DOMAIN ContentsOf(x) \cup {k}
          /\ \A j \in DOMAIN ContentsOf(x) : ContentsOf(y)[j] = ContentsOf(x)[j]
          /\ k \notin DOMAIN ContentsOf(x) => ContentsOf(y)[k] = d[k]
      <4>1. Good(x) /\ k \in Keys
        BY <2>4, <3>1
      <4> HIDE DEF P, S
      <4>2. PICK v \in Values, l \in 0..Levels : v = d[k] /\ l = lv[k]
        BY <3>1
      <4>3. /\ DOMAIN ContentsOf(Inserted(x, k, v, l)) = DOMAIN ContentsOf(x) \cup {k}
            /\ \A j \in DOMAIN ContentsOf(x) : ContentsOf(Inserted(x, k, v, l))[j] = ContentsOf(x)[j]
            /\ k \notin DOMAIN ContentsOf(x) => ContentsOf(Inserted(x, k, v, l))[k] = v
        BY <4>1, InsertedContents
      <4> QED
        BY <3>2, <4>2, <4>3
    <3>5. DOMAIN ContentsOf(y) = DOMAIN ContentsOf(m) \cup {j \in K : j < k + 1}
      BY <2>4, <2>5, <2>7, <3>4
    <3>6. ASSUME NEW j \in K \ DOMAIN ContentsOf(m), j < k + 1 PROVE ContentsOf(y)[j] = d[j]
      <4>1. CASE j = k
        <5>1. j \notin DOMAIN ContentsOf(x)
          BY <2>4, <2>6, <3>6, <4>1
        <5> QED
          BY <3>4, <4>1, <5>1
      <4>2. CASE j # k
        <5>1. j < k
          BY <2>5, <3>6, <4>2
        <5>2. j \in DOMAIN ContentsOf(x) /\ ContentsOf(x)[j] = d[j]
          BY <2>4, <3>6, <5>1
        <5> QED
          BY <3>4, <5>2
      <4> QED
        BY <4>1, <4>2
    <3> QED
      BY <2>3, <2>4, <3>3, <3>4, <3>5, <3>6
  <2>8. CASE k \notin K
    <3>1. y = x
      BY <1>0, <1>2, <2>1, <2>2, <2>3, <2>8
    <3>2. \A j \in K : j < k + 1 <=> j < k
      BY <2>5, <2>8
    <3> QED
      BY <2>3, <2>4, <3>1, <3>2
  <2> QED
    BY <2>7, <2>8
<1>5. S = Nat
  <2>1. S \in SUBSET Nat
    OBVIOUS
  <2> HIDE DEF S
  <2> QED
    BY <1>3, <1>4, <2>1, NatInd
<1>6. P(f[N + 1], N + 1)
  <2>1. N + 1 \in Nat /\ N + 1 <= N + 1
    OBVIOUS
  <2> HIDE DEF P
  <2>2. N + 1 \in S
    <3> HIDE DEF S
    <3> QED
      BY <1>5, <2>1
  <2> QED
    BY <2>1, <2>2
<1>7. \A j \in K : j < N + 1
  BY <1>1
<1> QED
  BY <1>0, <1>2, <1>6, <1>7 DEF Fills

-----------------------------------------------------------------------------
(* The iterator.                                                           *)

(* The node behind a node, on the bottom level: the nearest, or the tail. *)
LEMMA NextIs ==
  ASSUME NEW m, Good(m), NEW n \in Live(m) \cup {HeadNode}
  PROVE  LET s == m.next[n][0]
             B == {x \in Live(m) : n = HeadNode \/ Key(m, n) < Key(m, x)}
         IN  /\ B = {} => s = TailNode
             /\ B # {} => s \in B /\ \A x \in B : Key(m, s) <= Key(m, x)
             /\ s \in Live(m) \cup {TailNode} /\ s # n
<1> USE MapFacts
<1>1. 0 \in 0..Levels /\ At(m, 0) = Live(m)
  BY GoodFacts
<1>2. Nearest(m, 0, n, m.next[n][0])
  BY <1>1, GoodFacts
<1>3. Behind(m, 0, n) = {x \in Live(m) : n = HeadNode \/ Key(m, n) < Key(m, x)}
  BY <1>1 DEF Behind, Key
<1>4. HeadNode \notin Live(m) /\ TailNode \notin Live(m) /\ \A x \in Live(m) : Key(m, x) \in Nat
  BY GoodFacts
<1> QED
  BY <1>2, <1>3, <1>4 DEF Nearest, Key

(* The link back of a node is to the last node under its key, and that of  *)
(* the tail to the last of all.                                            *)
LEMMA PrevIs ==
  ASSUME NEW m, Good(m)
  PROVE  /\ \A n \in Live(m) : IsLast(m, 0, Key(m, n), m.prev[n])
         /\ IsLast(m, 0, LastKey + 1, m.prev[TailNode])
<1> USE MapFacts
<1>1. 0 \in 0..Levels /\ At(m, 0) = Live(m)
  BY GoodFacts
<1>2. ASSUME NEW n \in Live(m) PROVE IsLast(m, 0, Key(m, n), m.prev[n])
  <2>1. Key(m, n) \in Nat
    BY GoodFacts
  <2>2. PICK x : IsLast(m, 0, Key(m, n), x)
    BY <1>1, <2>1, LastExists
  <2>3. m.next[x][0] = n
    BY <1>1, <2>2, LinkToIt
  <2>4. x \in Live(m) \cup {HeadNode}
    BY <1>1, <2>1, <2>2, LastFacts
  <2>5. m.prev[n] = x
    BY <2>3, <2>4 DEF Good, Mirrored
  <2> QED
    BY <2>2, <2>5
<1>3. IsLast(m, 0, LastKey + 1, m.prev[TailNode])
  <2>1. LastKey \in Nat /\ LastKey + 1 \in Nat /\ \A k \in Keys : k < LastKey + 1
    BY InsertedAllIs
  <2>2. PICK k \in Nat : k = LastKey + 1
    BY <2>1
  <2>3. PICK x : IsLast(m, 0, k, x)
    BY <1>1, LastExists
  <2>4. \A y \in Live(m) : Key(m, y) < k
    BY <2>1, <2>2, GoodFacts
  <2>5. x \in Live(m) \cup {HeadNode} /\ Nearest(m, 0, x, m.next[x][0])
        /\ Behind(m, 0, x) = {y \in Live(m) : ~(Key(m, y) < k)}
    BY <1>1, <2>3, LastFacts
  <2>6. m.next[x][0] = TailNode
    BY <2>4, <2>5 DEF Nearest
  <2>7. m.prev[TailNode] = x
    BY <2>5, <2>6 DEF Good, Mirrored
  <2> QED
    BY <2>2, <2>3, <2>7
<1> QED
  BY <1>2, <1>3

(* So the node before a node is the nearest, or the head. *)
LEMMA PrevFacts ==
  ASSUME NEW m, Good(m), NEW n \in Live(m) \cup {TailNode}
  PROVE  LET p == m.prev[n]
             B == {x \in Live(m) : n = TailNode \/ Key(m, x) < Key(m, n)}
         IN  /\ B = {} => p = HeadNode
             /\ B # {} => p \in B /\ \A x \in B : Key(m, x) <= Key(m, p)
             /\ p \in Live(m) \cup {HeadNode}
<1> USE MapFacts
<1>1. At(m, 0) = Live(m) /\ TailNode \notin Live(m)
  BY GoodFacts
<1>2. CASE n = TailNode
  <2>1. LastKey \in Nat /\ \A k \in Keys : k < LastKey + 1
    BY InsertedAllIs
  <2>2. \A x \in Live(m) : Key(m, x) < LastKey + 1
    BY <2>1, GoodFacts
  <2>3. Under(m, 0, LastKey + 1) = Live(m)
    BY <1>1, <2>2 DEF Under
  <2>4. IsLast(m, 0, LastKey + 1, m.prev[n])
    BY <1>2, PrevIs
  <2> QED
    BY <1>2, <2>3, <2>4 DEF IsLast
<1>3. CASE n # TailNode
  <2>1. IsLast(m, 0, Key(m, n), m.prev[n])
    BY <1>3, PrevIs
  <2>2. Under(m, 0, Key(m, n)) = {x \in Live(m) : n = TailNode \/ Key(m, x) < Key(m, n)}
    BY <1>1, <1>3 DEF Under
  <2> QED
    BY <2>1, <2>2 DEF IsLast
<1> QED
  BY <1>2, <1>3

-----------------------------------------------------------------------------
(* The inductive invariant: a good map, and the iterator on a node of it   *)
(* or given up.                                                            *)
Iterators(m) == Live(m) \cup {HeadNode, TailNode, Dangling}
MapInv == Good(map) /\ it \in Iterators(map)

(* It holds at first. *)
LEMMA InitInv == ASSUME Init PROVE MapInv
BY EmptyGood DEF Init, MapInv, Iterators

(* insert leaves the iterator on the key it was asked for. *)
LEMMA InsertInv ==
  ASSUME MapInv, NEW k \in Keys, NEW v \in Values, Insert(k, v)
  PROVE  MapInv' /\ it' \in Live(map') /\ Key(map', it') = k
<1>0. PICK l \in 0..Levels : map' = Inserted(map, k, v, l)
  BY DEF Insert
<1>1. PICK m, mp : m = map /\ mp = map' /\ mp = Inserted(m, k, v, l)
  BY <1>0
<1>2. k \in Nat /\ Good(m)
  BY <1>1, MapFacts DEF MapInv
<1>3. Good(mp) /\ k \in DOMAIN ContentsOf(mp)
  <2>1. Good(Inserted(m, k, v, l))
    BY <1>2, InsertedGood
  <2>2. DOMAIN ContentsOf(Inserted(m, k, v, l)) = DOMAIN ContentsOf(m) \cup {k}
    BY <1>2, InsertedContents
  <2> QED
    BY <1>1, <2>1, <2>2
<1>4. FindAtBottom(mp, k) \in Live(mp) /\ Key(mp, FindAtBottom(mp, k)) = k
  BY <1>2, <1>3, FindIs, FindsContents
<1>5. it' = FindAtBottom(mp, k)
  BY <1>1 DEF Insert
<1> QED
  BY <1>1, <1>3, <1>4, <1>5 DEF MapInv, Iterators

(* operator[] leaves the iterator alone. *)
LEMMA IndexInv ==
  ASSUME MapInv, NEW k \in Keys, Index(k)
  PROVE  MapInv'
<1>0. PICK l \in 0..Levels : map' = Inserted(map, k, Default, l)
  BY DEF Index
<1>1. PICK m, mp : m = map /\ mp = map' /\ mp = Inserted(m, k, Default, l)
  BY <1>0
<1>2. Good(m) /\ Default \in Values
  BY <1>1, MapFacts DEF MapInv
<1>3. Good(mp) /\ Live(m) \subseteq Live(mp)
  <2>1. Good(Inserted(m, k, Default, l)) /\ Live(m) \subseteq Live(Inserted(m, k, Default, l))
    BY <1>2, InsertedGood
  <2> QED
    BY <1>1, <2>1
<1> QED
  BY <1>1, <1>3 DEF MapInv, Iterators, Index

(* operator[] and an assignment through what it returned set one value. *)
LEMMA StoreInv ==
  ASSUME MapInv, NEW k \in Keys, NEW v \in Values, Store(k, v)
  PROVE  /\ MapInv'
         /\ \E l \in 0..Levels : \E n : LET m == Inserted(map, k, Default, l)
                                    IN  Good(m) /\ n \in Live(m) /\ Key(m, n) = k /\ map' = Stored(m, n, v)
<1>1. PICK l \in 0..Levels : LET m == Inserted(map, k, Default, l)
                             IN  map' = [m EXCEPT !.item[FindAtBottom(m, k)].value = v]
  BY DEF Store
<1>2. PICK m, r : m = map /\ r = Inserted(m, k, Default, l)
  OBVIOUS
<1>3. PICK n : n = FindAtBottom(r, k)
  OBVIOUS
<1>4. map' = Stored(r, n, v)
  BY <1>1, <1>2, <1>3, Zenon DEF Stored
<1>5. Good(m) /\ Default \in Values /\ k \in Nat
  BY <1>2, MapFacts DEF MapInv
<1>6. Good(r) /\ Live(m) \subseteq Live(r) /\ k \in DOMAIN ContentsOf(r)
  <2> DEFINE x == Inserted(m, k, Default, l)
  <2>1. Good(x) /\ Live(m) \subseteq Live(x)
    BY <1>5, InsertedGood
  <2>2. DOMAIN ContentsOf(x) = DOMAIN ContentsOf(m) \cup {k}
    BY <1>5, InsertedContents
  <2> QED
    BY <1>2, <2>1, <2>2
<1>7. n \in Live(r) /\ Key(r, n) = k
  BY <1>3, <1>5, <1>6, FindIs, FindsContents
<1>8. PICK mp : mp = map'
  OBVIOUS
<1>9. Good(mp) /\ Live(mp) = Live(r)
  BY <1>4, <1>6, <1>7, <1>8, StoredGood
<1>10. MapInv'
  BY <1>2, <1>6, <1>8, <1>9 DEF MapInv, Iterators, Store
<1> QED
  BY <1>2, <1>4, <1>6, <1>7, <1>10

(* What is inserted or assigned maps keys to values. *)
LEMMA OthersType == ASSUME NEW d \in Others PROVE DOMAIN d \subseteq Keys /\ d \in [DOMAIN d -> Values]
BY MapAssumption

(* A range inserted, or assigned. *)
LEMMA RangeInv ==
  ASSUME MapInv, NEW d \in Others, InsertRange(d) \/ Assign(d)
  PROVE  MapInv'
<1>1. DOMAIN d \subseteq Keys /\ d \in [DOMAIN d -> Values]
  BY OthersType
<1>2. CASE InsertRange(d)
  <2>0. PICK lv \in [DOMAIN d -> 0..Levels] : map' = InsertedAll(map, d, lv)
    BY <1>2 DEF InsertRange
  <2>1. PICK m, mp : m = map /\ mp = map' /\ mp = InsertedAll(m, d, lv)
    BY <2>0
  <2>2. Good(m)
    BY <2>1 DEF MapInv
  <2>3. Good(mp) /\ Live(m) \subseteq Live(mp)
    <3>1. Good(InsertedAll(m, d, lv)) /\ Live(m) \subseteq Live(InsertedAll(m, d, lv))
      BY <1>1, <2>2, InsertedAllGood DEF Fills
    <3> QED
      BY <2>1, <3>1
  <2> QED
    BY <1>2, <2>1, <2>3 DEF MapInv, Iterators, InsertRange
<1>3. CASE Assign(d)
  <2>0. PICK lv \in [DOMAIN d -> 0..Levels] : map' = InsertedAll(Empty, d, lv)
    BY <1>3 DEF Assign
  <2>1. PICK mp : mp = map' /\ mp = InsertedAll(Empty, d, lv)
    BY <2>0
  <2>2. Good(mp)
    <3>1. Good(InsertedAll(Empty, d, lv))
      BY <1>1, EmptyGood, InsertedAllGood DEF Fills
    <3> QED
      BY <2>1, <3>1
  <2> QED
    BY <1>3, <2>1, <2>2 DEF MapInv, Iterators, Assign
<1> QED
  BY <1>2, <1>3

(* erase by key gives up an iterator on the node, and erase by iterator    *)
(* has moved it on.                                                        *)
LEMMA EraseKeyInv ==
  ASSUME MapInv, NEW k \in Keys, EraseKey(k)
  PROVE  MapInv'
<1>1. PICK m, mp : m = map /\ mp = map' /\ mp = Erased(m, k)
  BY DEF EraseKey
<1>2. k \in Nat /\ Good(m)
  BY <1>1, MapFacts DEF MapInv
<1>3. Good(mp) /\ Live(m) \ {FindAtBottom(m, k)} \subseteq Live(mp)
  <2>1. CASE FindAtBottom(m, k) = NoNode
    BY <1>1, <1>2, <2>1, ErasedGood
  <2>2. CASE FindAtBottom(m, k) # NoNode
    BY <1>1, <1>2, <2>2, ErasedGood
  <2> QED
    BY <2>1, <2>2
<1> QED
  BY <1>1, <1>3 DEF MapInv, Iterators, EraseKey

(* erase by iterator erases the node it was on. *)
LEMMA EraseIterInv ==
  ASSUME MapInv, EraseIter
  PROVE  MapInv' /\ it \in Live(map) /\ map' = Erased(map, Key(map, it))
<1>1. PICK m, mp, i : m = map /\ mp = map' /\ i = it /\ mp = Erased(m, Key(m, i))
  BY DEF EraseIter, Key
<1>2. i \in Live(m) /\ Good(m)
  BY <1>1, MapFacts DEF MapInv, Iterators, EraseIter
<1>3. Key(m, i) \in Nat
  BY <1>2, GoodFacts
<1>4. FindAtBottom(m, Key(m, i)) = i
  <2>1. FindAtBottom(m, Key(m, i)) # NoNode
    BY <1>2, <1>3, FindIs
  <2>2. FindAtBottom(m, Key(m, i)) \in Live(m) /\ Key(m, FindAtBottom(m, Key(m, i))) = Key(m, i)
    BY <1>2, <1>3, <2>1, FindIs
  <2> QED
    BY <1>2, <2>2, GoodFacts
<1>5. i # NoNode
  BY <1>2, MapFacts DEF Live
<1>6. Good(mp) /\ Live(mp) = Live(m) \ {i}
  BY <1>1, <1>2, <1>3, <1>4, <1>5, ErasedGood
<1>7. m.next[i][0] \in Live(m) \cup {TailNode} /\ m.next[i][0] # i
  BY <1>2, NextIs
<1>8. it' = m.next[i][0]
  BY <1>1 DEF EraseIter
<1> QED
  BY <1>1, <1>2, <1>6, <1>7, <1>8 DEF MapInv, Iterators

(* The moves of the iterator. *)
LEMMA MoveInv ==
  ASSUME MapInv,
         (\E k \in Keys : Find(k)) \/ Begin \/ ReverseBegin \/ Increment \/ Decrement
  PROVE  MapInv'
<1> USE MapFacts
<1>1. PICK m, i : m = map /\ i = it
  OBVIOUS
<1>2. Good(m) /\ i \in Iterators(m) /\ map' = m
  BY <1>1 DEF MapInv, Find, Begin, ReverseBegin, Increment, Decrement
<1>3. ASSUME NEW k \in Keys, Find(k) PROVE it' \in Live(m) \cup {TailNode}
  <2>1. k \in Nat
    OBVIOUS
  <2>2. FindAtBottom(m, k) # NoNode => FindAtBottom(m, k) \in Live(m)
    BY <1>2, <2>1, FindIs
  <2> QED
    BY <1>1, <1>3, <2>2 DEF Find
<1>4. \A n \in Live(m) \cup {HeadNode} : m.next[n][0] \in Live(m) \cup {TailNode}
  BY <1>2, NextIs
<1>5. \A n \in Live(m) \cup {TailNode} : m.prev[n] \in Live(m) \cup {HeadNode}
  BY <1>2, PrevFacts
<1>6. it' \in Live(m) \cup {HeadNode, TailNode}
  BY <1>1, <1>2, <1>3, <1>4, <1>5 DEF Iterators, Begin, ReverseBegin, Increment, Decrement
<1> QED
  BY <1>2, <1>6 DEF MapInv, Iterators

(* Every step keeps it. *)
LEMMA NextInv == ASSUME MapInv, [Next]_vars PROVE MapInv'
<1>1. ASSUME NEW k \in Keys, Index(k) \/ EraseKey(k) \/ Find(k) PROVE MapInv'
  BY <1>1, IndexInv, EraseKeyInv, MoveInv
<1>2. ASSUME NEW k \in Keys, NEW v \in Values, Insert(k, v) \/ Store(k, v) PROVE MapInv'
  BY <1>2, InsertInv, StoreInv
<1>3. ASSUME NEW d \in Others, InsertRange(d) \/ Assign(d) PROVE MapInv'
  BY <1>3, RangeInv
<1>4. CASE EraseIter
  BY <1>4, EraseIterInv
<1>5. CASE Clear
  BY <1>5, EmptyGood DEF Clear, MapInv, Iterators
<1>6. CASE Begin \/ ReverseBegin \/ Increment \/ Decrement
  BY <1>6, MoveInv
<1>7. CASE UNCHANGED vars
  BY <1>7 DEF vars, MapInv
<1> QED
  BY <1>1, <1>2, <1>3, <1>4, <1>5, <1>6, <1>7 DEF Next, Change, Move

(* The inductive invariant holds.  *)
THEOREM MapInvHolds == Spec => []MapInv
<1>1. Init => MapInv
  BY InitInv
<1>2. MapInv /\ [Next]_vars => MapInv'
  BY NextInv
<1> QED
  BY <1>1, <1>2, PTL DEF Spec

(* The type of the links, and an iterator that is not given up on a node   *)
(* of the map, whatever is inserted and erased around it (map.h:288, :339, *)
(* :396).                                                                  *)
THEOREM TypeCorrect == Spec => []TypeOK
<1>1. Init => alive \in BOOLEAN
  BY DEF Init
<1>2. alive \in BOOLEAN /\ [Next]_vars => (alive \in BOOLEAN)'
  BY DEF Next, EraseKey, vars
<1>3. MapInv /\ alive \in BOOLEAN => TypeOK
  BY DEF MapInv, Iterators, Good, TypeOK
<1> QED
  BY <1>1, <1>2, <1>3, MapInvHolds, PTL DEF Spec

(* Each level is the ordered list of exactly the live nodes that reach it, *)
(* whatever levels random_level draws (map.h:339 and :396).                *)
THEOREM LevelsSoundHolds == Spec => []LevelsSound
<1>1. MapInv => LevelsSound
  BY DEF MapInv, Good, LevelsSound
<1> QED
  BY <1>1, MapInvHolds, PTL

(* -- visits what ++ does (map.h:373-379 and :422-428).                    *)
THEOREM BackLinksHolds == Spec => []BackLinks
<1>1. MapInv => BackLinks
  BY DEF MapInv, Good, BackLinks
<1> QED
  BY <1>1, MapInvHolds, PTL

-----------------------------------------------------------------------------
(* The refinement of OrderedMap.                                           *)

PlaceOf(m, i) ==
  CASE i = TailNode -> End [] i = HeadNode -> Rend
    [] i \in Live(m) -> Key(m, i) [] OTHER -> Dangling

(* Where the iterator is, to the dictionary. *)
LEMMA PlaceIs ==
  ASSUME NEW m, Good(m)
  PROVE  /\ PlaceOf(m, TailNode) = End /\ PlaceOf(m, HeadNode) = Rend
         /\ \A i \in Live(m) : /\ PlaceOf(m, i) = Key(m, i) /\ Key(m, i) \in Keys
                               /\ Key(m, i) # End /\ Key(m, i) # Rend
                               /\ i # TailNode /\ i # HeadNode
         /\ \A i \in Live(m) : Key(m, i) # Dangling /\ i # Dangling
         /\ End # Rend /\ PlaceOf(m, Dangling) = Dangling
         /\ Dangling \notin {End, Rend}
<1> USE MapFacts
<1>1. /\ End # Rend /\ End \notin Keys /\ Rend \notin Keys
      /\ Dangling \notin Keys \cup {End, Rend}
  BY MapAssumption
<1>2. \A i \in Live(m) : i \in Nodes /\ Key(m, i) \in Keys
  BY GoodFacts
<1>3. PlaceOf(m, TailNode) = End /\ PlaceOf(m, HeadNode) = Rend
  <2>1. TailNode \notin Live(m) /\ HeadNode \notin Live(m)
    BY DEF Live
  <2> QED
    BY <2>1 DEF PlaceOf
<1>4. ASSUME NEW i \in Live(m) PROVE PlaceOf(m, i) = Key(m, i)
  <2>1. i # TailNode /\ i # HeadNode
    BY <1>2
  <2> QED
    BY <2>1 DEF PlaceOf
<1>5. PlaceOf(m, Dangling) = Dangling
  BY <1>2 DEF PlaceOf
<1> QED
  BY <1>1, <1>2, <1>3, <1>4, <1>5

(* A node that stays in the map with its item keeps its place. *)
LEMMA PlaceKept ==
  ASSUME NEW m, Good(m), NEW r, Good(r), NEW i \in Iterators(m),
         i \in Live(m) => i \in Live(r) /\ Key(r, i) = Key(m, i)
  PROVE  PlaceOf(r, i) = PlaceOf(m, i)
BY PlaceIs DEF Iterators

(* Merged, by its keys and values. *)
LEMMA MergedIs ==
  ASSUME NEW f, NEW d, NEW g, g = [j \in DOMAIN g |-> g[j]],
         DOMAIN g = DOMAIN f \cup DOMAIN d,
         \A j \in DOMAIN f : g[j] = f[j],
         \A j \in DOMAIN d \ DOMAIN f : g[j] = d[j]
  PROVE  g = Dictionary!Merged(f, d)
BY DEF Dictionary!Merged

(* The least and the greatest of a set of keys. *)
LEMMA LeastIs ==
  ASSUME NEW S \in SUBSET Nat
  PROVE  /\ S = {} => Dictionary!Least(S) = End /\ Dictionary!Greatest(S) = Rend
         /\ \A x \in S : (\A y \in S : x <= y) => Dictionary!Least(S) = x
         /\ \A x \in S : (\A y \in S : y <= x) => Dictionary!Greatest(S) = x
<1>1. S = {} => Dictionary!Least(S) = End /\ Dictionary!Greatest(S) = Rend
  BY DEF Dictionary!Least, Dictionary!Greatest
<1>2. ASSUME NEW x \in S, \A y \in S : x <= y PROVE Dictionary!Least(S) = x
  <2>1. \A z \in S : (\A y \in S : z <= y) => z = x
    BY <1>2
  <2> QED
    BY <1>2, <2>1 DEF Dictionary!Least, Dictionary!Min
<1>3. ASSUME NEW x \in S, \A y \in S : y <= x PROVE Dictionary!Greatest(S) = x
  <2>1. \A z \in S : (\A y \in S : z >= y) => z = x
    BY <1>3
  <2> QED
    BY <1>3, <2>1 DEF Dictionary!Greatest, Dictionary!Max
<1> QED
  BY <1>1, <1>2, <1>3

(* The place behind a node is the least key above its own. *)
LEMMA FollowingIs ==
  ASSUME NEW m, Good(m), NEW n \in Live(m) \cup {HeadNode}
  PROVE  PlaceOf(m, m.next[n][0]) =
           Dictionary!Least({k \in DOMAIN ContentsOf(m) : PlaceOf(m, n) = Rend \/ k > PlaceOf(m, n)})
<1> DEFINE s == m.next[n][0]
           B == {x \in Live(m) : n = HeadNode \/ Key(m, n) < Key(m, x)}
           S == {k \in DOMAIN ContentsOf(m) : PlaceOf(m, n) = Rend \/ k > PlaceOf(m, n)}
<1>1. /\ B = {} => s = TailNode
      /\ B # {} => s \in B /\ \A x \in B : Key(m, s) <= Key(m, x)
  BY NextIs
<1>2. \A x \in Live(m) : PlaceOf(m, x) = Key(m, x) /\ Key(m, x) \in Nat /\ Key(m, x) # Rend
  BY PlaceIs, GoodFacts
<1>3. PlaceOf(m, HeadNode) = Rend /\ PlaceOf(m, TailNode) = End
  BY PlaceIs
<1>4. \A k : k \in DOMAIN ContentsOf(m) <=> \E x \in Live(m) : Key(m, x) = k
  BY ContentsAre
<1>5. \A x \in Live(m) : x \in B <=> Key(m, x) \in S
  <2> TAKE x \in Live(m)
  <2>1. CASE n = HeadNode
    BY <1>3, <1>4, <2>1
  <2>2. CASE n # HeadNode
    <3>1. PlaceOf(m, n) = Key(m, n) /\ Key(m, n) # Rend /\ Key(m, n) \in Nat /\ Key(m, x) \in Nat
      BY <1>2, <2>2
    <3>2. Key(m, n) < Key(m, x) <=> Key(m, x) > Key(m, n)
      BY <3>1
    <3> QED
      BY <1>4, <2>2, <3>1, <3>2
  <2> QED
    BY <2>1, <2>2
<1>6. \A k \in S : \E x \in B : Key(m, x) = k
  BY <1>4, <1>5
<1>7. S \in SUBSET Nat
  BY <1>2, <1>4
<1>8. B \subseteq Live(m)
  OBVIOUS
<1> HIDE DEF S, B, s
<1>9. CASE B = {}
  <2>1. S = {} /\ s = TailNode
    BY <1>1, <1>6, <1>9
  <2>2. Dictionary!Least(S) = End
    BY <2>1, LeastIs
  <2> QED
    BY <1>3, <2>1, <2>2 DEF S, s
<1>10. CASE B # {}
  <2>1. s \in B /\ s \in Live(m) /\ Key(m, s) \in S
    BY <1>1, <1>5, <1>8, <1>10
  <2>2. \A k \in S : Key(m, s) <= k
    BY <1>1, <1>6, <1>10
  <2>3. Dictionary!Least(S) = Key(m, s)
    BY <1>7, <2>1, <2>2, LeastIs
  <2> QED
    BY <1>2, <2>1, <2>3 DEF S, s
<1> QED
  BY <1>9, <1>10

(* The place before a node is the greatest key below its own. *)
LEMMA PrecedingIs ==
  ASSUME NEW m, Good(m), NEW n \in Live(m) \cup {TailNode}
  PROVE  PlaceOf(m, m.prev[n]) =
           Dictionary!Greatest({k \in DOMAIN ContentsOf(m) : PlaceOf(m, n) = End \/ k < PlaceOf(m, n)})
<1> DEFINE p == m.prev[n]
           B == {x \in Live(m) : n = TailNode \/ Key(m, x) < Key(m, n)}
           S == {k \in DOMAIN ContentsOf(m) : PlaceOf(m, n) = End \/ k < PlaceOf(m, n)}
<1>1. /\ B = {} => p = HeadNode
      /\ B # {} => p \in B /\ \A x \in B : Key(m, x) <= Key(m, p)
  BY PrevFacts
<1>2. \A x \in Live(m) : PlaceOf(m, x) = Key(m, x) /\ Key(m, x) \in Nat /\ Key(m, x) # End
  BY PlaceIs, GoodFacts
<1>3. PlaceOf(m, HeadNode) = Rend /\ PlaceOf(m, TailNode) = End
  BY PlaceIs
<1>4. \A k : k \in DOMAIN ContentsOf(m) <=> \E x \in Live(m) : Key(m, x) = k
  BY ContentsAre
<1>5. \A x \in Live(m) : x \in B <=> Key(m, x) \in S
  <2> TAKE x \in Live(m)
  <2>1. CASE n = TailNode
    BY <1>3, <1>4, <2>1
  <2>2. CASE n # TailNode
    <3>1. PlaceOf(m, n) = Key(m, n) /\ Key(m, n) # End
      BY <1>2, <2>2
    <3> QED
      BY <1>4, <2>2, <3>1
  <2> QED
    BY <2>1, <2>2
<1>6. \A k \in S : \E x \in B : Key(m, x) = k
  BY <1>4, <1>5
<1>7. S \in SUBSET Nat
  BY <1>2, <1>4
<1>8. B \subseteq Live(m)
  OBVIOUS
<1> HIDE DEF S, B, p
<1>9. CASE B = {}
  <2>1. S = {} /\ p = HeadNode
    BY <1>1, <1>6, <1>9
  <2>2. Dictionary!Greatest(S) = Rend
    BY <2>1, LeastIs
  <2> QED
    BY <1>3, <2>1, <2>2 DEF S, p
<1>10. CASE B # {}
  <2>1. p \in B /\ p \in Live(m) /\ Key(m, p) \in S
    BY <1>1, <1>5, <1>8, <1>10
  <2>2. \A k \in S : k <= Key(m, p)
    BY <1>1, <1>6, <1>10
  <2>3. Dictionary!Greatest(S) = Key(m, p)
    BY <1>7, <2>1, <2>2, LeastIs
  <2> QED
    BY <1>2, <2>1, <2>3 DEF S, p
<1> QED
  BY <1>9, <1>10

(* insert merges one key into the contents. *)
LEMMA InsertedMerged ==
  ASSUME NEW m, Good(m), NEW k \in Keys, NEW v \in Values, NEW l \in 0..Levels
  PROVE  ContentsOf(Inserted(m, k, v, l)) = Dictionary!Merged(ContentsOf(m), Dictionary!With(<<>>, k, v))
<1> DEFINE r == Inserted(m, k, v, l)
<1>1. Good(r)
  BY InsertedGood
<1>2. /\ DOMAIN ContentsOf(r) = DOMAIN ContentsOf(m) \cup {k}
      /\ \A j \in DOMAIN ContentsOf(m) : ContentsOf(r)[j] = ContentsOf(m)[j]
      /\ k \notin DOMAIN ContentsOf(m) => ContentsOf(r)[k] = v
  BY InsertedContents
<1> HIDE DEF r
<1>3. PICK d : d = Dictionary!With(<<>>, k, v)
  OBVIOUS
<1>4. DOMAIN d = {k} /\ d[k] = v
  BY <1>3 DEF Dictionary!With
<1>5. PICK g : g = ContentsOf(r)
  OBVIOUS
<1>6. g = [j \in DOMAIN g |-> g[j]]
  BY <1>1, <1>5, ContentsAre
<1>7. g = Dictionary!Merged(ContentsOf(m), d)
  BY SMTT(40), <1>2, <1>4, <1>5, <1>6, MergedIs
<1> QED
  BY <1>3, <1>5, <1>7 DEF r

(* erase takes one out. *)
LEMMA ErasedWithout ==
  ASSUME NEW m, Good(m), NEW k \in Nat
  PROVE  ContentsOf(Erased(m, k)) = Dictionary!Without(ContentsOf(m), k)
<1> DEFINE r == Erased(m, k)
<1>1. Good(r)
  BY ErasedGood
<1>2. /\ DOMAIN ContentsOf(r) = DOMAIN ContentsOf(m) \ {k}
      /\ \A j \in DOMAIN ContentsOf(r) : ContentsOf(r)[j] = ContentsOf(m)[j]
  BY ErasedContents
<1> HIDE DEF r
<1>3. ContentsOf(r) = [j \in DOMAIN ContentsOf(r) |-> ContentsOf(r)[j]]
  BY <1>1, ContentsAre
<1>4. PICK f, g : f = ContentsOf(m) /\ g = ContentsOf(r)
  OBVIOUS
<1>5. g = Dictionary!Without(f, k)
  BY <1>2, <1>3, <1>4 DEF Dictionary!Without
<1> QED
  BY <1>4, <1>5 DEF r

(* The place of the iterator before and after a step. *)
LEMMA PlaceNow == Place = PlaceOf(map, it) /\ Place' = PlaceOf(map', it')
BY DEF Place, PlaceOf, Key

(* A step that leaves the iterator on a node it keeps leaves its place. *)
LEMMA PlaceStays ==
  ASSUME MapInv, MapInv', UNCHANGED it,
         it \in Live(map) => it \in Live(map') /\ map'.item[it] = map.item[it]
  PROVE  Place' = Place
<1>1. PICK m, r, i : m = map /\ r = map' /\ i = it
  OBVIOUS
<1>2. Good(m) /\ Good(r) /\ i \in Iterators(m) /\ it' = i
  BY <1>1 DEF MapInv
<1>3. i \in Live(m) => i \in Live(r) /\ Key(r, i) = Key(m, i)
  BY <1>1 DEF Key
<1>4. PlaceOf(r, i) = PlaceOf(m, i)
  BY <1>2, <1>3, PlaceKept
<1> QED
  BY <1>1, <1>2, <1>4, PlaceNow

(* Each action is that of the dictionary: insert merges one key.           *)
LEMMA InsertMaps ==
  ASSUME MapInv, NEW k \in Keys, NEW v \in Values, Insert(k, v)
  PROVE  Dictionary!Insert(k, v)
<1>1. PICK l \in 0..Levels : map' = Inserted(map, k, v, l)
  BY DEF Insert
<1>2. PICK m, r : m = map /\ r = map'
  OBVIOUS
<1>3. ContentsOf(r) = Dictionary!Merged(ContentsOf(m), Dictionary!With(<<>>, k, v))
  BY <1>1, <1>2, InsertedMerged DEF MapInv
<1>4. Good(r) /\ it' \in Live(r) /\ Key(r, it') = k
  BY <1>2, InsertInv DEF MapInv
<1>5. Place' = k
  BY <1>2, <1>4, PlaceIs, PlaceNow
<1> QED
  BY <1>2, <1>3, <1>5 DEF Dictionary!Insert

(* operator[] merges a default. *)
LEMMA IndexMaps ==
  ASSUME MapInv, NEW k \in Keys, Index(k)
  PROVE  Dictionary!Index(k)
<1>1. PICK l \in 0..Levels : map' = Inserted(map, k, Default, l)
  BY DEF Index
<1>2. PICK m, r : m = map /\ r = map'
  OBVIOUS
<1>3. Good(m) /\ Default \in Values
  BY <1>2, MapFacts DEF MapInv
<1>4. ContentsOf(r) = Dictionary!Merged(ContentsOf(m), Dictionary!With(<<>>, k, Default))
  BY <1>1, <1>2, <1>3, InsertedMerged
<1>5. Live(m) \subseteq Live(r) /\ \A n \in Live(m) : r.item[n] = m.item[n]
  <2>1. /\ Live(m) \subseteq Live(Inserted(m, k, Default, l))
        /\ \A n \in Live(m) : Inserted(m, k, Default, l).item[n] = m.item[n]
    BY <1>3, InsertedGood
  <2> QED
    BY <1>1, <1>2, <2>1
<1>6. MapInv' /\ UNCHANGED it
  BY IndexInv DEF Index
<1>7. Place' = Place
  BY <1>2, <1>5, <1>6, PlaceStays
<1> QED
  BY <1>2, <1>4, <1>7 DEF Dictionary!Index

(* An assignment sets its key. *)
LEMMA StoreMaps ==
  ASSUME MapInv, NEW k \in Keys, NEW v \in Values, Store(k, v)
  PROVE  Dictionary!Store(k, v)
<1>1. PICK m, r : m = map /\ r = map'
  OBVIOUS
<1>0. PICK l \in 0..Levels : \E n : LET x == Inserted(m, k, Default, l)
                                    IN  Good(x) /\ n \in Live(x) /\ Key(x, n) = k /\ r = Stored(x, n, v)
  BY <1>1, StoreInv
<1>2. PICK x, n : /\ x = Inserted(m, k, Default, l) /\ Good(x)
                  /\ n \in Live(x) /\ Key(x, n) = k /\ r = Stored(x, n, v)
  BY <1>0
<1>3. Good(m) /\ Default \in Values /\ MapInv' /\ Good(r) /\ UNCHANGED it
  BY <1>1, MapFacts, StoreInv DEF MapInv, Store
<1>4. /\ DOMAIN ContentsOf(x) = DOMAIN ContentsOf(m) \cup {k}
      /\ \A j \in DOMAIN ContentsOf(m) : ContentsOf(x)[j] = ContentsOf(m)[j]
  <2> DEFINE y == Inserted(m, k, Default, l)
  <2>0. Good(m) /\ Default \in Values
    BY <1>3
  <2>1. DOMAIN ContentsOf(y) = DOMAIN ContentsOf(m) \cup {k}
    BY <2>0, InsertedContents
  <2>3. \A j \in DOMAIN ContentsOf(m) : ContentsOf(y)[j] = ContentsOf(m)[j]
    BY <2>0, InsertedContents
  <2> HIDE DEF y
  <2>2. x = y
    BY <1>2 DEF y
  <2> QED
    BY <2>1, <2>2, <2>3
<1>5. /\ DOMAIN ContentsOf(r) = DOMAIN ContentsOf(x) /\ ContentsOf(r)[k] = v
      /\ \A j \in DOMAIN ContentsOf(x) \ {k} : ContentsOf(r)[j] = ContentsOf(x)[j]
  BY <1>2, StoredContents
<1>6. ContentsOf(r) = Dictionary!With(ContentsOf(m), k, v)
  <2>1. PICK f, g : f = ContentsOf(m) /\ g = ContentsOf(r)
    OBVIOUS
  <2>2. g = [j \in DOMAIN g |-> g[j]]
    BY <1>3, <2>1, ContentsAre
  <2>3. g = Dictionary!With(f, k, v)
    BY <1>4, <1>5, <2>1, <2>2 DEF Dictionary!With
  <2> QED
    BY <2>1, <2>3
<1>7. \A y \in Live(m) : y \in Live(r) /\ Key(r, y) = Key(m, y)
  <2>1. Live(m) \subseteq Live(x) /\ \A y \in Live(m) : x.item[y] = m.item[y]
    <3>1. /\ Live(m) \subseteq Live(Inserted(m, k, Default, l))
          /\ \A y \in Live(m) : Inserted(m, k, Default, l).item[y] = m.item[y]
      BY <1>3, InsertedGood
    <3> QED
      BY <1>2, <3>1
  <2>2. /\ Live(r) = Live(x) /\ r.item[n] = [key |-> Key(x, n), value |-> v]
        /\ \A y \in Live(x) \ {n} : r.item[y] = x.item[y]
    BY <1>2, StoredGood
  <2>3. \A y \in Live(x) : Key(r, y) = Key(x, y)
    BY <2>2 DEF Key
  <2> QED
    BY <2>1, <2>2, <2>3 DEF Key
<1>8. Place' = Place
  <2>1. PICK i : i = it /\ i = it'
    BY <1>3
  <2>2. i \in Iterators(m)
    BY <1>1, <2>1 DEF MapInv
  <2>3. PlaceOf(r, i) = PlaceOf(m, i)
    BY <1>3, <1>7, <2>2, PlaceKept
  <2> QED
    BY <1>1, <2>1, <2>3, PlaceNow
<1> QED
  BY <1>1, <1>6, <1>8 DEF Dictionary!Store

(* A range merges all of the other. *)
LEMMA InsertRangeMaps ==
  ASSUME MapInv, NEW d \in Others, InsertRange(d)
  PROVE  Dictionary!InsertRange(d)
<1>1. DOMAIN d \subseteq Keys /\ d \in [DOMAIN d -> Values]
  BY OthersType
<1>2. PICK lv \in [DOMAIN d -> 0..Levels] : map' = InsertedAll(map, d, lv)
  BY DEF InsertRange
<1>3. PICK m, r : m = map /\ r = map'
  OBVIOUS
<1>4. Good(m)
  BY <1>3 DEF MapInv
<1>5. /\ Good(r) /\ Live(m) \subseteq Live(r)
      /\ DOMAIN ContentsOf(r) = DOMAIN ContentsOf(m) \cup DOMAIN d
      /\ \A n \in Live(m) : r.item[n] = m.item[n]
      /\ \A j \in DOMAIN ContentsOf(m) : ContentsOf(r)[j] = ContentsOf(m)[j]
      /\ \A j \in DOMAIN d \ DOMAIN ContentsOf(m) : ContentsOf(r)[j] = d[j]
  <2>1. Fills(InsertedAll(m, d, lv), m, d)
    BY <1>1, <1>4, InsertedAllGood
  <2>2. Fills(r, m, d)
    BY <1>2, <1>3, <2>1
  <2> QED
    BY <2>2 DEF Fills
<1>6. ContentsOf(r) = Dictionary!Merged(ContentsOf(m), d)
  <2>1. PICK f, g : f = ContentsOf(m) /\ g = ContentsOf(r)
    OBVIOUS
  <2>2. g = [j \in DOMAIN g |-> g[j]]
    BY <1>5, <2>1, ContentsAre
  <2>4. /\ DOMAIN g = DOMAIN f \cup DOMAIN d /\ \A j \in DOMAIN f : g[j] = f[j]
        /\ \A j \in DOMAIN d \ DOMAIN f : g[j] = d[j]
    BY <1>5, <2>1
  <2>5. g = Dictionary!Merged(f, d)
    BY <2>2, <2>4 DEF Dictionary!Merged
  <2> QED
    BY <2>1, <2>5
<1>7. MapInv' /\ UNCHANGED it
  BY RangeInv DEF InsertRange
<1>8. Place' = Place
  BY <1>3, <1>5, <1>7, PlaceStays
<1> QED
  BY <1>3, <1>6, <1>8 DEF Dictionary!InsertRange

(* An assigned map has the contents of the other. *)
LEMMA AssignMaps ==
  ASSUME NEW d \in Others, Assign(d)
  PROVE  Dictionary!Assign(d)
<1>1. DOMAIN d \subseteq Keys /\ d \in [DOMAIN d -> Values]
  BY OthersType
<1>2. PICK lv \in [DOMAIN d -> 0..Levels] : map' = InsertedAll(Empty, d, lv)
  BY DEF Assign
<1>3. PICK r : r = map' /\ r = InsertedAll(Empty, d, lv)
  BY <1>2
<1>4. DOMAIN ContentsOf(Empty) = {}
  BY EmptyGood, ContentsAre
<1>5. Good(r) /\ DOMAIN ContentsOf(r) = DOMAIN d /\ \A j \in DOMAIN d : ContentsOf(r)[j] = d[j]
  <2>1. Fills(InsertedAll(Empty, d, lv), Empty, d)
    BY <1>1, EmptyGood, InsertedAllGood
  <2>2. Fills(r, Empty, d)
    BY <1>3, <2>1
  <2> QED
    BY <1>4, <2>2 DEF Fills
<1>6. ContentsOf(r) = d
  <2>1. PICK g : g = ContentsOf(r)
    OBVIOUS
  <2>2. g = [j \in DOMAIN g |-> g[j]]
    BY <1>5, <2>1, ContentsAre
  <2>3. g = d
    BY <1>1, <1>5, <2>1, <2>2
  <2> QED
    BY <2>1, <2>3
<1>7. Place' = Dangling
  <2>1. it' = Dangling
    BY DEF Assign
  <2> QED
    BY <1>3, <1>5, <2>1, PlaceIs, PlaceNow
<1> QED
  BY <1>3, <1>6, <1>7 DEF Dictionary!Assign

(* The contents of the empty map. *)
LEMMA EmptyContents ==
  /\ ContentsOf(Empty) = <<>> /\ PlaceOf(Empty, TailNode) = End
  /\ PlaceOf(Empty, Dangling) = Dangling
<1>1. PICK g : g = ContentsOf(Empty)
  OBVIOUS
<1>2. g = [j \in DOMAIN g |-> g[j]] /\ DOMAIN g = {}
  BY <1>1, EmptyGood, ContentsAre
<1>3. g = <<>>
  BY <1>2
<1> QED
  BY <1>1, <1>3, EmptyGood, PlaceIs

(* clear forgets everything. *)
LEMMA ClearMaps == ASSUME Clear PROVE Dictionary!Clear
<1>1. map' = Empty /\ it' = Dangling
  BY DEF Clear
<1>2. ContentsOf(map') = <<>> /\ Place' = Dangling
  BY <1>1, EmptyContents, PlaceNow
<1> QED
  BY <1>2 DEF Dictionary!Clear

(* erase by key removes the key, and the place of an iterator that was on  *)
(* it; behind the last key it ends the program.                            *)
LEMMA EraseKeyMaps ==
  ASSUME MapInv, NEW k \in Keys, EraseKey(k)
  PROVE  Dictionary!EraseKey(k)
<1> USE MapFacts
<1>1. PICK m, r, i : m = map /\ r = map' /\ i = it /\ r = Erased(m, k)
  BY DEF EraseKey
<1>2. k \in Nat /\ Good(m) /\ i \in Iterators(m)
  BY <1>1 DEF MapInv
<1>3. ContentsOf(r) = Dictionary!Without(ContentsOf(m), k)
  BY <1>1, <1>2, ErasedWithout
<1>4. Good(r)
  BY <1>1, EraseKeyInv DEF MapInv
<1>5. PICK c : c = FindAtBottom(m, k)
  OBVIOUS
<1>6. it' = (IF i = c THEN Dangling ELSE i) /\ alive' = (Candidate(m, k) # TailNode)
  BY <1>1, <1>5 DEF EraseKey
<1>7. /\ c # NoNode => c \in Live(m) /\ Key(m, c) = k
      /\ c = NoNode => \A n \in Live(m) : Key(m, n) # k
  BY <1>2, <1>5, FindIs
<1>8. i = c <=> PlaceOf(m, i) = k
  <2>1. CASE i \in Live(m)
    <3>1. PlaceOf(m, i) = Key(m, i) /\ i # NoNode
      BY <1>2, <2>1, PlaceIs DEF Live
    <3>2. Key(m, i) = k => c # NoNode
      BY <1>7, <2>1
    <3>3. c # NoNode /\ Key(m, i) = k => i = c
      BY <1>2, <1>7, <2>1, GoodFacts
    <3> QED
      BY <1>7, <3>1, <3>2, <3>3
  <2>2. CASE i \notin Live(m)
    <3>1. End \notin Keys /\ Rend \notin Keys /\ Dangling \notin Keys
      BY MapAssumption
    <3>2. PlaceOf(m, i) # k
      BY <1>2, <2>2, <3>1, PlaceIs DEF Iterators
    <3>3. i # c
      BY <1>2, <1>7, <2>2 DEF Iterators
    <3> QED
      BY <3>2, <3>3
  <2> QED
    BY <2>1, <2>2
<1>9. i # c => PlaceOf(r, i) = PlaceOf(m, i)
  <2> SUFFICES ASSUME i # c PROVE PlaceOf(r, i) = PlaceOf(m, i)
    OBVIOUS
  <2>1. i \in Live(m) => i \in Live(r) /\ r.item[i] = m.item[i]
    <3>1. CASE c = NoNode
      BY ZenonT(40), <1>1, <1>2, <1>5, <3>1, ErasedGood
    <3>2. CASE c # NoNode
      <4>1. /\ Live(Erased(m, k)) = Live(m) \ {c}
            /\ \A n \in Live(Erased(m, k)) : Erased(m, k).item[n] = m.item[n]
        BY <1>2, <1>5, <3>2, ErasedGood
      <4> QED
        BY <1>1, <4>1
    <3> QED
      BY <3>1, <3>2
  <2> QED
    BY <1>2, <1>4, <2>1, PlaceKept DEF Key
<1>10. Place = PlaceOf(m, i) /\ Place' = PlaceOf(r, it')
  BY <1>1, PlaceNow
<1>11. Place' = IF Place = k THEN Dangling ELSE Place
  BY <1>4, <1>6, <1>8, <1>9, <1>10, PlaceIs
<1>12. alive' = (\E j \in DOMAIN ContentsOf(m) : k <= j)
  <2>1. Candidate(m, k) # TailNode <=> \E n \in Live(m) : k <= Key(m, n)
    BY <1>2, TailIs
  <2>2. DOMAIN ContentsOf(m) = {Key(m, n) : n \in Live(m)}
    BY <1>2, ContentsAre
  <2> QED
    BY <1>6, <2>1, <2>2
<1> QED
  BY <1>1, <1>3, <1>11, <1>12 DEF Dictionary!EraseKey

(* erase by iterator moves it to the following key. *)
LEMMA EraseIterMaps ==
  ASSUME MapInv, EraseIter
  PROVE  Dictionary!EraseIter
<1>1. PICK m, r, i : m = map /\ r = map' /\ i = it /\ r = Erased(m, Key(m, i)) /\ i \in Live(m)
  BY EraseIterInv
<1>2. Good(m) /\ Good(r) /\ it' = m.next[i][0]
  BY <1>1, EraseIterInv DEF MapInv, EraseIter
<1>3. Key(m, i) \in Nat /\ Key(m, i) \in Keys /\ PlaceOf(m, i) = Key(m, i)
  BY <1>1, <1>2, GoodFacts, PlaceIs
<1>4. ContentsOf(r) = Dictionary!Without(ContentsOf(m), PlaceOf(m, i))
  BY <1>1, <1>2, <1>3, ErasedWithout
<1>5. PICK s : s = m.next[i][0]
  OBVIOUS
<1>6. s \in Live(m) \cup {TailNode} /\ s # i
  BY <1>1, <1>2, <1>5, NextIs
<1>7. FindAtBottom(m, Key(m, i)) = i /\ i # NoNode
  <2>1. FindAtBottom(m, Key(m, i)) # NoNode
    BY <1>1, <1>2, <1>3, FindIs
  <2>2. FindAtBottom(m, Key(m, i)) \in Live(m) /\ Key(m, FindAtBottom(m, Key(m, i))) = Key(m, i)
    BY <1>2, <1>3, <2>1, FindIs
  <2> QED
    BY <1>1, <1>2, <2>1, <2>2, GoodFacts
<1>8. Live(r) = Live(m) \ {i} /\ \A n \in Live(r) : r.item[n] = m.item[n]
  <2>1. /\ Live(Erased(m, Key(m, i))) = Live(m) \ {i}
        /\ \A n \in Live(Erased(m, Key(m, i))) : Erased(m, Key(m, i)).item[n] = m.item[n]
    BY <1>2, <1>3, <1>7, ErasedGood
  <2> QED
    BY <1>1, <2>1
<1>9. PlaceOf(r, s) = PlaceOf(m, s)
  <2>1. s \in Live(m) => s \in Live(r) /\ Key(r, s) = Key(m, s)
    BY <1>6, <1>8 DEF Key
  <2> QED
    BY <1>2, <1>6, <2>1, PlaceKept DEF Iterators
<1>10. PlaceOf(m, s) = Dictionary!Least({k \in DOMAIN ContentsOf(m) :
                                           PlaceOf(m, i) = Rend \/ k > PlaceOf(m, i)})
  BY <1>1, <1>2, <1>5, FollowingIs
<1>11. Place = PlaceOf(m, i) /\ Place' = PlaceOf(r, s)
  BY <1>1, <1>2, <1>5, PlaceNow
<1> QED
  BY <1>1, <1>3, <1>4, <1>9, <1>10, <1>11 DEF Dictionary!EraseIter, Dictionary!Following

(* The searches and moves are the dictionary's. *)
LEMMA MoveMaps ==
  ASSUME MapInv
  PROVE  /\ \A k \in Keys : Find(k) => Dictionary!Find(k)
         /\ Begin => Dictionary!Begin
         /\ ReverseBegin => Dictionary!ReverseBegin
         /\ Increment => Dictionary!Increment
         /\ Decrement => Dictionary!Decrement
<1> USE MapFacts
<1>1. PICK m, i : m = map /\ i = it
  OBVIOUS
<1>2. Good(m) /\ i \in Iterators(m)
  BY <1>1 DEF MapInv
<1>3. Place = PlaceOf(m, i) /\ (map' = m => Place' = PlaceOf(m, it'))
  BY <1>1, PlaceNow
<1>4. /\ PlaceOf(m, TailNode) = End /\ PlaceOf(m, HeadNode) = Rend /\ End # Rend
      /\ Dangling \notin {End, Rend}
      /\ \A x \in Live(m) : /\ PlaceOf(m, x) = Key(m, x)
                            /\ Key(m, x) \notin {End, Rend, Dangling}
  BY <1>2, PlaceIs
<1>5. ASSUME NEW k \in Keys, Find(k) PROVE Dictionary!Find(k)
  <2>1. k \in Nat /\ map' = m /\ it' = IF FindAtBottom(m, k) = NoNode THEN TailNode ELSE FindAtBottom(m, k)
    BY <1>1, <1>5 DEF Find
  <2>2. FindAtBottom(m, k) # NoNode <=> k \in DOMAIN ContentsOf(m)
    BY <1>2, <2>1, FindsContents
  <2>3. FindAtBottom(m, k) # NoNode => FindAtBottom(m, k) \in Live(m) /\ Key(m, FindAtBottom(m, k)) = k
    BY <1>2, <2>1, FindIs
  <2>4. Place' = IF k \in DOMAIN ContentsOf(m) THEN k ELSE End
    BY <1>3, <1>4, <2>1, <2>2, <2>3
  <2> QED
    BY <1>1, <2>1, <2>4 DEF Dictionary!Find
<1>6. ASSUME Begin PROVE Dictionary!Begin
  <2>1. map' = m /\ it' = m.next[HeadNode][0]
    BY <1>1, <1>6 DEF Begin
  <2>2. PlaceOf(m, m.next[HeadNode][0]) =
          Dictionary!Least({k \in DOMAIN ContentsOf(m) : PlaceOf(m, HeadNode) = Rend \/ k > PlaceOf(m, HeadNode)})
    BY <1>2, FollowingIs
  <2>3. {k \in DOMAIN ContentsOf(m) : PlaceOf(m, HeadNode) = Rend \/ k > PlaceOf(m, HeadNode)}
          = DOMAIN ContentsOf(m)
    BY <1>4
  <2> QED
    BY <1>1, <1>3, <2>1, <2>2, <2>3 DEF Dictionary!Begin
<1>7. ASSUME ReverseBegin PROVE Dictionary!ReverseBegin
  <2>1. map' = m /\ it' = m.prev[TailNode]
    BY <1>1, <1>7 DEF ReverseBegin
  <2>2. PlaceOf(m, m.prev[TailNode]) =
          Dictionary!Greatest({k \in DOMAIN ContentsOf(m) : PlaceOf(m, TailNode) = End \/ k < PlaceOf(m, TailNode)})
    BY <1>2, PrecedingIs
  <2>3. {k \in DOMAIN ContentsOf(m) : PlaceOf(m, TailNode) = End \/ k < PlaceOf(m, TailNode)}
          = DOMAIN ContentsOf(m)
    BY <1>4
  <2> QED
    BY <1>1, <1>3, <2>1, <2>2, <2>3 DEF Dictionary!ReverseBegin
<1>8. ASSUME Increment PROVE Dictionary!Increment
  <2>1. map' = m /\ it' = m.next[i][0] /\ i \in Live(m) \cup {HeadNode}
    BY <1>1, <1>2, <1>8 DEF Increment, Iterators
  <2>2. PlaceOf(m, m.next[i][0]) =
          Dictionary!Least({k \in DOMAIN ContentsOf(m) : PlaceOf(m, i) = Rend \/ k > PlaceOf(m, i)})
    BY <1>2, <2>1, FollowingIs
  <2>3. Place \notin {End, Dangling}
    BY <1>3, <1>4, <2>1
  <2> QED
    BY <1>1, <1>3, <2>1, <2>2, <2>3 DEF Dictionary!Increment, Dictionary!Following
<1>9. ASSUME Decrement PROVE Dictionary!Decrement
  <2>1. map' = m /\ it' = m.prev[i] /\ i \in Live(m) \cup {TailNode}
    BY <1>1, <1>2, <1>9 DEF Decrement, Iterators
  <2>2. PlaceOf(m, m.prev[i]) =
          Dictionary!Greatest({k \in DOMAIN ContentsOf(m) : PlaceOf(m, i) = End \/ k < PlaceOf(m, i)})
    BY <1>2, <2>1, PrecedingIs
  <2>3. Place \notin {Rend, Dangling}
    BY <1>3, <1>4, <2>1
  <2> QED
    BY <1>1, <1>3, <2>1, <2>2, <2>3 DEF Dictionary!Decrement, Dictionary!Preceding
<1> QED
  BY <1>5, <1>6, <1>7, <1>8, <1>9

(* Every step is one of the dictionary, or leaves it as it is. *)
LEMMA NextMaps == ASSUME MapInv, [Next]_vars PROVE [Dictionary!Next]_(Dictionary!mapVars)
<1>1. ASSUME NEW k \in Keys, EraseKey(k) PROVE Dictionary!EraseKey(k)
  BY <1>1, EraseKeyMaps
<1>2. ASSUME Change PROVE Dictionary!Change
  <2>1. ASSUME NEW k \in Keys, Index(k) PROVE Dictionary!Change
    BY <2>1, IndexMaps DEF Dictionary!Change
  <2>2. ASSUME NEW k \in Keys, NEW v \in Values, Insert(k, v) \/ Store(k, v)
        PROVE  Dictionary!Change
    BY <2>2, InsertMaps, StoreMaps DEF Dictionary!Change
  <2>3. ASSUME NEW d \in Others, InsertRange(d) \/ Assign(d) PROVE Dictionary!Change
    BY <2>3, InsertRangeMaps, AssignMaps DEF Dictionary!Change
  <2>4. CASE EraseIter
    BY <2>4, EraseIterMaps DEF Dictionary!Change
  <2>5. CASE Clear
    BY <2>5, ClearMaps DEF Dictionary!Change
  <2> QED
    BY <1>2, <2>1, <2>2, <2>3, <2>4, <2>5 DEF Change
<1>3. ASSUME Move PROVE Dictionary!Move
  BY <1>3, MoveMaps DEF Move, Dictionary!Move
<1>4. CASE UNCHANGED vars
  BY <1>4 DEF vars, Dictionary!mapVars, Place
<1> QED
  BY <1>1, <1>2, <1>3, <1>4 DEF Next, Dictionary!Next

(* The skip list implements the ordered dictionary: what the loop of       *)
(* removeDeploymentUnit relies on (deployment_unit_helper.cpp:240-262).    *)
THEOREM ImplementsOrderedMapHolds == Spec => ImplementsOrderedMap
<1>1. Init => Dictionary!Init
  <2> SUFFICES ASSUME Init PROVE Dictionary!Init
    OBVIOUS
  <2>1. map = Empty /\ it = TailNode /\ alive = TRUE
    BY DEF Init
  <2> QED
    BY <2>1, EmptyContents, PlaceNow DEF Dictionary!Init
<1>2. MapInv /\ [Next]_vars => [Dictionary!Next]_(Dictionary!mapVars)
  BY NextMaps
<1> QED
  BY <1>1, <1>2, MapInvHolds, PTL DEF Spec, ImplementsOrderedMap, Dictionary!Spec
=============================================================================
