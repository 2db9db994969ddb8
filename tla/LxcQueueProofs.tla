--------------------------- MODULE LxcQueueProofs ---------------------------
(* Proofs about LxcQueue for any tasks, any callers and any number of       *)
(* workers.                                                                 *)
EXTENDS LxcQueue, FiniteSetTheorems, FunctionTheorems, SequenceTheorems, TLAPS

(* The constants, in the form the steps use them. *)
LEMMA QueueFacts ==
  /\ NoTask \notin Tasks /\ Clients \cap Workers = {}
  /\ Free \notin Callers /\ Workers \subseteq Callers
BY QueueAssumption DEF Callers

-----------------------------------------------------------------------------
(* The initial state is well-typed. *)
LEMMA TypeInit == Init => TypeOK
<1> SUFFICES ASSUME Init PROVE TypeOK
  OBVIOUS
<1>1. done \in Seq(Tasks)
  BY DEF Init
<1>2. /\ cpc \in [Callers -> CallerPcs] /\ wpc \in [Workers -> WorkerPcs]
      /\ \A c \in Callers : cpc[c] = "out"
      /\ \A w \in Workers : wpc[w] = "new" /\ task[w] = NoTask
  BY DEF Init, CallerPcs, WorkerPcs
<1> QED
  BY <1>1, <1>2, QueueFacts DEF Init, TypeOK

(* A caller's step keeps the types. *)
LEMMA TypeCaller ==
  ASSUME TypeOK, NEW c \in Callers,
         (\E x \in Tasks : CallAdd(c, x)) \/ CallStop(c) \/ Caller(c)
  PROVE  TypeOK'
<1> USE QueueFacts
<1>1. ASSUME NEW x \in Tasks, CallAdd(c, x) PROVE TypeOK'
  BY <1>1 DEF CallAdd, TypeOK, listVars, workerVars, CallerPcs
<1>2. CASE CallStop(c)
  BY <1>2 DEF CallStop, TypeOK, listVars, workerVars, CallerPcs
<1>3. CASE CallerLock(c)
  BY <1>3 DEF CallerLock, TypeOK, listVars, workerVars, CallerPcs
<1>4. CASE Enqueue(c)
  <2>1. arg[c] \in Tasks
    BY <1>4 DEF Enqueue, TypeOK
  <2> QED
    BY <1>4, <2>1 DEF Enqueue, TypeOK, workerVars, CallerPcs, isEmpty
<1>5. CASE SetStop(c)
  BY <1>5 DEF SetStop, TypeOK, listVars, workerVars, CallerPcs
<1>6. CASE Signal(c)
  BY <1>6 DEF Signal, TypeOK, listVars, CallerPcs, WorkerPcs, Waiting
<1> QED
  BY <1>1, <1>2, <1>3, <1>4, <1>5, <1>6 DEF Caller

(* A worker's step keeps the types. *)
LEMMA TypeWorker ==
  ASSUME TypeOK, NEW w \in Workers, Start(w) \/ Run(w) \/ SpuriousWakeup(w)
  PROVE  TypeOK'
<1> USE QueueFacts DEF listVars, callerVars
<1>1. CASE Start(w)
  BY <1>1 DEF Start, TypeOK, WorkerPcs
<1>2. CASE Lock(w)
  BY <1>2 DEF Lock, TypeOK, WorkerPcs
<1>3. CASE Wait(w)
  BY <1>3 DEF Wait, TypeOK, WorkerPcs
<1>4. CASE ExitRun(w)
  BY <1>4 DEF ExitRun, TypeOK, WorkerPcs
<1>5. CASE Dequeue(w)
  <2>1. head \in Tasks /\ tail \in Tasks
    BY <1>5 DEF Dequeue, TypeOK, isEmpty
  <2> QED
    BY <1>5, <2>1 DEF Dequeue, TypeOK, WorkerPcs
<1>6. CASE RunTask(w)
  BY <1>6 DEF RunTask, TypeOK, WorkerPcs
<1>7. CASE InvokeCallback(w)
  <2>1. task[w] \in Tasks
    BY <1>7 DEF InvokeCallback, TypeOK
  <2>2. done' \in Seq(Tasks)
    BY <1>7, <2>1 DEF InvokeCallback, TypeOK
  <2> QED
    BY <1>7, <2>2 DEF InvokeCallback, TypeOK, WorkerPcs
<1>8. CASE SpuriousWakeup(w)
  BY <1>8 DEF SpuriousWakeup, TypeOK, WorkerPcs
<1> QED
  BY <1>1, <1>2, <1>3, <1>4, <1>5, <1>6, <1>7, <1>8 DEF Run

(* Every step keeps the types. *)
LEMMA TypeNext == TypeOK /\ [Next]_vars => TypeOK'
<1> SUFFICES ASSUME TypeOK, [Next]_vars PROVE TypeOK'
  OBVIOUS
<1>1. CASE UNCHANGED vars
  BY <1>1 DEF vars, TypeOK
<1> QED
  BY <1>1, TypeCaller, TypeWorker DEF Next

(* Every reachable state is well-typed; in particular the list is empty at *)
(* both ends or at none, and a worker holds a task just while it runs it.  *)
THEOREM TypeCorrect == Spec => []TypeOK
BY TypeInit, TypeNext, PTL DEF Spec

-----------------------------------------------------------------------------
(* The mutex.                                                              *)

(* A worker calls the queue only from inside a task. *)
CallsFromTask == \A w \in Workers : cpc[w] # "out" => wpc[w] \in {"run", "callback"}

(* What makes MutexInv inductive: a worker is not in two sections at once. *)
MutexIInv == MutexInv /\ CallsFromTask

(* The mutex is free in the initial state. *)
LEMMA MutexInit == Init => MutexIInv
<1> SUFFICES ASSUME Init PROVE MutexIInv
  OBVIOUS
<1>1. \A t \in Callers : ~InSection(t) /\ mutex # t
  BY QueueFacts DEF Init, InSection
<1> QED
  BY <1>1, QueueFacts DEF Init, MutexIInv, MutexInv, CallsFromTask

(* A caller's step keeps the discipline of the mutex. *)
LEMMA MutexCaller ==
  ASSUME TypeOK, MutexIInv, NEW c \in Callers,
         (\E x \in Tasks : CallAdd(c, x)) \/ CallStop(c) \/ Caller(c)
  PROVE  MutexIInv'
<1> USE QueueFacts DEF MutexIInv, MutexInv, CallsFromTask, InSection, TypeOK
<1>1. ASSUME NEW x \in Tasks, CallAdd(c, x) PROVE MutexIInv'
  BY <1>1 DEF CallAdd, MayCall, workerVars
<1>2. CASE CallStop(c)
  BY <1>2 DEF CallStop, MayCall, workerVars
<1>3. CASE CallerLock(c)
  BY <1>3 DEF CallerLock, workerVars
<1>4. CASE Enqueue(c)
  BY <1>4 DEF Enqueue, workerVars
<1>5. CASE SetStop(c)
  BY <1>5 DEF SetStop, workerVars
<1>6. CASE Signal(c)
  BY <1>6 DEF Signal, Waiting
<1> QED
  BY <1>1, <1>2, <1>3, <1>4, <1>5, <1>6 DEF Caller

(* A worker's step keeps the discipline of the mutex. *)
LEMMA MutexWorker ==
  ASSUME TypeOK, MutexIInv, NEW w \in Workers, Start(w) \/ Run(w) \/ SpuriousWakeup(w)
  PROVE  MutexIInv'
<1> USE QueueFacts DEF MutexIInv, MutexInv, CallsFromTask, InSection, TypeOK, callerVars
<1>1. CASE Start(w)
  BY <1>1 DEF Start
<1>2. CASE Lock(w)
  BY <1>2 DEF Lock
<1>3. CASE Wait(w)
  BY <1>3 DEF Wait
<1>4. CASE ExitRun(w)
  BY <1>4 DEF ExitRun
<1>5. CASE Dequeue(w)
  BY <1>5 DEF Dequeue
<1>6. CASE RunTask(w)
  BY <1>6 DEF RunTask
<1>7. CASE InvokeCallback(w)
  BY <1>7 DEF InvokeCallback
<1>8. CASE SpuriousWakeup(w)
  BY <1>8 DEF SpuriousWakeup
<1> QED
  BY <1>1, <1>2, <1>3, <1>4, <1>5, <1>6, <1>7, <1>8 DEF Run

(* Every step keeps the discipline of the mutex. *)
LEMMA MutexNext == TypeOK /\ MutexIInv /\ [Next]_vars => MutexIInv'
<1> SUFFICES ASSUME TypeOK, MutexIInv, [Next]_vars PROVE MutexIInv'
  OBVIOUS
<1>1. CASE UNCHANGED vars
  BY <1>1 DEF vars, MutexIInv, MutexInv, CallsFromTask, InSection
<1> QED
  BY <1>1, MutexCaller, MutexWorker DEF Next

(* The list and the flag are touched by the holder of the mutex only, and  *)
(* nobody waits, runs a task or returns with it (lxcqueue.cpp:15-71).      *)
THEOREM MutexHolds == Spec => []MutexInv
<1>1. MutexIInv => MutexInv
  BY DEF MutexIInv
<1> QED
  BY <1>1, MutexInit, MutexNext, TypeCorrect, PTL DEF Spec

-----------------------------------------------------------------------------
(* No wakeup is lost.                                                      *)

(* Somebody will look at the list, or a signal is to come. *)
Attended ==
  (\E w \in Workers : Awake(w)) \/ (\E c \in Callers : cpc[c] = "signal")

(* A step of a caller leaves somebody attending, once there is somebody, or *)
(* leaves nobody waiting.                                                  *)
LEMMA CallerAttends ==
  ASSUME TypeOK, NEW c \in Callers, Attended,
         (\E x \in Tasks : CallAdd(c, x)) \/ CallStop(c) \/ Caller(c)
  PROVE  Attended' \/ Waiting' = {}
<1> USE DEF Attended, TypeOK, Awake, Started
<1>1. ASSUME NEW x \in Tasks, CallAdd(c, x) PROVE Attended'
  BY <1>1 DEF CallAdd, MayCall, workerVars
<1>2. CASE CallStop(c)
  BY <1>2 DEF CallStop, MayCall, workerVars
<1>3. CASE CallerLock(c)
  BY <1>3 DEF CallerLock, workerVars
<1>4. CASE Enqueue(c)
  BY <1>4 DEF Enqueue, workerVars
<1>5. CASE SetStop(c)
  BY <1>5 DEF SetStop, workerVars
<1>6. CASE Signal(c)
  BY <1>6 DEF Signal, Waiting
<1> QED
  BY <1>1, <1>2, <1>3, <1>4, <1>5, <1>6 DEF Caller

(* A step of a worker leaves it awake, unless it found nothing to do. *)
LEMMA WorkerAttends ==
  ASSUME TypeOK, NEW w \in Workers, Start(w) \/ Run(w) \/ SpuriousWakeup(w)
  PROVE  Awake(w)' \/ (Wait(w) \/ ExitRun(w))
BY DEF Start, Run, SpuriousWakeup, Lock, Dequeue, RunTask, InvokeCallback, TypeOK,
       Awake, Started

(* Every step keeps a worker from sleeping beside a task nobody sees. *)
LEMMA TaskSeenNext == TypeOK /\ TaskSeen /\ [Next]_vars => TaskSeen'
<1> SUFFICES ASSUME TypeOK, TaskSeen, [Next]_vars PROVE TaskSeen'
  OBVIOUS
<1>1. ASSUME NEW c \in Callers,
             (\E x \in Tasks : CallAdd(c, x)) \/ CallStop(c) \/ Caller(c)
      PROVE  TaskSeen'
  <2>1. CASE Enqueue(c)
    BY <2>1 DEF Enqueue, TypeOK, TaskSeen
  <2>2. CASE ~Enqueue(c) /\ Attended
    BY <1>1, <2>2, CallerAttends DEF TaskSeen, Attended
  <2>3. CASE ~Enqueue(c) /\ ~Attended
    <3>1. isEmpty' = isEmpty /\ (Waiting = {} => Waiting' = {})
      BY <1>1, <2>3 DEF CallAdd, CallStop, Caller, CallerLock, SetStop, Signal,
         workerVars, listVars, isEmpty, Waiting, TypeOK
    <3> QED
      BY <2>3, <3>1 DEF TaskSeen, Attended
  <2> QED
    BY <2>1, <2>2, <2>3
<1>2. ASSUME NEW w \in Workers, Start(w) \/ Run(w) \/ SpuriousWakeup(w)
      PROVE  TaskSeen'
  <2>1. CASE Wait(w)
    BY <2>1 DEF Wait, TaskSeen, isEmpty, listVars
  <2>2. CASE ExitRun(w)
    BY <2>2 DEF ExitRun, TaskSeen, isEmpty, listVars
  <2> QED
    BY <1>2, <2>1, <2>2, WorkerAttends DEF TaskSeen
<1>3. CASE UNCHANGED vars
  BY <1>3 DEF vars, TaskSeen, isEmpty, Waiting, Awake, Started
<1> QED
  BY <1>1, <1>2, <1>3 DEF Next

(* No wakeup is lost: with a task in the list and a worker waiting, another *)
(* worker is on its way or a signal is still to come, for any number of     *)
(* workers (lxcqueue.cpp:15-20 and :56-58).                                 *)
THEOREM TaskSeenHolds == Spec => []TaskSeen
<1>1. Init => TaskSeen
  BY DEF Init, TaskSeen, isEmpty
<1> QED
  BY <1>1, TaskSeenNext, TypeCorrect, PTL DEF Spec

-----------------------------------------------------------------------------
(* stop() signals once, so this one is about a queue started once.         *)

(* Every step keeps the only worker from sleeping through stop(). *)
LEMMA StopSeenNext ==
  ASSUME NEW w0, Workers = {w0}
  PROVE  TypeOK /\ StopSeen /\ [Next]_vars => StopSeen'
<1> SUFFICES ASSUME TypeOK, StopSeen, [Next]_vars PROVE StopSeen'
  OBVIOUS
<1>1. ASSUME NEW c \in Callers,
             (\E x \in Tasks : CallAdd(c, x)) \/ CallStop(c) \/ Caller(c)
      PROVE  StopSeen'
  <2>1. CASE SetStop(c)
    BY <2>1 DEF SetStop, TypeOK, StopSeen
  <2>2. CASE ~SetStop(c) /\ Attended
    BY <1>1, <2>2, CallerAttends DEF StopSeen, Attended
  <2>3. CASE ~SetStop(c) /\ ~Attended
    <3>1. stopped' = stopped /\ (Waiting = {} => Waiting' = {})
      BY <1>1, <2>3 DEF CallAdd, CallStop, Caller, CallerLock, Enqueue, Signal,
         workerVars, listVars, Waiting, TypeOK
    <3> QED
      BY <2>3, <3>1 DEF StopSeen, Attended
  <2> QED
    BY <2>1, <2>2, <2>3
<1>2. ASSUME NEW w \in Workers, Start(w) \/ Run(w) \/ SpuriousWakeup(w)
      PROVE  StopSeen'
  <2>1. CASE Wait(w)
    BY <2>1 DEF Wait, StopSeen
  <2>2. CASE ExitRun(w)
    <3>1. Waiting' = {}
      BY <2>2 DEF ExitRun, Waiting, TypeOK
    <3> QED
      BY <3>1 DEF StopSeen
  <2> QED
    BY <1>2, <2>1, <2>2, WorkerAttends DEF StopSeen
<1>3. CASE UNCHANGED vars
  BY <1>3 DEF vars, StopSeen, Waiting, Awake, Started
<1> QED
  BY <1>1, <1>2, <1>3 DEF Next

(* A queue started once does not sleep through stop() (lxcqueue.cpp:32-38). *)
THEOREM StopSeenHolds ==
  ASSUME NEW w0, Workers = {w0} PROVE Spec => []StopSeen
<1>1. Init => StopSeen
  BY DEF Init, StopSeen
<1>2. TypeOK /\ StopSeen /\ [Next]_vars => StopSeen'
  BY StopSeenNext
<1> QED
  BY <1>1, <1>2, TypeCorrect, PTL DEF Spec
-----------------------------------------------------------------------------
(* Induction, without an operator as its parameter.                        *)

(* Every non-empty set of naturals has a least element, by which a set     *)
(* that holds 0 and the successor of each of its elements holds them all.  *)
LEMMA LeastNat ==
  ASSUME NEW S \in SUBSET Nat, S # {}
  PROVE  \E x \in S : \A y \in S : x <= y
<1> DEFINE Less == {p \in Nat \X Nat : p[1] < p[2]}
<1>1. IsWellFoundedOn(Less, Nat)
  BY NatLessThanWellFounded DEF OpToRel
<1>2. \A x, y \in Nat : <<y, x>> \in Less <=> y < x
  OBVIOUS
<1> HIDE DEF Less
<1>3. PICK x \in S : \A y \in S : <<y, x>> \notin Less
  BY <1>1, WFMin
<1>4. \A y \in S : ~(y < x)
  BY <1>2, <1>3
<1> QED
  BY <1>4

(* Induction on the members of a set. *)
LEMMA NatInd ==
  ASSUME NEW S \in SUBSET Nat, 0 \in S, \A n \in S : n + 1 \in S
  PROVE  S = Nat
<1> SUFFICES ASSUME Nat \ S # {} PROVE FALSE
  OBVIOUS
<1>1. PICK x \in Nat \ S : \A y \in Nat \ S : x <= y
  BY LeastNat
<1>2. x - 1 \in Nat /\ x - 1 \in S
  BY <1>1
<1> QED
  BY <1>1, <1>2

-----------------------------------------------------------------------------
(* The list as a sequence, of any length.                                  *)

(* Node and Contents of any head and links. *)
Body(g, h, nx) == [i \in Nat |->
  IF i <= 1 THEN h ELSE LET p == g[i - 1] IN IF p = NoTask THEN NoTask ELSE nx[p]]
NodeFrom(h, nx) == CHOOSE g : g = Body(g, h, nx)
Read(g) ==
  [i \in 1..Cardinality({j \in 1..Cardinality(Tasks) : g[j] # NoTask}) |-> g[i]]

(* s is the list from h on. *)
Linked(s, h, nx) ==
  /\ s \in Seq(Tasks)
  /\ h = IF s = <<>> THEN NoTask ELSE s[1]
  /\ \A i \in 1..Len(s) : nx[s[i]] = IF i = Len(s) THEN NoTask ELSE s[i + 1]
  /\ \A i, j \in 1..Len(s) : s[i] = s[j] => i = j

(* The recursion of Node has a solution when the links are a list.         *)
LEMMA NodeExists ==
  ASSUME NEW h, NEW nx, NEW s, Linked(s, h, nx)
  PROVE  \E g : g = Body(g, h, nx)
<1> DEFINE g == [i \in Nat |-> IF i <= 1 THEN h ELSE IF i <= Len(s) THEN s[i] ELSE NoTask]
<1>0. Len(s) \in Nat /\ (s = <<>> <=> Len(s) = 0) /\ \A i \in 1..Len(s) : s[i] \in Tasks
  BY DEF Linked
<1>1. ASSUME NEW i \in Nat, i > 1
      PROVE g[i] = IF g[i-1] = NoTask THEN NoTask ELSE nx[g[i-1]]
  <2>1. CASE i - 1 <= Len(s)
    <3>1. g[i-1] = s[i-1] /\ i-1 \in 1..Len(s)
      BY <1>0, <1>1, <2>1 DEF Linked
    <3> QED
      BY <1>0, <1>1, <3>1, QueueAssumption DEF Linked
  <2>2. CASE i - 1 > Len(s)
    <3>1. g[i-1] = NoTask /\ g[i] = NoTask
      BY <1>0, <1>1, <2>2 DEF Linked
    <3> QED
      BY <3>1
  <2> QED
    BY <1>0, <2>1, <2>2
<1>2. g = Body(g, h, nx)
  <2>1. \A i \in Nat : g[i] = Body(g, h, nx)[i]
    BY <1>1 DEF Body
  <2> HIDE DEF g
  <2> QED
    BY <2>1 DEF Body, g
<1> QED
  BY <1>2

(* So Node satisfies its recursion. *)
LEMMA NodeEq ==
  ASSUME NEW h, NEW nx, NEW s, Linked(s, h, nx)
  PROVE  NodeFrom(h, nx) = Body(NodeFrom(h, nx), h, nx)
<1>1. PICK g : g = Body(g, h, nx)
  BY NodeExists
<1>2. NodeFrom(h, nx) = CHOOSE f : f = Body(f, h, nx)
  BY DEF NodeFrom, Body
<1> QED
  BY <1>1, <1>2

(* It gives the members of the list in their order, and then the null      *)
(* pointer.                                                                *)
LEMMA NodeIs ==
  ASSUME NEW h, NEW nx, NEW s, Linked(s, h, nx)
  PROVE  \A i \in Nat \ {0} : NodeFrom(h, nx)[i] = IF i <= Len(s) THEN s[i] ELSE NoTask
<1> DEFINE g == NodeFrom(h, nx)
           S == {n \in Nat : g[n + 1] = IF n + 1 <= Len(s) THEN s[n + 1] ELSE NoTask}
<1>0. Len(s) \in Nat /\ (s = <<>> <=> Len(s) = 0) /\ \A i \in 1..Len(s) : s[i] \in Tasks
  BY DEF Linked
<1>1. \A i \in Nat : g[i] = IF i <= 1 THEN h ELSE IF g[i-1] = NoTask THEN NoTask ELSE nx[g[i-1]]
  BY NodeEq DEF Body
<1> HIDE DEF g
<1>2. 0 \in S
  BY <1>0, <1>1 DEF Linked
<1>3. ASSUME NEW n \in S PROVE n + 1 \in S
  <2>1. n + 2 \in Nat /\ ~(n + 2 <= 1) /\ (n + 2) - 1 = n + 1
    OBVIOUS
  <2>2. g[n + 2] = IF g[n + 1] = NoTask THEN NoTask ELSE nx[g[n + 1]]
    BY <1>1, <2>1
  <2>3. CASE n + 1 <= Len(s)
    <3>1. n + 1 \in 1..Len(s) /\ g[n + 1] = s[n + 1] /\ s[n + 1] # NoTask
      BY <1>0, <2>3, QueueAssumption
    <3>2. nx[s[n + 1]] = IF n + 1 = Len(s) THEN NoTask ELSE s[n + 2]
      BY <3>1 DEF Linked
    <3> QED
      BY <1>0, <2>2, <3>1, <3>2
  <2>4. CASE ~(n + 1 <= Len(s))
    <3>1. g[n + 1] = NoTask /\ ~(n + 2 <= Len(s))
      BY <1>0, <2>4
    <3> QED
      BY <2>2, <3>1
  <2> QED
    BY <2>3, <2>4
<1>4. S = Nat
  <2> HIDE DEF S
  <2>1. S \in SUBSET Nat
    BY DEF S
  <2> QED
    BY <1>2, <1>3, <2>1, NatInd
<1>5. ASSUME NEW i \in Nat \ {0} PROVE g[i] = IF i <= Len(s) THEN s[i] ELSE NoTask
  <2>1. i - 1 \in Nat /\ (i - 1) + 1 = i
    OBVIOUS
  <2>2. i - 1 \in S
    BY <1>4, <2>1
  <2> QED
    BY <2>1, <2>2
<1> QED
  BY <1>5 DEF g

(* A list without a task twice is not longer than there are tasks. *)
LEMMA ShortList ==
  ASSUME NEW s \in Seq(Tasks), \A i, j \in 1..Len(s) : s[i] = s[j] => i = j
  PROVE  Len(s) <= Cardinality(Tasks)
<1>1. s \in [1..Len(s) -> Tasks] /\ Len(s) \in Nat
  OBVIOUS
<1>2. s \in Injection(1..Len(s), Tasks)
  BY <1>1, Fun_IsInj
<1>3. Cardinality(1..Len(s)) <= Cardinality(Tasks)
  BY <1>2, QueueAssumption, FS_Injection
<1> QED
  BY SMTT(40), <1>1, <1>3, FS_Interval

(* What is read off the links is the list. *)
LEMMA ReadList ==
  ASSUME NEW h, NEW nx, NEW s, Linked(s, h, nx)
  PROVE  Read(NodeFrom(h, nx)) = s
<1>0. /\ s \in Seq(Tasks) /\ Len(s) \in Nat /\ \A i \in 1..Len(s) : s[i] \in Tasks
      /\ Cardinality(Tasks) \in Nat /\ Len(s) <= Cardinality(Tasks)
  BY ShortList, QueueAssumption, FS_CardinalityType DEF Linked
<1> SUFFICES ASSUME NEW g, \A i \in Nat \ {0} : g[i] = IF i <= Len(s) THEN s[i] ELSE NoTask
             PROVE  Read(g) = s
  BY NodeIs
<1>2. {j \in 1..Cardinality(Tasks) : g[j] # NoTask} = 1..Len(s)
  BY <1>0, QueueAssumption
<1>3. Cardinality({j \in 1..Cardinality(Tasks) : g[j] # NoTask}) = Len(s)
  <2>1. ASSUME NEW n \in Nat PROVE Cardinality(1..n) = n
    <3>1. Cardinality(1..n) = IF 1 > n THEN 0 ELSE n - 1 + 1
      BY FS_Interval
    <3> QED
      BY <3>1
  <2> QED
    BY <1>0, <1>2, <2>1
<1>4. Read(g) = [i \in 1..Len(s) |-> g[i]]
  BY <1>3 DEF Read
<1>5. s = [i \in 1..Len(s) |-> s[i]]
  BY <1>0
<1> QED
  BY <1>0, <1>4, <1>5

-----------------------------------------------------------------------------
(* The sequence the list is at each step.                                  *)

Has(s, x) == \E i \in 1..Len(s) : s[i] = x

(* s is the list: tail is its last node, and other nodes have no link. *)
IsList(s) ==
  /\ Linked(s, head, next)
  /\ tail = IF s = <<>> THEN NoTask ELSE s[Len(s)]
  /\ \A x \in Tasks : ~Has(s, x) => next[x] = NoTask

(* A task is with the caller that adds it, in the list, or was taken. *)
Pending(c) == cpc[c] \in {"addLock", "enqueue"}
Taken(x) == (\E w \in Workers : task[w] = x) \/ Has(done, x)
PlacesOk(s) ==
  /\ \A x \in Tasks : Has(s, x) => x \in added /\ ~Taken(x)
  /\ \A x \in Tasks : Taken(x) => x \in added
  /\ \A c \in Callers : Pending(c) => arg[c] \in added /\ ~Taken(arg[c]) /\ ~Has(s, arg[c])
  /\ \A c, d \in Callers : Pending(c) /\ Pending(d) /\ arg[c] = arg[d] => c = d

ListInv == \E s : IsList(s) /\ PlacesOk(s)

(* Contents is the list, before and after a step. *)
LEMMA ContentsIs == \A s : IsList(s) => Contents = s
<1>1. Contents = Read(NodeFrom(head, next))
  BY DEF Contents, Node, Read, NodeFrom, Body
<1> QED
  BY <1>1, ReadList DEF IsList

LEMMA ContentsIsNext == \A s : IsList(s)' => Contents' = s
<1>1. Contents' = Read(NodeFrom(head', next'))
  BY DEF Contents, Node, Read, NodeFrom, Body
<1> QED
  BY <1>1, ReadList DEF IsList

(* Queue::enqueue appends to the list, once the task is not in it. *)
LEMMA EnqueueList ==
  ASSUME TypeOK, NEW s, IsList(s), NEW x \in Tasks, ~Has(s, x), NEW c \in Callers,
         Enqueue(c), arg[c] = x
  PROVE  IsList(Append(s, x))'
<1> DEFINE t == Append(s, x)
<1>1. /\ s \in Seq(Tasks) /\ Len(s) \in Nat /\ (s = <<>> <=> Len(s) = 0)
      /\ \A i \in 1..Len(s) : s[i] \in Tasks /\ s[i] # x
  BY DEF IsList, Linked, Has
<1>2. /\ t \in Seq(Tasks) /\ Len(t) = Len(s) + 1 /\ t # <<>> /\ t[Len(s) + 1] = x
      /\ \A i \in 1..Len(s) : t[i] = s[i]
  <2>1. /\ t \in Seq(Tasks) /\ t # <<>> /\ Len(t) = Len(s) + 1
        /\ \A i \in 1..Len(s) : t[i] = s[i]
        /\ t[Len(s) + 1] = x
    BY <1>1, AppendProperties
  <2> QED
    BY <2>1
<1> HIDE DEF t
<1>3. /\ next' = IF tail = NoTask THEN next ELSE [next EXCEPT ![tail] = x]
      /\ tail' = x /\ head' = IF head = NoTask THEN x ELSE head
      /\ next \in [Tasks -> Tasks \cup {NoTask}]
      /\ tail = NoTask <=> s = <<>>
      /\ head = NoTask <=> s = <<>>
  BY <1>1, QueueFacts DEF Enqueue, TypeOK, isEmpty, IsList, Linked
<1>4. next[x] = NoTask /\ (s # <<>> => tail = s[Len(s)] /\ head = s[1])
  BY DEF IsList, Linked
<1>5. \A i, j \in 1..Len(s) : s[i] = s[j] => i = j
  BY DEF IsList, Linked
<1>6. ASSUME NEW i \in 1..Len(t)
      PROVE  next'[t[i]] = IF i = Len(t) THEN NoTask ELSE t[i + 1]
  <2>1. CASE i = Len(t)
    <3>1. t[i] = x /\ tail # x
      BY <1>1, <1>2, <1>3, <1>4, <2>1, QueueFacts
    <3> QED
      BY <1>3, <1>4, <2>1, <3>1
  <2>2. CASE i = Len(s)
    <3>1. s # <<>> /\ tail = s[i] /\ t[i] = s[i] /\ t[i + 1] = x /\ i # Len(t) /\ tail \in Tasks
      BY <1>1, <1>2, <1>4, <2>2
    <3> QED
      BY <1>3, <3>1
  <2>3. CASE i # Len(t) /\ i # Len(s)
    <3>1. i \in 1..Len(s) /\ i + 1 \in 1..Len(s) /\ s # <<>> /\ Len(s) \in 1..Len(s)
      BY <1>1, <1>2, <2>3
    <3>2. t[i] = s[i] /\ t[i + 1] = s[i + 1] /\ next[s[i]] = s[i + 1] /\ tail # s[i]
      BY <1>2, <1>4, <1>5, <2>3, <3>1 DEF IsList, Linked
    <3> QED
      BY <1>1, <1>3, <2>3, <3>1, <3>2
  <2> QED
    BY <2>1, <2>2, <2>3
<1>7. \A i, j \in 1..Len(t) : t[i] = t[j] => i = j
  BY <1>1, <1>2, <1>5
<1>8. head' = IF t = <<>> THEN NoTask ELSE t[1]
  BY <1>1, <1>2, <1>3, <1>4
<1>9. tail' = IF t = <<>> THEN NoTask ELSE t[Len(t)]
  BY <1>2, <1>3
<1>10. ASSUME NEW y \in Tasks, ~Has(t, y) PROVE next'[y] = NoTask
  <2>1. y # x /\ ~Has(s, y)
    BY <1>1, <1>2, <1>10 DEF Has
  <2>2. next[y] = NoTask /\ (s # <<>> => tail # y)
    BY <1>1, <1>4, <2>1 DEF IsList, Has
  <2> QED
    BY <1>3, <2>2
<1>11. Linked(t, head', next')
  BY <1>2, <1>6, <1>7, <1>8 DEF Linked
<1> QED
  BY <1>9, <1>10, <1>11 DEF IsList, t

(* Queue::dequeue takes the first task off. *)
LEMMA DequeueList ==
  ASSUME TypeOK, NEW s, IsList(s), NEW w \in Workers, Dequeue(w)
  PROVE  /\ s # <<>> /\ head = Head(s) /\ IsList(Tail(s))'
         /\ ~Has(Tail(s), head) /\ \A x : Has(Tail(s), x) => Has(s, x)
<1> DEFINE t == Tail(s)
<1> HIDE DEF t
<1>1. /\ s \in Seq(Tasks) /\ s # <<>> /\ Len(s) \in Nat \ {0} /\ head = s[1]
      /\ \A i \in 1..Len(s) : s[i] \in Tasks
      /\ \A i, j \in 1..Len(s) : s[i] = s[j] => i = j
      /\ \A i \in 1..Len(s) : next[s[i]] = IF i = Len(s) THEN NoTask ELSE s[i + 1]
      /\ tail = s[Len(s)]
  BY DEF Dequeue, isEmpty, IsList, Linked
<1>2. /\ t \in Seq(Tasks) /\ Len(t) = Len(s) - 1 /\ (t = <<>> <=> Len(s) = 1)
      /\ \A i \in 1..Len(t) : t[i] = s[i + 1]
  <2>1. /\ t \in Seq(Tasks) /\ Len(t) = Len(s) - 1
        /\ \A i \in 1..Len(t) : t[i] = s[i + 1]
    BY <1>1, HeadTailProperties DEF t
  <2>2. t = <<>> <=> Len(t) = 0
    BY <2>1, EmptySeq
  <2> QED
    BY <1>1, <2>1, <2>2
<1>3. /\ head' = next[head] /\ tail' = IF next[head] = NoTask THEN NoTask ELSE tail
      /\ next' = [next EXCEPT ![head] = NoTask] /\ next \in [Tasks -> Tasks \cup {NoTask}]
      /\ head \in Tasks
  BY <1>1 DEF Dequeue, TypeOK
<1>4. ASSUME NEW i \in 1..Len(t) PROVE i + 1 \in 1..Len(s) /\ t[i] = s[i + 1] /\ t[i] # head
  BY <1>1, <1>2
<1>5. head' = IF t = <<>> THEN NoTask ELSE t[1]
  <2>1. CASE Len(s) = 1
    BY <1>1, <1>2, <1>3, <2>1
  <2>2. CASE Len(s) # 1
    <3>1. 1 \in 1..Len(t)
      BY <1>1, <1>2, <2>2
    <3> QED
      BY <1>1, <1>2, <1>3, <2>2, <3>1
  <2> QED
    BY <2>1, <2>2
<1>6. ASSUME NEW i \in 1..Len(t)
      PROVE  next'[t[i]] = IF i = Len(t) THEN NoTask ELSE t[i + 1]
  <2>1. next'[t[i]] = next[s[i + 1]] /\ t[i] \in Tasks
    BY <1>1, <1>3, <1>4
  <2>2. CASE i = Len(t)
    BY <1>1, <1>2, <2>1, <2>2
  <2>3. CASE i # Len(t)
    <3>1. i + 1 \in 1..Len(t) /\ i + 1 \in 1..Len(s) /\ i + 1 # Len(s)
      BY <1>1, <1>2, <2>3
    <3> QED
      BY <1>1, <1>2, <2>1, <2>3, <3>1
  <2> QED
    BY <2>2, <2>3
<1>7. \A i, j \in 1..Len(t) : t[i] = t[j] => i = j
  BY SMTT(40), <1>1, <1>2, <1>4
<1>8. Linked(t, head', next')
  BY <1>2, <1>5, <1>6, <1>7 DEF Linked
<1>9. tail' = IF t = <<>> THEN NoTask ELSE t[Len(t)]
  <2>1. CASE Len(s) = 1
    BY <1>1, <1>2, <1>3, <2>1
  <2>2. CASE Len(s) # 1
    <3>1. Len(t) \in 1..Len(t) /\ t[Len(t)] = s[Len(s)] /\ t # <<>>
      BY <1>1, <1>2, <2>2
    <3>2. 1 \in 1..Len(s) /\ 2 \in 1..Len(s) /\ 1 + 1 = 2
      <4>1. \A n \in Nat \ {0} : n # 1 => 1 \in 1..n /\ 2 \in 1..n /\ 1 + 1 = 2
        OBVIOUS
      <4>2. Len(s) \in Nat \ {0}
        BY <1>1
      <4> QED
        BY <2>2, <4>1, <4>2
    <3>3. next[head] = s[2]
      BY <1>1, <2>2, <3>2
    <3> QED
      BY <1>1, <1>3, <3>1, <3>2, <3>3, QueueFacts
  <2> QED
    BY <2>1, <2>2
<1>10. ~Has(t, head) /\ \A x : Has(t, x) => Has(s, x)
  BY <1>4 DEF Has
<1>11. ASSUME NEW y \in Tasks, ~Has(t, y) PROVE next'[y] = NoTask
  <2>1. CASE y = head
    BY <1>3, <2>1
  <2>2. CASE y # head
    <3>1. ~Has(s, y)
      <4> SUFFICES ASSUME NEW i \in 1..Len(s), s[i] = y PROVE FALSE
        BY DEF Has
      <4>1. i # 1
        BY <1>1, <2>2
      <4>2. i - 1 \in 1..Len(t) /\ (i - 1) + 1 = i
        BY <1>1, <1>2, <4>1
      <4>3. t[i - 1] = y
        BY <1>2, <4>2
      <4> QED
        BY <1>11, <4>2, <4>3 DEF Has
    <3> QED
      BY <1>3, <2>2, <3>1 DEF IsList
  <2> QED
    BY <2>1, <2>2
<1>12. IsList(t)'
  BY <1>8, <1>9, <1>11 DEF IsList
<1> QED
  BY <1>1, <1>10, <1>12 DEF t

(* A step of the queue that leads from the list s to the list t is a step  *)
(* of FifoRunner.                                                          *)
Refines(s, t) == Contents = s /\ Contents' = t => [Fifo!Next]_(Fifo!vars)
Follows(s, t) == IsList(t)' /\ PlacesOk(t)' /\ Refines(s, t)

(* A step that leaves the pointers alone leaves the list.                  *)
LEMMA ListKept == ASSUME NEW s, IsList(s), UNCHANGED listVars PROVE IsList(s)'
BY DEF IsList, listVars

(* Tasks stay where they are when none is added or taken. *)
LEMMA PlacesKept ==
  ASSUME NEW s, PlacesOk(s), added' = added, \A x : Taken(x)' => Taken(x),
         \A c \in Callers : Pending(c)' => Pending(c) /\ arg'[c] = arg[c]
  PROVE  PlacesOk(s)'
BY DEF PlacesOk

(* A step that leaves the list, the tasks and the end of workers alone. *)
LEMMA QueueKept ==
  ASSUME TypeOK, NEW s, IsList(s), PlacesOk(s), UNCHANGED <<listVars, added, done, stopped, task>>,
         \A w \in Workers : wpc'[w] = "exited" <=> wpc[w] = "exited",
         \A c \in Callers : Pending(c)' => Pending(c) /\ arg'[c] = arg[c]
  PROVE  Follows(s, s)
<1>1. PlacesOk(s)'
  BY PlacesKept DEF Taken
<1>2. {w \in Workers : wpc[w] = "exited"}' = {w \in Workers : wpc[w] = "exited"}
  OBVIOUS
<1>3. Refines(s, s)
  BY <1>2 DEF Refines, Fifo!vars
<1> QED
  BY <1>1, <1>3, ListKept DEF Follows

(* A caller's step keeps the list well formed and refines FifoRunner: of   *)
(* addTask the part under the lock submits, of stop() it closes.           *)
LEMMA CallerFollows ==
  ASSUME TypeOK, NEW s, IsList(s), PlacesOk(s), NEW c \in Callers,
         (\E x \in Tasks : CallAdd(c, x)) \/ CallStop(c) \/ Caller(c)
  PROVE  \E t : Follows(s, t)
<1>1. ASSUME NEW x \in Tasks, CallAdd(c, x) PROVE Follows(s, s)
  <2>1. UNCHANGED <<listVars, task, done, stopped, wpc>> /\ added' = added \cup {x}
    BY <1>1 DEF CallAdd, workerVars
  <2>2. x \notin added /\ ~Has(s, x) /\ ~Taken(x) /\ arg'[c] = x
    BY <1>1 DEF CallAdd, PlacesOk, TypeOK
  <2>3. \A d \in Callers \ {c} : Pending(d)' => Pending(d) /\ arg'[d] = arg[d]
    BY <1>1 DEF CallAdd, Pending, TypeOK
  <2>4. PlacesOk(s)'
    BY <2>1, <2>2, <2>3 DEF PlacesOk, Taken
  <2>5. Refines(s, s)
    BY <2>1 DEF Refines, Fifo!vars
  <2> QED
    BY <2>1, <2>4, <2>5, ListKept DEF Follows
<1>2. CASE CallStop(c)
  BY <1>2, QueueKept DEF CallStop, MayCall, Pending, TypeOK, workerVars
<1>3. CASE CallerLock(c)
  BY <1>3, QueueKept DEF CallerLock, Pending, TypeOK, workerVars
<1>4. CASE Enqueue(c)
  <2>1. PICK x \in Tasks : arg[c] = x
    BY <1>4 DEF Enqueue, TypeOK
  <2> DEFINE t == Append(s, x)
  <2>2. Pending(c) /\ ~Has(s, x) /\ ~Taken(x) /\ x \in added
    BY <1>4, <2>1 DEF Enqueue, PlacesOk, Pending
  <2>3. IsList(t)'
    BY <1>4, <2>1, <2>2, EnqueueList
  <2>4. \A y : Has(t, y) => Has(s, y) \/ y = x
    <3>1. s \in Seq(Tasks)
      BY DEF IsList, Linked
    <3>2. /\ Len(t) = Len(s) + 1 /\ Len(s) \in Nat
          /\ \A i \in 1..Len(s) : t[i] = s[i]
          /\ t[Len(s) + 1] = x
      BY <3>1, AppendProperties
    <3> HIDE DEF t
    <3> QED
      BY <3>2 DEF Has
  <2> HIDE DEF t
  <2>5. /\ UNCHANGED <<task, done, stopped, wpc, added, arg>>
        /\ \A d \in Callers : Pending(d)' => Pending(d) /\ d # c
    BY <1>4 DEF Enqueue, Pending, TypeOK, workerVars
  <2>6. PlacesOk(t)'
    BY <2>1, <2>2, <2>4, <2>5 DEF PlacesOk, Taken
  <2>7. Refines(s, t)
    BY <2>5 DEF Refines, Fifo!Next, Fifo!Submit, t
  <2> QED
    BY <2>3, <2>6, <2>7 DEF Follows
<1>5. CASE SetStop(c)
  <2>1. UNCHANGED <<listVars, added, arg, task, done, wpc>> /\ stopped' = TRUE
    BY <1>5 DEF SetStop, workerVars
  <2>2. PlacesOk(s)'
    BY <1>5, <2>1, PlacesKept DEF SetStop, Pending, TypeOK, Taken
  <2>3. Refines(s, s)
    BY <2>1 DEF Refines, Fifo!Next, Fifo!Close
  <2> QED
    BY <2>1, <2>2, <2>3, ListKept DEF Follows
<1>6. CASE Signal(c)
  BY <1>6, QueueKept DEF Signal, Waiting, Pending, TypeOK
<1> QED
  BY <1>1, <1>2, <1>3, <1>4, <1>5, <1>6 DEF Caller

(* So does a worker's: dequeue begins a task, its call back finishes it,   *)
(* and the end of run() leaves.                                            *)
LEMMA WorkerFollows ==
  ASSUME TypeOK, NEW s, IsList(s), PlacesOk(s), NEW w \in Workers,
         Start(w) \/ Run(w) \/ SpuriousWakeup(w)
  PROVE  \E t : Follows(s, t)
<1>1. CASE Start(w)
  BY <1>1, QueueKept DEF Start, Pending, TypeOK, callerVars
<1>2. CASE Lock(w)
  BY <1>2, QueueKept DEF Lock, Pending, TypeOK, callerVars
<1>3. CASE Wait(w)
  BY <1>3, QueueKept DEF Wait, Pending, TypeOK, callerVars
<1>4. CASE ExitRun(w)
  <2>1. UNCHANGED <<listVars, cpc, arg, added, stopped, task, done>> /\ stopped
    BY <1>4 DEF ExitRun, callerVars
  <2>2. PlacesOk(s)'
    BY <2>1, PlacesKept DEF Pending, Taken
  <2>3. s = <<>> /\ task[w] = NoTask
    BY SMTT(40), <1>4, QueueFacts DEF ExitRun, isEmpty, IsList, Linked, TypeOK
  <2>4. {v \in Workers : wpc[v] = "exited"}' = {v \in Workers : wpc[v] = "exited"} \cup {w}
    BY <1>4 DEF ExitRun, TypeOK
  <2>5. Refines(s, s)
    BY <2>1, <2>3, <2>4 DEF Refines, Fifo!Next, Fifo!Leave
  <2> QED
    BY <2>1, <2>2, <2>5, ListKept DEF Follows
<1>5. CASE Dequeue(w)
  <2>1. PICK x \in Tasks : head = x
    BY <1>5 DEF Dequeue, isEmpty, TypeOK
  <2> DEFINE t == Tail(s)
  <2>2. s # <<>> /\ x = Head(s) /\ IsList(t)' /\ ~Has(t, x) /\ \A y : Has(t, y) => Has(s, y)
    BY <1>5, <2>1, DequeueList
  <2> HIDE DEF t
  <2>3. /\ UNCHANGED <<cpc, arg, added, stopped, done>>
        /\ task' = [task EXCEPT ![w] = x] /\ wpc' = [wpc EXCEPT ![w] = "run"]
        /\ wpc[w] = "test" /\ task[w] = NoTask
    BY <1>5, <2>1 DEF Dequeue, TypeOK, callerVars
  <2>4. \A y : Taken(y)' => Taken(y) \/ y = x
    BY <2>3 DEF Taken, TypeOK
  <2>5. Has(s, x)
    BY <2>1, <2>2, HeadTailProperties DEF IsList, Linked, Has
  <2>6. PlacesOk(t)'
    BY <2>2, <2>3, <2>4, <2>5 DEF PlacesOk, Pending
  <2>7. {v \in Workers : wpc[v] = "exited"}' = {v \in Workers : wpc[v] = "exited"}
    BY <2>3 DEF TypeOK
  <2>8. Refines(s, t)
    BY <2>2, <2>3, <2>7 DEF Refines, Fifo!Next, Fifo!Begin, t
  <2> QED
    BY <2>2, <2>6, <2>8 DEF Follows
<1>6. CASE RunTask(w)
  BY <1>6, QueueKept DEF RunTask, Pending, TypeOK, callerVars
<1>7. CASE InvokeCallback(w)
  <2>1. PICK x \in Tasks : task[w] = x
    BY <1>7 DEF InvokeCallback, TypeOK
  <2>2. /\ UNCHANGED <<listVars, cpc, arg, added, stopped>>
        /\ done' = Append(done, x) /\ task' = [task EXCEPT ![w] = NoTask]
        /\ wpc' = [wpc EXCEPT ![w] = "lock"] /\ wpc[w] = "callback"
    BY <1>7, <2>1 DEF InvokeCallback, callerVars
  <2>3. \A y : Has(done, y)' => Has(done, y) \/ y = x
    BY <2>2, AppendProperties DEF Has, TypeOK
  <2>4. \A y : Taken(y)' => Taken(y) \/ y = NoTask
    BY <2>1, <2>2, <2>3 DEF Taken, TypeOK
  <2>5. {v \in Workers : wpc[v] = "exited"}' = {v \in Workers : wpc[v] = "exited"}
    BY <2>2 DEF TypeOK
  <2>6. PlacesOk(s)'
    BY <2>2, <2>4, QueueFacts DEF PlacesOk, Pending, TypeOK
  <2>7. Refines(s, s)
    BY <2>1, <2>2, <2>5, QueueFacts DEF Refines, Fifo!Next, Fifo!Finish
  <2> QED
    BY <2>2, <2>6, <2>7, ListKept DEF Follows
<1>8. CASE SpuriousWakeup(w)
  BY <1>8, QueueKept DEF SpuriousWakeup, Pending, TypeOK, callerVars
<1> QED
  BY <1>1, <1>2, <1>3, <1>4, <1>5, <1>6, <1>7, <1>8 DEF Run

(* So does every step. *)
LEMMA QueueFollows ==
  ASSUME TypeOK, NEW s, IsList(s), PlacesOk(s), [Next]_vars
  PROVE  \E t : Follows(s, t)
<1>1. CASE UNCHANGED vars
  BY <1>1, QueueKept DEF vars, listVars, Pending
<1> QED
  BY <1>1, CallerFollows, WorkerFollows DEF Next

(* The list is empty at first, and nobody is busy. *)
LEMMA ListInit == Init => ListInv /\ Fifo!Init
<1> SUFFICES ASSUME Init PROVE ListInv /\ Fifo!Init
  OBVIOUS
<1>1. <<>> \in Seq(Tasks) /\ Len(<<>>) = 0 /\ \A x : ~Has(<<>>, x)
  BY DEF Has
<1>2. IsList(<<>>)
  BY <1>1 DEF Init, IsList, Linked
<1>3. PlacesOk(<<>>)
  <2>1. \A c \in Callers : ~Pending(c)
    BY DEF Init, Pending
  <2>2. \A x \in Tasks : ~Taken(x)
    BY <1>1, QueueFacts DEF Init, Taken
  <2> QED
    BY <1>1, <2>1, <2>2 DEF PlacesOk
<1>4. Contents = <<>>
  BY <1>2, ContentsIs
<1>5. {w \in Workers : wpc[w] = "exited"} = {}
  BY DEF Init
<1> QED
  BY <1>2, <1>3, <1>4, <1>5 DEF ListInv, Fifo!Init, Init

(* Every step keeps the list and is a step of FifoRunner or a stutter. *)
LEMMA ListNext == TypeOK /\ ListInv /\ [Next]_vars => ListInv' /\ [Fifo!Next]_(Fifo!vars)
<1> SUFFICES ASSUME TypeOK, ListInv, [Next]_vars PROVE ListInv' /\ [Fifo!Next]_(Fifo!vars)
  OBVIOUS
<1>1. PICK s : IsList(s) /\ PlacesOk(s)
  BY DEF ListInv
<1>2. PICK t : Follows(s, t)
  BY <1>1, QueueFollows
<1>3. Contents = s /\ Contents' = t
  BY <1>1, <1>2, ContentsIs, ContentsIsNext DEF Follows
<1> QED
  BY <1>2, <1>3 DEF Follows, Refines, ListInv

(* The linked list is well formed, however long it gets: it ends at tail,  *)
(* has no cycle, and a task that was taken is out of it (lxcqueue.cpp).    *)
THEOREM ListHolds == Spec => []ListOK
<1>1. ListInv => ListOK
  <2> SUFFICES ASSUME ListInv PROVE ListOK
    OBVIOUS
  <2>1. PICK s : IsList(s) /\ PlacesOk(s)
    BY DEF ListInv
  <2>2. Contents = s
    BY <2>1, ContentsIs
  <2>3. /\ s \in Seq(Tasks) /\ Len(s) \in Nat /\ (s = <<>> <=> Len(s) = 0)
        /\ \A i \in 1..Len(s) : s[i] \in Tasks /\ ~Taken(s[i])
        /\ \A i, j \in 1..Len(s) : s[i] = s[j] => i = j
    BY <2>1 DEF IsList, Linked, PlacesOk, Has
  <2>4. s = <<>> \/ (s[Len(s)] = tail /\ next[tail] = NoTask)
    <3>1. s # <<>> => Len(s) \in 1..Len(s)
      BY <2>3
    <3> QED
      BY <2>1, <3>1 DEF IsList, Linked
  <2> QED
    BY <2>2, <2>3, <2>4 DEF ListOK, Taken, Has
<1> QED
  BY <1>1, ListInit, ListNext, TypeCorrect, PTL DEF Spec

(* Every step of the queue is one of FifoRunner or a stutter: tasks begin  *)
(* in the order they were added, each once, and stop() drains the list.    *)
THEOREM RunsInOrderHolds == Spec => RunsInOrder
<1>1. Init => Fifo!Init
  BY ListInit
<1> QED
  BY <1>1, ListInit, ListNext, TypeCorrect, PTL DEF Spec, RunsInOrder, Fifo!Spec
=============================================================================
