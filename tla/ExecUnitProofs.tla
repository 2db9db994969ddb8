--------------------------- MODULE ExecUnitProofs ---------------------------
(* Proofs about ExecUnit for any set of units, services and containers and  *)
(* any bound on threads and events.                                         *)
EXTENDS ExecUnit, TLAPS

(* A named unit has a CProcess and an environment. *)
LEMMA NamedFacts ==
  /\ Named \subseteq Units /\ NoUnit \notin Named
  /\ \A u \in Named : nameOf[u] \in Services /\ envOf[u] \in Envs
BY ConstantsAssumption DEF Named

(* What a visit of the main thread leaves well-typed. *)
LEMMA EnterType ==
  ASSUME TypeOK, NEW u \in todo, Enter(u)
  PROVE  /\ u \in Named /\ nameOf[u] \in Services /\ mpc = "loop" /\ cur' = u
         /\ todo' \subseteq Units /\ walk' \in BOOLEAN
         /\ requested' \in [Units -> States] /\ status' \in [Units -> States]
         /\ home' \in [Services -> Envs \cup {NoEnv}]
         /\ target' = target /\ queue' \in Seq(Units \cup {Managed})
         /\ up' \subseteq Envs
<1>1. u \in Named /\ nameOf[u] \in Services /\ envOf[u] \in Envs
  BY NamedFacts DEF Enter
<1>2. Wanted(u) \in States
  BY <1>1, NamedFacts DEF Wanted, States, TypeOK
<1> QED
  BY <1>1, <1>2 DEF Enter, Visit, TypeOK

(* A worker that has something left to do runs a unit with a name. *)
LEMMA WorkerUnit ==
  ASSUME TypeOK, NEW t \in Threads, wpc[t] # "none" \/ proc[t] # "none"
  PROVE  t <= spawned /\ unit[t] \in Named /\ Svc(t) \in Services
<1>1. t <= spawned /\ unit[t] \in Named
  BY DEF TypeOK, CreatedOK
<1> QED
  BY <1>1, NamedFacts DEF Svc

-----------------------------------------------------------------------------
(* The initial state is well-typed. *)
LEMMA TypeInit == Init => TypeOK
<1> SUFFICES ASSUME Init PROVE TypeOK
  OBVIOUS
<1>1. queue \in Seq(Units \cup {Managed})
  BY DEF Init
<1>2. 0 \in Pids /\ spawned \in 0..MaxThreads /\ \A t \in Threads : ~(t <= spawned)
  BY ConstantsAssumption DEF Init, Pids, Threads
<1>3. /\ wpc \in [Threads -> WorkerPcs] /\ proc \in [Threads -> ProcStates]
      /\ unit \in [Threads -> Units \cup {NoUnit}] /\ target \in [Threads -> Pids]
      /\ \A t \in Threads : wpc[t] = "none" /\ proc[t] = "none"
  BY <1>2 DEF Init, WorkerPcs, ProcStates
<1> QED
  BY <1>1, <1>2, <1>3 DEF Init, TypeOK, CreatedOK, States

(* Every step keeps the types. *)
LEMMA TypeNext == TypeOK /\ [Next]_vars => TypeOK'
<1> SUFFICES ASSUME TypeOK, [Next]_vars PROVE TypeOK'
  OBVIOUS
<1> USE ConstantsAssumption, NamedFacts DEF Threads, Pids
<1>0. spawned \in 0..MaxThreads
  BY DEF TypeOK
<1>1. ASSUME NEW u \in Units, NEW v \in States, AcsWrite(u, v) PROVE TypeOK'
  BY <1>1 DEF AcsWrite, TypeOK, CreatedOK, workerVars, mainVars
<1>2. CASE TakeEvent
  <2>1. queue \in Seq(Units \cup {Managed}) /\ queue # <<>>
    BY <1>2 DEF TakeEvent, TypeOK
  <2>2. Tail(queue) \in Seq(Units \cup {Managed}) /\ Head(queue) \in Units \cup {Managed}
    BY <2>1
  <2> QED
    BY <1>2, <2>2 DEF TakeEvent, TypeOK, unitVars, CreatedOK, workerVars
<1>3. ASSUME NEW u \in todo, Process(u) PROVE TypeOK'
  <2>1. CASE SkipUnnamed(u)
    <3>1. Wanted(u) \in States
      BY DEF Wanted, TypeOK, States
    <3> QED
      BY <2>1, <3>1 DEF SkipUnnamed, Visit, TypeOK, CreatedOK
  <2>2. CASE Start(u)
    <3>1. Enter(u) BY <2>2 DEF Start
    <3>5. \A s \in Services : pid[s] \in 0..(spawned + 1)
      BY DEF TypeOK
    <3>6. \A t \in Threads : target[t] \in 0..(spawned + 1)
      BY DEF TypeOK
    <3>2. spawned + 1 \in Threads /\ spawned + 1 \in 0..MaxThreads
      BY <2>2 DEF Start, Exhausted, TypeOK
    <3>3. /\ running' \in [Services -> BOOLEAN] /\ spawned' = spawned + 1
          /\ wpc' \in [Threads -> WorkerPcs]
          /\ unit' \in [Threads -> Units \cup {NoUnit}]
      BY <2>2, <3>1, <3>2, EnterType DEF Start, TypeOK, WorkerPcs
    <3>4. CreatedOK'
      BY SMTT(40), <2>2, <3>1, <3>2, EnterType DEF Start, TypeOK, CreatedOK
    <3>7. /\ UNCHANGED <<pid, target, proc, victim>> /\ mpc' = "report"
          /\ cur' \in Named /\ cur' # NoUnit
      BY <2>2, <3>1, EnterType DEF Start
    <3>8. /\ pid' \in [Services -> Pids'] /\ target' \in [Threads -> Pids']
          /\ proc' \in [Threads -> ProcStates] /\ victim' \in Pids'
      BY <3>3, <3>5, <3>6, <3>7 DEF TypeOK
    <3> QED
      BY <3>1, <3>2, <3>3, <3>4, <3>7, <3>8, EnterType DEF TypeOK
  <2>3. CASE StartFails(u)
    <3>1. Enter(u) BY <2>3 DEF StartFails
    <3> QED
      BY <2>3, <3>1, EnterType DEF StartFails, TypeOK, CreatedOK
  <2>4. CASE Kill(u)
    <3>1. Enter(u) BY <2>4 DEF Kill
    <3>2. pid[nameOf[u]] \in Threads /\ pid[nameOf[u]] <= spawned
      BY SMTT(40), <2>4, <3>1, EnterType DEF Kill, TypeOK
    <3>3. proc' \in [Threads -> ProcStates]
      BY <2>4, <3>2 DEF Kill, TypeOK, ProcStates
    <3>4. CreatedOK'
      BY <2>4, <3>2 DEF Kill, TypeOK, CreatedOK
    <3>5. UNCHANGED <<running, pid, spawned, wpc, unit, victim>> /\ mpc' = "killed"
      BY <2>4 DEF Kill
    <3>6. pid'[nameOf[cur']] # 0
      BY <3>1, <3>2, <3>5, EnterType
    <3> QED
      BY <3>1, <3>2, <3>3, <3>4, <3>5, <3>6, EnterType DEF TypeOK
  <2>5. CASE StopUnattached(u)
    <3>1. Enter(u) BY <2>5 DEF StopUnattached
    <3> QED
      BY SMTT(40), <2>5, <3>1, EnterType DEF StopUnattached, TypeOK, CreatedOK
  <2>6. CASE Already(u)
    <3>1. Enter(u) BY <2>6 DEF Already
    <3> QED
      BY <2>6, <3>1, EnterType DEF Already, TypeOK, CreatedOK
  <2> QED
    BY <1>3, <2>1, <2>2, <2>3, <2>4, <2>5, <2>6 DEF Process
<1>4. CASE StopReturns
  <2>1. cur \in Named /\ nameOf[cur] \in Services /\ victim \in Threads
    BY <1>4 DEF StopReturns, TypeOK
  <2>2. victim <= spawned /\ proc' \in [Threads -> ProcStates] /\ running' \in [Services -> BOOLEAN]
    BY <1>4, <2>1 DEF StopReturns, TypeOK, ProcStates
  <2>3. CreatedOK'
    BY <1>4, <2>2 DEF StopReturns, TypeOK, CreatedOK, workerVars
  <2> QED
    BY <1>4, <2>1, <2>2, <2>3 DEF StopReturns, TypeOK, unitVars, workerVars
<1>11. CASE WaitVictim
  BY <1>11 DEF WaitVictim, TypeOK, CreatedOK, unitVars, workerVars
<1>5. CASE Report
  BY <1>5 DEF Report, TypeOK, CreatedOK, States, workerVars
<1>6. ASSUME NEW t \in Threads, Worker(t) PROVE TypeOK'
  <2> USE DEF unitVars, mainVars
  <2>0. wpc[t] # "none"
    BY <1>6 DEF Worker, CheckFails, CheckPasses, Attach, AttachFails, ReadPid,
                WaitReturns, ServiceExit
  <2>1. t <= spawned /\ unit[t] \in Named /\ Svc(t) \in Services
    BY <2>0, WorkerUnit
  <2>2. CASE CheckFails(t)
    BY <2>1, <2>2 DEF CheckFails, Goto, TypeOK, CreatedOK, WorkerPcs
  <2>3. CASE CheckPasses(t)
    BY <2>1, <2>3 DEF CheckPasses, Goto, TypeOK, CreatedOK, WorkerPcs
  <2>4. CASE Attach(t)
    BY SMTT(40), <2>1, <2>4 DEF Attach, Goto, TypeOK, CreatedOK, WorkerPcs, ProcStates
  <2>5. CASE AttachFails(t)
    BY <2>1, <2>5 DEF AttachFails, Goto, TypeOK, CreatedOK, WorkerPcs
  <2>6. CASE ReadPid(t)
    BY <2>1, <2>6 DEF ReadPid, Goto, TypeOK, CreatedOK, WorkerPcs
  <2>7. CASE WaitReturns(t)
    <3>1. /\ wpc' \in [Threads -> WorkerPcs] /\ wpc'[t] = "callback"
          /\ \A p \in Threads : p # t => wpc'[p] = wpc[p]
      BY <2>7 DEF WaitReturns, Goto, TypeOK, WorkerPcs
    <3>2. proc' = proc \/ \E p \in Threads :
            p <= spawned /\ proc' = [proc EXCEPT ![p] = "gone"]
      <4>1. CASE target[t] # 0 /\ proc' = [proc EXCEPT ![target[t]] = "gone"]
        <5>1. target[t] \in Threads /\ target[t] <= spawned
          BY <4>1 DEF TypeOK
        <5> QED
          BY <4>1, <5>1
      <4>2. ASSUME NEW p \in Threads, proc[p] = "zombie",
                   proc' = [proc EXCEPT ![p] = "gone"]
            PROVE  p <= spawned
        BY <4>2, WorkerUnit
      <4> QED
        BY <2>7, <4>1, <4>2 DEF WaitReturns
    <3>3. /\ proc' \in [Threads -> ProcStates]
          /\ \A p \in Threads : p > spawned => proc'[p] = proc[p]
      BY SMTT(40), <3>2 DEF TypeOK, ProcStates
    <3>4. CreatedOK'
      BY SMTT(40), <2>1, <2>7, <3>1, <3>3 DEF WaitReturns, TypeOK, CreatedOK
    <3> QED
      BY <2>7, <3>1, <3>3, <3>4 DEF WaitReturns, TypeOK
  <2>8. CASE ServiceExit(t)
    BY SMTT(40), <2>1, <2>8 DEF ServiceExit, Goto, TypeOK, CreatedOK, WorkerPcs
  <2> QED
    BY <1>6, <2>2, <2>3, <2>4, <2>5, <2>6, <2>7, <2>8 DEF Worker
<1>7. ASSUME NEW t \in Threads, Exit(t) \/ Terminate(t) PROVE TypeOK'
  <2>1. t <= spawned
    BY <1>7, WorkerUnit DEF Exit, Terminate
  <2>2. proc' = [proc EXCEPT ![t] = "zombie"]
    BY <1>7 DEF Exit, Terminate
  <2>3. /\ proc' \in [Threads -> ProcStates]
        /\ \A p \in Threads : p > spawned => proc'[p] = proc[p]
    BY <2>1, <2>2 DEF TypeOK, ProcStates
  <2>4. CreatedOK'
    BY <1>7, <2>3 DEF Exit, Terminate, TypeOK, CreatedOK, workerVars
  <2> QED
    BY SMTT(40), <1>7, <2>3, <2>4 DEF Exit, Terminate, TypeOK, unitVars, workerVars, mainVars
<1>8. ASSUME NEW e \in Envs, ContainerStop(e) PROVE TypeOK'
  BY <1>8 DEF ContainerStop, TypeOK, CreatedOK, ProcStates, Live, unitVars, workerVars, mainVars
<1>9. ASSUME NEW e \in Envs, ContainerStart(e) PROVE TypeOK'
  BY <1>9 DEF ContainerStart, TypeOK, CreatedOK, unitVars, workerVars, mainVars
<1>10. CASE UNCHANGED vars
  BY <1>10 DEF vars, TypeOK, CreatedOK
<1> QED
  BY <1>1, <1>2, <1>3, <1>4, <1>5, <1>6, <1>7, <1>8, <1>9, <1>10, <1>11 DEF Next, MainStep

(* The variables of the daemon keep their types. *)
THEOREM TypeCorrect == Spec => []TypeOK
BY TypeInit, TypeNext, PTL DEF Spec

-----------------------------------------------------------------------------
(* Appending an event keeps the waiting ones and adds its own. *)
LEMMA AppendQueued ==
  ASSUME TypeOK, NEW x \in Units, queue' = Append(queue, x), NEW u
  PROVE  Queued(u)' <=> Queued(u) \/ u = x
<1>1. /\ queue \in Seq(Units \cup {Managed})
      /\ Len(queue') = Len(queue) + 1 /\ Len(queue) \in Nat
      /\ queue'[Len(queue) + 1] = x
      /\ \A i \in 1..Len(queue) : queue'[i] = queue[i]
  BY DEF TypeOK
<1> QED
  BY <1>1 DEF Queued

(* The unit of the event that is taken is visited, all units if it is       *)
(* Managed; every other event still waits.                                  *)
LEMMA TakePending ==
  ASSUME TypeOK, TakeEvent, NEW u \in Units, Pending(u)
  PROVE  Pending(u)'
<1>1. CASE Queued(u)
  <2>1. /\ queue \in Seq(Units \cup {Managed}) /\ queue # <<>> /\ queue' = Tail(queue)
        /\ todo' = IF Head(queue) = Managed THEN Units ELSE {Head(queue)}
    BY DEF TypeOK, TakeEvent
  <2>2. PICK i \in 1..Len(queue) : queue[i] = u
    BY <1>1 DEF Queued
  <2>3. CASE i = 1
    BY <2>1, <2>2, <2>3 DEF Pending
  <2>4. CASE i # 1
    <3>1. i - 1 \in 1..Len(queue') /\ queue'[i - 1] = u
      BY <2>1, <2>2, <2>4
    <3> QED
      BY <3>1 DEF Pending, Queued
  <2> QED
    BY <2>3, <2>4
<1>2. CASE u \in todo
  BY <1>2 DEF TakeEvent
<1>3. CASE CallingBack(u)
  BY <1>3 DEF TakeEvent, workerVars, Pending, CallingBack
<1> QED
  BY <1>1, <1>2, <1>3 DEF Pending

(* No step makes a settled unit untrue or leaves a request behind. *)
LEMMA UnitNext ==
  ASSUME TypeOK, NamesUnique, [Next]_vars, NEW u \in Named, StatusOf(u), RequestOf(u)
  PROVE  StatusOf(u)' /\ RequestOf(u)'
<1> USE NamedFacts
<1> DEFINE s == nameOf[u]
<1>0. u \in Units /\ s \in Services /\ u # NoUnit
  OBVIOUS
<1>1. ASSUME NEW v \in Units, NEW r \in States, AcsWrite(v, r)
      PROVE  StatusOf(u)' /\ RequestOf(u)'
  <2>1. Queued(u)' <=> Queued(u) \/ u = v
    BY <1>1, AppendQueued DEF AcsWrite
  <2>2. /\ CallingBack(u)' <=> CallingBack(u)
        /\ UNCHANGED <<status, running, todo, cur, mpc, spawned>>
        /\ u # v => requested'[u] = requested[u]
    BY <1>0, <1>1 DEF AcsWrite, TypeOK, CallingBack, workerVars, mainVars
  <2> QED
    BY <2>1, <2>2 DEF StatusOf, RequestOf, Settled, Pending, AsRequested, Exhausted
<1>2. CASE TakeEvent
  <2>1. Pending(u) => Pending(u)'
    BY <1>0, <1>2, TakePending
  <2>2. UNCHANGED <<requested, status, running, cur, mpc, spawned>>
    BY <1>2 DEF TakeEvent, unitVars, workerVars
  <2> QED
    BY <2>1, <2>2 DEF StatusOf, RequestOf, Settled, AsRequested, Exhausted
<1>3. ASSUME NEW v \in todo, Process(v) PROVE StatusOf(u)' /\ RequestOf(u)'
  <2>1. CASE u # v
    <3>1. /\ UNCHANGED <<status, queue>> /\ requested'[u] = requested[u]
          /\ u \in todo' <=> u \in todo
          /\ cur = NoUnit /\ cur' # u /\ mpc = "loop"
      BY <1>0, <1>3, <2>1 DEF Process, SkipUnnamed, Start, StartFails, Kill,
         StopUnattached, Already, Enter, Visit, TypeOK
    <3>2. running'[s] = running[s]
      BY <1>0, <1>3, <2>1 DEF Process, SkipUnnamed, Start, StartFails, Kill,
         StopUnattached, Already, Enter, Visit, TypeOK, NamesUnique
    <3>3. CallingBack(u) => CallingBack(u)'
      <4>1. ASSUME NEW t \in Threads, wpc[t] = "callback"
            PROVE  wpc'[t] = wpc[t] /\ unit'[t] = unit[t]
        <5>1. t # spawned + 1
          BY <4>1, WorkerUnit, ConstantsAssumption DEF Threads, TypeOK
        <5> QED
          BY <1>3, <5>1 DEF Process, SkipUnnamed, Start, StartFails, Kill,
             StopUnattached, Already, TypeOK
      <4> QED
        BY <4>1 DEF CallingBack
    <3>4. Exhausted => Exhausted'
      BY <1>3 DEF Process, SkipUnnamed, Start, StartFails, Kill,
         StopUnattached, Already, Exhausted
    <3> QED
      BY <3>1, <3>2, <3>3, <3>4
         DEF StatusOf, RequestOf, Settled, Pending, Queued, AsRequested
  <2>2. CASE u = v
    <3>1. Enter(u)
      BY <1>3, <2>2 DEF Process, SkipUnnamed, Start, StartFails, Kill, StopUnattached, Already
    <3>2. cur' = u /\ requested'[u] = Wanted(u) /\ Wanted(u) \in States
      BY <1>0, <3>1 DEF Enter, Visit, TypeOK, Wanted, States
    <3>3. \/ mpc' = "killed" /\ Wanted(u) = "Idle"
          \/ mpc' = "report" /\ (running'[s] <=> Wanted(u) = "Active")
          \/ mpc' = "report" /\ Wanted(u) = "Active" /\ Exhausted'
      BY <1>0, <1>3, <2>2, <3>2 DEF Process, SkipUnnamed, Start, StartFails, Kill,
         StopUnattached, Already, TypeOK, States, Exhausted
    <3> QED
      BY <3>2, <3>3 DEF StatusOf, RequestOf, Settled, AsRequested
  <2> QED
    BY <2>1, <2>2
<1>4. CASE StopReturns
  <2>1. /\ UNCHANGED <<requested, status, queue, todo, cur, wpc, unit, spawned>>
        /\ cur \in Named /\ mpc = "stopping"
        /\ running' = [running EXCEPT ![nameOf[cur]] = FALSE]
    BY <1>4 DEF StopReturns, unitVars, workerVars, TypeOK
  <2>2. CASE cur = u
    <3>1. running'[s] = FALSE
      BY <1>0, <2>1, <2>2 DEF TypeOK
    <3>2. Pending(u)' <=> Pending(u)
      BY <2>1 DEF Pending, Queued, CallingBack
    <3>3. cur' = u /\ requested'[u] = requested[u]
      BY <2>1, <2>2
    <3>4. ~Pending(u) => AsRequested(u)'
      BY <2>1, <2>2, <3>1 DEF RequestOf, AsRequested
    <3> QED
      BY <3>2, <3>3, <3>4, <1>4 DEF StatusOf, RequestOf, Settled, StopReturns
  <2>3. CASE cur # u
    <3>1. running'[s] = running[s]
      BY <1>0, <2>1, <2>3 DEF TypeOK, NamesUnique
    <3> QED
      BY <2>1, <2>3, <3>1 DEF StatusOf, RequestOf, Settled, Pending, Queued,
         CallingBack, AsRequested, Exhausted
  <2> QED
    BY <2>2, <2>3
<1>8. CASE WaitVictim
  <2>1. /\ UNCHANGED <<requested, status, running, queue, todo, cur, wpc, unit, spawned>>
        /\ mpc = "killed" /\ mpc' = "stopping"
    BY <1>8 DEF WaitVictim, unitVars, workerVars
  <2> QED
    BY <2>1 DEF StatusOf, RequestOf, Settled, Pending, Queued, CallingBack, AsRequested,
                Exhausted
<1>5. CASE Report
  <2>1. /\ UNCHANGED <<requested, running, queue, todo, wpc, unit, spawned>>
        /\ cur \in Named /\ mpc = "report" /\ cur' = NoUnit /\ mpc' = "loop"
        /\ status' = [status EXCEPT ![cur] =
                       IF running[nameOf[cur]] THEN "Active" ELSE "Idle"]
    BY <1>5 DEF Report, workerVars, TypeOK
  <2>2. Pending(u)' <=> Pending(u)
    BY <2>1 DEF Pending, Queued, CallingBack
  <2>3. AsRequested(u)' <=> AsRequested(u)
    BY <2>1 DEF AsRequested, Exhausted
  <2>4. cur = u => (status'[u] = "Active" <=> running'[s])
    BY <1>0, <2>1 DEF TypeOK
  <2>5. cur # u => status'[u] = status[u]
    BY <1>0, <2>1 DEF TypeOK
  <2> QED
    BY <2>1, <2>2, <2>3, <2>4, <2>5 DEF StatusOf, RequestOf, Settled
<1>6. ASSUME NEW t \in Threads, Worker(t) PROVE StatusOf(u)' /\ RequestOf(u)'
  <2>0. unit[t] \in Named
    <3>1. wpc[t] # "none"
      BY <1>6 DEF Worker, CheckFails, CheckPasses, Attach, AttachFails, ReadPid,
                  WaitReturns, ServiceExit
    <3> QED
      BY <3>1, WorkerUnit
  <2>1. CASE CheckFails(t)
    <3>1. /\ UNCHANGED <<requested, status, queue, todo, cur, mpc, unit, spawned>>
          /\ CallingBack(u) \/ unit[t] = u => CallingBack(u)'
      BY <2>1 DEF CheckFails, Goto, unitVars, mainVars, CallingBack, TypeOK
    <3>2. unit[t] # u => running'[s] = running[s]
      BY <1>0, <2>0, <2>1 DEF CheckFails, TypeOK, NamesUnique, Svc
    <3> QED
      BY <3>1, <3>2 DEF StatusOf, RequestOf, Settled, Pending, Queued, AsRequested, Exhausted
  <2>2. CASE ServiceExit(t)
    <3>1. /\ UNCHANGED <<requested, status, running, todo, cur, mpc, unit, spawned>>
          /\ CallingBack(u) => CallingBack(u)' \/ unit[t] = u
      BY <2>2 DEF ServiceExit, Goto, unitVars, mainVars, CallingBack, TypeOK
    <3>2. Queued(u)' <=> Queued(u) \/ u = unit[t]
      BY <1>0, <2>0, <2>2, AppendQueued DEF ServiceExit
    <3> QED
      BY <3>1, <3>2 DEF StatusOf, RequestOf, Settled, Pending, AsRequested, Exhausted
  <2>3. CASE CheckPasses(t) \/ Attach(t) \/ AttachFails(t) \/ ReadPid(t) \/ WaitReturns(t)
    <3>1. /\ UNCHANGED <<requested, status, running, queue, todo, cur, mpc, unit, spawned>>
          /\ CallingBack(u) => CallingBack(u)'
      BY <2>3 DEF CheckPasses, Attach, AttachFails, ReadPid, WaitReturns, Goto,
                  unitVars, mainVars, CallingBack, TypeOK
    <3> QED
      BY <3>1 DEF StatusOf, RequestOf, Settled, Pending, Queued, AsRequested, Exhausted
  <2> QED
    BY <1>6, <2>1, <2>2, <2>3 DEF Worker
<1>7. CASE \/ \E t \in Threads : Exit(t) \/ Terminate(t)
           \/ \E e \in Envs : ContainerStop(e) \/ ContainerStart(e)
           \/ UNCHANGED vars
  <2>1. UNCHANGED <<requested, status, running, queue, todo, cur, mpc, wpc, unit, spawned>>
    BY <1>7 DEF Exit, Terminate, ContainerStop, ContainerStart, vars, unitVars,
                workerVars, mainVars
  <2> QED
    BY <2>1 DEF StatusOf, RequestOf, Settled, Pending, Queued, CallingBack,
                AsRequested, Exhausted
<1> QED
  BY <1>1, <1>2, <1>3, <1>4, <1>5, <1>6, <1>7, <1>8 DEF Next, MainStep

(* Nothing runs at first, nothing is requested and Status is Idle. *)
LEMMA UnitInit == Init => StatusTruth /\ RequestInv
BY NamedFacts DEF Init, StatusTruth, RequestInv, StatusOf, RequestOf, AsRequested

(* With names of their own, settled units show their flag in Status and     *)
(* have the flag they were asked for.                                       *)
LEMMA UnitInvariants == NamesUnique => (Spec => [](StatusTruth /\ RequestInv))
<1> SUFFICES ASSUME NamesUnique PROVE Spec => [](StatusTruth /\ RequestInv)
  OBVIOUS
<1>1. TypeOK /\ StatusTruth /\ RequestInv /\ [Next]_vars => (StatusTruth /\ RequestInv)'
  BY UnitNext DEF StatusTruth, RequestInv
<1> QED
  BY <1>1, UnitInit, TypeCorrect, PTL DEF Spec

(* Status of a settled unit is the flag of its process (processExecution-   *)
(* UnitObject, amxhandler.cpp:146), whatever the interleaving.              *)
THEOREM StatusTruthHolds == NamesUnique => (Spec => []StatusTruth)
BY UnitInvariants, PTL

(* What the unit being processed was asked for is what its flag comes to:   *)
(* the invariant that makes RequestHandled inductive.                       *)
THEOREM RequestInvHolds == NamesUnique => (Spec => []RequestInv)
BY UnitInvariants, PTL

(* A request is carried out or the process is out of threads.               *)
THEOREM RequestHandledHolds == NamesUnique => (Spec => []RequestHandled)
<1>1. RequestInv => RequestHandled
  BY DEF RequestInv, RequestOf, RequestHandled, Settled
<1> QED
  BY <1>1, UnitInvariants, PTL

=============================================================================
