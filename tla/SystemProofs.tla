---------------------------- MODULE SystemProofs ----------------------------
(* Proofs about System for any instances, environments and units.          *)
EXTENDS System, ExecEnvProofs

(* What SysTypeOK says of the execution units. *)
UnitsOK ==
  /\ units \subseteq Units /\ savedUnits \subseteq Units
  /\ flag \subseteq units /\ changed \subseteq units
  /\ chain \in BOOLEAN
  /\ worker \in [Units -> {"none", "check", "attach", "wait", "callback"}]
  /\ service \in [Units -> SUBSET {"own", "orphan"}]
  /\ \A u \in Units :
       /\ worker[u] # "none" => u \in units
       /\ worker[u] \in {"check", "attach", "wait"} => u \in flag
       /\ service[u] # {} => envOf[u] \in running

(* What SupTypeOK says of the script. *)
ScriptOK ==
  /\ wish \in [Insts -> BOOLEAN]
  /\ spc \in {"sleep", "handle", "off", "on"} /\ snap \subseteq Snapshots
  /\ IF spc \in {"off", "on"} THEN subj \in Insts ELSE subj = NoInst

LEMMA SysParts == SysTypeOK <=> TypeOK /\ ScriptOK /\ UnitsOK
BY DEF SysTypeOK, SupTypeOK, ScriptOK, UnitsOK

LEMMA SysPartsNext == TypeOK' /\ ScriptOK' /\ UnitsOK' => SysTypeOK'
BY DEF SysTypeOK, SupTypeOK, ScriptOK, UnitsOK

-----------------------------------------------------------------------------
(* What a step of the environments does to the services. *)
Cut == service' = [u \in Units |-> IF envOf[u] \in running' THEN service[u] ELSE {}]

LEMMA CutUnits ==
  ASSUME UnitsOK, Cut, UNCHANGED unitVars, chain' \in BOOLEAN
  PROVE  UnitsOK'
BY DEF UnitsOK, Cut, unitVars

(* The initial state is well-typed. *)
LEMMA SysTypeInit == SysInit => SysTypeOK
<1> SUFFICES ASSUME SysInit PROVE SysTypeOK
  OBVIOUS
<1>1. TypeOK
  BY TypeInit DEF SysInit, SupInit
<1>2. ScriptOK
  BY <1>1 DEF SysInit, SupInit, ScriptOK, TypeOK
<1>3. UnitsOK
  BY DEF SysInit, UnitsOK
<1> QED
  BY <1>1, <1>2, <1>3, SysParts

(* A step of the script keeps the types. *)
LEMMA SupStepTypes ==
  ASSUME TypeOK, ScriptOK, SupStep
  PROVE  TypeOK' /\ ScriptOK'
<1>1. CASE Poll
  <2>1. TypeOK'
    BY <1>1 DEF Poll, TypeOK, vars, ghostVars
  <2>2. snap' \subseteq Snapshots
    BY <1>1 DEF Poll, Snapshots, TypeOK
  <2> QED
    BY <1>1, <2>1, <2>2 DEF Poll, ScriptOK
<1>2. CASE ResetWrite
  <2>1. CASE BusWrite(subj, spc = "on")
    <3>1. subj \in Insts /\ (spc = "on") \in BOOLEAN
      BY <1>2 DEF ResetWrite, ScriptOK
    <3>2. TypeOK'
      BY <2>1, <3>1, TypeWrite DEF Write
    <3> QED
      BY <1>2, <3>1, <3>2 DEF ResetWrite, ScriptOK
  <2>2. CASE UNCHANGED vars
    BY <1>2, <2>2 DEF ResetWrite, ScriptOK, TypeOK, vars, ghostVars
  <2> QED
    BY <1>2, <2>1, <2>2 DEF ResetWrite
<1>3. CASE Sleep
  BY <1>3 DEF Sleep, ScriptOK, TypeOK, vars, ghostVars
<1>4. ASSUME NEW v \in snap, NothingToDo(v) PROVE TypeOK' /\ ScriptOK'
  BY <1>4 DEF NothingToDo, ScriptOK, TypeOK, vars, ghostVars
<1>5. ASSUME NEW v \in snap, BeginReset(v) PROVE TypeOK' /\ ScriptOK'
  <2>1. v.inst \in Insts
    BY DEF ScriptOK, Snapshots
  <2> QED
    BY <1>5, <2>1 DEF BeginReset, ScriptOK, TypeOK, vars, ghostVars
<1>6. ASSUME NEW v \in snap, stop_container(v) PROVE TypeOK' /\ ScriptOK'
  BY <1>6 DEF stop_container, ScriptOK, TypeOK, dmVars, mainVars, ghostVars
<1> QED
  BY <1>1, <1>2, <1>3, <1>4, <1>5, <1>6 DEF SupStep

(* The restart of a container keeps the types. *)
LEMMA UpdateTypes ==
  ASSUME SysTypeOK, NEW n \in Names, UpdateContainer(n),
         units' \in {units} \cup {units \cup {u} : u \in Units}
  PROVE  SysTypeOK'
<1>1. TypeOK'
  BY DEF UpdateContainer, SysTypeOK, SupTypeOK, TypeOK, dmVars, mainVars, ghostVars
<1>2. ScriptOK'
  BY SysParts DEF UpdateContainer, ScriptOK, supVars
<1>3. UnitsOK'
  BY SysParts DEF UpdateContainer, UnitsOK
<1> QED
  BY <1>1, <1>2, <1>3, SysPartsNext

(* A step of a worker keeps the types. *)
LEMMA WorkerTypes ==
  ASSUME SysTypeOK, NEW u \in Units,
         CheckFails(u) \/ CheckPasses(u) \/ Attach(u) \/ AttachFails(u)
         \/ WaitReturns(u) \/ ServiceExit(u)
  PROVE  SysTypeOK'
<1>1. UNCHANGED allVars /\ running' = running
  BY DEF CheckFails, CheckPasses, Attach, AttachFails, WaitReturns, ServiceExit, allVars, vars
<1>2. TypeOK' /\ ScriptOK'
  BY <1>1, SysParts DEF allVars, vars, ghostVars, supVars, TypeOK, ScriptOK
<1>3. UnitsOK
  BY SysParts
<1> SUFFICES UnitsOK'
  BY <1>2, SysPartsNext
<1>4. CASE CheckFails(u)
  BY <1>1, <1>3, <1>4 DEF CheckFails, UnitsOK
<1>5. CASE CheckPasses(u)
  BY <1>1, <1>3, <1>5 DEF CheckPasses, UnitsOK
<1>6. CASE Attach(u)
  BY <1>1, <1>3, <1>6 DEF Attach, UnitsOK
<1>7. CASE AttachFails(u)
  BY <1>1, <1>3, <1>7 DEF AttachFails, UnitsOK
<1>8. CASE WaitReturns(u)
  BY <1>1, <1>3, <1>8 DEF WaitReturns, UnitsOK
<1>9. CASE ServiceExit(u)
  BY <1>1, <1>3, <1>9 DEF ServiceExit, UnitsOK
<1> QED
  BY <1>4, <1>5, <1>6, <1>7, <1>8, <1>9

(* A daemon that starts finds everything of its type. *)
LEMMA FreshTypes == SysTypeOK /\ Fresh => SysTypeOK'
<1> SUFFICES ASSUME SysTypeOK, Fresh PROVE SysTypeOK'
  OBVIOUS
<1>1. TypeOK'
  BY SysParts, TypeLoad DEF Fresh
<1>2. ScriptOK'
  BY <1>1, SysParts DEF Fresh, ScriptOK, TypeOK, supVars
<1>3. UnitsOK'
  <2>1. UnitsOK /\ running' = running
    BY SysParts DEF Fresh, Load, lxcVars
  <2>2. /\ service' \in [Units -> SUBSET {"own", "orphan"}]
        /\ \A u \in Units : service[u] = {} => service'[u] = {}
    BY <2>1 DEF Fresh, UnitsOK
  <2> QED
    BY <2>1, <2>2 DEF Fresh, UnitsOK
<1> QED
  BY <1>1, <1>2, <1>3, SysPartsNext

LEMMA SysTypeNext == SysTypeOK /\ [SysNext]_sysVars => SysTypeOK'
<1> SUFFICES ASSUME SysTypeOK, [SysNext]_sysVars PROVE SysTypeOK'
  OBVIOUS
<1>0. TypeOK /\ ScriptOK /\ UnitsOK
  BY SysParts
<1>1. CASE Main
  <2>1. MainStep /\ UNCHANGED <<supVars, wish>> /\ Cut /\ UNCHANGED unitVars
    BY <1>1 DEF Main, Environment, Cut
  <2>2. TypeOK'
    BY <1>0, <2>1, TypeHandler, TypeRun DEF MainStep
  <2>3. chain' \in BOOLEAN
    BY <1>0, <1>1 DEF Main, UnitsOK
  <2>4. UnitsOK' /\ ScriptOK'
    BY <1>0, <2>1, <2>3, CutUnits DEF ScriptOK, supVars
  <2> QED
    BY <2>2, <2>4, SysPartsNext
<1>2. CASE ExecutionUnitManage
  <2>1. UnitsOK'
    BY <1>0, <1>2 DEF ExecutionUnitManage, RunAsync, UnitsOK, allVars, vars
  <2>2. TypeOK' /\ ScriptOK'
    BY <1>0, <1>2 DEF ExecutionUnitManage, allVars, vars, ghostVars, supVars, TypeOK, ScriptOK
  <2> QED
    BY <2>1, <2>2, SysPartsNext
<1>3. CASE SaveAll
  <2>1. TypeOK'
    BY <1>0, <1>3 DEF SaveAll, Save, TypeOK, vars, mainVars, lxcVars, ghostVars
  <2>2. ScriptOK'
    BY <1>0, <1>3 DEF SaveAll, ScriptOK, supVars
  <2>3. UNCHANGED running
    BY <1>3 DEF SaveAll, Save, vars, lxcVars
  <2>4. UnitsOK'
    BY <1>0, <1>3, <2>3 DEF SaveAll, UnitsOK
  <2> QED
    BY <2>1, <2>2, <2>4, SysPartsNext
<1>4. CASE Script
  <2>1. SupStep /\ Cut /\ UNCHANGED unitVars /\ chain' = chain
    BY <1>4 DEF Script, Environment, Cut
  <2>2. TypeOK' /\ ScriptOK'
    BY <1>0, <2>1, SupStepTypes
  <2>3. UnitsOK'
    BY <1>0, <2>1, CutUnits DEF UnitsOK
  <2> QED
    BY <2>2, <2>3, SysPartsNext
<1>5. CASE User
  <2>1. PICK i \in Insts :
           \/ \E b \in BOOLEAN : Environment(UserWrite(i, b)) \/ Environment(UserBusAdd(i, b))
           \/ Environment(UserAdd(i))
           \/ Environment(BusRemove(i) /\ UNCHANGED <<supVars, wish>>)
    BY <1>5 DEF User
  <2>2. Write(i) /\ Cut /\ UNCHANGED unitVars /\ chain' = chain
    BY <1>5, <2>1 DEF User, Environment, Cut, UserAdd, UserWrite, UserBusAdd, Write
  <2>3. TypeOK'
    BY <1>0, <2>2, TypeWrite
  <2>4. ScriptOK'
    BY <1>0, <2>1 DEF Environment, UserAdd, UserWrite, UserBusAdd, ScriptOK, supVars
  <2>5. UnitsOK'
    BY <1>0, <2>2, CutUnits DEF UnitsOK
  <2> QED
    BY <2>3, <2>4, <2>5, SysPartsNext
<1>6. CASE Ends
  <2>1. PICK n \in Names : ContainerEnds(n) /\ UNCHANGED <<supVars, wish>>
                           /\ Cut /\ UNCHANGED unitVars /\ chain' = chain
    BY <1>6 DEF Ends, Environment, Cut
  <2>2. TypeOK' /\ ScriptOK'
    BY <1>0, <2>1 DEF ContainerEnds, TypeOK, ScriptOK, mainVars, dmVars, ghostVars, supVars
  <2>3. UnitsOK'
    BY <1>0, <2>1, CutUnits DEF UnitsOK
  <2> QED
    BY <2>2, <2>3, SysPartsNext
<1>7. CASE Restarts \/ Crash
  BY <1>7, FreshTypes DEF Restarts, Crash
<1>8. ASSUME NEW u \in Units, odlExecutionUnitChanged(u) PROVE SysTypeOK'
  <2>1. UnitsOK'
    BY <1>0, <1>8 DEF odlExecutionUnitChanged, RunAsync, UnitsOK, allVars, vars
  <2>2. TypeOK' /\ ScriptOK'
    BY <1>0, <1>8 DEF odlExecutionUnitChanged, allVars, vars, ghostVars, supVars, TypeOK,
       ScriptOK
  <2> QED
    BY <2>1, <2>2, SysPartsNext
<1>9. ASSUME NEW u \in Units, AddUnit(u) PROVE SysTypeOK'
  BY <1>9, UpdateTypes, SystemAssumption DEF AddUnit
<1>10. ASSUME NEW n \in Names, RemoveDeploymentUnit(n) PROVE SysTypeOK'
  BY <1>10, UpdateTypes DEF RemoveDeploymentUnit
<1>11. ASSUME NEW u \in Units, Worker(u) PROVE SysTypeOK'
  BY <1>11, WorkerTypes DEF Worker
<1>12. ASSUME NEW u \in Units, Exit(u) PROVE SysTypeOK'
  <2>1. UnitsOK'
    BY <1>0, <1>12 DEF Exit, UnitsOK, allVars, vars, unitVars
  <2>2. TypeOK' /\ ScriptOK'
    BY <1>0, <1>12 DEF Exit, allVars, vars, ghostVars, supVars, TypeOK, ScriptOK
  <2> QED
    BY <2>1, <2>2, SysPartsNext
<1>13. CASE UNCHANGED sysVars
  BY <1>0, <1>13, SysPartsNext DEF sysVars, allVars, vars, ghostVars, supVars, unitVars, TypeOK,
     ScriptOK, UnitsOK
<1> QED
  BY <1>1, <1>2, <1>3, <1>4, <1>5, <1>6, <1>7, <1>8, <1>9, <1>10, <1>11, <1>12, <1>13
     DEF SysNext

(* Every reachable state of the device is of its type, whatever fails and  *)
(* whenever the daemon is killed: a worker attaches only while the flag of *)
(* its unit is set, and a service lives in a running container             *)
(* (linux.h:327-345, amxhandler.cpp:131).                                  *)
THEOREM SysTypeCorrect == SysSpec => []SysTypeOK
BY SysTypeInit, SysTypeNext, PTL DEF SysSpec

-----------------------------------------------------------------------------
(* From the start of the daemon until its walk has come to the units. *)
Early == Queued(AppStart) \/ chain

(* The walk of app:start is the first event of the daemon, and comes once;  *)
(* until it is over no unit is started.                                     *)
StartInv ==
  /\ \A k \in 1..Len(queue) : queue[k] = AppStart => k = 1 /\ ~chain
  /\ Early => /\ changed = {}
              /\ \A u \in Units : worker[u] = "none" /\ "own" \notin service[u]

(* lxc knows the containers of instances that were added, and no others.   *)
KnownInv ==
  /\ defined \subseteq {nameOf[i] : i \in born}
  /\ mpc = "create" => cur \in born

(* The walk is still to restart or to stop the container of instance i. *)
Ahead(i) ==
  chain /\ (i \in todo \/ (cur = i /\ mpc \in {"create", "prepare", "stop", "dead"}))

(* Behind the walk no service of an earlier daemon is left. *)
ClearInv == ~Queued(AppStart) =>
  \A i \in present \cap Overlay \cap Complete, u \in Units :
    envOf[u] = nameOf[i] /\ ~Ahead(i) => "orphan" \notin service[u]

LEMMA SysInvInit == SysInit => StartInv /\ KnownInv /\ ClearInv
<1> SUFFICES ASSUME SysInit PROVE StartInv /\ KnownInv /\ ClearInv
  OBVIOUS
<1>1. Len(queue) = 1 /\ chain = FALSE
  BY DEF SysInit, SupInit, Init
<1> QED
  BY <1>1 DEF SysInit, SupInit, Init, StartInv, KnownInv, ClearInv

(* A step of the environments leaves the services of a container that      *)
(* stays up, and a container that comes up has none.                       *)
LEMMA CutServices ==
  ASSUME UnitsOK, Cut, NEW u \in Units
  PROVE  /\ service'[u] \subseteq service[u]
         /\ envOf[u] \notin running' => service'[u] = {}
         /\ envOf[u] \notin running => service'[u] = {}
BY DEF UnitsOK, Cut

(* The events the bus adds are not app:start. *)
LEMMA BusQueue ==
  ASSUME TypeOK, NEW i \in Insts, Write(i)
  PROVE  /\ \A k \in 1..Len(queue') :
              \/ k \in 1..Len(queue) /\ queue'[k] = queue[k]
              \/ queue'[k] # AppStart
         /\ Queued(AppStart)' <=> Queued(AppStart)
<1>1. CASE AddInstance(i) \/ \E b \in BOOLEAN : BusAdd(i, b)
  BY <1>1 DEF AddInstance, BusAdd, Queued
<1>2. CASE BusRemove(i) \/ \E b \in BOOLEAN : BusWrite(i, b)
  <2>1. PICK x \in Events : queue' = Append(queue, x) /\ x # AppStart
    BY <1>2, EventFacts DEF BusRemove, BusWrite
  <2>2. queue \in Seq(Events)
    BY DEF TypeOK
  <2>3. /\ Len(queue') = Len(queue) + 1 /\ Len(queue) \in Nat
        /\ queue'[Len(queue) + 1] = x
        /\ \A k \in 1..Len(queue) : queue'[k] = queue[k]
    BY <2>1, <2>2
  <2>4. Queued(AppStart)' <=> Queued(AppStart)
    BY <2>1, <2>2, QueueAppend, EventFacts
  <2> QED
    BY <2>1, <2>3, <2>4
<1> QED
  BY <1>1, <1>2 DEF Write

(* Most steps leave the walk, the workers and their events alone and start *)
(* no service; some of them also leave the data model alone.               *)
QueueKept ==
  /\ \A k \in 1..Len(queue') :
       (k \in 1..Len(queue) /\ queue'[k] = queue[k]) \/ queue'[k] # AppStart
  /\ Queued(AppStart)' <=> Queued(AppStart)
Calm ==
  /\ UNCHANGED <<chain, worker, changed, defined>> /\ QueueKept
  /\ \A u \in Units : service'[u] \subseteq service[u]
Quiet ==
  /\ Calm /\ present' \subseteq present /\ UNCHANGED <<born, todo, cur, mpc>>
Adds(i) == Calm /\ (AddInstance(i) \/ \E b \in BOOLEAN : BusAdd(i, b)) /\ ~chain

LEMMA QueueStays == queue' = queue => QueueKept
BY DEF QueueKept, Queued

LEMMA CalmSteps ==
  ASSUME SysTypeOK, SaveAll \/ Script \/ User \/ Ends
         \/ (\E u \in Units : AddUnit(u) \/ Exit(u)) \/ \E n \in Names : RemoveDeploymentUnit(n)
  PROVE  Quiet \/ \E i \in Insts : Adds(i)
<1>0. TypeOK /\ ScriptOK /\ UnitsOK
  BY SysParts
<1>1. CASE SaveAll
  BY <1>1, QueueStays DEF SaveAll, Save, Quiet, Calm, mainVars, lxcVars, vars
<1>2. CASE Script
  <2>1. SupStep /\ Cut /\ UNCHANGED unitVars /\ chain' = chain
    BY <1>2 DEF Script, Environment, Cut
  <2>2. \A u \in Units : service'[u] \subseteq service[u]
    BY <1>0, <2>1, CutServices
  <2>3. UNCHANGED <<present, born, defined, todo, cur, mpc>>
    BY <2>1 DEF SupStep, Poll, ResetWrite, BusWrite, Sleep, NothingToDo, BeginReset,
       stop_container, vars, dmVars, lxcVars, mainVars
  <2>4. QueueKept
    <3>1. CASE spc \in {"off", "on"} /\ BusWrite(subj, spc = "on")
      <4>1. subj \in Insts /\ (spc = "on") \in BOOLEAN
        BY <1>0, <3>1 DEF ScriptOK
      <4> QED
        BY <1>0, <3>1, <4>1, BusQueue DEF Write, QueueKept
    <3>2. CASE queue' = queue
      BY <3>2, QueueStays
    <3> QED
      BY <2>1, <3>1, <3>2 DEF SupStep, Poll, ResetWrite, Sleep, NothingToDo, BeginReset,
         stop_container, vars
  <2> QED
    BY <2>1, <2>2, <2>3, <2>4 DEF Quiet, Calm, unitVars
<1>3. CASE User
  <2>1. PICK i \in Insts :
           \/ \E b \in BOOLEAN : Environment(UserWrite(i, b)) \/ Environment(UserBusAdd(i, b))
           \/ Environment(UserAdd(i))
           \/ Environment(BusRemove(i) /\ UNCHANGED <<supVars, wish>>)
    BY <1>3 DEF User
  <2>2. Write(i) /\ Cut /\ UNCHANGED unitVars /\ chain' = chain /\ ~Booting
    BY <1>3, <2>1 DEF User, Environment, Cut, UserAdd, UserWrite, UserBusAdd, Write
  <2>3. QueueKept
    BY <1>0, <2>2, BusQueue DEF QueueKept
  <2>4. \A u \in Units : service'[u] \subseteq service[u]
    BY <1>0, <2>2, CutServices
  <2>5. Calm
    BY <2>2, <2>3, <2>4 DEF Calm, unitVars, Write, BusRemove, BusWrite, BusAdd, AddInstance,
       lxcVars
  <2>6. CASE AddInstance(i) \/ \E b \in BOOLEAN : BusAdd(i, b)
    BY <2>2, <2>5, <2>6 DEF Adds, AddInstance, BusAdd, Booting
  <2>7. CASE BusRemove(i) \/ \E b \in BOOLEAN : BusWrite(i, b)
    BY <2>5, <2>7 DEF Quiet, BusRemove, BusWrite, mainVars
  <2> QED
    BY <2>2, <2>6, <2>7 DEF Write
<1>4. CASE Ends
  <2>1. PICK n \in Names : ContainerEnds(n) /\ Cut /\ UNCHANGED unitVars /\ chain' = chain
    BY <1>4 DEF Ends, Environment, Cut
  <2>2. \A u \in Units : service'[u] \subseteq service[u]
    BY <1>0, <2>1, CutServices
  <2> QED
    BY <2>1, <2>2, QueueStays DEF ContainerEnds, Quiet, Calm, unitVars, mainVars, dmVars
<1>5. ASSUME NEW u \in Units, Exit(u) PROVE Quiet
  <2>1. \A w \in Units : service'[w] \subseteq service[w]
    BY <1>0, <1>5 DEF Exit, UnitsOK
  <2> QED
    BY <1>5, <2>1, QueueStays DEF Exit, Quiet, Calm, allVars, vars, unitVars
<1>6. ASSUME NEW n \in Names, UpdateContainer(n) PROVE Quiet
  <2>1. \A w \in Units : service'[w] \subseteq service[w]
    BY <1>0, <1>6 DEF UpdateContainer, UnitsOK
  <2> QED
    BY <1>6, <2>1, QueueStays DEF UpdateContainer, Quiet, Calm, dmVars, mainVars
<1> QED
  BY <1>1, <1>2, <1>3, <1>4, <1>5, <1>6, SystemAssumption DEF AddUnit, RemoveDeploymentUnit

-----------------------------------------------------------------------------
LEMMA StartNext == SysTypeOK /\ StartInv /\ [SysNext]_sysVars => StartInv'
<1> SUFFICES ASSUME SysTypeOK, StartInv, [SysNext]_sysVars PROVE StartInv'
  OBVIOUS
<1>0. TypeOK /\ ScriptOK /\ UnitsOK
  BY SysParts
<1>1. ASSUME Calm PROVE StartInv'
  <2>1. \A k \in 1..Len(queue') : queue'[k] = AppStart => k = 1 /\ ~chain'
    BY <1>1 DEF Calm, QueueKept, StartInv
  <2>2. Early' => Early
    BY <1>1 DEF Calm, QueueKept, Early
  <2> QED
    BY <1>1, <2>1, <2>2 DEF StartInv, Calm
<1>2. CASE Main
  <2>1. MainStep /\ Cut /\ UNCHANGED unitVars /\ chain' = (chain \/ StartsUp)
    BY <1>2 DEF Main, Environment, Cut
  <2>2. \A u \in Units : service'[u] \subseteq service[u]
    BY <1>0, <2>1, CutServices
  <2>3. CASE queue' = queue
    <3>1. ~StartsUp
      BY <2>1, <2>3, EventFacts DEF MainStep, Handler, RunStep, ExecEnvManage,
         odlExecEnvChanged,
         ChangedGone, odlExecEnvUninstalled, Take, Visit, StartsUp, Idle, Create, CreateNull,
         Prepare,
         Restart, Start, StopContainer, Destroy, Report
    <3>2. chain' = chain
      BY <1>0, <2>1, <3>1 DEF UnitsOK
    <3> QED
      BY <2>1, <2>2, <2>3, <3>2 DEF StartInv, Early, Queued, unitVars
  <2>4. CASE Take
    <3>1. /\ queue # <<>> /\ queue' = Tail(queue) /\ queue \in Seq(Events)
      BY <1>0, <2>4 DEF Take, TypeOK
    <3>2. /\ \A k \in 1..Len(queue') : queue'[k] = queue[k + 1] /\ k + 1 \in 1..Len(queue)
          /\ Head(queue) = queue[1] /\ 1 \in 1..Len(queue)
      BY <3>1
    <3>3. \A k \in 1..Len(queue') : queue'[k] # AppStart
      BY <3>2 DEF StartInv
    <3>4. Early' => Early
      BY <2>1, <3>2, <3>3 DEF Early, Queued, StartsUp
    <3> QED
      BY <2>1, <2>2, <3>3, <3>4 DEF StartInv, unitVars
  <2> QED
    BY <2>1, <2>3, <2>4 DEF MainStep, Handler, RunStep, ExecEnvManage, odlExecEnvChanged,
       ChangedGone, odlExecEnvUninstalled, Visit, Create, CreateNull, SetupOverlayFs, Prepare,
       Restart,
       Start, StopContainer, Destroy, Report, Goto, Die
<1>3. CASE ExecutionUnitManage
  <2>1. queue' = queue /\ chain /\ ~chain'
    BY <1>3 DEF ExecutionUnitManage, Booting, allVars, vars
  <2> QED
    BY <2>1 DEF StartInv, Early, Queued
<1>4. ASSUME NEW u \in Units, odlExecutionUnitChanged(u) PROVE StartInv'
  <2>1. UNCHANGED <<queue, chain>> /\ ~Early
    BY <1>4 DEF odlExecutionUnitChanged, StartInv, allVars, vars
  <2> QED
    BY <2>1 DEF StartInv, Early, Queued
<1>5. ASSUME NEW u \in Units, Worker(u) PROVE StartInv'
  <2>1. UNCHANGED <<queue, chain>> /\ ~Early
    BY <1>5 DEF Worker, CheckFails, CheckPasses, Attach, AttachFails, WaitReturns, ServiceExit,
       StartInv, allVars, vars
  <2> QED
    BY <2>1 DEF StartInv, Early, Queued
<1>6. CASE Fresh
  <2>1. queue' = <<AppStart>> /\ ~chain' /\ changed' = {}
    BY <1>6 DEF Fresh, Load
  <2>2. \A u \in Units : worker'[u] = "none" /\ "own" \notin service'[u]
    BY <1>6 DEF Fresh
  <2> QED
    BY <2>1, <2>2 DEF StartInv
<1>7. CASE UNCHANGED sysVars
  BY <1>7 DEF sysVars, allVars, vars, unitVars, StartInv, Early, Queued
<1> QED
  BY <1>1, <1>2, <1>3, <1>4, <1>5, <1>6, <1>7, CalmSteps DEF SysNext, Restarts, Crash, Quiet,
     Adds

-----------------------------------------------------------------------------
LEMMA KnownNext == SysTypeOK /\ KnownInv /\ [SysNext]_sysVars => KnownInv'
<1> SUFFICES ASSUME SysTypeOK, KnownInv, [SysNext]_sysVars PROVE KnownInv'
  OBVIOUS
<1>0. TypeOK
  BY SysParts
<1>2. ASSUME NEW i \in Insts, Adds(i) PROVE KnownInv'
  BY <1>2 DEF Adds, Calm, AddInstance, BusAdd, Added, Begin, Idle, mainVars, KnownInv
<1>3. CASE MainStep
  <2>1. UNCHANGED born
    BY <1>3 DEF MainStep, Handler, RunStep, ExecEnvManage, odlExecEnvChanged,
       ChangedGone, odlExecEnvUninstalled, Visit, Create, CreateNull, SetupOverlayFs, Prepare,
       Restart,
       Start, StopContainer, Destroy, Report, Goto, Die, dmVars
  <2>2. mpc' = "create" => cur' \in present
    <3>1. ASSUME NEW i \in Insts, odlExecEnvChanged(i) PROVE mpc' = "create" => cur' \in present
      BY <3>1 DEF odlExecEnvChanged, Begin, Take, Idle
    <3>2. ASSUME NEW i \in todo, Visit(i) PROVE mpc' = "create" => cur' \in present
      BY <1>0, <3>2 DEF Visit, Begin, TypeOK
    <3>3. CASE ExecEnvManage \/ \E i \in Insts : ChangedGone(i) \/ odlExecEnvUninstalled(i)
      BY <3>3 DEF ExecEnvManage, ChangedGone, odlExecEnvUninstalled, Take, Idle, mainVars
    <3>4. CASE RunStep
      BY <3>4 DEF RunStep, Create, CreateNull, SetupOverlayFs, Prepare, Restart, Start,
         StopContainer,
         Destroy, Report, Goto, Die
    <3> QED
      BY <1>3, <3>1, <3>2, <3>3, <3>4 DEF MainStep, Handler
  <2>3. defined' \subseteq defined \/ (mpc = "create" /\ defined' = defined \cup {Name})
    BY <1>3 DEF MainStep, Handler, RunStep, ExecEnvManage, odlExecEnvChanged,
       ChangedGone, odlExecEnvUninstalled, Visit, Create, CreateNull, Prepare, Restart,
       Start, StopContainer, Destroy, Report, Goto, Die, lxcVars
  <2>4. present \subseteq born
    BY <1>0 DEF TypeOK
  <2> QED
    BY <2>1, <2>2, <2>3, <2>4 DEF KnownInv, Name
<1>4. CASE Fresh
  BY <1>4 DEF Fresh, Load, lxcVars, KnownInv
<1>5. CASE UNCHANGED allVars
  BY <1>5 DEF allVars, vars, KnownInv
<1>6. CASE ExecutionUnitManage \/ \E u \in Units : odlExecutionUnitChanged(u) \/ Worker(u)
  <2>1. UNCHANGED allVars
    BY <1>6 DEF ExecutionUnitManage, odlExecutionUnitChanged, Worker, CheckFails, CheckPasses,
       Attach, AttachFails, WaitReturns, ServiceExit
  <2> QED
    BY <2>1, <1>5
<1>7. ASSUME Quiet PROVE KnownInv'
  BY <1>7 DEF Quiet, Calm, KnownInv
<1> QED
  BY <1>2, <1>3, <1>4, <1>5, <1>6, <1>7, CalmSteps
     DEF SysNext, Restarts, Crash, Main, Environment, sysVars

-----------------------------------------------------------------------------
(* A container that does not run holds no service, and one of an instance   *)
(* that was never added does not run.                                       *)
LEMMA DownClear ==
  ASSUME UnitsOK, NEW u \in Units, envOf[u] \notin running
  PROVE  service[u] = {}
BY DEF UnitsOK

LEMMA UnbornDown ==
  ASSUME NamesUnique, SysTypeOK, KnownInv, NEW i \in Insts \ born
  PROVE  nameOf[i] \notin running
<1>1. TypeOK
  BY SysParts
<1>2. nameOf[i] \notin {nameOf[j] : j \in born}
  BY <1>1 DEF NamesUnique, TypeOK
<1> QED
  BY <1>1, <1>2 DEF KnownInv, TypeOK

(* A step of the walk or of a handler: an instance leaves Ahead only with   *)
(* its container down.                                                      *)
LEMMA ClearMain ==
  ASSUME SysTypeOK, StartInv, KnownInv, ClearInv, Main, Healthy,
         ~Queued(AppStart)', NEW i \in (present \cap Overlay \cap Complete)', NEW u \in Units,
         envOf[u] = nameOf[i], ~Ahead(i)'
  PROVE  "orphan" \notin service'[u]
<1>0. TypeOK /\ UnitsOK
  BY SysParts
<1>1. MainStep /\ Cut /\ chain' = (chain \/ StartsUp)
  BY DEF Main, Environment, Cut
<1>2. service'[u] \subseteq service[u]
  BY <1>0, <1>1, CutServices
<1>3. /\ envOf[u] \notin running' => service'[u] = {}
      /\ envOf[u] \notin running => service'[u] = {}
  BY <1>0, <1>1, CutServices
<1>4. present' = present /\ respawns' = respawns
  BY <1>1 DEF MainStep, Handler, RunStep, ExecEnvManage, odlExecEnvChanged,
     ChangedGone, odlExecEnvUninstalled, Visit, Create, CreateNull, SetupOverlayFs, Prepare,
     Restart,
     Start, StopContainer, Destroy, Report, Goto, Die, dmVars
<1>5. ASSUME ~Queued(AppStart), ~Ahead(i) PROVE "orphan" \notin service'[u]
  BY <1>2, <1>4, <1>5 DEF ClearInv
<1>6. CASE Take
  <2>1. queue # <<>> /\ queue' = Tail(queue) /\ queue \in Seq(Events) /\ Idle
    BY <1>0, <1>6 DEF Take, TypeOK
  <2>2. CASE Head(queue) = AppStart
    <3>1. chain'
      BY <1>1, <2>1, <2>2 DEF StartsUp
    <3>2. todo' = present
      BY <1>1, <2>1, <2>2, EventFacts DEF MainStep, Handler, RunStep, ExecEnvManage,
         odlExecEnvChanged, ChangedGone, odlExecEnvUninstalled, Visit, Create, CreateNull,
         Prepare, Restart,
         Start, StopContainer, Destroy, Report, Idle
    <3> QED
      BY <1>4, <3>1, <3>2 DEF Ahead
  <2>3. CASE Head(queue) # AppStart
    <3>1. Head(queue) = queue[1]
      BY <2>1
    <3>2. ~Queued(AppStart)
      BY <2>3, <3>1 DEF Queued, StartInv
    <3>3. ~Ahead(i)
      BY <1>0, <2>1 DEF Ahead, Idle, TypeOK
    <3> QED
      BY <1>5, <3>2, <3>3
  <2> QED
    BY <2>2, <2>3
<1>7. ASSUME NEW j \in todo, Visit(j) PROVE "orphan" \notin service'[u]
  <2>1. ~Queued(AppStart) /\ chain' = chain
    BY <1>0, <1>1, <1>7 DEF Visit, Queued, StartsUp, Idle, UnitsOK
  <2>2. ~Ahead(i)
    BY <2>1, <1>7 DEF Visit, Begin, Ahead
  <2> QED
    BY <1>5, <2>1, <2>2
<1>8. CASE RunStep
  <2>1. /\ mpc # "loop" /\ mpc # "dead" /\ mpc' # mpc /\ UNCHANGED <<queue, todo>>
        /\ cur' = cur \/ mpc \in {"report", "destroyStop", "destroy"}
    BY <1>8 DEF RunStep, Create, CreateNull, SetupOverlayFs, Prepare, Restart,
       Start, StopContainer, Destroy, Report, Goto, Die
  <2>2. ~Queued(AppStart) /\ chain' = chain
    BY <1>0, <1>1, <2>1 DEF Queued, StartsUp, Idle, UnitsOK
  <2>3. CASE ~Ahead(i)
    BY <1>5, <2>2, <2>3
  <2>4. CASE Ahead(i)
    <3>1. cur = i /\ cur' = i /\ mpc \in {"create", "prepare", "stop"} /\ chain'
      BY <2>1, <2>2, <2>4 DEF Ahead
    <3>2. mpc' \notin {"create", "prepare", "stop", "dead"}
      BY <3>1 DEF Ahead
    <3>3. envOf[u] = Name /\ cur \in Overlay
      BY <3>1 DEF Name
    <3>4. CASE mpc = "create"
      <4>1. Name \notin defined
        BY <1>8, <3>2, <3>4 DEF RunStep, Create, CreateNull, SetupOverlayFs, Prepare, Restart,
           Start, StopContainer, Destroy, Report, Goto, Die
      <4>2. envOf[u] \notin running
        BY <1>0, <3>3, <4>1 DEF TypeOK
      <4> QED
        BY <1>3, <4>2
    <3>5. CASE mpc = "prepare"
      <4>1. mpc' = "restart"
        BY <1>4, <2>1, <3>3, <3>5 DEF Healthy
      <4>2. running' = running \ {Name}
        BY <1>8, <3>3, <3>5, <4>1 DEF RunStep, Create, CreateNull, SetupOverlayFs, Prepare,
           Restart,
           Start, StopContainer, Destroy, Report, Goto, Die
      <4> QED
        BY <1>3, <3>3, <4>2
    <3>6. CASE mpc = "stop"
      BY <1>3, <1>4, <2>1, <3>3, <3>6 DEF Healthy
    <3> QED
      BY <3>1, <3>4, <3>5, <3>6
  <2> QED
    BY <2>3, <2>4
<1> QED
  BY <1>1, <1>6, <1>7, <1>8 DEF MainStep, Handler, ExecEnvManage, odlExecEnvChanged,
     ChangedGone,
     odlExecEnvUninstalled

LEMMA ClearNext ==
  ASSUME NamesUnique
  PROVE  SysTypeOK /\ StartInv /\ KnownInv /\ ClearInv /\ [HealthyNext]_sysVars => ClearInv'
<1> SUFFICES ASSUME SysTypeOK, StartInv, KnownInv, ClearInv, [HealthyNext]_sysVars,
                    ~Queued(AppStart)', NEW i \in (present \cap Overlay \cap Complete)',
                    NEW u \in Units,
                    envOf[u] = nameOf[i], ~Ahead(i)'
             PROVE  "orphan" \notin service'[u]
  BY DEF ClearInv
<1>0. TypeOK /\ UnitsOK
  BY SysParts
<1>1. CASE Main /\ Healthy
  BY <1>1, ClearMain
<1>2. CASE Quiet
  <2>1. ~Queued(AppStart) /\ ~Ahead(i) /\ i \in present \cap Overlay \cap Complete
    BY <1>2 DEF Quiet, Calm, QueueKept, Ahead
  <2> QED
    BY <1>2, <2>1 DEF Quiet, Calm, ClearInv
<1>3. ASSUME NEW j \in Insts, Adds(j) PROVE "orphan" \notin service'[u]
  <2>1. ~Queued(AppStart) /\ ~Ahead(i) /\ service'[u] \subseteq service[u]
    BY <1>3 DEF Adds, Calm, QueueKept, Ahead
  <2>2. CASE i \in present
    BY <2>1, <2>2 DEF ClearInv
  <2>3. CASE i \notin present
    <3>1. i \in Insts \ born
      BY <1>3, <2>3 DEF Adds, AddInstance, BusAdd, Added
    <3>2. service[u] = {}
      BY <1>0, <3>1, UnbornDown, DownClear
    <3> QED
      BY <2>1, <3>2
  <2> QED
    BY <2>2, <2>3
<1>4. CASE ExecutionUnitManage
  <2>1. UNCHANGED <<queue, present, service>> /\ mpc = "loop" /\ todo = {}
    BY <1>4 DEF ExecutionUnitManage, Booting, Idle, allVars, vars
  <2>2. ~Queued(AppStart) /\ ~Ahead(i)
    BY <1>0, <2>1 DEF Queued, Ahead, TypeOK
  <2> QED
    BY <2>1, <2>2 DEF ClearInv
<1>5. ASSUME NEW w \in Units, odlExecutionUnitChanged(w) \/ Worker(w)
      PROVE  "orphan" \notin service'[u]
  <2>1. UNCHANGED <<allVars, chain>>
    BY <1>5 DEF odlExecutionUnitChanged, Worker, CheckFails, CheckPasses, Attach, AttachFails,
       WaitReturns, ServiceExit
  <2>2. service'[u] \subseteq service[u] \cup {"own"}
    BY <1>0, <1>5 DEF odlExecutionUnitChanged, RunAsync, Worker, CheckFails, CheckPasses,
       Attach,
       AttachFails, WaitReturns, ServiceExit, UnitsOK
  <2>3. ~Queued(AppStart) /\ ~Ahead(i) /\ i \in present \cap Overlay \cap Complete
    BY <2>1 DEF allVars, vars, Queued, Ahead
  <2> QED
    BY <2>2, <2>3 DEF ClearInv
<1>6. CASE Fresh
  <2>1. queue' = <<AppStart>>
    BY <1>6 DEF Fresh, Load
  <2>2. Queued(AppStart)'
    BY <2>1 DEF Queued
  <2> QED
    BY <2>2
<1>7. CASE UNCHANGED sysVars
  BY <1>7 DEF sysVars, allVars, vars, unitVars, Queued, Ahead, ClearInv
<1> QED
  BY <1>1, <1>2, <1>3, <1>4, <1>5, <1>6, <1>7, CalmSteps
     DEF HealthyNext, SysNext, Restarts, Crash

(* A service runs at most once in a container with an overlay, for any      *)
(* instances with different names and any units, also over the crashes of   *)
(* the daemon: when its walk reaches the units, the walk before it has      *)
(* restarted or stopped every container, and until then nothing is started  *)
(* (amxhandler.cpp:331-347, :202).                                          *)
THEOREM OneInstanceHolds ==
  ASSUME NamesUnique
  PROVE  HealthySpec => []OneInstance
<1> DEFINE Inv == SysTypeOK /\ StartInv /\ KnownInv /\ ClearInv
<1>1. SysInit => Inv
  BY SysTypeInit, SysInvInit
<1>2. Inv /\ [HealthyNext]_sysVars => Inv'
  <2>1. [HealthyNext]_sysVars => [SysNext]_sysVars
    BY DEF HealthyNext
  <2> QED
    BY <2>1, SysTypeNext, StartNext, KnownNext, ClearNext
<1>3. Inv => OneInstance
  <2> SUFFICES ASSUME Inv, NEW i \in present \cap Overlay \cap Complete, NEW u \in Units,
                      envOf[u] = nameOf[i]
               PROVE  service[u] # {"own", "orphan"}
    BY DEF OneInstance
  <2>1. CASE Early
    BY <2>1 DEF StartInv
  <2>2. CASE ~Early
    BY <2>2 DEF ClearInv, Early, Ahead
  <2> QED
    BY <2>1, <2>2
<1> QED
  BY <1>1, <1>2, <1>3, PTL DEF HealthySpec
=============================================================================
