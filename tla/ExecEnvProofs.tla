--------------------------- MODULE ExecEnvProofs ----------------------------
(* Proofs about ExecEnv for any instances, names and bounds.                *)
EXTENDS ExecEnv, TLAPS

(* A write on the bus. *)
Write(i) ==
  BusRemove(i) \/ AddInstance(i) \/ \E b \in BOOLEAN : BusWrite(i, b) \/ BusAdd(i, b)

(* The events are distinct. *)
LEMMA EventFacts ==
  /\ AppStart \in Events
  /\ \A i \in Insts : Changed(i) \in Events /\ Removed(i) \in Events
  /\ \A i, j \in Insts : Changed(i) # AppStart /\ Removed(i) # AppStart
                         /\ Changed(i) # Removed(j)
                         /\ (Changed(i) = Changed(j) => i = j)
                         /\ (Removed(i) = Removed(j) => i = j)
BY EnvAssumption DEF Events, Changed, Removed

(* The constants, in the form the steps use them. *)
LEMMA InstFacts == NoInst \notin Insts /\ MaxRespawns \in Nat
BY EnvAssumption

(* An event stays in a queue that grows, and the new one is in it. *)
LEMMA QueueAppend ==
  ASSUME queue \in Seq(Events), NEW x \in Events, queue' = Append(queue, x)
  PROVE  /\ queue' \in Seq(Events) /\ Queued(x)'
         /\ \A ev \in Events : Queued(ev)' <=> (Queued(ev) \/ ev = x)
<1>1. /\ Len(queue') = Len(queue) + 1 /\ Len(queue) \in Nat
      /\ queue'[Len(queue) + 1] = x
      /\ \A k \in 1..Len(queue) : queue'[k] = queue[k]
  OBVIOUS
<1>2. Queued(x)'
  BY <1>1 DEF Queued
<1>3. ASSUME NEW ev \in Events, Queued(ev) PROVE Queued(ev)'
  BY <1>1, <1>3 DEF Queued
<1>4. ASSUME NEW ev \in Events, Queued(ev)', ev # x PROVE Queued(ev)
  BY <1>1, <1>4 DEF Queued
<1> QED
  BY <1>2, <1>3, <1>4

(* Only the head leaves a queue whose head is taken. *)
LEMMA QueueTail ==
  ASSUME queue \in Seq(Events), Take
  PROVE  /\ queue' \in Seq(Events) /\ Head(queue) \in Events
         /\ Idle /\ Queued(Head(queue))
         /\ \A ev \in Events : /\ Queued(ev)' => Queued(ev)
                               /\ Queued(ev) => ev = Head(queue) \/ Queued(ev)'
<1>1. /\ queue # <<>> /\ queue' = Tail(queue) /\ Idle
      /\ Len(queue) \in Nat \ {0} /\ Len(queue') = Len(queue) - 1
      /\ Head(queue) = queue[1] /\ queue' \in Seq(Events)
      /\ \A k \in 1..Len(queue') : queue'[k] = queue[k + 1]
  BY DEF Take
<1>2. ASSUME NEW ev \in Events, Queued(ev)' PROVE Queued(ev)
  <2>1. PICK k \in 1..Len(queue') : queue'[k] = ev
    BY <1>2 DEF Queued
  <2>2. k + 1 \in 1..Len(queue) /\ queue[k + 1] = ev
    BY <1>1, <2>1
  <2> QED
    BY <2>2 DEF Queued
<1>3. ASSUME NEW ev \in Events, Queued(ev), ev # Head(queue) PROVE Queued(ev)'
  <2>1. PICK k \in 1..Len(queue) : queue[k] = ev
    BY <1>3 DEF Queued
  <2>2. k - 1 \in 1..Len(queue') /\ queue'[k - 1] = ev
    BY <1>1, <1>3, <2>1
  <2> QED
    BY <2>2 DEF Queued
<1>4. Queued(Head(queue))
  BY <1>1 DEF Queued
<1> QED
  BY <1>1, <1>2, <1>3, <1>4

-----------------------------------------------------------------------------
(* The initial state is well-typed. *)
LEMMA TypeInit == Init => TypeOK
<1> SUFFICES ASSUME Init PROVE TypeOK
  OBVIOUS
<1>1. queue \in Seq(Events)
  BY EventFacts DEF Init
<1>2. {nameOf[i] : i \in present} \subseteq Names
  BY EnvAssumption DEF Init
<1> QED
  <2>1. defined \subseteq Names /\ mounted \subseteq Names /\ running \subseteq defined
    BY <1>2 DEF Init
  <2>2. /\ present \subseteq born /\ born \subseteq Insts /\ todo \subseteq present
        /\ enable \in [Insts -> BOOLEAN] /\ status \in [Insts -> Statuses]
        /\ saved \in [present : SUBSET born, enable : [Insts -> BOOLEAN]]
    BY DEF Init, Statuses
  <2>3. /\ mpc \in MainPcs /\ mpc = "loop" /\ cur = NoInst
        /\ handle \in {"held", "freed", "null"} /\ failed \in BOOLEAN
    BY DEF Init, MainPcs
  <2>4. respawns \in 0..MaxRespawns
    BY InstFacts DEF Init
  <2>5. unheard \subseteq born /\ clash \subseteq Names
    BY DEF Init, Twice
  <2> QED
    BY <1>1, <2>1, <2>2, <2>3, <2>4, <2>5 DEF TypeOK

(* A write on the bus keeps the types. *)
LEMMA TypeWrite == ASSUME TypeOK, NEW i \in Insts, Write(i) PROVE TypeOK'
<1> USE DEF TypeOK, mainVars, lxcVars, ghostVars
<1>1. ASSUME NEW b \in BOOLEAN, BusWrite(i, b) PROVE TypeOK'
  <2>1. queue' \in Seq(Events)
    BY <1>1, EventFacts DEF BusWrite
  <2> QED
    BY <1>1, <2>1 DEF BusWrite
<1>2. CASE BusRemove(i)
  <2>1. queue' \in Seq(Events)
    BY <1>2, EventFacts DEF BusRemove
  <2> QED
    BY <1>2, <2>1 DEF BusRemove, Idle
<1>3. ASSUME NEW b \in BOOLEAN, Added(i, b)
      PROVE  /\ present' \subseteq born' /\ born' \subseteq Insts /\ present \subseteq present'
             /\ enable' \in [Insts -> BOOLEAN] /\ clash' \subseteq Names /\ born \subseteq born'
             /\ saved \in [present : SUBSET born', enable : [Insts -> BOOLEAN]]
  <2>1. /\ present' = present \cup {i} /\ born' = born \cup {i}
        /\ enable' = [enable EXCEPT ![i] = b] /\ clash' \in {clash, clash \cup {nameOf[i]}}
    BY <1>3 DEF Added
  <2>2. nameOf[i] \in Names
    BY EnvAssumption
  <2> QED
    BY <2>1, <2>2
<1>4. CASE AddInstance(i)
  <2>1. /\ status' \in [Insts -> Statuses] /\ mpc' \in MainPcs /\ failed' \in BOOLEAN
        /\ handle' \in {"held", "freed", "null"}
        /\ IF mpc' = "loop" THEN cur' = NoInst ELSE cur' \in Insts
    BY ZenonT(40), <1>4 DEF AddInstance, Begin, Statuses, MainPcs
  <2> QED
    BY <1>3, <1>4, <2>1 DEF AddInstance
<1>5. ASSUME NEW b \in BOOLEAN, BusAdd(i, b) PROVE TypeOK'
  <2>1. unheard' \subseteq born'
    BY <1>5 DEF BusAdd, Added
  <2> QED
    BY <1>3, <1>5, <2>1 DEF BusAdd
<1> QED
  BY <1>1, <1>2, <1>4, <1>5 DEF Write

(* A handler keeps the types. *)
LEMMA TypeHandler == TypeOK /\ Handler => TypeOK'
<1> SUFFICES ASSUME TypeOK, Handler PROVE TypeOK'
  OBVIOUS
<1> USE DEF TypeOK, mainVars, lxcVars, dmVars, ghostVars
<1>1. CASE ExecEnvManage
  BY <1>1, QueueTail DEF ExecEnvManage
<1>2. ASSUME NEW i \in Insts, odlExecEnvChanged(i) PROVE TypeOK'
  BY ZenonT(40), <1>2, QueueTail DEF odlExecEnvChanged, Begin, Statuses, MainPcs
<1>3. ASSUME NEW i \in Insts, ChangedGone(i) PROVE TypeOK'
  BY <1>3, QueueTail DEF ChangedGone
<1>4. ASSUME NEW i \in Insts, odlExecEnvUninstalled(i) PROVE TypeOK'
  BY <1>4, QueueTail DEF odlExecEnvUninstalled, MainPcs
<1>5. ASSUME NEW i \in todo, Visit(i) PROVE TypeOK'
  BY ZenonT(40), <1>5 DEF Visit, Begin, Statuses, MainPcs
<1> QED
  BY <1>1, <1>2, <1>3, <1>4, <1>5 DEF Handler

(* A step of LxcContainer::run keeps the types. *)
LEMMA TypeRun == TypeOK /\ RunStep => TypeOK'
<1> SUFFICES ASSUME TypeOK, RunStep PROVE TypeOK'
  OBVIOUS
<1>0. mpc \notin {"loop", "dead"} /\ cur \in Insts /\ Name \in Names
  BY EnvAssumption DEF RunStep, Create, CreateNull, Prepare, Restart, Start, StopContainer,
     Destroy, Report, Name, TypeOK
<1> USE <1>0 DEF TypeOK, mainVars, lxcVars, dmVars, ghostVars, Goto, Die, MainPcs
<1>1. CASE Create \/ CreateNull
  BY <1>1 DEF Create, CreateNull, SetupOverlayFs
<1>2. CASE Prepare
  BY <1>2 DEF Prepare, SetupOverlayFs
<1>3. CASE Restart
  BY <1>3 DEF Restart
<1>4. CASE Start
  BY <1>4 DEF Start
<1>5. CASE StopContainer
  BY <1>5 DEF StopContainer
<1>6. CASE Destroy
  BY <1>6 DEF Destroy
<1>7. CASE Report
  BY <1>7 DEF Report, Statuses
<1> QED
  BY <1>1, <1>2, <1>3, <1>4, <1>5, <1>6, <1>7 DEF RunStep

(* A daemon that starts finds everything of its type. *)
LEMMA TypeLoad == TypeOK /\ Load => TypeOK'
<1> SUFFICES ASSUME TypeOK, Load PROVE TypeOK'
  OBVIOUS
<1>1. queue' \in Seq(Events)
  BY EventFacts DEF Load
<1>2. /\ present' \subseteq born' /\ born' \subseteq Insts /\ todo' \subseteq present'
      /\ enable' \in [Insts -> BOOLEAN]
      /\ saved' \in [present : SUBSET born', enable : [Insts -> BOOLEAN]]
  BY DEF Load, TypeOK
<1>3. /\ status' \in [Insts -> Statuses] /\ cur' = NoInst
      /\ mpc' \in MainPcs /\ mpc' = "loop"
      /\ handle' \in {"held", "freed", "null"} /\ failed' \in BOOLEAN
  BY DEF Load, Statuses, MainPcs
<1>4. respawns' \in 0..MaxRespawns
  BY EnvAssumption DEF Load, TypeOK
<1>5. UNCHANGED lxcVars /\ unheard' = {} /\ clash' = clash
  BY DEF Load
<1> QED
  BY <1>1, <1>2, <1>3, <1>4, <1>5 DEF TypeOK, lxcVars

(* Every step keeps the types. *)
LEMMA TypeNext == TypeOK /\ [Next]_vars => TypeOK'
<1> SUFFICES ASSUME TypeOK, [Next]_vars PROVE TypeOK'
  OBVIOUS
<1>1. CASE Save
  BY <1>1 DEF Save, TypeOK, mainVars, lxcVars, ghostVars
<1>2. CASE Respawn
  BY <1>2, TypeLoad DEF Respawn
<1>3. ASSUME NEW n \in Names, ContainerEnds(n) PROVE TypeOK'
  BY <1>3 DEF ContainerEnds, TypeOK, mainVars, dmVars, ghostVars
<1>4. CASE UNCHANGED vars
  BY <1>4 DEF vars, ghostVars, TypeOK
<1> QED
  BY <1>1, <1>2, <1>3, <1>4, TypeWrite, TypeHandler, TypeRun DEF Next, MainStep, Write

(* Every reachable state is well-typed; in particular no container runs    *)
(* that lxc does not know.                                                 *)
THEOREM TypeCorrect == Spec => []TypeOK
BY TypeInit, TypeNext, PTL DEF Spec

-----------------------------------------------------------------------------
(* What the handler under way knows of its instance: the branch of run()   *)
(* follows Enable, and what is destroyed, or waits to be, is not in the     *)
(* data model.  An instance that is not complete is never processed.       *)
RunInv ==
  /\ mpc \in {"create", "prepare", "restart", "start", "stop", "report"} =>
       cur \in present \cap Complete
  /\ mpc \in {"create", "prepare", "restart", "start"} => enable[cur]
  /\ mpc = "stop" => ~enable[cur]
  /\ mpc \in {"destroyStop", "destroy"} => cur \notin present
GoneInv == \A i \in Insts : Queued(Removed(i)) => i \in born \ present
BlankInv == \A i \in Insts \ Complete : status[i] = "Disabled"

(* Nothing is under way in the initial state. *)
LEMMA RunInit == Init => RunInv /\ GoneInv /\ BlankInv
<1> SUFFICES ASSUME Init PROVE RunInv /\ GoneInv /\ BlankInv
  OBVIOUS
<1>1. \A ev \in Events : Queued(ev) => ev = AppStart
  BY DEF Init, Queued
<1> QED
  BY <1>1, EventFacts DEF Init, RunInv, GoneInv, BlankInv

(* Every step keeps what the handler knows. *)
LEMMA RunNext ==
  TypeOK /\ RunInv /\ GoneInv /\ BlankInv /\ [Next]_vars => RunInv' /\ GoneInv' /\ BlankInv'
<1> DEFINE Known == RunInv /\ GoneInv /\ BlankInv
<1> SUFFICES ASSUME TypeOK, Known, [Next]_vars PROVE Known'
  OBVIOUS
<1> USE EventFacts DEF mainVars, lxcVars, dmVars, ghostVars, BlankInv
<1>1. ASSUME NEW i \in Insts, Write(i) PROVE Known'
  <2>1. ASSUME NEW b \in BOOLEAN, BusWrite(i, b) PROVE Known'
    BY <2>1, QueueAppend DEF BusWrite, Idle, TypeOK, RunInv, GoneInv
  <2>2. CASE BusRemove(i)
    BY <2>2, QueueAppend DEF BusRemove, Idle, TypeOK, RunInv, GoneInv
  <2>3. CASE AddInstance(i)
    <3>1. /\ i \in Complete /\ i \notin born /\ cur' = i /\ mpc' = "create"
          /\ present' = present \cup {i} /\ born' = born \cup {i} /\ queue' = queue
          /\ enable' = [enable EXCEPT ![i] = TRUE] /\ status' = [status EXCEPT ![i] = "Working"]
      BY <2>3 DEF AddInstance, Added, Begin
    <3>2. GoneInv'
      BY <3>1 DEF GoneInv, Queued
    <3> QED
      BY <3>1, <3>2 DEF RunInv, TypeOK
  <2>4. ASSUME NEW b \in BOOLEAN, BusAdd(i, b) PROVE Known'
    BY <2>4 DEF BusAdd, Added, Idle, TypeOK, RunInv, GoneInv, Queued
  <2> QED
    BY <1>1, <2>1, <2>2, <2>3, <2>4 DEF Write
<1>2. CASE Handler
  <2>1. CASE ExecEnvManage
    BY <2>1, QueueTail DEF ExecEnvManage, TypeOK, RunInv, GoneInv, Idle
  <2>2. ASSUME NEW i \in Insts, odlExecEnvChanged(i) PROVE Known'
    BY <2>2, QueueTail DEF odlExecEnvChanged, Begin, TypeOK, RunInv, GoneInv, Idle
  <2>3. ASSUME NEW i \in Insts, ChangedGone(i) PROVE Known'
    BY <2>3, QueueTail DEF ChangedGone, TypeOK, RunInv, GoneInv, Idle
  <2>4. ASSUME NEW i \in Insts, odlExecEnvUninstalled(i) PROVE Known'
    BY <2>4, QueueTail DEF odlExecEnvUninstalled, TypeOK, RunInv, GoneInv
  <2>5. ASSUME NEW i \in todo, Visit(i) PROVE Known'
    BY <2>5 DEF Visit, Begin, TypeOK, RunInv, GoneInv, Queued
  <2> QED
    BY <1>2, <2>1, <2>2, <2>3, <2>4, <2>5 DEF Handler
<1>3. CASE RunStep
  <2>1. GoneInv'
    BY <1>3 DEF RunStep, Create, CreateNull, SetupOverlayFs, Prepare, Restart, Start,
       StopContainer, Destroy, Report, Goto, Die, GoneInv, Queued
  <2>2. RunInv'
    BY <1>3 DEF RunStep, Create, CreateNull, SetupOverlayFs, Prepare, Restart, Start,
       StopContainer, Destroy, Report, Goto, Die, RunInv
  <2>3. BlankInv'
    BY <1>3 DEF RunStep, Create, CreateNull, SetupOverlayFs, Prepare, Restart, Start,
       StopContainer, Destroy, Report, Goto, Die, RunInv, TypeOK
  <2> QED
    BY <2>1, <2>2, <2>3
<1>4. CASE Save
  BY <1>4 DEF Save, RunInv, GoneInv, Queued
<1>5. CASE Respawn
  <2>1. \A ev \in Events : Queued(ev)' => ev = AppStart
    BY <1>5 DEF Respawn, Load, Queued
  <2> QED
    BY <1>5, <2>1 DEF Respawn, Load, RunInv, GoneInv
<1>6. ASSUME NEW n \in Names, ContainerEnds(n) PROVE Known'
  BY <1>6 DEF ContainerEnds, RunInv, GoneInv, Queued
<1>7. CASE UNCHANGED vars
  BY <1>7 DEF vars, RunInv, GoneInv, Queued
<1> QED
  BY <1>1, <1>2, <1>3, <1>4, <1>5, <1>6, <1>7 DEF Next, MainStep, Write

(* A complete instance is settled by the report of its own handler, and by *)
(* nothing else; until the next event its Enable and Status stay.          *)
LEMMA SettledBy ==
  ASSUME TypeOK, RunInv, [Next]_vars, NEW i \in Insts \cap Complete, Settled(i)'
  PROVE  \/ Report /\ cur = i
         \/ Settled(i) /\ enable'[i] = enable[i] /\ status'[i] = status[i]
<1> DEFINE Same == Settled(i) /\ enable'[i] = enable[i] /\ status'[i] = status[i]
<1> USE EventFacts DEF mainVars, lxcVars, dmVars, ghostVars
<1>1. ASSUME NEW j \in Insts, Write(j) PROVE Same
  <2>1. ASSUME NEW b \in BOOLEAN, BusWrite(j, b) PROVE Same
    BY <2>1, QueueAppend DEF BusWrite, Settled, TypeOK
  <2>2. CASE BusRemove(j)
    BY <2>2, QueueAppend DEF BusRemove, Settled, TypeOK
  <2>3. CASE AddInstance(j)
    <3>1. /\ cur' = j /\ present' = present \cup {j} /\ mpc = "loop" /\ todo = {}
          /\ enable' = [enable EXCEPT ![j] = TRUE] /\ queue' = queue /\ unheard' = unheard
          /\ status' = [status EXCEPT ![j] = "Working"]
      BY <2>3 DEF AddInstance, Added, Begin, Idle
    <3>2. i # j /\ i \in present /\ ~Queued(Changed(i)) /\ ~Queued(AppStart) /\ i \notin unheard
      BY <3>1 DEF Settled, Queued
    <3>3. enable'[i] = enable[i] /\ status'[i] = status[i]
      BY <3>1, <3>2 DEF TypeOK
    <3>4. cur # i
      BY <3>1, InstFacts DEF TypeOK
    <3> QED
      BY <3>1, <3>2, <3>3, <3>4 DEF Settled
  <2>4. ASSUME NEW b \in BOOLEAN, BusAdd(j, b) PROVE Same
    BY <2>4, InstFacts DEF BusAdd, Added, Settled, Queued, TypeOK, Idle
  <2> QED
    BY <1>1, <2>1, <2>2, <2>3, <2>4 DEF Write
<1>2. CASE Handler
  <2>1. CASE ExecEnvManage
    BY <2>1 DEF ExecEnvManage, Settled
  <2>2. ASSUME NEW j \in Insts, odlExecEnvChanged(j) PROVE Same
    <3>1. /\ Idle /\ Head(queue) = Changed(j) /\ cur = NoInst
          /\ present' = present /\ enable' = enable /\ todo' = todo /\ unheard' = unheard
          /\ status' = status \/ status' = [status EXCEPT ![j] = "Working"]
          /\ (j \in Complete => cur' = j) /\ mpc = "loop"
      BY <2>2, QueueTail DEF odlExecEnvChanged, Begin, TypeOK, Idle
    <3>2. CASE i # j
      <4>1. i \in present /\ i \notin todo /\ ~Queued(Changed(i))' /\ ~Queued(AppStart)'
            /\ i \notin unheard
        BY <3>1 DEF Settled
      <4>2. ~Queued(Changed(i)) /\ ~Queued(AppStart)
        BY <2>2, <3>1, <3>2, <4>1, QueueTail DEF odlExecEnvChanged, TypeOK
      <4> QED
        BY <3>1, <3>2, <4>1, <4>2, InstFacts DEF Settled, TypeOK
    <3>3. CASE i = j
      BY <3>1, <3>3 DEF Settled
    <3> QED
      BY <3>2, <3>3
  <2>3. ASSUME NEW j \in Insts, ChangedGone(j) PROVE Same
    BY <2>3, QueueTail DEF ChangedGone, Settled, TypeOK, Idle
  <2>4. ASSUME NEW j \in Insts, odlExecEnvUninstalled(j) PROVE Same
    BY <2>4, QueueTail, InstFacts DEF odlExecEnvUninstalled, Settled, TypeOK, Idle
  <2>5. ASSUME NEW j \in todo, Visit(j) PROVE Same
    <3>1. i # j
      BY <2>5 DEF Visit, Begin, Settled
    <3> QED
      BY <2>5, <3>1, InstFacts DEF Visit, Begin, Settled, Queued, TypeOK
  <2> QED
    BY <1>2, <2>1, <2>2, <2>3, <2>4, <2>5 DEF Handler
<1>3. CASE RunStep /\ ~(Report /\ cur = i)
  <2>1. CASE Report
    BY <1>3, <2>1 DEF Report, Settled, Queued, TypeOK
  <2>2. CASE Destroy
    BY <2>2 DEF Destroy, Die, Goto, RunInv, Settled, Queued
  <2>3. CASE StopContainer
    BY <2>3 DEF StopContainer, Goto, RunInv, Settled, Queued
  <2>4. CASE Create \/ CreateNull \/ Prepare \/ Restart \/ Start
    BY <2>4 DEF Create, CreateNull, SetupOverlayFs, Prepare, Restart, Start,
       Goto, Die, Settled, Queued
  <2> QED
    BY <1>3, <2>1, <2>2, <2>3, <2>4 DEF RunStep
<1>4. CASE Save
  BY <1>4 DEF Save, Settled, Queued
<1>5. CASE Respawn
  <2>1. Queued(AppStart)'
    BY <1>5 DEF Respawn, Load, Queued
  <2> QED
    BY <2>1 DEF Settled
<1>6. ASSUME NEW n \in Names, ContainerEnds(n) PROVE Same
  BY <1>6 DEF ContainerEnds, Settled, Queued
<1>7. CASE UNCHANGED vars
  BY <1>7 DEF vars, Settled, Queued
<1> QED
  BY <1>1, <1>2, <1>3, <1>4, <1>5, <1>6, <1>7 DEF Next, MainStep, Write

(* Status follows Enable or says Error: no write is missed and no instance *)
(* with a Name and a Type stays at Working, whatever fails and across      *)
(* restarts of the daemon (processExecEnvObject, amxhandler.cpp:297-313).  *)
THEOREM StatusFollowsEnableHolds == Spec => []StatusFollowsEnable
<1>1. Init => StatusFollowsEnable
  <2> SUFFICES ASSUME Init PROVE StatusFollowsEnable
    OBVIOUS
  <2>1. Queued(AppStart)
    BY DEF Init, Queued
  <2> QED
    BY <2>1 DEF StatusFollowsEnable, Settled
<1>2. TypeOK /\ RunInv /\ StatusFollowsEnable /\ [Next]_vars => StatusFollowsEnable'
  <2> SUFFICES ASSUME TypeOK, RunInv, StatusFollowsEnable, [Next]_vars,
                      NEW i \in Complete, Settled(i)'
               PROVE  status'[i] \in {"Error", IF enable'[i] THEN "Up" ELSE "Disabled"}
    BY DEF StatusFollowsEnable
  <2>0. i \in Insts
    BY EnvAssumption
  <2>1. CASE Report /\ cur = i
    BY <2>0, <2>1 DEF Report, TypeOK, dmVars
  <2>2. CASE Settled(i) /\ enable'[i] = enable[i] /\ status'[i] = status[i]
    BY <2>2 DEF StatusFollowsEnable
  <2> QED
    BY <2>0, <2>1, <2>2, SettledBy
<1> QED
  BY <1>1, <1>2, RunInit, RunNext, TypeCorrect, PTL DEF Spec

-----------------------------------------------------------------------------
(* Instance j still has the name, or its removal is not done.              *)
Holds(j) == \/ j \in present \/ Queued(Removed(j))
            \/ cur = j /\ mpc \in {"destroyStop", "destroy"}

(* A name that two instances hold, in the data model or in its file, was   *)
(* given to one of them while the other one held it.                       *)
ClashInv == \A i \in present, j \in Insts :
  i # j /\ nameOf[i] = nameOf[j] /\ Holds(j) => nameOf[i] \in clash
SavedInv == \A i, j \in saved.present : i # j /\ nameOf[i] = nameOf[j] => nameOf[i] \in clash

(* Names held by two instances of the initial data model are in clash.     *)
LEMMA ClashInit == Init => ClashInv /\ SavedInv
<1> SUFFICES ASSUME Init PROVE ClashInv /\ SavedInv
  OBVIOUS
<1>1. \A j \in Insts : ~Queued(Removed(j))
  BY EventFacts DEF Init, Queued
<1>2. \A i, j \in present : i # j /\ nameOf[i] = nameOf[j] => nameOf[i] \in clash
  BY EnvAssumption DEF Init, Twice
<1> QED
  BY <1>1, <1>2 DEF Init, ClashInv, SavedInv, Holds

(* No step lets two instances hold a name that is not in clash.            *)
LEMMA ClashNext ==
  TypeOK /\ RunInv /\ ClashInv /\ SavedInv /\ [Next]_vars
  => ClashInv' /\ SavedInv' /\ clash \subseteq clash'
<1> SUFFICES ASSUME TypeOK, RunInv, ClashInv, SavedInv, [Next]_vars
             PROVE  ClashInv' /\ SavedInv' /\ clash \subseteq clash'
  OBVIOUS
<1> USE EventFacts DEF mainVars, lxcVars, dmVars, ghostVars
<1>1. ASSUME present' \subseteq present, clash' = clash, saved' = saved,
             \A j \in Insts : Holds(j)' => Holds(j)
      PROVE  ClashInv' /\ SavedInv' /\ clash \subseteq clash'
  BY <1>1 DEF ClashInv, SavedInv
<1>2. ASSUME NEW i \in Insts, Write(i)
      PROVE  ClashInv' /\ SavedInv' /\ clash \subseteq clash'
  <2>1. ASSUME NEW b \in BOOLEAN, BusWrite(i, b)
        PROVE  ClashInv' /\ SavedInv' /\ clash \subseteq clash'
    BY <1>1, <2>1, QueueAppend DEF BusWrite, Holds, TypeOK
  <2>2. CASE BusRemove(i)
    BY <1>1, <2>2, QueueAppend DEF BusRemove, Holds, TypeOK
  <2>3. ASSUME NEW b \in BOOLEAN, Added(i, b), Idle, queue' = queue, saved' = saved,
               mpc' \in {"loop", "create"}
        PROVE  ClashInv' /\ SavedInv' /\ clash \subseteq clash'
    <3>1. clash \subseteq clash' /\ present' = present \cup {i}
      BY <2>3 DEF Added
    <3>2. ASSUME NEW j \in Insts \ {i}, Holds(j)' PROVE j \in present \/ Queued(Removed(j))
      BY <2>3, <3>1, <3>2 DEF Holds, Queued
    <3>3. \A j \in Insts : nameOf[j] = nameOf[i] /\ (j \in present \/ Queued(Removed(j)))
                           => nameOf[i] \in clash'
      BY <2>3 DEF Added
    <3>4. ASSUME NEW k \in present', NEW j \in Insts, k # j, nameOf[k] = nameOf[j], Holds(j)'
          PROVE  nameOf[k] \in clash'
      <4>1. CASE k = i
        BY <3>2, <3>3, <3>4, <4>1
      <4>2. CASE k # i /\ j = i
        BY <3>1, <3>3, <3>4, <4>2 DEF TypeOK
      <4>3. CASE k # i /\ j # i
        BY <3>1, <3>2, <3>4, <4>3 DEF ClashInv, Holds
      <4> QED
        BY <4>1, <4>2, <4>3
    <3> QED
      BY <2>3, <3>1, <3>4 DEF ClashInv, SavedInv
  <2> QED
    BY <1>2, <2>1, <2>2, <2>3 DEF Write, AddInstance, BusAdd, Begin, Idle
<1>3. CASE Handler
  <2>1. ASSUME NEW i \in Insts, odlExecEnvUninstalled(i)
        PROVE  ClashInv' /\ SavedInv' /\ clash \subseteq clash'
    BY <1>1, <2>1, QueueTail DEF odlExecEnvUninstalled, Holds, TypeOK
  <2>2. ASSUME NEW i \in todo, Visit(i)
        PROVE  ClashInv' /\ SavedInv' /\ clash \subseteq clash'
    BY <1>1, <2>2 DEF Visit, Begin, Holds, Queued
  <2>3. ASSUME NEW i \in Insts, odlExecEnvChanged(i)
        PROVE  ClashInv' /\ SavedInv' /\ clash \subseteq clash'
    BY <1>1, <2>3, QueueTail DEF odlExecEnvChanged, Begin, Holds, TypeOK
  <2>4. CASE ExecEnvManage \/ \E i \in Insts : ChangedGone(i)
    BY <1>1, <2>4, QueueTail DEF ExecEnvManage, ChangedGone, Holds, TypeOK, Idle
  <2> QED
    BY <1>3, <2>1, <2>2, <2>3, <2>4 DEF Handler
<1>4. CASE RunStep
  BY <1>1, <1>4 DEF RunStep, Create, CreateNull, SetupOverlayFs, Prepare, Restart, Start,
     StopContainer, Destroy, Report, Goto, Die, Holds, Queued
<1>5. CASE Save
  <2>1. saved'.present = present /\ clash' = clash
    BY <1>5 DEF Save
  <2>2. ClashInv'
    BY <1>5 DEF Save, ClashInv, Holds, Queued
  <2> QED
    BY <2>1, <2>2 DEF ClashInv, SavedInv, Holds, TypeOK
<1>6. CASE Respawn
  <2>1. \A j \in Insts : ~Queued(Removed(j))'
    BY <1>6 DEF Respawn, Load, Queued
  <2>2. present' = saved.present /\ mpc' = "loop" /\ UNCHANGED <<saved, clash>>
    BY <1>6 DEF Respawn, Load
  <2> QED
    BY <2>1, <2>2 DEF ClashInv, SavedInv, Holds
<1>7. ASSUME NEW n \in Names, ContainerEnds(n)
      PROVE  ClashInv' /\ SavedInv' /\ clash \subseteq clash'
  BY <1>1, <1>7 DEF ContainerEnds, Holds, Queued
<1>8. CASE UNCHANGED vars
  BY <1>1, <1>8 DEF vars, Holds, Queued
<1> QED
  BY <1>2, <1>3, <1>4, <1>5, <1>6, <1>7, <1>8 DEF Next, MainStep, Write

(* A step that forgets a container is the end of run(DESTROY).             *)
LEMMA ForgetsBy ==
  ASSUME [Next]_vars, NEW n \in defined \ defined'
  PROVE  mpc = "destroy" /\ n = Name
BY DEF Next, MainStep, Handler, RunStep, BusRemove, AddInstance, BusWrite, BusAdd,
   ExecEnvManage, odlExecEnvChanged, ChangedGone, odlExecEnvUninstalled, Visit, Create,
   CreateNull, SetupOverlayFs, Prepare, Restart, Start, StopContainer, Destroy, Report, Save,
   Respawn, Load, ContainerEnds, lxcVars, vars

(* No container is destroyed under an instance of the data model, unless   *)
(* its name was given to it while another instance still held it           *)
(* (odlExecEnvUninstalled, amxhandler.cpp:361-373).                        *)
THEOREM DestroysOnlyRemovedHolds == Spec => DestroysOnlyRemoved
<1>1. TypeOK /\ RunInv /\ ClashInv /\ [Next]_vars =>
        [\A i \in present : nameOf[i] \in defined \ defined' => nameOf[i] \in clash]_vars
  <2> SUFFICES ASSUME TypeOK, RunInv, ClashInv, [Next]_vars, NEW i \in present,
                      nameOf[i] \in defined \ defined'
               PROVE  nameOf[i] \in clash
    OBVIOUS
  <2>1. mpc = "destroy" /\ nameOf[i] = nameOf[cur]
    BY ForgetsBy DEF Name
  <2>2. cur \in Insts /\ cur \notin present /\ Holds(cur)
    BY <2>1 DEF TypeOK, RunInv, Holds
  <2> QED
    BY <2>1, <2>2 DEF ClashInv
<1> QED
  BY <1>1, RunInit, RunNext, ClashInit, ClashNext, TypeCorrect, PTL DEF Spec, DestroysOnlyRemoved

-----------------------------------------------------------------------------
(* What a report of success knows. *)
StartedInv ==
  mpc = "report" /\ enable[cur] /\ ~failed /\ Name \notin Mortal => Name \in running

(* A step that stops a container is a handler's, at the instance of that   *)
(* name, or the container ends by itself.                                  *)
LEMMA StopsBy ==
  ASSUME [Next]_vars, NEW n \in running \ running'
  PROVE  n \in Mortal \/ (mpc \in {"prepare", "stop", "destroyStop", "destroy"} /\ n = Name)
BY DEF Next, MainStep, Handler, RunStep, BusRemove, AddInstance, BusWrite, BusAdd,
   ExecEnvManage, odlExecEnvChanged, ChangedGone, odlExecEnvUninstalled, Visit, Create,
   CreateNull, SetupOverlayFs, Prepare, Restart, Start, StopContainer, Destroy, Report, Save,
   Respawn, Load, ContainerEnds, lxcVars, vars

(* Status Up on a settled instance means that its container runs, unless   *)
(* it ended by itself or two instances held its name (amxhandler.cpp:313). *)
THEOREM UpMeansRunningHolds == Spec => []UpMeansRunning
<1>1. Init => UpMeansRunning /\ StartedInv
  <2> SUFFICES ASSUME Init PROVE UpMeansRunning /\ StartedInv
    OBVIOUS
  <2>1. Queued(AppStart) /\ mpc = "loop"
    BY DEF Init, Queued
  <2> QED
    BY <2>1 DEF UpMeansRunning, Settled, StartedInv
<1>2. TypeOK /\ RunInv /\ StartedInv /\ [Next]_vars => StartedInv'
  <2> SUFFICES ASSUME TypeOK, RunInv, StartedInv, [Next]_vars, mpc' = "report",
                      enable'[cur'], ~failed', Name' \notin Mortal
               PROVE  Name' \in running'
    BY DEF StartedInv
  <2>1. CASE RunStep
    BY <2>1 DEF RunStep, Create, CreateNull, SetupOverlayFs, Prepare, Restart, Start,
       StopContainer, Destroy, Report, Goto, Die, dmVars, RunInv, Name
  <2>2. CASE ~RunStep
    <3>1. mpc = "report" /\ UNCHANGED <<enable, cur, failed>> /\ running \ Mortal \subseteq running'
      BY <2>2 DEF Next, MainStep, Handler, BusRemove, AddInstance, BusWrite, BusAdd, ExecEnvManage,
         odlExecEnvChanged, ChangedGone, odlExecEnvUninstalled, Visit, Begin, Save, Respawn, Load,
         ContainerEnds, Take, Idle, mainVars, dmVars, lxcVars, vars
    <3> QED
      BY <3>1 DEF StartedInv, Name
  <2> QED
    BY <2>1, <2>2
<1>3. /\ TypeOK /\ RunInv /\ BlankInv /\ BlankInv' /\ ClashInv /\ clash \subseteq clash'
      /\ StartedInv /\ UpMeansRunning /\ [Next]_vars
      => UpMeansRunning'
  <2> SUFFICES ASSUME TypeOK, RunInv, BlankInv', ClashInv, clash \subseteq clash', StartedInv,
                      UpMeansRunning, [Next]_vars, NEW i \in Insts, Settled(i)',
                      status'[i] = "Up", nameOf[i] \notin Mortal, nameOf[i] \notin clash
               PROVE  nameOf[i] \in running'
    BY DEF UpMeansRunning
  <2>0. i \in Complete
    BY DEF BlankInv
  <2>1. CASE Report /\ cur = i
    BY <2>1 DEF Report, StartedInv, Name, TypeOK, lxcVars
  <2>2. CASE Settled(i) /\ status'[i] = status[i]
    <3>1. nameOf[i] \in running /\ cur # i /\ i \in present
      BY <2>2 DEF UpMeansRunning, Settled
    <3>2. SUFFICES ASSUME nameOf[i] \notin running' PROVE FALSE
      OBVIOUS
    <3>3. mpc \in {"prepare", "stop", "destroyStop", "destroy"} /\ nameOf[i] = nameOf[cur]
      BY <3>1, <3>2, StopsBy DEF Name
    <3>4. cur \in Insts /\ Holds(cur)
      BY <3>3 DEF TypeOK, RunInv, Holds
    <3> QED
      BY <3>1, <3>3, <3>4 DEF ClashInv
  <2> QED
    BY <2>0, <2>1, <2>2, SettledBy
<1> QED
  BY <1>1, <1>2, <1>3, RunInit, RunNext, ClashInit, ClashNext, TypeCorrect, PTL DEF Spec
=============================================================================
