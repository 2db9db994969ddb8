--------------------------- MODULE PatientProofs ---------------------------
(* Proofs about PatientExecUnit: what stop() and the second read of the    *)
(* pid rely on, for any units with names of their own.                     *)
EXTENDS PatientExecUnit, ExecUnitProofs

(* What makes the three inductive.  A child that is not reaped belongs to  *)
(* a set flag, is the one stop would kill, and is waited for by its worker. *)
Unreaped(t) == proc[t] \in Live \cup {"zombie"}
ChildInv == \A t \in Threads : Unreaped(t) =>
  /\ running[Svc(t)] /\ pid[Svc(t)] = t
  /\ wpc[t] = "read" \/ (wpc[t] = "wait" /\ target[t] = t)

(* The main thread is inside stop, past the signal. *)
Stopping == mpc \in {"killed", "stopping"}

(* A worker on its way to attach is the only one of its service, was asked *)
(* for, has the flag set, and nobody stops its unit or has a child of it.  *)
OnWayInv == \A t \in Threads : OnItsWay(t) =>
  /\ proc[t] = "none" /\ requested[unit[t]] = "Active" /\ running[Svc(t)]
  /\ ~(Stopping /\ cur = unit[t])
  /\ \A p \in Threads : p # t /\ (OnItsWay(p) \/ Unreaped(p)) => Svc(p) # Svc(t)

StopInv == mpc = "stopping" => victim = pid[nameOf[cur]]

(* A pid is the one of a child that was attached. *)
PidInv ==
  /\ \A s \in Services : pid[s] # 0 => proc[pid[s]] # "none"
  /\ \A t \in Threads : target[t] # 0 => proc[target[t]] # "none"

AttachInv == ChildInv /\ OnWayInv /\ StopInv /\ PidInv

LEMMA AttachInit == Init => AttachInv
<1> SUFFICES ASSUME Init PROVE AttachInv
  OBVIOUS
<1>1. mpc = "loop" /\ \A t \in Threads : proc[t] = "none" /\ wpc[t] = "none"
  BY DEF Init
<1> QED
  BY <1>1 DEF Init, AttachInv, ChildInv, OnWayInv, Stopping, StopInv, PidInv, Unreaped, OnItsWay, Live

(* A worker that is there is of a unit with a name; workers of one service *)
(* are of one unit.                                                        *)
LEMMA SameUnit ==
  ASSUME TypeOK, NamesUnique, NEW t \in Threads, unit[t] \in Named,
         NEW u \in Named, Svc(t) = nameOf[u]
  PROVE  unit[t] = u
BY DEF NamesUnique, Svc

LEMMA Busy ==
  ASSUME TypeOK, NEW t \in Threads, OnItsWay(t) \/ Unreaped(t)
  PROVE  t <= spawned /\ unit[t] \in Named /\ Svc(t) \in Services /\ t # 0
BY WorkerUnit DEF OnItsWay, Unreaped, Live, Threads

(* A service whose flag is not set has no child and no worker on its way.  *)
LEMMA FlagDown ==
  ASSUME TypeOK, AttachInv, NEW t \in Threads, OnItsWay(t) \/ Unreaped(t)
  PROVE  running[Svc(t)]
BY DEF AttachInv, ChildInv, OnWayInv, Stopping

-----------------------------------------------------------------------------
(* The main thread.  While a worker is on its way its unit is to be active  *)
(* and has its flag set, so the main thread leaves the unit alone; and a    *)
(* unit whose flag is down has no child and no worker on its way.           *)
LEMMA PidFacts ==
  ASSUME TypeOK, NEW x \in Pids, x # 0
  PROVE  x \in Threads
BY ConstantsAssumption DEF TypeOK, Pids, Threads

LEMMA PidKept ==
  ASSUME TypeOK, PidInv, UNCHANGED <<pid, target>>,
         \A t \in Threads : proc[t] # "none" => proc'[t] # "none"
  PROVE  PidInv'
<1>1. \A s \in Services : pid[s] \in Pids
  BY DEF TypeOK
<1>2. \A t \in Threads : target[t] \in Pids
  BY DEF TypeOK
<1> QED
  BY <1>1, <1>2, PidFacts DEF PidInv

LEMMA AttachProcess ==
  ASSUME TypeOK, NamesUnique, AttachInv, NEW u \in todo, Process(u)
  PROVE  AttachInv'
<1> USE NamedFacts, ConstantsAssumption
<1>1. CASE SkipUnnamed(u)
  BY <1>1, PidKept DEF SkipUnnamed, Visit, Wanted, AttachInv, ChildInv, OnWayInv, Stopping, StopInv,
     Unreaped, OnItsWay, Svc, TypeOK
<1>2. CASE Enter(u)
  <2>1. /\ u \in Named /\ nameOf[u] \in Services /\ mpc = "loop" /\ cur' = u
        /\ requested' = [requested EXCEPT ![u] = Wanted(u)] /\ target' = target
    BY <1>2, EnterType DEF Enter, Visit
  <2>2. CASE StartFails(u) \/ Already(u)
    <3>1. UNCHANGED <<running, pid, wpc, unit, proc>> /\ mpc' = "report"
      BY <2>2 DEF StartFails, Already
    <3>2. \A v \in Units : requested[v] = "Active" => requested'[v] = "Active"
      BY <2>1 DEF Wanted, TypeOK
    <3> QED
      BY <2>1, <3>1, <3>2, Busy, PidKept
         DEF AttachInv, ChildInv, OnWayInv, Stopping, StopInv, Unreaped, OnItsWay, Svc
  <2>3. CASE Start(u)
    <3>1. PICK n \in Threads : n = spawned + 1 /\ ~(n <= spawned)
      BY <2>3 DEF Start, Exhausted, Threads, TypeOK
    <3>2. proc[n] = "none" /\ wpc[n] = "none"
      BY <3>1 DEF TypeOK, CreatedOK
    <3>3. /\ wpc'[n] = "check" /\ unit'[n] = u
          /\ \A t \in Threads \ {n} : wpc'[t] = wpc[t] /\ unit'[t] = unit[t]
      BY <2>3, <3>1 DEF Start, TypeOK
    <3>4. /\ running'[nameOf[u]] /\ UNCHANGED <<pid, proc>> /\ mpc' = "report"
          /\ \A s \in Services : running[s] => running'[s]
      BY <2>1, <2>3 DEF Start, TypeOK
    <3>5. \A t \in Threads : OnItsWay(t) \/ Unreaped(t) => Svc(t) # nameOf[u]
      BY <2>3, FlagDown DEF Start
    <3>6. requested'[u] = "Active" /\ \A v \in Units \ {u} : requested'[v] = requested[v]
      BY <2>1, <2>3 DEF Start, TypeOK
    <3>7. \A t \in Threads : Unreaped(t)' <=> Unreaped(t) /\ t # n
      BY <3>2, <3>4 DEF Unreaped, Live
    <3>8. \A t \in Threads : OnItsWay(t)' <=> OnItsWay(t) \/ t = n
      BY <3>2, <3>3 DEF OnItsWay
    <3>9. Svc(n)' = nameOf[u] /\ \A t \in Threads \ {n} : Svc(t)' = Svc(t)
      BY <3>3 DEF Svc
    <3>10. ChildInv'
      BY <2>1, <3>3, <3>4, <3>7, <3>9, Busy DEF AttachInv, ChildInv
    <3>11. OnWayInv'
      <4> SUFFICES ASSUME NEW t \in Threads, OnItsWay(t)'
                   PROVE  /\ proc'[t] = "none" /\ requested'[unit'[t]] = "Active"
                          /\ running'[Svc(t)']
                          /\ \A p \in Threads : p # t /\ (OnItsWay(p) \/ Unreaped(p))'
                                                => Svc(p)' # Svc(t)'
        BY <3>4 DEF OnWayInv, Stopping
      <4>1. CASE t = n
        BY <3>2, <3>3, <3>4, <3>5, <3>6, <3>7, <3>8, <3>9, <4>1
      <4>2. CASE t # n
        <5>1. OnItsWay(t) /\ unit'[t] = unit[t] /\ Svc(t)' = Svc(t)
          BY <3>3, <3>8, <3>9, <4>2
        <5>2. proc[t] = "none" /\ requested[unit[t]] = "Active" /\ running[Svc(t)]
          BY <5>1 DEF AttachInv, OnWayInv, Stopping
        <5>3. unit[t] \in Units /\ Svc(t) \in Services
          BY <5>1, Busy
        <5>4. \A p \in Threads : p # t /\ (OnItsWay(p) \/ Unreaped(p)) => Svc(p) # Svc(t)
          BY <5>1 DEF AttachInv, OnWayInv, Stopping
        <5>5. Svc(t) # nameOf[u]
          BY <3>5, <5>1
        <5> QED
          BY <3>4, <3>6, <3>7, <3>8, <3>9, <5>1, <5>2, <5>3, <5>4, <5>5
      <4> QED
        BY <4>1, <4>2
    <3> QED
      BY <2>1, <3>4, <3>10, <3>11, PidKept DEF AttachInv, StopInv
  <2>4. ASSUME Wanted(u) = "Idle", NEW t \in Threads, OnItsWay(t) PROVE Svc(t) # nameOf[u]
    <3>1. unit[t] \in Named /\ requested[unit[t]] = "Active"
      BY <2>4, Busy DEF AttachInv, OnWayInv, Stopping
    <3>2. unit[t] # u
      BY <2>4, <3>1 DEF Wanted
    <3> QED
      BY <2>1, <3>1, <3>2, SameUnit
  <2>5. \A v \in Units \ {u} : requested'[v] = requested[v]
    BY <2>1 DEF TypeOK
  <2>6. CASE StopUnattached(u)
    <3>1. /\ UNCHANGED <<pid, wpc, unit, proc>> /\ mpc' = "report" /\ pid[nameOf[u]] = 0
          /\ \A s \in Services \ {nameOf[u]} : running'[s] = running[s]
      BY <2>1, <2>6 DEF StopUnattached, TypeOK
    <3>2. \A t \in Threads : Unreaped(t) => Svc(t) # nameOf[u]
      BY <3>1, Busy DEF AttachInv, ChildInv
    <3>3. \A t \in Threads : OnItsWay(t) => unit[t] # u /\ Svc(t) # nameOf[u]
      BY <2>4, <2>6 DEF StopUnattached, Svc
    <3> QED
      BY <2>1, <2>5, <3>1, <3>2, <3>3, Busy, PidKept
         DEF AttachInv, ChildInv, OnWayInv, Stopping, StopInv, Unreaped, OnItsWay, Svc
  <2>7. CASE Kill(u)
    <3>1. UNCHANGED <<running, pid, wpc, unit>> /\ mpc' = "killed"
      BY <2>7 DEF Kill
    <3>2. \A t \in Threads : OnItsWay(t) => unit[t] # u /\ Svc(t) # nameOf[u]
      BY <2>4, <2>7 DEF Kill, Svc
    <3>3. \A t \in Threads : /\ Unreaped(t)' <=> Unreaped(t)
                             /\ proc[t] = "none" <=> proc'[t] = "none"
      BY <2>7 DEF Kill, Unreaped, Live, TypeOK
    <3>4. ChildInv'
      BY <2>1, <3>1, <3>3 DEF AttachInv, ChildInv, Svc
    <3>5. OnWayInv'
      BY <2>1, <2>5, <3>1, <3>2, <3>3, Busy DEF AttachInv, OnWayInv, Stopping, OnItsWay, Svc
    <3> QED
      BY <2>1, <3>1, <3>3, <3>4, <3>5, PidKept DEF AttachInv, StopInv
  <2> QED
    BY <1>2, <2>2, <2>3, <2>6, <2>7 DEF Process, SkipUnnamed, Enter
<1> QED
  BY <1>1, <1>2 DEF Process, Start, StartFails, Kill, StopUnattached, Already
(* stop has killed the one child its service can have.                      *)
LEMMA AttachStop ==
  ASSUME TypeOK, NamesUnique, AttachInv, StopReturns
  PROVE  AttachInv'
<1>0. mpc = "stopping" /\ victim \in Pids /\ victim # 0 /\ cur # NoUnit
  BY DEF StopReturns, TypeOK
<1> PICK v \in Threads : v = victim
  BY <1>0, PidFacts
<1>1. /\ cur \in Named /\ nameOf[cur] \in Services /\ mpc = "stopping"
      /\ v = pid[nameOf[cur]] /\ mpc' = "report"
      /\ UNCHANGED <<requested, pid, wpc, unit, target>>
  BY <1>0, NamedFacts DEF StopReturns, TypeOK, AttachInv, StopInv, unitVars, workerVars
<1>2. /\ running' = [running EXCEPT ![nameOf[cur]] = FALSE]
      /\ proc' = [proc EXCEPT ![v] = "gone"] /\ ~Unreaped(v)'
      /\ \A t \in Threads : Unreaped(t)' => Unreaped(t)
      /\ \A t \in Threads : proc[t] # "none" => proc'[t] # "none"
      /\ \A t \in Threads \ {v} : proc'[t] = proc[t]
  <2>1. proc' = [proc EXCEPT ![v] = "gone"] /\ proc \in [Threads -> ProcStates]
    BY DEF StopReturns, TypeOK
  <2> QED
    BY <1>1, <2>1 DEF StopReturns, Unreaped, Live
<1>3. \A t \in Threads : OnItsWay(t) => Svc(t) # nameOf[cur] /\ t # v
  <2> SUFFICES ASSUME NEW t \in Threads, OnItsWay(t) PROVE Svc(t) # nameOf[cur] /\ t # v
    OBVIOUS
  <2>1. unit[t] \in Named /\ unit[t] # cur /\ proc[t] = "none"
    BY <1>1, Busy DEF AttachInv, OnWayInv, Stopping
  <2>2. proc[v] # "none"
    BY <1>1 DEF AttachInv, PidInv, Threads
  <2> QED
    BY <1>1, <2>1, <2>2, SameUnit
<1>4. \A t \in Threads : Unreaped(t)' => Svc(t) # nameOf[cur]
  <2> SUFFICES ASSUME NEW t \in Threads, Unreaped(t)' PROVE Svc(t) # nameOf[cur]
    OBVIOUS
  <2>1. t # v /\ Unreaped(t)
    BY <1>2
  <2> QED
    BY <1>1, <2>1 DEF AttachInv, ChildInv
<1>5. ChildInv'
  BY <1>1, <1>2, <1>4, Busy DEF AttachInv, ChildInv, Svc, TypeOK
<1>6. OnWayInv'
  BY <1>1, <1>2, <1>3, Busy DEF AttachInv, OnWayInv, Stopping, OnItsWay, Svc, TypeOK
<1> QED
  BY <1>1, <1>2, <1>5, <1>6, PidKept DEF AttachInv, StopInv
-----------------------------------------------------------------------------
(* A worker.  Attach finds the service without a child; the wait for a      *)
(* child that was attached ends only when it is reaped.                     *)
LEMMA AttachWorker ==
  ASSUME TypeOK, NamesUnique, AttachInv, NEW t \in Threads, Worker(t)
  PROVE  AttachInv'
<1>0. /\ wpc[t] # "none" /\ UNCHANGED <<requested, unit, mpc, cur, victim>>
      /\ \A p \in Threads \ {t} : wpc'[p] = wpc[p]
  BY DEF Worker, CheckFails, CheckPasses, Attach, AttachFails, ReadPid, WaitReturns,
     ServiceExit, Goto, unitVars, mainVars, TypeOK
<1>1. t <= spawned /\ unit[t] \in Named /\ Svc(t) \in Services
  BY <1>0, WorkerUnit
<1>2. \A p \in Threads : Svc(p)' = Svc(p)
  BY <1>0 DEF Svc
<1>3. CASE CheckFails(t)
  <2>1. /\ wpc[t] = "check" /\ wpc'[t] = "callback" /\ UNCHANGED <<pid, target, proc>>
        /\ \A s \in Services \ {Svc(t)} : running'[s] = running[s]
    BY <1>1, <1>3 DEF CheckFails, Goto, TypeOK
  <2>2. \A p \in Threads : /\ Unreaped(p)' <=> Unreaped(p)
                           /\ OnItsWay(p)' <=> OnItsWay(p) /\ p # t
    BY <1>0, <2>1 DEF Unreaped, OnItsWay
  <2>3. /\ OnItsWay(t) /\ ~Unreaped(t)
        /\ \A p \in Threads : p # t /\ (OnItsWay(p) \/ Unreaped(p)) => Svc(p) # Svc(t)
    BY <2>1 DEF OnItsWay, AttachInv, OnWayInv, Stopping, Unreaped, Live
  <2>4. ChildInv'
    BY <1>0, <1>2, <2>1, <2>2, <2>3, Busy DEF AttachInv, ChildInv
  <2>5. OnWayInv'
    BY <1>0, <1>2, <2>1, <2>2, <2>3, Busy DEF AttachInv, OnWayInv, Stopping
  <2> QED
    BY <1>0, <2>1, <2>4, <2>5, PidKept DEF AttachInv, StopInv
<1>4. CASE CheckPasses(t)
  <2>1. wpc[t] = "check" /\ wpc'[t] = "attach" /\ UNCHANGED <<running, pid, target, proc>>
    BY <1>4 DEF CheckPasses, Goto, TypeOK
  <2>2. \A p \in Threads : /\ Unreaped(p)' <=> Unreaped(p)
                           /\ OnItsWay(p)' <=> OnItsWay(p)
    BY <1>0, <2>1 DEF Unreaped, OnItsWay
  <2> QED
    BY <1>0, <1>2, <2>1, <2>2, PidKept DEF AttachInv, ChildInv, OnWayInv, Stopping, StopInv
<1>5. CASE Attach(t)
  <2>1. /\ wpc[t] = "attach" /\ wpc'[t] = "read" /\ UNCHANGED <<running, target>>
        /\ proc'[t] = "alive" /\ pid'[Svc(t)] = t
        /\ \A p \in Threads \ {t} : proc'[p] = proc[p]
        /\ \A s \in Services \ {Svc(t)} : pid'[s] = pid[s]
    BY <1>1, <1>5 DEF Attach, Goto, TypeOK
  <2>2. \A p \in Threads : /\ Unreaped(p)' <=> Unreaped(p) \/ p = t
                           /\ OnItsWay(p)' <=> OnItsWay(p) /\ p # t
    BY <1>0, <2>1 DEF Unreaped, OnItsWay, Live
  <2>3. /\ OnItsWay(t) /\ running[Svc(t)] /\ ~(Stopping /\ cur = unit[t])
        /\ \A p \in Threads : p # t /\ (OnItsWay(p) \/ Unreaped(p)) => Svc(p) # Svc(t)
    BY <2>1 DEF OnItsWay, AttachInv, OnWayInv, Stopping
  <2>4. ChildInv'
    BY <1>0, <1>2, <2>1, <2>2, <2>3, Busy DEF AttachInv, ChildInv
  <2>5. OnWayInv'
    BY <1>0, <1>2, <2>1, <2>2, <2>3, Busy DEF AttachInv, OnWayInv, Stopping
  <2>6. StopInv'
    <3>1. mpc = "stopping" => cur \in Named /\ nameOf[cur] \in Services
      BY NamedFacts DEF TypeOK
    <3>2. mpc = "stopping" => nameOf[cur] # Svc(t)
      BY <1>1, <2>3, <3>1, SameUnit DEF Stopping
    <3> QED
      BY <1>0, <2>1, <3>1, <3>2 DEF AttachInv, StopInv
  <2>7. PidInv'
    <3>1. \A s \in Services : pid'[s] = t \/ pid'[s] = pid[s]
      BY <2>1
    <3>2. \A s \in Services : pid[s] # 0 => pid[s] \in Threads
      BY PidFacts DEF TypeOK
    <3>3. \A p \in Threads : target[p] # 0 => target[p] \in Threads
      BY PidFacts DEF TypeOK
    <3>4. \A p \in Threads : proc[p] # "none" => proc'[p] # "none"
      BY <2>1
    <3> QED
      BY <2>1, <3>1, <3>2, <3>3, <3>4 DEF AttachInv, PidInv
  <2> QED
    BY <2>4, <2>5, <2>6, <2>7 DEF AttachInv
<1>6. CASE AttachFails(t)
  <2>1. wpc[t] = "attach" /\ wpc'[t] = "read" /\ UNCHANGED <<running, pid, target, proc>>
    BY <1>6 DEF AttachFails, Goto, TypeOK
  <2>2. \A p \in Threads : /\ Unreaped(p)' <=> Unreaped(p)
                           /\ OnItsWay(p)' <=> OnItsWay(p) /\ p # t
    BY <1>0, <2>1 DEF Unreaped, OnItsWay
  <2>3. ~Unreaped(t)
    BY <2>1 DEF OnItsWay, AttachInv, OnWayInv, Stopping, Unreaped, Live
  <2> QED
    BY <1>0, <1>2, <2>1, <2>2, <2>3, PidKept DEF AttachInv, ChildInv, OnWayInv, Stopping, StopInv
<1>7. CASE ReadPid(t)
  <2>1. /\ wpc[t] = "read" /\ wpc'[t] = "wait" /\ UNCHANGED <<running, pid, proc>>
        /\ target'[t] = pid[Svc(t)] /\ \A p \in Threads \ {t} : target'[p] = target[p]
    BY <1>7 DEF ReadPid, Goto, TypeOK
  <2>2. \A p \in Threads : /\ Unreaped(p)' <=> Unreaped(p)
                           /\ OnItsWay(p)' <=> OnItsWay(p)
    BY <1>0, <2>1 DEF Unreaped, OnItsWay
  <2>3. ChildInv' /\ OnWayInv' /\ StopInv'
    BY <1>0, <1>2, <2>1, <2>2 DEF AttachInv, ChildInv, OnWayInv, Stopping, StopInv
  <2>4. PidInv'
    BY <1>1, <2>1 DEF AttachInv, PidInv
  <2> QED
    BY <2>3, <2>4 DEF AttachInv
<1>8. CASE WaitReturns(t)
  <2>1. wpc[t] = "wait" /\ wpc'[t] = "callback" /\ UNCHANGED <<running, pid, target>>
    BY <1>8 DEF WaitReturns, Goto, TypeOK
  <2>2. PICK c \in Threads \cup {0} :
          /\ \A p \in Threads \ {c} : proc'[p] = proc[p]
          /\ c # 0 => proc[c] # "none" /\ proc[c] \notin Live /\ proc'[c] = "gone"
          /\ c = target[t] \/ target[t] = 0
    <3>1. CASE target[t] # 0 /\ proc[target[t]] \notin Live
               /\ proc' = [proc EXCEPT ![target[t]] = "gone"]
      <4>1. target[t] \in Threads /\ proc[target[t]] # "none"
        BY <3>1, PidFacts DEF TypeOK, AttachInv, PidInv
      <4> QED
        BY <3>1, <4>1 DEF TypeOK
    <3>2. ASSUME target[t] = 0, NEW c \in Threads, proc[c] = "zombie",
                 proc' = [proc EXCEPT ![c] = "gone"]
          PROVE  \E x \in Threads \cup {0} :
                   /\ \A p \in Threads \ {x} : proc'[p] = proc[p]
                   /\ x # 0 => proc[x] # "none" /\ proc[x] \notin Live /\ proc'[x] = "gone"
                   /\ x = target[t] \/ target[t] = 0
      BY <3>2 DEF TypeOK, Live
    <3> QED
      BY <1>8, <3>1, <3>2 DEF WaitReturns
  <2>3. \A p \in Threads : /\ Unreaped(p)' => Unreaped(p) /\ p # c
                           /\ OnItsWay(p)' <=> OnItsWay(p)
                           /\ proc[p] = "none" <=> proc'[p] = "none"
    BY <1>0, <2>1, <2>2 DEF Unreaped, OnItsWay, Live, Threads
  <2>4. Unreaped(t) => t = c
    BY <2>1, <2>2 DEF AttachInv, ChildInv, Threads
  <2>5. ChildInv'
    BY <1>0, <1>2, <2>1, <2>3, <2>4 DEF AttachInv, ChildInv
  <2>6. OnWayInv'
    BY <1>0, <1>2, <2>1, <2>3 DEF AttachInv, OnWayInv, Stopping
  <2> QED
    BY <1>0, <2>1, <2>3, <2>5, <2>6, PidKept DEF AttachInv, StopInv
<1>9. CASE ServiceExit(t)
  <2>1. /\ wpc[t] = "callback" /\ wpc'[t] = "done" /\ UNCHANGED <<running, pid, proc>>
        /\ target'[t] = 0 /\ \A p \in Threads \ {t} : target'[p] = target[p]
    BY <1>9 DEF ServiceExit, Goto, TypeOK
  <2>2. \A p \in Threads : /\ Unreaped(p)' <=> Unreaped(p)
                           /\ OnItsWay(p)' <=> OnItsWay(p)
    BY <1>0, <2>1 DEF Unreaped, OnItsWay
  <2>3. ~Unreaped(t)
    BY <2>1 DEF AttachInv, ChildInv
  <2>4. ChildInv' /\ OnWayInv' /\ StopInv'
    BY <1>0, <1>2, <2>1, <2>2, <2>3 DEF AttachInv, ChildInv, OnWayInv, Stopping, StopInv
  <2>5. PidInv'
    BY <2>1 DEF AttachInv, PidInv
  <2> QED
    BY <2>4, <2>5 DEF AttachInv
<1> QED
  BY <1>3, <1>4, <1>5, <1>6, <1>7, <1>8, <1>9 DEF Worker
-----------------------------------------------------------------------------
(* Every step of a patient ACS keeps what stop and the second read need.    *)
LEMMA AttachNext ==
  ASSUME TypeOK, NamesUnique, AttachInv, [Next /\ ~HastyWrite]_vars
  PROVE  AttachInv'
<1>1. ASSUME NEW u \in Units, NEW v \in States, AcsWrite(u, v), ~HastyWrite PROVE AttachInv'
  <2>1. \A t \in Threads : unit[t] = u => ~OnItsWay(t)
    BY <1>1 DEF HastyWrite
  <2>2. /\ UNCHANGED <<running, pid, wpc, unit, target, proc, mpc, cur, victim>>
        /\ \A w \in Units \ {u} : requested'[w] = requested[w]
    BY <1>1 DEF AcsWrite, workerVars, mainVars, TypeOK
  <2>3. ChildInv' /\ StopInv'
    BY <2>2 DEF AttachInv, ChildInv, StopInv, Unreaped, Svc
  <2>4. OnWayInv'
    <3>1. \A t \in Threads : OnItsWay(t) => unit[t] \in Units
      BY Busy, NamedFacts
    <3> QED
      BY <2>1, <2>2, <3>1 DEF AttachInv, OnWayInv, Stopping, OnItsWay, Unreaped, Svc
  <2> QED
    BY <2>2, <2>3, <2>4, PidKept DEF AttachInv
<1>2. CASE TakeEvent
  <2>1. UNCHANGED <<requested, running, pid, wpc, unit, target, proc, mpc, cur, victim>>
    BY <1>2 DEF TakeEvent, unitVars, workerVars
  <2> QED
    BY <2>1, PidKept DEF AttachInv, ChildInv, OnWayInv, Stopping, StopInv, OnItsWay, Unreaped, Svc
<1>3. CASE Report
  <2>1. /\ UNCHANGED <<requested, running, pid, wpc, unit, target, proc>> /\ mpc' = "loop"
    BY <1>3 DEF Report, workerVars
  <2> QED
    BY <2>1, PidKept DEF AttachInv, ChildInv, OnWayInv, Stopping, StopInv, OnItsWay, Unreaped, Svc
<1>5. CASE WaitVictim
  <2>1. /\ UNCHANGED <<requested, running, pid, wpc, unit, target, proc, cur>>
        /\ mpc = "killed" /\ mpc' = "stopping" /\ victim' = pid[nameOf[cur]]
    BY <1>5 DEF WaitVictim, unitVars, workerVars
  <2>2. \A t \in Threads : (OnItsWay(t)' <=> OnItsWay(t)) /\ (Unreaped(t)' <=> Unreaped(t))
                          /\ Svc(t)' = Svc(t)
    BY <2>1 DEF OnItsWay, Unreaped, Svc
  <2>3. ChildInv' /\ OnWayInv' /\ StopInv'
    BY <2>1, <2>2 DEF AttachInv, ChildInv, OnWayInv, Stopping, StopInv, Stopping
  <2> QED
    BY <2>1, <2>3, PidKept DEF AttachInv
<1>4. CASE \/ \E t \in Threads : Exit(t) \/ Terminate(t)
           \/ \E e \in Envs : ContainerStop(e) \/ ContainerStart(e)
           \/ UNCHANGED vars
  <2>1. UNCHANGED <<requested, running, pid, wpc, unit, target, mpc, cur, victim>>
    BY <1>4 DEF Exit, Terminate, ContainerStop, ContainerStart, unitVars, workerVars, mainVars,
       vars
  <2>2. \A p \in Threads : /\ proc[p] = "none" <=> proc'[p] = "none"
                           /\ Unreaped(p)' <=> Unreaped(p)
    <3>1. ASSUME NEW t \in Threads, proc[t] \in Live, proc' = [proc EXCEPT ![t] = "zombie"],
                 NEW p \in Threads
          PROVE  (proc[p] = "none" <=> proc'[p] = "none") /\ (Unreaped(p)' <=> Unreaped(p))
      BY <3>1 DEF Unreaped, Live, TypeOK
    <3>2. ASSUME NEW e \in Envs, ContainerStop(e), NEW p \in Threads
          PROVE  (proc[p] = "none" <=> proc'[p] = "none") /\ (Unreaped(p)' <=> Unreaped(p))
      BY <3>2 DEF ContainerStop, Unreaped, Live
    <3>3. CASE proc' = proc
      BY <3>3 DEF Unreaped
    <3> QED
      BY <1>4, <3>1, <3>2, <3>3 DEF Exit, Terminate, ContainerStart, vars, Live
  <2> QED
    BY <2>1, <2>2, PidKept DEF AttachInv, ChildInv, OnWayInv, Stopping, StopInv, OnItsWay, Svc
<1> QED
  BY <1>1, <1>2, <1>3, <1>4, <1>5, AttachProcess, AttachStop, AttachWorker DEF Next, MainStep

(* As long as the ACS waits for the attach the invariant holds, beside the  *)
(* types and the truth of Status.                                           *)
LEMMA PatientInvariant ==
  ASSUME NamesUnique
  PROVE  HastySpec => [](TypeOK /\ StatusTruth /\ (hasty \/ AttachInv))
<1>1. HastyInit => TypeOK /\ StatusTruth /\ RequestInv /\ (hasty \/ AttachInv)
  BY TypeInit, UnitInit, AttachInit DEF HastyInit
<1>2. /\ TypeOK /\ StatusTruth /\ RequestInv /\ (hasty \/ AttachInv)
      /\ [HastyNext]_<<vars, hasty>>
      => (TypeOK /\ StatusTruth /\ RequestInv /\ (hasty \/ AttachInv))'
  <2> SUFFICES ASSUME TypeOK, StatusTruth, RequestInv, hasty \/ AttachInv,
                      [HastyNext]_<<vars, hasty>>
               PROVE  (TypeOK /\ StatusTruth /\ RequestInv /\ (hasty \/ AttachInv))'
    OBVIOUS
  <2>1. [Next]_vars /\ (hasty' \/ (~hasty /\ [Next /\ ~HastyWrite]_vars))
    <3>1. CASE Next /\ hasty' = (hasty \/ HastyWrite)
      <4>1. CASE hasty \/ HastyWrite
        BY <3>1, <4>1
      <4>2. CASE ~(hasty \/ HastyWrite)
        BY <3>1, <4>2
      <4> QED
        BY <4>1, <4>2
    <3>2. CASE UNCHANGED vars /\ hasty' = hasty
      BY <3>2
    <3> QED
      BY <3>1, <3>2 DEF HastyNext
  <2>2. (StatusTruth /\ RequestInv)'
    BY <2>1, UnitNext DEF StatusTruth, RequestInv
  <2> QED
    BY <2>1, <2>2, TypeNext, AttachNext
<1> QED
  BY <1>1, <1>2, PTL DEF HastySpec
(* A settled unit that shows Idle as requested has no command left: its     *)
(* flag is down (StatusTruth), and every child belongs to a flag that is    *)
(* set (stop, linux.h:292).                                                 *)
THEOREM PatientIdleMeansStoppedHolds ==
  ASSUME NamesUnique
  PROVE  HastySpec => []PatientIdleMeansStopped
<1>1. TypeOK /\ StatusTruth /\ (hasty \/ AttachInv) => PatientIdleMeansStopped
  BY Busy DEF PatientIdleMeansStopped, IdleMeansStopped, StatusTruth, StatusOf, AttachInv,
     ChildInv, LiveChildren, Unreaped
<1> QED
  BY <1>1, PatientInvariant, PTL

(* No second command of a service is attached while one runs (linux.h:330). *)
THEOREM PatientSingleInstanceHolds ==
  ASSUME NamesUnique
  PROVE  HastySpec => []PatientSingleInstance
<1>1. hasty \/ AttachInv => PatientSingleInstance
  BY DEF PatientSingleInstance, SingleInstance, AttachInv, ChildInv, LiveChildren, Unreaped
<1> QED
  BY <1>1, PatientInvariant, PTL

(* The worker that attached a child is the one that waits for it, although  *)
(* it reads the shared pid a second time (linux.h:375).                     *)
THEOREM PatientChildWatchedHolds ==
  ASSUME NamesUnique
  PROVE  HastySpec => []PatientChildWatched
<1>1. hasty \/ AttachInv => PatientChildWatched
  BY DEF PatientChildWatched, ChildWatched, AttachInv, ChildInv, Unreaped
<1> QED
  BY <1>1, PatientInvariant, PTL

=============================================================================
