------------------------------ MODULE ExecUnit ------------------------------
(***************************************************************************)
(* The execution units of the lxcd daemon (amxhandler.cpp) and the child   *)
(* process each one runs inside its container (class CProcess, linux.h).   *)
(*                                                                         *)
(* The daemon has one main thread, the event loop of the data model.  It   *)
(* takes one event at a time and handles it to the end, so a handler that  *)
(* blocks in waitpid blocks the daemon.  Starting a unit creates a worker  *)
(* thread which attaches the command to the container, waits for it and    *)
(* calls back; the call back queues another event.  Both threads share the *)
(* fields of the CProcess without a lock.                                  *)
(*                                                                         *)
(* A worker attaches at most one child, so the child is named by its       *)
(* worker: proc[t] is the child of worker t, and a pid is a worker or 0.   *)
(***************************************************************************)
EXTENDS Naturals, Sequences

CONSTANTS
  Units,        \* the ExecutionUnit instances of the data model
  Services,     \* the names units can have, the keys of processMap
  Envs,         \* the execution environments: the LXC containers
  nameOf,       \* the Name of a unit; NoName is the empty string
  envOf,        \* the ExecEnvLabel of a unit
  AutoStart,    \* the units whose AutoStart is true
  NoName, NoEnv, NoUnit,
  Managed,      \* the event lxcd:deploymentunit-managed of a daemon start
  MaxThreads,   \* threads that fit the process: none is joined or detached
  MaxEvents,    \* bound on the queue an ACS write still finds room in
  Patient       \* the ACS leaves a unit alone until its command is attached

ASSUME ConstantsAssumption ==
  /\ nameOf \in [Units -> Services \cup {NoName}]
  /\ envOf \in [Units -> Envs]
  /\ AutoStart \subseteq Units
  /\ NoName \notin Services /\ NoEnv \notin Envs
  /\ NoUnit \notin Units /\ Managed \notin Units
  /\ MaxThreads \in Nat /\ MaxEvents \in Nat /\ Patient \in BOOLEAN

VARIABLES
  requested,    \* RequestedState of a unit
  status,       \* Status of a unit
  running,      \* CProcess.processRunning of a service
  pid,          \* CProcess.pid of a service, 0 before the first attach
  home,         \* CProcess.containerName of a service
  spawned,      \* threads created so far
  wpc,          \* what worker t does next
  unit,         \* the unit worker t was created for, its priv argument
  target,       \* the pid worker t gave to waitpid
  proc,         \* the child attached by worker t
  queue,        \* events not handled yet
  todo,         \* units the handler of the current event still visits
  walk,         \* the current event is Managed: AutoStart applies
  cur,          \* the unit being processed
  mpc,          \* what the main thread does next
  victim,       \* the pid the main thread waits for
  up            \* the containers that run

mainVars   == <<todo, walk, cur, mpc, victim>>
unitVars   == <<requested, status>>
workerVars == <<spawned, wpc, unit, target>>
vars == <<requested, status, running, pid, home, spawned, wpc, unit, target,
          proc, queue, todo, walk, cur, mpc, victim, up>>

Threads == 1..MaxThreads
Pids    == 0..spawned        \* 0 and the children that can exist by now
States  == {"Idle", "Active"}
WorkerPcs == {"none", "check", "attach", "read", "wait", "callback", "done"}
ProcStates == {"none", "alive", "termed", "zombie", "gone"}
Live == {"alive", "termed"}

(* The units that can be processed: name and environment are not empty.    *)
Named == {u \in Units : nameOf[u] # NoName}

(* No two units share a name, hence none shares a CProcess.                *)
NamesUnique == \A u, v \in Named : nameOf[u] = nameOf[v] => u = v

Svc(t) == nameOf[unit[t]]
Queued(u) == \E i \in 1..Len(queue) : queue[i] = u
CallingBack(u) == \E t \in Threads : wpc[t] = "callback" /\ unit[t] = u
Exhausted == spawned = MaxThreads

-----------------------------------------------------------------------------
Init ==
  /\ requested = [u \in Units |-> "Idle"]
  /\ status = [u \in Units |-> "Idle"]
  /\ running = [s \in Services |-> FALSE]
  /\ pid = [s \in Services |-> 0]
  /\ home = [s \in Services |-> NoEnv]
  /\ spawned = 0
  /\ wpc = [t \in Threads |-> "none"]
  /\ unit = [t \in Threads |-> NoUnit]
  /\ target = [t \in Threads |-> 0]
  /\ proc = [t \in Threads |-> "none"]
  /\ queue = <<Managed>>
  /\ todo = {} /\ walk = FALSE /\ cur = NoUnit /\ mpc = "loop" /\ victim = 0
  /\ up \in SUBSET Envs

-----------------------------------------------------------------------------
(* The ACS and the bus.  The main thread serves the bus too: between two   *)
(* events, never while a handler runs.                                     *)

(* A write to a unit: RequestedState := v, or another parameter when v is  *)
(* the present value.  The transaction queues dm:object-changed.           *)
AcsWrite(u, v) ==
  /\ mpc = "loop" /\ todo = {}
  /\ Len(queue) < MaxEvents
  /\ Patient => \A t \in Threads : unit[t] = u => wpc[t] \notin {"check", "attach"}
  /\ requested' = [requested EXCEPT ![u] = v]
  /\ queue' = Append(queue, u)
  /\ UNCHANGED <<status, running, pid, home, workerVars, proc, mainVars, up>>

-----------------------------------------------------------------------------
(* The main thread.                                                        *)

(* The event loop takes an event: a changed unit is processed alone, the   *)
(* Managed event walks over every unit.                                    *)
TakeEvent ==
  /\ mpc = "loop" /\ todo = {} /\ queue # <<>>
  /\ queue' = Tail(queue)
  /\ walk' = (Head(queue) = Managed)
  /\ todo' = IF Head(queue) = Managed THEN Units ELSE {Head(queue)}
  /\ UNCHANGED <<unitVars, running, pid, home, workerVars, proc, cur, mpc,
                 victim, up>>

(* The walk sets RequestedState of an AutoStart unit before it processes it. *)
Wanted(u) == IF walk /\ u \in AutoStart THEN "Active" ELSE requested[u]

(* Slip: RequestedState is acted upon and not stored.                      *)
VisitForgets(u) ==
  /\ mpc = "loop" /\ u \in todo
  /\ todo' = todo \ {u}
  /\ UNCHANGED <<unitVars, target, queue, walk, up>>

(* What every way of processing a unit begins with: pick the unit, store   *)
(* its RequestedState and find or create its CProcess.                     *)
Visit(u) ==
  /\ mpc = "loop" /\ u \in todo
  /\ todo' = todo \ {u}
  /\ requested' = [requested EXCEPT ![u] = Wanted(u)]
  /\ UNCHANGED <<status, target, queue, walk, up>>

Enter(u) ==
  /\ Visit(u) /\ u \in Named
  /\ home' = IF home[nameOf[u]] = NoEnv
             THEN [home EXCEPT ![nameOf[u]] = envOf[u]] ELSE home
  /\ cur' = u

(* Service or environment name is empty: the handler returns.              *)
SkipUnnamed(u) ==
  /\ Visit(u) /\ u \notin Named
  /\ UNCHANGED <<running, pid, home, spawned, wpc, unit, proc, cur, mpc, victim>>

(* Slip: isRunning() is not asked before a start.                          *)
StartAgain(u) ==
  /\ Enter(u)
  /\ Wanted(u) = "Active" /\ ~Exhausted
  /\ running' = [running EXCEPT ![nameOf[u]] = TRUE]
  /\ spawned' = spawned + 1
  /\ wpc' = [wpc EXCEPT ![spawned + 1] = "check"]
  /\ unit' = [unit EXCEPT ![spawned + 1] = u]
  /\ mpc' = "report"
  /\ UNCHANGED <<pid, proc, victim>>

(* runAsync: set processRunning, create the worker.                        *)
Start(u) ==
  /\ Enter(u)
  /\ Wanted(u) = "Active" /\ ~running[nameOf[u]] /\ ~Exhausted
  /\ running' = [running EXCEPT ![nameOf[u]] = TRUE]
  /\ spawned' = spawned + 1
  /\ wpc' = [wpc EXCEPT ![spawned + 1] = "check"]
  /\ unit' = [unit EXCEPT ![spawned + 1] = u]
  /\ mpc' = "report"
  /\ UNCHANGED <<pid, proc, victim>>

(* pthread_create fails: processRunning is false again.                    *)
StartFails(u) ==
  /\ Enter(u)
  /\ Wanted(u) = "Active" /\ ~running[nameOf[u]] /\ Exhausted
  /\ mpc' = "report"
  /\ UNCHANGED <<running, pid, spawned, wpc, unit, proc, victim>>

(* Slips: stop without the test for a pid; stop that waits and sends no    *)
(* signal.                                                                 *)
KillAnyPid(u) ==
  /\ Enter(u)
  /\ Wanted(u) = "Idle" /\ running[nameOf[u]]
  /\ mpc' = "killed"
  /\ UNCHANGED <<running, pid, spawned, wpc, unit, proc, victim>>

KillSilently(u) ==
  /\ Enter(u)
  /\ Wanted(u) = "Idle" /\ running[nameOf[u]] /\ pid[nameOf[u]] > 0
  /\ mpc' = "killed"
  /\ UNCHANGED <<running, pid, spawned, wpc, unit, proc, victim>>

(* stop with a pid sends SIGTERM to it.                                    *)
Kill(u) ==
  /\ Enter(u)
  /\ Wanted(u) = "Idle" /\ running[nameOf[u]] /\ pid[nameOf[u]] > 0
  /\ LET p == pid[nameOf[u]] IN
     proc' = IF proc[p] = "alive" THEN [proc EXCEPT ![p] = "termed"] ELSE proc
  /\ mpc' = "killed"
  /\ UNCHANGED <<running, pid, spawned, wpc, unit, victim>>

(* Slip: the flag is reset only where a child was killed.                  *)
StopOnlyAttached(u) ==
  /\ Enter(u)
  /\ Wanted(u) = "Idle" /\ running[nameOf[u]] /\ pid[nameOf[u]] = 0
  /\ mpc' = "report"
  /\ UNCHANGED <<running, pid, spawned, wpc, unit, proc, victim>>

(* stop before any attach: there is nothing to kill.                       *)
StopUnattached(u) ==
  /\ Enter(u)
  /\ Wanted(u) = "Idle" /\ running[nameOf[u]] /\ pid[nameOf[u]] = 0
  /\ running' = [running EXCEPT ![nameOf[u]] = FALSE]
  /\ mpc' = "report"
  /\ UNCHANGED <<pid, spawned, wpc, unit, proc, victim>>

(* The unit is already as requested: a warning only.                       *)
Already(u) ==
  /\ Enter(u)
  /\ running[nameOf[u]] = (Wanted(u) = "Active")
  /\ mpc' = "report"
  /\ UNCHANGED <<running, pid, spawned, wpc, unit, proc, victim>>

(* stop reads the pid again for waitpid, which blocks the main thread: a   *)
(* worker that attached meanwhile has replaced it.                         *)
WaitVictim ==
  /\ mpc = "killed"
  /\ victim' = pid[nameOf[cur]] /\ mpc' = "stopping"
  /\ UNCHANGED <<unitVars, running, pid, home, workerVars, proc, queue, todo, walk, cur, up>>

(* Slip: stop does not wait for the child.                                 *)
StopAtOnce ==
  /\ mpc = "stopping"
  /\ running' = [running EXCEPT ![nameOf[cur]] = FALSE]
  /\ mpc' = "report" /\ victim' = 0
  /\ UNCHANGED <<unitVars, pid, home, workerVars, proc, queue, todo, walk, cur, up>>

(* waitpid returns to stop: the child is dead and reaped here or before.   *)
StopReturns ==
  /\ mpc = "stopping" /\ proc[victim] \notin Live
  /\ proc' = [proc EXCEPT ![victim] = "gone"]
  /\ running' = [running EXCEPT ![nameOf[cur]] = FALSE]
  /\ mpc' = "report" /\ victim' = 0
  /\ UNCHANGED <<unitVars, pid, home, workerVars, queue, todo, walk, cur, up>>

(* Slip: Status is what was requested.                                     *)
ReportWanted ==
  /\ mpc = "report"
  /\ status' = [status EXCEPT ![cur] = requested[cur]]
  /\ mpc' = "loop" /\ cur' = NoUnit
  /\ UNCHANGED <<requested, running, pid, home, workerVars, proc, queue, todo,
                 walk, victim, up>>

(* The handler ends by copying isRunning() to Status.                      *)
Report ==
  /\ mpc = "report"
  /\ status' = [status EXCEPT ![cur] =
                  IF running[nameOf[cur]] THEN "Active" ELSE "Idle"]
  /\ mpc' = "loop" /\ cur' = NoUnit
  /\ UNCHANGED <<requested, running, pid, home, workerVars, proc, queue, todo,
                 walk, victim, up>>

Process(u) ==
  \/ SkipUnnamed(u) \/ Start(u) \/ StartFails(u)
  \/ Kill(u) \/ StopUnattached(u) \/ Already(u)

MainStep ==
  TakeEvent \/ (\E u \in todo : Process(u)) \/ WaitVictim \/ StopReturns \/ Report

-----------------------------------------------------------------------------
(* A worker thread.                                                        *)

Goto(t, l) == wpc' = [wpc EXCEPT ![t] = l]

(* runCommand: no handle, or the container does not run.                   *)
CheckFails(t) ==
  /\ wpc[t] = "check" /\ Goto(t, "callback")
  /\ running' = [running EXCEPT ![Svc(t)] = FALSE]
  /\ UNCHANGED <<unitVars, pid, home, spawned, unit, target, proc, queue,
                 mainVars, up>>

CheckPasses(t) ==
  /\ wpc[t] = "check" /\ home[Svc(t)] \in up /\ Goto(t, "attach")
  /\ UNCHANGED <<unitVars, running, pid, home, spawned, unit, target, proc,
                 queue, mainVars, up>>

(* Slip: the pid of the child is not stored.                               *)
AttachForgets(t) ==
  /\ wpc[t] = "attach" /\ home[Svc(t)] \in up /\ Goto(t, "read")
  /\ proc' = [proc EXCEPT ![t] = "alive"]
  /\ UNCHANGED <<unitVars, running, pid, home, spawned, unit, target, queue,
                 mainVars, up>>

(* attach starts the command and stores its pid.                           *)
Attach(t) ==
  /\ wpc[t] = "attach" /\ home[Svc(t)] \in up /\ Goto(t, "read")
  /\ proc' = [proc EXCEPT ![t] = "alive"]
  /\ pid' = [pid EXCEPT ![Svc(t)] = t]
  /\ UNCHANGED <<unitVars, running, home, spawned, unit, target, queue,
                 mainVars, up>>

(* attach fails: a message, and pid keeps the value it had.                *)
AttachFails(t) ==
  /\ wpc[t] = "attach" /\ Goto(t, "read")
  /\ UNCHANGED <<unitVars, running, pid, home, spawned, unit, target, proc,
                 queue, mainVars, up>>

(* waitpid( *pid ) reads the shared pid again.                             *)
ReadPid(t) ==
  /\ wpc[t] = "read" /\ Goto(t, "wait")
  /\ target' = [target EXCEPT ![t] = pid[Svc(t)]]
  /\ UNCHANGED <<unitVars, running, pid, home, spawned, unit, proc, queue,
                 mainVars, up>>

(* waitpid returns: the child is a zombie and is reaped, or somebody else  *)
(* did.  Pid 0 waits for any child of the process group: it reaps a zombie *)
(* or finds none.                                                          *)
WaitReturns(t) ==
  /\ wpc[t] = "wait" /\ Goto(t, "callback")
  /\ \/ /\ target[t] # 0 /\ proc[target[t]] \notin Live
        /\ proc' = [proc EXCEPT ![target[t]] = "gone"]
     \/ /\ target[t] = 0
        /\ \E p \in Threads : proc[p] = "zombie" /\ proc' = [proc EXCEPT ![p] = "gone"]
     \/ target[t] = 0 /\ UNCHANGED proc
  /\ UNCHANGED <<unitVars, running, pid, home, spawned, unit, target, queue,
                 mainVars, up>>

(* Slip: the call back emits no event.                                     *)
ServiceExitSilent(t) ==
  /\ wpc[t] = "callback" /\ Goto(t, "done")
  /\ target' = [target EXCEPT ![t] = 0]
  /\ UNCHANGED <<unitVars, running, pid, home, spawned, unit, proc, queue,
                 mainVars, up>>

(* serviceExitCallback: queue dm:object-changed for the unit; the thread   *)
(* ends and is never joined.                                               *)
ServiceExit(t) ==
  /\ wpc[t] = "callback" /\ Goto(t, "done")
  /\ target' = [target EXCEPT ![t] = 0]
  /\ queue' = Append(queue, unit[t])
  /\ UNCHANGED <<unitVars, running, pid, home, spawned, unit, proc, mainVars, up>>

Worker(t) ==
  \/ CheckFails(t) \/ CheckPasses(t) \/ Attach(t) \/ AttachFails(t)
  \/ ReadPid(t) \/ WaitReturns(t) \/ ServiceExit(t)

-----------------------------------------------------------------------------
(* The kernel and the containers.                                          *)

(* A command ends by itself.                                               *)
Exit(t) ==
  /\ proc[t] = "alive" /\ proc' = [proc EXCEPT ![t] = "zombie"]
  /\ UNCHANGED <<unitVars, running, pid, home, workerVars, queue, mainVars, up>>

(* A command that got SIGTERM ends.                                        *)
Terminate(t) ==
  /\ proc[t] = "termed" /\ proc' = [proc EXCEPT ![t] = "zombie"]
  /\ UNCHANGED <<unitVars, running, pid, home, workerVars, queue, mainVars, up>>

(* lxc-stop -k kills what runs inside the container.                       *)
ContainerStop(e) ==
  /\ e \in up /\ up' = up \ {e}
  /\ proc' = [t \in Threads |->
                IF proc[t] \in Live /\ home[Svc(t)] = e THEN "zombie" ELSE proc[t]]
  /\ UNCHANGED <<unitVars, running, pid, home, workerVars, queue, mainVars>>

ContainerStart(e) ==
  /\ e \notin up /\ up' = up \cup {e}
  /\ UNCHANGED <<unitVars, running, pid, home, workerVars, proc, queue, mainVars>>

Next ==
  \/ \E u \in Units, v \in States : AcsWrite(u, v)
  \/ MainStep
  \/ \E t \in Threads : Worker(t) \/ Exit(t) \/ Terminate(t)
  \/ \E e \in Envs : ContainerStop(e) \/ ContainerStart(e)

Spec == Init /\ [][Next]_vars

(* The scheduler runs the threads and SIGTERM ends a command.  Nothing     *)
(* makes the ACS write, a command end by itself or a container move.       *)
Fairness ==
  /\ WF_vars(MainStep)
  /\ \A t \in Threads : WF_vars(Worker(t)) /\ WF_vars(Terminate(t))

FairSpec == Spec /\ Fairness

-----------------------------------------------------------------------------
(* The created threads run a named unit, the others have done nothing. *)
CreatedOK == \A t \in Threads :
  IF t <= spawned THEN unit[t] \in Named ELSE wpc[t] = "none" /\ proc[t] = "none"

(* The type of every variable. *)
TypeOK ==
  /\ requested \in [Units -> States] /\ status \in [Units -> States]
  /\ running \in [Services -> BOOLEAN] /\ pid \in [Services -> Pids]
  /\ home \in [Services -> Envs \cup {NoEnv}]
  /\ spawned \in 0..MaxThreads
  /\ wpc \in [Threads -> WorkerPcs] /\ unit \in [Threads -> Units \cup {NoUnit}]
  /\ target \in [Threads -> Pids] /\ proc \in [Threads -> ProcStates]
  /\ queue \in Seq(Units \cup {Managed})
  /\ todo \subseteq Units /\ walk \in BOOLEAN /\ cur \in Named \cup {NoUnit}
  /\ mpc \in {"loop", "killed", "stopping", "report"} /\ victim \in Pids
  /\ up \subseteq Envs
  /\ CreatedOK
  /\ mpc = "loop" <=> cur = NoUnit
  /\ mpc = "killed" => pid[nameOf[cur]] # 0
  /\ mpc = "stopping" => victim # 0

(* The handler of u will run: an event of it waits, the walk has not come   *)
(* to it, or a worker is about to queue one.                                *)
Pending(u) == Queued(u) \/ u \in todo \/ CallingBack(u)

(* Nothing is under way for u.                                              *)
Settled(u) == ~Pending(u) /\ cur # u

(* The children of a service that run.                                     *)
LiveChildren(s) == {t \in Threads : proc[t] \in Live /\ Svc(t) = s}

(* Whatever the interleaving of the main thread, the workers and the ACS,  *)
(* a settled unit shows in Status what processRunning holds: a worker that *)
(* clears the flag after Status was set (amxhandler.cpp:146) always has    *)
(* its call back still to come, and that event refreshes Status.           *)
StatusOf(u) == Settled(u) => (status[u] = "Active" <=> running[nameOf[u]])
StatusTruth == \A u \in Named : StatusOf(u)

AsRequested(u) ==
  \/ running[nameOf[u]] <=> requested[u] = "Active"
  \/ requested[u] = "Active" /\ Exhausted

(* No request is lost: a settled unit has the flag its RequestedState asks *)
(* for, unless a start found no thread left.  A start whose container was  *)
(* down is tried again by the event of its own call back.                  *)
RequestHandled == \A u \in Named : Settled(u) => AsRequested(u)

(* What makes RequestHandled inductive: it holds of the unit being processed *)
(* as well, and a unit that is being stopped is to be idle.                  *)
RequestOf(u) == ~Pending(u) =>
  IF cur = u /\ mpc \in {"killed", "stopping"} THEN requested[u] = "Idle" ELSE AsRequested(u)
RequestInv == \A u \in Named : RequestOf(u)

(* Status Idle on a settled unit that should be idle, with no worker still *)
(* on its way to attach, means that the command is dead (stop,             *)
(* linux.h:292).                                                           *)
IdleMeansStopped == \A u \in Named :
  Settled(u) /\ requested[u] = "Idle" /\ status[u] = "Idle"
    => LiveChildren(nameOf[u]) = {}

(* A service has one instance at a time: processRunning and the blocking   *)
(* waitpid of stop keep a second start off a command that still runs.      *)
SingleInstance == \A s \in Services, t, p \in Threads :
  t \in LiveChildren(s) /\ p \in LiveChildren(s) => t = p

(* Every child that is not reaped is waited for by the worker that         *)
(* attached it, although that worker reads the shared pid a second time:   *)
(* no exit goes unseen and no zombie stays.                                *)
ChildWatched == \A t \in Threads :
  proc[t] \in Live \cup {"zombie"} =>
    \/ wpc[t] = "read" /\ pid[Svc(t)] = t
    \/ wpc[t] = "wait" /\ target[t] = t

(* A request for Idle is reported, whatever the other units do, although   *)
(* the main thread blocks in waitpid while it stops a unit.                *)
IdleTakesEffect == \A u \in Named :
  requested[u] = "Idle" ~> (status[u] = "Idle" \/ requested[u] = "Active")

(* A start that failed because the container was down is tried again until *)
(* the flag stands, the ACS withdraws the request or no thread is left.    *)
StartRetried == \A u \in Named :
  requested[u] = "Active" /\ ~running[nameOf[u]]
    ~> (running[nameOf[u]] \/ requested[u] = "Idle" \/ Exhausted)

(* AutoStart: "automatically started by the device after its ExecEnv is    *)
(* either rebooted or restarted".  A unit that is to be active gets a live *)
(* child while its container runs.                                         *)
Restarted == \A u \in AutoStart \cap Named :
  requested[u] = "Active" /\ envOf[u] \in up
    ~> (LiveChildren(nameOf[u]) # {} \/ requested[u] = "Idle"
        \/ envOf[u] \notin up \/ Exhausted)

=============================================================================
