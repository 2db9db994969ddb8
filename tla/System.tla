------------------------------- MODULE System -------------------------------
(***************************************************************************)
(* The device: the daemon with its execution environments and the script   *)
(* that supervises them (Supervisor), and on top of them the services of   *)
(* the execution units, which are attached to the containers.              *)
(*                                                                         *)
(* The daemon starts up in one go: app:start walks the environments, the   *)
(* signal lxcd:execenv-managed the deployment units, and                   *)
(* lxcd:deploymentunit-managed the execution units.  Each signal is        *)
(* handled inside the one before.  Whatever stops a container takes its    *)
(* services away; a daemon that dies leaves them behind or not.            *)
(*                                                                         *)
(* A unit is one that AutoStart applies to and that nobody stops: the      *)
(* threads of one service in detail are in ExecUnit.                       *)
(***************************************************************************)
EXTENDS Supervisor

CONSTANTS
  Units,        \* the execution units there can be
  envOf         \* the container of a unit

ASSUME SystemAssumption == envOf \in [Units -> Names]

VARIABLES
  chain,        \* the start-up walk is still to come to the units
  units,        \* units of the data model
  savedUnits,   \* units in its odl file
  flag,         \* units whose processRunning is set
  worker,       \* what the worker thread of a unit does
  changed,      \* units with a dm:object-changed to handle
  service       \* the live processes of a unit: "own" was attached by the
                \* daemon that runs, "orphan" by one before it
unitVars == <<units, savedUnits, flag, worker, changed>>
sysVars == <<allVars, chain, unitVars, service>>

SysInit ==
  /\ SupInit /\ chain = FALSE
  /\ units \in SUBSET Units /\ savedUnits = units
  /\ flag = {} /\ changed = {}
  /\ worker = [u \in Units |-> "none"] /\ service = [u \in Units |-> {}]

-----------------------------------------------------------------------------
(* A step of the environments: a service ends with its container.          *)
Booting == chain /\ Idle
Environment(A) ==
  /\ A /\ UNCHANGED unitVars
  /\ service' = [u \in Units |-> IF envOf[u] \in running' THEN service[u] ELSE {}]

(* The main thread.  Its walk at app:start goes on to the units.           *)
StartsUp == Idle /\ queue # <<>> /\ Head(queue) = AppStart
Main ==
  /\ ~Booting /\ chain' = (chain \/ StartsUp)
  /\ Environment(MainStep /\ UNCHANGED <<supVars, wish>>)

(* runAsync for each unit of s that is not running.  Where pthread_create  *)
(* fails, processRunning is reset and the request is dropped.              *)
RunAsync(s) == \E threads \in SUBSET (s \ flag) :
  /\ flag' = flag \cup threads
  /\ worker' = [u \in Units |-> IF u \in threads THEN "check" ELSE worker[u]]

(* ExecutionUnitManage: AutoStart sets RequestedState, and each unit that  *)
(* is not running is started.                                              *)
ExecutionUnitManage ==
  /\ Booting /\ chain' = FALSE /\ RunAsync(units)
  /\ UNCHANGED <<allVars, units, savedUnits, changed, service>>

(* odlExecutionUnitChanged, after the call back of a worker.               *)
odlExecutionUnitChanged(u) ==
  /\ Idle /\ ~chain /\ u \in changed /\ changed' = changed \ {u} /\ RunAsync({u})
  /\ UNCHANGED <<allVars, chain, units, savedUnits, service>>

(* A deployment unit is added to or removed from container n: its path     *)
(* changes, which restarts it.                                             *)
UpdateContainer(n) ==
  /\ Idle /\ ~chain /\ n \in defined
  /\ running' = running \cup {n}
  /\ service' = [u \in Units |-> IF envOf[u] = n THEN {} ELSE service[u]]
  /\ UNCHANGED <<dmVars, status, queue, mainVars, respawns, defined, mounted,
                 supVars, wish, chain, savedUnits, flag, worker, changed>>

(* odlFunctionDeploymentUnitAdd adds the units of the package; no handler  *)
(* is registered for their dm:instance-added.                              *)
AddUnit(u) ==
  u \notin units /\ UpdateContainer(envOf[u]) /\ units' = units \cup {u}

(* odlDeploymentUnitUninstalled leaves the units in the data model.        *)
RemoveDeploymentUnit(n) == UpdateContainer(n) /\ UNCHANGED units

(* The data model is saved with all its objects.                           *)
SaveAll ==
  /\ ~chain /\ Idle /\ savedUnits' = units
  /\ \/ Save
     \/ /\ saved = [present |-> present, enable |-> enable] /\ savedUnits # units
        /\ UNCHANGED vars
  /\ UNCHANGED <<supVars, wish, chain, units, flag, worker, changed, service>>

-----------------------------------------------------------------------------
(* The worker of a unit.                                                   *)

(* Slip: a start that fails leaves processRunning set.                     *)
CheckFailsSilently(u) ==
  /\ worker[u] = "check" /\ envOf[u] \notin running
  /\ worker' = [worker EXCEPT ![u] = "callback"]
  /\ UNCHANGED <<allVars, chain, units, savedUnits, flag, changed, service>>

(* The container does not run, or lxc has no handle for it.                *)
CheckFails(u) ==
  /\ worker[u] = "check"
  /\ worker' = [worker EXCEPT ![u] = "callback"] /\ flag' = flag \ {u}
  /\ UNCHANGED <<allVars, chain, units, savedUnits, changed, service>>

CheckPasses(u) ==
  /\ worker[u] = "check" /\ envOf[u] \in running
  /\ worker' = [worker EXCEPT ![u] = "attach"]
  /\ UNCHANGED <<allVars, chain, units, savedUnits, flag, changed, service>>

(* Slip: the command is attached and processRunning is reset.              *)
AttachResets(u) ==
  /\ worker[u] = "attach" /\ envOf[u] \in running
  /\ worker' = [worker EXCEPT ![u] = "wait"] /\ flag' = flag \ {u}
  /\ service' = [service EXCEPT ![u] = @ \cup {"own"}]
  /\ UNCHANGED <<allVars, chain, units, savedUnits, changed>>

Attach(u) ==
  /\ worker[u] = "attach" /\ envOf[u] \in running
  /\ worker' = [worker EXCEPT ![u] = "wait"]
  /\ service' = [service EXCEPT ![u] = @ \cup {"own"}]
  /\ UNCHANGED <<allVars, chain, units, savedUnits, flag, changed>>

(* attach fails, because the container went down after the check or for    *)
(* any other reason; only a line is printed.                               *)
AttachFails(u) ==
  /\ worker[u] = "attach"
  /\ worker' = [worker EXCEPT ![u] = "wait"]
  /\ UNCHANGED <<allVars, chain, units, savedUnits, flag, changed, service>>

(* waitpid returns; processRunning stays set.                              *)
WaitReturns(u) ==
  /\ worker[u] = "wait" /\ "own" \notin service[u]
  /\ worker' = [worker EXCEPT ![u] = "callback"]
  /\ UNCHANGED <<allVars, chain, units, savedUnits, flag, changed, service>>

ServiceExit(u) ==
  /\ worker[u] = "callback" /\ worker' = [worker EXCEPT ![u] = "none"]
  /\ changed' = changed \cup {u}
  /\ UNCHANGED <<allVars, chain, units, savedUnits, flag, service>>

(* A service ends by itself.                                               *)
Exit(u) ==
  /\ service[u] # {} /\ \E p \in service[u] : service' = [service EXCEPT ![u] = @ \ {p}]
  /\ UNCHANGED <<allVars, chain, unitVars>>

Worker(u) ==
  /\ mpc # "dead"
  /\ \/ CheckFails(u) \/ CheckPasses(u) \/ Attach(u) \/ AttachFails(u)
     \/ WaitReturns(u) \/ ServiceExit(u)

-----------------------------------------------------------------------------
(* A daemon that starts has the units of the file and no process.  The     *)
(* services of the one before it may live on.                              *)
Fresh ==
  /\ Load /\ wish' = enable' /\ units' = savedUnits
  /\ chain' = FALSE /\ flag' = {} /\ changed' = {}
  /\ worker' = [u \in Units |-> "none"]
  /\ service' \in {[u \in Units |-> {}],
                   [u \in Units |-> IF service[u] = {} THEN {} ELSE {"orphan"}]}
  /\ UNCHANGED <<supVars, savedUnits>>

(* procd starts the daemon again after it ended, or after it was killed at *)
(* any point.  What the user wrote in the last second is lost.             *)
Restarts == mpc = "dead" /\ Fresh
Crash == mpc # "dead" /\ Fresh

(* The script and the user; the bus is served when no walk is under way.   *)
Script == (Booting => spc = "handle") /\ Environment(SupStep) /\ UNCHANGED chain
User ==
  /\ ~Booting /\ UNCHANGED chain
  /\ \E i \in Insts :
       \/ \E b \in BOOLEAN : Environment(UserWrite(i, b)) \/ Environment(UserBusAdd(i, b))
       \/ Environment(UserAdd(i))
       \/ Environment(BusRemove(i) /\ UNCHANGED <<supVars, wish>>)
Ends ==
  /\ UNCHANGED chain
  /\ \E n \in Names : Environment(ContainerEnds(n) /\ UNCHANGED <<supVars, wish>>)

SysNext ==
  \/ Main \/ ExecutionUnitManage \/ SaveAll \/ Script \/ User \/ Ends \/ Restarts \/ Crash
  \/ \E u \in Units : odlExecutionUnitChanged(u) \/ AddUnit(u) \/ Worker(u) \/ Exit(u)
  \/ \E n \in Names : RemoveDeploymentUnit(n)

SysSpec == SysInit /\ [][SysNext]_sysVars

(* The daemon's threads run, procd restarts it, the script keeps running   *)
(* and its commands find a moment the daemon serves the bus.               *)
SysFairness ==
  /\ WF_sysVars(Main) /\ WF_sysVars(ExecutionUnitManage) /\ WF_sysVars(Restarts)
  /\ \A u \in Units : WF_sysVars(Worker(u)) /\ SF_sysVars(odlExecutionUnitChanged(u))
  /\ SF_sysVars(Script /\ spc = "sleep") /\ SF_sysVars(Script /\ spc \in {"off", "on"})
  /\ WF_sysVars(Script /\ spc = "handle")

(* What the properties assume of lxc and mount: they do what they are      *)
(* asked, except that a container that is not mounted is not unmounted.    *)
(* The daemon may be killed at any point.                                  *)
Healthy ==
  \/ respawns' # respawns \/ mpc' = mpc
  \/ /\ failed' = FALSE /\ handle' = "held"
     /\ mpc' = "dead" => mpc = "destroy" /\ Name \notin mounted
     /\ mpc = "prepare" /\ cur \in Overlay => mpc' = "restart"
     /\ mpc \in {"stop", "destroyStop"} => Name \notin running'
     /\ mpc = "destroy" /\ mpc' # "dead" => Name \notin defined'
HealthyNext == SysNext /\ Healthy
HealthySpec == SysInit /\ [][HealthyNext]_sysVars /\ SysFairness

-----------------------------------------------------------------------------
(* The type of every variable: in particular a worker attaches or waits    *)
(* only while processRunning is set, and a service is in a running one.    *)
SysTypeOK ==
  /\ SupTypeOK
  /\ units \subseteq Units /\ savedUnits \subseteq Units
  /\ flag \subseteq units /\ changed \subseteq units
  /\ chain \in BOOLEAN
  /\ worker \in [Units -> {"none", "check", "attach", "wait", "callback"}]
  /\ service \in [Units -> SUBSET {"own", "orphan"}]
  /\ \A u \in Units :
       /\ worker[u] # "none" => u \in units
       /\ worker[u] \in {"check", "attach", "wait"} => u \in flag
       /\ service[u] # {} => envOf[u] \in running

(* A service runs once, also after the daemon died and was started again   *)
(* with its services still there: the walk over the environments restarts  *)
(* their containers before the units are started (amxhandler.cpp:331-347   *)
(* before :202, updateFullRootPath).  It holds for the containers of the   *)
(* data model that have a Name, a Type and an overlay.                     *)
OneInstance == \A i \in present \cap Overlay \cap Complete, u \in Units :
  envOf[u] = nameOf[i] => service[u] # {"own", "orphan"}

(* Start-up gets every unit to run some day, or tries again and again: a   *)
(* start that comes too early resets the flag (linux.h:330), and its call   *)
(* back starts the unit again (amxhandler.cpp:131).  Two failures lose a    *)
(* start: attach fails, which leaves the flag set (linux.h:359-371), or     *)
(* there is no thread, and nothing follows the line in the log (:260-265).  *)
(* Otherwise only a daemon that procd gives up on ends the tries.          *)
AttachLost(u) == worker[u] = "wait" /\ service[u] = {}
Dropped(u) ==
  ~chain /\ ~Queued(AppStart) /\ u \notin flag /\ worker[u] = "none" /\ u \notin changed
AutoStarted == \A u \in Units :
  [](Booting /\ u \in units =>
       \/ <>(service[u] # {} \/ u \notin units \/ AttachLost(u) \/ Dropped(u) \/ GivenUp)
       \/ []<>(worker[u] = "callback"))

=============================================================================
