------------------------------ MODULE ExecEnv ------------------------------
(***************************************************************************)
(* The execution environments of the lxcd daemon: the ExecEnv instances of *)
(* the data model, their handlers (amxhandler.cpp), and the container each *)
(* one drives through class LxcContainer (lxc-container.cpp).              *)
(*                                                                         *)
(* A handler runs lxc and mount commands one after the other on the main   *)
(* thread; a container may die between two of them.  Some failures end the *)
(* daemon; procd starts it again from the data model it last saved.        *)
(***************************************************************************)
EXTENDS Naturals, Sequences, FiniteSets

CONSTANTS
  Insts,        \* the ExecEnv instances there can be; an index is not reused
  Names,        \* the names of containers
  nameOf,       \* the Name of an instance
  Overlay,      \* instances with AllocatedDiskSpace > 0: they get an overlay
  Complete,     \* instances with a Name and a Type; an empty name is a name
  NoInst,
  AppStart,     \* the event app:start
  MaxEvents,    \* bound on the queue a bus write still finds room in
  MaxRespawns,  \* respawn_retry of lxcd.init
  Mortal        \* the containers that may end by themselves

ASSUME EnvAssumption ==
  /\ nameOf \in [Insts -> Names] /\ Overlay \subseteq Insts /\ Complete \subseteq Insts
  /\ NoInst \notin Insts
  /\ AppStart \notin [kind : {"changed", "removed"}, inst : Insts]
  /\ MaxEvents \in Nat /\ MaxRespawns \in Nat /\ Mortal \subseteq Names

VARIABLES
  present,      \* the instances of the data model
  born,         \* the instances that were ever added
  enable,       \* Enable of an instance
  status,       \* Status of an instance
  saved,        \* instances and Enable in the odl file of the data model
  queue,        \* events not handled yet
  todo,         \* instances the walk of app:start still visits
  cur,          \* the instance being processed
  mpc,          \* the next step of LxcContainer::run, "loop" between events
  handle,       \* the lxc_container of cur: held, freed by a helper, or null
  failed,       \* run() returned an error
  respawns,     \* times procd started the daemon again
  defined,      \* containers lxc knows
  mounted,      \* containers whose overlay image is mounted
  running       \* containers that run

\* history
VARIABLES
  unheard,      \* instances added on the bus of which no handler was told yet
  clash         \* names that were given to an instance while another one had
                \* the name, or had it and its removal was not handled yet

ghostVars == <<unheard, clash>>
dmVars   == <<present, born, enable, saved, ghostVars>>
lxcVars  == <<defined, mounted, running>>
mainVars == <<todo, cur, mpc, handle, failed>>
vars == <<present, born, enable, status, saved, queue, todo, cur, mpc, handle,
          failed, respawns, defined, mounted, running, ghostVars>>

Events == [kind : {"changed", "removed"}, inst : Insts] \cup {AppStart}
Changed(i) == [kind |-> "changed", inst |-> i]
Removed(i) == [kind |-> "removed", inst |-> i]
Statuses == {"Disabled", "Working", "Up", "Error"}
MainPcs == {"loop", "create", "prepare", "restart", "start", "stop", "report",
            "destroyStop", "destroy", "dead"}

NamesUnique == \A i, j \in Insts : nameOf[i] = nameOf[j] => i = j
Name == nameOf[cur]
Idle == mpc = "loop" /\ todo = {}
Queued(ev) == \E k \in 1..Len(queue) : queue[k] = ev
Twice(s) == {n \in Names : \E i, j \in s : i # j /\ nameOf[i] = n /\ nameOf[j] = n}

-----------------------------------------------------------------------------
(* The daemon starts with the saved instances; their containers may exist, *)
(* and run, from an earlier life of the daemon.                            *)
Init ==
  /\ present \in SUBSET Insts /\ born = present
  /\ enable \in [Insts -> BOOLEAN] /\ \A i \in Insts \ present : ~enable[i]
  /\ status = [i \in Insts |-> "Disabled"]
  /\ saved = [present |-> present, enable |-> enable]
  /\ queue = <<AppStart>> /\ todo = {} /\ cur = NoInst /\ mpc = "loop"
  /\ handle = "held" /\ failed = FALSE /\ respawns = 0
  /\ defined \in SUBSET {nameOf[i] : i \in present}
  /\ mounted \in SUBSET defined /\ running \in SUBSET defined
  /\ unheard = {} /\ clash = Twice(present)

-----------------------------------------------------------------------------
(* The bus, served between two events.                                     *)

(* Slip: a write without an event.                                         *)
BusWriteSilent(i, b) ==
  /\ Idle /\ i \in present /\ Len(queue) < MaxEvents
  /\ enable' = [enable EXCEPT ![i] = b]
  /\ UNCHANGED <<present, born, status, saved, queue, mainVars, respawns, lxcVars, ghostVars>>

(* A write to an instance: Enable, or another parameter when the value is  *)
(* the present one.                                                        *)
BusWrite(i, b) ==
  /\ Idle /\ i \in present /\ Len(queue) < MaxEvents
  /\ enable' = [enable EXCEPT ![i] = b]
  /\ queue' = Append(queue, Changed(i)) /\ unheard' = unheard \ {i}
  /\ UNCHANGED <<present, born, status, saved, mainVars, respawns, lxcVars, clash>>

BusRemove(i) ==
  /\ Idle /\ i \in present /\ Len(queue) < MaxEvents
  /\ present' = present \ {i} /\ enable' = [enable EXCEPT ![i] = FALSE]
  /\ queue' = Append(queue, Removed(i))
  /\ UNCHANGED <<born, status, saved, mainVars, respawns, lxcVars, ghostVars>>

(* A new instance, which may take over the name of another one.            *)
Added(i, b) ==
  /\ i \in Insts \ born
  /\ present' = present \cup {i} /\ born' = born \cup {i}
  /\ enable' = [enable EXCEPT ![i] = b]
  /\ clash' = IF \E j \in Insts : nameOf[j] = nameOf[i]
                               /\ (j \in present \/ Queued(Removed(j)))
              THEN clash \cup {nameOf[i]} ELSE clash

(* An instance is added on the bus: nobody handles its dm:instance-added.   *)
BusAdd(i, b) ==
  /\ Idle /\ Added(i, b) /\ unheard' = unheard \cup {i}
  /\ UNCHANGED <<status, saved, queue, mainVars, respawns, lxcVars>>

(* What processExecEnvObject begins with: nothing for an instance without  *)
(* Name or Type.  lxc_container_new may return a null pointer.             *)
Begin(i, b) ==
  \/ /\ i \in Complete /\ cur' = i
     /\ status' = [status EXCEPT ![i] = "Working"]
     /\ mpc' = IF b THEN "create" ELSE "stop"
     /\ handle' \in {"held", "null"} /\ failed' = FALSE
  \/ i \notin Complete /\ UNCHANGED <<cur, status, mpc, handle, failed>>

(* odlFunctionExecEnvAdd: a new instance with a Name, a Type and more than *)
(* 10 MB of storage, enabled, processed at once.                           *)
AddInstance(i) ==
  /\ Idle /\ i \in Overlay \cap Complete /\ Added(i, TRUE)
  /\ Begin(i, TRUE)
  /\ UNCHANGED <<saved, queue, todo, respawns, lxcVars, unheard>>

(* The data model is saved a second after it changed.                      *)
Save ==
  /\ Idle /\ saved # [present |-> present, enable |-> enable]
  /\ saved' = [present |-> present, enable |-> enable]
  /\ UNCHANGED <<present, born, enable, status, queue, mainVars, respawns, lxcVars, ghostVars>>

-----------------------------------------------------------------------------
(* The handlers.                                                           *)

Take == Idle /\ queue # <<>> /\ queue' = Tail(queue)

(* app:start: ExecEnvManage walks over the instances.                      *)
ExecEnvManage ==
  /\ Take /\ Head(queue) = AppStart
  /\ todo' = present
  /\ UNCHANGED <<dmVars, status, cur, mpc, handle, failed, respawns, lxcVars>>

Visit(i) ==
  /\ mpc = "loop" /\ i \in todo /\ todo' = todo \ {i}
  /\ Begin(i, enable[i])
  /\ UNCHANGED <<dmVars, queue, respawns, lxcVars>>

(* Slips: the changed instance is not processed; disabling destroys.       *)
ChangedIgnored(i) ==
  /\ Take /\ Head(queue) = Changed(i) /\ i \in present
  /\ UNCHANGED <<dmVars, status, mainVars, respawns, lxcVars>>

ChangedDestroys(i) ==
  /\ Take /\ Head(queue) = Changed(i) /\ i \in present
  /\ cur' = i /\ mpc' = IF enable[i] THEN "create" ELSE "destroyStop"
  /\ handle' = "held" /\ failed' = FALSE
  /\ UNCHANGED <<dmVars, status, todo, respawns, lxcVars>>

odlExecEnvChanged(i) ==
  /\ Take /\ Head(queue) = Changed(i) /\ i \in present
  /\ Begin(i, enable[i])
  /\ UNCHANGED <<dmVars, todo, respawns, lxcVars>>

(* The instance of the event is gone.                                      *)
ChangedGone(i) ==
  /\ Take /\ Head(queue) = Changed(i) /\ i \notin present
  /\ UNCHANGED <<dmVars, status, mainVars, respawns, lxcVars>>

(* dm:instance-removed: DESTROY the container of that name.                *)
odlExecEnvUninstalled(i) ==
  /\ Take /\ Head(queue) = Removed(i)
  /\ cur' = i /\ mpc' = "destroyStop" /\ handle' \in {"held", "null"}
  /\ UNCHANGED <<dmVars, status, todo, failed, respawns, lxcVars>>

-----------------------------------------------------------------------------
(* LxcContainer::run, step by step.                                        *)

Goto(l) == mpc' = l /\ UNCHANGED <<dmVars, status, queue, todo, cur, respawns>>
Die == Goto("dead")

(* setupOverlayFs: mount the overlay unless it is mounted, then create the *)
(* delta directory.  A failed mount is ignored, a failed mkdir ends the    *)
(* daemon.                                                                 *)
SetupOverlayFs(l) ==
  \/ Goto(l) /\ UNCHANGED mounted
  \/ /\ Name \in defined' \ mounted
     /\ mounted' = mounted \cup {Name} /\ (Goto(l) \/ Die)

(* create: nothing to do for a defined container.  A failed createl is an  *)
(* error, or only a message when the template has arguments.  A null       *)
(* handle is used, which ends the daemon.                                  *)
Create ==
  /\ mpc = "create" /\ handle # "null" /\ UNCHANGED <<running, handle>>
  /\ \/ /\ Name \in defined /\ Goto("prepare") /\ UNCHANGED <<defined, mounted, failed>>
     \/ /\ Name \notin defined /\ Goto("report") /\ failed' = TRUE
        /\ UNCHANGED <<defined, mounted>>
     \/ /\ Name \notin defined /\ defined' = defined \cup {Name} /\ UNCHANGED failed
        /\ IF cur \in Overlay THEN SetupOverlayFs("prepare")
           ELSE Goto("prepare") /\ UNCHANGED mounted
     \/ /\ Name \notin defined /\ cur \in Overlay /\ Goto("prepare")
        /\ UNCHANGED <<defined, mounted, failed>>

CreateNull == mpc = "create" /\ handle = "null" /\ Die /\ UNCHANGED <<handle, failed, lxcVars>>

(* Slip: updateFullRootPath starts a container it did not stop.            *)
PrepareInPlace ==
  /\ mpc = "prepare" /\ UNCHANGED <<defined, failed>>
  /\ \/ cur \notin Overlay /\ Goto("start") /\ UNCHANGED <<mounted, running, handle>>
     \/ cur \in Overlay /\ SetupOverlayFs("restart") /\ UNCHANGED <<running, handle>>

(* prepare: the overlay again, then updateFullRootPath.  It reloads and    *)
(* saves the config and restarts the container; a failure frees the handle *)
(* in most cases, and the result is not looked at.                         *)
Prepare ==
  /\ mpc = "prepare" /\ UNCHANGED <<defined, failed>>
  /\ \/ /\ cur \notin Overlay /\ Goto("start") /\ UNCHANGED <<mounted, running, handle>>
     \/ /\ cur \in Overlay /\ SetupOverlayFs("start")        \* config fails
        /\ handle' \in {"held", "freed"} /\ UNCHANGED running
     \/ /\ cur \in Overlay /\ SetupOverlayFs("restart")
        /\ running' = running \ {Name} /\ UNCHANGED handle
     \/ /\ cur \in Overlay /\ Name \in running              \* stop fails
        /\ SetupOverlayFs("start")
        /\ handle' = "freed" /\ UNCHANGED running

(* restartContainer starts the container it stopped.                       *)
Restart ==
  /\ mpc = "restart" /\ Goto("start") /\ UNCHANGED <<defined, mounted, failed>>
  /\ \/ Name \in defined /\ running' = running \cup {Name} /\ UNCHANGED handle
     \/ handle' = "freed" /\ UNCHANGED running

(* Slip: start() does not report a failure.                                *)
StartOptimistic ==
  /\ mpc = "start" /\ UNCHANGED <<defined, mounted, handle, failed>>
  /\ \/ running' = running \cup ({Name} \cap defined) \/ UNCHANGED running
  /\ Goto("report")

(* start: nothing to do for a running container.  With a freed handle it   *)
(* is undefined: the daemon dies, or the memory still serves.              *)
Start ==
  /\ mpc = "start" /\ UNCHANGED <<defined, mounted, handle>>
  /\ \/ Name \in running /\ Goto("report") /\ UNCHANGED <<running, failed>>
     \/ /\ Name \in defined \ running /\ running' = running \cup {Name}
        /\ Goto("report") /\ UNCHANGED failed
     \/ /\ Name \notin running /\ failed' = TRUE
        /\ Goto("report") /\ UNCHANGED running
     \/ handle = "freed" /\ Die /\ UNCHANGED <<running, failed>>

(* stop: lxc-stop -k, whose result is not looked at.  Without a handle it  *)
(* is an error: the container stays as it is, and run() ends.              *)
StopContainer ==
  /\ mpc \in {"stop", "destroyStop"} /\ UNCHANGED <<defined, mounted>>
  /\ \/ /\ handle # "null" /\ Goto(IF mpc = "stop" THEN "report" ELSE "destroy")
        /\ running' \in {running, running \ {Name}} /\ UNCHANGED <<handle, failed>>
     \/ /\ handle = "null" /\ mpc = "stop" /\ Goto("report")
        /\ failed' = TRUE /\ UNCHANGED <<handle, running>>
     \/ /\ handle = "null" /\ mpc = "destroyStop" /\ mpc' = "loop" /\ cur' = NoInst
        /\ handle' = "held"
        /\ UNCHANGED <<dmVars, status, queue, todo, respawns, running, failed>>

(* Slip: the container is forgotten and goes on running.                   *)
DestroyUnforced ==
  /\ mpc = "destroy"
  /\ defined' = defined \ {Name} /\ mounted' = mounted \ {Name}
  /\ mpc' = "loop" /\ cur' = NoInst
  /\ UNCHANGED <<dmVars, status, queue, todo, respawns, running, handle, failed>>

(* destroy: a failed umount ends the daemon, the result of lxc-destroy -f  *)
(* is not looked at.                                                       *)
Destroy ==
  /\ mpc = "destroy"
  /\ \/ /\ Name \in mounted /\ mounted' = mounted \ {Name}
        /\ \/ defined' = defined \ {Name} /\ running' = running \ {Name}
           \/ UNCHANGED <<defined, running>>
        /\ mpc' = "loop" /\ cur' = NoInst
        /\ UNCHANGED <<dmVars, status, queue, todo, respawns>>
     \/ Die /\ UNCHANGED lxcVars
  /\ UNCHANGED <<handle, failed>>

(* Slip: what did not fail is up.                                          *)
ReportUp ==
  /\ mpc = "report" /\ mpc' = "loop" /\ cur' = NoInst
  /\ status' = [status EXCEPT ![cur] = IF failed THEN "Error" ELSE "Up"]
  /\ handle' = "held" /\ failed' = FALSE
  /\ UNCHANGED <<dmVars, queue, todo, respawns, lxcVars>>

(* The end of processExecEnvObject.  The destructor puts the handle; one   *)
(* that was freed it frees again, which may end the daemon.                *)
Report ==
  /\ mpc = "report"
  /\ status' = [status EXCEPT ![cur] = IF failed THEN "Error"
                                       ELSE IF enable[cur] THEN "Up" ELSE "Disabled"]
  /\ \/ mpc' = "loop" /\ cur' = NoInst /\ handle' = "held" /\ failed' = FALSE
     \/ handle = "freed" /\ mpc' = "dead" /\ UNCHANGED <<cur, handle, failed>>
  /\ UNCHANGED <<dmVars, queue, todo, respawns, lxcVars>>

Handler ==
  \/ ExecEnvManage
  \/ \E i \in Insts : odlExecEnvChanged(i) \/ ChangedGone(i) \/ odlExecEnvUninstalled(i)
  \/ \E i \in todo : Visit(i)
RunStep ==
  Create \/ CreateNull \/ Prepare \/ Restart \/ Start \/ StopContainer \/ Destroy \/ Report
MainStep == Handler \/ RunStep

-----------------------------------------------------------------------------
(* A daemon that starts loads the data model from the file; Status is not  *)
(* in it.  Containers and mounts are as they were.                         *)
Load ==
  /\ respawns < MaxRespawns /\ respawns' = respawns + 1
  /\ present' = saved.present /\ enable' = saved.enable
  /\ status' = [i \in Insts |-> "Disabled"]
  /\ queue' = <<AppStart>> /\ todo' = {} /\ cur' = NoInst /\ mpc' = "loop"
  /\ handle' = "held" /\ failed' = FALSE
  /\ unheard' = {}
  /\ UNCHANGED <<born, saved, lxcVars, clash>>

(* procd starts a dead daemon again.                                       *)
Respawn == mpc = "dead" /\ Load

(* A container ends by itself.                                             *)
ContainerEnds(n) ==
  /\ n \in Mortal \cap running /\ running' = running \ {n}
  /\ UNCHANGED <<dmVars, status, queue, mainVars, respawns, defined, mounted>>

Next ==
  \/ \E i \in Insts : BusRemove(i) \/ AddInstance(i)
  \/ \E i \in Insts, b \in BOOLEAN : BusWrite(i, b) \/ BusAdd(i, b)
  \/ MainStep \/ Save \/ Respawn
  \/ \E n \in Names : ContainerEnds(n)

Spec == Init /\ [][Next]_vars

(* The main thread runs and procd restarts the daemon.                     *)
Fairness == WF_vars(MainStep) /\ WF_vars(Respawn)
FairSpec == Spec /\ Fairness

-----------------------------------------------------------------------------
(* The type of every variable. *)
TypeOK ==
  /\ present \subseteq born /\ born \subseteq Insts
  /\ enable \in [Insts -> BOOLEAN] /\ status \in [Insts -> Statuses]
  /\ saved \in [present : SUBSET born, enable : [Insts -> BOOLEAN]]
  /\ queue \in Seq(Events) /\ todo \subseteq present
  /\ cur \in Insts \cup {NoInst} /\ mpc \in MainPcs
  /\ handle \in {"held", "freed", "null"} /\ failed \in BOOLEAN
  /\ respawns \in 0..MaxRespawns
  /\ mounted \subseteq Names /\ defined \subseteq Names /\ running \subseteq defined
  /\ IF mpc = "loop" THEN cur = NoInst ELSE cur \in Insts
  /\ unheard \subseteq born /\ clash \subseteq Names

(* Nothing is under way for instance i, and a handler was told of it.      *)
Settled(i) ==
  /\ mpc # "dead" /\ i \in present /\ cur # i /\ i \notin todo
  /\ ~Queued(Changed(i)) /\ ~Queued(AppStart) /\ i \notin unheard

(* Status of a settled instance tells which way Enable went, or that it    *)
(* went wrong: it is never left at Working, and no write to Enable is      *)
(* missed across restarts of the daemon (processExecEnvObject,             *)
(* amxhandler.cpp:297-313).                                                *)
StatusFollowsEnable == \A i \in Complete : Settled(i) =>
  status[i] \in {"Error", IF enable[i] THEN "Up" ELSE "Disabled"}

(* Status Up on a settled instance: its container runs ("Status of the     *)
(* execution environment"), unless it ended by itself, which nobody looks   *)
(* at.  It holds for a name that is given to a new instance once the       *)
(* removal of the last one was handled; one given earlier is in clash.     *)
UpMeansRunning == \A i \in Insts :
  Settled(i) /\ status[i] = "Up" /\ nameOf[i] \notin Mortal \cup clash
    => nameOf[i] \in running

(* No container is destroyed under an instance of the data model, unless   *)
(* its name was given to it while another one had it, or the removal of    *)
(* that one was not handled yet: a removal is handled late and by name     *)
(* (amxhandler.cpp:365-373).                                               *)
DestroysOnlyRemoved ==
  [][\A i \in present : nameOf[i] \in defined \ defined' => nameOf[i] \in clash]_vars

(* A write to Enable is reported some day, whatever fails in between, or   *)
(* procd gives up.                                                         *)
GivenUp == mpc = "dead" /\ respawns = MaxRespawns
EnableTakesEffect == \A i \in Complete :
  i \in present /\ enable[i] ~>
    \/ i \notin present \/ ~enable[i] \/ i \in unheard \/ status[i] \in {"Up", "Error"}
    \/ GivenUp
DisableTakesEffect == \A i \in Complete :
  i \in present /\ ~enable[i] ~>
    \/ i \notin present \/ enable[i] \/ i \in unheard \/ status[i] \in {"Disabled", "Error"}
    \/ GivenUp

=============================================================================
