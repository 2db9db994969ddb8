-------------------------- MODULE DeploymentUnits --------------------------
(***************************************************************************)
(* Deployment units: installing and removing them                          *)
(* (deployment_unit_helper.cpp, deployment_unit.cpp), as the daemon and    *)
(* the command line tool du-manager do it.  Both are processes that load   *)
(* the index file into a map of their own, work on the map and write the   *)
(* whole of it back; they also share the directory a tarball is unpacked   *)
(* in.  Every command may fail and a process may die after any of them.    *)
(***************************************************************************)
EXTENDS Naturals, FiniteSets

CONSTANTS
  Dus,      \* deployment units, one for each UUID; a UUID is not used twice
  Ipk,      \* the units of type ipk; the others are of type squashfs
  Envs,     \* execution environments, that is containers
  envOf,    \* ExecutionEnvRef of a unit
  Daemon, Cli,
  NoDu, NoEnv,
  Solo,     \* du-manager and the daemon do not work at the same time
  Faults    \* commands fail, processes die, the device reboots

ASSUME UnitsAssumption ==
  /\ Ipk \subseteq Dus /\ envOf \in [Dus -> Envs]
  /\ NoDu \notin Dus /\ NoEnv \notin Envs /\ Daemon # Cli
  /\ Solo \in BOOLEAN /\ Faults \in BOOLEAN
  \* metadata.json of another unit in tempDir has the type of its own unit
  /\ Solo \/ Ipk \in {{}, Dus}

Procs == {Daemon, Cli}

VARIABLES
  index,    \* index.json: its last complete content; torn when truncated
  temp,     \* the units that tempDir holds the image or packages of
  used,     \* the UUIDs given out
  stored,   \* units whose rootfs directory exists
  content,  \* the units whose files the image of a unit of type squashfs holds
  removed,  \* units duRemove was called for
  mounted,  \* units whose image is mounted on the directory
  config,   \* the units in lxc.rootfs.path of a container
  running,  \* the containers that run
  dm,       \* DeploymentUnit instances of the data model, Status Installed
  saved,    \* those in its odl file
  removals, \* dm:instance-removed events not handled yet
  reported, \* units somebody was told are installed, and none removed since
  op,       \* what a process does: install, remove, prepare, or rollback
  pc,       \* its next step
  arg,      \* its unit
  env,      \* its container
  mem,      \* its map deploymentUnits
  blind,    \* its loadCache failed, which nobody looks at
  old       \* oldRootfsPath in updateFullRootPath

VARIABLE
  unmade    \* history: units whose directory could not be made, at either try

procVars == <<op, pc, arg, env, mem, blind, old>>
fileVars == <<temp, stored, content, mounted, removed, unmade>>
lxcVars  == <<config, running>>
dmVars   == <<dm, saved, removals, reported>>
vars == <<index, temp, used, stored, content, mounted, removed, config, running, dm,
          saved, removals, reported, op, pc, arg, env, mem, blind, old, unmade>>

Ops == {"none", "install", "remove", "prepare", "rollback"}
Pcs == {"idle", "extract", "meta", "copy", "clean", "mount", "open", "write",
        "config", "stop", "start", "restore", "duRemove"}

UnitsOf(S, e) == {d \in S : envOf[d] = e}
Startable(e) == config[e] \subseteq stored

-----------------------------------------------------------------------------
Init ==
  /\ index = [torn |-> FALSE, units |-> {}] /\ temp = {} /\ used = {}
  /\ stored = {} /\ content = [d \in Dus |-> {}] /\ mounted = {} /\ removed = {} /\ unmade = {}
  /\ config = [e \in Envs |-> {}] /\ running \in SUBSET Envs
  /\ dm = {} /\ saved = {} /\ removals = {} /\ reported = {}
  /\ op = [p \in Procs |-> "none"] /\ pc = [p \in Procs |-> "idle"]
  /\ arg = [p \in Procs |-> NoDu] /\ env = [p \in Procs |-> NoEnv]
  /\ mem = [p \in Procs |-> {}] /\ blind = [p \in Procs |-> FALSE]
  /\ old = [p \in Procs |-> {}]

-----------------------------------------------------------------------------
(* The steps of a process.                                                 *)

Goto(p, l) == pc' = [pc EXCEPT ![p] = l]
At(p, l) == pc[p] = l

(* Slip: the map starts empty. *)
LoadNothing == {}

(* The map of a new DeploymentUnitHelper: a file that does not parse       *)
(* leaves it empty.                                                        *)
loadCache == IF index.torn THEN {} ELSE index.units

MayBegin(p) == op[p] = "none" /\ (Solo => \A q \in Procs : op[q] = "none")

Begin(p, o, d, e, l) ==
  /\ MayBegin(p) /\ Goto(p, l)
  /\ op' = [op EXCEPT ![p] = o] /\ arg' = [arg EXCEPT ![p] = d]
  /\ env' = [env EXCEPT ![p] = e]
  /\ mem' = [mem EXCEPT ![p] = loadCache]
  /\ blind' = [blind EXCEPT ![p] = index.torn]
  /\ UNCHANGED old

(* The local variables at the end of an operation.                         *)
Clear(p) ==
  /\ Goto(p, "idle") /\ op' = [op EXCEPT ![p] = "none"]
  /\ arg' = [arg EXCEPT ![p] = NoDu] /\ env' = [env EXCEPT ![p] = NoEnv]
  /\ mem' = [mem EXCEPT ![p] = {}] /\ blind' = [blind EXCEPT ![p] = FALSE]
  /\ old' = [old EXCEPT ![p] = {}]

(* Both callers of addDeploymentUnit take a name for a success.            *)
Return(p, named) ==
  /\ Clear(p)
  /\ reported' = IF named THEN reported \cup {arg[p]} ELSE reported
  /\ dm' = IF named /\ p = Daemon THEN dm \cup {arg[p]} ELSE dm
  /\ UNCHANGED <<saved, removals>>

Step(p, l) == Goto(p, l) /\ UNCHANGED <<op, arg, env, mem, blind, old>>

-----------------------------------------------------------------------------
(* Installation.                                                           *)

addDeploymentUnit(p, d) ==
  /\ d \notin used /\ used' = used \cup {d}
  /\ Begin(p, "install", d, envOf[d], "extract")
  /\ UNCHANGED <<index, fileVars, lxcVars, dmVars>>

(* tar, over what tempDir still holds: an image replaces the last one,     *)
(* packages join those that are there.                                     *)
Unpacked(d) == IF d \in Ipk THEN temp \cup {d} ELSE (temp \cap Ipk) \cup {d}

(* prepare: download and tar.  The container is not defined, or this       *)
(* fails: there is no name yet.                                            *)
Extract(p) ==
  /\ At(p, "extract")
  /\ \/ temp' = Unpacked(arg[p]) /\ Step(p, "meta") /\ UNCHANGED dmVars
     \/ Faults /\ temp' \in {temp, Unpacked(arg[p])} /\ Return(p, FALSE)
  /\ UNCHANGED <<index, used, stored, content, mounted, removed, unmade, lxcVars>>

(* prepare reads metadata.json.  Without a name the installation fails;    *)
(* a name with a space ends it too, but is taken for a success.            *)
ReadMeta(p) ==
  /\ At(p, "meta")
  /\ \/ temp # {} /\ Step(p, "copy") /\ UNCHANGED dmVars
     \/ (Faults \/ temp = {}) /\ Return(p, FALSE)
     \/ Faults /\ temp # {} /\ Return(p, TRUE)
  /\ UNCHANGED <<index, used, fileVars, lxcVars>>

(* Slip of Fetched: it takes everything.                                   *)
FetchedAll(d) == temp

(* What install takes out of tempDir: the image.                           *)
Fetched(d) == IF d \in Ipk THEN {} ELSE temp \ Ipk

(* create_directories(rootfsPath), whose result is not looked at.          *)
CreateDirectories(d) ==
  /\ stored' \in {stored, stored \cup {d}}
  /\ Faults \/ d \in stored'

(* install: the directory, and the image, or the packages into it.  A       *)
(* directory, an image or a list of packages that fails goes unnoticed; a  *)
(* package that fails ends the installation, with a name.                  *)
Copy(p) ==
  /\ At(p, "copy") /\ CreateDirectories(arg[p])
  /\ \/ /\ content' = [content EXCEPT ![arg[p]] = Fetched(arg[p])]
        /\ Step(p, "clean") /\ UNCHANGED dmVars
     \/ Faults /\ Step(p, "clean") /\ UNCHANGED <<content, dmVars>>
     \/ Faults /\ arg[p] \in Ipk /\ Return(p, TRUE) /\ UNCHANGED content
  /\ UNCHANGED <<index, used, temp, mounted, removed, unmade, lxcVars>>

(* remove_directory(tempDir), after an installation that did not fail.  It *)
(* stops at the first file it cannot remove, and nobody looks at that.     *)
Clean(p) ==
  /\ At(p, "clean") /\ Step(p, "mount")
  /\ temp' \in (IF Faults THEN SUBSET temp ELSE {{}})
  /\ UNCHANGED <<index, used, stored, content, mounted, removed, unmade, lxcVars, dmVars>>

(* Slip: the directory is not made again. *)
MountOnly(p) ==
  /\ At(p, "mount") /\ Goto(p, "open")
  /\ mounted' \in {mounted, mounted \cup (({arg[p]} \cap stored) \ Ipk)}
  /\ mem' = [mem EXCEPT ![p] = mem[p] \cup {arg[p]}]
  /\ UNCHANGED <<index, used, temp, stored, content, removed, unmade, lxcVars, dmVars,
                 op, arg, env, blind, old>>

(* Slip: packages are mounted as well. *)
MountAny(p) ==
  /\ At(p, "mount") /\ Goto(p, "open")
  /\ mounted' = mounted \cup {arg[p]}
  /\ mem' = [mem EXCEPT ![p] = mem[p] \cup {arg[p]}]
  /\ UNCHANGED <<index, used, temp, stored, content, removed, unmade, lxcVars, dmVars,
                 op, arg, env, blind, old>>

(* create_directories again and mountSquashfs, neither of whose results is *)
(* looked at, and the insertion into the map.                              *)
Mount(p) ==
  /\ At(p, "mount") /\ Goto(p, "open")
  /\ CreateDirectories(arg[p]) /\ unmade' = unmade \cup ({arg[p]} \ stored')
  /\ mounted' \in {mounted, mounted \cup (({arg[p]} \cap stored') \ Ipk)}
  /\ Faults \/ {arg[p]} \ Ipk \subseteq mounted'
  /\ mem' = [mem EXCEPT ![p] = mem[p] \cup {arg[p]}]
  /\ UNCHANGED <<index, used, temp, content, removed, lxcVars, dmVars,
                 op, arg, env, blind, old>>

-----------------------------------------------------------------------------
(* saveCache and what follows it.                                          *)

(* A failure in an installation begins the roll back, which is a removal   *)
(* with the same map, and ends at once if the container is not defined any *)
(* more; it ends a removal or the roll back.                               *)
RollBack(p) ==
  \/ /\ Goto(p, "config") /\ op' = [op EXCEPT ![p] = "rollback"]
     /\ UNCHANGED <<arg, env, mem, blind, old, dmVars>>
  \/ Faults /\ Return(p, TRUE)
SaveFailed(p) == IF op[p] = "install" THEN RollBack(p) ELSE Return(p, op[p] = "rollback")

(* open truncates the file.                                                *)
SaveOpen(p) ==
  /\ At(p, "open")
  /\ \/ index' = [index EXCEPT !.torn = TRUE] /\ Step(p, "write") /\ UNCHANGED dmVars
     \/ Faults /\ SaveFailed(p) /\ UNCHANGED index
  /\ UNCHANGED <<used, fileVars, lxcVars>>

(* write: complete, short (which is taken for complete), or failed.        *)
SaveWrite(p) ==
  /\ At(p, "write")
  /\ \/ /\ \/ index' = [torn |-> FALSE, units |-> mem[p]]
           \/ Faults /\ index' = [index EXCEPT !.torn = TRUE]
        /\ IF op[p] = "install" THEN Step(p, "config") /\ UNCHANGED dmVars
                                ELSE Return(p, op[p] = "rollback")
     \/ Faults /\ SaveFailed(p) /\ UNCHANGED index
  /\ UNCHANGED <<used, fileVars, lxcVars>>

-----------------------------------------------------------------------------
(* updateFullRootPath.                                                     *)

(* It succeeded, or it did not, in the operation that called it.  prepare  *)
(* starts the container whatever the result was.                           *)
Updated(p) ==
  CASE op[p] = "install" -> Return(p, TRUE)
    [] op[p] = "prepare" -> Return(p, FALSE)
    [] OTHER -> Step(p, "duRemove") /\ UNCHANGED dmVars
NotUpdated(p) ==
  IF op[p] = "install" THEN RollBack(p) ELSE Updated(p)

(* Slip: the unit is appended to the path that is there. *)
UpdateAppends(p) ==
  /\ At(p, "config")
  /\ \/ /\ old' = [old EXCEPT ![p] = config[env[p]]]
        /\ config' = [config EXCEPT ![env[p]] = config[env[p]] \cup ({arg[p]} \ {NoDu})]
        /\ Goto(p, "stop") /\ UNCHANGED <<op, arg, env, mem, blind, dmVars>>
     \/ Faults /\ NotUpdated(p) /\ UNCHANGED config
  /\ UNCHANGED <<index, used, fileVars, running>>

(* The units of the map go into lxc.rootfs.path and the file is saved.     *)
UpdateConfig(p) ==
  /\ At(p, "config")
  /\ \/ /\ old' = [old EXCEPT ![p] = config[env[p]]]
        /\ config' = [config EXCEPT ![env[p]] = UnitsOf(mem[p], env[p])]
        /\ Goto(p, "stop") /\ UNCHANGED <<op, arg, env, mem, blind, dmVars>>
     \/ Faults /\ NotUpdated(p) /\ UNCHANGED config
  /\ UNCHANGED <<index, used, fileVars, running>>

(* restartContainer.                                                       *)
StopContainer(p) ==
  /\ At(p, "stop")
  /\ \/ running' = running \ {env[p]} /\ Step(p, "start")
     \/ Faults /\ env[p] \in running /\ Step(p, "restore") /\ UNCHANGED running
  /\ UNCHANGED <<index, used, fileVars, config, dmVars>>

(* A container does not start when a directory of its path is missing.     *)
StartContainer(p) ==
  /\ At(p, "start")
  /\ \/ Startable(env[p]) /\ running' = running \cup {env[p]} /\ Updated(p)
     \/ /\ Faults \/ ~Startable(env[p])
        /\ Step(p, "restore") /\ UNCHANGED <<running, dmVars>>
  /\ UNCHANGED <<index, used, fileVars, config>>

(* The old path is put back through a handle that restartContainer freed:  *)
(* it may be saved, or not; see Die for the third outcome.                 *)
Restore(p) ==
  /\ At(p, "restore") /\ NotUpdated(p)
  /\ config' \in {config, [config EXCEPT ![env[p]] = old[p]]}
  /\ UNCHANGED <<index, used, fileVars, running>>

-----------------------------------------------------------------------------
(* Removal.                                                                *)

(* A unit the map does not have, or a container that is not defined: the   *)
(* operation is over at once.                                              *)
removeDeploymentUnit(p, d) ==
  /\ \/ d \in loadCache /\ Begin(p, "remove", d, envOf[d], "config")
     \/ (Faults \/ d \notin loadCache) /\ MayBegin(p) /\ UNCHANGED procVars
  /\ UNCHANGED <<index, used, fileVars, lxcVars>>

(* duRemove: umount, the directory and the image, whatever each one says.  *)
(* What stays of it, mounted or not, nothing reads, as a UUID is not used   *)
(* again; only the directory is told from one that went.                   *)
RemoveFiles(d) ==
  IF d \in Ipk THEN UNCHANGED <<stored, content, mounted>>
  ELSE /\ content' = [content EXCEPT ![d] = {}] /\ mounted' = mounted \ {d}
       /\ stored' = stored \ {d} \/ (Faults /\ UNCHANGED stored)

(* Slip: the unit stays in the map. *)
RemoveKeeps(p) ==
  /\ At(p, "duRemove") /\ Goto(p, "open") /\ RemoveFiles(arg[p])
  /\ removed' = removed \cup {arg[p]} /\ unmade' = unmade \ {arg[p]}
  /\ UNCHANGED <<index, used, temp, lxcVars, dmVars, op, arg, env, mem, blind, old>>

(* duRemove; then the unit is erased from the map.                         *)
DuRemove(p) ==
  /\ At(p, "duRemove") /\ Goto(p, "open") /\ RemoveFiles(arg[p])
  /\ mem' = [mem EXCEPT ![p] = mem[p] \ {arg[p]}]
  /\ removed' = removed \cup {arg[p]} /\ unmade' = unmade \ {arg[p]}
  /\ UNCHANGED <<index, used, temp, lxcVars, dmVars, op, arg, env, blind, old>>

-----------------------------------------------------------------------------
(* Who starts the operations.                                              *)

(* odlFunctionDeploymentUnitAdd, or an instance without UUID that          *)
(* deploymentUnitManage finds; du-manager --install.                       *)
Install(p, d) == addDeploymentUnit(p, d)

(* An instance is deleted on the bus; the event is handled later.          *)
BusRemove(d) ==
  /\ op[Daemon] = "none" /\ d \in dm /\ dm' = dm \ {d}
  /\ removals' = removals \cup {d} /\ reported' = reported \ {d}
  /\ UNCHANGED <<index, used, fileVars, lxcVars, saved, procVars>>
odlDeploymentUnitUninstalled(d) ==
  /\ d \in removals /\ removals' = removals \ {d}
  /\ removeDeploymentUnit(Daemon, d)
  /\ UNCHANGED <<dm, saved, reported>>

(* du-manager --remove.  The data model is not told.                       *)
CliRemove(d) ==
  /\ d \in used /\ reported' = reported \ {d}
  /\ removeDeploymentUnit(Cli, d)
  /\ UNCHANGED <<dm, saved, removals>>

(* LxcContainer::prepare, when the environment is enabled.                 *)
Prepare(e) ==
  /\ Begin(Daemon, "prepare", NoDu, e, "config")
  /\ UNCHANGED <<index, used, fileVars, lxcVars, dmVars>>

Save ==
  /\ op[Daemon] = "none" /\ saved # dm /\ saved' = dm
  /\ UNCHANGED <<index, used, fileVars, lxcVars, dm, removals, reported, procVars>>

(* A process dies in an operation; procd starts the daemon again.          *)
Die(p) ==
  /\ Faults /\ op[p] # "none" /\ Clear(p)
  /\ dm' = IF p = Daemon THEN saved ELSE dm
  /\ removals' = IF p = Daemon THEN {} ELSE removals
  /\ UNCHANGED <<index, used, fileVars, lxcVars, saved, reported>>

(* After a reboot /tmp is empty and nothing is mounted or runs.            *)
Reboot ==
  /\ Faults /\ temp' = {} /\ mounted' = {} /\ running' = {}
  /\ op' = [p \in Procs |-> "none"] /\ pc' = [p \in Procs |-> "idle"]
  /\ arg' = [p \in Procs |-> NoDu] /\ env' = [p \in Procs |-> NoEnv]
  /\ mem' = [p \in Procs |-> {}] /\ blind' = [p \in Procs |-> FALSE]
  /\ old' = [p \in Procs |-> {}]
  /\ dm' = saved /\ removals' = {}
  /\ UNCHANGED <<index, used, stored, content, removed, unmade, config, saved, reported>>

Do(p) ==
  \/ Extract(p) \/ ReadMeta(p) \/ Copy(p) \/ Clean(p) \/ Mount(p)
  \/ SaveOpen(p) \/ SaveWrite(p) \/ UpdateConfig(p) \/ StopContainer(p)
  \/ StartContainer(p) \/ Restore(p) \/ DuRemove(p)

Next ==
  \/ \E p \in Procs : Do(p) \/ Die(p) \/ \E d \in Dus : Install(p, d)
  \/ \E d \in Dus : BusRemove(d) \/ odlDeploymentUnitUninstalled(d) \/ CliRemove(d)
  \/ \E e \in Envs : Prepare(e)
  \/ Save \/ Reboot

Spec == Init /\ [][Next]_vars

-----------------------------------------------------------------------------
Updating == {"config", "stop", "start", "restore"}
Saving == {"open", "write"}
StepsOf == [none |-> {"idle"}, prepare |-> Updating,
            install |-> {"extract", "meta", "copy", "clean", "mount"} \cup Saving \cup Updating,
            remove |-> Updating \cup {"duRemove"} \cup Saving,
            rollback |-> Updating \cup {"duRemove"} \cup Saving]

(* The type of every variable. *)
TypeOK ==
  /\ index \in [torn : BOOLEAN, units : SUBSET used] /\ used \subseteq Dus
  /\ temp \subseteq used /\ stored \subseteq used /\ removed \cup unmade \subseteq used
  /\ content \in [Dus -> SUBSET used] /\ mounted \subseteq used \ Ipk
  /\ config \in [Envs -> SUBSET used] /\ running \subseteq Envs
  /\ dm \subseteq used /\ saved \subseteq used /\ removals \subseteq used
  /\ reported \subseteq used
  /\ op \in [Procs -> Ops] /\ pc \in [Procs -> Pcs]
  /\ arg \in [Procs -> used \cup {NoDu}] /\ env \in [Procs -> Envs \cup {NoEnv}]
  /\ mem \in [Procs -> SUBSET used] /\ blind \in [Procs -> BOOLEAN]
  /\ old \in [Procs -> SUBSET used]
  /\ \A p \in Procs : pc[p] \in StepsOf[op[p]]
  /\ \A p \in Procs : op[p] \in {"install", "remove", "rollback"} => arg[p] # NoDu
  /\ \A p \in Procs : op[p] # "none" => env[p] \in Envs

(* The index loses a unit only by the removal or the roll back of that     *)
(* unit, or because the file was torn before the operation began           *)
(* (loadCache, deployment_unit_helper.cpp:295, nobody looks at the result).*)
NothingLost == [][\A d \in index.units \ index'.units : \E p \in Procs :
  (op[p] \in {"remove", "rollback"} /\ arg[p] = d) \/ blind[p]]_vars

(* A removed unit does not come back: what the index gains is the unit     *)
(* being installed, although the whole map is written each time.           *)
OnlyInstalled == [][\A d \in index'.units \ index.units : \E p \in Procs :
  op[p] = "install" /\ arg[p] = d]_vars

(* A unit the index lists, whose removal has not got as far as duRemove,   *)
(* has its directory, unless that could not be made, which nobody looks at *)
(* (deployment_unit.cpp:216, deployment_unit_helper.cpp:98); and its image *)
(* holds no other unit's files: the order of install, insertion and save   *)
(* in addDeploymentUnit, whatever else failed, died, or was left behind in *)
(* tempDir before.                                                         *)
IndexedStored == \A d \in index.units \ removed :
  d \in stored \cup unmade /\ (d \notin Ipk => content[d] \subseteq {d})

(* The two views of the units agree when an installation ends well: the    *)
(* container's path lists what the index lists for it.                     *)
ConfigMatchesIndex == [][\A p \in Procs :
  (op[p] = "install" /\ At(p, "start") /\ env[p] \in running' /\ ~index'.torn)
    => config'[env[p]] = UnitsOf(index'.units, env[p])]_vars

(* --ls: "List installed DeploymentUnits" (du-manager/main.cpp:17): what   *)
(* somebody was told is installed is in the index.                         *)
InstalledListed == \A d \in reported : d \in index.units \/ index.torn

=============================================================================
