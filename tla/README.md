# lxcd verification

TLA+ models, model checks and proofs of `lxcd`, the daemon that offers a
TR-157 *SoftwareModules* data model and drives LXC containers with it. Paths
below are those of the repository (`src/...`).

## 1. The system

| Part | Source | State it keeps | Operations |
|---|---|---|---|
| Execution environments | `src/backend/amx/amxhandler.cpp` (`processExecEnvObject`, `odlExecEnv*`), `liblxcd/lxc-container.cpp` | `ExecEnv` instances (Enable, Status); containers, overlay mounts | walk at `app:start`, object-changed, instance-removed, the RPC that adds one; create, prepare, start, stop, destroy |
| Deployment units | `liblxcd/deployment_unit_helper.cpp`, `deployment_unit.cpp` | `index.json`, the unit directories and images, `/tmp/tr157-du`, `lxc.rootfs.path` | add, remove, update of the container's path and restart |
| Execution units | `amxhandler.cpp` (`processExecutionUnitObject`, ...), `include_priv/utils/linux.h` (`CProcess`) | `ExecutionUnit` instances (RequestedState, Status); `processMap` of `CProcess` with `processRunning`, `pid` | object-changed, the walk of `deploymentunit-managed`; `runAsync`, `stop`, attach, `waitpid`, call back |
| Task queue | `liblxcd/lxcqueue.cpp`, `common-task.cpp` | a linked list, mutex, condition, `stopped` | `addTask`, `start`, `stop`, `run` |
| Supervisor | `scripts/lxcd-supervisor.lua` | what it read from the bus | poll once a second, toggle Enable, stop a container |
| procd files | `scripts/*.init` | none | start and respawn |
| du-manager | `du-manager/main.cpp` | none of its own: the same index | `--install`, `--remove`, `--ls` |
| HTTP backend | `src/backend/uhttpd` | table of handlers, one static body buffer; the same containers | register, start, stop, the call back of libmicrohttpd, nine handlers |
| Library | `include_priv/utils/*.h`, `liblxcd/string.cpp`, `json.cpp` | sequential data structures | map (skip list, iterators), vector, string, SharedPtr, JSON |

How they interact. `lxcd` has one event loop, the main thread. It serves the
bus (Ambiorix) and takes events one at a time; a handler runs to its end, its
`system()` calls and `waitpid` included, and meanwhile nothing else is handled.
A bus transaction writes the data model and *queues* `dm:object-changed` or
`dm:instance-removed`; the handler runs later and may find a data model that has
moved on. Setting a parameter from a handler (`amxd_object_set_*`) raises no
event. `app:start` enables the environments and then raises
`deploymentunit-managed`, whose handler starts the execution units. Each
start of a unit creates a worker thread that shares the `CProcess` with the
main thread, without a lock, and ends in a call back that queues
`dm:object-changed` for the unit. du-manager and the supervisor are processes of
their own: the first shares files with the daemon, the second talks to it over
the bus and to LXC directly. The HTTP backend is built in place of the bus handlers
(`USE_AMXRT=OFF`): `main` fills a table and starts libmicrohttpd, whose thread
then calls one function for each step of each request.

What is hard, and what should hold:

* *execution units*: handler and workers interleave on `processRunning` and
  `pid`; the pid appears only after attach; `waitpid` blocks the event loop;
  containers stop under a service. Status has to follow the process, no request
  may be lost, a service must not run twice, no child may be left unreaped;
* *environments*: every external command may fail, some failures end the daemon,
  which comes back from the last saved data model; removals are handled late and
  by name. Status has to follow Enable, and only removed environments may lose
  their container;
* *deployment units*: a sequence of a dozen file and LXC steps, each of which may
  fail or be the last, with a roll back, and a second process on the same files.
  Index, directories and the path of the container have to agree;
* *task queue*: lost wakeups, a list emptied and filled again, `stop` while tasks
  wait or add more tasks;
* *supervisor*: acts on readings that are a moment old, with two writes;
* *HTTP backend*: the bodies of all connections go through one static buffer that
  is neither cleared nor terminated; the table is read by another thread than the
  one that fills it. A request has to act on what its own body names, and to be
  answered;
* *map*: links on up to a hundred levels and a link back, mended by hand in `insert` and in
  two `erase`; loops erase under their own iterator;
* *the whole*: environments, deployment units and execution units are brought
  up by three signals, one inside the other; containers are restarted under
  running services; the daemon may be killed while its services live on.

`PROJECT.json` lists these hazards at their lines with the property that would
catch each of them.

## 2. Modules

| Module | Models | Checked by |
|---|---|---|
| `ExecUnit` | handlers of ExecutionUnit, `CProcess`, workers, children | `MCExecUnit`, proofs in `ExecUnitProofs` |
| `PatientExecUnit` | `ExecUnit` with a ghost: was the ACS ever hasty | `MCExecUnitOne`, proofs in `PatientProofs` |
| `FifoRunner` | abstract: what a task queue promises | through `LxcQueue` |
| `LxcQueue` | `LxcQueue` and its linked list; implements `FifoRunner` | itself, proofs in `LxcQueueProofs` |
| `ExecEnv` | handlers of ExecEnv, `LxcContainer::run`, respawn | `MCExecEnv`, proofs in `ExecEnvProofs` |
| `Supervisor` | `ExecEnv` composed with the Lua script | `MCSupervisor` |
| `System` | `Supervisor` composed with the units, their workers and services; a daemon that is killed | `MCSystem`, proofs in `SystemProofs` |
| `DeploymentUnits` | installation and removal by daemon and du-manager | `MCDeploymentUnits`, proofs in `DeploymentUnitsProofs` |
| `OrderedMap` | abstract: a dictionary in key order with an iterator | through `SkipListMap` |
| `SkipListMap` | `lxcd::map`; implements `OrderedMap` | `MCSkipListMap`, proofs in `SkipListMapProofs` |
| `RestListener` | the HTTP backend | `MCRestListener`, proofs in `RestListenerProofs` |

State and code:

* `ExecUnit`: `requested`, `status` are the parameters of an instance; `running`,
  `pid`, `home` the fields of the `CProcess` in `processMap`, which is keyed by
  the *name* of a unit; `wpc[t]` is where thread `t` is in
  `runCommandHelper`/`executeCommandInContainer`. A child is named by the worker
  that attached it, so `proc[t]` is its state and a pid is a thread or 0.
  `mpc`, `cur`, `todo`, `walk`, `victim` are the main thread: `Process(u)` is one
  call of `processExecutionUnitObject`, split where workers may run in between: after
  SIGTERM was sent (`killed`; `stop()` reads the pid again for `waitpid`), where it
  blocks (`stopping`) and before it copies `isRunning()` to Status (`report`). A pid
  that the kernel gives to another process once its child was reaped is not modelled.
* `LxcQueue`: one step per critical section boundary; `next`, `head`, `tail` are
  the pointers. `Contents` reads the list off the pointers, and the refinement
  maps it to `pending` of `FifoRunner`.
* `ExecEnv`: `mpc` is the step of `LxcContainer::run`; `handle` says whether the
  `lxc_container` is there, is null (`lxc_container_new` failed: a stop is an error and
  leaves Status "Error" although Enable is 0, a removal ends early, a start uses the null
  pointer), or was already freed by `updateFullRootPath` when `start()` and the destructor
  use it, which is undefined and modelled as "dies, or the memory still serves".
  An instance without Name or Type (outside `Complete`) is left as it is (`Begin`).
  Instances come from the RPC (`AddInstance`) or straight from the bus (`BusAdd`), of
  which no handler hears; the ghost `unheard` holds the latter until a handler is told of
  them. Names may be shared and used again; the ghost `clash` holds the names that were
  given to an instance while another one had them or its removal was still queued.
  `saved` is the odl file. `ExecEnv` takes `updateFullRootPath` as
  "reload, stop, start, or fail"; `DeploymentUnits` has its detail.
* `Supervisor` extends `ExecEnv`; the script's steps and the daemon's interleave.
  `wish` is a ghost: the last value the *user* wrote to Enable.
* `System` extends `Supervisor`. `Environment(A)` is a step `A` of the modules below
  with what it does to services: those whose container stops are gone. `chain` is
  the rest of the start-up walk: `app:start` (environments), then
  `lxcd:execenv-managed` (deployment units), then `lxcd:deploymentunit-managed`
  (`ExecutionUnitManage`). `flag` is `processRunning`; `worker` is the thread of a unit in
  four steps; `service[u]` holds the live processes of u, `"own"` or `"orphan"` (of an
  earlier daemon). The units here have AutoStart and nobody stops them; the bus
  requests on units, and threads in detail, are in `ExecUnit`. `UpdateContainer` is the
  restart that adding or removing a deployment unit causes. `Crash` is SIGKILL at any
  point: lxc's containers go on, so the attached services may or may not.
* `SkipListMap` (`alive` is false once the program read through a null pointer): a record with the forward links (an array per node, its levels are the
  domain), the link back, key and value, `_max` and `_size`; `it` is one iterator of a
  caller, `Dangling` after its node, or with `operator=` and `clear` every node, head and
  tail included, was freed. A freed node has no links, so a link that still leads there shows. A call is
  one step: no two threads share a map. `random_level` is any level.
* `RestListener`: `conn[c]` is the request of a connection and the pieces of its body
  still to come, `buffer` the two halves of the static buffer, for each of which it
  matters whose body and which part it holds: a short body (only a name) covers the
  first half, longer ones both. The buffer has 500 bytes and nobody compares: after a
  piece that does not fit (`fits`) the daemon is `"broken"` or dead, and `Undefined` lets
  it do anything. `Dispatch` searches as the code does, for the path first and then for the
  method among that path's entries only. `Parsed` is what json-c may make of it. Containers are
  what `LxcContainer::run` does to `defined` and `mounted`, with failures as in `ExecEnv`.
* `DeploymentUnits`: a process is `op`, `pc`, the local variables and `mem`, the
  map it loaded. `index` is the file, `torn` between `open(O_TRUNC)` and a
  complete `write`; `units` then still remembers the last complete content, for
  the properties. `temp` is `/tmp/tr157-du`, `content` says whose files an image
  or directory holds. The results of `create_directories`, `copy_file`, `opendir`,
  `remove_directory`, `mount` and `remove` are not looked at by the code: each may fail
  unnoticed. `reported`, `removed` and `unmade` (units that entered the map without their
  directory) are ghosts.

Definitions whose comment begins with "Slip" are not part of any specification.
Each is a mistake in the code that one of the checked properties finds: they show
that the property can fail.

What is assumed of the world outside: writing and emitting on the bus behaves as
said above; `lxc-stop -k` kills what runs in a container; a container does not
start when a directory of its path is missing; SIGTERM ends a command (`Terminate`,
a fairness assumption). Strings, formatting, logging and JSON text are abstracted:
names are model values and a file is complete or not.

## 3. Runs

`runs` in `PROJECT.json`. Each finishes within three minutes on two workers.

| Run | Instance | Shows |
|---|---|---|
| `ExecUnitOne` | 1 unit, 3 threads in its life, 2 writes queued, impatient ACS | `StatusTruth`, `RequestHandled` and the inductive invariant `RequestInv`; for a patient ACS `IdleMeansStopped`, `SingleInstance`, `ChildWatched` |
| `ExecUnitLive` | 2 units and the unnamed template, 2 threads | `IdleTakesEffect`, `StartRetried` under fairness |
| `ExecUnitStopRace` | 1 unit, impatient | *violated* `IdleMeansStopped` |
| `ExecUnitRestart` | 1 unit, nothing fails | *violated* `Restarted` |
| `LxcQueueOne` | 3 tasks, 2 clients, 1 worker | no lost wakeup, list sound, FIFO refinement, tasks run, stop ends |
| `ExecEnvTwo` | 3 instances: two share a name, of which one has an overlay; one has no Type; 1 respawn | `StatusFollowsEnable`, `UpMeansRunning`, `DestroysOnlyRemoved`, two liveness properties |
| `System` | 1 environment, 1 unit, the script, 1 crash or respawn | `OneInstance`, `AutoStarted`, `SelfHealing` |
| `SupervisorDisable` | 1 environment and the script | *violated* `DisableHolds` |
| `DeploymentUnits` | 1 image and 1 package unit, every command fails, crashes, reboots | `IndexedStored`, `NothingLost`, `OnlyInstalled`, `ConfigMatchesIndex` |
| `DeploymentUnitsRollback` | the same | *violated* `InstalledListed` |
| `SkipListMap` | 3 keys, levels 0 to 2, 2 values, fills from 3 other maps | `LevelsSound`, `BackLinks`, refinement of `OrderedMap` |
| `RestListener` | 2 connections, 2 containers, 9 routes, 11 requests, one of them longer than the buffer | `ActsOnItsBody`, `RefusedOnlyUnknown`, `Answered` |

Bounds and why they are enough.

* `MaxThreads`: `runAsync` leaks a thread per start, so a life of the daemon has
  finitely many; three let a start meet an old worker that still waits and an even
  older one that calls back, and the limit itself (`pthread_create` fails) is
  reached. `MaxEvents` bounds only what the bus adds; call backs are never
  refused. Two queued writes contradict each other, a third repeats one of them.
* One unit is enough where names are unique, since units share only the main
  thread; `ExecUnitLive` has two to let one unit's `waitpid` hold up another.
  The proofs hold for any number.
* `LxcQueue`: three tasks give a list with an inner node that is emptied
  and filled again; two clients and the worker's own calls give every
  overlap of `addTask` and `stop`.
* `MaxRespawns` is `respawn_retry` of `lxcd.init`, 1 instead of the five there: one
  crash and the state after it.
* Two deployment units: one installed or left behind, one being worked on.
* `SkipListMap`: three keys give a first, an inner and a last node; three levels give
  a search that starts above a node, at it and below it. `Levels` is 2 for the 100 of
  the code (`_LEVELS`): a level is treated like the next one.
* `RestListener`: two connections, as two bodies suffice to mix; each handler has a
  request, of each shape that the buffer tells apart.
* `ExecEnvTwo`: two instances of one name are what removal by name can confuse. The
  instance without a Type stays in the data model, enabled (`SmallSpec`).
* `DeploymentUnits` leaves the ghost `reported` and `mounted` out of the states TLC
  compares (`VIEW`): no step reads them, and of the five properties only `TypeOK` reads
  `mounted` (`TypeCorrect` proves it for every state). `DeploymentUnitsRollback`, whose
  property reads `reported`, has no view.
* `System`: one environment, one unit. `SelfHealing` does not rest on that: in `Supervisor`
  alone TLC finds no error with two environments either. Units share nothing but the main thread, which
  `ExecUnitLive` covers, and their container, which a unit only reads. One death
  of the daemon, at any point, from any state of the file.

Named assumptions of single runs (constants, so that a reader can drop them):

* `Patient`: the ACS does not write to a unit whose worker has not attached yet.
  Without it `IdleMeansStopped` fails (`ExecUnitStopRace`) and so does
  `SingleInstance`: a stop in that window kills nothing, and a start after it
  runs a second command beside the first. In `PatientExecUnit` the ghost `hasty` marks
  the behaviours in which it did, so that one run checks both.
* `NamesUnique`, in `ExecUnit` and for `OneInstance`: `processMap` is keyed by the bare
  name. Two units of one name, in whatever environments, share a process and its
  container, and `StatusTruth` fails. `ExecEnv` does without it: its properties say of
  each name whether it was given away too early (`clash`).
* `Mortal`, the containers that may end by themselves, is empty in `ExecEnvTwo`, for
  `UpMeansRunning` does not speak of them: nothing lowers Status
  when a container ends by itself. `odlActionReadEeStatus` (`amxhandler.cpp:548`)
  would compute it, but no odl file binds it. In `System` the only
  container is mortal.
* `Healthy` in `MCSupervisor`, `System` and `MCExecUnit`: commands succeed, so that
  the liveness question is about the protocol; in `System` a container that is not mounted
  is still not unmounted, which ends the daemon, and an overlay that was mounted is
  followed by the restart of its container. It is an assumption on what the
  commands answer, not on scheduling.
* `Solo`: du-manager does not run while the daemon is in an operation, nor the
  other way round. Nothing in the code ensures it: with `Solo = FALSE`, and no
  fault at all, TLC finds that the second of two installations wipes the first from
  the index (`NothingLost`), and that a removed unit comes back (`OnlyInstalled`).
  A UUID is not used twice (du-manager's `-u` could).

Fairness. The main thread and the workers are ordinary threads: weak fairness of
their next step. `LxcQueue` needs strong fairness for taking a mutex that others
take and release again. `Respawn` is fair because procd's job is to restart, until
its limit; liveness properties name a daemon that it has given up on (`GivenUp`). In
`Supervisor` the bus calls are strongly fair: the script repeats
them, and the daemon is only now and then between two events. The script reads whatever
events the daemon has pending, so `SelfHealing` needs a premise, `Prompt`: now and then the
daemon has nothing left to do while the script sleeps its second. Without it a daemon that
is always behind may be told Enable=0 again before it comes to Enable=1. Strongly fair, too, is the handling of a unit's
event in `System`. libmicrohttpd goes round its ready connections, so `Dispatch` is
strongly fair in `RestListener`. No
fairness is put on the ACS, users, clients, on a command that ends by
itself, on containers or on spurious wakeups.

`CHECK_DEADLOCK FALSE` everywhere: with the bounds used up, the queue closed, or
procd having given up, the systems may stop.

What the violations show (`findings` quotes the lines that say otherwise):

1. A stop between `runAsync` and attach: Status Idle, and the command runs.
2. AutoStart units are not started after their environment restarted: nobody
   raises `ContainerStart`, and their flag is still set. The cause is that nothing
   clears `processRunning` after `waitpid` (`linux.h:375`): a service that ends by
   itself stays "Active" as well, and a later request is answered with "already
   active".
3. The supervisor's toggle overwrites a user's Enable=0 for good.
4. An installation that was given up (a bad name, a failed package, a roll back)
   is reported as a success: the callers test the name only.

Smaller observations met while modelling: packages that a failed installation left
in `tempDir` are installed with the next unit (`IndexedStored` speaks of images
only for that reason); a removal puts the directory it is about to delete back
into `lxc.rootfs.path`; `mount()` has no caller, so images are not mounted
after a reboot; every write to an enabled environment with an overlay restarts its
container; `destroy()` ends the daemon for a container without overlay; after
two calls of `LxcQueue::start` a single `stop` wakes only one worker, for which reason
`StopSeen` is checked for one.

Of `System`: `OneInstance` holds although nothing looks for services of the daemon
before, because the walk over the environments restarts the container of every
instance with an overlay, enabled ones included that run already. `AutoStarted` says that
a unit gets to run or is tried again and again, and names
the two failures that lose a start: `AttachLost`, an attach that fails, because the container
went down after the check or for any other reason, and leaves the flag set; and `Dropped`, a
`pthread_create` that fails, after which nothing follows. The units of a package that is installed while the daemon runs
start at the next start of the daemon only, since nobody handles their
`dm:instance-added`.

Of `ExecEnv`: a disabled environment can show "Error" (null handle). An environment that
is added on the bus is not started by the daemon before its next start, only by a write
or by the script. One whose name was taken over from an instance that is still to be
removed loses its container to that removal.

Of `SkipListMap`: `erase(key)` of an absent key behind the last one reads the value
of the tail, which is NULL (`map.h:415`); `JsonValue::remove` (`json.cpp:139`) passes any
key. `EraseKey` ends the program there, and `OrderedMap` promises no more. `clear` tests
a variable before it sets it, and may leak its nodes. The postfix `--` of a reverse
iterator moves like its `++`, so it is a `Decrement`; nobody uses it.

Of `RestListener`: a piece of more than 500 bytes is written past the buffer
(`httphandler.cpp:93`, `:102`), and nothing is promised from then on. `ActsOnItsBody` is
limited to bodies that come in one piece of known length, which libmicrohttpd dispatches right after that piece. Of a body in two
pieces the buffer keeps the second over the first, and the request of a body of
unknown length is dispatched after other connections wrote to the buffer: dropping
either condition makes TLC find a request that acts on another's container. A missing
member of a body is a null pointer and ends the daemon. A port that is taken leaves
a daemon that serves nothing (`deaf`), without an error.

## 4. Proofs

All proofs hold for every value of the constants that satisfies the named `ASSUME`
of the module (`ConstantsAssumption`, `QueueAssumption`,
`EnvAssumption`, `SystemAssumption`, `UnitsAssumption`, `RestAssumption`,
`MapAssumption`): any number of units, services, threads, tasks, clients, connections,
keys and levels of a map. `MapAssumption` asks that the keys be finitely many, as the
values of a type are, and that the allocator can give each key a node.

`ExecUnitProofs`

* `TypeCorrect`: `Spec => []TypeOK`. `TypeOK` is inductive because it includes
  `CreatedOK`: the first `spawned` threads belong to a named unit and the others
  have done nothing, so every pid belongs to a thread that exists.
* `StatusTruthHolds`, under `NamesUnique`: Status of a settled unit is the flag.
  `StatusOf(u)` is inductive with `TypeOK`: a step that changes the flag of u's
  service is the main thread's (then `cur = u`, not settled) or a worker's
  failing check (then that worker calls back, not settled), and `Report`, which
  unsettles nothing, copies the flag. Uniqueness of names says that no step on
  *another* unit changes it.
* `RequestHandledHolds`, under `NamesUnique`. `RequestHandled` is not inductive: when
  `Report` settles a unit one has to know already that the flag is as requested.
  `RequestInv` says so for the unit being processed, and that a unit being
  stopped is one that should be idle (`RequestInvHolds`; checked by `ExecUnitOne` as well).

`PatientProofs`, under `NamesUnique`, while the ACS was not hasty

* `PatientIdleMeansStoppedHolds`, `PatientSingleInstanceHolds` and
  `PatientChildWatchedHolds` come from one inductive invariant, `AttachInv`, checked by
  TLC before. `ChildInv`: a child that is not reaped belongs to a set flag, is the one
  `stop()` would kill, and its own worker waits for it. `OnWayInv`: a worker between
  `runAsync` and attach is the only one of its service and was asked for; this is where
  patience is needed, since a write to its unit breaks it. `StopInv`: the pid that
  `stop()` waits for is still that of the process while the main thread is blocked;
  `OnWayInv` says as well that nobody is about to replace it between SIGTERM and `waitpid`.
  `PidInv`: a pid is that of a child that was attached, so a pid left over from an
  earlier start does not point at a worker that has yet to attach.
* Services that ended leave their flag set (finding 2), so `ChildInv` goes one way only:
  a flag does not mean a child.

`LxcQueueProofs`

* `TypeCorrect`.
* `MutexHolds`: `MutexInv` needs `CallsFromTask` (a worker calls the queue only
  from inside a task), or a worker could be in two sections.
* `TaskSeenHolds`, for any number of workers: a worker that goes to sleep or ends
  found the list empty, and who fills it has the signal still to send;
  `CallerAttends` and `WorkerAttends` say that all other steps keep somebody
  attending.
* `StopSeenHolds`, for one worker: with two it does not hold.
* `ListHolds` and `RunsInOrderHolds` (the refinement of `FifoRunner`, step by step), for
  a list of any length. The invariant, `ListInv`, is that there *is* a sequence of tasks
  that the pointers spell out (`IsList`; nodes outside it have no link, which `enqueue`
  needs because it does not clear the link of a new node), and that each task is in one
  place: with the caller that adds it, in the list, or taken (`PlacesOk`; it was checked by
  TLC before, with two workers). `EnqueueList` appends to the sequence, `DequeueList` takes
  its head off. `Node` is defined by recursion, so `ContentsIs` needs two things more:
  that its recursion has a solution (`NodeExists`, which a list provides) and what the
  solution is (`NodeIs`, by induction; the induction principle of the library takes an
  operator, so `NatInd` says it of sets and is proved from the well-foundedness of `<`).

`ExecEnvProofs`

* `TypeCorrect`.
* `StatusFollowsEnableHolds`. The strengthening is `RunInv` (the branch of `run()`
  under way follows Enable, only an enabling may fail, what is destroyed is not in
  the data model), `GoneInv` (a queued removal is of an instance that
  was there and is gone) and `BlankInv` (an instance without Name or Type is never started). The lemma `SettledBy` carries the argument: an
  instance becomes settled by the report of its own handler and in no other way,
  a restart of the daemon included, because the restart queues `app:start`.
* `DestroysOnlyRemovedHolds`, for any names, shared ones too: a step that forgets a container is
  the end of a destroy (`ForgetsBy`), whose instance is gone by `RunInv`; if another one in
  the data model has its name, `ClashInv` says that the name is in `clash`.
* `UpMeansRunningHolds`, for any names: `StartedInv` (a report of success
  knows a running container), `SettledBy`, and `StopsBy`, which lists
  the steps that stop a container.

`DeploymentUnitsProofs`

* `TypeCorrect`. `TypeOK` says which steps an operation has (`StepsOf`), so that a
  step knows its operation (`PcOp`), its unit and its container.
* `NothingLostHolds` and `OnlyInstalledHolds`, under `Solo`, for any number of units
  and environments, with failures, deaths, torn files and reboots. Neither is
  about one step only: a write replaces the whole index by a map read long
  before. `MapInv` relates the two at every step of the operation (the map
  is the index, give or take the unit of the operation, unless the file was torn when it
  was read), and `IndexStep` says that nothing but a write changes the units.
* `IndexedStoredHolds` and `ConfigMatchesIndexHolds`, under `Solo`. `FilesInv` follows an
  operation through its steps: the units of its map have their directories, unless a
  directory could not be made when the unit entered the map (`unmade`), an image is
  copied from a `tempDir` without another one (`meta`, `copy`), the map is the index from
  the save on (`Updating`), and the path is the one of the map from the config on.

`SystemProofs`

* `SysTypeCorrect`. `SysTypeOK` also says that a worker attaches or waits while the flag
  of its service is set, and that services are in containers that run.
* `OneInstanceHolds`, under `NamesUnique` and `Healthy`: no start finds a service of an
  earlier daemon. Nothing in the code looks for one, so the proof is about the walk over
  the environments that each start of the daemon begins with. `StartInv`: this walk is the
  daemon's first event, comes once, and no unit is started before it is over. `ClearInv`:
  in the containers with an overlay that the walk has left behind no orphan is left; an
  event of an instance that is added later cannot break it, since by `KnownInv` lxc knows
  no container of an instance that never was (`UnbornDown`). `CutServices` says what a step
  of the environments does to services.

`RestListenerProofs`

* `TypeCorrect`.
* `ActsOnItsBodyHolds`, for any connections, bodies and requests, until the daemon is broken
  by a piece longer than the buffer. `BodyInv`: from its one
  piece until it is dispatched, the request of a connection of known length has its body
  in the buffer. A step of another connection keeps it because libmicrohttpd goes on with
  a request whose end it knows of before any other (`Turn`). `HoldsParsed` says that such a
  buffer is read as that body, `HandleOnly` what the handlers do with it.
* `RefusedOnlyUnknownHolds`, for any table of routes with distinct keys and one spelling of
  each path (with two, the code looks for the method under the first only). `RegInv`: the
  handlers are those of the first routes, and of all of them once the daemon listens; so a
  request with a route reaches its handler (`RouteOnly`), and of the handlers
  only one returns no status (`HandleCloses`).

`SkipListMapProofs`, for any keys, values and number of levels

* `TypeCorrect`, `LevelsSoundHolds`, `BackLinksHolds`. `MapInv` is their conjunction:
  a `Good` map, and the iterator on one of its nodes, at an end, or dangling. It is inductive because `Sound`
  says of each link by itself where it leads, to the nearest node behind on its level
  (`Nearest`). The searches are recursive functions: `WalkSolved` and `UpdatedSolved` show
  that their recursions have a solution, `WalkIs` and `UpdatedIs` what it is, by
  induction: on every level the last node under the key. From there `InsertGood` and
  `EraseGood` go link by link; `LinkToIt` and `OnlyLink` say that the link of that last node
  is the one, and the only one, to the node that erase frees. `FreeNode` finds the
  new node an address: keys are distinct, so there are never more nodes than keys.
* `ImplementsOrderedMapHolds`, one lemma per action. `ContentsAre` reads the dictionary off
  the nodes, `InsertedContents`, `ErasedContents` and `InsertedAllGood` (induction over
  the keys of the other map) follow it through a change, `FollowingIs` and
  `PrecedingIs` say that a link forward or back is the next key up or down.

Only model-checked: liveness (out of TLAPS's reach; all of `Supervisor` is about it).

## 5. Not modelled

* HTTP backend: the pipe listener (commented out in `main`) and the handlers of
  execution units (not registered). The functions that list are one step, since they
  change nothing; `parse_lxcd_info` is not in the repository.
* Library: vector, string and `SharedPtr`, sequential data structures. Interleaving
  would matter for `SharedPtr` (non-atomic count), which no two threads share today.
  The JSON parser and UUIDs are conversions.
* Several units or environments in `System`, and installations in detail there
  (`DeploymentUnits` has them): the product is beyond an exhaustive check.
* `du-manager --ls`, the JSON of the index, downloads: no state.
* RESET and RECONFIGURE of `LxcContainer::run`: no caller requests them.
  `isFinished` and the destructor of `LxcQueue`: no caller.
* Renaming an instance (Name is writable), which leaves the old container behind; with it
  the supervisor's naming of an instance that has no name.
* The reuse of a pid by the kernel.

## 6. Plan

1. `ExecUnit`, `LxcQueue`/`FifoRunner`, `ExecEnv`, `Supervisor`,
   `DeploymentUnits` with their proofs (done).
2. `System`, `SkipListMap`/`OrderedMap`, `RestListener` (done).
3. The patient case of `ExecUnit`, `OneInstance` of `System`, `IndexedStored` and
   `ConfigMatchesIndex` of `DeploymentUnits`, the refinement of `FifoRunner` with the list as
   a sequence, and `SkipListMap` with the refinement of `OrderedMap`, proved (done).
4. The JSON parser as a recursive function against a grammar, `vector` and `string`.

## 7. Running

`tlc -config <run>.cfg <module>` for a run, `tlapm <module>` for the proofs.
