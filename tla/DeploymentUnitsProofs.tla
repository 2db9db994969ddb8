----------------------- MODULE DeploymentUnitsProofs ------------------------
(* Proofs about DeploymentUnits for any units and environments, with or     *)
(* without faults.                                                          *)
EXTENDS DeploymentUnits, TLAPS

(* The constants, in the form the steps use them. *)
LEMMA UnitFacts ==
  /\ NoDu \notin Dus /\ NoEnv \notin Envs /\ Daemon # Cli
  /\ Daemon \in Procs /\ Cli \in Procs
  /\ \A d \in Dus : envOf[d] \in Envs
BY UnitsAssumption DEF Procs

(* The steps an operation has. *)
LEMMA StepFacts ==
  /\ StepsOf["none"] = {"idle"} /\ StepsOf["prepare"] = Updating
  /\ StepsOf["install"] = {"extract", "meta", "copy", "clean", "mount"} \cup Saving \cup Updating
  /\ StepsOf["remove"] = Updating \cup {"duRemove"} \cup Saving
  /\ StepsOf["rollback"] = Updating \cup {"duRemove"} \cup Saving
BY DEF StepsOf

(* Where a process is tells what it is doing. *)
LEMMA PcOp ==
  ASSUME TypeOK, NEW p \in Procs
  PROVE  /\ pc[p] = "idle" <=> op[p] = "none"
         /\ pc[p] \in {"extract", "meta", "copy", "clean", "mount"} => op[p] = "install"
         /\ pc[p] \in Saving => op[p] \in {"install", "remove", "rollback"}
         /\ pc[p] = "duRemove" => op[p] \in {"remove", "rollback"}
         /\ op[p] # "none" => env[p] \in Envs
         /\ op[p] \in {"install", "remove", "rollback"} => arg[p] \in used
<1>1. op[p] \in Ops /\ pc[p] \in StepsOf[op[p]] /\ arg[p] \in used \cup {NoDu}
  BY DEF TypeOK
<1>2. /\ op[p] # "none" => env[p] \in Envs
      /\ op[p] \in {"install", "remove", "rollback"} => arg[p] \in used
  BY <1>1 DEF TypeOK
<1> QED
  BY <1>1, <1>2, StepFacts DEF Ops, Updating, Saving

-----------------------------------------------------------------------------
(* Types.                                                                  *)

(* The types of what only one process has, and of what all share. *)
ProcType(p) ==
  /\ op[p] \in Ops /\ pc[p] \in Pcs /\ pc[p] \in StepsOf[op[p]]
  /\ arg[p] \in used \cup {NoDu} /\ env[p] \in Envs \cup {NoEnv}
  /\ mem[p] \subseteq used /\ blind[p] \in BOOLEAN /\ old[p] \subseteq used
  /\ op[p] \in {"install", "remove", "rollback"} => arg[p] # NoDu
  /\ op[p] # "none" => env[p] \in Envs
ProcShape ==
  /\ op \in [Procs -> Ops] /\ pc \in [Procs -> Pcs]
  /\ arg \in [Procs -> used \cup {NoDu}] /\ env \in [Procs -> Envs \cup {NoEnv}]
  /\ mem \in [Procs -> SUBSET used] /\ blind \in [Procs -> BOOLEAN]
  /\ old \in [Procs -> SUBSET used]
ProcTypes == ProcShape /\ \A p \in Procs : ProcType(p)
DataType ==
  /\ index \in [torn : BOOLEAN, units : SUBSET used] /\ used \subseteq Dus
  /\ temp \subseteq used /\ stored \subseteq used /\ removed \cup unmade \subseteq used
  /\ content \in [Dus -> SUBSET used] /\ mounted \subseteq used \ Ipk
  /\ config \in [Envs -> SUBSET used] /\ running \subseteq Envs
DmType == dm \subseteq used /\ saved \subseteq used /\ removals \subseteq used
          /\ reported \subseteq used

(* TypeOK is these three. *)
LEMMA TypeParts == TypeOK => ProcTypes /\ DataType /\ DmType
BY DEF TypeOK, ProcTypes, ProcShape, ProcType, DataType, DmType
LEMMA TypePartsNext == ProcTypes' /\ DataType' /\ DmType' => TypeOK'
BY DEF TypeOK, ProcTypes, ProcShape, ProcType, DataType, DmType

(* The end of an operation keeps the types of the process. *)
LEMMA ClearType ==
  ASSUME ProcTypes, NEW p \in Procs, Clear(p), used' = used
  PROVE  ProcTypes'
<1>1. ProcShape'
  BY DEF ProcTypes, ProcShape, Clear, Goto, Ops, Pcs
<1>2. ASSUME NEW q \in Procs PROVE ProcType(q)'
  BY ZenonT(40), StepFacts DEF ProcTypes, ProcShape, ProcType, Clear, Goto, Ops, Pcs
<1> QED
  BY <1>1, <1>2 DEF ProcTypes

(* So does a return, which may add the unit to what was reported. *)
LEMMA ReturnType ==
  ASSUME ProcTypes, DmType, NEW p \in Procs, NEW b \in BOOLEAN, Return(p, b),
         b => arg[p] # NoDu, used' = used
  PROVE  ProcTypes' /\ DmType'
<1>1. ProcTypes'
  BY ClearType DEF Return
<1>2. b => arg[p] \in used
  BY DEF ProcTypes, ProcShape
<1> QED
  BY <1>1, <1>2 DEF Return, DmType

(* And a step to a place the operation has. *)
LEMMA GotoType ==
  ASSUME ProcTypes, NEW p \in Procs, NEW l \in Pcs, Goto(p, l), l \in StepsOf[op[p]],
         mem' \in [Procs -> SUBSET used], old' \in [Procs -> SUBSET used],
         UNCHANGED <<op, arg, env, blind, used>>
  PROVE  ProcTypes'
<1>1. ProcShape'
  BY DEF ProcTypes, ProcShape, Goto
<1>2. ASSUME NEW q \in Procs PROVE ProcType(q)'
  BY DEF ProcTypes, ProcShape, ProcType, Goto
<1> QED
  BY <1>1, <1>2 DEF ProcTypes
LEMMA StepType ==
  ASSUME ProcTypes, NEW p \in Procs, NEW l \in Pcs, Step(p, l), l \in StepsOf[op[p]],
         used' = used
  PROVE  ProcTypes'
BY GotoType DEF Step, ProcTypes, ProcShape

(* And the beginning of an operation. *)
LEMMA BeginType ==
  ASSUME ProcTypes, DataType, NEW p \in Procs, NEW o \in Ops \ {"none"},
         NEW l \in Pcs, l \in StepsOf[o], NEW d \in used' \cup {NoDu},
         o # "prepare" => d # NoDu, NEW e \in Envs, Begin(p, o, d, e, l),
         used \subseteq used'
  PROVE  ProcTypes'
<1>1. loadCache \subseteq used
  BY DEF loadCache, DataType
<1>2. index.torn \in BOOLEAN
  BY DEF DataType
<1>3. ProcShape'
  BY <1>1, <1>2 DEF ProcTypes, ProcShape, Begin, Goto
<1>4. ASSUME NEW q \in Procs PROVE ProcType(q)'
  BY <1>1, <1>2 DEF ProcTypes, ProcShape, ProcType, Begin, Goto
<1> QED
  BY <1>3, <1>4 DEF ProcTypes

(* The roll back is an operation that may begin during an installation. *)
LEMMA RollBackType ==
  ASSUME ProcTypes, DmType, NEW p \in Procs, RollBack(p), op[p] = "install", used' = used
  PROVE  ProcTypes' /\ DmType'
<1>1. arg[p] # NoDu /\ env[p] \in Envs
  BY DEF ProcTypes, ProcType
<1>2. CASE Return(p, TRUE)
  BY <1>1, <1>2, ReturnType
<1>3. CASE Goto(p, "config") /\ op' = [op EXCEPT ![p] = "rollback"]
           /\ UNCHANGED <<arg, env, mem, blind, old, dmVars>>
  <2>1. ProcShape' /\ DmType'
    BY <1>3 DEF ProcTypes, ProcShape, Goto, Ops, Pcs, DmType, dmVars
  <2>2. ASSUME NEW q \in Procs PROVE ProcType(q)'
    BY <1>1, <1>3, StepFacts DEF ProcTypes, ProcShape, ProcType, Goto, Ops, Pcs, Updating
  <2> QED
    BY <2>1, <2>2 DEF ProcTypes
<1> QED
  BY <1>2, <1>3 DEF RollBack

(* And what follows an update of the path, for better or worse. *)
LEMMA UpdatedType ==
  ASSUME TypeOK, NEW p \in Procs, Updated(p) \/ NotUpdated(p), pc[p] \in Updating,
         used' = used
  PROVE  ProcTypes' /\ DmType'
<1>0. ProcTypes /\ DmType /\ op[p] # "none" /\ op[p] \in Ops
  BY TypeParts, PcOp DEF Updating, TypeOK
<1>1. CASE op[p] = "install"
  <2>1. Return(p, TRUE) \/ RollBack(p)
    BY <1>1 DEF Updated, NotUpdated
  <2> QED
    BY <1>0, <1>1, <2>1, ReturnType, RollBackType DEF ProcTypes, ProcType
<1>2. CASE op[p] = "prepare"
  <2>1. Return(p, FALSE)
    BY <1>2 DEF Updated, NotUpdated
  <2> QED
    BY <1>0, <2>1, ReturnType
<1>3. CASE op[p] \in {"remove", "rollback"}
  <2>1. Step(p, "duRemove") /\ UNCHANGED dmVars
    BY <1>3 DEF Updated, NotUpdated
  <2>2. "duRemove" \in Pcs /\ "duRemove" \in StepsOf[op[p]]
    BY <1>3, StepFacts DEF Pcs
  <2> QED
    BY <1>0, <2>1, <2>2, StepType DEF DmType, dmVars
<1> QED
  BY <1>0, <1>1, <1>2, <1>3 DEF Ops

(* The steps of an installation up to the insertion into the map. *)
LEMMA InstallStepsType ==
  ASSUME TypeOK, NEW p \in Procs,
         Extract(p) \/ ReadMeta(p) \/ Copy(p) \/ Clean(p) \/ Mount(p)
  PROVE  TypeOK'
<1>0. ProcTypes /\ DataType /\ DmType
  BY TypeParts
<1>1. op[p] = "install" /\ arg[p] \in used /\ arg[p] # NoDu
  BY PcOp, UnitFacts DEF Extract, ReadMeta, Copy, Clean, Mount, At, TypeOK
<1>2. \A l \in {"extract", "meta", "copy", "clean", "mount", "open"} :
        l \in Pcs /\ l \in StepsOf[op[p]]
  BY <1>1, StepFacts DEF Pcs, Saving
<1>3. CASE Extract(p)
  <2>1. DataType'
    BY <1>0, <1>1, <1>3 DEF Extract, Unpacked, DataType, lxcVars
  <2>2. ProcTypes' /\ DmType'
    <3>1. CASE Step(p, "meta") /\ UNCHANGED dmVars
      BY <1>0, <1>2, <1>3, <3>1, StepType DEF Extract, DmType, dmVars
    <3>2. CASE Return(p, FALSE)
      BY <1>0, <1>3, <3>2, ReturnType DEF Extract
    <3> QED
      BY <1>3, <3>1, <3>2 DEF Extract
  <2> QED
    BY <2>1, <2>2, TypePartsNext
<1>4. CASE ReadMeta(p)
  <2>1. DataType'
    BY <1>0, <1>4 DEF ReadMeta, DataType, lxcVars, fileVars
  <2>2. ProcTypes' /\ DmType'
    <3>1. CASE Step(p, "copy") /\ UNCHANGED dmVars
      BY <1>0, <1>2, <1>4, <3>1, StepType DEF ReadMeta, DmType, dmVars
    <3>2. CASE Return(p, FALSE) \/ Return(p, TRUE)
      BY <1>0, <1>1, <1>4, <3>2, ReturnType DEF ReadMeta
    <3> QED
      BY <1>4, <3>1, <3>2 DEF ReadMeta
  <2> QED
    BY <2>1, <2>2, TypePartsNext
<1>5. CASE Copy(p)
  <2>1. DataType'
    <3>1. Fetched(arg[p]) \subseteq used
      BY <1>0 DEF Fetched, DataType
    <3>2. content' = content \/ content' = [content EXCEPT ![arg[p]] = Fetched(arg[p])]
      BY <1>5 DEF Copy
    <3>3. content' \in [Dus -> SUBSET used]
      BY <1>0, <3>1, <3>2 DEF DataType
    <3> QED
      BY <1>0, <1>1, <1>5, <3>3 DEF Copy, CreateDirectories, DataType, lxcVars
  <2>2. ProcTypes' /\ DmType'
    <3>1. CASE Step(p, "clean") /\ UNCHANGED dmVars
      BY <1>0, <1>2, <1>5, <3>1, StepType DEF Copy, DmType, dmVars
    <3>2. CASE Return(p, TRUE)
      BY <1>0, <1>1, <1>5, <3>2, ReturnType DEF Copy
    <3> QED
      BY <1>5, <3>1, <3>2 DEF Copy
  <2> QED
    BY <2>1, <2>2, TypePartsNext
<1>6. CASE Clean(p)
  <2>1. DataType' /\ DmType'
    BY <1>0, <1>6 DEF Clean, DataType, DmType, lxcVars, dmVars
  <2>2. ProcTypes'
    BY <1>0, <1>2, <1>6, StepType DEF Clean
  <2> QED
    BY <2>1, <2>2, TypePartsNext
<1>7. CASE Mount(p)
  <2>1. DataType' /\ DmType'
    BY <1>0, <1>1, <1>7 DEF Mount, CreateDirectories, DataType, DmType, lxcVars, dmVars
  <2>2. mem' \in [Procs -> SUBSET used] /\ old' \in [Procs -> SUBSET used]
    BY <1>0, <1>1, <1>7 DEF Mount, ProcTypes, ProcShape
  <2>3. ProcTypes'
    BY <1>0, <1>2, <1>7, <2>2, GotoType DEF Mount
  <2> QED
    BY <2>1, <2>3, TypePartsNext
<1> QED
  BY <1>3, <1>4, <1>5, <1>6, <1>7

(* A save that failed. *)
LEMMA SaveFailedType ==
  ASSUME TypeOK, NEW p \in Procs, pc[p] \in Saving, SaveFailed(p), used' = used
  PROVE  ProcTypes' /\ DmType'
<1>0. ProcTypes /\ DmType /\ arg[p] # NoDu
  BY TypeParts, PcOp, UnitFacts DEF TypeOK
<1>1. CASE op[p] = "install"
  BY <1>0, <1>1, RollBackType DEF SaveFailed
<1>2. CASE op[p] # "install"
  <2>1. Return(p, op[p] = "rollback")
    BY <1>2 DEF SaveFailed
  <2> QED
    BY <1>0, <2>1, ReturnType
<1> QED
  BY <1>1, <1>2

(* The save, and the removal of the files. *)
LEMMA SaveStepsType ==
  ASSUME TypeOK, NEW p \in Procs, SaveOpen(p) \/ SaveWrite(p) \/ DuRemove(p)
  PROVE  TypeOK'
<1>0. ProcTypes /\ DataType /\ DmType
  BY TypeParts
<1>1. pc[p] \in Saving \cup {"duRemove"}
  BY DEF SaveOpen, SaveWrite, DuRemove, At, Saving
<1>2. op[p] \in {"install", "remove", "rollback"} /\ arg[p] \in used /\ arg[p] # NoDu
  BY <1>1, PcOp, UnitFacts DEF TypeOK
<1>3. /\ "write" \in Pcs /\ "write" \in StepsOf[op[p]] /\ "open" \in Pcs
      /\ "open" \in StepsOf[op[p]]
      /\ "config" \in Pcs /\ "config" \in StepsOf[op[p]]
  BY <1>2, StepFacts DEF Pcs, Saving, Updating
<1>4. CASE SaveOpen(p)
  <2>1. DataType'
    <3>1. index' = index \/ index' = [index EXCEPT !.torn = TRUE]
      BY <1>4 DEF SaveOpen
    <3> QED
      BY <1>0, <1>4, <3>1 DEF SaveOpen, DataType, lxcVars, fileVars
  <2>2. ProcTypes' /\ DmType'
    <3>1. CASE Step(p, "write") /\ UNCHANGED dmVars
      BY <1>0, <1>3, <1>4, <3>1, StepType DEF SaveOpen, DmType, dmVars
    <3>2. CASE SaveFailed(p)
      BY <1>4, <3>2, SaveFailedType DEF SaveOpen, At, Saving
    <3> QED
      BY <1>4, <3>1, <3>2 DEF SaveOpen
  <2> QED
    BY <2>1, <2>2, TypePartsNext
<1>5. CASE SaveWrite(p)
  <2>1. DataType'
    <3>1. \/ index' = index \/ index' = [index EXCEPT !.torn = TRUE]
          \/ index' = [torn |-> FALSE, units |-> mem[p]]
      BY <1>5 DEF SaveWrite
    <3>2. mem[p] \subseteq used
      BY <1>0 DEF ProcTypes, ProcType
    <3>3. index' \in [torn : BOOLEAN, units : SUBSET used]
      <4>1. index \in [torn : BOOLEAN, units : SUBSET used]
        BY <1>0 DEF DataType
      <4>2. [torn |-> FALSE, units |-> mem[p]] \in [torn : BOOLEAN, units : SUBSET used]
        BY <3>2
      <4>3. [index EXCEPT !.torn = TRUE] \in [torn : BOOLEAN, units : SUBSET used]
        BY <4>1
      <4> QED
        BY <3>1, <4>1, <4>2, <4>3
    <3> QED
      BY <1>0, <1>5, <3>3 DEF SaveWrite, DataType, lxcVars, fileVars
  <2>2. ProcTypes' /\ DmType'
    <3>1. CASE Step(p, "config") /\ UNCHANGED dmVars
      BY <1>0, <1>3, <1>5, <3>1, StepType DEF SaveWrite, DmType, dmVars
    <3>2. CASE SaveFailed(p)
      BY <1>5, <3>2, SaveFailedType DEF SaveWrite, At, Saving
    <3>3. CASE Return(p, op[p] = "rollback")
      BY <1>0, <1>2, <1>5, <3>3, ReturnType DEF SaveWrite
    <3> QED
      BY <1>5, <3>1, <3>2, <3>3 DEF SaveWrite
  <2> QED
    BY <2>1, <2>2, TypePartsNext
<1>6. CASE DuRemove(p)
  <2>1. DataType' /\ DmType'
    <3>1. content' = content \/ content' = [content EXCEPT ![arg[p]] = {}]
      BY <1>6 DEF DuRemove, RemoveFiles
    <3>2. content' \in [Dus -> SUBSET used]
      BY <1>0, <3>1 DEF DataType
    <3> QED
      BY <1>0, <1>2, <1>6, <3>2 DEF DuRemove, RemoveFiles, DataType, DmType, lxcVars, dmVars
  <2>2. mem' \in [Procs -> SUBSET used] /\ old' \in [Procs -> SUBSET used]
    BY <1>0, <1>6 DEF DuRemove, ProcTypes, ProcShape
  <2>3. ProcTypes'
    BY <1>0, <1>3, <1>6, <2>2, GotoType DEF DuRemove
  <2> QED
    BY <2>1, <2>3, TypePartsNext
<1> QED
  BY <1>4, <1>5, <1>6

(* The update of the path and the restart of the container. *)
LEMMA UpdateStepsType ==
  ASSUME TypeOK, NEW p \in Procs,
         UpdateConfig(p) \/ StopContainer(p) \/ StartContainer(p) \/ Restore(p)
  PROVE  TypeOK'
<1>0. ProcTypes /\ DataType /\ DmType
  BY TypeParts
<1>1. pc[p] \in Updating
  BY DEF UpdateConfig, StopContainer, StartContainer, Restore, At, Updating
<1>2. op[p] \in Ops \ {"none"} /\ env[p] \in Envs
  BY <1>1, PcOp DEF TypeOK, Updating
<1>3. \A l \in Updating : l \in Pcs /\ l \in StepsOf[op[p]]
  BY <1>2, StepFacts DEF Pcs, Updating, Ops
<1>4. CASE UpdateConfig(p)
  <2>1. UnitsOf(mem[p], env[p]) \subseteq used /\ config[env[p]] \subseteq used
    BY <1>0, <1>2 DEF UnitsOf, ProcTypes, ProcType, DataType
  <2>2. DataType'
    <3>1. config' = config
          \/ config' = [config EXCEPT ![env[p]] = UnitsOf(mem[p], env[p])]
      BY <1>4 DEF UpdateConfig
    <3>2. config' \in [Envs -> SUBSET used]
      BY <1>0, <2>1, <3>1 DEF DataType
    <3> QED
      BY <1>0, <1>4, <3>2 DEF UpdateConfig, DataType, fileVars
  <2>3. ProcTypes' /\ DmType'
    <3>1. CASE /\ old' = [old EXCEPT ![p] = config[env[p]]]
               /\ Goto(p, "stop") /\ UNCHANGED <<op, arg, env, mem, blind, dmVars>>
      <4>1. mem' \in [Procs -> SUBSET used] /\ old' \in [Procs -> SUBSET used]
        BY <1>0, <2>1, <3>1 DEF ProcTypes, ProcShape
      <4>2. "stop" \in Pcs /\ "stop" \in StepsOf[op[p]]
        BY <1>3 DEF Updating
      <4> QED
        BY <1>0, <1>4, <3>1, <4>1, <4>2, GotoType DEF UpdateConfig, DmType, dmVars
    <3>2. CASE NotUpdated(p)
      BY <1>1, <1>4, <3>2, UpdatedType DEF UpdateConfig
    <3> QED
      BY <1>4, <3>1, <3>2 DEF UpdateConfig
  <2> QED
    BY <2>2, <2>3, TypePartsNext
<1>5. CASE StopContainer(p)
  <2>1. DataType' /\ DmType'
    BY <1>0, <1>5 DEF StopContainer, DataType, DmType, fileVars, dmVars
  <2>2. ProcTypes'
    <3>1. /\ "start" \in Pcs /\ "start" \in StepsOf[op[p]]
          /\ "restore" \in Pcs /\ "restore" \in StepsOf[op[p]]
      BY <1>3 DEF Updating
    <3> QED
      BY <1>0, <1>5, <3>1, StepType DEF StopContainer
  <2> QED
    BY <2>1, <2>2, TypePartsNext
<1>6. CASE StartContainer(p)
  <2>1. DataType'
    BY <1>0, <1>2, <1>6 DEF StartContainer, DataType, fileVars
  <2>2. ProcTypes' /\ DmType'
    <3>1. CASE Updated(p)
      BY <1>1, <1>6, <3>1, UpdatedType DEF StartContainer
    <3>2. CASE Step(p, "restore") /\ UNCHANGED dmVars
      <4>1. "restore" \in Pcs /\ "restore" \in StepsOf[op[p]]
        BY <1>3 DEF Updating
      <4> QED
        BY <1>0, <1>6, <3>2, <4>1, StepType DEF StartContainer, DmType, dmVars
    <3> QED
      BY <1>6, <3>1, <3>2 DEF StartContainer
  <2> QED
    BY <2>1, <2>2, TypePartsNext
<1>7. CASE Restore(p)
  <2>1. DataType'
    <3>1. old[p] \subseteq used
      BY <1>0 DEF ProcTypes, ProcType
    <3>2. config' = config \/ config' = [config EXCEPT ![env[p]] = old[p]]
      BY <1>7 DEF Restore
    <3>3. config' \in [Envs -> SUBSET used]
      BY <1>0, <3>1, <3>2 DEF DataType
    <3> QED
      BY <1>0, <1>7, <3>3 DEF Restore, DataType, fileVars
  <2>2. ProcTypes' /\ DmType'
    BY <1>1, <1>7, UpdatedType DEF Restore
  <2> QED
    BY <2>1, <2>2, TypePartsNext
<1> QED
  BY <1>4, <1>5, <1>6, <1>7

(* The beginning of an operation, by whoever starts it. *)
LEMMA CallersType ==
  ASSUME TypeOK,
         \/ \E p \in Procs, d \in Dus : Install(p, d)
         \/ \E d \in Dus : BusRemove(d) \/ odlDeploymentUnitUninstalled(d) \/ CliRemove(d)
         \/ \E e \in Envs : Prepare(e)
  PROVE  TypeOK'
<1>0. ProcTypes /\ DataType /\ DmType
  BY TypeParts
<1>1. \A o \in {"install", "remove", "prepare"} : o \in Ops \ {"none"}
  BY DEF Ops
<1>2. /\ "extract" \in Pcs /\ "extract" \in StepsOf["install"]
      /\ "config" \in Pcs /\ "config" \in StepsOf["remove"]
      /\ "config" \in StepsOf["prepare"]
  BY StepFacts DEF Pcs, Updating
<1>3. ASSUME NEW p \in Procs, NEW d \in Dus, Install(p, d) PROVE TypeOK'
  <2>1. used' = used \cup {d} /\ UNCHANGED <<index, fileVars, lxcVars, dmVars>>
        /\ Begin(p, "install", d, envOf[d], "extract")
    BY <1>3 DEF Install, addDeploymentUnit
  <2>2. DataType' /\ DmType'
    BY <1>0, <2>1 DEF DataType, DmType, fileVars, lxcVars, dmVars
  <2>3. d \in used' \cup {NoDu} /\ used \subseteq used' /\ d # NoDu /\ envOf[d] \in Envs
    BY <2>1, UnitFacts
  <2>4. ProcTypes'
    BY <1>0, <1>1, <1>2, <2>1, <2>3, BeginType
  <2> QED
    BY <2>2, <2>4, TypePartsNext
<1>4. ASSUME NEW p \in Procs, NEW d \in Dus, removeDeploymentUnit(p, d),
             dm' \subseteq dm, saved' = saved, removals' \subseteq removals,
             reported' \subseteq reported
      PROVE  TypeOK'
  <2>1. DataType' /\ DmType'
    BY <1>0, <1>4 DEF removeDeploymentUnit, DataType, DmType, fileVars, lxcVars
  <2>2. ProcTypes'
    <3>1. CASE d \in loadCache /\ Begin(p, "remove", d, envOf[d], "config")
      <4>1. d \in used' \cup {NoDu} /\ used \subseteq used' /\ d # NoDu /\ envOf[d] \in Envs
        BY <1>0, <1>4, <3>1, UnitFacts DEF removeDeploymentUnit, loadCache, DataType
      <4> QED
        BY <1>0, <1>1, <1>2, <3>1, <4>1, BeginType
    <3>2. CASE UNCHANGED procVars
      BY <1>0, <1>4, <3>2
      DEF removeDeploymentUnit, ProcTypes, ProcShape, ProcType, procVars
    <3> QED
      BY <1>4, <3>1, <3>2 DEF removeDeploymentUnit
  <2> QED
    BY <2>1, <2>2, TypePartsNext
<1>5. ASSUME NEW d \in Dus, odlDeploymentUnitUninstalled(d) PROVE TypeOK'
  BY <1>4, <1>5, UnitFacts DEF odlDeploymentUnitUninstalled
<1>6. ASSUME NEW d \in Dus, CliRemove(d) PROVE TypeOK'
  BY <1>4, <1>6, UnitFacts DEF CliRemove
<1>7. ASSUME NEW d \in Dus, BusRemove(d) PROVE TypeOK'
  <2>1. DataType' /\ DmType'
    BY <1>0, <1>7 DEF BusRemove, DataType, DmType, fileVars, lxcVars
  <2>2. ProcTypes'
    BY <1>0, <1>7 DEF BusRemove, ProcTypes, ProcShape, ProcType, procVars
  <2> QED
    BY <2>1, <2>2, TypePartsNext
<1>8. ASSUME NEW e \in Envs, Prepare(e) PROVE TypeOK'
  <2>1. UNCHANGED <<index, used, fileVars, lxcVars, dmVars>>
        /\ Begin(Daemon, "prepare", NoDu, e, "config")
    BY <1>8 DEF Prepare
  <2>2. DataType' /\ DmType'
    BY <1>0, <2>1 DEF DataType, DmType, fileVars, lxcVars, dmVars
  <2>3. ProcTypes'
    BY <1>0, <1>1, <1>2, <2>1, BeginType, UnitFacts
  <2> QED
    BY <2>2, <2>3, TypePartsNext
<1> QED
  BY <1>3, <1>5, <1>6, <1>7, <1>8

(* The save of the data model, a death and a reboot. *)
LEMMA OthersType ==
  ASSUME TypeOK, Save \/ (\E p \in Procs : Die(p)) \/ Reboot
  PROVE  TypeOK'
<1>0. ProcTypes /\ DataType /\ DmType
  BY TypeParts
<1>1. CASE Save
  BY <1>1 DEF Save, TypeOK, fileVars, lxcVars, procVars
<1>2. ASSUME NEW p \in Procs, Die(p) PROVE TypeOK'
  <2>1. DataType' /\ DmType'
    BY <1>0, <1>2 DEF Die, DataType, DmType, fileVars, lxcVars
  <2>2. ProcTypes'
    BY <1>0, <1>2, ClearType DEF Die
  <2> QED
    BY <2>1, <2>2, TypePartsNext
<1>3. CASE Reboot
  <2>1. DataType' /\ DmType'
    BY <1>0, <1>3 DEF Reboot, DataType, DmType
  <2>2. ProcTypes'
    BY <1>0, <1>3, StepFacts DEF Reboot, ProcTypes, ProcShape, ProcType, Ops, Pcs
  <2> QED
    BY <2>1, <2>2, TypePartsNext
<1> QED
  BY <1>1, <1>2, <1>3

(* The variables keep their types in every execution. *)
THEOREM TypeCorrect == Spec => []TypeOK
<1>1. Init => TypeOK
  BY UnitFacts, StepFacts DEF Init, TypeOK, Ops, Pcs
<1>2. TypeOK /\ [Next]_vars => TypeOK'
  <2> SUFFICES ASSUME TypeOK, [Next]_vars PROVE TypeOK'
    OBVIOUS
  <2>1. CASE UNCHANGED vars
    BY <2>1 DEF vars, TypeOK
  <2>2. ASSUME NEW p \in Procs, Do(p) PROVE TypeOK'
    BY <2>2, InstallStepsType, SaveStepsType, UpdateStepsType DEF Do
  <2>3. ASSUME Next, ~ \E p \in Procs : Do(p) PROVE TypeOK'
    BY <2>3, CallersType, OthersType DEF Next
  <2> QED
    BY <2>1, <2>2, <2>3 DEF Next
<1> QED
  BY <1>1, <1>2, PTL DEF Spec

-----------------------------------------------------------------------------
(* What the map of a process is to the index, when one works at a time.    *)

(* The operations that take their unit away from the index in the end.     *)
Takes == {"remove", "rollback"}

(* The map is the index as it was read, give or take the unit of the       *)
(* operation: an installation may have put it in, and a removal or a roll  *)
(* back has taken it out when it saves.  A map that was read from a torn   *)
(* file may miss anything.                                                 *)
MapOk(p) == op[p] # "none" =>
  /\ mem[p] \subseteq index.units \cup {arg[p]}
  /\ op[p] \in {"remove", "prepare"} => mem[p] \subseteq index.units
  /\ op[p] \in Takes /\ pc[p] \in Saving => arg[p] \notin mem[p]
  /\ ~blind[p] => \A d \in index.units \ mem[p] : op[p] \in Takes /\ d = arg[p]
OneAtATime == \A p, q \in Procs : op[p] # "none" /\ op[q] # "none" => p = q
MapInv == Solo /\ OneAtATime /\ \A p \in Procs : MapOk(p)

(* When an operation ends, nobody works. *)
LEMMA ClearMap ==
  ASSUME TypeOK, MapInv, NEW p \in Procs, op[p] # "none", Clear(p)
  PROVE  MapInv'
<1>1. \A q \in Procs : op'[q] = "none"
  BY DEF TypeOK, MapInv, OneAtATime, Clear
<1> QED
  BY <1>1 DEF MapInv, OneAtATime, MapOk

(* While it goes on, its own map is what matters. *)
LEMMA FocusMap ==
  ASSUME MapInv, NEW p \in Procs, op[p] # "none",
         \A q \in Procs : q # p => op'[q] = op[q], MapOk(p)'
  PROVE  MapInv'
<1>1. \A q \in Procs : q # p => op'[q] = "none"
  BY DEF MapInv, OneAtATime
<1> QED
  BY <1>1 DEF MapInv, OneAtATime, MapOk

(* A step that touches neither map nor units, and does not begin the save  *)
(* of a removal.                                                           *)
LEMMA StepMap ==
  ASSUME TypeOK, MapInv, NEW p \in Procs, op[p] # "none", NEW l, Goto(p, l),
         UNCHANGED <<op, arg, mem, blind>>, index'.units = index.units,
         l \in Saving => pc[p] \in Saving
  PROVE  MapInv'
<1>1. MapOk(p) /\ pc'[p] = l
  BY DEF MapInv, Goto, TypeOK
<1>2. MapOk(p)'
  BY <1>1 DEF MapOk
<1> QED
  BY <1>2, FocusMap

(* A roll back starts from the map of the installation. *)
LEMMA RollBackMap ==
  ASSUME TypeOK, MapInv, NEW p \in Procs, op[p] = "install", RollBack(p),
         index'.units = index.units
  PROVE  MapInv'
<1>1. CASE Return(p, TRUE)
  BY <1>1, ClearMap DEF Return
<1>2. CASE Goto(p, "config") /\ op' = [op EXCEPT ![p] = "rollback"]
           /\ UNCHANGED <<arg, env, mem, blind, old, dmVars>>
  <2>1. MapOk(p) /\ pc'[p] = "config" /\ op'[p] = "rollback"
        /\ \A q \in Procs : q # p => op'[q] = op[q]
    BY <1>2 DEF MapInv, Goto, TypeOK
  <2>2. MapOk(p)'
    BY <1>2, <2>1 DEF MapOk, Saving, Takes
  <2> QED
    BY <2>1, <2>2, FocusMap
<1> QED
  BY <1>1, <1>2 DEF RollBack
LEMMA SaveFailedMap ==
  ASSUME TypeOK, MapInv, NEW p \in Procs, op[p] # "none", SaveFailed(p),
         index'.units = index.units
  PROVE  MapInv'
BY RollBackMap, ClearMap DEF SaveFailed, Return

(* An update of the path, for better or worse. *)
LEMMA UpdatedMap ==
  ASSUME TypeOK, MapInv, NEW p \in Procs, op[p] # "none",
         Updated(p) \/ NotUpdated(p), index' = index
  PROVE  MapInv'
<1>1. \/ Return(p, TRUE) \/ Return(p, FALSE) \/ Step(p, "duRemove")
      \/ op[p] = "install" /\ RollBack(p)
  <2>1. CASE op[p] = "install"
    BY <2>1 DEF Updated, NotUpdated
  <2>2. CASE op[p] = "prepare"
    BY <2>2 DEF Updated, NotUpdated
  <2>3. CASE op[p] \notin {"install", "prepare"}
    BY <2>3 DEF Updated, NotUpdated
  <2> QED
    BY <2>1, <2>2, <2>3
<1> QED
  BY <1>1, ClearMap, RollBackMap, StepMap DEF Return, Step, Saving

(* The steps of an installation: the unit goes into the map at the last.   *)
LEMMA InstallStepsMap ==
  ASSUME TypeOK, MapInv, NEW p \in Procs,
         Extract(p) \/ ReadMeta(p) \/ Copy(p) \/ Clean(p) \/ Mount(p)
  PROVE  MapInv'
<1>1. op[p] = "install" /\ index' = index
  BY PcOp DEF Extract, ReadMeta, Copy, Clean, Mount, At
<1>2. CASE ~Mount(p)
  <2>1. \/ Return(p, TRUE) \/ Return(p, FALSE) \/ Step(p, "meta") \/ Step(p, "copy")
        \/ Step(p, "clean") \/ Step(p, "mount")
    BY <1>2 DEF Extract, ReadMeta, Copy, Clean
  <2> QED
    BY <1>1, <2>1, ClearMap, StepMap DEF Return, Step, Saving
<1>3. CASE Mount(p)
  <2>1. MapOk(p) /\ op' = op /\ arg' = arg /\ blind' = blind
    BY <1>3 DEF MapInv, Mount
  <2>2. mem'[p] = mem[p] \cup {arg[p]}
    BY <1>3 DEF Mount, TypeOK
  <2>3. MapOk(p)'
    BY <1>1, <2>1, <2>2 DEF MapOk, Takes
  <2> QED
    BY <1>1, <2>1, <2>3, FocusMap
<1> QED
  BY <1>2, <1>3

(* The save, and the unit that goes out of the map before it.              *)
LEMMA SaveStepsMap ==
  ASSUME TypeOK, MapInv, NEW p \in Procs, SaveOpen(p) \/ SaveWrite(p) \/ DuRemove(p)
  PROVE  MapInv'
<1>0. op[p] \in {"install", "remove", "rollback"} /\ MapOk(p)
  BY PcOp DEF MapInv, SaveOpen, SaveWrite, DuRemove, At, Saving
<1>1. index' = [index EXCEPT !.torn = TRUE] => index'.units = index.units
  BY DEF TypeOK
<1>2. CASE SaveOpen(p)
  <2>1. index'.units = index.units /\ pc[p] \in Saving
        /\ (Step(p, "write") \/ SaveFailed(p))
    BY <1>1, <1>2 DEF SaveOpen, At, Saving
  <2> QED
    BY <1>0, <2>1, StepMap, SaveFailedMap DEF Step
<1>3. CASE SaveWrite(p)
  <2>1. CASE Return(p, op[p] = "rollback")
    BY <1>0, <2>1, ClearMap DEF Return
  <2>2. CASE SaveFailed(p) /\ UNCHANGED index
    BY <1>0, <2>2, SaveFailedMap
  <2>3. CASE Step(p, "config") /\ index'.units = index.units
    BY <1>0, <2>3, StepMap DEF Step, Saving
  <2>4. CASE op[p] = "install" /\ Step(p, "config") /\ index'.units = mem[p]
    <3>1. MapOk(p)'
      BY <2>4 DEF MapOk, Step, Takes
    <3> QED
      BY <1>0, <2>4, <3>1, FocusMap DEF Step
  <2> QED
    BY <1>1, <1>3, <2>1, <2>2, <2>3, <2>4 DEF SaveWrite
<1>4. CASE DuRemove(p)
  <2>1. /\ op' = op /\ arg' = arg /\ blind' = blind /\ index' = index
        /\ op[p] \in Takes /\ mem'[p] = mem[p] \ {arg[p]}
    BY <1>4, PcOp DEF DuRemove, TypeOK, At, Takes
  <2>2. MapOk(p)'
    BY <1>0, <2>1 DEF MapOk, Takes
  <2> QED
    BY <1>0, <2>1, <2>2, FocusMap
<1> QED
  BY <1>2, <1>3, <1>4

(* The update of the path and the restart.                                 *)
LEMMA UpdateStepsMap ==
  ASSUME TypeOK, MapInv, NEW p \in Procs,
         UpdateConfig(p) \/ StopContainer(p) \/ StartContainer(p) \/ Restore(p)
  PROVE  MapInv'
<1>1. op[p] # "none" /\ index' = index
  BY PcOp DEF UpdateConfig, StopContainer, StartContainer, Restore, At
<1>2. \/ Updated(p) \/ NotUpdated(p) \/ Step(p, "start") \/ Step(p, "restore")
      \/ Goto(p, "stop") /\ UNCHANGED <<op, arg, mem, blind>>
  BY DEF UpdateConfig, StopContainer, StartContainer, Restore
<1> QED
  BY <1>1, <1>2, UpdatedMap, StepMap DEF Step, Saving

(* The map of a new operation is what the file holds, if it parses.        *)
LEMMA BeginMap ==
  ASSUME TypeOK, MapInv, NEW p \in Procs, NEW o \in {"install", "remove", "prepare"},
         NEW d, NEW e, NEW l \in {"extract", "config"}, Begin(p, o, d, e, l),
         index' = index
  PROVE  MapInv'
<1>1. \A q \in Procs : op[q] = "none"
  BY DEF Begin, MayBegin, MapInv
<1>2. op'[p] = o /\ \A q \in Procs : q # p => op'[q] = "none"
  BY <1>1 DEF Begin, TypeOK
<1>3. mem'[p] = loadCache /\ blind'[p] = index.torn
  BY DEF Begin, TypeOK
<1>4. pc'[p] = l
  BY DEF Begin, Goto, TypeOK
<1>5. MapOk(p)'
  BY <1>2, <1>3, <1>4 DEF MapOk, loadCache, Takes, Saving
<1> QED
  BY <1>2, <1>5 DEF MapInv, OneAtATime, MapOk

(* MapInv is inductive.                                                    *)
LEMMA MapStep == TypeOK /\ MapInv /\ [Next]_vars => MapInv'
<1> SUFFICES ASSUME TypeOK, MapInv, [Next]_vars PROVE MapInv'
  OBVIOUS
<1>1. CASE UNCHANGED <<index, procVars>>
  BY <1>1 DEF MapInv, OneAtATime, MapOk, procVars
<1>2. ASSUME NEW p \in Procs, Do(p) PROVE MapInv'
  BY <1>2, InstallStepsMap, SaveStepsMap, UpdateStepsMap DEF Do
<1>3. ASSUME NEW p \in Procs, Die(p) PROVE MapInv'
  BY <1>3, ClearMap DEF Die
<1>4. ASSUME NEW p \in Procs, NEW d \in Dus, Install(p, d) PROVE MapInv'
  BY <1>4, BeginMap DEF Install, addDeploymentUnit
<1>5. ASSUME NEW p \in Procs, NEW d \in Dus, removeDeploymentUnit(p, d) PROVE MapInv'
  BY <1>1, <1>5, BeginMap DEF removeDeploymentUnit
<1>6. ASSUME NEW d \in Dus, BusRemove(d) \/ odlDeploymentUnitUninstalled(d) \/ CliRemove(d)
      PROVE  MapInv'
  BY <1>1, <1>5, <1>6, UnitFacts DEF BusRemove, odlDeploymentUnitUninstalled, CliRemove
<1>7. ASSUME NEW e \in Envs, Prepare(e) PROVE MapInv'
  BY <1>7, BeginMap, UnitFacts DEF Prepare
<1>8. CASE Save
  BY <1>1, <1>8 DEF Save
<1>9. CASE Reboot
  <2>1. \A q \in Procs : op'[q] = "none"
    BY <1>9 DEF Reboot
  <2> QED
    BY <2>1 DEF MapInv, OneAtATime, MapOk
<1>10. CASE UNCHANGED vars
  BY <1>1, <1>10 DEF vars, procVars
<1> QED
  BY <1>2, <1>3, <1>4, <1>6, <1>7, <1>8, <1>9, <1>10 DEF Next

(* Only a write changes the units of the index, to those of the map.       *)
LEMMA IndexStep ==
  ASSUME TypeOK, [Next]_vars, index'.units # index.units
  PROVE  \E p \in Procs : At(p, "write") /\ index'.units = mem[p]
<1>1. [index EXCEPT !.torn = TRUE].units = index.units
  BY DEF TypeOK
<1>2. ASSUME NEW p \in Procs, SaveWrite(p)
      PROVE  At(p, "write") /\ index'.units = mem[p]
  <2>1. \/ index' = [torn |-> FALSE, units |-> mem[p]]
        \/ index' = [index EXCEPT !.torn = TRUE] \/ index' = index
    BY <1>2 DEF SaveWrite
  <2>2. index' = [torn |-> FALSE, units |-> mem[p]]
    BY <1>1, <2>1
  <2> QED
    BY <1>2, <2>2 DEF SaveWrite
<1>3. ASSUME NEW p \in Procs, Do(p), ~SaveWrite(p) PROVE FALSE
  BY <1>1, <1>3 DEF Do, Extract, ReadMeta, Copy, Clean, Mount, SaveOpen, UpdateConfig,
     StopContainer, StartContainer, Restore, DuRemove
<1>4. ASSUME Next, ~ \E p \in Procs : Do(p) PROVE FALSE
  BY <1>4 DEF Next, Die, Install, addDeploymentUnit, BusRemove,
     odlDeploymentUnitUninstalled, CliRemove, removeDeploymentUnit, Prepare, Save, Reboot
<1>5. ~ UNCHANGED vars
  BY DEF vars
<1> QED
  BY <1>2, <1>3, <1>4, <1>5

(* With one operation at a time, the index loses a unit only to its own    *)
(* removal or roll back, or by an operation that began on a torn file.     *)
THEOREM NothingLostHolds == Solo /\ Spec => NothingLost
<1>1. Solo /\ Init => MapInv
  BY DEF Init, MapInv, OneAtATime, MapOk
<1>2. TypeOK /\ MapInv /\ [Next]_vars =>
      [\A d \in index.units \ index'.units : \E p \in Procs :
        (op[p] \in {"remove", "rollback"} /\ arg[p] = d) \/ blind[p]]_vars
  <2> SUFFICES ASSUME TypeOK, MapInv, [Next]_vars, NEW d \in index.units \ index'.units
               PROVE  \E p \in Procs :
                        (op[p] \in {"remove", "rollback"} /\ arg[p] = d) \/ blind[p]
    OBVIOUS
  <2>1. PICK p \in Procs : At(p, "write") /\ index'.units = mem[p]
    BY IndexStep
  <2>2. op[p] # "none" /\ MapOk(p)
    BY <2>1, PcOp DEF At, MapInv
  <2> QED
    BY <2>1, <2>2 DEF MapOk, Takes
<1> QED
  BY <1>1, <1>2, MapStep, TypeCorrect, PTL DEF Spec, NothingLost

(* And it gains only the unit being installed.                             *)
THEOREM OnlyInstalledHolds == Solo /\ Spec => OnlyInstalled
<1>1. Solo /\ Init => MapInv
  BY DEF Init, MapInv, OneAtATime, MapOk
<1>2. TypeOK /\ MapInv /\ [Next]_vars =>
      [\A d \in index'.units \ index.units : \E p \in Procs :
        op[p] = "install" /\ arg[p] = d]_vars
  <2> SUFFICES ASSUME TypeOK, MapInv, [Next]_vars, NEW d \in index'.units \ index.units
               PROVE  \E p \in Procs : op[p] = "install" /\ arg[p] = d
    OBVIOUS
  <2>1. PICK p \in Procs : At(p, "write") /\ index'.units = mem[p]
    BY IndexStep
  <2>2. op[p] \in {"install", "remove", "rollback"} /\ pc[p] \in Saving /\ MapOk(p)
    BY <2>1, PcOp DEF At, MapInv, Saving
  <2> QED
    BY <2>1, <2>2 DEF MapOk, Takes
<1> QED
  BY <1>1, <1>2, MapStep, TypeCorrect, PTL DEF Spec, OnlyInstalled

-----------------------------------------------------------------------------
(* The files of the units and the path of the container, when one works at *)
(* a time.                                                                 *)

(* A unit has its directory, or one that could not be made or was removed. *)
Accounted == stored \cup unmade \cup removed

(* A unit the index lists is accounted for, and an image holds the files   *)
(* of its own unit at most.                                                *)
Indexed == index.units \subseteq Accounted
Pure == \A d \in Dus \ Ipk : content[d] \subseteq {d}

(* A process at work: the units of its map are accounted for, and tempDir  *)
(* holds no other image when it is copied.                                 *)
FilesOk(p) == op[p] # "none" =>
  /\ mem[p] \subseteq Accounted
  /\ pc[p] \in {"meta", "copy"} /\ arg[p] \notin Ipk => temp \ Ipk \subseteq {arg[p]}

(* From its save on, an installation has the units of the index in its     *)
(* map, and from the config on in the path of the container.               *)
PathOk(p) == op[p] = "install" =>
  /\ pc[p] \in Updating => index.torn \/ index.units = mem[p]
  /\ pc[p] \in {"stop", "start"} => config[env[p]] = UnitsOf(mem[p], env[p])

FilesInv == Indexed /\ Pure /\ \A p \in Procs : FilesOk(p) /\ PathOk(p)

(* When an operation ends, what is left is the index and the files.        *)
LEMMA ClearFiles ==
  ASSUME TypeOK, MapInv, NEW p \in Procs, op[p] # "none", Clear(p), Indexed', Pure'
  PROVE  FilesInv'
<1>1. \A q \in Procs : op'[q] = "none"
  BY DEF TypeOK, MapInv, OneAtATime, Clear
<1> QED
  BY <1>1 DEF FilesInv, FilesOk, Accounted, PathOk

(* While it goes on, only its own view matters besides.                    *)
LEMMA FocusFiles ==
  ASSUME MapInv, NEW p \in Procs, op[p] # "none", \A q \in Procs : q # p => op'[q] = op[q],
         Indexed', Pure', FilesOk(p)', PathOk(p)'
  PROVE  FilesInv'
<1>1. \A q \in Procs : q # p => op'[q] = "none"
  BY DEF MapInv, OneAtATime
<1> QED
  BY <1>1 DEF FilesInv, FilesOk, Accounted, PathOk

(* A step to a place that asks nothing new.                                *)
LEMMA StepFiles ==
  ASSUME TypeOK, MapInv, FilesInv, NEW p \in Procs, op[p] # "none", NEW l, Goto(p, l),
         l \in {"start", "restore", "duRemove", "write"},
         l = "start" => pc[p] = "stop", l = "restore" => pc[p] \in Updating,
         UNCHANGED <<op, arg, env, mem, config, temp, stored, content, removed, unmade>>,
         index'.units = index.units, index.torn => index'.torn
  PROVE  FilesInv'
<1>1. FilesOk(p) /\ PathOk(p) /\ pc'[p] = l
  BY DEF FilesInv, Goto, TypeOK
<1>2. FilesOk(p)'
  BY <1>1 DEF FilesOk, Accounted
<1>3. PathOk(p)'
  BY <1>1 DEF PathOk, Updating
<1>4. Indexed' /\ Pure'
  BY DEF FilesInv, Indexed, Accounted, Pure
<1> QED
  BY <1>2, <1>3, <1>4, FocusFiles

(* A roll back needs the files only.                                       *)
LEMMA RollBackFiles ==
  ASSUME TypeOK, MapInv, FilesInv, NEW p \in Procs, op[p] = "install", RollBack(p),
         UNCHANGED <<index, temp, stored, content, removed, unmade>>
  PROVE  FilesInv'
<1>0. Indexed' /\ Pure' /\ FilesOk(p)
  BY DEF FilesInv, Indexed, Accounted, Pure
<1>1. CASE Return(p, TRUE)
  BY <1>0, <1>1, ClearFiles DEF Return
<1>2. CASE Goto(p, "config") /\ op' = [op EXCEPT ![p] = "rollback"]
           /\ UNCHANGED <<arg, env, mem, blind, old, dmVars>>
  <2>1. pc'[p] = "config" /\ op'[p] = "rollback" /\ \A q \in Procs : q # p => op'[q] = op[q]
    BY <1>2 DEF Goto, TypeOK
  <2>2. FilesOk(p)' /\ PathOk(p)'
    BY <1>0, <1>2, <2>1 DEF FilesOk, Accounted, PathOk
  <2> QED
    BY <1>0, <2>1, <2>2, FocusFiles
<1> QED
  BY <1>1, <1>2 DEF RollBack
LEMMA SaveFailedFiles ==
  ASSUME TypeOK, MapInv, FilesInv, NEW p \in Procs, op[p] # "none", SaveFailed(p),
         UNCHANGED <<index, temp, stored, content, removed, unmade>>
  PROVE  FilesInv'
<1>1. Indexed' /\ Pure'
  BY DEF FilesInv, Indexed, Accounted, Pure
<1> QED
  BY <1>1, RollBackFiles, ClearFiles DEF SaveFailed, Return

(* The steps of an installation.  tempDir holds no other image when the    *)
(* image is copied: tar has replaced the one that was left behind.         *)
LEMMA InstallStepsFiles ==
  ASSUME TypeOK, MapInv, FilesInv, NEW p \in Procs,
         Extract(p) \/ ReadMeta(p) \/ Copy(p) \/ Clean(p) \/ Mount(p)
  PROVE  FilesInv'
<1>0. /\ op[p] = "install" /\ arg[p] \in used /\ FilesOk(p) /\ Indexed /\ Pure
      /\ index' = index /\ removed' = removed
  BY PcOp DEF Extract, ReadMeta, Copy, Clean, Mount, At, FilesInv, fileVars
<1>1. CASE Extract(p) \/ ReadMeta(p)
  <2>1. Indexed' /\ Pure' /\ UNCHANGED <<stored, unmade, content>>
    BY <1>0, <1>1 DEF Extract, ReadMeta, Indexed, Accounted, Pure, fileVars
  <2>2. CASE Return(p, TRUE) \/ Return(p, FALSE)
    BY <1>0, <2>1, <2>2, ClearFiles DEF Return
  <2>3. CASE Extract(p) /\ temp' = Unpacked(arg[p]) /\ Step(p, "meta")
    <3>1. arg[p] \notin Ipk => temp' \ Ipk \subseteq {arg[p]}
      BY <2>3 DEF Unpacked
    <3>2. pc'[p] = "meta" /\ UNCHANGED <<op, arg, mem, env>>
      BY <2>3 DEF Step, Goto, TypeOK
    <3>3. FilesOk(p)' /\ PathOk(p)'
      BY <1>0, <2>1, <3>1, <3>2 DEF FilesOk, Accounted, PathOk, Updating
    <3> QED
      BY <1>0, <2>1, <3>2, <3>3, FocusFiles
  <2>4. CASE ReadMeta(p) /\ Step(p, "copy")
    <3>1. pc[p] = "meta" /\ pc'[p] = "copy" /\ UNCHANGED <<op, arg, mem, env, temp>>
      BY <2>4 DEF ReadMeta, At, Step, Goto, TypeOK, fileVars
    <3>2. FilesOk(p)' /\ PathOk(p)'
      BY <1>0, <2>1, <3>1 DEF FilesOk, Accounted, PathOk, Updating
    <3> QED
      BY <1>0, <2>1, <3>1, <3>2, FocusFiles
  <2> QED
    BY <1>1, <2>2, <2>3, <2>4 DEF Extract, ReadMeta
<1>2. CASE Copy(p)
  <2>1. /\ pc[p] = "copy" /\ stored \subseteq stored' /\ temp' = temp /\ unmade' = unmade
        /\ content' = content \/ content' = [content EXCEPT ![arg[p]] = Fetched(arg[p])]
    BY <1>2 DEF Copy, CreateDirectories, At
  <2>2. arg[p] \notin Ipk => Fetched(arg[p]) \subseteq {arg[p]}
    BY <1>0, <2>1 DEF FilesOk, Accounted, Fetched
  <2>3. Indexed' /\ Pure'
    BY <1>0, <2>1, <2>2 DEF Indexed, Accounted, Pure, TypeOK
  <2>4. CASE Return(p, TRUE)
    BY <1>0, <2>3, <2>4, ClearFiles DEF Return
  <2>5. CASE Step(p, "clean")
    <3>1. pc'[p] = "clean" /\ UNCHANGED <<op, arg, mem, env>>
      BY <2>5 DEF Step, Goto, TypeOK
    <3>2. FilesOk(p)' /\ PathOk(p)'
      BY <1>0, <2>1, <3>1 DEF FilesOk, Accounted, PathOk, Updating
    <3> QED
      BY <1>0, <2>3, <3>1, <3>2, FocusFiles
  <2> QED
    BY <1>2, <2>4, <2>5 DEF Copy
<1>3. CASE Clean(p)
  <2>1. /\ pc[p] = "clean" /\ pc'[p] = "mount"
        /\ UNCHANGED <<op, arg, mem, env, stored, unmade, content>>
    BY <1>3 DEF Clean, At, Step, Goto, TypeOK
  <2>2. FilesOk(p)' /\ PathOk(p)'
    BY <1>0, <2>1 DEF FilesOk, Accounted, PathOk, Updating
  <2>3. Indexed' /\ Pure'
    BY <1>0, <2>1 DEF Indexed, Accounted, Pure
  <2> QED
    BY <1>0, <2>1, <2>2, <2>3, FocusFiles
<1>4. CASE Mount(p)
  <2>1. /\ pc[p] = "mount" /\ pc'[p] = "open" /\ mem'[p] = mem[p] \cup {arg[p]}
        /\ UNCHANGED <<op, arg, env, content>>
        /\ stored \subseteq stored' /\ unmade' = unmade \cup ({arg[p]} \ stored')
    BY <1>4 DEF Mount, CreateDirectories, At, Goto, TypeOK
  <2>2. FilesOk(p)' /\ PathOk(p)'
    BY <1>0, <2>1 DEF FilesOk, Accounted, PathOk, Updating
  <2>3. Indexed' /\ Pure'
    BY <1>0, <2>1 DEF Indexed, Accounted, Pure
  <2> QED
    BY <1>0, <2>1, <2>2, <2>3, FocusFiles
<1> QED
  BY <1>1, <1>2, <1>3, <1>4

(* The save, and the files that go before it.  The save of an installation *)
(* makes the index what its map is, or leaves the file torn.               *)
LEMMA SaveStepsFiles ==
  ASSUME TypeOK, MapInv, FilesInv, NEW p \in Procs,
         SaveOpen(p) \/ SaveWrite(p) \/ DuRemove(p)
  PROVE  FilesInv'
<1>0. /\ op[p] \in {"install", "remove", "rollback"} /\ arg[p] \in used
      /\ FilesOk(p) /\ PathOk(p) /\ Indexed /\ Pure /\ temp' = temp
  BY PcOp DEF SaveOpen, SaveWrite, DuRemove, At, Saving, FilesInv, fileVars
<1>1. index' = [index EXCEPT !.torn = TRUE] => index'.units = index.units /\ index'.torn
  BY DEF TypeOK
<1>2. CASE SaveOpen(p)
  <2>1. UNCHANGED <<stored, content, removed, unmade, temp, config>>
    BY <1>2 DEF SaveOpen, fileVars, lxcVars
  <2>2. CASE SaveFailed(p) /\ UNCHANGED index
    BY <1>0, <2>1, <2>2, SaveFailedFiles
  <2>3. CASE Step(p, "write") /\ index'.units = index.units /\ index'.torn
    BY <1>0, <2>1, <2>3, StepFiles DEF Step
  <2> QED
    BY <1>1, <1>2, <2>2, <2>3 DEF SaveOpen
<1>3. CASE SaveWrite(p)
  <2>1. UNCHANGED <<stored, content, removed, unmade, temp, config>> /\ pc[p] = "write"
    BY <1>3 DEF SaveWrite, At, fileVars, lxcVars
  <2>2. CASE SaveFailed(p) /\ UNCHANGED index
    BY <1>0, <2>1, <2>2, SaveFailedFiles
  <2>3. CASE \/ index'.units = mem[p]
             \/ index'.units = index.units /\ index'.torn
    <3>1. Indexed' /\ Pure'
      BY <1>0, <2>1, <2>3 DEF Indexed, Accounted, Pure, FilesOk
    <3>2. CASE Return(p, op[p] = "rollback")
      BY <1>0, <3>1, <3>2, ClearFiles DEF Return
    <3>3. CASE Step(p, "config")
      <4>1. pc'[p] = "config" /\ UNCHANGED <<op, arg, mem, env>>
        BY <3>3 DEF Step, Goto, TypeOK
      <4>2. FilesOk(p)' /\ PathOk(p)'
        BY <1>0, <2>1, <2>3, <4>1 DEF FilesOk, Accounted, PathOk
      <4> QED
        BY <1>0, <3>1, <4>1, <4>2, FocusFiles
    <3> QED
      BY <1>3, <2>2, <3>2, <3>3 DEF SaveWrite
  <2> QED
    BY <1>1, <1>3, <2>2, <2>3 DEF SaveWrite
<1>4. CASE DuRemove(p)
  <2>1. /\ pc'[p] = "open" /\ mem'[p] = mem[p] \ {arg[p]} /\ op[p] # "install"
        /\ removed' = removed \cup {arg[p]} /\ stored \ {arg[p]} \subseteq stored'
        /\ unmade' = unmade \ {arg[p]}
        /\ UNCHANGED <<op, arg, env, index>>
    BY <1>4, PcOp DEF DuRemove, RemoveFiles, At, Goto, TypeOK
  <2>2. content' = content \/ content' = [content EXCEPT ![arg[p]] = {}]
    BY <1>4 DEF DuRemove, RemoveFiles
  <2>3. Indexed' /\ Pure'
    BY <1>0, <2>1, <2>2 DEF Indexed, Accounted, Pure, TypeOK
  <2>4. FilesOk(p)' /\ PathOk(p)'
    BY <1>0, <2>1 DEF FilesOk, Accounted, PathOk
  <2> QED
    BY <1>0, <2>1, <2>3, <2>4, FocusFiles
<1> QED
  BY <1>2, <1>3, <1>4

(* The update of the path, which takes the units of the map.               *)
LEMMA UpdateStepsFiles ==
  ASSUME TypeOK, MapInv, FilesInv, NEW p \in Procs,
         UpdateConfig(p) \/ StopContainer(p) \/ StartContainer(p) \/ Restore(p)
  PROVE  FilesInv'
<1>0. /\ op[p] # "none" /\ env[p] \in Envs /\ FilesOk(p) /\ PathOk(p) /\ Indexed /\ Pure
      /\ UNCHANGED <<index, temp, stored, content, removed, unmade>> /\ pc[p] \in Updating
  BY PcOp DEF UpdateConfig, StopContainer, StartContainer, Restore, At, Updating, FilesInv,
     fileVars
<1>1. Indexed' /\ Pure'
  BY <1>0 DEF Indexed, Accounted, Pure
<1>2. ASSUME Updated(p) \/ NotUpdated(p) PROVE FilesInv'
  <2>1. CASE op[p] = "install"
    BY <1>0, <1>1, <1>2, <2>1, ClearFiles, RollBackFiles DEF Updated, NotUpdated, Return
  <2>2. CASE op[p] = "prepare"
    BY <1>0, <1>1, <1>2, <2>2, ClearFiles DEF Updated, NotUpdated, Return
  <2>3. CASE op[p] \notin {"install", "prepare"}
    <3>1. Step(p, "duRemove")
      BY <1>2, <2>3 DEF Updated, NotUpdated
    <3>2. pc'[p] = "duRemove" /\ UNCHANGED <<op, arg, mem, env>>
      BY <3>1 DEF Step, Goto, TypeOK
    <3>3. FilesOk(p)' /\ PathOk(p)'
      BY <1>0, <2>3, <3>2 DEF FilesOk, Accounted, PathOk
    <3> QED
      BY <1>0, <1>1, <3>2, <3>3, FocusFiles
  <2> QED
    BY <2>1, <2>2, <2>3
<1>3. CASE /\ UpdateConfig(p) /\ Goto(p, "stop") /\ UNCHANGED <<op, arg, env, mem>>
           /\ config' = [config EXCEPT ![env[p]] = UnitsOf(mem[p], env[p])]
  <2>1. pc'[p] = "stop" /\ config'[env[p]] = UnitsOf(mem[p], env[p])
    BY <1>0, <1>3 DEF Goto, TypeOK
  <2>2. FilesOk(p)' /\ PathOk(p)'
    BY <1>0, <1>3, <2>1 DEF FilesOk, Accounted, PathOk, Updating
  <2> QED
    BY <1>0, <1>1, <1>3, <2>2, FocusFiles
<1>4. CASE config' = config /\ (Step(p, "restore") \/ (pc[p] = "stop" /\ Step(p, "start")))
  BY <1>0, <1>4, StepFiles DEF Step
<1> QED
  BY <1>2, <1>3, <1>4 DEF UpdateConfig, StopContainer, StartContainer, Restore, At

(* A new operation finds the units of the file, which have their files.    *)
LEMMA BeginFiles ==
  ASSUME TypeOK, MapInv, FilesInv, NEW p \in Procs, NEW o \in {"install", "remove", "prepare"},
         NEW d, NEW e, NEW l, <<o, l>> \in {<<"install", "extract">>, <<"remove", "config">>,
         <<"prepare", "config">>}, Begin(p, o, d, e, l),
         UNCHANGED <<index, temp, stored, content, removed, unmade>>
  PROVE  FilesInv'
<1>1. \A q \in Procs : op[q] = "none"
  BY DEF Begin, MayBegin, MapInv
<1>2. op'[p] = o /\ \A q \in Procs : q # p => op'[q] = "none"
  BY <1>1 DEF Begin, TypeOK
<1>3. mem'[p] = loadCache /\ pc'[p] = l
  BY DEF Begin, Goto, TypeOK
<1>4. loadCache \subseteq Accounted
  BY DEF loadCache, FilesInv, Indexed
<1>5. FilesOk(p)' /\ PathOk(p)'
  BY <1>2, <1>3, <1>4 DEF FilesOk, Accounted, PathOk, Updating
<1>6. Indexed' /\ Pure'
  BY DEF FilesInv, Indexed, Accounted, Pure
<1> QED
  BY <1>2, <1>5, <1>6 DEF FilesInv, FilesOk, Accounted, PathOk

(* FilesInv is inductive, next to MapInv.                                  *)
LEMMA FilesStep == TypeOK /\ MapInv /\ FilesInv /\ [Next]_vars => FilesInv'
<1> SUFFICES ASSUME TypeOK, MapInv, FilesInv, [Next]_vars PROVE FilesInv'
  OBVIOUS
<1>1. CASE UNCHANGED <<index, fileVars, config, procVars>>
  BY <1>1 DEF FilesInv, Indexed, Accounted, Pure, FilesOk, PathOk, procVars, fileVars
<1>2. ASSUME NEW p \in Procs, Do(p) PROVE FilesInv'
  BY <1>2, InstallStepsFiles, SaveStepsFiles, UpdateStepsFiles DEF Do
<1>3. ASSUME NEW p \in Procs, Die(p) PROVE FilesInv'
  <2>1. Indexed' /\ Pure'
    BY <1>3 DEF Die, fileVars, FilesInv, Indexed, Accounted, Pure
  <2> QED
    BY <1>3, <2>1, ClearFiles DEF Die
<1>4. ASSUME NEW p \in Procs, NEW d \in Dus, Install(p, d) PROVE FilesInv'
  BY <1>4, BeginFiles DEF Install, addDeploymentUnit, fileVars
<1>5. ASSUME NEW p \in Procs, NEW d \in Dus, removeDeploymentUnit(p, d) PROVE FilesInv'
  BY <1>1, <1>5, BeginFiles DEF removeDeploymentUnit, fileVars, lxcVars
<1>6. ASSUME NEW d \in Dus, BusRemove(d) \/ odlDeploymentUnitUninstalled(d) \/ CliRemove(d)
      PROVE  FilesInv'
  BY <1>1, <1>5, <1>6, UnitFacts
     DEF BusRemove, odlDeploymentUnitUninstalled, CliRemove, lxcVars
<1>7. ASSUME NEW e \in Envs, Prepare(e) PROVE FilesInv'
  BY <1>7, BeginFiles, UnitFacts DEF Prepare, fileVars
<1>8. CASE Save
  BY <1>1, <1>8 DEF Save, lxcVars
<1>9. CASE Reboot
  <2>1. \A q \in Procs : op'[q] = "none"
    BY <1>9 DEF Reboot
  <2>2. UNCHANGED <<index, stored, content, removed, unmade>>
    BY <1>9 DEF Reboot
  <2> QED
    BY <2>1, <2>2 DEF FilesInv, Indexed, Accounted, Pure, FilesOk, PathOk
<1>10. CASE UNCHANGED vars
  BY <1>1, <1>10 DEF vars, procVars, fileVars
<1> QED
  BY <1>2, <1>3, <1>4, <1>6, <1>7, <1>8, <1>9, <1>10 DEF Next

(* Both invariants hold when one process works at a time.                  *)
LEMMA SoloInvariants == Solo /\ Spec => [](TypeOK /\ MapInv /\ FilesInv)
<1>1. Solo /\ Init => MapInv /\ FilesInv
  BY DEF Init, MapInv, OneAtATime, MapOk, FilesInv, Indexed, Accounted, Pure, FilesOk, PathOk
<1> QED
  BY <1>1, MapStep, FilesStep, TypeCorrect, PTL DEF Spec

(* A unit of the index has its directory, unless that could not be made,   *)
(* and no other unit's files in its image, for any units and whatever else *)
(* failed or died before: the order of install, insertion and save         *)
(* (deployment_unit_helper.cpp:92-104).                                    *)
THEOREM IndexedStoredHolds == Solo /\ Spec => []IndexedStored
<1>1. TypeOK /\ FilesInv => IndexedStored
  BY DEF TypeOK, FilesInv, Indexed, Accounted, Pure, IndexedStored
<1> QED
  BY <1>1, SoloInvariants, PTL

(* An installation that ends well has put the units of the index into the  *)
(* path of the container, unless the file is torn.                         *)
THEOREM ConfigMatchesIndexHolds == Solo /\ Spec => ConfigMatchesIndex
<1>1. TypeOK /\ MapInv /\ FilesInv /\ [Next]_vars =>
      [\A p \in Procs :
        (op[p] = "install" /\ At(p, "start") /\ env[p] \in running' /\ ~index'.torn)
          => config'[env[p]] = UnitsOf(index'.units, env[p])]_vars
  <2> SUFFICES ASSUME TypeOK, MapInv, FilesInv, Next, NEW p \in Procs, op[p] = "install",
                      pc[p] = "start", env[p] \in running', ~index'.torn
               PROVE  config'[env[p]] = UnitsOf(index'.units, env[p])
    BY DEF At
  <2>1. /\ index.torn \/ index.units = mem[p]
        /\ config[env[p]] = UnitsOf(mem[p], env[p])
    BY DEF FilesInv, PathOk, Updating
  <2>2. index' = index /\ config' = config
    <3>1. ASSUME NEW q \in Procs, Do(q) PROVE index' = index /\ config' = config
      <4>1. op[q] # "none"
        BY <3>1, PcOp DEF Do, Extract, ReadMeta, Copy, Clean, Mount, SaveOpen, SaveWrite,
           UpdateConfig, StopContainer, StartContainer, Restore, DuRemove, At, Saving
      <4>2. q = p
        BY <4>1 DEF MapInv, OneAtATime
      <4> QED
        BY <3>1, <4>2 DEF Do, Extract, ReadMeta, Copy, Clean, Mount, SaveOpen, SaveWrite,
           UpdateConfig, StopContainer, StartContainer, Restore, DuRemove, At
    <3>2. ASSUME ~ \E q \in Procs : Do(q) PROVE index' = index /\ config' = config
      BY <3>2 DEF Next, Die, Install, addDeploymentUnit, BusRemove, Reboot, Save, Prepare,
         odlDeploymentUnitUninstalled, CliRemove, removeDeploymentUnit, lxcVars
    <3> QED
      BY <3>1, <3>2
  <2> QED
    BY <2>1, <2>2
<1> QED
  BY <1>1, SoloInvariants, PTL DEF Spec, ConfigMatchesIndex

=============================================================================
