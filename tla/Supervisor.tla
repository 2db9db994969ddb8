----------------------------- MODULE Supervisor -----------------------------
(***************************************************************************)
(* The daemon of ExecEnv together with lxcd-supervisor.lua, a second       *)
(* process which reads the instances once a second and repairs what        *)
(* differs: it toggles Enable of an enabled instance whose container does  *)
(* not run and stops the container of a disabled one.  It decides on the   *)
(* values it read, and toggles with two writes.                            *)
(***************************************************************************)
EXTENDS ExecEnv

VARIABLES
  spc,    \* what the script does next
  snap,   \* the instances it read and has not handled, with their Enable
  subj,   \* the instance it toggles
  wish    \* the last value the user wrote to Enable

supVars == <<spc, snap, subj>>
allVars == <<vars, supVars, wish>>

Snapshots == [inst : Insts, enable : BOOLEAN]

SupInit == Init /\ spc = "sleep" /\ snap = {} /\ subj = NoInst /\ wish = enable

-----------------------------------------------------------------------------
(* get_execenv_instances: the bus answers between two events.  A busy      *)
(* daemon does not answer in time, and the script tries again.             *)
Poll ==
  /\ spc = "sleep" /\ Idle
  /\ snap' = {[inst |-> i, enable |-> enable[i]] : i \in present}
  /\ spc' = "handle"
  /\ UNCHANGED <<vars, subj, wish>>

(* handle_execenv_instances: what it does with one instance.               *)
NothingToDo(v) ==
  /\ spc = "handle" /\ v \in snap /\ snap' = snap \ {v}
  /\ v.enable <=> nameOf[v.inst] \in running
  /\ UNCHANGED <<vars, spc, subj, wish>>

BeginReset(v) ==
  /\ spc = "handle" /\ v \in snap /\ snap' = snap \ {v}
  /\ v.enable /\ nameOf[v.inst] \notin running
  /\ spc' = "off" /\ subj' = v.inst
  /\ UNCHANGED <<vars, wish>>

stop_container(v) ==
  /\ spc = "handle" /\ v \in snap /\ snap' = snap \ {v}
  /\ ~v.enable /\ nameOf[v.inst] \in running
  /\ running' = running \ {nameOf[v.inst]}
  /\ UNCHANGED <<dmVars, status, queue, mainVars, respawns, defined, mounted, spc,
                 subj, wish>>

(* Slips: Enable=0 and no Enable=1; the instance is not forgotten.         *)
ResetOff ==
  /\ spc \in {"off", "on"}
  /\ \/ BusWrite(subj, FALSE)
     \/ Idle /\ subj \notin present /\ UNCHANGED vars
  /\ spc' = "handle" /\ subj' = NoInst
  /\ UNCHANGED <<snap, wish>>

ResetKeeps ==
  /\ spc \in {"off", "on"}
  /\ \/ BusWrite(subj, spc = "on")
     \/ Idle /\ subj \notin present /\ UNCHANGED vars
  /\ spc' = IF spc = "off" THEN "on" ELSE "handle"
  /\ UNCHANGED <<snap, subj, wish>>

(* reset_container_enable: Enable=0, then Enable=1.  A write to an         *)
(* instance that is gone fails.                                            *)
ResetWrite ==
  /\ spc \in {"off", "on"}
  /\ \/ BusWrite(subj, spc = "on")
     \/ Idle /\ subj \notin present /\ UNCHANGED vars
  /\ spc' = IF spc = "off" THEN "on" ELSE "handle"
  /\ subj' = IF spc = "off" THEN subj ELSE NoInst
  /\ UNCHANGED <<snap, wish>>

Sleep ==
  /\ spc = "handle" /\ snap = {} /\ spc' = "sleep"
  /\ UNCHANGED <<vars, snap, subj, wish>>

SupStep ==
  \/ Poll \/ ResetWrite \/ Sleep
  \/ \E v \in snap : NothingToDo(v) \/ BeginReset(v) \/ stop_container(v)

-----------------------------------------------------------------------------
(* The user's writes, which the ghost variable wish remembers.             *)
UserWrite(i, b) ==
  /\ BusWrite(i, b) /\ wish' = [wish EXCEPT ![i] = b]
  /\ UNCHANGED supVars
UserAdd(i) ==
  /\ AddInstance(i) /\ wish' = [wish EXCEPT ![i] = TRUE]
  /\ UNCHANGED supVars
UserBusAdd(i, b) ==
  /\ BusAdd(i, b) /\ wish' = [wish EXCEPT ![i] = b]
  /\ UNCHANGED supVars

Daemon ==
  /\ \/ MainStep \/ Save \/ Respawn
     \/ \E i \in Insts : BusRemove(i)
     \/ \E n \in Names : ContainerEnds(n)
  /\ UNCHANGED <<supVars, wish>>

SupNext ==
  \/ SupStep \/ Daemon
  \/ \E i \in Insts : UserAdd(i) \/ \E b \in BOOLEAN : UserWrite(i, b) \/ UserBusAdd(i, b)

SupSpec == SupInit /\ [][SupNext]_allVars

(* The script keeps running, its commands find a moment the daemon serves  *)
(* the bus.                                                                *)
SupFairness ==
  /\ Fairness
  /\ SF_allVars(Poll) /\ SF_allVars(ResetWrite)
  /\ WF_allVars(Sleep \/ \E v \in snap : NothingToDo(v) \/ BeginReset(v) \/ stop_container(v))

-----------------------------------------------------------------------------
(* The type of the script's variables. *)
SupTypeOK ==
  /\ TypeOK /\ wish \in [Insts -> BOOLEAN]
  /\ spc \in {"sleep", "handle", "off", "on"} /\ snap \subseteq Snapshots
  /\ IF spc \in {"off", "on"} THEN subj \in Insts ELSE subj = NoInst

(* A container that should run and died, or was stopped on an old reading, *)
(* or was added on the bus and never started, runs again                   *)
(* (lxcd-supervisor.lua:92-102).  That needs a daemon which now and then   *)
(* has nothing left to do while the script sleeps its second (:119): one    *)
(* that is always behind may be told Enable=0 again before it comes to     *)
(* Enable=1, and one that procd has given up on does nothing.              *)
Prompt == []<>(spc = "sleep" /\ Idle /\ queue = <<>>)
SelfHealing == Prompt => \A i \in Complete :
  i \in present /\ wish[i] ~>
    (nameOf[i] \in running \/ i \notin present \/ ~wish[i])

(* "Enables or disables the execution environment": while it stays         *)
(* disabled by the user, its container does not run for ever.              *)
DisableHolds == \A i \in Insts :
  <>[](~wish[i] /\ i \in present /\ mpc # "dead") => []<>(nameOf[i] \notin running)

=============================================================================
