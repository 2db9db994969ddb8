-------------------------- MODULE PatientExecUnit --------------------------
(***************************************************************************)
(* ExecUnit with a ghost variable that tells when the ACS was not patient. *)
(* stop() and the second read of the pid (linux.h:292 and :375) rely on a  *)
(* command that was attached; a write to a unit whose worker is still on   *)
(* its way there breaks that, as the run ExecUnitStopRace shows.  This     *)
(* module says what holds as long as it did not happen.                    *)
(***************************************************************************)
EXTENDS ExecUnit

VARIABLE hasty  \* the ACS once wrote to a unit whose worker had not attached

OnItsWay(t) == wpc[t] \in {"check", "attach"}
HastyWrite == \E u \in Units, v \in States :
  AcsWrite(u, v) /\ \E t \in Threads : unit[t] = u /\ OnItsWay(t)

HastyInit == Init /\ hasty = FALSE
HastyNext == Next /\ hasty' = (hasty \/ HastyWrite)
HastySpec == HastyInit /\ [][HastyNext]_<<vars, hasty>>

-----------------------------------------------------------------------------
(* IdleMeansStopped, while the ACS waits for the attach: a unit that shows *)
(* Idle as requested has no command left (stop, linux.h:292).              *)
PatientIdleMeansStopped == hasty \/ IdleMeansStopped

(* SingleInstance, while the ACS waits for the attach: no second command   *)
(* of a service is attached next to one that runs (linux.h:330).           *)
PatientSingleInstance == hasty \/ SingleInstance

(* ChildWatched, while the ACS waits for the attach: the second read of    *)
(* the pid finds the child of the same worker (linux.h:375).               *)
PatientChildWatched == hasty \/ ChildWatched

=============================================================================
