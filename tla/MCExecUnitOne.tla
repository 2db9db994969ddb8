--------------------------- MODULE MCExecUnitOne ---------------------------
(* Instances of PatientExecUnit for TLC: one unit, and an ACS that writes   *)
(* whenever it likes.                                                       *)
EXTENDS MCExecUnit, PatientExecUnit

=============================================================================
