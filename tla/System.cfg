SPECIFICATION HealthySpec
CONSTANTS
  i1 = i1 n1 = n1 u1 = u1
  NoInst = NoInst AppStart = AppStart
  Insts = {i1}
  Names = {n1}
  nameOf <- OneName
  Overlay = {i1}
  Complete = {i1}
  MaxEvents = 2
  MaxRespawns = 1
  Mortal = {n1}
  Units = {u1}
  envOf <- OneEnv
INVARIANTS SysTypeOK OneInstance
PROPERTIES SelfHealing AutoStarted
CHECK_DEADLOCK FALSE
