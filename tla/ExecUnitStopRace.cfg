SPECIFICATION Spec
CONSTANTS
  u1 = u1 u2 = u2 u3 = u3 s1 = s1 s2 = s2 e1 = e1
  Envs = {e1}
  NoName = NoName NoEnv = NoEnv NoUnit = NoUnit Managed = Managed
  Units = {u1}
  Services = {s1}
  nameOf <- OneName
  envOf <- OneEnv
  AutoStart = {}
  MaxThreads = 2
  MaxEvents = 2
  Patient = FALSE
INVARIANT IdleMeansStopped

CHECK_DEADLOCK FALSE
