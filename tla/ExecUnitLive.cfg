SPECIFICATION FairSpec
CONSTANTS
  u1 = u1 u2 = u2 u3 = u3 s1 = s1 s2 = s2 e1 = e1
  Envs = {e1}
  NoName = NoName NoEnv = NoEnv NoUnit = NoUnit Managed = Managed
  Units = {u1, u2, u3}
  Services = {s1, s2}
  nameOf <- TwoNamed
  envOf <- ThreeEnvs
  AutoStart = {u1}
  MaxThreads = 2
  MaxEvents = 1
  Patient = TRUE
PROPERTIES IdleTakesEffect StartRetried
CHECK_DEADLOCK FALSE
