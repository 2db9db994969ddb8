SPECIFICATION Spec
CONSTANTS
  d1 = d1 d2 = d2 e1 = e1
  Dus = {d1, d2}
  Ipk = {d2}
  Envs = {e1}
  envOf <- OneEnv
  Daemon = Daemon Cli = Cli
  NoDu = NoDu NoEnv = NoEnv
  Solo = TRUE
  Faults = TRUE
INVARIANTS TypeOK IndexedStored
PROPERTIES NothingLost OnlyInstalled ConfigMatchesIndex
VIEW Unreported
CHECK_DEADLOCK FALSE
