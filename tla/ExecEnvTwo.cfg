SPECIFICATION SmallSpec
CONSTANTS
  i1 = i1 i2 = i2 i3 = i3 n1 = n1 n2 = n2
  NoInst = NoInst AppStart = AppStart
  Insts = {i1, i2, i3}
  Names = {n1, n2}
  nameOf <- TwoNames
  Overlay = {i1}
  Complete = {i1, i2}
  MaxEvents = 2
  MaxRespawns = 1
  Mortal = {}
INVARIANTS TypeOK StatusFollowsEnable UpMeansRunning
PROPERTIES DestroysOnlyRemoved EnableTakesEffect DisableTakesEffect
CHECK_DEADLOCK FALSE
