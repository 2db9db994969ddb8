SPECIFICATION Spec
CONSTANTS
  Keys = {1, 2, 3}
  Values = {0, 1}
  Default = 0
  Others <- MCOthers
  Nodes = {1, 2, 3}
  Levels = 2
  HeadNode = HeadNode TailNode = TailNode NoNode = NoNode NoItem = NoItem
  End = End Rend = Rend Dangling = Dangling
INVARIANTS TypeOK LevelsSound BackLinks
PROPERTY ImplementsOrderedMap
CHECK_DEADLOCK FALSE
