SPECIFICATION FairSpec
CONSTANTS
  n1 = n1 n2 = n2 c1 = c1 c2 = c2
  Conns = {c1, c2}
  Names = {n1, n2}
  NoBody = NoBody Junk = Junk
  Paths <- MCPaths
  normal <- MCnormal
  RouteTable <- MCRouteTable
  Bodies <- MCBodies
  Requests <- MCRequests
INVARIANT TypeOK
PROPERTIES ActsOnItsBody RefusedOnlyUnknown Answered
CHECK_DEADLOCK FALSE
