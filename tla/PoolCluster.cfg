SPECIFICATION ClusterFairSpec
CONSTANTS
  a = a
  b = b
  c = c
  a1 = a1
  b1 = b1
  Machines = {a, b, c}
  NoOne = NoOne
  Handlers = {a1, b1}
  HomeOf <- MCHomeOf
  PeersOf <- MCPeersOf
  Requests <- MCRequests
  Installed <- MCInstalled
  PathHasRpc = {b}
  MaxBroken = 1
INVARIANTS NoOrphanedHost
PROPERTIES StopsHitTheirOwn HandlersEnd
CHECK_DEADLOCK FALSE
