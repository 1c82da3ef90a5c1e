CONSTANTS
  k1 = k1
  k2 = k2
  Keys = {k1, k2}
  PRs = {}
  ArtifactsOf <- Disjoint
  Copies = {1, 2, 3, 4}
  MaxSize = 3
  SWR = TRUE
  MaxAge = FALSE
  Ops = {"serve", "stop"}
  Requests = {r1}
  Pruner = Pruner
  Stopper = Stopper
  None = None
SPECIFICATION Spec
INVARIANTS RefreshMarked StopLeavesNothing
PROPERTIES ShutdownEnds
CHECK_DEADLOCK FALSE
