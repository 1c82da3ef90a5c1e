CONSTANTS
  k1 = k1
  k2 = k2
  Keys = {k1}
  PRs = {k1}
  ArtifactsOf <- OneArtifact
  Copies = {1}
  MaxSize = 1
  SWR = FALSE
  MaxAge = TRUE
  Ops = {"serve", "prune", "stop"}
  Requests = {r1, r2}
  Pruner = Pruner
  Stopper = Stopper
  None = None
SPECIFICATION Spec
INVARIANTS TypeOK
PROPERTIES CacheUsedRight RequestsAnswered ShutdownEnds
CHECK_DEADLOCK FALSE
