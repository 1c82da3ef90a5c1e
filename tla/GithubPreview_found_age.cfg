CONSTANTS
  k1 = k1
  k2 = k2
  Keys = {k1, k2}
  PRs = {}
  ArtifactsOf <- Disjoint
  Copies = {1, 2, 3, 4}
  MaxSize = 3
  SWR = FALSE
  MaxAge = TRUE
  Ops = {"serve", "prune"}
  Requests = {r1}
  Pruner = Pruner
  Stopper = Stopper
  None = None
SPECIFICATION Spec
PROPERTIES AgeEvictsOldest
