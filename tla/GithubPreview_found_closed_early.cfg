CONSTANTS
  k1 = k1
  k2 = k2
  Keys = {k1, k2}
  PRs = {}
  ArtifactsOf <- Disjoint
  Copies = {1, 2, 3, 4}
  MaxSize = 1
  SWR = FALSE
  MaxAge = FALSE
  Ops = {"serve"}
  Requests = {r1, r2}
  Pruner = Pruner
  Stopper = Stopper
  None = None
SPECIFICATION Spec
PROPERTIES ClosedWhenUnneeded
