CONSTANTS
  k1 = k1
  k2 = k2
  Keys = {k1}
  PRs = {}
  ArtifactsOf <- OneArtifact
  Copies = {1, 2, 3, 4}
  MaxSize = 2
  SWR = FALSE
  MaxAge = FALSE
  Ops = {"serve", "evict"}
  Requests = {r1, r2}
  Pruner = Pruner
  Stopper = Stopper
  None = None
SPECIFICATION Spec
INVARIANTS FreshKeyRegistered
