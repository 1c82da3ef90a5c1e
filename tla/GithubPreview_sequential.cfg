CONSTANTS
  k1 = k1
  k2 = k2
  Keys = {k1, k2}
  PRs = {k1}
  ArtifactsOf <- Disjoint
  Copies = {1, 2, 3, 4}
  MaxSize = 2
  SWR = FALSE
  MaxAge = FALSE
  Ops = {"serve", "refresh", "evict"}
  Requests = {r1}
  Pruner = Pruner
  Stopper = Stopper
  None = None
SPECIFICATION Spec
INVARIANTS ServedFsOpen MapFollowsMetadata RefreshReportsServed
PROPERTIES RetryAfterTTL
