CONSTANTS
  k1 = k1
  k2 = k2
  Keys = {k1}
  PRs = {}
  ArtifactsOf <- OneKey
  Copies = {1, 2, 3, 4}
  MaxSize = 2
  SWR = TRUE
  MaxAge = FALSE
  Ops = {"serve", "refresh"}
  Requests = {r1}
  Pruner = Pruner
  Stopper = Stopper
  None = None
SPECIFICATION Spec
PROPERTIES NoFallbackRegress
