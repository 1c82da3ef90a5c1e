CONSTANTS
  pr42 = pr42
  Keys = {pr42}
  ArtifactsA <- BuildsA
  ArtifactsB <- BuildsB
  RequestsA = {a1}
  RequestsB = {b1}
  Copies = {1, 2}
  MaxSize = 1
  Pruner = Pruner
  Stopper = Stopper
  None = None
SPECIFICATION Spec
INVARIANTS OwnSite
CHECK_DEADLOCK FALSE
