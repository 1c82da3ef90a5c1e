CONSTANTS
  d1 = d1
  d2 = d2
  Downloads = {d1, d2}
  Artifact <- SameArtifact
  Inodes = {n1, n2, n3}
  Length = 2
  MaxSize = 3
  None = None
SYMMETRY InodeSymmetry
SPECIFICATION Spec
INVARIANTS VerifiedIntact LiveBounded NoFileLeft
