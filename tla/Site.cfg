CONSTANTS
  N = 3
  Paths <- PathSet
  Parent <- ParentOf
  Sites <- AnySite
  Overlays <- OverlaySet
  Visitors <- VisitorSet
  Clients = {c1, c2}
  None = None
SPECIFICATION Spec
SYMMETRY Symmetry
INVARIANTS FirstLayerWins ListedOpens EncodingHonest FaultsReported MemoryWhole
CHECK_DEADLOCK FALSE
