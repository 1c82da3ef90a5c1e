CONSTANTS
  Ids = {1, 2, 3}
  Handles = {h1, h2, h3, h4, h5}
  Clients = {c1, c2}
  MaxSize = 2
  None = None
SPECIFICATION Spec
INVARIANTS CacheBounded CachedFsOpen CleanupOnce
PROPERTIES LostByOverwriteOnly
