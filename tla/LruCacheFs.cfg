CONSTANTS
  a = a
  b = b
  c = c
  big = big
  dir = dir
  empty = empty
  Names = {a, b, c, big, dir, empty}
  Dirs = {dir}
  Size <- Sizes
  MaxBytes = 3
  Procs = {p1, p2}
  None = None
SYMMETRY Symmetry
SPECIFICATION Spec
INVARIANTS TypeOK BytesAccounted ListConsistent
PROPERTY ReadCacheSpec
