\* One property at a time: TLC stops at the first that is violated.
CONSTANTS
  N = 3
  Paths <- PathSet
  Parent <- ParentOf
  Sites <- AnySite
  Overlays <- OverlaySet
  Visitors <- VisitorSet
  Clients = {c1, c2}
  None = None
SPECIFICATION Spec
SYMMETRY Symmetry
INVARIANT FilesWhole
\* INVARIANT NeverBroken
\* INVARIANT SampleObject
\* INVARIANT ListingComplete
\* INVARIANT DeniedStaysDenied
\* INVARIANT SuccessIsWhole
\* INVARIANT LabelComplete
\* INVARIANT RightScheme
\* INVARIANT NeverPanics
CHECK_DEADLOCK FALSE
