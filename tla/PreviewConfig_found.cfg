\* One property at a time: TLC stops at the first that is violated.
CONSTANTS
  Limit = 128
  K = 4
  Default <- DefaultValues
  ApiDefault <- WellKnown
  Options <- AllOptions
  MaxLines = 4
  Numbers <- WrittenNumbers
  Paths <- ApiPaths
  Labels <- HostLabels
  Atoi <- AtoiOf
  Decimal <- DecimalOf
  NoLabel = NoLabel
SPECIFICATION Spec
INVARIANT NeverPanics
\* INVARIANT OneKeyPerPR
\* INVARIANT TrailingSlashIgnored
CHECK_DEADLOCK FALSE
