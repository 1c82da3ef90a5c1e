CONSTANTS
  Limit = 128
  K = 4
  Default <- DefaultValues
  ApiDefault <- WellKnown
  Options <- SampleOptions
  MaxLines = 4
  Numbers <- WrittenNumbers
  Paths <- ApiPaths
  Labels <- HostLabels
  Atoi <- AtoiOf
  Decimal <- DecimalOf
  NoLabel = NoLabel
SPECIFICATION Spec
INVARIANTS SampleProvisions
CHECK_DEADLOCK FALSE
