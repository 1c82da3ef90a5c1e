CONSTANTS
  Limit = 128
  K = 4
  Default <- DefaultValues
  ApiDefault <- WellKnown
  Options <- AllOptions
  MaxLines = 4
  Numbers <- WrittenNumbers
  Paths <- ApiPaths
  Labels <- HostLabels
  Atoi <- AtoiOf
  Decimal <- DecimalOf
  NoLabel = NoLabel
SPECIFICATION Spec
INVARIANTS LimitsUsable SizesAsWritten ApiGuarded ApiNamesHost
CHECK_DEADLOCK FALSE
