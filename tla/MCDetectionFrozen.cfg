CONSTANTS
  Projections <- Bridged
  Limits <- LimitThree
  UseLargestConnectedComponent = TRUE
  MaxIterations = 100
SPECIFICATION Spec
PROPERTIES EstablishedFrozen
CHECK_DEADLOCK FALSE
