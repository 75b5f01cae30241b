CONSTANTS
  z1 = z1
  z2 = z2
  ta = ta
  tb = tb
  known = known
  other = other
  automatic = automatic
  manual = manual
  a1 = a1
  e1 = e1
  e2 = e2
  o1 = o1
  Zones = {z1}
  Keys <- TwoKeys
  Versions = {known, other}
  KeyVersion = known
  Starters = {automatic}
  Retriers = {manual}
  MaxLog = 2
  MaxRestarts = 1
  Scan <- TwoZones
  Editors = {e1, e2}
  Operators = {o1}
  Settings <- AllSettings
  MaxRevision = 2
  MaxEvents = 2
  LastInput = 0
  MaxClock = 1
SPECIFICATION ActionsSpec
INVARIANTS EffectsInOrder NoLostWake RedeliveredOnlyAfterRestart FailedBoundaryRests
INVARIANTS AtMostOneStaleStart
PROPERTIES EventuallyDelivered ImplementsDelivery EventuallyStarted
CHECK_DEADLOCK FALSE
