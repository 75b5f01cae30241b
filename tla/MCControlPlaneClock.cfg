CONSTANTS
  z1 = z1
  z2 = z2
  ta = ta
  tb = tb
  known = known
  other = other
  automatic = automatic
  manual = manual
  a1 = a1
  e1 = e1
  e2 = e2
  o1 = o1
  Zones = {z1}
  Keys <- OneKey
  Versions = {known}
  KeyVersion = known
  Starters = {automatic}
  Retriers = {manual}
  MaxLog = 1
  MaxRestarts = 0
  Scan <- OnePair
  Editors = {e1}
  Operators = {}
  Settings <- BatchOnly
  MaxRevision = 1
  MaxEvents = 1
  LastInput = 1
  MaxClock = 1
SPECIFICATION ActionsSpec
INVARIANTS PendingSinceValid
CHECK_DEADLOCK FALSE
