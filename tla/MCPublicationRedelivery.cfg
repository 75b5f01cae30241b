CONSTANTS
  Corpora = 1
  Units = 1
  MaxVersion = 0
  MaxRestarts = 1
SPECIFICATION Spec
INVARIANTS RedeliveryAccepted
CHECK_DEADLOCK FALSE
