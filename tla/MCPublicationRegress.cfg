CONSTANTS
  Corpora = 2
  Units = 1
  MaxVersion = 1
  MaxRestarts = 0
SPECIFICATION Spec
INVARIANTS KnowledgeNeverRegresses
CHECK_DEADLOCK FALSE
