CONSTANTS
 Objects = {o}
 Contents = {x, y, z}
 Sources = {s}
 MaxWrites = 4
SPECIFICATION Spec
INVARIANT ReconciledApplied
CHECK_DEADLOCK FALSE
