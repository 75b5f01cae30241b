CONSTANTS
  e = e
  r = r
  x = x
  y = y
  Objects = {e, r}
  Refs <- RelationOfEntity
  Contents = {x, y}
  Sources = {s1, s2, s3, s4, s5}
  Agents = {ann, bob}
  Batches <- Submissions
SYMMETRY Symmetry
SPECIFICATION Spec
INVARIANTS PendingReviewable
CHECK_DEADLOCK FALSE
