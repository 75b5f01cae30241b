CONSTANTS
  e = e
  r = r
  x = x
  y = y
  Objects = {e, r}
  Refs <- RelationOfEntity
  Contents = {x, y}
  Sources = {s1, s2, s3, s4, s5}
  Agents = {ann, bob}
  Batches <- Submissions
  s1 = s1
  s2 = s2
  s3 = s3
  s4 = s4
  s5 = s5
  idle = idle
  cat = cat
SYMMETRY Interchangeable
SPECIFICATION TablesSpec
INVARIANTS ReferencesActive OnePendingPerKey ReplacedOnlyWhenDecided ReplayReturnsFirst
INVARIANTS StoreSound
PROPERTIES ResolvedAsReviewed TransactionsAtomic
CHECK_DEADLOCK FALSE
