CONSTANTS
  z1 = z1
  z2 = z2
  ta = ta
  tb = tb
  current = current
  other = other
  s1 = s1
  s2 = s2
  KeyVersion = current
  Zones = {z1}
  EventTypes = {ta, tb}
  Versions = {current, other}
  Streams = {s1, s2}
  Keys <- TwoKeys
  MaxEvents = 3
  MaxRestarts = 1
  n1 = n1
  m1 = m1
  m2 = m2
  c1 = c1
  c2 = c2
  r1 = r1
  Corpora = 2
  Units = 2
  MaxVersion = 1
  MaxStops = 1
  Projections <- SixProjections
  Limits <- LimitsOfProjections
  UseLargestConnectedComponent = TRUE
  MaxIterations = 100
  Names = {n1}
  Ids = {1, 2}
  Tokens <- OneToken
  Samples <- TwoDimensions
  Models = {m1, m2}
  Callers = {c1, c2}
  Readers = {r1}
  BatchSize = 1
  BatchMaxTokens = 1
  PageLimit = 1
  MaxAdds = 2
  MaxDeletes = 1
  MaxStarts = 1
SPECIFICATION PipelineSpec
INVARIANTS PipelineTypeOK AheadOnlyAsContinuation WalkedOnce
INVARIANTS EpochsJoined DetectionSound VectorsKept
PROPERTIES ImplementsDelivery EventuallyHandled EventuallyCurrent
CHECK_DEADLOCK FALSE
