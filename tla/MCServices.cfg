CONSTANTS
  w1 = w1
  w2 = w2
  NoWriter = NoWriter
  z1 = z1
  z2 = z2
  s1 = s1
  s2 = s2
  member = member
  done = done
  a = a
  b = b
  c = c
  d = d
  plain = plain
  other = other
  k1 = k1
  Writers <- MCWriters
  Zones <- MCZones
  Streams <- MCStreams
  EventTypes <- MCTypes
  EventIDs <- MCEventIDs
  Contents <- MCContents
  Batches <- MCBatches
  AtomicBatches <- MCAtomicBatches
  Consumers = {k1}
  c1 = c1
  c2 = c2
  x = x
  y = y
  u1 = u1
  u2 = u2
  d1 = d1
  d2 = d2
  d3 = d3
  o1 = o1
  s = s
  p1 = p1
  q1 = q1
  m1 = m1
  m2 = m2
  a1 = a1
  a2 = a2
  i1 = i1
  i2 = i2
  good = good
  e1 = e1
  e2 = e2
  e3 = e3
  r1 = r1
  r2 = r2
  DocumentContents = {c1, c2}
  Extensions = {x, y}
  Uploaders = {u1, u2}
  MaxUploads = 4
  MaxCrashes = 1
  Documents = {d1, d2}
  ChildDocuments = {d1}
  TextBatches <- TextsOfDocuments
  MaxRecorded = 3
  MaxCorpora = 4
  MaxRestarts = 1
  Objects = {o1}
  VersionContents = {x, y, c1}
  Sources = {s}
  MaxWrites = 4
  Agents = {a1, a2}
  Memories = {m1, m2}
  MessageLists <- Conversations
  MaxCalls = 3
  Subjects = {s}
  ObservationIds = {i1, i2}
  Grades = {good}
  Times = {1, 2}
  Models = {m1, m2}
  Submitters = {c1, c2}
  MaxVersions = 2
  MaxStops = 1
  Relations = {r1, r2}
  RelationEnds <- EndsOfRelations
  ChangeThreshold = 2
  Pages = 2
  MaxChanges = 3
  MaxManifests = 3
  MaxReportStops = 1
  Runners = {a1, a2}
  Requests = {p1}
  Root = s
  FollowUps <- FollowUpsOfBranches
  Folds = 1
  MaxPrompt = 1
  Prompts = {1, 2}
  Feedback = 1
  MaxDepth = 2
  BatchSize = 2
  MaxBranches = 2
  ModelCalls = 6
  PromptTokens = 5
  OutputTokens = 4
  HyDEMax = 1
  PrimerMax = 1
  BranchMax = 1
  ReduceMax = 1
  Datasets <- CitedDatasets
  MaxRow = 1
  Answers = 3
  FoldAnswers = 1
  MaxCites = 2
  ReportTable <- PublishedReports
  Parent <- ParentOfReport
  Level <- LevelOfReport
  Rank <- RankOfReport
  ReportEntities <- EntitiesOfReport
  TextUnits <- TextUnitsOfEntity
  Size <- SizeOfReport
  CommunityLevel = 2
  MinimumRank = 1
  MaxContextTokens = 3
  Header = 1
  RatingThreshold = 1
  KeepParent = FALSE
  Repeats = 2
  MaxLevel = 1
  Ratings = {0, 1}
  MaxConcurrency = 2
  Responses <- ModelResponses
  DataMaxTokens = 2
  AllowGeneralKnowledge = FALSE
SPECIFICATION ServicesSpec
INVARIANTS ServicesTypeOK WellNumbered CompletionVisible
INVARIANTS ContentKept CorporaWhole EvidenceStored Restartable DriftBounded ReadySearchable ReleasedLast
INVARIANTS RequestSound CitationsResolve
PROPERTIES ImplementsEventLog EventuallyCurrent ReplacedAsAssigned EventuallyExits
CHECK_DEADLOCK FALSE
