SPECIFICATION MCSpec
CONSTANTS
  c1 = c1  c2 = c2  a1 = a1  a2 = a2
  Lanes <- TwoLanes
  Listed <- AllReady
  Callers = {c1, c2}
  Past = 2
  Brief = 1
  Quarantine = 3
  Spans = {2}
  MaxSpan = 3
  MaxTime = 1
  MaxCalls = 2
  MeItems <- ItemsOfEachKind
  MeTexts = {1, 2}
  MeWriters = {c1, c2}
  MeSession = "s"
  MeBranch = "main"
  MeLimits = {1, 2}
  MeTopK = 1
  MeMaxWrites = 2
  RkTypes = {"code", "research", "docs"}
  RkComplexities = {"low", "medium", "high", "critical"}
  RkScopes = {"session", "task", "history", "deep-history", "distilled"}
  RkFiles = {0, 4, 20}
  RkCriteria = {0, 20}
  RkAskedTopK = {0, 1, 2, 20}
  RkRanked <- TasksOfEachWeighting
  RkChunks <- ChunksOfAllKinds
  RkMaxFound = 3
  RkWords <- LengthsAroundLimits
  RhAgents = {"a", "b"}
  RhOutcomes <- OutcomesOfAllKinds
  RhCandidates = 4
  RhTopK = 3
  RhMaxOutcomes = 5
  LmCoding = {c1, c2}
  LmTasks = {"t"}
  LmModels = {"m1", "m2"}
  LmKinds = {"token"}
  LmTransports = {"native"}
  LmMaxRuns = 3
  LmMaxPicks = 2
INVARIANTS RetrievalSound MetricsSound LanesSound
PROPERTIES  SuppressionStands
SYMMETRY Interchangeable
CHECK_DEADLOCK FALSE
