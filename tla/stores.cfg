SPECIFICATION MCSpec
CONSTANTS
  p1 = p1  p2 = p2  k1 = k1  k2 = k2
  PgClients = {p1, p2}
  PgMaxConns = 2
  PgKeys = {k1, k2}
  PgBatches <- OneWayAndBack
  PgBlank = "blank"
  PgRowsBound = 1  PgMaxCalls = 3
  FsSlots = {"s1", "s2"}
  FsMaxCalls = 3
  LoCallers = {p1, p2}
  LoModels = {"m"}
  LoEndpoints <- TwoServers
  LoAttempts = 2
  LoMaxCalls = 2  LoMaxFaults = 1
INVARIANTS SavesSound AckedSurvives LocalSound
PROPERTIES CallsEnd
CHECK_DEADLOCK FALSE
