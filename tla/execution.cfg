SPECIFICATION PartsSpec
CONSTANTS
  j1 = j1  j2 = j2  j3 = j3  a1 = a1  a2 = a2  m1 = m1  prov1 = prov1  prov2 = prov2
  byKey = byKey  byModel = byModel
  Global = Global
  Jobs = {j1, j2, j3}
  AgentOf <- TwoAgents
  ModelOf <- OneModel
  GlobalMax = 2
  PerAgentMax = 1
  PerModelMax = 1
  Tasks = {prov1, prov2}
  Gates = {byKey, byModel}
  KeyGate <- OneKey
  ModelGate <- OneGate
  Native = {prov1, prov2}
  Fallback = {prov1}
  Tooled = {prov1}
  GateMax = 1
  DeltaBuffer = 1
  MaxRetries = 1
  MaxRounds = 2
  MaxTokens = 1
  MayLeave = {prov1}
  Probed = {prov1, prov2}
  ProbeWorkers = {a1, a2}
  ProbeQueue = 1
  ReadyTTL = 1
  FailureCooldown = 1
  RateLimitCooldown = 2
  LastTick = 3
INVARIANTS SlotsKept DeltasWhole ProbesSound
PROPERTIES WorkEnds
CHECK_DEADLOCK FALSE
