SPECIFICATION MCFairSpec
CONSTANTS
  t1 = t1  t2 = t2  a1 = a1  a2 = a2
  w1 = w1  w2 = w2  r1 = r1  r2 = r2
  None = None  foreign = foreign
  Tasks = {t1, t2}
  Agents = {a1, a2}
  Workers = {w1, w2}
  AgentOf <- PoolAgents
  ResultWorkers = {r1, r2}
  MaxFaults = 1
  MaxInspections = 1
  BrTasks = {t1, t2}
  BrPlain = {t1}
  BrForeign = {foreign}
  BrWorkers = {w1}
  BrMaxRetries = 1  BrMaxLost = 1  BrMaxFaults = 1  BrMaxCrashes = 2
INVARIANTS ResponsibilityHeld BrokerAccounted
PROPERTIES OutcomesStand EverythingSettles
CHECK_DEADLOCK FALSE
