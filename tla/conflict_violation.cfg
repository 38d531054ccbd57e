SPECIFICATION PlanSpec
CONSTANTS
  a1 = a1  a2 = a2  a3 = a3  gone = gone
  e1 = e1  e2 = e2  k1 = k1
  Artifacts = {a1, a2, a3}
  Unknown = {gone}
  Deps <- Joined
  Keys <- Shared
  Rank <- Order
  Runs = {e1, e2}
  Async = TRUE
  MaxFaults = 1
  MaxCrashes = 1
  RtAgents <- FiveAgents
  RtModels <- FourModels
  RtTasks <- SomeTasks
  RtCloud = "openai"
  RtCrowds = {0, 59, 90}
  DrMaxFiles = 14
  DrPath <- FirstAgain
  DrClusterLimit = 12
  PsAgents = {"orchestrator", "coder"}
  PsOrchestrator = "orchestrator"
  PsListed = {"orchestrator"}
  PsCallers = {"x", "y"}
  PsMaxCalls = 2
  PsMaxFaults = 1
  PsMaxRecovered = 1
INVARIANT KeysExclusive
CHECK_DEADLOCK FALSE
