SPECIFICATION BothSpec
CONSTANTS
  w1 = w1  w2 = w2  r1 = r1  r2 = r2  a = a  b = b  missing = missing
  Waiters = {w1, w2}
  Reporters = {r1, r2}
  MaxReopened = 2
  Calls = {1, 2}
  Detached = {2}
  Steps = {a, b}
  LanePlans <- PlansOfCalls
  MaxFaults = 1
INVARIANTS SleeperIsKnown NoLeak DelegateSound
PROPERTIES EveryoneReturns
CHECK_DEADLOCK FALSE
