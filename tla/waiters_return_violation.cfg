SPECIFICATION WaitersSpec
CONSTANTS
  w1 = w1  w2 = w2  r1 = r1  r2 = r2  a = a  b = b  missing = missing
  Waiters = {w1}
  Reporters = {r1}
  MaxReopened = 0
  Calls = {1}
  Detached = {1}
  Steps = {a, b}
  LanePlans <- PlansOfCalls
  MaxFaults = 0
PROPERTIES WaitReturns
CHECK_DEADLOCK FALSE
