SPECIFICATION Spec
CONSTANTS
  t1 = t1  t2 = t2  t3 = t3
  g1 = g1  g2 = g2  w1 = w1  w2 = w2
  None = None
  Tasks = {t1, t2, t3}
  Recurring = {}
  Groups = {g1, g2}
  GroupKey <- TwoSessions
  BaseScore <- Mixed
  AgeCap = 0
  Workers = {w1, w2}
  MaxBuffered = 2
  MaxInFlight = 1
  MayClose = TRUE
  MaxFaults = 1
INVARIANTS GroupLimit NoLostWakeup TasksAccounted
CHECK_DEADLOCK FALSE
SYMMETRY Alike
