SPECIFICATION FairSpec
CONSTANTS
  t1 = t1  t2 = t2  t3 = t3
  g1 = g1  g2 = g2  w1 = w1  w2 = w2
  None = None
  Tasks = {t1, t3}
  Recurring = {t1}
  Groups = {g1, g2}
  GroupKey <- TwoSessions
  BaseScore <- Equal
  AgeCap = 1
  Workers = {w1}
  MaxBuffered = 2
  MaxInFlight = 1
  MayClose = TRUE
  MaxFaults = 1
PROPERTIES EveryTaskDispatched ShutdownDrains
CHECK_DEADLOCK FALSE
