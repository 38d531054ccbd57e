SPECIFICATION MCSpec
CONSTANTS
  r1 = r1  r2 = r2  i1 = i1  i2 = i2
  Requests = {r1, r2}
  RequestIds = {i1, i2}
  Topics = {"t"}  Watched = {"t"}
  Publishers = {"p"}
  HistorySize = 1  ChannelSize = 1  MaxEvents = 2
  Writers = {"reader", "stream"}
  Reader = "reader"
  MaxMessage = 2  MaxControl = 1  Sizes = {1, 2}  MaxFrames = 3  MaxSent = 1
  p1 = p1  p2 = p2  m1 = m1  m2 = m2  m3 = m3  m4 = m4
  NoModel = NoModel
  Providers = {p1, p2}
  Configured = {p1}
  Names <- FourNames
  Default = m2
  NotForTransport = {m4}
  Inventories <- SomeInventories
  Replies <- SomeReplies
  Callers = {r1, r2}
  Interval = 1  PendingTTL = 2  ConfirmationTTL = 2  RetryCooldown = 2
  ValidationLimit = 1  QueueLimit = 2
  MaxTime = 2  MaxRestarts = 1
INVARIANTS StreamsSound FramesSound ModelsVerified
PROPERTIES NoSendOnClosed RefreshesInOrder
SYMMETRY Alike
CHECK_DEADLOCK FALSE
