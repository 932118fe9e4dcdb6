SPECIFICATION FairSpec
CONSTANTS
  Clients = {c1, c2}
  Callers = {p1}
  None = None
  BroadcastCap = 1
  SendCap = 1
  MaxMessages = 6
  Stopping = TRUE
INVARIANTS TypeOK NoPanic
PROPERTIES FeedSpec BroadcastReturns LostClientsLeave
CHECK_DEADLOCK FALSE
