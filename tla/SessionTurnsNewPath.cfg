SPECIFICATION FairSpec
CONSTANTS
  Permissions = {p1}
  Questions = {q1}
  Reasked = {}
  MaxQueue = 2
  MaxTurns = 1
  MaxClients = 1
  MaxInFlight = 2
  MaxPathChanges = 1
  None = None
PROPERTY PendingCardsDrain
CHECK_DEADLOCK FALSE
