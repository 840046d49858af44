SPECIFICATION MCSpec
CONSTANTS
  Permissions = {p1, r1, r2, r3}
  AutoPermissions = {r1, r2, r3}
  Questions = {q1, q2}
  Reasked = {p1}
  MaxQueue = 2
  CardQuestions = {q1}
  ClientsMaxQueue = 1
  MaxTurns = 1
  MaxClients = 2
  MaxInFlight = 1
  MaxPathChanges = 1
  None = None
INVARIANTS CardIsHead InputProtected OpenIsQueued AnsweredLeaves
PROPERTIES AutoAcceptDrains
CHECK_DEADLOCK FALSE
