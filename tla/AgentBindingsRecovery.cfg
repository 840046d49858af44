SPECIFICATION RecoverySpec
CONSTANTS
  Sessions = {s1, s2}
  Agents = {a1}
  Projects = {{s1, s2}}
  MaxEdits = 1
  None = None
PROPERTY RecoveryHelps
CHECK_DEADLOCK FALSE
