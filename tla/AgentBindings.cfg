SPECIFICATION FairSpec
CONSTANTS
  Sessions = {s1, s2}
  Agents = {a1}
  Projects = {{s1, s2}}
  MaxEdits = 1
  None = None
INVARIANTS ClosedForGood ForksSurvive IdentityKept
PROPERTIES StopEnds
CHECK_DEADLOCK FALSE
