SPECIFICATION Spec
CONSTANTS
  Writers = {w1, w2, w3}  Documents = {}  MaxCrashes = 1
INVARIANT NotesKept
CHECK_DEADLOCK FALSE
