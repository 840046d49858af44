SPECIFICATION Spec
CONSTANTS
  Calls = {set_model, cancel}  Starting = {set_model}  MaxStarts = 2  MaxFaults = 1
PROPERTY StopIsClean
CHECK_DEADLOCK FALSE
