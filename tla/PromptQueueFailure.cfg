SPECIFICATION Spec
CONSTANTS
  Sessions = {s1}
  Messages = {1, 2, 3}
  MaxWire = 2
INVARIANTS FailedDeliveryKeepsQueue
CHECK_DEADLOCK FALSE
