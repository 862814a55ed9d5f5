CONSTANTS
  a = a
  b = b
  Subscriber = {a}
  Listener = {l1, l2}
  NoTask = none
  Typed <- MCTyped
  QueueSize = 2
  MaxEvents = 2
  MaxDrops = 1
SPECIFICATION Spec
CHECK_DEADLOCK FALSE
INVARIANTS
  MostRecentReceived
