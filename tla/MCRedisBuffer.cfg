CONSTANTS
  a = a
  b = b
  Subscriber = {a, b}
  Listener = {l1, l2}
  NoTask = none
  Typed <- MCTyped
  QueueSize = 1
  MaxEvents = 3
  MaxDrops = 1
SPECIFICATION MCSpec
CHECK_DEADLOCK FALSE
INVARIANTS
  TypeOK
  InOrderOnce
  NoStrayListener
  NewestKept
PROPERTIES
  ListensAgain
