SPECIFICATION FairSpec
CHECK_DEADLOCK FALSE
CONSTANTS
  a = a
  b = b
  User = {a, b}
  NoChat = NoChat
  MaxTime = 1
  Clock <- LiveClock
  MaxViews <- LiveViews
  MaxQueue <- LiveQueue
  MaxEvents <- LiveEvents
  MaxFaults <- LiveFaults
PROPERTIES
  SentIsShown
