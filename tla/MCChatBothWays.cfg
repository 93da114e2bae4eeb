SPECIFICATION TalkingSpec
CHECK_DEADLOCK FALSE
CONSTANTS
  a = a
  b = b
  User = {a, b}
  NoChat = NoChat
  MaxTime = 2
  Clock <- BothWaysClock
  MaxViews <- BothWaysViews
  MaxQueue <- BothWaysQueue
  MaxEvents <- BothWaysEvents
  MaxFaults <- BothWaysFaults
INVARIANTS
  NoMessageLost
  CopiesAgree
PROPERTIES
  ImplementsLog
