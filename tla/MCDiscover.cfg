SPECIFICATION BoundedSpec
CHECK_DEADLOCK FALSE
CONSTANTS
  a = a
  b = b
  User = {a, b}
  Requests <- Agreeing
  MaxTime = 2
  Clock <- Clocks
  MaxQueue <- Queues
  MaxFaults <- Faults
PROPERTIES
  PostsStayOnScreen
  PostIsShown
  ImplementsFeed
