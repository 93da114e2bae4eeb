SPECIFICATION Spec
CHECK_DEADLOCK FALSE
CONSTANTS
  a = a
  b = b
  c = c
  User = {a, b}
  Group = {1, 2}
  Rooms <- SharedRooms
  NoRoom = NoRoom
  MaxTime = 2
  Clock <- ClockOfA
  MaxStarts <- None
  MaxViews <- TwoForA
  MaxQueue <- TwoForAOneForB
  MaxFaults <- OneForA
INVARIANTS
  OnlyLastUnreadHasBadge
  BadgesFollowMessages
  BadgesAreForOthersMessages
