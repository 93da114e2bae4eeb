SPECIFICATION FairSpec
CHECK_DEADLOCK FALSE
CONSTANTS
  a = a
  b = b
  c = c
  User = {a, b, c}
  Group = {1}
  Rooms <- NoRooms
  NoRoom = NoRoom
  MaxTime = 1
  Clock <- ClockOfA
  MaxStarts <- OneForA
  MaxViews <- OneForA
  MaxQueue <- TwoForAOneForB
  MaxFaults <- OneForA
INVARIANTS
  TypeOK
  ListedGroupsExist
PROPERTIES
  MembersAreTold
  BadgeIsSeen
