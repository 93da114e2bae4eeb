SPECIFICATION CrossSpec
CHECK_DEADLOCK FALSE
CONSTANTS
  a = a
  b = b
  User = {a, b}
  NoOne = NoOne
  MaxQueue <- TwoAndFour
  MaxAsks <- CrossAsks
  MaxFaults <- OneFaultEach
INVARIANTS
  TypeOK
  RequestCanBeAnswered
  FriendshipIsMutual
  FriendsOnlyByConsent
