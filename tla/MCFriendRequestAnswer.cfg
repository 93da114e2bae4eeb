SPECIFICATION AnswerSpec
CHECK_DEADLOCK FALSE
CONSTANTS
  a = a
  b = b
  User = {a, b}
  NoOne = NoOne
  MaxQueue <- TwoAndFour
  MaxAsks <- AnswerAsks
  MaxFaults <- OneFaultEach
PROPERTIES
  AgreedBecomeFriends
  RequestsAreListed
