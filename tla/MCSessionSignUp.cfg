SPECIFICATION FairSpec
CHECK_DEADLOCK FALSE
CONSTANTS
  n = n
  o = o
  f = f
  g = g
  NoOne = NoOne
  Account = {n, o}
  Elsewhere = {o}
  Friend = {}
  Messages <- NoMessages
  MaxClicks = 2
  MaxViews = 2
  MaxOpens = 0
  MaxFaults = 2
INVARIANTS
  TypeOK
  BufferStaysReadable
PROPERTIES
  SignUpFinishes
