SPECIFICATION Spec
CHECK_DEADLOCK FALSE
CONSTANTS
  n = n
  o = o
  f = f
  g = g
  NoOne = NoOne
  Account = {n, o}
  Elsewhere = {n, o}
  Friend = {f, g}
  Messages <- MessageEach
  MaxClicks = 2
  MaxViews = 3
  MaxOpens = 1
  MaxFaults = 1
INVARIANTS
  BadgesOfOneAccountStay
  BadgesAreSomebodys
