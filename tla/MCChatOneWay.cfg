SPECIFICATION Spec
CHECK_DEADLOCK FALSE
CONSTANTS
  a = a
  b = b
  User = {a, b}
  NoChat = NoChat
  MaxTime = 2
  Clock <- OneWayClock
  MaxViews <- OneWayViews
  MaxQueue <- OneWayQueue
  MaxEvents <- OneWayEvents
  MaxFaults <- OneWayFaults
INVARIANTS
  TypeOK
  RowsMirrorTheConversation
  RowsInSendingOrder
  BadgesSettle
PROPERTIES
  RowsOnlyGrow
  OnlyTheOwnerClearsBadges
