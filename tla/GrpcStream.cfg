SPECIFICATION FairSpec
CHECK_DEADLOCK FALSE
CONSTANTS
  MaxWrites = 3
  MaxReads = 2
INVARIANTS
  TypeOK
  NoUseAfterDestroy
  OperationsObeyGrpc
  AssertionsHold
PROPERTIES
  ImplementsDuplex
  WritesGoOut
  StreamEnds
