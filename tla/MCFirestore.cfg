SPECIFICATION Spec
CONSTANTS
  d1 = d1
  own = own
  other = other
  Device = {d1}
  Path = {own, other}
  Field <- MCField
  Writers <- MCWriters
  MaxQueue <- MCMaxQueue
INVARIANTS
  SoleWriterIsInSync
PROPERTY
  SoleWriterViewIsStable
