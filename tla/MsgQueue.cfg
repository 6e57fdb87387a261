SPECIFICATION Spec
CONSTANTS
  Node = {m1, m2, m3}
  Null = Null
  Data = {a, b}
  NoData = NoData
INVARIANTS
  TypeOK
  Linked
PROPERTY
  IsFifo
