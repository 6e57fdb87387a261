SPECIFICATION FairSpec
CONSTANTS
  Scripts <- Upto3
INVARIANTS
  TypeOK
  InSync
PROPERTIES
  PduHandled
  EndsWhenClosed
