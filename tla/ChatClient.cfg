SPECIFICATION FairSpec
CONSTANTS
  MAX_BUFF_SIZE = 4
  Beeps = 2
  MaxServers = 2
  MaxPdus = 3
  MaxLines = 1
INVARIANTS
  TypeOK
  SentInOrder
PROPERTIES
  ShownInOrder
  NothingLost
  OnlyUserHoldsUp
  EndsWithNextLine
