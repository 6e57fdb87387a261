SPECIFICATION FairSpec
CONSTANTS
  Nobody = Nobody
  Conn = {c1, c2}
  MaxClients = 2
  Room = 1
  MaxPdus = 2
INVARIANT
  TypeOK
  OnlyClientsBlock
PROPERTIES
  ListStays
  HandlersReturn
  LocksReleased
