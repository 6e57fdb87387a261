SPECIFICATION Spec
CONSTANTS
  Conn = {c1, c2, c3}
  MaxClients = 2
  MaxFd = 3
  Names = {n1}
  NoName = NoName
  Nobody = Nobody
  Pdus = {"JOIN", "QUIT", "BAD", "EOF"}
  AcceptErrors = TRUE
  MaxMess = 0
  MaxJoins = 2
SYMMETRY Symmetry
VIEW TableView
INVARIANTS
  TypeOK
  SlotOwnership
  OwnSocket
  SocketReleased
PROPERTY
  NameReuse
