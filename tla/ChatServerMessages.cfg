SPECIFICATION Spec
CONSTANTS
  Conn = {c1, c2}
  MaxClients = 2
  MaxFd = 2
  Names = {n1, n2}
  NoName = NoName
  Nobody = Nobody
  Pdus = {"JOIN", "MESS", "QUIT", "BAD", "EOF"}
  AcceptErrors = FALSE
  MaxMess = 1
  MaxJoins = 1
SYMMETRY Symmetry
INVARIANTS
  SenderFifo
  DeparturesReachMembers
  Acquainted
PROPERTY
  IsRoom
