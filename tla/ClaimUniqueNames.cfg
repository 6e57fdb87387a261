SPECIFICATION Spec
CONSTANTS
  Conn = {c1, c2}
  MaxClients = 2
  MaxFd = 2
  Names = {n1}
  NoName = NoName
  Nobody = Nobody
  Pdus = {"JOIN"}
  AcceptErrors = FALSE
  MaxMess = 0
  MaxJoins = 1
SYMMETRY Symmetry
INVARIANT UniqueNames
