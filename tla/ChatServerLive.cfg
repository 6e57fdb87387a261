SPECIFICATION FairSpec
CONSTANTS
  Conn = {c1, c2}
  MaxClients = 2
  MaxFd = 2
  Names = {n1}
  NoName = NoName
  Nobody = Nobody
  Pdus = {"JOIN", "MESS", "EOF"}
  AcceptErrors = FALSE
  MaxMess = 1
  MaxJoins = 1
PROPERTIES
  ItemsDelivered
  JoinAnswered
