SPECIFICATION Spec
CONSTANTS
  NameLens = {0,1,2,3,4,5,6,7,63,64,125,126,127,128,129,190,200,248,254}
  TextLens = {1,2,3,4,257,300,600,65535}
  Sums = {0,1,254,255,256,509,510,65278,65279,65280,65281,65534,65535,65536,130815,131070,131071,16711425}
  Rosters <- SomeRosters
  ServerLists <- SomeServerLists
CHECK_DEADLOCK FALSE
INVARIANTS
  TypeOK
  
  RosterCarried
  ServersCarried
