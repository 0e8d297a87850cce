CONSTANTS
  Clients = {c1, c2, c3}
  Names = {n1}
  MAX_CONNECT = 2
  MaxFd = 6
  MaxInFlight = 2
  NoName = NoName
  Joined = Joined
  Free = Free
SPECIFICATION FairSpec
INVARIANTS TypeOK TablesAgree
PROPERTIES OnlyTheGoneAreClosed NobodyIsForgotten
CHECK_DEADLOCK FALSE
