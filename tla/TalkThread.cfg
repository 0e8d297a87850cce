CONSTANTS
  Clients = {c1, c2}
  Names = {n1}
  MAX_CONNECT = 2
  MaxFd = 5
  MaxInFlight = 1
  NoName = NoName
  Joined = Joined
  Free = Free
SPECIFICATION FairSpec
INVARIANTS TypeOK SlotsAreOwn
PROPERTY NobodyIsForgotten
CHECK_DEADLOCK FALSE
