CONSTANTS
  Clients = {c1, c2}
  Names = {n1, n2}
  MAX_CONNECT = 1
  MaxFd = 5
  MaxInFlight = 2
  NoName = NoName
  Joined = Joined
  Free = Free
SPECIFICATION FairSpec
PROPERTY NewcomersAreAnswered
CHECK_DEADLOCK FALSE
