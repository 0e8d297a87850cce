CONSTANTS
  Clients = {c1, c2, c3}
  Names = {n1, n2}
  MAX_CONNECT = 3
  MaxFd = 6
  MaxInFlight = 1
  NoName = NoName
  Joined = Joined
  Free = Free
SPECIFICATION Spec
INVARIANT SingleChat
CHECK_DEADLOCK FALSE
