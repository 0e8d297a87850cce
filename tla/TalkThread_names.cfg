CONSTANTS
  Clients = {c1, c2}
  Names = {n1, n2}
  MAX_CONNECT = 2
  MaxFd = 5
  MaxInFlight = 1
  NoName = NoName
  Joined = Joined
  Free = Free
SPECIFICATION Spec
INVARIANT NamesStand
CHECK_DEADLOCK FALSE
