CONSTANTS
  SERVER_TIMEOUT = 2
  CLIENT_TIMEOUT = 2
  MAX_COUNT = 1
  SelectUpdatesTimeout = TRUE
  MaxInFlight = 2

SPECIFICATION Spec
PROPERTY GivesUpInSilence
CHECK_DEADLOCK FALSE
