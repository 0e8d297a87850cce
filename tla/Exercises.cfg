CONSTANTS
  PHILOSOPHER_NUM = 5
  Nobody = Nobody
  SERVER_TIMEOUT = 2
  CLIENT_TIMEOUT = 1
  MAX_COUNT = 1
  SelectUpdatesTimeout = FALSE
  MaxInFlight = 2
  TOP_ROW = 0
  BOTTOM_ROW = 4
  LEFT_EDGE = 0
  RIGHT_EDGE = 4
  START_ROW = 0
  START_COL = 1
  X_TTM = 1
  Y_TTM = 2
  BOARD_WIDTH = 2
  MaxTtm = 2
  COLS = 5
  MSGLEN = 2
  Delay0 = 5
  IntMax = 31
  MaxDrift = 4
  Letters = {"a", "x"}
  Exit = "x"
  MaxLine = 4
  BUFLEN = 3
  Chars = {"a", "n"}
  NL = "n"
  MaxFile = 5
  Names = {"f", "g", ".d"}
  Hidden = {".d"}
  MaxEntries = 3
  PAGELINE = 3
  MaxLines = 7
  Glyphs = {"a", "b"}
  LINE = 3
  BUF = 4
  PRODUCERNUM = 3
  CONSUMERNUM = 3
  FOODNUMMAX = 2
  OnePlace = FALSE
  Inodes = {1, 2, 3, 4}
  MaxDepth = 3
  BUFFER_LEN = 2
  Bytes = {"a", "b"}
  MaxBytes = 3

SPECIFICATION ExercisesSpec
INVARIANTS
  TypesOK NeighboursTakeTurns StuckOnlyInCircle
  ReadsDontBlock InField RunsWhatWasTyped ChildrenAreWaitedFor
  PrintsRightPart ScreensAgree FoodsAsOrdered PathIsPrinted FilesHold
PROPERTIES
  MealGoesOn GivesUpInSilence IdleIsClosed BallGoesOn WordComesBack LinesEnd
  ChildIsReaped
\* philosophers may deadlock, the other programs end
CHECK_DEADLOCK FALSE
