CONSTANTS
  BUFLEN = 3
  Chars = {"a", "n"}
  NL = "n"
  MaxFile = 4
  Words <- TypedWords

SPECIFICATION Spec
INVARIANT PrintsWhatWasAsked
CHECK_DEADLOCK FALSE
