CONSTANTS
  Readers = {r1, r2}
  Writers = {w1, w2}
  MAXMSG = 3
  ReadNumLockWorks = FALSE
  Nobody = Nobody

SPECIFICATION Spec
INVARIANT WriterAlone
