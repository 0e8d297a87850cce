CONSTANTS
  Readers = {r1, r2, r3}
  Writers = {w1, w2}
  MAXMSG = 3
  ReadNumLockWorks = TRUE
  Nobody = Nobody

SPECIFICATION FairSpec
INVARIANTS TypeOK WriterAlone ReadersPass
PROPERTIES ImplementsSharedMessage WriterGoesNext ReadersServed WritersFinish
