---------------------------- MODULE ReaderWriter3 ----------------------------
(***************************************************************************)
(* thread/readerWriter3.c: the readers and writers with a pthread_rwlock.   *)
(* Which side the lock prefers is left to the system (lines 5-11), so a     *)
(* rdlock or wrlock that could be granted need not be granted yet.          *)
(***************************************************************************)
EXTENDS Sequences, ReaderWriterThreads

VARIABLES rwlock,   \* the threads holding g_msg.rwlock
          message   \* the characters written

vars == <<rwlock, message, pc>>

Init ==
    /\ rwlock = {}
    /\ message = << >>
    /\ pc = [t \in Threads |-> "lock"]

Step(t, from, to) == pc[t] = from /\ pc' = [pc EXCEPT ![t] = to]

(* pthread_rwlock_rdlock: together with readers, never with a writer.       *)
RdLock(r) ==
    /\ Step(r, "lock", "read")
    /\ rwlock \subseteq Readers
    /\ rwlock' = rwlock \cup {r}
    /\ UNCHANGED message

RdUnlock(r) ==
    /\ Step(r, "read", "lock")
    /\ rwlock' = rwlock \ {r}
    /\ UNCHANGED message

(* Mutant: the writer takes the read lock.                                  *)
WrLockShared(w) ==
    /\ Step(w, "lock", "full")
    /\ rwlock \subseteq Readers
    /\ rwlock' = rwlock \cup {w}
    /\ UNCHANGED message

(* pthread_rwlock_wrlock: alone.                                            *)
WrLock(w) ==
    /\ Step(w, "lock", "full")
    /\ rwlock = {}
    /\ rwlock' = {w}
    /\ UNCHANGED message

Full(w) ==
    /\ Step(w, "full", IF Len(message) >= MAXMSG - 1 THEN "quit" ELSE "write")
    /\ UNCHANGED <<rwlock, message>>

Write(w) ==
    /\ Step(w, "write", "unlock")
    /\ message' = Append(message, w)
    /\ UNCHANGED rwlock

WrUnlock(w) ==
    /\ Step(w, "unlock", "lock") \/ Step(w, "quit", "done")
    /\ rwlock' = rwlock \ {w}
    /\ UNCHANGED message

reader(r) == RdLock(r) \/ RdUnlock(r)

writer(w) == WrLock(w) \/ Full(w) \/ Write(w) \/ WrUnlock(w)

Next == (\E r \in Readers : reader(r)) \/ (\E w \in Writers : writer(w))

Spec == Init /\ [][Next]_vars
=============================================================================
