----------------------------- MODULE ReaderWriter -----------------------------
(***************************************************************************)
(* thread/readerWriter.c: readers first.  The first reader locks            *)
(* writer_lock for all readers, the last one unlocks it (it need not be the *)
(* thread that locked it); readNum_lock guards the count reader_num.        *)
(* reader2 and writer2 (lines 97-180) differ from reader and writer only in *)
(* comments.                                                                *)
(*                                                                          *)
(* The initializer of g_msg (line 42) has one value too few: its second     *)
(* PTHREAD_MUTEX_INITIALIZER lands in empty_cond, and readNum_lock is left  *)
(* all zeroes.  Where that is a valid unlocked mutex (glibc) the lock       *)
(* works; where it is not (Darwin) lock and unlock return EINVAL, which     *)
(* nobody looks at, and the lock does nothing.  ReadNumLockWorks says which.*)
(***************************************************************************)
EXTENDS Sequences, ReaderWriterThreads

CONSTANT ReadNumLockWorks  \* whether an all-zero pthread_mutex_t can be locked

VARIABLES writer_lock,   \* who locked g_msg.writer_lock, or Nobody
          readNum_lock,  \* who locked g_msg.readNum_lock, or Nobody
          reader_num,    \* g_msg.reader_num
          tmp,           \* tmp[r]: register between load and store of reader_num
          message        \* the characters written: each writer has its own

vars == <<writer_lock, readNum_lock, reader_num, tmp, message, pc>>

locks == <<writer_lock, readNum_lock>>

Init ==
    /\ writer_lock = Nobody
    /\ readNum_lock = Nobody
    /\ reader_num = 0
    /\ tmp = [r \in Readers |-> 0]
    /\ message = << >>
    /\ pc = [t \in Threads |-> IF t \in Readers THEN "enter" ELSE "lock"]

Step(t, from, to) == pc[t] = from /\ pc' = [pc EXCEPT ![t] = to]

(* pthread_mutex_lock and pthread_mutex_unlock on readNum_lock.             *)
LockReadNum(r) ==
    IF ReadNumLockWorks
    THEN readNum_lock = Nobody /\ readNum_lock' = r
    ELSE UNCHANGED readNum_lock

UnlockReadNum == readNum_lock' = IF ReadNumLockWorks THEN Nobody ELSE readNum_lock

-----------------------------------------------------------------------------
(* A reader arrives: lines 48-53.                                           *)

Enter(r) ==
    /\ Step(r, "enter", "test")
    /\ LockReadNum(r)
    /\ UNCHANGED <<writer_lock, reader_num, tmp, message>>

(* Mutant: every reader takes writer_lock.                                  *)
TestAlways(r) ==
    /\ Step(r, "test", "first")
    /\ UNCHANGED <<locks, reader_num, tmp, message>>

Test(r) ==
    /\ Step(r, "test", IF reader_num = 0 THEN "first" ELSE "inc")
    /\ UNCHANGED <<locks, reader_num, tmp, message>>

(* The first reader locks the writers out, holding readNum_lock meanwhile.  *)
First(r) ==
    /\ Step(r, "first", "inc")
    /\ writer_lock = Nobody
    /\ writer_lock' = r
    /\ UNCHANGED <<readNum_lock, reader_num, tmp, message>>

(* reader_num++ is a load and a store.                                      *)
IncLoad(r) ==
    /\ Step(r, "inc", "inc2")
    /\ tmp' = [tmp EXCEPT ![r] = reader_num]
    /\ UNCHANGED <<locks, reader_num, message>>

IncStore(r) ==
    /\ Step(r, "inc2", "admit")
    /\ reader_num' = tmp[r] + 1
    /\ tmp' = [tmp EXCEPT ![r] = 0]
    /\ UNCHANGED <<locks, message>>

Admit(r) ==
    /\ Step(r, "admit", "read")
    /\ UnlockReadNum
    /\ UNCHANGED <<writer_lock, reader_num, tmp, message>>

-----------------------------------------------------------------------------
(* It has read the message (lines 58-60) and leaves: lines 62-68.           *)

Leave(r) ==
    /\ Step(r, "read", "leave")
    /\ UNCHANGED <<locks, reader_num, tmp, message>>

LeaveLock(r) ==
    /\ Step(r, "leave", "dec")
    /\ LockReadNum(r)
    /\ UNCHANGED <<writer_lock, reader_num, tmp, message>>

DecLoad(r) ==
    /\ Step(r, "dec", "dec2")
    /\ tmp' = [tmp EXCEPT ![r] = reader_num]
    /\ UNCHANGED <<locks, reader_num, message>>

DecStore(r) ==
    /\ Step(r, "dec2", "test0")
    /\ reader_num' = tmp[r] - 1
    /\ tmp' = [tmp EXCEPT ![r] = 0]
    /\ UNCHANGED <<locks, message>>

(* Mutant: the last reader is taken for one before the last.                *)
TestLastEarly(r) ==
    /\ Step(r, "test0", IF reader_num <= 1 THEN "last" ELSE "gone")
    /\ UNCHANGED <<locks, reader_num, tmp, message>>

TestLast(r) ==
    /\ Step(r, "test0", IF reader_num = 0 THEN "last" ELSE "gone")
    /\ UNCHANGED <<locks, reader_num, tmp, message>>

(* The last reader lets the writers in, whoever locked writer_lock.         *)
Last(r) ==
    /\ Step(r, "last", "gone")
    /\ writer_lock' = Nobody
    /\ UNCHANGED <<readNum_lock, reader_num, tmp, message>>

Gone(r) ==
    /\ Step(r, "gone", "enter")
    /\ UnlockReadNum
    /\ UNCHANGED <<writer_lock, reader_num, tmp, message>>

-----------------------------------------------------------------------------
(* A writer: lines 82-91.                                                   *)

Lock(w) ==
    /\ Step(w, "lock", "full")
    /\ writer_lock = Nobody
    /\ writer_lock' = w
    /\ UNCHANGED <<readNum_lock, reader_num, tmp, message>>

(* Mutant: the last place of the array is used too.                         *)
FullLate(w) ==
    /\ Step(w, "full", IF Len(message) >= MAXMSG THEN "quit" ELSE "write")
    /\ UNCHANGED <<locks, reader_num, tmp, message>>

Full(w) ==
    /\ Step(w, "full", IF Len(message) >= MAXMSG - 1 THEN "quit" ELSE "write")
    /\ UNCHANGED <<locks, reader_num, tmp, message>>

Write(w) ==
    /\ Step(w, "write", "unlock")
    /\ message' = Append(message, w)
    /\ UNCHANGED <<locks, reader_num, tmp>>

Unlock(w) ==
    /\ Step(w, "unlock", "lock") \/ Step(w, "quit", "done")
    /\ writer_lock' = Nobody
    /\ UNCHANGED <<readNum_lock, reader_num, tmp, message>>

-----------------------------------------------------------------------------
(* Steps that wait for a mutex, and the others.                             *)

ReaderWaits(r) == Enter(r) \/ First(r) \/ LeaveLock(r)

ReaderRuns(r) ==
    \/ Test(r) \/ IncLoad(r) \/ IncStore(r) \/ Admit(r)
    \/ Leave(r) \/ DecLoad(r) \/ DecStore(r) \/ TestLast(r) \/ Last(r) \/ Gone(r)

WriterWaits(w) == Lock(w)

WriterRuns(w) == Full(w) \/ Write(w) \/ Unlock(w)

reader(r) == ReaderWaits(r) \/ ReaderRuns(r)

writer(w) == WriterWaits(w) \/ WriterRuns(w)

Next == (\E r \in Readers : reader(r)) \/ (\E w \in Writers : writer(w))

Spec == Init /\ [][Next]_vars

-----------------------------------------------------------------------------
TypeOK ==
    /\ writer_lock \in Threads \cup {Nobody}
    /\ readNum_lock \in Readers \cup {Nobody}
    /\ reader_num \in Int
    /\ tmp \in [Readers -> Int]
    /\ message \in Seq(Writers)
    /\ pc \in [Threads -> {"enter", "test", "first", "inc", "inc2", "admit", "read", "leave",
                           "dec", "dec2", "test0", "last", "gone",
                           "lock", "full", "write", "unlock", "quit", "done"}]

(* Readers first: while somebody reads, no arriving reader waits for a      *)
(* writer; the whole group shares one lock of writer_lock.                  *)
ReadersPass == reading # {} => \A r \in Readers : pc[r] # "first"

-----------------------------------------------------------------------------
(* Why WriterAlone holds when readNum_lock works.                           *)

(* The readers reader_num counts.                                           *)
Counted == {r \in Readers : pc[r] \in {"admit", "read", "leave", "dec", "dec2"}}

CountRight ==
    /\ reader_num = Cardinality(Counted)
    /\ \A r \in Readers : pc[r] \in {"inc2", "dec2"} => tmp[r] = reader_num
    /\ \A r \in Readers : pc[r] \in {"first", "last"} => reader_num = 0

HoldsReadNum ==
    \A r \in Readers :
        readNum_lock = r <=> pc[r] \in {"test", "first", "inc", "inc2", "admit",
                                       "dec", "dec2", "test0", "last", "gone"}

(* From the first reader's lock to the last reader's unlock writer_lock     *)
(* belongs to the readers, although its owner may have gone.                *)
GroupHolds ==
    \A r \in Readers :
        \/ r \in Counted \/ pc[r] \in {"inc", "inc2", "last"}
        \/ pc[r] = "test0" /\ reader_num = 0
        => writer_lock \in Readers

WriterHolds ==
    \A w \in Writers : writer_lock = w <=> pc[w] \in {"full", "write", "unlock", "quit"}

SidesApart ==
    /\ \A r \in Readers : pc[r] \notin {"lock", "full", "write", "unlock", "quit", "done"}
    /\ \A w \in Writers : pc[w] \in {"lock", "full", "write", "unlock", "quit", "done"}

IInv == TypeOK /\ SidesApart /\ HoldsReadNum /\ CountRight /\ GroupHolds /\ WriterHolds
=============================================================================
