---------------------------- MODULE ReaderWriter2 ----------------------------
(***************************************************************************)
(* thread/readerWriter2.c: writers first.  As readerWriter.c, with a third  *)
(* mutex: readers and writers queue at priority_lock, so a writer waiting   *)
(* for writer_lock keeps later readers out.  Here main initializes all      *)
(* mutexes.                                                                 *)
(***************************************************************************)
EXTENDS Sequences, ReaderWriterThreads

VARIABLES writer_lock, readNum_lock,  \* who locked it, or Nobody
          priority_lock,              \* who locked it, or Nobody
          reader_num,                 \* g_msg.reader_num
          message                     \* the characters written

locks == <<writer_lock, readNum_lock, priority_lock>>

vars == <<locks, reader_num, message, pc>>

Init ==
    /\ writer_lock = Nobody
    /\ readNum_lock = Nobody
    /\ priority_lock = Nobody
    /\ reader_num = 0
    /\ message = << >>
    /\ pc = [t \in Threads |-> "queue"]

Step(t, from, to) == pc[t] = from /\ pc' = [pc EXCEPT ![t] = to]

(* Mutant: readers do not queue.                                            *)
QueueWritersOnly(t) ==
    /\ Step(t, "queue", IF t \in Readers THEN "enter" ELSE "lock")
    /\ IF t \in Readers
       THEN UNCHANGED priority_lock
       ELSE priority_lock = Nobody /\ priority_lock' = t
    /\ UNCHANGED <<writer_lock, readNum_lock, reader_num, message>>

(* Both kinds of thread: pthread_mutex_lock(&g_msg.priority_lock).          *)
Queue(t) ==
    /\ Step(t, "queue", IF t \in Readers THEN "enter" ELSE "lock")
    /\ priority_lock = Nobody
    /\ priority_lock' = t
    /\ UNCHANGED <<writer_lock, readNum_lock, reader_num, message>>

(* ... and the unlock: a reader goes on to read, a writer to write.         *)
Pass(t) ==
    /\ Step(t, "pass", IF t \in Readers THEN "read" ELSE "full")
    /\ priority_lock' = Nobody
    /\ UNCHANGED <<writer_lock, readNum_lock, reader_num, message>>

-----------------------------------------------------------------------------
(* A reader, lines 38-56.  reader_num is only touched under readNum_lock,   *)
(* which works here, so a test, an increment or a decrement is one step.    *)

Enter(r) ==
    /\ Step(r, "enter", IF reader_num = 0 THEN "first" ELSE "inc")
    /\ readNum_lock = Nobody
    /\ readNum_lock' = r
    /\ UNCHANGED <<writer_lock, priority_lock, reader_num, message>>

First(r) ==
    /\ Step(r, "first", "inc")
    /\ writer_lock = Nobody
    /\ writer_lock' = r
    /\ UNCHANGED <<readNum_lock, priority_lock, reader_num, message>>

Inc(r) ==
    /\ Step(r, "inc", "admit")
    /\ reader_num' = reader_num + 1
    /\ UNCHANGED <<locks, message>>

(* Mutant: priority_lock given back with readNum_lock still held.           *)
AdmitKeepsLock(r) ==
    /\ Step(r, "admit", "pass")
    /\ UNCHANGED <<locks, reader_num, message>>

Admit(r) ==
    /\ Step(r, "admit", "pass")
    /\ readNum_lock' = Nobody
    /\ UNCHANGED <<writer_lock, priority_lock, reader_num, message>>

Leave(r) ==
    /\ Step(r, "read", "leave")
    /\ UNCHANGED <<locks, reader_num, message>>

LeaveLock(r) ==
    /\ Step(r, "leave", "dec")
    /\ readNum_lock = Nobody
    /\ readNum_lock' = r
    /\ UNCHANGED <<writer_lock, priority_lock, reader_num, message>>

Dec(r) ==
    /\ Step(r, "dec", IF reader_num - 1 = 0 THEN "last" ELSE "gone")
    /\ reader_num' = reader_num - 1
    /\ UNCHANGED <<locks, message>>

Last(r) ==
    /\ Step(r, "last", "gone")
    /\ writer_lock' = Nobody
    /\ UNCHANGED <<readNum_lock, priority_lock, reader_num, message>>

Gone(r) ==
    /\ Step(r, "gone", "queue")
    /\ readNum_lock' = Nobody
    /\ UNCHANGED <<writer_lock, priority_lock, reader_num, message>>

-----------------------------------------------------------------------------
(* A writer, lines 71-82.                                                   *)

Lock(w) ==
    /\ Step(w, "lock", "pass")
    /\ writer_lock = Nobody
    /\ writer_lock' = w
    /\ UNCHANGED <<readNum_lock, priority_lock, reader_num, message>>

Full(w) ==
    /\ Step(w, "full", IF Len(message) >= MAXMSG - 1 THEN "quit" ELSE "write")
    /\ UNCHANGED <<locks, reader_num, message>>

Write(w) ==
    /\ Step(w, "write", "unlock")
    /\ message' = Append(message, w)
    /\ UNCHANGED <<locks, reader_num>>

Unlock(w) ==
    /\ Step(w, "unlock", "queue") \/ Step(w, "quit", "done")
    /\ writer_lock' = Nobody
    /\ UNCHANGED <<readNum_lock, priority_lock, reader_num, message>>

-----------------------------------------------------------------------------
ReaderWaits(r) == Queue(r) \/ Enter(r) \/ First(r) \/ LeaveLock(r)

ReaderRuns(r) == Pass(r) \/ Inc(r) \/ Admit(r) \/ Leave(r) \/ Dec(r) \/ Last(r) \/ Gone(r)

WriterWaits(w) == Queue(w) \/ Lock(w)

WriterRuns(w) == Pass(w) \/ Full(w) \/ Write(w) \/ Unlock(w)

reader(r) == ReaderWaits(r) \/ ReaderRuns(r)

writer(w) == WriterWaits(w) \/ WriterRuns(w)

Next == (\E r \in Readers : reader(r)) \/ (\E w \in Writers : writer(w))

Spec == Init /\ [][Next]_vars
=============================================================================
