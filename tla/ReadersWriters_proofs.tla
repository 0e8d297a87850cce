------------------------- MODULE ReadersWriters_proofs -------------------------
(* Proofs about ReadersWriters, for any number of readers and writers and   *)
(* any size of the array.  Where readerWriter.c is concerned they assume    *)
(* that readNum_lock works.                                                 *)
EXTENDS ReadersWriters, FiniteSetTheorems, TLAPS

-----------------------------------------------------------------------------
(* readerWriter.c: the first reader locks writer_lock for all of them.      *)

LEMMA Apart ==
    /\ Readers \cap Writers = {} /\ IsFiniteSet(Readers)
    /\ Nobody \notin Readers /\ Nobody \notin Writers /\ Nobody \notin Threads
    /\ MAXMSG \in Nat \ {0}
BY ReaderWriterAssumption DEF Threads

(* The instances have a Cardinality of their own.                           *)
LEMMA ReadersFirstCardinality ==
    ASSUME NEW S
    PROVE  ReadersFirst!Cardinality(S) = Cardinality(S)
BY DEF ReadersFirst!Cardinality, Cardinality

LEMMA CountedFinite == IsFiniteSet(ReadersFirst!Counted)
          /\ IsFiniteSet(ReadersFirst!Counted')
<1>1. ReadersFirst!Counted \in SUBSET Readers /\ ReadersFirst!Counted' \in SUBSET Readers
  BY DEF ReadersFirst!Counted
<1> QED BY <1>1, FS_Subset, Apart

LEMMA ReadersFirstInit == ReadersFirst!Init => ReadersFirst!IInv
<1> SUFFICES ASSUME ReadersFirst!Init PROVE ReadersFirst!IInv
  OBVIOUS
<1>1. ReadersFirst!Counted = {}
  BY DEF ReadersFirst!Init, ReadersFirst!Counted, Threads, ReadersFirst!Threads
<1>2. reader_num = Cardinality(ReadersFirst!Counted)
  BY <1>1, FS_EmptySet DEF ReadersFirst!Init
<1>3. ReadersFirst!CountRight
  BY <1>2, ReadersFirstCardinality DEF ReadersFirst!Init, ReadersFirst!CountRight, Threads,
     ReadersFirst!Threads
<1>4. ReadersFirst!TypeOK /\ ReadersFirst!SidesApart
  BY Apart DEF ReadersFirst!Init, ReadersFirst!TypeOK,
         ReadersFirst!SidesApart, Threads, ReadersFirst!Threads
<1>5. ReadersFirst!HoldsReadNum /\ ReadersFirst!WriterHolds /\ ReadersFirst!GroupHolds
  BY Apart, <1>1 DEF ReadersFirst!Init, ReadersFirst!HoldsReadNum,
         ReadersFirst!WriterHolds, ReadersFirst!GroupHolds, Threads, ReadersFirst!Threads
<1> QED BY <1>3, <1>4, <1>5 DEF ReadersFirst!IInv

(* What holds of a reader's step by the types alone.                        *)
LEMMA ReadersFirstTypes ==
    ASSUME ReadNumLockWorks, ReadersFirst!IInv, NEW r \in Readers, ReadersFirst!reader(r)
    PROVE  ReadersFirst!TypeOK' /\ ReadersFirst!SidesApart' /\ ReadersFirst!HoldsReadNum'
<1> USE Apart DEF ReadersFirst!IInv, ReadersFirst!TypeOK,
          ReadersFirst!locks
<1>1. r \in ReadersFirst!Threads /\ r \notin Writers
  BY DEF Threads, ReadersFirst!Threads
<1>2. CASE ReadersFirst!Enter(r) \/ ReadersFirst!LeaveLock(r)
  BY <1>1, <1>2 DEF ReadersFirst!SidesApart, ReadersFirst!HoldsReadNum, ReadersFirst!Enter,
         ReadersFirst!LeaveLock, ReadersFirst!LockReadNum, ReadersFirst!Step, Threads,
     ReadersFirst!Threads
<1>3. CASE ReadersFirst!Test(r) \/ ReadersFirst!First(r) \/ ReadersFirst!Leave(r)
          \/ ReadersFirst!TestLast(r) \/ ReadersFirst!Last(r)
  BY <1>1, <1>3 DEF ReadersFirst!SidesApart, ReadersFirst!HoldsReadNum, ReadersFirst!Test,
         ReadersFirst!First, ReadersFirst!Leave, ReadersFirst!TestLast, ReadersFirst!Last,
     ReadersFirst!Step, Threads, ReadersFirst!Threads
<1>4. CASE ReadersFirst!IncLoad(r) \/ ReadersFirst!IncStore(r)
          \/ ReadersFirst!DecLoad(r) \/ ReadersFirst!DecStore(r)
  BY <1>1, <1>4 DEF ReadersFirst!SidesApart, ReadersFirst!HoldsReadNum,
         ReadersFirst!IncLoad, ReadersFirst!IncStore, ReadersFirst!DecLoad,
     ReadersFirst!DecStore, ReadersFirst!Step, Threads, ReadersFirst!Threads
<1>5. CASE ReadersFirst!Admit(r) \/ ReadersFirst!Gone(r)
  BY <1>1, <1>5 DEF ReadersFirst!SidesApart, ReadersFirst!HoldsReadNum, ReadersFirst!Admit,
         ReadersFirst!Gone, ReadersFirst!UnlockReadNum, ReadersFirst!Step, Threads,
     ReadersFirst!Threads
<1> QED BY <1>2, <1>3, <1>4, <1>5 DEF ReadersFirst!reader, ReadersFirst!ReaderWaits,
          ReadersFirst!ReaderRuns

(* reader_num counts the admitted readers: only the holder of readNum_lock  *)
(* changes it, so what it loaded is what it finds.                          *)
LEMMA ReadersFirstCounts ==
    ASSUME ReadNumLockWorks, ReadersFirst!IInv, NEW r \in Readers, ReadersFirst!reader(r)
    PROVE  ReadersFirst!CountRight'
<1> USE Apart DEF ReadersFirst!IInv, ReadersFirst!TypeOK,
          ReadersFirst!locks
<1>1. r \in ReadersFirst!Threads /\ \A s \in Readers : s \in ReadersFirst!Threads
  BY DEF Threads, ReadersFirst!Threads
<1>2. CASE ReadersFirst!Enter(r) \/ ReadersFirst!Test(r) \/ ReadersFirst!First(r)
          \/ ReadersFirst!Leave(r) \/ ReadersFirst!LeaveLock(r)
          \/ ReadersFirst!TestLast(r) \/ ReadersFirst!Last(r) \/ ReadersFirst!Gone(r)
  <2>1. ReadersFirst!Counted' = ReadersFirst!Counted /\ reader_num' = reader_num /\ tmp' = tmp
    BY <1>1, <1>2 DEF ReadersFirst!Counted, ReadersFirst!Enter, ReadersFirst!Test,
           ReadersFirst!First, ReadersFirst!Leave, ReadersFirst!LeaveLock,
       ReadersFirst!TestLast, ReadersFirst!Last, ReadersFirst!Gone, ReadersFirst!Step
  <2>2. \A s \in Readers : pc'[s] \in {"inc2", "dec2"} => pc[s] = pc'[s]
    BY <1>1, <1>2 DEF ReadersFirst!Enter, ReadersFirst!Test, ReadersFirst!First,
           ReadersFirst!Leave, ReadersFirst!LeaveLock, ReadersFirst!TestLast,
       ReadersFirst!Last, ReadersFirst!Gone, ReadersFirst!Step
  <2>3. \A s \in Readers : pc'[s] \in {"first", "last"} => pc[s] = pc'[s] \/ reader_num = 0
    BY <1>1, <1>2 DEF ReadersFirst!Enter, ReadersFirst!Test, ReadersFirst!First,
           ReadersFirst!Leave, ReadersFirst!LeaveLock, ReadersFirst!TestLast,
       ReadersFirst!Last, ReadersFirst!Gone, ReadersFirst!Step
  <2> QED BY <2>1, <2>2, <2>3 DEF ReadersFirst!CountRight
<1>3. CASE ReadersFirst!Admit(r)
  <2>1. ReadersFirst!Counted' = ReadersFirst!Counted /\ reader_num' = reader_num /\ tmp' = tmp
    BY <1>1, <1>3 DEF ReadersFirst!Counted, ReadersFirst!Admit, ReadersFirst!Step
  <2>2. \A s \in Readers : pc'[s] \in {"inc2", "dec2", "first", "last"} => pc[s] = pc'[s]
    BY <1>1, <1>3 DEF ReadersFirst!Admit, ReadersFirst!Step
  <2> QED BY <2>1, <2>2 DEF ReadersFirst!CountRight
<1>4. CASE ReadersFirst!IncLoad(r) \/ ReadersFirst!DecLoad(r)
  <2>1. ReadersFirst!Counted' = ReadersFirst!Counted /\ reader_num' = reader_num
    BY <1>1, <1>4 DEF ReadersFirst!Counted, ReadersFirst!IncLoad, ReadersFirst!DecLoad,
           ReadersFirst!Step
  <2>2. \A s \in Readers : pc'[s] \in {"inc2", "dec2"} => tmp'[s] = reader_num
    BY <1>1, <1>4 DEF ReadersFirst!CountRight, ReadersFirst!IncLoad, ReadersFirst!DecLoad,
           ReadersFirst!Step
  <2>3. \A s \in Readers : pc'[s] \in {"first", "last"} => pc[s] = pc'[s]
    BY <1>1, <1>4 DEF ReadersFirst!IncLoad, ReadersFirst!DecLoad, ReadersFirst!Step
  <2> QED BY <2>1, <2>2, <2>3 DEF ReadersFirst!CountRight
<1>5. ASSUME ReadersFirst!IncStore(r) \/ ReadersFirst!DecStore(r)
      PROVE  \A s \in Readers : pc'[s] \notin {"inc2", "dec2", "first", "last"}
  BY <1>1, <1>5 DEF ReadersFirst!HoldsReadNum, ReadersFirst!IncStore,
         ReadersFirst!DecStore, ReadersFirst!Step
<1>6. CASE ReadersFirst!IncStore(r)
  <2>1. r \notin ReadersFirst!Counted /\ ReadersFirst!Counted' = ReadersFirst!Counted \cup {r}
    BY <1>1, <1>6 DEF ReadersFirst!Counted, ReadersFirst!IncStore, ReadersFirst!Step
  <2>2. reader_num' = reader_num + 1
    BY <1>6 DEF ReadersFirst!CountRight, ReadersFirst!IncStore, ReadersFirst!Step
  <2>3. Cardinality(ReadersFirst!Counted') = Cardinality(ReadersFirst!Counted) + 1
    BY <2>1, CountedFinite, FS_AddElement
  <2> QED BY ReadersFirstCardinality, <1>5, <1>6, <2>2, <2>3 DEF ReadersFirst!CountRight
<1>7. CASE ReadersFirst!DecStore(r)
  <2>1. r \in ReadersFirst!Counted /\ ReadersFirst!Counted' = ReadersFirst!Counted \ {r}
    BY <1>1, <1>7 DEF ReadersFirst!Counted, ReadersFirst!DecStore, ReadersFirst!Step
  <2>2. reader_num' = reader_num - 1
    BY <1>7 DEF ReadersFirst!CountRight, ReadersFirst!DecStore, ReadersFirst!Step
  <2>3. Cardinality(ReadersFirst!Counted') = Cardinality(ReadersFirst!Counted) - 1
    BY <2>1, CountedFinite, FS_RemoveElement
  <2> QED BY ReadersFirstCardinality, <1>5, <1>7, <2>2, <2>3 DEF ReadersFirst!CountRight
<1> QED BY <1>2, <1>3, <1>4, <1>6, <1>7 DEF ReadersFirst!reader, ReadersFirst!ReaderWaits,
          ReadersFirst!ReaderRuns

(* reader_num is zero exactly when nobody is counted.                       *)
LEMMA ZeroMeansNobody == ReadersFirst!CountRight
          => (reader_num = 0 <=> ReadersFirst!Counted = {})
BY ReadersFirstCardinality, CountedFinite, FS_EmptySet DEF ReadersFirst!CountRight

(* The group keeps writer_lock until its last reader has left.              *)
LEMMA ReadersFirstGroup ==
    ASSUME ReadNumLockWorks, ReadersFirst!IInv, NEW r \in Readers, ReadersFirst!reader(r),
              ReadersFirst!CountRight'
    PROVE  ReadersFirst!GroupHolds' /\ ReadersFirst!WriterHolds'
<1> USE Apart DEF ReadersFirst!IInv, ReadersFirst!TypeOK,
          ReadersFirst!locks
<1>1. r \in ReadersFirst!Threads /\ (\A s \in Readers : s \in ReadersFirst!Threads) /\ (\A w \in Writers : w \in ReadersFirst!Threads /\ w # r)
  BY DEF Threads, ReadersFirst!Threads
<1>2. CASE ReadersFirst!Enter(r) \/ ReadersFirst!Admit(r) \/ ReadersFirst!Leave(r)
          \/ ReadersFirst!LeaveLock(r) \/ ReadersFirst!IncLoad(r)
          \/ ReadersFirst!DecLoad(r) \/ ReadersFirst!Gone(r)
  BY <1>1, <1>2 DEF ReadersFirst!GroupHolds, ReadersFirst!WriterHolds,
         ReadersFirst!Counted, ReadersFirst!Enter, ReadersFirst!Admit, ReadersFirst!Leave,
     ReadersFirst!LeaveLock, ReadersFirst!IncLoad,
                    ReadersFirst!DecLoad, ReadersFirst!Gone, ReadersFirst!Step
<1>3. CASE ReadersFirst!Test(r)
  <2>1. ReadersFirst!WriterHolds'
    BY <1>1, <1>3 DEF ReadersFirst!WriterHolds, ReadersFirst!Test, ReadersFirst!Step
  <2>2. CASE reader_num = 0
    BY <1>1, <1>3, <2>1, <2>2 DEF ReadersFirst!GroupHolds, ReadersFirst!Counted,
           ReadersFirst!Test, ReadersFirst!Step
  <2>3. CASE reader_num # 0
    <3>1. writer_lock \in Readers
      BY <2>3, ZeroMeansNobody DEF ReadersFirst!GroupHolds, ReadersFirst!Counted
    <3> QED BY <1>3, <2>1, <3>1 DEF ReadersFirst!GroupHolds, ReadersFirst!Test
  <2> QED BY <2>1, <2>2, <2>3
<1>4. CASE ReadersFirst!First(r)
  BY <1>1, <1>4 DEF ReadersFirst!GroupHolds, ReadersFirst!WriterHolds, ReadersFirst!First,
         ReadersFirst!Step
<1>5. CASE ReadersFirst!IncStore(r)
  <2>1. writer_lock \in Readers
    BY <1>5 DEF ReadersFirst!GroupHolds, ReadersFirst!IncStore, ReadersFirst!Step
  <2> QED BY <1>1, <1>5, <2>1 DEF ReadersFirst!GroupHolds, ReadersFirst!WriterHolds,
            ReadersFirst!IncStore, ReadersFirst!Step
<1>6. CASE ReadersFirst!DecStore(r)
  <2>1. writer_lock \in Readers
    BY <1>6 DEF ReadersFirst!GroupHolds, ReadersFirst!Counted, ReadersFirst!DecStore,
           ReadersFirst!Step
  <2> QED BY <1>1, <1>6, <2>1 DEF ReadersFirst!GroupHolds, ReadersFirst!WriterHolds,
            ReadersFirst!DecStore, ReadersFirst!Step
<1>7. CASE ReadersFirst!TestLast(r)
  BY <1>1, <1>7 DEF ReadersFirst!GroupHolds, ReadersFirst!WriterHolds,
         ReadersFirst!Counted, ReadersFirst!TestLast, ReadersFirst!Step
<1>8. CASE ReadersFirst!Last(r)
  <2>1. writer_lock \in Readers
    BY <1>8 DEF ReadersFirst!GroupHolds, ReadersFirst!Last, ReadersFirst!Step
  <2>2. ReadersFirst!WriterHolds'
    BY <1>1, <1>8, <2>1 DEF ReadersFirst!WriterHolds, ReadersFirst!Last, ReadersFirst!Step
  <2>3. reader_num = 0 /\ ReadersFirst!Counted = {}
    BY <1>8, ZeroMeansNobody DEF ReadersFirst!CountRight, ReadersFirst!Last,
           ReadersFirst!Step
  <2>4. \A s \in Readers : s \notin ReadersFirst!Counted' /\ pc'[s] \notin {"inc", "inc2",
            "last", "test0"}
    BY <1>1, <1>8, <2>3 DEF ReadersFirst!HoldsReadNum, ReadersFirst!Counted,
           ReadersFirst!Last, ReadersFirst!Step
  <2> QED BY <2>2, <2>4 DEF ReadersFirst!GroupHolds
<1> QED BY <1>2, <1>3, <1>4, <1>5, <1>6, <1>7, <1>8 DEF ReadersFirst!reader,
          ReadersFirst!ReaderWaits, ReadersFirst!ReaderRuns

LEMMA ReadersFirstWriter ==
    ASSUME ReadersFirst!IInv, NEW w \in Writers, ReadersFirst!writer(w)
    PROVE  ReadersFirst!IInv'
<1> USE Apart DEF ReadersFirst!IInv, ReadersFirst!TypeOK,
          ReadersFirst!locks
<1>1. w \in ReadersFirst!Threads /\ \A r \in Readers : r \in ReadersFirst!Threads /\ r # w
  BY DEF Threads, ReadersFirst!Threads
<1>2. \A r \in Readers : pc'[r] = pc[r]
  BY <1>1 DEF ReadersFirst!writer, ReadersFirst!WriterWaits, ReadersFirst!WriterRuns,
         ReadersFirst!Lock, ReadersFirst!Full, ReadersFirst!Write, ReadersFirst!Unlock,
     ReadersFirst!Step
<1>3. reader_num' = reader_num /\ tmp' = tmp /\ readNum_lock' = readNum_lock
  BY DEF ReadersFirst!writer, ReadersFirst!WriterWaits, ReadersFirst!WriterRuns,
         ReadersFirst!Lock, ReadersFirst!Full, ReadersFirst!Write, ReadersFirst!Unlock
<1>4. ReadersFirst!Counted' = ReadersFirst!Counted
  BY <1>2 DEF ReadersFirst!Counted
<1>5. ReadersFirst!TypeOK' /\ ReadersFirst!SidesApart'
  <2>1. CASE ReadersFirst!Lock(w)
    BY <1>1, <2>1 DEF ReadersFirst!SidesApart, ReadersFirst!Lock, ReadersFirst!Step
  <2>2. CASE ReadersFirst!Full(w)
    BY <1>1, <2>2 DEF ReadersFirst!SidesApart, ReadersFirst!Full, ReadersFirst!Step
  <2>3. CASE ReadersFirst!Write(w)
    BY <1>1, <2>3 DEF ReadersFirst!SidesApart, ReadersFirst!Write, ReadersFirst!Step
  <2>4. CASE ReadersFirst!Unlock(w)
    <3>1. writer_lock' = Nobody /\ UNCHANGED <<readNum_lock, reader_num, tmp, message>>
      BY <2>4 DEF ReadersFirst!Unlock
    <3>2. CASE ReadersFirst!Step(w, "unlock", "lock")
      BY <1>1, <3>1, <3>2 DEF ReadersFirst!SidesApart, ReadersFirst!Step
    <3>3. CASE ReadersFirst!Step(w, "quit", "done")
      BY <1>1, <3>1, <3>3 DEF ReadersFirst!SidesApart, ReadersFirst!Step
    <3> QED BY <2>4, <3>2, <3>3 DEF ReadersFirst!Unlock
  <2> QED BY <2>1, <2>2, <2>3, <2>4 DEF ReadersFirst!writer, ReadersFirst!WriterWaits,
            ReadersFirst!WriterRuns
<1>6. ReadersFirst!HoldsReadNum' /\ ReadersFirst!CountRight'
  BY <1>2, <1>3, <1>4 DEF ReadersFirst!HoldsReadNum, ReadersFirst!CountRight
<1>7. ReadersFirst!WriterHolds'
  BY <1>1 DEF ReadersFirst!WriterHolds, ReadersFirst!writer, ReadersFirst!WriterWaits,
         ReadersFirst!WriterRuns, ReadersFirst!Lock, ReadersFirst!Full, ReadersFirst!Write,
     ReadersFirst!Unlock, ReadersFirst!Step, Threads, ReadersFirst!Threads
<1>8. writer_lock \in Readers => writer_lock' = writer_lock
  BY <1>1 DEF ReadersFirst!WriterHolds, ReadersFirst!writer, ReadersFirst!WriterWaits,
         ReadersFirst!WriterRuns, ReadersFirst!Lock, ReadersFirst!Full, ReadersFirst!Write,
     ReadersFirst!Unlock, ReadersFirst!Step
<1>9. ReadersFirst!GroupHolds'
  BY <1>2, <1>3, <1>4, <1>8 DEF ReadersFirst!GroupHolds
<1> QED BY <1>5, <1>6, <1>7, <1>9

LEMMA ReadersFirstNext == ReadNumLockWorks /\ ReadersFirst!IInv
          /\ [ReadersFirst!Next]_(ReadersFirst!vars) => ReadersFirst!IInv'
<1>1. ReadersFirst!IInv /\ UNCHANGED ReadersFirst!vars => ReadersFirst!IInv'
  BY DEF ReadersFirst!vars, ReadersFirst!IInv, ReadersFirst!TypeOK,
         ReadersFirst!SidesApart, ReadersFirst!HoldsReadNum, ReadersFirst!CountRight,
     ReadersFirst!GroupHolds, ReadersFirst!WriterHolds, ReadersFirst!Counted
<1>2. ASSUME ReadNumLockWorks, ReadersFirst!IInv, NEW r \in Readers,
          ReadersFirst!reader(r) PROVE ReadersFirst!IInv'
  BY <1>2, ReadersFirstTypes, ReadersFirstCounts, ReadersFirstGroup DEF ReadersFirst!IInv
<1> QED BY <1>1, <1>2, ReadersFirstWriter DEF ReadersFirst!Next

-----------------------------------------------------------------------------
(* readerWriter2.c: everybody queues at priority_lock.                      *)

(* The readers reader_num counts there.                                     *)
Admitted == {r \in Readers : pc[r] \in {"admit", "pass", "read", "leave", "dec"}}

WritersFirstTypes ==
    /\ writer_lock \in Threads \cup {Nobody}
    /\ readNum_lock \in Readers \cup {Nobody}
    /\ priority_lock \in Threads \cup {Nobody}
    /\ message \in Seq(Writers)
    /\ pc \in [Threads -> {"queue", "enter", "first", "inc", "admit", "pass", "read", "leave",
                           "dec", "last", "gone",
                           "lock", "full", "write", "unlock", "quit", "done"}]
    /\ \A r \in Readers : pc[r] \notin {"lock", "full", "write", "unlock", "quit", "done"}
    /\ \A w \in Writers : pc[w] \in {"queue", "lock", "pass", "full", "write", "unlock",
                                    "quit", "done"}

(* Who is where says who holds which mutex: between its lock and unlock.    *)
HoldsPriority ==
    \A t \in Threads : priority_lock = t <=> pc[t] \in {"enter", "first", "inc", "admit",
                                                        "pass", "lock"}

HoldsCount ==
    \A r \in Readers : readNum_lock = r <=> pc[r] \in {"first", "inc", "admit", "dec", "last",
                                                      "gone"}

HoldsMessage ==
    /\ \A w \in Writers : writer_lock = w <=> pc[w] \in {"pass", "full", "write", "unlock", "quit"}
    /\ \A r \in Readers : r \in Admitted \/ pc[r] \in {"inc", "last"} => writer_lock \in Readers

CountsAdmitted ==
    /\ reader_num = Cardinality(Admitted)
    /\ \A r \in Readers : pc[r] \in {"first", "last"} => reader_num = 0

WritersFirstInv ==
    WritersFirstTypes /\ HoldsPriority /\ HoldsCount /\ HoldsMessage /\ CountsAdmitted

LEMMA AdmittedFinite == IsFiniteSet(Admitted) /\ IsFiniteSet(Admitted')
<1>1. Admitted \in SUBSET Readers /\ Admitted' \in SUBSET Readers
  BY DEF Admitted
<1> QED BY <1>1, FS_Subset, Apart

LEMMA WritersFirstInit == WritersFirst!Init => WritersFirstInv
<1> SUFFICES ASSUME WritersFirst!Init PROVE WritersFirstInv
  OBVIOUS
<1>1. \A t \in Threads : pc[t] = "queue"
  BY DEF WritersFirst!Init, WritersFirst!Threads, Threads
<1>2. Admitted = {} /\ Cardinality(Admitted) = 0
  BY <1>1, FS_EmptySet DEF Admitted, Threads
<1>3. WritersFirstTypes
  BY <1>1, Apart DEF WritersFirst!Init, WritersFirst!Threads, WritersFirstTypes, Threads
<1>4. HoldsPriority /\ HoldsCount /\ HoldsMessage /\ CountsAdmitted
  BY <1>1, <1>2, Apart DEF WritersFirst!Init, HoldsPriority, HoldsCount, HoldsMessage,
                           CountsAdmitted, Threads
<1> QED BY <1>3, <1>4 DEF WritersFirstInv

LEMMA WritersFirstReaderTypes ==
    ASSUME WritersFirstInv, NEW r \in Readers, WritersFirst!reader(r)
    PROVE  WritersFirstTypes' /\ HoldsPriority' /\ HoldsCount'
<1> USE Apart DEF WritersFirstInv, WritersFirstTypes, WritersFirst!locks
<1>1. r \in Threads /\ r \notin Writers /\ \A s \in Readers : s \in Threads
  BY DEF Threads
<1>2. CASE WritersFirst!Queue(r) \/ WritersFirst!Pass(r)
  BY <1>1, <1>2 DEF HoldsPriority, HoldsCount, WritersFirst!Queue, WritersFirst!Pass,
                    WritersFirst!Step, Threads
<1>3. CASE WritersFirst!Enter(r) \/ WritersFirst!LeaveLock(r)
  BY <1>1, <1>3 DEF HoldsPriority, HoldsCount, WritersFirst!Enter, WritersFirst!LeaveLock,
                    WritersFirst!Step, Threads
<1>4. CASE WritersFirst!First(r) \/ WritersFirst!Inc(r) \/ WritersFirst!Leave(r)
  BY <1>1, <1>4 DEF HoldsPriority, HoldsCount, WritersFirst!First, WritersFirst!Inc,
                    WritersFirst!Leave, WritersFirst!Step, Threads
<1>5. CASE WritersFirst!Admit(r) \/ WritersFirst!Gone(r)
  BY <1>1, <1>5 DEF HoldsPriority, HoldsCount, WritersFirst!Admit, WritersFirst!Gone,
                    WritersFirst!Step, Threads
<1>6. CASE WritersFirst!Dec(r) \/ WritersFirst!Last(r)
  BY <1>1, <1>6 DEF HoldsPriority, HoldsCount, WritersFirst!Dec, WritersFirst!Last,
                    WritersFirst!Step, Threads
<1> QED BY <1>2, <1>3, <1>4, <1>5, <1>6 DEF WritersFirst!reader, WritersFirst!ReaderWaits,
                                            WritersFirst!ReaderRuns

(* Only the holder of readNum_lock changes reader_num.                      *)
LEMMA WritersFirstReaderCounts ==
    ASSUME WritersFirstInv, NEW r \in Readers, WritersFirst!reader(r)
    PROVE  CountsAdmitted'
<1> USE Apart DEF WritersFirstInv, WritersFirstTypes, WritersFirst!locks
<1>1. r \in Threads /\ \A s \in Readers : s \in Threads
  BY DEF Threads
<1>2. CASE \/ WritersFirst!Queue(r) \/ WritersFirst!Pass(r) \/ WritersFirst!Enter(r)
           \/ WritersFirst!LeaveLock(r) \/ WritersFirst!First(r) \/ WritersFirst!Leave(r)
           \/ WritersFirst!Admit(r) \/ WritersFirst!Gone(r) \/ WritersFirst!Last(r)
  <2>1. Admitted' = Admitted /\ reader_num' = reader_num
    BY <1>1, <1>2 DEF Admitted, WritersFirst!Queue, WritersFirst!Pass, WritersFirst!Enter,
         WritersFirst!LeaveLock, WritersFirst!First, WritersFirst!Leave, WritersFirst!Admit,
         WritersFirst!Gone, WritersFirst!Last, WritersFirst!Step
  <2>2. \A s \in Readers : pc'[s] \in {"first", "last"} => pc[s] = pc'[s] \/ reader_num = 0
    BY <1>1, <1>2 DEF WritersFirst!Queue, WritersFirst!Pass, WritersFirst!Enter,
         WritersFirst!LeaveLock, WritersFirst!First, WritersFirst!Leave, WritersFirst!Admit,
         WritersFirst!Gone, WritersFirst!Last, WritersFirst!Step
  <2> QED BY <2>1, <2>2 DEF CountsAdmitted
<1>3. CASE WritersFirst!Inc(r)
  <2>1. r \notin Admitted /\ Admitted' = Admitted \cup {r} /\ reader_num' = reader_num + 1
    BY <1>1, <1>3 DEF Admitted, WritersFirst!Inc, WritersFirst!Step
  <2>2. Cardinality(Admitted') = Cardinality(Admitted) + 1
    BY <2>1, AdmittedFinite, FS_AddElement
  <2>3. \A s \in Readers : pc'[s] \notin {"first", "last"}
    BY <1>1, <1>3 DEF HoldsCount, WritersFirst!Inc, WritersFirst!Step
  <2> QED BY <2>1, <2>2, <2>3 DEF CountsAdmitted
<1>4. CASE WritersFirst!Dec(r)
  <2>1. r \in Admitted /\ Admitted' = Admitted \ {r} /\ reader_num' = reader_num - 1
    BY <1>1, <1>4 DEF Admitted, WritersFirst!Dec, WritersFirst!Step
  <2>2. Cardinality(Admitted') = Cardinality(Admitted) - 1
    BY <2>1, AdmittedFinite, FS_RemoveElement
  <2>3. \A s \in Readers : pc'[s] \in {"first", "last"} => reader_num - 1 = 0
    BY <1>1, <1>4 DEF HoldsCount, WritersFirst!Dec, WritersFirst!Step
  <2> QED BY <2>1, <2>2, <2>3 DEF CountsAdmitted
<1> QED BY <1>2, <1>3, <1>4 DEF WritersFirst!reader, WritersFirst!ReaderWaits,
                                WritersFirst!ReaderRuns

LEMMA ZeroMeansNoneAdmitted == CountsAdmitted => (reader_num = 0 <=> Admitted = {})
BY AdmittedFinite, FS_EmptySet DEF CountsAdmitted

(* The readers keep writer_lock from the first to the last of them.         *)
LEMMA WritersFirstGroup ==
    ASSUME WritersFirstInv, NEW r \in Readers, WritersFirst!reader(r)
    PROVE  HoldsMessage'
<1> USE Apart DEF WritersFirstInv, WritersFirstTypes, WritersFirst!locks
<1>1. /\ r \in Threads
      /\ \A s \in Readers : s \in Threads
      /\ \A w \in Writers : w \in Threads /\ w # r
  BY DEF Threads
<1>2. CASE \/ WritersFirst!Queue(r) \/ WritersFirst!Pass(r) \/ WritersFirst!Leave(r)
           \/ WritersFirst!LeaveLock(r) \/ WritersFirst!Gone(r) \/ WritersFirst!Admit(r)
  BY <1>1, <1>2 DEF HoldsMessage, Admitted, WritersFirst!Queue, WritersFirst!Pass,
       WritersFirst!Leave, WritersFirst!LeaveLock, WritersFirst!Gone, WritersFirst!Admit,
       WritersFirst!Step
<1>3. CASE WritersFirst!Enter(r)
  <2>1. reader_num # 0 => writer_lock \in Readers
    BY ZeroMeansNoneAdmitted DEF HoldsMessage, Admitted
  <2> QED BY <1>1, <1>3, <2>1 DEF HoldsMessage, Admitted, WritersFirst!Enter, WritersFirst!Step
<1>4. CASE WritersFirst!First(r)
  BY <1>1, <1>4 DEF HoldsMessage, WritersFirst!First, WritersFirst!Step
<1>5. CASE WritersFirst!Inc(r)
  BY <1>1, <1>5 DEF HoldsMessage, Admitted, WritersFirst!Inc, WritersFirst!Step
<1>6. CASE WritersFirst!Dec(r)
  BY <1>1, <1>6 DEF HoldsMessage, Admitted, WritersFirst!Dec, WritersFirst!Step
<1>7. CASE WritersFirst!Last(r)
  <2>1. Admitted = {} /\ writer_lock \in Readers
    BY <1>7, ZeroMeansNoneAdmitted DEF CountsAdmitted, HoldsMessage, WritersFirst!Last,
                                       WritersFirst!Step
  <2>2. \A s \in Readers : s \notin Admitted' /\ pc'[s] \notin {"inc", "last"}
    BY <1>1, <1>7, <2>1 DEF HoldsCount, Admitted, WritersFirst!Last, WritersFirst!Step
  <2> QED BY <1>1, <1>7, <2>1, <2>2 DEF HoldsMessage, WritersFirst!Last, WritersFirst!Step
<1> QED BY <1>2, <1>3, <1>4, <1>5, <1>6, <1>7 DEF WritersFirst!reader, WritersFirst!ReaderWaits,
                                                  WritersFirst!ReaderRuns

LEMMA WritersFirstWriter ==
    ASSUME WritersFirstInv, NEW w \in Writers, WritersFirst!writer(w)
    PROVE  WritersFirstInv'
<1> USE Apart DEF WritersFirstInv, WritersFirstTypes, WritersFirst!locks
<1>1. w \in Threads /\ w \notin Readers /\ \A r \in Readers : r \in Threads /\ r # w
  BY DEF Threads
<1>2. (\A r \in Readers : pc'[r] = pc[r]) /\ reader_num' = reader_num /\ readNum_lock' = readNum_lock
  BY <1>1 DEF WritersFirst!writer, WritersFirst!WriterWaits, WritersFirst!WriterRuns,
              WritersFirst!Queue, WritersFirst!Pass, WritersFirst!Lock, WritersFirst!Full,
              WritersFirst!Write, WritersFirst!Unlock, WritersFirst!Step
<1>3. Admitted' = Admitted
  BY <1>2 DEF Admitted
<1>4. HoldsCount' /\ CountsAdmitted'
  BY <1>2, <1>3 DEF HoldsCount, CountsAdmitted
<1>5. WritersFirstTypes' /\ HoldsPriority' /\ HoldsMessage'
  <2>1. CASE WritersFirst!Queue(w) \/ WritersFirst!Pass(w)
    BY <1>1, <1>2, <1>3, <2>1 DEF HoldsPriority, HoldsMessage, WritersFirst!Queue,
                                  WritersFirst!Pass, WritersFirst!Step, Threads
  <2>2. CASE WritersFirst!Lock(w) \/ WritersFirst!Full(w)
    BY <1>1, <1>2, <1>3, <2>2 DEF HoldsPriority, HoldsMessage, WritersFirst!Lock,
                                  WritersFirst!Full, WritersFirst!Step, Threads
  <2>3. CASE WritersFirst!Write(w)
    BY <1>1, <1>2, <1>3, <2>3 DEF HoldsPriority, HoldsMessage, WritersFirst!Write,
                                  WritersFirst!Step, Threads
  <2>4. CASE WritersFirst!Unlock(w)
    <3>1. /\ writer_lock' = Nobody /\ pc[w] \in {"unlock", "quit"} /\ writer_lock = w
          /\ UNCHANGED <<readNum_lock, priority_lock, reader_num, message>>
          /\ \E p \in {"queue", "done"} : pc' = [pc EXCEPT ![w] = p]
      BY <1>1, <2>4 DEF HoldsMessage, WritersFirst!Unlock, WritersFirst!Step
    <3> QED BY <1>1, <1>2, <1>3, <3>1 DEF HoldsPriority, HoldsMessage, Threads
  <2> QED BY <2>1, <2>2, <2>3, <2>4 DEF WritersFirst!writer, WritersFirst!WriterWaits,
                                        WritersFirst!WriterRuns
<1> QED BY <1>4, <1>5

LEMMA WritersFirstNext ==
    ASSUME WritersFirstInv, [WritersFirst!Next]_(WritersFirst!vars)
    PROVE  WritersFirstInv'
<1>1. CASE UNCHANGED WritersFirst!vars
  BY <1>1 DEF WritersFirst!vars, WritersFirst!locks, WritersFirstInv, WritersFirstTypes,
              HoldsPriority, HoldsCount, HoldsMessage, CountsAdmitted, Admitted
<1>2. ASSUME NEW r \in Readers, WritersFirst!reader(r) PROVE WritersFirstInv'
  BY <1>2, WritersFirstReaderTypes, WritersFirstReaderCounts, WritersFirstGroup
     DEF WritersFirstInv
<1> QED BY <1>1, <1>2, WritersFirstWriter DEF WritersFirst!Next

-----------------------------------------------------------------------------
(* readerWriter3.c: the lock holds exactly those between lock and unlock.   *)
RwLockInv ==
    /\ reader_num = 0
    /\ message \in Seq(Writers)
    /\ pc \in [Threads -> {"lock", "read", "full", "write", "unlock", "quit", "done"}]
    /\ \A r \in Readers : pc[r] \in {"lock", "read"}
    /\ \A w \in Writers : pc[w] # "read"
    /\ rwlock = {t \in Threads : pc[t] \notin {"lock", "done"}}
    /\ \A w \in Writers : w \in rwlock => rwlock = {w}

LEMMA RwLockInit == RwLock!Init /\ reader_num = 0 => RwLockInv
BY Apart DEF RwLock!Init, RwLock!Threads, RwLockInv, Threads

LEMMA RwLockReader ==
    ASSUME RwLockInv, NEW r \in Readers, RwLock!reader(r), UNCHANGED NotRwLock
    PROVE  RwLockInv'
<1> USE Apart DEF RwLockInv, NotRwLock
<1>1. r \in Threads /\ r \notin Writers /\ \A s \in Readers : s \in Threads
  BY DEF Threads
<1>2. CASE RwLock!RdLock(r)
  BY <1>1, <1>2 DEF RwLock!RdLock, RwLock!Step, Threads
<1>3. CASE RwLock!RdUnlock(r)
  BY <1>1, <1>3 DEF RwLock!RdUnlock, RwLock!Step, Threads
<1> QED BY <1>2, <1>3 DEF RwLock!reader

LEMMA RwLockWriter ==
    ASSUME RwLockInv, NEW w \in Writers, RwLock!writer(w), UNCHANGED NotRwLock
    PROVE  RwLockInv'
<1> USE Apart DEF RwLockInv, NotRwLock
<1>1. w \in Threads /\ w \notin Readers /\ \A v \in Writers : v \in Threads
  BY DEF Threads
<1>2. CASE RwLock!WrLock(w)
  BY <1>1, <1>2 DEF RwLock!WrLock, RwLock!Step, Threads
<1>3. CASE RwLock!Full(w)
  BY <1>1, <1>3 DEF RwLock!Full, RwLock!Step, Threads
<1>4. CASE RwLock!Write(w)
  BY <1>1, <1>4 DEF RwLock!Write, RwLock!Step, Threads
<1>5. CASE RwLock!WrUnlock(w)
  <2>1. /\ w \in rwlock /\ rwlock' = {} /\ UNCHANGED message
        /\ \E p \in {"lock", "done"} : pc' = [pc EXCEPT ![w] = p]
    BY <1>1, <1>5 DEF RwLock!WrUnlock, RwLock!Step
  <2>2. \A t \in Threads : t # w => pc[t] \in {"lock", "done"}
    BY <2>1
  <2> QED BY <1>1, <2>1, <2>2 DEF Threads
<1> QED BY <1>2, <1>3, <1>4, <1>5 DEF RwLock!writer

-----------------------------------------------------------------------------
(* What a step of any of the three programs does to one thread: it moves it,*)
(* or appends its character.  Nobody gets to the write with the array full. *)
MovesTo(t, q) ==
    /\ pc' = [pc EXCEPT ![t] = q]
    /\ UNCHANGED message
    /\ q = "write" => Len(message) < MAXMSG - 1

Writes(w) ==
    /\ pc[w] = "write" /\ pc' = [pc EXCEPT ![w] = "unlock"]
    /\ message' = Append(message, w)

LEMMA FullMoves ==
    ASSUME message \in Seq(Writers), UNCHANGED message, NEW w,
           pc' = [pc EXCEPT ![w] = IF Len(message) >= MAXMSG - 1 THEN "quit" ELSE "write"]
    PROVE  \E q : MovesTo(w, q)
<1>1. Len(message) \in Nat /\ MAXMSG - 1 \in Int
  BY Apart
<1>2. CASE Len(message) >= MAXMSG - 1
  <2>1. MovesTo(w, "quit")
    BY <1>2 DEF MovesTo
  <2> QED BY <2>1
<1>3. CASE ~(Len(message) >= MAXMSG - 1)
  <2>1. Len(message) < MAXMSG - 1
    BY <1>1, <1>3
  <2>2. MovesTo(w, "write")
    BY <1>3, <2>1 DEF MovesTo
  <2> QED BY <2>2
<1> QED BY <1>2, <1>3

LEMMA ReadersFirstMoves ==
    ASSUME message \in Seq(Writers), ReadersFirst!Next
    PROVE  (\E t \in Threads : \E q : MovesTo(t, q)) \/ (\E w \in Writers : Writes(w))
<1> USE DEF ReadersFirst!Step, ReadersFirst!locks, MovesTo
<1>1. ASSUME NEW r \in Readers, ReadersFirst!ReaderWaits(r) PROVE \E q : MovesTo(r, q)
  BY <1>1 DEF ReadersFirst!ReaderWaits, ReadersFirst!Enter, ReadersFirst!First,
              ReadersFirst!LeaveLock
<1>2. ASSUME NEW r \in Readers, ReadersFirst!ReaderRuns(r) PROVE \E q : MovesTo(r, q)
  BY <1>2 DEF ReadersFirst!ReaderRuns, ReadersFirst!Test, ReadersFirst!IncLoad,
              ReadersFirst!IncStore, ReadersFirst!Admit, ReadersFirst!Leave,
              ReadersFirst!DecLoad, ReadersFirst!DecStore, ReadersFirst!TestLast,
              ReadersFirst!Last, ReadersFirst!Gone
<1>3. ASSUME NEW w \in Writers, ReadersFirst!Lock(w) \/ ReadersFirst!Unlock(w)
      PROVE  \E q : MovesTo(w, q)
  BY <1>3 DEF ReadersFirst!Lock, ReadersFirst!Unlock
<1>4. ASSUME NEW w \in Writers, ReadersFirst!Full(w) PROVE \E q : MovesTo(w, q)
  BY <1>4, FullMoves DEF ReadersFirst!Full
<1>5. ASSUME NEW w \in Writers, ReadersFirst!Write(w) PROVE Writes(w)
  BY <1>5 DEF ReadersFirst!Write, Writes
<1> QED BY <1>1, <1>2, <1>3, <1>4, <1>5 DEF Threads, ReadersFirst!Next, ReadersFirst!reader,
          ReadersFirst!writer, ReadersFirst!WriterWaits, ReadersFirst!WriterRuns

LEMMA WritersFirstMoves ==
    ASSUME message \in Seq(Writers), WritersFirst!Next
    PROVE  (\E t \in Threads : \E q : MovesTo(t, q)) \/ (\E w \in Writers : Writes(w))
<1> USE DEF WritersFirst!Step, WritersFirst!locks, MovesTo
<1>1. ASSUME NEW r \in Readers, WritersFirst!ReaderWaits(r) PROVE \E q : MovesTo(r, q)
  BY <1>1 DEF WritersFirst!ReaderWaits, WritersFirst!Queue, WritersFirst!Enter,
              WritersFirst!First, WritersFirst!LeaveLock
<1>2. ASSUME NEW r \in Readers, WritersFirst!ReaderRuns(r) PROVE \E q : MovesTo(r, q)
  BY <1>2 DEF WritersFirst!ReaderRuns, WritersFirst!Pass, WritersFirst!Inc, WritersFirst!Admit,
              WritersFirst!Leave, WritersFirst!Dec, WritersFirst!Last, WritersFirst!Gone
<1>3. ASSUME NEW w \in Writers, \/ WritersFirst!WriterWaits(w) \/ WritersFirst!Pass(w)
                               \/ WritersFirst!Unlock(w)
      PROVE  \E q : MovesTo(w, q)
  BY <1>3 DEF WritersFirst!WriterWaits, WritersFirst!Queue, WritersFirst!Lock,
              WritersFirst!Pass, WritersFirst!Unlock
<1>4. ASSUME NEW w \in Writers, WritersFirst!Full(w) PROVE \E q : MovesTo(w, q)
  BY <1>4, FullMoves DEF WritersFirst!Full
<1>5. ASSUME NEW w \in Writers, WritersFirst!Write(w) PROVE Writes(w)
  BY <1>5 DEF WritersFirst!Write, Writes
<1> QED BY <1>1, <1>2, <1>3, <1>4, <1>5 DEF Threads, WritersFirst!Next, WritersFirst!reader,
                                            WritersFirst!writer, WritersFirst!WriterRuns

LEMMA RwLockMoves ==
    ASSUME message \in Seq(Writers), RwLock!Next
    PROVE  (\E t \in Threads : \E q : MovesTo(t, q)) \/ (\E w \in Writers : Writes(w))
<1> USE DEF RwLock!Step, MovesTo
<1>1. ASSUME NEW r \in Readers, RwLock!reader(r) PROVE \E q : MovesTo(r, q)
  BY <1>1 DEF RwLock!reader, RwLock!RdLock, RwLock!RdUnlock
<1>2. ASSUME NEW w \in Writers, RwLock!WrLock(w) \/ RwLock!WrUnlock(w) PROVE \E q : MovesTo(w, q)
  BY <1>2 DEF RwLock!WrLock, RwLock!WrUnlock
<1>3. ASSUME NEW w \in Writers, RwLock!Full(w) PROVE \E q : MovesTo(w, q)
  BY <1>3, FullMoves DEF RwLock!Full
<1>4. ASSUME NEW w \in Writers, RwLock!Write(w) PROVE Writes(w)
  BY <1>4 DEF RwLock!Write, Writes
<1> QED BY <1>1, <1>2, <1>3, <1>4 DEF Threads, RwLock!Next, RwLock!writer

-----------------------------------------------------------------------------
(* The three programs together.                                             *)

(* The array keeps a place for the NUL: who is about to write has checked,  *)
(* and nobody else writes before it.                                        *)
MessageFits ==
    /\ Len(message) <= MAXMSG - 1
    /\ \A w \in Writers : pc[w] = "write" => Len(message) < MAXMSG - 1

IInv ==
    /\ program \in {"readerWriter", "readerWriter2", "readerWriter3"}
    /\ program = "readerWriter" => ReadersFirst!IInv
    /\ program = "readerWriter2" => WritersFirstInv
    /\ program = "readerWriter3" => RwLockInv
    /\ MessageFits

LEMMA ReadersFirstAlone == ReadersFirst!IInv => WriterAlone
<1> SUFFICES ASSUME ReadersFirst!IInv PROVE WriterAlone
  OBVIOUS
<1>0. \A w \in writing : w \in Writers /\ pc[w] \in {"full", "write", "unlock", "quit"}
  BY DEF ReadersFirst!IInv, ReadersFirst!SidesApart, writing
<1>1. \A v, w \in writing : v = w
  BY <1>0 DEF ReadersFirst!IInv, ReadersFirst!WriterHolds
<1>2. ASSUME NEW r \in reading, NEW w \in writing PROVE FALSE
  <2>1. writer_lock \in Readers
    BY DEF reading, ReadersFirst!IInv, ReadersFirst!GroupHolds, ReadersFirst!Counted
  <2>2. writer_lock = w /\ w \in Writers
    BY <1>0 DEF ReadersFirst!IInv, ReadersFirst!WriterHolds
  <2> QED BY <2>1, <2>2, Apart
<1> QED BY <1>1, <1>2 DEF WriterAlone

LEMMA WritersFirstAlone == WritersFirstInv => WriterAlone
BY Apart DEF WritersFirstInv, HoldsMessage, Admitted, WriterAlone, reading, writing

LEMMA RwLockAlone == RwLockInv => WriterAlone
<1> SUFFICES ASSUME RwLockInv PROVE WriterAlone
  OBVIOUS
<1>1. writing \subseteq rwlock /\ reading \subseteq rwlock
  BY DEF RwLockInv, reading, writing, Threads
<1>2. \A w \in writing : w \in Writers /\ rwlock = {w}
  BY <1>1 DEF RwLockInv, writing
<1>3. \A r \in reading : r \in Readers
  BY DEF reading
<1> QED BY <1>1, <1>2, <1>3, Apart DEF WriterAlone

LEMMA AloneInIInv == IInv => WriterAlone
BY ReadersFirstAlone, WritersFirstAlone, RwLockAlone DEF IInv

LEMMA Types ==
    ASSUME IInv
    PROVE  message \in Seq(Writers) /\ \E P : pc \in [Threads -> P]
<1>1. CASE program = "readerWriter"
  BY <1>1 DEF IInv, ReadersFirst!IInv, ReadersFirst!TypeOK, ReadersFirst!Threads, Threads
<1>2. CASE program = "readerWriter2"
  BY <1>2 DEF IInv, WritersFirstInv, WritersFirstTypes
<1>3. CASE program = "readerWriter3"
  BY <1>3 DEF IInv, RwLockInv
<1> QED BY <1>1, <1>2, <1>3 DEF IInv

LEMMA InitIInv == Init => IInv
<1> SUFFICES ASSUME Init PROVE IInv
  OBVIOUS
<1>1. MessageFits
  <2>1. message = << >> /\ Len(message) = 0
    BY DEF Init, ReadersFirst!Init, WritersFirst!Init, RwLock!Init
  <2>2. \A w \in Writers : pc[w] # "write"
    BY DEF Init, ReadersFirst!Init, WritersFirst!Init, RwLock!Init, ReadersFirst!Threads,
           WritersFirst!Threads, RwLock!Threads
  <2> QED BY <2>1, <2>2, Apart DEF MessageFits
<1> QED BY <1>1, ReadersFirstInit, WritersFirstInit, RwLockInit DEF Init, IInv

(* A step of the program that runs is one of that program's steps.          *)
LEMMA NextIsTheirs ==
    ASSUME Next
    PROVE  /\ program' = program
           /\ \/ program = "readerWriter" /\ ReadersFirst!Next
              \/ program = "readerWriter2" /\ WritersFirst!Next
              \/ program = "readerWriter3" /\ RwLock!Next /\ UNCHANGED NotRwLock
<1> USE DEF In
<1>1. ASSUME NEW r \in Readers, ReaderWaits(r) \/ ReaderRuns(r)
      PROVE  /\ program' = program
             /\ \/ program = "readerWriter" /\ ReadersFirst!reader(r)
                \/ program = "readerWriter2" /\ WritersFirst!reader(r)
                \/ program = "readerWriter3" /\ RwLock!reader(r) /\ UNCHANGED NotRwLock
  BY <1>1 DEF ReaderWaits, ReaderRuns, ReadersFirst!reader, WritersFirst!reader, RwLock!reader
<1>2. ASSUME NEW w \in Writers, WriterWaits(w) \/ WriterRuns(w)
      PROVE  /\ program' = program
             /\ \/ program = "readerWriter" /\ ReadersFirst!writer(w)
                \/ program = "readerWriter2" /\ WritersFirst!writer(w)
                \/ program = "readerWriter3" /\ RwLock!writer(w) /\ UNCHANGED NotRwLock
  BY <1>2 DEF WriterWaits, WriterRuns, ReadersFirst!writer, WritersFirst!writer, RwLock!writer
<1> QED BY <1>1, <1>2 DEF Next, ReadersFirst!Next, WritersFirst!Next, RwLock!Next

LEMMA NextMoves ==
    ASSUME IInv, Next
    PROVE  (\E t \in Threads : \E q : MovesTo(t, q)) \/ (\E w \in Writers : Writes(w))
BY Types, NextIsTheirs, ReadersFirstMoves, WritersFirstMoves, RwLockMoves

LEMMA StepMessageFits ==
    ASSUME IInv, Next
    PROVE  MessageFits'
<1>0. message \in Seq(Writers) /\ Len(message) \in Nat /\ MAXMSG - 1 \in Int
  BY Types, Apart
<1>1. PICK P : pc \in [Threads -> P]
  BY Types
<1>2. ASSUME NEW t \in Threads, NEW q, MovesTo(t, q) PROVE MessageFits'
  BY <1>0, <1>1, <1>2 DEF IInv, MessageFits, MovesTo, Threads
<1>3. ASSUME NEW w \in Writers, Writes(w) PROVE MessageFits'
  <2>1. w \in writing /\ Len(message) < MAXMSG - 1
    BY <1>3 DEF Writes, writing, IInv, MessageFits
  <2>2. Len(message') = Len(message) + 1
    BY <1>0, <1>3 DEF Writes
  <2>3. \A v \in Writers : pc'[v] # "write"
    <3> SUFFICES ASSUME NEW v \in Writers, pc'[v] = "write" PROVE FALSE
      OBVIOUS
    <3>1. v # w /\ pc[v] = "write"
      BY <1>1, <1>3 DEF Writes, Threads
    <3> QED BY <2>1, <3>1, AloneInIInv DEF WriterAlone, writing
  <2> QED BY <1>0, <2>1, <2>2, <2>3 DEF MessageFits
<1> QED BY <1>2, <1>3, NextMoves

LEMMA NextIInv ==
    ASSUME ReadNumLockWorks, IInv, [Next]_vars
    PROVE  IInv'
<1>1. CASE UNCHANGED vars
  <2>1. program' = program /\ MessageFits'
    BY <1>1 DEF vars, IInv, MessageFits
  <2>2. CASE program = "readerWriter"
    BY <1>1, <2>1, <2>2, ReadersFirstNext DEF IInv, vars, ReadersFirst!vars
  <2>3. CASE program = "readerWriter2"
    BY <1>1, <2>1, <2>3, WritersFirstNext DEF IInv, vars, WritersFirst!vars, WritersFirst!locks
  <2>4. CASE program = "readerWriter3"
    BY <1>1, <2>1, <2>4 DEF IInv, vars, RwLockInv
  <2> QED BY <2>1, <2>2, <2>3, <2>4 DEF IInv
<1>2. CASE Next
  <2>1. program' = program /\ MessageFits'
    BY <1>2, StepMessageFits, NextIsTheirs
  <2>2. CASE program = "readerWriter"
    BY <1>2, <2>1, <2>2, NextIsTheirs, ReadersFirstNext DEF IInv
  <2>3. CASE program = "readerWriter2"
    BY <1>2, <2>1, <2>3, NextIsTheirs, WritersFirstNext DEF IInv
  <2>4. CASE program = "readerWriter3"
    <3>1. RwLock!Next /\ UNCHANGED NotRwLock /\ RwLockInv
      BY <1>2, <2>4, NextIsTheirs DEF IInv
    <3>2. RwLockInv'
      BY <3>1, RwLockReader, RwLockWriter DEF RwLock!Next
    <3> QED BY <2>1, <2>4, <3>2 DEF IInv
  <2> QED BY <2>1, <2>2, <2>3, <2>4 DEF IInv
<1> QED BY <1>1, <1>2

(* "A writer must not have access together with any other thread"           *)
(* (readerWriter.c, lines 3-4), for any number of readers and writers, in   *)
(* each of the three programs.                                              *)
THEOREM WritersAreAlone == ReadNumLockWorks /\ FairSpec => []WriterAlone
<1> SUFFICES ASSUME ReadNumLockWorks PROVE FairSpec => []WriterAlone
  OBVIOUS
<1>1. IInv /\ [Next]_vars => IInv'
  BY NextIInv
<1> QED BY InitIInv, <1>1, AloneInIInv, PTL DEF FairSpec

(* An arriving reader of readerWriter.c never waits for a writer while the  *)
(* group reads.                                                             *)
THEOREM ReadersGoFirst == ReadNumLockWorks /\ FairSpec => []ReadersPass
<1> SUFFICES ASSUME ReadNumLockWorks PROVE FairSpec => []ReadersPass
  OBVIOUS
<1>1. IInv /\ [Next]_vars => IInv'
  BY NextIInv
<1>2. IInv => ReadersPass
  <2> SUFFICES ASSUME IInv, program = "readerWriter", NEW r \in Readers, pc[r] = "read",
                      NEW s \in Readers, pc[s] = "first"
               PROVE  FALSE
    BY DEF ReadersPass, ReadersFirst!ReadersPass, ReadersFirst!reading
  <2>1. reader_num = 0
    BY DEF IInv, ReadersFirst!IInv, ReadersFirst!CountRight
  <2>2. r \in ReadersFirst!Counted
    BY DEF ReadersFirst!Counted
  <2> QED BY <2>1, <2>2, ZeroMeansNobody DEF IInv, ReadersFirst!IInv
<1> QED BY InitIInv, <1>1, <1>2, PTL DEF FairSpec

(* The mutexes and the count have their types, and the array always has     *)
(* room for the NUL after the characters.                                   *)
THEOREM TypesAreRight == ReadNumLockWorks /\ FairSpec => []TypeOK
<1> SUFFICES ASSUME ReadNumLockWorks PROVE FairSpec => []TypeOK
  OBVIOUS
<1>1. IInv /\ [Next]_vars => IInv'
  BY NextIInv
<1>2. IInv => TypeOK
  <2> SUFFICES ASSUME IInv PROVE TypeOK
    OBVIOUS
  <2>1. reader_num \in Nat
    <3>1. CASE program = "readerWriter"
      BY <3>1, CountedFinite, FS_CardinalityType, ReadersFirstCardinality
         DEF IInv, ReadersFirst!IInv, ReadersFirst!CountRight
    <3>2. CASE program = "readerWriter2"
      BY <3>2, AdmittedFinite, FS_CardinalityType DEF IInv, WritersFirstInv, CountsAdmitted
    <3>3. CASE program = "readerWriter3"
      BY <3>3 DEF IInv, RwLockInv
    <3> QED BY <3>1, <3>2, <3>3 DEF IInv
  <2> QED BY <2>1 DEF IInv, TypeOK, ReadersFirst!IInv, MessageFits
<1> QED BY InitIInv, <1>1, <1>2, PTL DEF FairSpec

-----------------------------------------------------------------------------
(* The three programs implement SharedMessage.                              *)

LEMMA MovesToMessage ==
    ASSUME NEW t \in Threads, NEW q, MovesTo(t, q), NEW P, pc \in [Threads -> P],
           WriterAlone, WriterAlone'
    PROVE  [Message!Next]_(Message!vars)
<1>0. Readers \subseteq Threads /\ Writers \subseteq Threads /\ UNCHANGED message
  BY DEF Threads, MovesTo
<1>1. ASSUME t \in Readers PROVE [Message!Next]_(Message!vars)
  <2>1. /\ writing' = writing
        /\ reading' = IF q = "read" THEN reading \cup {t} ELSE reading \ {t}
    BY <1>0, <1>1, Apart DEF MovesTo, reading, writing
  <2>2. CASE q = "read" /\ t \notin reading
    <3>1. writing = {}
      BY <2>1, <2>2 DEF WriterAlone
    <3> QED BY <1>0, <1>1, <2>1, <2>2, <3>1 DEF Message!StartRead, Message!Next
  <2>3. CASE q # "read" /\ t \in reading
    BY <1>0, <1>1, <2>1, <2>3 DEF Message!EndRead, Message!Next
  <2>4. CASE q = "read" <=> t \in reading
    <3>1. UNCHANGED <<reading, writing, message>>
      BY <1>0, <2>1, <2>4
    <3> QED BY <3>1 DEF Message!vars
  <2> QED BY <2>2, <2>3, <2>4
<1>2. ASSUME t \in Writers PROVE [Message!Next]_(Message!vars)
  <2> DEFINE Busy == {"pass", "full", "write", "unlock", "quit"}
  <2>1. /\ reading' = reading
        /\ writing' = IF q \in Busy THEN writing \cup {t} ELSE writing \ {t}
    BY <1>0, <1>2, Apart DEF MovesTo, reading, writing
  <2>2. CASE q \in Busy /\ t \notin writing
    <3>1. t \in writing' /\ reading = {} /\ writing = {} /\ writing' = {t}
      BY <2>1, <2>2 DEF WriterAlone
    <3> QED BY <1>0, <1>2, <2>1, <3>1 DEF Message!StartWrite, Message!Next
  <2>3. CASE q \notin Busy /\ t \in writing
    BY <1>0, <1>2, <2>1, <2>3 DEF Message!EndWrite, Message!Next
  <2>4. CASE q \in Busy <=> t \in writing
    <3>1. UNCHANGED <<reading, writing, message>>
      BY <1>0, <2>1, <2>4
    <3> QED BY <3>1 DEF Message!vars
  <2> QED BY <2>2, <2>3, <2>4
<1> QED BY <1>1, <1>2 DEF Threads

LEMMA WritesMessage ==
    ASSUME NEW w \in Writers, Writes(w), NEW P, pc \in [Threads -> P], MessageFits
    PROVE  Message!Next
<1>1. w \in writing /\ UNCHANGED <<reading, writing>>
  BY Apart DEF Writes, reading, writing, Threads
<1>2. Len(message) < MAXMSG - 1 /\ message' = Append(message, w)
  BY DEF Writes, MessageFits
<1> QED BY <1>1, <1>2 DEF Message!Write, Message!Next

(* Whatever the mutexes do, who sees the message and what is in it is what  *)
(* SharedMessage promises: readers together, a writer alone, one character  *)
(* at a time and never past the end.                                        *)
THEOREM KeepThePromise == ReadNumLockWorks /\ FairSpec => ImplementsSharedMessage
<1> SUFFICES ASSUME ReadNumLockWorks PROVE FairSpec => ImplementsSharedMessage
  OBVIOUS
<1>1. IInv /\ [Next]_vars => IInv'
  BY NextIInv
<1>2. Init => Message!Init
  <2> SUFFICES ASSUME Init PROVE Message!Init
    OBVIOUS
  <2>1. message = << >>
    BY DEF Init, ReadersFirst!Init, WritersFirst!Init, RwLock!Init
  <2>2. \A t \in Threads : pc[t] \in {"enter", "lock", "queue"}
    BY DEF Init, ReadersFirst!Init, WritersFirst!Init, RwLock!Init, Threads,
           ReadersFirst!Threads, WritersFirst!Threads, RwLock!Threads
  <2> QED BY <2>1, <2>2 DEF Message!Init, reading, writing, Threads
<1>3. IInv /\ WriterAlone /\ WriterAlone' /\ [Next]_vars => [Message!Next]_(Message!vars)
  <2> SUFFICES ASSUME IInv, WriterAlone, WriterAlone', [Next]_vars PROVE [Message!Next]_(Message!vars)
    OBVIOUS
  <2>1. CASE UNCHANGED vars
    BY <2>1 DEF vars, Message!vars, reading, writing
  <2>2. CASE Next
    <3>1. PICK P : pc \in [Threads -> P]
      BY Types
    <3> QED BY <2>2, <3>1, NextMoves, MovesToMessage, WritesMessage DEF IInv
  <2> QED BY <2>1, <2>2
<1> QED BY InitIInv, AloneInIInv, <1>1, <1>2, <1>3, PTL DEF FairSpec, ImplementsSharedMessage, Message!Spec

(* Writers first: the writer of readerWriter2.c that waits for writer_lock  *)
(* holds priority_lock, which every reader has to get through.              *)
THEOREM WritersGoFirst == FairSpec => WriterGoesNext
<1> DEFINE Inv == program = "readerWriter2" => WritersFirstInv
<1>1. Init => Inv
  BY WritersFirstInit DEF Init
<1>2. Inv /\ [Next]_vars => Inv'
  <2> SUFFICES ASSUME Inv, [Next]_vars, program' = "readerWriter2" PROVE WritersFirstInv'
    OBVIOUS
  <2>1. CASE UNCHANGED vars
    BY <2>1, WritersFirstNext DEF vars, WritersFirst!vars, WritersFirst!locks
  <2>2. CASE Next
    BY <2>2, NextIsTheirs, WritersFirstNext
  <2> QED BY <2>1, <2>2
<1>3. Inv /\ [Next]_vars =>
        [program = "readerWriter2" /\ (\E w \in Writers : pc[w] = "lock")
           => reading' \subseteq reading]_vars
  <2> SUFFICES ASSUME Inv, Next, program = "readerWriter2",
                      NEW w \in Writers, pc[w] = "lock", NEW r \in reading', r \notin reading
               PROVE  FALSE
    BY DEF reading
  <2>0. r \in Readers /\ pc'[r] = "read" /\ pc[r] # "read" /\ r \in Threads /\ w \in Threads
    BY DEF reading, Threads
  <2>1. pc \in [Threads -> {pc[t] : t \in Threads}]
    BY DEF WritersFirstInv, WritersFirstTypes
  <2>2. ASSUME NEW s \in Readers, WritersFirst!reader(s) PROVE s = r /\ pc[r] = "pass"
    BY <2>0, <2>1, <2>2 DEF WritersFirst!reader, WritersFirst!ReaderWaits,
         WritersFirst!ReaderRuns, WritersFirst!Queue, WritersFirst!Enter, WritersFirst!First,
         WritersFirst!LeaveLock, WritersFirst!Pass, WritersFirst!Inc, WritersFirst!Admit,
         WritersFirst!Leave, WritersFirst!Dec, WritersFirst!Last, WritersFirst!Gone,
         WritersFirst!Step
  <2>3. ASSUME NEW v \in Writers, WritersFirst!writer(v) PROVE FALSE
    BY <2>0, <2>1, <2>3, Apart DEF WritersFirst!writer, WritersFirst!WriterWaits,
         WritersFirst!WriterRuns, WritersFirst!Queue, WritersFirst!Lock, WritersFirst!Pass,
         WritersFirst!Full, WritersFirst!Write, WritersFirst!Unlock, WritersFirst!Step
  <2>4. pc[r] = "pass"
    BY NextIsTheirs, <2>2, <2>3 DEF WritersFirst!Next
  <2>5. priority_lock = r /\ priority_lock = w
    BY <2>0, <2>4 DEF WritersFirstInv, HoldsPriority
  <2> QED BY <2>0, <2>5, Apart
<1> HIDE DEF Inv
<1> QED BY <1>1, <1>2, <1>3, PTL DEF FairSpec, WriterGoesNext
=============================================================================
