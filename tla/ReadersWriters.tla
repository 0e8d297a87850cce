---------------------------- MODULE ReadersWriters ----------------------------
(***************************************************************************)
(* The three programs readerWriter.c, readerWriter2.c and readerWriter3.c   *)
(* side by side: each behaviour runs one of them, named by program, and     *)
(* leaves the variables of the others alone.  What they promise is stated   *)
(* once, and where they differ is stated as well: who may be kept waiting.  *)
(***************************************************************************)
EXTENDS Sequences, ReaderWriterThreads

CONSTANT ReadNumLockWorks

VARIABLES program,  \* the program that runs
          writer_lock, readNum_lock, priority_lock, rwlock,
          reader_num, tmp, message

vars == <<program, writer_lock, readNum_lock, priority_lock, rwlock, reader_num, tmp, message, pc>>

ReadersFirst == INSTANCE ReaderWriter   \* readers first
WritersFirst == INSTANCE ReaderWriter2  \* writers first
RwLock == INSTANCE ReaderWriter3  \* read-write lock

Init ==
    \/ /\ program = "readerWriter"
       /\ ReadersFirst!Init
       /\ priority_lock = Nobody /\ rwlock = {}
    \/ /\ program = "readerWriter2"
       /\ WritersFirst!Init
       /\ tmp = << >> /\ rwlock = {}
    \/ /\ program = "readerWriter3"
       /\ RwLock!Init
       /\ writer_lock = Nobody /\ readNum_lock = Nobody /\ priority_lock = Nobody
       /\ reader_num = 0 /\ tmp = << >>

In(p, others) == program = p /\ UNCHANGED <<program, others>>

NotReadersFirst == <<priority_lock, rwlock>>
NotWritersFirst == <<tmp, rwlock>>
NotRwLock == <<writer_lock, readNum_lock, priority_lock, reader_num, tmp>>

(* The steps of a thread that wait for a lock.                              *)
ReaderWaits(r) ==
    \/ In("readerWriter", NotReadersFirst) /\ ReadersFirst!ReaderWaits(r)
    \/ In("readerWriter2", NotWritersFirst) /\ WritersFirst!ReaderWaits(r)
    \/ In("readerWriter3", NotRwLock) /\ RwLock!RdLock(r)

WriterWaits(w) ==
    \/ In("readerWriter", NotReadersFirst) /\ ReadersFirst!WriterWaits(w)
    \/ In("readerWriter2", NotWritersFirst) /\ WritersFirst!WriterWaits(w)
    \/ In("readerWriter3", NotRwLock) /\ RwLock!WrLock(w)

(* The others.                                                              *)
ReaderRuns(r) ==
    \/ In("readerWriter", NotReadersFirst) /\ ReadersFirst!ReaderRuns(r)
    \/ In("readerWriter2", NotWritersFirst) /\ WritersFirst!ReaderRuns(r)
    \/ In("readerWriter3", NotRwLock) /\ RwLock!RdUnlock(r)

WriterRuns(w) ==
    \/ In("readerWriter", NotReadersFirst) /\ ReadersFirst!WriterRuns(w)
    \/ In("readerWriter2", NotWritersFirst) /\ WritersFirst!WriterRuns(w)
    \/ In("readerWriter3", NotRwLock) /\ (RwLock!Full(w) \/ RwLock!Write(w) \/ RwLock!WrUnlock(w))

Next ==
    \/ \E r \in Readers : ReaderWaits(r) \/ ReaderRuns(r)
    \/ \E w \in Writers : WriterWaits(w) \/ WriterRuns(w)

(* Runnable threads run, and a thread that finds its mutex free again and   *)
(* again gets it: everybody sleeps a second while holding or between locks. *)
Fairness ==
    /\ \A r \in Readers : WF_vars(ReaderRuns(r)) /\ SF_vars(ReaderWaits(r))
    /\ \A w \in Writers : WF_vars(WriterRuns(w)) /\ SF_vars(WriterWaits(w))

FairSpec == Init /\ [][Next]_vars /\ Fairness

-----------------------------------------------------------------------------
TypeOK ==
    /\ program \in {"readerWriter", "readerWriter2", "readerWriter3"}
    /\ program = "readerWriter" => ReadersFirst!TypeOK
    /\ Len(message) <= MAXMSG - 1
    /\ reader_num \in Nat

(* All three keep the promise of SharedMessage.                             *)
Message == INSTANCE SharedMessage WITH readers <- reading, writers <- writing

ImplementsSharedMessage == Message!Spec

(* Readers first: while somebody reads, no arriving reader of readerWriter.c*)
(* waits for a writer; the group shares one lock of writer_lock.            *)
ReadersPass ==
    program = "readerWriter" => ReadersFirst!ReadersPass

(* Writers first: once a writer of readerWriter2.c is next for writer_lock, *)
(* nobody starts to read before it.                                         *)
WriterGoesNext ==
    [][program = "readerWriter2" /\ (\E w \in Writers : pc[w] = "lock")
         => reading' \subseteq reading]_vars

(* No program starves its readers: the writers stop when the array is full, *)
(* and until then each of them gives the lock back after every character.   *)
ReadersServed == \A r \in Readers : []<>(pc[r] = "read")

(* With writers first every writer gets through: the array fills up and all *)
(* writer threads end, however many readers come and go.  (With readers     *)
(* first they may starve, as line 13 of readerWriter.c says.)               *)
WritersFinish == program = "readerWriter2" => <>(\A w \in Writers : pc[w] = "done")
=============================================================================
