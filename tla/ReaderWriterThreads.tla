-------------------------- MODULE ReaderWriterThreads --------------------------
(* What the three reader-writer programs share: the threads, where each of  *)
(* them is, the size of the message array, and the promise all of them make.*)
EXTENDS Integers, FiniteSets

CONSTANTS Readers, Writers,
          MAXMSG,  \* size of the message array (10000 in the source)
          Nobody   \* "the mutex is free"

Threads == Readers \cup Writers

ASSUME ReaderWriterAssumption ==
    /\ Readers \cap Writers = {} /\ IsFiniteSet(Readers)
    /\ Nobody \notin Threads
    /\ MAXMSG \in Nat \ {0}

VARIABLE pc  \* pc[t]: where thread t is

reading == {r \in Readers : pc[r] = "read"}

(* A writer between its lock and its unlock; only writers of readerWriter2.c*)
(* are ever at "pass".                                                      *)
writing == {w \in Writers : pc[w] \in {"pass", "full", "write", "unlock", "quit"}}

(* "A writer must not have access together with any other thread, reader or *)
(* writer" (readerWriter.c, lines 3-4).                                     *)
WriterAlone ==
    /\ reading # {} => writing = {}
    /\ \A v, w \in writing : v = w
=============================================================================
