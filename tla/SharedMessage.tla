---------------------------- MODULE SharedMessage ----------------------------
(***************************************************************************)
(* What the readers and writers of thread/readerWriter*.c are promised      *)
(* (readerWriter.c, lines 3-4): any number of readers may look at the       *)
(* message together, a writer is alone with it, and a message nobody but    *)
(* that writer can see grows by one character, up to a bound.               *)
(***************************************************************************)
EXTENDS Naturals, Sequences

CONSTANTS Readers, Writers,
          MAXMSG    \* size of the message array, one place of it for the NUL

VARIABLES readers,  \* the readers looking at the message
          writers,  \* the writer working on it: at most one
          message   \* what has been written: who wrote each character

vars == <<readers, writers, message>>

Init == readers = {} /\ writers = {} /\ message = << >>

StartRead(r) ==
    /\ writers = {}
    /\ r \notin readers
    /\ readers' = readers \cup {r}
    /\ UNCHANGED <<writers, message>>

EndRead(r) ==
    /\ r \in readers
    /\ readers' = readers \ {r}
    /\ UNCHANGED <<writers, message>>

StartWrite(w) ==
    /\ readers = {} /\ writers = {}
    /\ writers' = {w}
    /\ UNCHANGED <<readers, message>>

Write(w) ==
    /\ w \in writers
    /\ Len(message) < MAXMSG - 1
    /\ message' = Append(message, w)
    /\ UNCHANGED <<readers, writers>>

EndWrite(w) ==
    /\ w \in writers
    /\ writers' = writers \ {w}
    /\ UNCHANGED <<readers, message>>

Next ==
    \/ \E r \in Readers : StartRead(r) \/ EndRead(r)
    \/ \E w \in Writers : StartWrite(w) \/ Write(w) \/ EndWrite(w)

Spec == Init /\ [][Next]_vars
=============================================================================
