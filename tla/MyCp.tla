-------------------------------- MODULE MyCp --------------------------------
(***************************************************************************)
(* mycp.c: a file is copied over another piece by piece.  The destination   *)
(* is not truncated, and the two names may be of one file.                  *)
(***************************************************************************)
EXTENDS Integers, Sequences, SequencesExt

CONSTANTS BUFFER_LEN, Bytes, MaxBytes   \* 4096; contents and bound of a file's length

MyCpAssumption == BUFFER_LEN \in Nat \ {0} /\ MaxBytes \in Nat

VARIABLES
  cp,           \* "open", "read", "write", "end"
  same,         \* both names are of one file
  disk, old,    \* contents now and (history) when cp began; a new file is empty
  done,         \* bytes copied: both offsets but for what is in the buffer
  buffer

vars == <<cp, same, disk, old, done, buffer>>

Dest == IF same THEN "source" ELSE "dest"
-----------------------------------------------------------------------------
Init ==
    /\ cp = "open" /\ same \in BOOLEAN /\ done = 0 /\ buffer = << >>
    /\ disk \in [{"source", "dest"} -> SeqOf(Bytes, MaxBytes)] /\ old = disk

(* Wrong usage, or a file that cannot be opened, ends it.                   *)
Open ==
    /\ cp = "open" /\ cp' \in {"read", "end"}
    /\ UNCHANGED <<same, disk, old, done, buffer>>

(* read: what is there, as far as the buffer goes; nothing or an error ends *)
(* the loop.                                                                *)
Read ==
    /\ cp = "read"
    /\ LET rest == SubSeq(disk["source"], done + 1, Len(disk["source"]))
       IN  \/ /\ rest # << >> /\ cp' = "write"
              /\ buffer' = SubSeq(rest, 1, IF BUFFER_LEN < Len(rest) THEN BUFFER_LEN ELSE Len(rest))
           \/ cp' = "end" /\ UNCHANGED buffer
    /\ UNCHANGED <<same, disk, old, done>>

(* Mutant: the destination ends where the copy does so far.                 *)
OverlayCut(file, n) == SubSeq(file, 1, done) \o SubSeq(buffer, 1, n)

(* The n bytes written go to the destination's own offset.                  *)
Overlay(file, n) == SubSeq(file, 1, done) \o SubSeq(buffer, 1, n) \o SubSeq(file, done + n + 1, Len(file))

(* A short write (or none, an error) ends the loop.                         *)
Write ==
    /\ cp = "write"
    /\ \E n \in 0 .. Len(buffer) :
          /\ disk' = [disk EXCEPT ![Dest] = Overlay(@, n)]
          /\ done' = done + n /\ cp' = IF n = Len(buffer) THEN "read" ELSE "end"
    /\ buffer' = << >> /\ UNCHANGED <<same, old>>

Next == Open \/ Read \/ Write

Spec == Init /\ [][Next]_vars
-----------------------------------------------------------------------------
TypeOK ==
    /\ cp \in {"open", "read", "write", "end"} /\ same \in BOOLEAN
    /\ disk \in [{"source", "dest"} -> SeqOf(Bytes, MaxBytes)] /\ old \in [{"source", "dest"} -> SeqOf(Bytes, MaxBytes)]
    /\ done \in 0 .. Len(disk["source"]) /\ buffer \in SeqOf(Bytes, BUFFER_LEN)

(* However far the copy got, the destination is what was copied and behind  *)
(* it what it held before: a shorter file over a longer one leaves the      *)
(* longer one's end (mycp.c:26 has no O_TRUNC), and so no file that is      *)
(* copied over itself is lost.  The source is as it was.                    *)
CopiesOver ==
    /\ disk[Dest] = SubSeq(old["source"], 1, done) \o SubSeq(old[Dest], done + 1, Len(old[Dest]))
    /\ disk["source"] = old["source"]
=============================================================================
