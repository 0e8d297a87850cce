-------------------------------- MODULE MyPWD --------------------------------
(***************************************************************************)
(* myPWD.c: climb from "." to the root, looking in each parent for the name *)
(* of the directory just left by its inode number.  The directories are     *)
(* chosen as the climb meets them.  readdir returns "." and ".." first, as  *)
(* the comment at line 24 expects; a directory on which a file system is    *)
(* mounted is listed under its own number, not under the mounted root's.    *)
(***************************************************************************)
EXTENDS Integers, Sequences, SequencesExt

CONSTANTS
  Inodes,       \* inode numbers, different within a file system only
  MaxDepth      \* bound: directories met

MyPWDAssumption == MaxDepth \in Nat \ {0}

VARIABLES
  climb,        \* "up", "done", "unreadable" (opendir failed), "crashed"
  dirs,         \* the directories met, [ino, up]: their numbers and their ..'s
  mounts,       \* those of dirs that are mounted roots
  path          \* the names found, "it" being the right one

vars == <<climb, dirs, mounts, path>>
-----------------------------------------------------------------------------
here == Last(dirs)
Top(d) == d.ino = d.up                \* the root of its file system

Entry(name, ino) == [name |-> name, ino |-> ino]

Init ==
    /\ climb = "up" /\ path = << >> /\ mounts = {}
    /\ \E ino, up \in Inodes : dirs = <<[ino |-> ino, up |-> up]>>

(* Mutant: the search starts behind "." and "..".                           *)
SearchNames(parent, others) ==
    LET found == SelectInSeq(others, LAMBDA e : e.ino = here.ino)
    IN  IF found = 0
        THEN climb' = "crashed" /\ UNCHANGED <<dirs, path>>
        ELSE /\ path' = <<others[found].name>> \o path
             /\ Len(dirs) < MaxDepth /\ dirs' = Append(dirs, parent) /\ UNCHANGED climb

(* The loop of readdir stops at the first entry with the number looked for. *)
(* If there is none, dentry is NULL when line 51 uses it.                   *)
Search(parent, others) ==
    LET listing == <<Entry(".", parent.ino), Entry("..", parent.up)>> \o others
        found == SelectInSeq(listing, LAMBDA e : e.ino = here.ino)
    IN  IF found = 0
        THEN climb' = "crashed" /\ UNCHANGED <<dirs, path>>
        ELSE /\ path' = IF listing[found].name = "." THEN path ELSE <<listing[found].name>> \o path
             /\ IF parent.ino = here.ino
                THEN climb' = "done" /\ UNCHANGED dirs
                ELSE Len(dirs) < MaxDepth /\ dirs' = Append(dirs, parent) /\ UNCHANGED climb

(* The root of all: its parent is itself.                                   *)
AtRoot == Top(here) /\ Search(here, << >>) /\ UNCHANGED mounts

(* The parent lists the directory left (as it) and one more, in either      *)
(* order, all under different numbers.                                      *)
Parent(ino, up, it) ==
    \E other \in Inodes \ {ino, up, it} :
        LET e == <<Entry("it", it), Entry("other", other)>>
            parent == [ino |-> ino, up |-> up]
        IN  Search(parent, e) \/ Search(parent, Reverse(e))

Inside ==
    /\ ~Top(here) /\ \E up \in Inodes \ {here.ino} : Parent(here.up, up, here.ino)
    /\ UNCHANGED mounts

Mounted ==
    /\ Top(here)
    /\ \E ino, up \in Inodes : \E covered \in Inodes \ {ino, up} : Parent(ino, up, covered)
    /\ mounts' = mounts \cup {Len(dirs)}

Unreadable == climb' = "unreadable" /\ UNCHANGED <<dirs, mounts, path>>

printPWD == climb = "up" /\ (AtRoot \/ Inside \/ Mounted \/ Unreadable)

Next == printPWD

Spec == Init /\ [][Next]_vars
-----------------------------------------------------------------------------
TypeOK ==
    /\ climb \in {"up", "done", "unreadable", "crashed"}
    /\ dirs \in Seq([ino : Inodes, up : Inodes])
    /\ mounts \subseteq DOMAIN dirs /\ path \in SeqOf({"it", "other", ".."}, MaxDepth)

(* Every level is printed with its name, for all numberings the file        *)
(* systems may have, but at a mounted root: its number belongs to another   *)
(* file system than the list it is looked for in, where it may be nobody's  *)
(* (the crash at 51), another name's, ..'s, or that of "." itself, which is *)
(* taken for the root and ends the path too early.                          *)
PathIsPrinted ==
    /\ \A k \in DOMAIN path : path[k] = "it" \/ Len(path) + 1 - k \in mounts
    /\ Len(path) = Len(dirs) - 1
    /\ climb = "crashed" => Len(dirs) \in mounts
=============================================================================
