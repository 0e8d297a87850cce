-------------------------------- MODULE MyLs --------------------------------
(***************************************************************************)
(* myls.c: the names in a directory, with what -l and -i ask for.  Other    *)
(* processes may remove a file between readdir and stat.                    *)
(***************************************************************************)
EXTENDS Integers, Sequences, FiniteSets, SequencesExt

CONSTANTS Names, Hidden,   \* names in directories; those that begin with a dot
          MaxEntries,      \* bound: entries of a directory
          LsWords          \* words a user may type, as in TailHead

MyLsAssumption == Hidden \subseteq Names /\ MaxEntries \in Nat

VARIABLES
  ls,           \* "main", "opendir", "readdir", "ok" (0), "error" (-1)
  mode,         \* the option words
  mod,          \* LSA, LSI and LSL: the letters of the options
  entries, pos, \* the directory, and how many entries were read
  listed        \* what was printed: [name, details]

vars == <<ls, mode, mod, entries, pos, listed>>
-----------------------------------------------------------------------------
Init == ls = "main" /\ mode = {} /\ mod = {} /\ entries = << >> /\ pos = 0 /\ listed = << >>

IsOption(word) == IsPrefix(<<"-">>, word)

(* A path comes first or not at all, against the comment at line 11.        *)
main ==
    /\ ls = "main"
    /\ \E arg \in SeqOf(LsWords, 3) :
          /\ mode' = {word \in ToSet(arg) : IsOption(word)}
          /\ ls' = IF \A k \in 2 .. Len(arg) : IsOption(arg[k]) THEN "opendir" ELSE "error"
    /\ UNCHANGED <<mod, entries, pos, listed>>

Flags == UNION {ToSet(Tail(word)) : word \in mode}

(* The options are looked at once the directory is open.                    *)
Open ==
    /\ ls = "opendir"
    /\ \/ ls' = "error" /\ UNCHANGED <<mod, entries>>
       \/ /\ entries' \in {s \in SeqOf(Names, MaxEntries) : IsInjective(s)}
          /\ mod' = Flags
          /\ ls' = IF Flags \subseteq {"a", "l", "i"} THEN "readdir" ELSE "error"
    /\ UNCHANGED <<mode, pos, listed>>

(* Mutant: a hidden name ends the listing.                                  *)
SkipEnds == ls' = "ok" /\ pos' = pos + 1 /\ UNCHANGED listed

Skip == pos' = pos + 1 /\ UNCHANGED <<ls, listed>>

(* An entry that stat does not find any more ends it all.                   *)
Entry(name) ==
    IF name \in Hidden /\ "a" \notin mod THEN Skip
    ELSE \/ /\ listed' = Append(listed, [name |-> name, details |-> mod \ {"a"}])
            /\ pos' = pos + 1 /\ UNCHANGED ls
         \/ ls' = "error" /\ UNCHANGED <<pos, listed>>

Readdir ==
    /\ ls = "readdir"
    /\ IF pos < Len(entries) THEN Entry(entries[pos + 1])
       ELSE ls' = "ok" /\ UNCHANGED <<pos, listed>>
    /\ UNCHANGED <<mode, mod, entries>>

Next == main \/ Open \/ Readdir

Spec == Init /\ [][Next]_vars
-----------------------------------------------------------------------------
TypeOK ==
    /\ ls \in {"main", "opendir", "readdir", "ok", "error"}
    /\ mode \subseteq LsWords /\ mod \subseteq UNION {ToSet(w) : w \in LsWords}
    /\ entries \in SeqOf(Names, MaxEntries) /\ pos \in 0 .. Len(entries)
    /\ listed \in Seq([name : Names, details : SUBSET {"l", "i"}])

(* Each name that is to be seen is listed once, in the directory's order    *)
(* and with all that any of the option words asks for; a listing that ends  *)
(* with 0 is complete, and one that met a file that was gone stops there,   *)
(* although the names behind it are still to come.                          *)
ListsAll ==
    LET asked(flag) == \E word \in mode : Contains(word, flag)
        visible == {k \in 1 .. pos : entries[k] \notin Hidden \/ asked("a")}
        rank(k) == Cardinality({j \in visible : j <= k})
    IN  /\ Len(listed) = Cardinality(visible)
        /\ \A k \in visible :
              /\ listed[rank(k)].name = entries[k]
              /\ \A flag \in {"l", "i"} : flag \in listed[rank(k)].details <=> asked(flag)
        /\ ls = "ok" => pos = Len(entries)
=============================================================================
