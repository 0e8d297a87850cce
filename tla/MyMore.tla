------------------------------- MODULE MyMore -------------------------------
(***************************************************************************)
(* mymore.c: files are shown page by page; after a page the user says how   *)
(* to go on.  A file is the number of pieces fgets returns of it; without   *)
(* arguments standard input is the one file.                                *)
(***************************************************************************)
EXTENDS Integers

CONSTANTS
  PAGELINE,     \* lines of a page, 24 in the source
  MaxLines      \* bound: lines of a file

MyMoreAssumption == PAGELINE \in Nat \ {0} /\ MaxLines \in Nat

VARIABLES
  showing,      \* "main", "domore", "instant_get", "exit", "abort"
  lines,         \* lines not yet read
  linecount,
  raw,          \* the terminal neither echoes nor waits for whole lines
  seen,         \* history: lines shown since domore began or the last key
  granted       \* history: how many lines that asked for

vars == <<showing, lines, linecount, raw, seen, granted>>
-----------------------------------------------------------------------------
Init ==
    /\ showing = "main" /\ lines = 0 /\ linecount = 1 /\ raw = FALSE /\ seen = 0 /\ granted = PAGELINE

(* main goes through any number of files, the last named first, and gives   *)
(* up at one it cannot open.                                                *)
main ==
    /\ showing = "main"
    /\ \/ /\ lines' \in 0 .. MaxLines
          /\ showing' = "domore" /\ linecount' = 1 /\ seen' = 0 /\ granted' = PAGELINE
       \/ showing' = "exit" /\ UNCHANGED <<lines, linecount, seen, granted>>
    /\ UNCHANGED raw

(* A line is shown; the PAGELINE-th is followed by the question.            *)
ShowLine ==
    /\ showing = "domore" /\ lines > 0
    /\ lines' = lines - 1 /\ seen' = seen + 1
    /\ IF linecount = PAGELINE
       THEN showing' = "instant_get" /\ UNCHANGED linecount
       ELSE linecount' = linecount + 1 /\ UNCHANGED showing
    /\ UNCHANGED <<raw, granted>>

(* At the end of the file, or after q, main goes on with the next file.     *)
Leave == showing' = "main" /\ UNCHANGED <<lines, linecount, seen, granted>>

EndOfFile == showing = "domore" /\ lines = 0 /\ Leave /\ UNCHANGED raw

GoOn(count, more) ==
    /\ showing' = "domore" /\ linecount' = count + 1
    /\ seen' = 0 /\ granted' = more /\ UNCHANGED lines

(* Mutant: a page is counted from 1, as at the beginning of domore.         *)
KeyCountsOne ==
    \/ Leave
    \/ GoOn(PAGELINE - 1, 1)
    \/ GoOn(1, PAGELINE)

(* Blank is one line, Enter a page (the comments at 83 and 86 say it the    *)
(* other way round).                                                        *)
Key ==
    \/ Leave
    \/ GoOn(PAGELINE - 1, 1)
    \/ GoOn(0, PAGELINE)

(* instant_get: other keys, and what was typed with the first one, are      *)
(* skipped.  The modes it sets in the end are the new ones again, so the    *)
(* terminal stays raw.  Without a terminal its assertion fails.             *)
instant_get ==
    /\ showing = "instant_get"
    /\ \/ Key /\ raw' = TRUE
       \/ showing' = "abort" /\ UNCHANGED <<lines, linecount, raw, seen, granted>>

Next == main \/ ShowLine \/ EndOfFile \/ instant_get

Spec == Init /\ [][Next]_vars
-----------------------------------------------------------------------------
TypeOK ==
    /\ showing \in {"main", "domore", "instant_get", "exit", "abort"}
    /\ lines \in 0 .. MaxLines /\ linecount \in 1 .. PAGELINE
    /\ raw \in BOOLEAN /\ seen \in 0 .. MaxLines

(* No file scrolls past its reader: it stops after exactly the lines that   *)
(* were granted, a page at first, then one line or a page as the key says.  *)
(* Across files there is no such bound: each starts a page of its own       *)
(* (48) without a question, and q ends one file only.                       *)
PagesFit ==
    /\ seen <= granted
    /\ showing = "instant_get" => seen = granted
    /\ showing = "domore" => seen < granted
=============================================================================
