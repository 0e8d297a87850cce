------------------------------ MODULE LineEdit ------------------------------
(***************************************************************************)
(* line_edit_6-6.c: one line, then several, are typed at a terminal without *)
(* echo; the program shows what it stores and takes back what DEL deletes.  *)
(***************************************************************************)
EXTENDS Integers, Sequences, SequencesExt

CONSTANTS
  Glyphs,       \* characters other than newline, DEL and Ctrl-D (4)
  LINE, BUF     \* sizes of line and buf, 81 and 1024 in the source

Newline == "newline"
Cells == Glyphs \cup {Newline}

LineEditAssumption ==
    /\ LINE \in Nat \ {0} /\ BUF \in Nat \ {0} /\ LINE <= BUF
    /\ Newline \notin Glyphs

VARIABLES
  editing,      \* "main", "single", "multi", "end", "overrun" (stored outside the buffer)
  buf,          \* line or buf: what is stored in the first count cells
  count,
  screen        \* what the terminal shows of the edit

vars == <<editing, buf, count, screen>>

Size == IF editing = "single" THEN LINE ELSE BUF
-----------------------------------------------------------------------------
Init == editing = "main" /\ buf = << >> /\ count = 0 /\ screen = << >>

Begin(next) == editing' = next /\ buf' = << >> /\ count' = 0 /\ screen' = << >>

(* The terminal's modes are read and set first; standard input may be none. *)
main == editing = "main" /\ (Begin("single") \/ Begin("end"))

(* Every store goes to cell count, wherever that is.                        *)
Store(ch) ==
    IF count \in 0 .. Size - 1
    THEN /\ buf' = Append(buf, ch) /\ count' = count + 1
         /\ screen' = Append(screen, ch) /\ UNCHANGED editing
    ELSE editing' = "overrun" /\ UNCHANGED <<buf, count, screen>>

Finish(next) ==
    IF count \in 0 .. Size - 1 THEN Begin(next)
    ELSE editing' = "overrun" /\ UNCHANGED <<buf, count, screen>>

(* Backspace, blank, backspace: nothing happens in the first column.        *)
Rubbed == IF screen # << >> /\ Last(screen) # Newline THEN Front(screen) ELSE screen

Delete ==
    /\ screen' = Rubbed /\ count' = count - 1
    /\ buf' = IF buf # << >> THEN Front(buf) ELSE buf
    /\ UNCHANGED editing

(* DEL below cell 0 is not followed further: the next store is an overrun.  *)
single_line_edit ==
    /\ editing = "single"
    /\ \/ \E ch \in Glyphs : Store(ch)
       \/ count >= 0 /\ Delete
       \/ Finish("multi")

(* What the cell before count may hold; before the buffer, anything.        *)
Before == IF buf # << >> THEN {Last(buf)} ELSE Cells

(* Mutant: DEL takes back whatever was typed last.                          *)
DeleteAny == Delete

(* DEL does not join lines.                                                 *)
DeleteInLine == \E ch \in Before : IF ch # Newline THEN Delete ELSE UNCHANGED vars

multi_line_edit ==
    /\ editing = "multi"
    /\ \/ \E ch \in Cells : Store(ch)
       \/ count >= 0 /\ DeleteInLine
       \/ Finish("end")

Next == main \/ single_line_edit \/ multi_line_edit

Spec == Init /\ [][Next]_vars
-----------------------------------------------------------------------------
TypeOK ==
    /\ editing \in {"main", "single", "multi", "end", "overrun"}
    /\ buf \in SeqOf(Cells, Size) /\ screen \in SeqOf(Cells, Size) /\ count \in -1 .. Size

(* What the user sees is what will be printed in the end, through all       *)
(* deletions and line ends, and count is its length; only DEL before the    *)
(* first character (27, 56) takes count below that, and the store that      *)
(* follows outside the buffer.                                              *)
ScreenIsBuffer ==
    /\ screen = buf
    /\ count = Len(buf) \/ (count = -1 /\ buf = << >>)
=============================================================================
