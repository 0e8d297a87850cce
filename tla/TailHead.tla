------------------------------ MODULE TailHead ------------------------------
(***************************************************************************)
(* mytail.c and myhead.c: the last or first lines or bytes of a file.       *)
(* A file is a sequence of characters, NL among them.  mytail looks for its *)
(* first line block by block from the end; myhead prints what fgets returns.*)
(***************************************************************************)
EXTENDS Integers, Sequences, FiniteSets, SequencesExt

CONSTANTS
  BUFLEN,       \* size of the buffers, 4096 in the source
  Chars, NL,    \* what a file is made of, NL the newline
  MaxFile,      \* bound: length of a file
  Words         \* words a user may type: sequences of one-character strings

TailHeadAssumption == BUFLEN \in Nat \ {0, 1} /\ NL \in Chars /\ MaxFile \in Nat

VARIABLES
  stage,        \* "main", "open", "run", "done", "usage" (refused), "crashed"
  request,      \* what main understood: [tool, how, number, input]
  file,
  off_end,      \* mytail: characters behind the place looked for
  line_num,     \* newlines met (mytail), pieces printed (myhead: i)
  printed

vars == <<stage, request, file, off_end, line_num, printed>>
-----------------------------------------------------------------------------
Digits == <<"0", "1", "2", "3", "4", "5", "6", "7", "8", "9">>

(* A sign is skipped and forgotten: -2 is 2, and no digits at all are 0.    *)
str2int(str) ==
    LET digits == IF str # << >> /\ Head(str) \in {"-", "+"} THEN Tail(str) ELSE str
        value(d) == (CHOOSE n \in DOMAIN Digits : Digits[n] = d) - 1
        sum[k \in 0 .. Len(digits)] == IF k = 0 THEN 0 ELSE sum[k - 1] * 10 + value(digits[k])
    IN  IF ToSet(digits) \subseteq ToSet(Digits) THEN sum[Len(digits)] ELSE -1

Options == {<<"-", "n">>, <<"-", "c">>}

(* What is left of argv[1 ..] for the name of the file.                     *)
FileArgs(arg) == SubSeq(arg, IF arg # << >> /\ arg[1] \in Options THEN 3 ELSE 2, Len(arg))

(* The calls main makes: none when it refuses.  No name and an empty one    *)
(* both are standard input, which may be redirected from a file or a pipe.  *)
Calls(arg) ==
    LET inputs == IF FileArgs(arg) \in {<< >>, << << >> >>} THEN {"stdin", "pipe"} ELSE {"named"}
        ask(how, number) ==
            IF number = -1 THEN {} ELSE [how : {how}, number : {number}, input : inputs]
    IN  IF Len(FileArgs(arg)) > 1 THEN {}
        ELSE IF arg = << >> THEN ask("lines", 10)
        ELSE IF arg[1] \in Options
        THEN IF Len(arg) = 1 THEN {}
             ELSE ask(IF arg[1][2] = "n" THEN "lines" ELSE "bytes", str2int(arg[2]))
        ELSE IF IsPrefix(<<"-">>, arg[1]) THEN ask("lines", str2int(Tail(arg[1])))
        ELSE {}

(* mytail wants a name, but takes the empty one.                            *)
TailCalls(arg) == IF FileArgs(arg) = << >> THEN {} ELSE Calls(arg)
-----------------------------------------------------------------------------
Init ==
    /\ stage = "main" /\ request = [tool |-> "none"]
    /\ file = << >> /\ off_end = 0 /\ line_num = 0 /\ printed = << >>

main ==
    /\ stage = "main"
    /\ \E arg \in SeqOf(Words, 4), tool \in {"head", "tail"} :
          LET calls == IF tool = "head" THEN Calls(arg) ELSE TailCalls(arg)
          IN  \/ calls = {} /\ stage' = "usage" /\ UNCHANGED request
              \/ \E c \in calls :
                    /\ stage' = "open"
                    /\ request' = [tool |-> tool, how |-> c.how, number |-> c.number, input |-> c.input]
    /\ UNCHANGED <<file, off_end, line_num, printed>>

(* fopen; a file that is not there is not noticed, and its FILE is NULL.    *)
Open ==
    /\ stage = "open"
    /\ \/ stage' = "run" /\ file' \in SeqOf(Chars, MaxFile)
       \/ request.input = "named" /\ stage' = "crashed" /\ UNCHANGED file
    /\ UNCHANGED <<request, off_end, line_num, printed>>

Runs(tool, how) == stage = "run" /\ request.tool = tool /\ request.how = how

Finish(text) ==
    /\ printed' = text /\ stage' = "done"
    /\ UNCHANGED <<request, file, off_end, line_num>>

(* ftell at the end of the input; a pipe has no places, and fseek fails.    *)
file_size == IF request.input = "pipe" THEN -1 ELSE Len(file)

(* The input behind the place fseek is told, off characters from the end.   *)
Rest(off) == SubSeq(file, IF request.input = "pipe" THEN 1 ELSE Len(file) - off + 1, Len(file))

(* fread(buffer, size, 1, fp): one item of so many bytes (size_t: -1 is     *)
(* more than any), so that it returns 1, or 0 when there are fewer.  That   *)
(* is taken for the number of bytes read, and the others are cut off.       *)
(* Where more than BUFLEN bytes come, they leave the buffer.                *)
FreadOne(rest, size) ==
    \/ Finish(SubSeq(rest, 1, IF size \in 1 .. Len(rest) THEN 1 ELSE 0))
    \/ /\ Len(rest) > BUFLEN /\ (size > BUFLEN \/ size = -1)
       /\ stage' = "crashed" /\ UNCHANGED <<request, file, off_end, line_num, printed>>

TailBytes ==
    /\ Runs("tail", "bytes")
    /\ LET min == IF request.number < file_size THEN request.number ELSE file_size
       IN  FreadOne(Rest(min), min)

HeadBytes == Runs("head", "bytes") /\ FreadOne(file, request.number)

Newlines(s) == {k \in DOMAIN s : s[k] = NL}

(* Mutant: every block is taken from the end of the file.                   *)
BlockAtEnd(min) == Len(file) - min + 1 .. Len(file)

(* Where the min characters in front of the last off_end are.               *)
Block(min) == Len(file) - off_end - min + 1 .. Len(file) - off_end

(* One round of locate_file's loop: newlines are counted backwards until    *)
(* there are enough; i is where the search stopped, or before the block.    *)
Locate ==
    /\ Runs("tail", "lines") /\ line_num < request.number /\ off_end < file_size
    /\ LET min == IF BUFLEN < Len(file) - off_end THEN BUFLEN ELSE Len(file) - off_end
           newlines == Newlines(file) \cap Block(min)
           met(i) == Cardinality({k \in newlines : k >= i})
           enough == {i \in newlines : line_num + met(i) = request.number}
           i == IF enough = {} THEN Len(file) - off_end - min ELSE CHOOSE k \in enough : TRUE
       IN  line_num' = line_num + met(i) /\ off_end' = Len(file) - i
    /\ UNCHANGED <<stage, request, file, printed>>

TailLines ==
    /\ Runs("tail", "lines") /\ ~(line_num < request.number /\ off_end < file_size)
    /\ Finish(Rest(off_end))

(* fgets returns a line, or as much of it as fits BUFLEN with the 0 behind. *)
HeadLine ==
    /\ Runs("head", "lines") /\ line_num < request.number /\ printed # file
    /\ LET ends == {k \in Len(printed) + 1 .. Len(file) :
                       file[k] = NL \/ k = Len(printed) + BUFLEN - 1 \/ k = Len(file)}
       IN  printed' = SubSeq(file, 1, CHOOSE k \in ends : \A l \in ends : k <= l)
    /\ line_num' = line_num + 1
    /\ UNCHANGED <<stage, request, file, off_end>>

HeadDone ==
    /\ Runs("head", "lines") /\ ~(line_num < request.number /\ printed # file)
    /\ Finish(printed)

Next == main \/ Open \/ TailBytes \/ HeadBytes \/ Locate \/ TailLines \/ HeadLine \/ HeadDone

Spec == Init /\ [][Next]_vars
-----------------------------------------------------------------------------
TypeOK ==
    /\ stage \in {"main", "open", "run", "done", "usage", "crashed"}
    /\ stage \notin {"main", "usage"} =>
          request \in [tool : {"head", "tail"}, how : {"lines", "bytes"}, number : Nat,
                      input : {"named", "stdin", "pipe"}]
    /\ file \in SeqOf(Chars, MaxFile) /\ printed \in SeqOf(Chars, MaxFile)
    /\ off_end \in 0 .. Len(file) /\ line_num \in Nat

Done(tool, how) == stage = "done" /\ request.tool = tool /\ request.how = how

FewerNewlines(text) == Cardinality(Newlines(text)) < request.number

(* No more lines than asked for: a newline that text ends with ends a line  *)
(* and begins none.                                                         *)
InLines(text) == text = << >> \/ FewerNewlines(Front(text))

(* mytail -n N prints the last N lines (mytail.c:99, "the place n lines     *)
(* back from the end") of what is not a pipe.  It does not where the file   *)
(* ends with a newline, which is counted as one more line.                  *)
TailPrintsLines ==
    Done("tail", "lines") /\ request.input # "pipe" =>
        /\ IsSuffix(printed, file)
        /\ \A s \in Suffixes(file) : InLines(s) <=> Len(s) <= Len(printed)

(* The search backwards meets every newline once, wherever the blocks fall: *)
(* what is printed begins right behind the Nth newline from the end, or at  *)
(* the beginning of the file when there are fewer.                          *)
StopsAtNewline ==
    Done("tail", "lines") /\ request.input # "pipe" =>
        /\ IsSuffix(printed, file)
        /\ \A s \in Suffixes(file) : (s = << >> \/ FewerNewlines(s)) <=> Len(s) <= Len(printed)

LastLineIsOpen == file = << >> \/ Last(file) # NL

(* fgets returns whole lines where each, with its newline, fits the buffer. *)
LinesFit == \A k \in 1 .. Len(file) - BUFLEN + 2 : Newlines(SubSeq(file, k, k + BUFLEN - 2)) # {}

(* myhead -n N: the first N lines where lines fit the buffer, else no more. *)
HeadPrintsLines ==
    Done("head", "lines") =>
        /\ IsPrefix(printed, file)
        /\ \A s \in Prefixes(file) :
              /\ Len(s) <= Len(printed) => InLines(s)
              /\ LinesFit /\ InLines(s) => Len(s) <= Len(printed)

BytesAsked ==
    LET n == IF request.number < Len(file) THEN request.number ELSE Len(file)
    IN  IF request.tool = "head" THEN SubSeq(file, 1, n) ELSE SubSeq(file, Len(file) - n + 1, Len(file))

(* -c N prints N bytes (mytail.c:47, :143: a number of lines or of bytes).  *)
(* It does not, as the counts of fread are swapped.                         *)
BytesAsAsked == stage = "done" /\ request.how = "bytes" => printed = BytesAsked

(* What the comments promise, which neither program keeps (run tail_head).  *)
PrintsWhatWasAsked == TailPrintsLines /\ BytesAsAsked

(* -c N prints nothing but bytes asked for, from the first on.              *)
NoOtherBytes == stage = "done" /\ request.how = "bytes" => IsPrefix(printed, BytesAsked)

(* What is printed is from the right place, wherever it lies in the blocks  *)
(* of the buffer; the lines asked for, but for tail's newline at the end.   *)
PrintsRightPart ==
    /\ StopsAtNewline /\ (LastLineIsOpen => TailPrintsLines)
    /\ HeadPrintsLines /\ NoOtherBytes
=============================================================================
