-------------------------------- MODULE Shell --------------------------------
(***************************************************************************)
(* ch08/psh2.c: a shell.  A line is cut at semicolons into commands, each   *)
(* command at blanks into words; every command is run in a child and waited *)
(* for.  A character is a member of Letters, Semicolon or Blank.            *)
(* ^C goes to the shell and its child; the shell ignores it from the first  *)
(* command on, and so do the children it forks later.                       *)
(* Not modelled: lengths (LINELEN, MAXARGS, ARGLEN), and the words in list, *)
(* of which none is freed: line 204 frees list[num_arg], which is NULL.     *)
(***************************************************************************)
EXTENDS Integers, Sequences, SequencesExt

CONSTANTS Letters,    \* the characters words are made of
          Exit,       \* the word "exit"
          MaxLine     \* bound of the model: length of a line

Semicolon == ";"
Blank == " "            \* or a tab

(* What is assumed of the constants; Exercises has TLC evaluate it.         *)
ShellAssumption ==
    /\ MaxLine \in Nat
    /\ {Semicolon, Blank} \cap Letters = {}

Lines == BoundedSeq(Letters \cup {Semicolon, Blank}, MaxLine)

VARIABLES pc,        \* where main is; "exited" and "killed" when it is no more
          line, cmdArr, i,
          exitFlag,
          sigint,    \* the shell's disposition of SIGINT: "default" or "ignore"
          child,     \* "none", "forked", "program" (after exec), "zombie"
          childint,  \* the child's disposition, inherited
          status,    \* exit status of the last child of this line, 0 if a signal killed it
          ran        \* history: the commands of this line a child was forked for

vars == <<pc, line, cmdArr, i, exitFlag, sigint, child, childint, status, ran>>
words == <<line, cmdArr>>

-----------------------------------------------------------------------------
(* Cutting                                                                  *)

(* The first place at or after k that is not blank.                         *)
skipHeadBlank(src, k) ==
    CHOOSE j \in k .. Len(src) + 1 :
        /\ j = Len(src) + 1 \/ src[j] # Blank
        /\ \A m \in k .. j - 1 : src[m] = Blank

(* Mutant: what no separator ends is forgotten.                             *)
PieceEnded(src, k, e) == IF e > k /\ e <= Len(src) THEN <<SubSeq(src, k, e - 1)>> ELSE << >>

(* Nothing is allocated for an empty piece.                                 *)
Piece(src, k, e) == IF e > k THEN <<SubSeq(src, k, e - 1)>> ELSE << >>

(* Where a piece from k on ends: at a separator, or behind src.             *)
pieceEnd(src, separator, k) ==
    CHOOSE j \in k .. Len(src) + 1 :
        /\ j = Len(src) + 1 \/ src[j] = separator
        /\ \A m \in k .. j - 1 : src[m] # separator

(* The loops of split2ArrByChar and conver2List: from start up to a         *)
(* separator is a piece; the next starts after it, or after its blanks.     *)
Pieces(src, separator) ==
    LET from[k \in 1 .. Len(src) + 1] ==
            LET end == pieceEnd(src, separator, k)
            IN  Piece(src, k, end) \o
                (IF end > Len(src) THEN << >> ELSE from[skipHeadBlank(src, end + 1)])
    IN  from[skipHeadBlank(src, 1)]

split2ArrByChar(src) == Pieces(src, Semicolon)

conver2List(buff) == Pieces(buff, Blank)

-----------------------------------------------------------------------------
Init ==
    /\ pc = "prompt"
    /\ line = << >> /\ cmdArr = << >> /\ i = 1
    /\ exitFlag = FALSE
    /\ sigint = "default"
    /\ child = "none" /\ childint = "default" /\ status = 0
    /\ ran = << >>

(* gets, split2ArrByChar.                                                   *)
ReadLine ==
    /\ pc = "prompt" /\ pc' = "command"
    /\ \E l \in Lines : line' = l /\ cmdArr' = split2ArrByChar(l)
    /\ UNCHANGED <<i, exitFlag, sigint, child, childint, status, ran>>

EndOfFile ==
    /\ pc = "prompt" /\ pc' = "exited"
    /\ UNCHANGED <<words, i, exitFlag, sigint, child, childint, status, ran>>

list == conver2List(cmdArr[i])

EndOfLine ==
    /\ pc = "command" /\ i > Len(cmdArr)
    /\ pc' = "free"
    /\ UNCHANGED <<words, i, exitFlag, sigint, child, childint, status, ran>>

(* "exit" is the shell's own: no child.                                     *)
ExitCommand ==
    /\ pc = "command" /\ i <= Len(cmdArr)
    /\ list # << >> /\ list[1] = Exit
    /\ exitFlag' = TRUE
    /\ pc' = "free"
    /\ UNCHANGED <<words, i, sigint, child, childint, status, ran>>

(* fork; a command without words is passed over.                            *)
Fork ==
    /\ pc = "command" /\ i <= Len(cmdArr)
    /\ IF list = << >>
       THEN i' = i + 1 /\ UNCHANGED <<pc, child, childint, ran>>
       ELSE /\ list[1] # Exit
            /\ child' = "forked" /\ childint' = sigint
            /\ ran' = Append(ran, list)
            /\ pc' = "ignore"
            /\ UNCHANGED i
    /\ UNCHANGED <<words, exitFlag, sigint, status>>

ForkFails ==
    /\ pc = "command" /\ i <= Len(cmdArr)
    /\ list # << >> /\ list[1] # Exit
    /\ pc' = "exited"
    /\ UNCHANGED <<words, i, exitFlag, sigint, child, childint, status, ran>>

(* signal(SIGINT, SIG_IGN), after the fork.                                 *)
Ignore ==
    /\ pc = "ignore" /\ pc' = "wait"
    /\ sigint' = "ignore"
    /\ UNCHANGED <<words, i, exitFlag, child, childint, status, ran>>

(* Mutant: a shell that does not wait.                                      *)
WaitNot ==
    /\ pc = "wait"
    /\ i' = i + 1 /\ pc' = "command"
    /\ UNCHANGED <<words, exitFlag, sigint, child, childint, status, ran>>

(* Mutant: status 123 makes the shell wait again.                           *)
WaitForEver ==
    /\ pc = "wait" /\ child = "zombie" /\ status # 123
    /\ child' = "none"
    /\ pc' = "command" /\ i' = i + 1
    /\ UNCHANGED <<words, exitFlag, sigint, childint, status, ran>>

(* wait; exit status 123 gives up the rest of the line.                     *)
Wait ==
    /\ pc = "wait" /\ child = "zombie"
    /\ child' = "none"
    /\ IF status = 123 THEN pc' = "free" /\ UNCHANGED i ELSE pc' = "command" /\ i' = i + 1
    /\ UNCHANGED <<words, exitFlag, sigint, childint, status, ran>>

(* The commands are freed; on to the next line unless "exit" was among them.*)
(* What the line leaves in the variables is never looked at again.          *)
Free ==
    /\ pc = "free"
    /\ pc' = IF exitFlag THEN "exited" ELSE "prompt"
    /\ line' = << >> /\ cmdArr' = << >> /\ i' = 1
    /\ childint' = "default" /\ status' = 0 /\ ran' = << >>
    /\ UNCHANGED <<exitFlag, sigint, child>>

main ==
    \/ ReadLine \/ EndOfFile \/ EndOfLine \/ ExitCommand \/ Fork \/ ForkFails
    \/ Ignore \/ Wait \/ Free

-----------------------------------------------------------------------------
(* execute, in the child.  A failing exec exits with 1.                     *)
Exec ==
    /\ child = "forked"
    /\ \/ child' = "program" /\ UNCHANGED status
       \/ child' = "zombie" /\ status' = 1
    /\ UNCHANGED <<pc, words, i, exitFlag, sigint, childint, ran>>

Exits ==
    /\ child = "program"
    /\ child' = "zombie"
    /\ status' \in {0, 123}
    /\ UNCHANGED <<pc, words, i, exitFlag, sigint, childint, ran>>

execute == Exec \/ Exits

(* ^C at the terminal: SIGINT for everybody in the foreground.              *)
Interrupt ==
    /\ pc \notin {"exited", "killed"}
    /\ pc' = IF sigint = "default" THEN "killed" ELSE pc
    /\ IF child \in {"forked", "program"} /\ childint = "default"
       THEN child' = "zombie" /\ status' = 0
       ELSE UNCHANGED <<child, status>>
    /\ UNCHANGED <<words, i, exitFlag, sigint, childint, ran>>

Next == main \/ execute \/ Interrupt

Spec == Init /\ [][Next]_vars

(* The shell runs, and programs end; users need not type.                   *)
FairSpec == Spec /\ WF_vars(main /\ pc # "prompt") /\ WF_vars(execute)

-----------------------------------------------------------------------------
TypeOK ==
    /\ pc \in {"prompt", "command", "ignore", "wait", "free", "exited", "killed"}
    /\ i \in 1 .. Len(cmdArr) + 1
    /\ exitFlag \in BOOLEAN
    /\ {sigint, childint} \subseteq {"default", "ignore"}
    /\ child \in {"none", "forked", "program", "zombie"}
    /\ status \in {0, 1, 123}

(* The members of a finite set of numbers, smallest first.                  *)
InOrder(S) == [n \in 1 .. Cardinality(S) |-> CHOOSE k \in S : Cardinality({j \in S : j <= k}) = n]

(* What a line asks for, without a scan: the words are the longest runs of  *)
(* letters, and those with as many semicolons before them are a command.    *)
Commands(l) ==
    LET letter(k) == k \in 1 .. Len(l) /\ l[k] \in Letters
        starts == {k \in 1 .. Len(l) : letter(k) /\ ~ letter(k - 1)}
        word(k) == SubSeq(l, k, CHOOSE j \in k .. Len(l) :
                                    ~ letter(j + 1) /\ \A m \in k .. j : letter(m))
        number(k) == Cardinality({j \in 1 .. k : l[j] = Semicolon})
        numbers == InOrder({number(k) : k \in starts})
        command(n) ==
            LET s == InOrder({k \in starts : number(k) = n})
            IN  [m \in 1 .. Len(s) |-> word(s[m])]
    IN  [n \in 1 .. Len(numbers) |-> command(numbers[n])]

BeforeExit(cmds) ==
    LET isExit(c) == c[1] = Exit
    IN  SubSeq(cmds, 1, IF \E k \in 1 .. Len(cmds) : isExit(cmds[k])
                        THEN (CHOOSE k \in 1 .. Len(cmds) :
                                 isExit(cmds[k]) /\ \A m \in 1 .. k - 1 : ~ isExit(cmds[m])) - 1
                        ELSE Len(cmds))

(* The commands typed before the first "exit" run, in order, each with its  *)
(* words: all of them by the end of the line, unless one ends with 123; and *)
(* the shell exits if there is an "exit" to be reached.                     *)
RunsWhatWasTyped ==
    LET wanted == BeforeExit(Commands(line)) IN
    /\ IsPrefix(ran, wanted)
    /\ pc = "free" /\ status # 123 =>
          ran = wanted /\ (exitFlag <=> wanted # Commands(line))

(* One child at a time, and none left over, zombie or running, when the     *)
(* shell turns to the next command or prompts.                              *)
ChildrenAreWaitedFor ==
    pc \in {"prompt", "command", "free", "exited"} => child = "none"

(* If programs end, every line does, whoever types ^C meanwhile.            *)
LinesEnd == pc = "command" ~> pc \in {"prompt", "exited", "killed"}
=============================================================================
