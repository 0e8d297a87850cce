-------------------------------- MODULE Tools --------------------------------
(***************************************************************************)
(* The single programs of ch01 to ch08 and the polling food buffer, for     *)
(* Exercises, which runs one program per behaviour.                         *)
(***************************************************************************)
EXTENDS Integers

CONSTANTS
  BUFLEN, Chars, NL, MaxFile, Names, Hidden, MaxEntries, PAGELINE, MaxLines, Glyphs, LINE, BUF,
  PRODUCERNUM, CONSUMERNUM, FOODNUMMAX, OnePlace, Inodes, MaxDepth, BUFFER_LEN, Bytes, MaxBytes

VARIABLES
  program,
  (* TailHead *)
  stage, request, file, off_end, line_num, printed,
  (* MyLs *)
  ls, mode, mod, entries, pos, listed,
  (* MyMore *)
  showing, lines, linecount, raw, seen, granted,
  (* LineEdit *)
  editing, buf, typed, screen,
  (* ProducerConsumer0 *)
  threads, filled, storage, uncopied, product, food_num, food_arr,
  (* MyPWD *)
  climb, dirs, mounts, path,
  (* ForkFile *)
  stdio, step, testfile, offset, stream, failed,
  (* MyCp *)
  cp, same, disk, old, done, buffer,
  (* TestSignal *)
  parent, son, handler, valid, sent

(* What is typed behind "tail" or "head".                                   *)
Words == {<<"-", "n">>, <<"-", "c">>, <<"1">>, <<"-", "2">>, <<"+", "4">>, <<"-">>, <<"f">>, << >>}

(* ... and behind "ls".                                                     *)
LsWords == {<<"-", "a">>, <<"-", "l", "i">>, <<"-", "x">>, <<"p">>}

Lines == INSTANCE TailHead
Ls == INSTANCE MyLs
More == INSTANCE MyMore
Edit == INSTANCE LineEdit WITH count <- typed
Food == INSTANCE ProducerConsumer0 WITH i <- threads
Pwd == INSTANCE MyPWD
Fork == INSTANCE ForkFile
Cp == INSTANCE MyCp
Signal == INSTANCE TestSignal WITH child <- son

ToolsAssumption ==
    /\ Lines!TailHeadAssumption /\ Ls!MyLsAssumption /\ More!MyMoreAssumption /\ Edit!LineEditAssumption
    /\ Food!ProducerConsumer0Assumption /\ Pwd!MyPWDAssumption /\ Cp!MyCpAssumption

tailvars == <<stage, request, file, off_end, line_num, printed>>
lsvars == <<ls, mode, mod, entries, pos, listed>>
morevars == <<showing, lines, linecount, raw, seen, granted>>
editvars == <<editing, buf, typed, screen>>
foodvars == <<threads, filled, storage, uncopied, product, food_num, food_arr>>
pwdvars == <<climb, dirs, mounts, path>>
forkvars == <<stdio, step, testfile, offset, stream, failed>>
cpvars == <<cp, same, disk, old, done, buffer>>
signalvars == <<parent, son, handler, valid, sent>>
tools == <<tailvars, lsvars, morevars, editvars, foodvars, pwdvars, forkvars, cpvars, signalvars>>
-----------------------------------------------------------------------------
ToolNames == {"tail", "ls", "mymore", "line_edit", "producerConsumer0", "myPWD", "8.4", "8.5", "mycp", "testSignal"}

(* A program that does not run begins in one way only.                      *)
OrElse(programs, beginning) == program \in programs \/ beginning

ToolsStart ==
    /\ Lines!Init /\ Ls!Init /\ More!Init /\ Edit!Init
    /\ Food!Init
    /\ Pwd!Init /\ OrElse({"myPWD"}, dirs[1].ino = 1 /\ dirs[1].up = 1)
    /\ Fork!Init /\ stdio = (program = "8.5")
    /\ Cp!Init /\ OrElse({"mycp"}, ~same /\ disk = [f \in {"source", "dest"} |-> << >>])
    /\ Signal!Init /\ OrElse({"testSignal"}, valid)

In(programs, others) == program \in programs /\ UNCHANGED <<program, others>>

NotLines == <<lsvars, morevars, editvars, foodvars, pwdvars, forkvars, cpvars, signalvars>>
NotLs == <<tailvars, morevars, editvars, foodvars, pwdvars, forkvars, cpvars, signalvars>>
NotMore == <<tailvars, lsvars, editvars, foodvars, pwdvars, forkvars, cpvars, signalvars>>
NotEdit == <<tailvars, lsvars, morevars, foodvars, pwdvars, forkvars, cpvars, signalvars>>
NotFood == <<tailvars, lsvars, morevars, editvars, pwdvars, forkvars, cpvars, signalvars>>
NotPwd == <<tailvars, lsvars, morevars, editvars, foodvars, forkvars, cpvars, signalvars>>
NotFork == <<tailvars, lsvars, morevars, editvars, foodvars, pwdvars, cpvars, signalvars>>
NotCp == <<tailvars, lsvars, morevars, editvars, foodvars, pwdvars, forkvars, signalvars>>
NotSignal == <<tailvars, lsvars, morevars, editvars, foodvars, pwdvars, forkvars, cpvars>>

ToolsStep ==
    \/ In({"tail"}, NotLines) /\ Lines!Next
    \/ In({"ls"}, NotLs) /\ Ls!Next
    \/ In({"mymore"}, NotMore) /\ More!Next
    \/ In({"line_edit"}, NotEdit) /\ Edit!Next
    \/ In({"producerConsumer0"}, NotFood) /\ Food!Next
    \/ In({"myPWD"}, NotPwd) /\ Pwd!Next
    \/ In({"8.4", "8.5"}, NotFork) /\ Fork!Next
    \/ In({"mycp"}, NotCp) /\ Cp!Next
    \/ In({"testSignal"}, NotSignal) /\ Signal!Next

ToolsFairness ==
    /\ WF_tools(In({"testSignal"}, NotSignal) /\ Signal!main)
    /\ WF_tools(In({"testSignal"}, NotSignal) /\ Signal!sigactionReg)
    /\ WF_tools(In({"testSignal"}, NotSignal) /\ Signal!Deliver)

ToolsTypesOK ==
    /\ Lines!TypeOK /\ Ls!TypeOK /\ More!TypeOK /\ Edit!TypeOK /\ Food!TypeOK
    /\ Pwd!TypeOK /\ Fork!TypeOK /\ Cp!TypeOK /\ Signal!TypeOK
=============================================================================
