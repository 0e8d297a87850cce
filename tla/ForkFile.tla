------------------------------ MODULE ForkFile ------------------------------
(***************************************************************************)
(* 8.4.c and 8.5.c: a process writes to a file, forks, and parent and child *)
(* write on.  In 8.4.c (stdio = FALSE) they share a descriptor and so one   *)
(* offset; in 8.5.c each also has its copy of the stream's buffer.          *)
(***************************************************************************)
EXTENDS Integers, Sequences

Processes == {"parent", "child"}

VARIABLES
  stdio,        \* which program runs
  step,         \* per process: "none", "begin", "fork", "emit", "close", "wait", "end"
  testfile,     \* messages
  offset,       \* of the open file both share
  stream,       \* per process: what its stream has not written
  failed        \* history: some write or fork has failed

vars == <<stdio, step, testfile, offset, stream, failed>>
-----------------------------------------------------------------------------
Init ==
    /\ stdio \in BOOLEAN /\ testfile = << >> /\ offset = 0 /\ failed = FALSE
    /\ step = [parent |-> "begin", child |-> "none"]
    /\ stream = [p \in Processes |-> << >>]

Goto(p, next) == step' = [step EXCEPT ![p] = next]

(* Mutant: an offset of its own for each write, as if opened again.         *)
WriteOutAfresh(data) ==
    /\ testfile' = data \o SubSeq(testfile, Len(data) + 1, Len(testfile))
    /\ UNCHANGED <<offset, failed>>

(* write(2): at the shared offset, over what may be there.                  *)
WriteOut(data) ==
    /\ testfile' = SubSeq(testfile, 1, offset) \o data
                       \o SubSeq(testfile, offset + Len(data) + 1, Len(testfile))
    /\ offset' = offset + Len(data)
    /\ UNCHANGED failed

WriteFails == failed' = TRUE /\ UNCHANGED <<testfile, offset>>

(* write or fprintf.  8.4.c returns when its write fails.                   *)
Emit(p, message, next) ==
    IF stdio
    THEN /\ stream' = [stream EXCEPT ![p] = Append(@, message)]
         /\ Goto(p, next) /\ UNCHANGED <<testfile, offset, failed>>
    ELSE /\ \/ WriteOut(<<message>>) /\ Goto(p, next)
            \/ WriteFails /\ Goto(p, "end")
         /\ UNCHANGED stream

(* close, fclose or the exit of a program with a stream: the buffer goes    *)
(* out in one write, and nobody looks whether it does.                      *)
Close(p, next) ==
    /\ \/ WriteOut(stream[p])
       \/ stream[p] # << >> /\ WriteFails
    /\ stream' = [stream EXCEPT ![p] = << >>] /\ Goto(p, next)

fork ==
    \/ /\ step' = [p \in Processes |-> "emit"]
       /\ stream' = [stream EXCEPT !["child"] = stream["parent"]]
       /\ UNCHANGED <<testfile, offset, failed>>
    \/ /\ Goto("parent", "end") /\ failed' = TRUE        \* fork error: exit flushes
       /\ testfile' = testfile \o stream["parent"] /\ offset' = Len(testfile')
       /\ stream' = [stream EXCEPT !["parent"] = << >>]

Message(p) == IF step[p] = "begin" THEN "all" ELSE p

(* The child's sleep(5) is no synchronization: either may write first.      *)
main(p) ==
    /\ UNCHANGED stdio
    /\ \/ step[p] = "begin" /\ Emit(p, Message(p), "fork")
       \/ step[p] = "fork" /\ fork
       \/ step[p] = "emit" /\ Emit(p, Message(p), "close")
       \/ step[p] = "close" /\ Close(p, IF p = "parent" THEN "wait" ELSE "end")
       \/ /\ step[p] = "wait" /\ step["child"] = "end" /\ Goto(p, "end")
          /\ UNCHANGED <<testfile, offset, stream, failed>>

Next == \E p \in Processes : main(p)

Spec == Init /\ [][Next]_vars
-----------------------------------------------------------------------------
TypeOK ==
    /\ step \in [Processes -> {"none", "begin", "fork", "emit", "close", "wait", "end"}]
    /\ testfile \in Seq({"all"} \cup Processes) /\ offset \in 0 .. Len(testfile)
    /\ stream \in [Processes -> Seq({"all"} \cup Processes)]
    /\ stdio \in BOOLEAN /\ failed \in BOOLEAN

(* When the parent ends, all that was written is in the file, once, in      *)
(* either order and nothing on top of anything else; but what the stream    *)
(* held at the fork is there twice, once in front of each (8.5.c:25, and    *)
(* the question the link in its comment asks).                              *)
WritesSurvive ==
    step["parent"] = "end" /\ ~failed =>
        testfile \in IF stdio THEN {<<"all", "parent", "all", "child">>, <<"all", "child", "all", "parent">>}
                     ELSE {<<"all", "parent", "child">>, <<"all", "child", "parent">>}
=============================================================================
