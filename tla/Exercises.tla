------------------------------ MODULE Exercises ------------------------------
(***************************************************************************)
(* Small programs of the repository side by side, as ReadersWriters has the *)
(* readers and writers: each behaviour runs the one named by program and    *)
(* leaves the variables of the others as they start.  Tools has more.       *)
(***************************************************************************)
EXTENDS Philosopher, Tools

CONSTANTS SERVER_TIMEOUT, CLIENT_TIMEOUT, MAX_COUNT, SelectUpdatesTimeout, MaxInFlight,
          TOP_ROW, BOTTOM_ROW, LEFT_EDGE, RIGHT_EDGE, START_ROW, START_COL, X_TTM, Y_TTM,
          BOARD_WIDTH, MaxTtm,
          COLS, MSGLEN, Delay0, IntMax, MaxDrift,
          Letters, Exit, MaxLine

VARIABLES
  (* TalkPair *)
  at, pending, ready, timeout, count, stdin, unread, reset, silent,
  (* Bounce *)
  the_ball, the_board, sigalrm, running,
  (* BounceMessage *)
  col, dir, delay, shown,
  (* Shell *)
  psh, line, cmdArr, i, exitFlag, sigint, child, childint, status, ran

Pair == INSTANCE TalkPair WITH pc <- at
Ball == INSTANCE Bounce
Word == INSTANCE BounceMessage
Psh2 == INSTANCE Shell WITH pc <- psh

ASSUME ExercisesAssumption ==
    /\ Pair!TalkPairAssumption /\ Ball!BounceAssumption
    /\ Word!BounceMessageAssumption /\ Psh2!ShellAssumption /\ ToolsAssumption

pairvars == <<at, pending, ready, timeout, count, stdin, unread, reset, silent>>
ballvars == <<the_ball, the_board, sigalrm, running>>
wordvars == <<col, dir, delay, shown>>
psh2vars == <<psh, line, cmdArr, i, exitFlag, sigint, child, childint, status, ran>>
games == <<vars, pairvars, ballvars, wordvars, psh2vars>>
all == <<program, games, tools>>

Start ==
    /\ program \in {"philosopher", "talk", "bounce2d", "bounce1d", "psh2"} \cup ToolNames
    /\ Init /\ Pair!Init /\ Ball!set_up /\ Word!set_up /\ Psh2!Init /\ ToolsStart

NotPhilosopher == <<pairvars, ballvars, wordvars, psh2vars, tools>>
NotPair == <<vars, ballvars, wordvars, psh2vars, tools>>
NotBall == <<vars, pairvars, wordvars, psh2vars, tools>>
NotWord == <<vars, pairvars, ballvars, psh2vars, tools>>
NotPsh2 == <<vars, pairvars, ballvars, wordvars, tools>>

Step ==
    \/ In({"philosopher"}, NotPhilosopher) /\ Next
    \/ In({"talk"}, NotPair) /\ Pair!Next
    \/ In({"bounce2d"}, NotBall) /\ Ball!Next
    \/ In({"bounce1d"}, NotWord) /\ Word!Next
    \/ In({"psh2"}, NotPsh2) /\ Psh2!Next
    \/ In(ToolNames, games) /\ ToolsStep

(* The fairness of each program's own FairSpec.                             *)
Fairness ==
    /\ WF_all(In({"philosopher"}, NotPhilosopher) /\ Create)
    /\ \A no \in Philosophers : WF_all(In({"philosopher"}, NotPhilosopher) /\ eating(no))
    /\ WF_all(In({"talk"}, NotPair) /\ Pair!Tick)
    /\ \A p \in Pair!Sides : WF_all(In({"talk"}, NotPair) /\ Pair!main(p))
    /\ WF_all(In({"bounce2d"}, NotBall) /\ Ball!ball_move)
    /\ WF_all(In({"bounce1d"}, NotWord) /\ Word!move_msg)
    /\ WF_all(In({"psh2"}, NotPsh2) /\ Psh2!main /\ psh # "prompt")
    /\ WF_all(In({"psh2"}, NotPsh2) /\ Psh2!execute)
    /\ ToolsFairness

ExercisesSpec == Start /\ [][Step]_all /\ Fairness

-----------------------------------------------------------------------------
(* The properties are those of the modules, where they are explained; what  *)
(* a program that does not run would break is limited to the one it is of.  *)

TypesOK == TypeOK /\ Pair!TypeOK /\ Ball!TypeOK /\ Word!TypeOK /\ Psh2!TypeOK /\ ToolsTypesOK

(* philosopher.c: somebody keeps eating, short of the full circle.          *)
MealGoesOn == program = "philosopher" => EatOrStuck

(* talk_server.c, talk_client.c: a read that select promised finds data.    *)
ReadsDontBlock == Pair!ReadsDontBlock

(* talk_server.c, talk_client.c: nobody gives up a talk in the middle of it.*)
GivesUpInSilence == Pair!GivesUpInSilence

(* talk_server.c, talk_client.c: a talk fallen silent is closed.            *)
IdleIsClosed == Pair!IdleIsClosed

(* bounce2d.c: ball and board stay in the field.                            *)
InField == Ball!InField

(* bounce2d.c: along each axis, a ball with a positive time to move moves.  *)
BallGoesOn == program = "bounce2d" => Ball!BallGoesOn

(* bounce1d.c: a word let alone comes back, unless it is too far left.      *)
WordComesBack == Word!WordComesBack

(* psh2.c: the typed commands run, in order.                                *)
RunsWhatWasTyped == Psh2!RunsWhatWasTyped

(* psh2.c: no child is left over.                                           *)
ChildrenAreWaitedFor == Psh2!ChildrenAreWaitedFor

(* psh2.c: every line is done with.                                         *)
LinesEnd == Psh2!LinesEnd

(* mytail.c, myhead.c: the right part of the file; myls.c: all the names.   *)
PrintsRightPart == Lines!PrintsRightPart /\ Ls!ListsAll

(* mymore.c: a page is a page; line_edit_6-6.c: what is seen is stored.     *)
ScreensAgree == More!PagesFit /\ Edit!ScreenIsBuffer

(* producerConsumer0.c: producers make what main ordered.                   *)
FoodsAsOrdered == Food!FoodsAsOrdered

(* myPWD.c: the path is right short of mounted roots.                       *)
PathIsPrinted == Pwd!PathIsPrinted

(* 8.4.c, 8.5.c, mycp.c: what was written is in the file.                   *)
FilesHold == Fork!WritesSurvive /\ Cp!CopiesOver

(* testSignal.c: the parent ends and leaves no child.                       *)
ChildIsReaped == program = "testSignal" => Signal!ChildIsReaped
=============================================================================
