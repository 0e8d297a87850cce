-------------------------------- MODULE Bounce --------------------------------
(***************************************************************************)
(* ch07/bounce2d.c: a ball in a field, closed at the right only by a board. *)
(* ball_move runs on the timer's SIGALRM, between any two steps of main,    *)
(* which reads keys.  main writes the time to move (x_ttm, y_ttm) and the   *)
(* board, the handler the rest of the ball, and neither writes what the     *)
(* other writes: a key or a tick is one step.  The screen is left out.      *)
(***************************************************************************)
EXTENDS Integers

CONSTANTS TOP_ROW, BOTTOM_ROW, LEFT_EDGE, RIGHT_EDGE,  \* the field: 5, 20, 10, 70
          START_ROW, START_COL,  \* 10 and 10; set_up uses each for the other
          X_TTM, Y_TTM,          \* ticks per step at the start: 5 and 8
          BOARD_WIDTH,           \* 4
          MaxTtm                 \* bound of the model: keys keep x_ttm and y_ttm within it

(* What is assumed of the constants; Exercises has TLC evaluate it.         *)
BounceAssumption ==
    /\ {TOP_ROW, BOTTOM_ROW, LEFT_EDGE, RIGHT_EDGE, START_ROW, START_COL} \subseteq Int
    /\ {X_TTM, Y_TTM, MaxTtm, BOARD_WIDTH} \subseteq Int
    /\ START_ROW \in LEFT_EDGE .. RIGHT_EDGE - 1
    /\ START_COL \in TOP_ROW .. BOTTOM_ROW - 1
    /\ X_TTM \in 1 .. MaxTtm /\ Y_TTM \in 1 .. MaxTtm
    /\ BOARD_WIDTH >= 0 /\ (BOTTOM_ROW - TOP_ROW) \div 2 + BOARD_WIDTH <= BOTTOM_ROW - TOP_ROW

VARIABLES the_ball,   \* position, direction and, per axis, ticks to move and to go
          the_board,  \* the_board.pos_y: its top row
          sigalrm,    \* what SIGALRM does: "ball_move", "ignore"
          running     \* FALSE: the ball is lost or the user has quit

vars == <<the_ball, the_board, sigalrm, running>>

set_up ==
    /\ the_ball = [pos_x |-> START_ROW, pos_y |-> START_COL, x_dir |-> 1, y_dir |-> 1,
                   x_ttm |-> X_TTM, y_ttm |-> Y_TTM, x_ttg |-> X_TTM, y_ttg |-> Y_TTM]
    /\ the_board = TOP_ROW + (BOTTOM_ROW - TOP_ROW) \div 2
    /\ sigalrm = "ball_move"
    /\ running = TRUE

-----------------------------------------------------------------------------
(* ball_move                                                                *)

MovesY(b) == b.y_ttm > 0 /\ b.y_ttg = 1

MovesX(b) == b.x_ttm > 0 /\ b.x_ttg = 1

(* A stopped axis keeps its count; x_ttg-- goes on only while it moves.     *)
CountDown(ttm, ttg) == IF ttm <= 0 THEN ttg ELSE IF ttg = 1 THEN ttm ELSE ttg - 1

moved(b) ==
    [b EXCEPT !.pos_y = IF MovesY(b) THEN b.pos_y + b.y_dir ELSE b.pos_y,
              !.y_ttg = CountDown(b.y_ttm, b.y_ttg),
              !.pos_x = IF MovesX(b) THEN b.pos_x + b.x_dir ELSE b.pos_x,
              !.x_ttg = CountDown(b.x_ttm, b.x_ttg)]

(* The board, BOARD_WIDTH high, saves one row more than it has.             *)
Lost(b) == b.pos_x >= RIGHT_EDGE /\ b.pos_y \notin the_board .. the_board + BOARD_WIDTH

(* A slip in bounced: the test for the bottom row comes a row late.         *)
BouncedLate(b) ==
    [b EXCEPT !.x_dir = IF b.pos_x >= RIGHT_EDGE THEN -1
                        ELSE IF b.pos_x <= LEFT_EDGE THEN 1 ELSE b.x_dir,
              !.y_dir = IF b.pos_y <= TOP_ROW THEN 1
                        ELSE IF b.pos_y > BOTTOM_ROW THEN -1 ELSE b.y_dir]

bounced(b) ==
    [b EXCEPT !.x_dir = IF b.pos_x >= RIGHT_EDGE THEN -1
                        ELSE IF b.pos_x <= LEFT_EDGE THEN 1 ELSE b.x_dir,
              !.y_dir = IF b.pos_y <= TOP_ROW THEN 1
                        ELSE IF b.pos_y >= BOTTOM_ROW THEN -1 ELSE b.y_dir]

(* A slip in ball_move: SIGALRM stays ignored when nothing moved.           *)
TickIgnored ==
    /\ running /\ sigalrm = "ball_move"
    /\ the_ball' = IF moved(the_ball).pos_x # the_ball.pos_x \/ moved(the_ball).pos_y # the_ball.pos_y
                   THEN bounced(moved(the_ball)) ELSE moved(the_ball)
    /\ sigalrm' = "ignore"
    /\ UNCHANGED <<the_board, running>>

(* A ball that has moved is tested, also along the edge it is still on.     *)
ball_move ==
    /\ running /\ sigalrm = "ball_move"
    /\ IF MovesX(the_ball) \/ MovesY(the_ball)
       THEN IF Lost(moved(the_ball))
            THEN the_ball' = moved(the_ball) /\ running' = FALSE /\ sigalrm' = "ignore"
            ELSE the_ball' = bounced(moved(the_ball)) /\ UNCHANGED <<running, sigalrm>>
       ELSE the_ball' = moved(the_ball) /\ UNCHANGED <<running, sigalrm>>
    /\ UNCHANGED the_board

-----------------------------------------------------------------------------
(* main: the keys                                                           *)

(* 'f' and 's', 'F' and 'S': faster and slower.  Faster than every tick is  *)
(* standing still.                                                          *)
KeySpeed ==
    /\ running
    /\ \E d \in {-1, 1} :
          \/ /\ the_ball.x_ttm + d \in -MaxTtm .. MaxTtm
             /\ the_ball' = [the_ball EXCEPT !.x_ttm = @ + d]
          \/ /\ the_ball.y_ttm + d \in -MaxTtm .. MaxTtm
             /\ the_ball' = [the_ball EXCEPT !.y_ttm = @ + d]
    /\ UNCHANGED <<the_board, sigalrm, running>>

move_boad(dir) ==
    /\ ~ (dir < 0 /\ the_board <= TOP_ROW)
    /\ ~ (dir > 0 /\ the_board + BOARD_WIDTH >= BOTTOM_ROW)
    /\ the_board' = the_board + dir

KeyBoard ==
    /\ running
    /\ \E dir \in {-1, 1} : move_boad(dir)
    /\ UNCHANGED <<the_ball, sigalrm, running>>

KeyQuit ==
    /\ running
    /\ running' = FALSE
    /\ UNCHANGED <<the_ball, the_board, sigalrm>>

Next == ball_move \/ KeySpeed \/ KeyBoard \/ KeyQuit

Spec == set_up /\ [][Next]_vars

(* The timer goes on; keys need not come.                                   *)
FairSpec == Spec /\ WF_vars(ball_move)

-----------------------------------------------------------------------------
Dirs == {-1, 1}

TypeOK ==
    /\ the_ball \in [pos_x : Int, pos_y : Int, x_dir : Dirs, y_dir : Dirs,
                     x_ttm : Int, y_ttm : Int, x_ttg : Int, y_ttg : Int]
    /\ the_board \in Int
    /\ sigalrm \in {"ball_move", "ignore"}
    /\ running \in BOOLEAN

(* Whatever keys come between two ticks, ball and board stay in the field:  *)
(* the bounce after a step is in time for the next.                         *)
InField ==
    /\ the_ball.pos_x \in LEFT_EDGE .. RIGHT_EDGE
    /\ the_ball.pos_y \in TOP_ROW .. BOTTOM_ROW
    /\ the_board \in TOP_ROW .. BOTTOM_ROW - BOARD_WIDTH

(* Why: on an edge the ball heads for the field, unless it is lost; and a   *)
(* count that has run down is set again before the next tick.               *)
HeadsIn ==
    running => /\ the_ball.pos_x = RIGHT_EDGE => the_ball.x_dir = -1
               /\ the_ball.pos_x = LEFT_EDGE => the_ball.x_dir = 1
               /\ the_ball.pos_y = BOTTOM_ROW => the_ball.y_dir = -1
               /\ the_ball.pos_y = TOP_ROW => the_ball.y_dir = 1

CountsRun == the_ball.x_ttg >= 1 /\ the_ball.y_ttg >= 1

IInv == TypeOK /\ InField /\ HeadsIn /\ CountsRun

(* A ball stopped with 'f' or 'F' and slowed again with 's' or 'S' moves    *)
(* again: as long as the game goes on, each axis that has a positive time   *)
(* to move does, whatever the other one does.                               *)
BallGoesOn ==
    /\ <>[](running /\ the_ball.x_ttm > 0)
           => []<><<the_ball'.pos_x # the_ball.pos_x>>_vars
    /\ <>[](running /\ the_ball.y_ttm > 0)
           => []<><<the_ball'.pos_y # the_ball.pos_y>>_vars
=============================================================================
