-------------------------- MODULE Exercises_proofs --------------------------
(***************************************************************************)
(* Proofs about the programs of Exercises, for any size of each of them.    *)
(* The theorems are about ExercisesSpec.  What a program keeps is proved    *)
(* from its own module's steps; Moves says that a step of Exercises is, for *)
(* every program, a step of its module or none.                             *)
(***************************************************************************)
EXTENDS Shell_proofs, TLAPS

-----------------------------------------------------------------------------
(* What each program does when one of them takes a step                     *)

(* A step of Exercises moves every one of its own programs or leaves it.    *)
LEMMA Moves ==
    ASSUME [Step]_all
    PROVE  /\ [Next]_vars /\ [Pair!Next]_pairvars /\ [Ball!Next]_ballvars
           /\ [Word!Next]_wordvars /\ [Psh2!Next]_psh2vars
           /\ [In(ToolNames, games) /\ ToolsStep]_<<program, tools>>
<1>1. CASE UNCHANGED all
  BY <1>1 DEF all, games
<1>2. CASE In({"philosopher"}, NotPhilosopher) /\ Next
  BY <1>2 DEF In, NotPhilosopher
<1>3. CASE In({"talk"}, NotPair) /\ Pair!Next
  BY <1>3 DEF In, NotPair
<1>4. CASE In({"bounce2d"}, NotBall) /\ Ball!Next
  BY <1>4 DEF In, NotBall
<1>5. CASE In({"bounce1d"}, NotWord) /\ Word!Next
  BY <1>5 DEF In, NotWord
<1>6. CASE In({"psh2"}, NotPsh2) /\ Psh2!Next
  BY <1>6 DEF In, NotPsh2
<1>7. CASE In(ToolNames, games) /\ ToolsStep
  BY <1>7 DEF In, games
<1> QED BY <1>1, <1>2, <1>3, <1>4, <1>5, <1>6, <1>7 DEF Step

(* The same of the programs of Tools.                                       *)
LEMMA ToolsMove ==
    ASSUME [Step]_all
    PROVE  /\ [Lines!Next]_tailvars /\ [Ls!Next]_lsvars /\ [More!Next]_morevars
           /\ [Edit!Next]_editvars /\ [Food!Next]_foodvars /\ [Pwd!Next]_pwdvars
           /\ [Fork!Next]_forkvars /\ [Cp!Next]_cpvars /\ [Signal!Next]_signalvars
<1>1. CASE UNCHANGED <<program, tools>>
  BY <1>1 DEF tools
<1>2. CASE In({"tail"}, NotLines) /\ Lines!Next
  BY <1>2 DEF In, NotLines
<1>3. CASE In({"ls"}, NotLs) /\ Ls!Next
  BY <1>3 DEF In, NotLs
<1>4. CASE In({"mymore"}, NotMore) /\ More!Next
  BY <1>4 DEF In, NotMore
<1>5. CASE In({"line_edit"}, NotEdit) /\ Edit!Next
  BY <1>5 DEF In, NotEdit
<1>6. CASE In({"producerConsumer0"}, NotFood) /\ Food!Next
  BY <1>6 DEF In, NotFood
<1>7. CASE In({"myPWD"}, NotPwd) /\ Pwd!Next
  BY <1>7 DEF In, NotPwd
<1>8. CASE In({"8.4", "8.5"}, NotFork) /\ Fork!Next
  BY <1>8 DEF In, NotFork
<1>9. CASE In({"mycp"}, NotCp) /\ Cp!Next
  BY <1>9 DEF In, NotCp
<1>10. CASE In({"testSignal"}, NotSignal) /\ Signal!Next
  BY <1>10 DEF In, NotSignal
<1> QED BY Moves, <1>1, <1>2, <1>3, <1>4, <1>5, <1>6, <1>7, <1>8, <1>9, <1>10 DEF ToolsStep

-----------------------------------------------------------------------------
(* philosopher.c                                                            *)

(* The chopsticks of one philosopher are two different ones of the table.   *)
LEMMA TwoChopstics ==
    ASSUME NEW no \in Philosophers
    PROVE  left(no) \in Philosophers /\ left(no) # no
<1>1. CASE no + 1 < PHILOSOPHER_NUM
  <2>1. (no + 1) % PHILOSOPHER_NUM = no + 1
    BY <1>1, PhilosopherAssumption DEF Philosophers
  <2> QED BY <1>1, <2>1, PhilosopherAssumption DEF Philosophers, left
<1>2. CASE no + 1 = PHILOSOPHER_NUM
  <2>1. (no + 1) % PHILOSOPHER_NUM = 0
    BY <1>2, PhilosopherAssumption DEF Philosophers
  <2> QED BY <1>2, <2>1, PhilosopherAssumption DEF Philosophers, left
<1> QED BY <1>1, <1>2, PhilosopherAssumption DEF Philosophers

TableInv == TypeOK /\ HandsMatch /\ OwnChopstics /\ CreatedInOrder

LEMMA TableInit == ASSUME Init PROVE TableInv
BY PhilosopherAssumption DEF Init, TableInv, TypeOK, HandsMatch, OwnChopstics, CreatedInOrder,
   Philosophers, right, left

LEMMA TableEating ==
    ASSUME TableInv, NEW no \in Philosophers, eating(no)
    PROVE  TableInv'
<1> USE PhilosopherAssumption, TwoChopstics DEF TableInv, TypeOK, right
<1> Nobody \notin Philosophers
  BY DEF Philosophers
<1>1. CASE TakeRight(no)
  BY <1>1 DEF TakeRight, PickUp, HandsMatch, OwnChopstics, CreatedInOrder
<1>2. CASE TakeLeft(no)
  BY <1>2 DEF TakeLeft, PickUp, HandsMatch, OwnChopstics, CreatedInOrder
<1>3. CASE PutRight(no)
  BY <1>3 DEF PutRight, PutDown, HandsMatch, OwnChopstics, CreatedInOrder
<1>4. CASE PutLeft(no)
  BY <1>4 DEF PutLeft, PutDown, HandsMatch, OwnChopstics, CreatedInOrder
<1> QED BY <1>1, <1>2, <1>3, <1>4 DEF eating

(* Who holds what is as HandsMatch says, whoever moves.                     *)
LEMMA TableNext == ASSUME TableInv, [Next]_vars PROVE TableInv'
<1>1. CASE UNCHANGED vars
  BY <1>1 DEF vars, TableInv, TypeOK, HandsMatch, OwnChopstics, CreatedInOrder
<1>2. CASE Create
  BY <1>2, PhilosopherAssumption
  DEF TableInv, TypeOK, HandsMatch, OwnChopstics, CreatedInOrder, Create, Philosophers, right
<1>3. ASSUME NEW no \in Philosophers, eating(no) PROVE TableInv'
  BY <1>3, TableEating
<1> QED BY <1>1, <1>2, <1>3 DEF Next

LEMMA TableStands == ExercisesSpec => []TableInv
<1>1. Start => TableInv
  BY TableInit DEF Start
<1>2. TableInv /\ [Step]_all => TableInv'
  BY Moves, TableNext
<1> QED BY <1>1, <1>2, PTL DEF ExercisesSpec

(* philosopher.c: neighbours never eat together, at a table of any size.    *)
THEOREM TurnsAreTaken == ExercisesSpec => []NeighboursTakeTurns
<1>1. TableInv => NeighboursTakeTurns
  <2> SUFFICES ASSUME TableInv, NEW no \in Philosophers,
                      pc[no] = "eating", pc[left(no)] = "eating"
               PROVE  FALSE
    BY DEF NeighboursTakeTurns
  <2>1. left(no) \in Philosophers /\ left(no) # no
    BY TwoChopstics
  <2>2. chopstics[left(no)] = no /\ chopstics[left(no)] = left(no)
    BY <2>1 DEF TableInv, HandsMatch, right
  <2> QED BY <2>1, <2>2
<1> QED BY <1>1, TableStands, PTL

(* philosopher.c: if all wait, all hold the right chopstick: at a table of  *)
(* any size the circle of the comment at line 42 is the only deadlock.      *)
THEOREM OnlyTheCircleSticks == ExercisesSpec => []StuckOnlyInCircle
<1>1. TableInv => StuckOnlyInCircle
  <2> SUFFICES ASSUME TableInv, \A k \in Philosophers : Blocked(k),
                      NEW no \in Philosophers, pc[no] # "left"
               PROVE  FALSE
    BY DEF StuckOnlyInCircle
  <2>1. pc[no] = "right" /\ chopstics[no] # Nobody
    BY DEF Blocked, right
  <2>2. PICK k \in Philosophers : chopstics[no] = k
    BY <2>1 DEF TableInv, TypeOK
  <2>3. no = k \/ no = left(k)
    BY <2>2 DEF TableInv, OwnChopstics, right
  <2>4. CASE no = k
    BY <2>1, <2>2, <2>4 DEF TableInv, HandsMatch, right
  <2>5. CASE no = left(k)
    <3>1. pc[k] \in {"eating", "putting"}
      BY <2>2, <2>5 DEF TableInv, HandsMatch
    <3> QED BY <3>1 DEF Blocked
  <2> QED BY <2>3, <2>4, <2>5
<1> QED BY <1>1, TableStands, PTL

-----------------------------------------------------------------------------
(* bounce2d.c                                                               *)

Balls == [pos_x : Int, pos_y : Int, x_dir : Ball!Dirs, y_dir : Ball!Dirs,
         x_ttm : Int, y_ttm : Int, x_ttg : Int, y_ttg : Int]

LEMMA BallInit == Ball!BounceAssumption /\ Ball!set_up => Ball!IInv
<1> SUFFICES ASSUME Ball!BounceAssumption, Ball!set_up PROVE Ball!IInv
  OBVIOUS
<1> USE DEF Ball!BounceAssumption, Ball!set_up
<1>1. Ball!TypeOK
  BY DEF Ball!TypeOK, Ball!Dirs
<1>2. Ball!InField
  BY DEF Ball!InField
<1>3. Ball!HeadsIn /\ Ball!CountsRun
  BY DEF Ball!HeadsIn, Ball!CountsRun
<1> QED BY <1>1, <1>2, <1>3 DEF Ball!IInv

(* A count that has run down starts again from a positive number of ticks.  *)
LEMMA CountStaysPositive ==
    ASSUME NEW ttm \in Int, NEW ttg \in Int, ttg >= 1
    PROVE  Ball!CountDown(ttm, ttg) \in Int /\ Ball!CountDown(ttm, ttg) >= 1
BY DEF Ball!CountDown

(* One step from where the ball heads stays in the field.                   *)
LEMMA StepStaysInField ==
    ASSUME Ball!BounceAssumption, Ball!IInv, running
    PROVE  /\ Ball!moved(the_ball) \in Balls
           /\ Ball!moved(the_ball).pos_x \in LEFT_EDGE .. RIGHT_EDGE
           /\ Ball!moved(the_ball).pos_y \in TOP_ROW .. BOTTOM_ROW
           /\ Ball!moved(the_ball).x_ttg >= 1 /\ Ball!moved(the_ball).y_ttg >= 1
           /\ Ball!moved(the_ball).x_dir = the_ball.x_dir
           /\ Ball!moved(the_ball).y_dir = the_ball.y_dir
           /\ ~ Ball!MovesX(the_ball) => Ball!moved(the_ball).pos_x = the_ball.pos_x
           /\ ~ Ball!MovesY(the_ball) => Ball!moved(the_ball).pos_y = the_ball.pos_y
<1> DEFINE b == the_ball
<1> USE DEF Ball!BounceAssumption, Ball!IInv, Ball!TypeOK, Ball!Dirs
<1>1. /\ Ball!moved(b).pos_x = IF Ball!MovesX(b) THEN b.pos_x + b.x_dir ELSE b.pos_x
      /\ Ball!moved(b).pos_y = IF Ball!MovesY(b) THEN b.pos_y + b.y_dir ELSE b.pos_y
      /\ Ball!moved(b).x_ttg = Ball!CountDown(b.x_ttm, b.x_ttg)
      /\ Ball!moved(b).y_ttg = Ball!CountDown(b.y_ttm, b.y_ttg)
      /\ Ball!moved(b).x_dir = b.x_dir /\ Ball!moved(b).y_dir = b.y_dir
      /\ Ball!moved(b).x_ttm = b.x_ttm /\ Ball!moved(b).y_ttm = b.y_ttm
  BY DEF Ball!moved
<1>2. /\ Ball!CountDown(b.x_ttm, b.x_ttg) \in Int /\ Ball!CountDown(b.x_ttm, b.x_ttg) >= 1
      /\ Ball!CountDown(b.y_ttm, b.y_ttg) \in Int /\ Ball!CountDown(b.y_ttm, b.y_ttg) >= 1
  BY CountStaysPositive DEF Ball!CountsRun
<1>3. Ball!moved(b).pos_x \in LEFT_EDGE .. RIGHT_EDGE
  BY <1>1 DEF Ball!InField, Ball!HeadsIn
<1>4. Ball!moved(b).pos_y \in TOP_ROW .. BOTTOM_ROW
  BY <1>1 DEF Ball!InField, Ball!HeadsIn
<1>5. Ball!moved(b) \in Balls
  <2> DEFINE px == IF Ball!MovesX(b) THEN b.pos_x + b.x_dir ELSE b.pos_x
             py == IF Ball!MovesY(b) THEN b.pos_y + b.y_dir ELSE b.pos_y
             cx == Ball!CountDown(b.x_ttm, b.x_ttg)
             cy == Ball!CountDown(b.y_ttm, b.y_ttg)
  <2>1. Ball!moved(b) = [b EXCEPT !.pos_y = py, !.y_ttg = cy, !.pos_x = px, !.x_ttg = cx]
    BY DEF Ball!moved
  <2>2. px \in Int /\ py \in Int /\ cx \in Int /\ cy \in Int
    BY <1>2
  <2>3. b \in Balls
    BY DEF Balls
  <2> HIDE DEF px, py, cx, cy, b
  <2> QED BY <2>1, <2>2, <2>3 DEF Balls
<1> QED BY <1>1, <1>2, <1>3, <1>4, <1>5

LEMMA BallTick == Ball!BounceAssumption /\ Ball!IInv /\ Ball!ball_move => Ball!IInv'
<1> SUFFICES ASSUME Ball!BounceAssumption, Ball!IInv, Ball!ball_move PROVE Ball!IInv'
  OBVIOUS
<1> DEFINE b == Ball!moved(the_ball)
<1>0. running /\ the_board' = the_board
  BY DEF Ball!ball_move
<1>1. /\ b \in Balls /\ b.pos_x \in LEFT_EDGE .. RIGHT_EDGE /\ b.pos_y \in TOP_ROW .. BOTTOM_ROW
      /\ b.x_ttg >= 1 /\ b.y_ttg >= 1
  BY <1>0, StepStaysInField
<1> HIDE DEF b
<1>2. CASE the_ball' = b /\ running' = FALSE /\ sigalrm' = "ignore"
  <2>1. Ball!TypeOK'
    BY <1>0, <1>1, <1>2 DEF Ball!IInv, Ball!TypeOK, Balls
  <2>2. Ball!InField' /\ Ball!HeadsIn' /\ Ball!CountsRun'
    BY <1>0, <1>1, <1>2 DEF Ball!IInv, Ball!InField, Ball!HeadsIn, Ball!CountsRun
  <2> QED BY <2>1, <2>2 DEF Ball!IInv
<1>3. CASE the_ball' = Ball!bounced(b) /\ running' = running /\ sigalrm' = sigalrm
  <2>1. /\ the_ball' \in Balls
        /\ the_ball'.pos_x = b.pos_x /\ the_ball'.pos_y = b.pos_y
        /\ the_ball'.x_ttg = b.x_ttg /\ the_ball'.y_ttg = b.y_ttg
        /\ b.pos_x = RIGHT_EDGE => the_ball'.x_dir = -1
        /\ b.pos_x = LEFT_EDGE /\ LEFT_EDGE < RIGHT_EDGE => the_ball'.x_dir = 1
        /\ b.pos_y = TOP_ROW => the_ball'.y_dir = 1
        /\ b.pos_y = BOTTOM_ROW /\ TOP_ROW < BOTTOM_ROW => the_ball'.y_dir = -1
    <3> DEFINE xd == IF b.pos_x >= RIGHT_EDGE THEN -1
                     ELSE IF b.pos_x <= LEFT_EDGE THEN 1 ELSE b.x_dir
               yd == IF b.pos_y <= TOP_ROW THEN 1
                     ELSE IF b.pos_y >= BOTTOM_ROW THEN -1 ELSE b.y_dir
    <3>1. the_ball' = [b EXCEPT !.x_dir = xd, !.y_dir = yd]
      BY <1>3 DEF Ball!bounced
    <3>2. xd \in Ball!Dirs /\ yd \in Ball!Dirs
      BY <1>1 DEF Balls, Ball!Dirs
    <3>3. /\ b.pos_x = RIGHT_EDGE => xd = -1
          /\ b.pos_x = LEFT_EDGE /\ LEFT_EDGE < RIGHT_EDGE => xd = 1
          /\ b.pos_y = TOP_ROW => yd = 1
          /\ b.pos_y = BOTTOM_ROW /\ TOP_ROW < BOTTOM_ROW => yd = -1
      BY DEF Ball!BounceAssumption
    <3> HIDE DEF xd, yd
    <3> QED BY <1>1, <3>1, <3>2, <3>3 DEF Balls
  <2>2. LEFT_EDGE < RIGHT_EDGE /\ TOP_ROW < BOTTOM_ROW
    BY DEF Ball!BounceAssumption
  <2> QED BY <1>0, <1>1, <1>3, <2>1, <2>2 DEF Ball!IInv, Ball!TypeOK, Ball!InField, Ball!HeadsIn, Ball!CountsRun, Balls
<1>4. CASE ~ Ball!MovesX(the_ball) /\ ~ Ball!MovesY(the_ball) /\ the_ball' = b
           /\ running' = running /\ sigalrm' = sigalrm
  <2>1. /\ b.pos_x = the_ball.pos_x /\ b.pos_y = the_ball.pos_y
        /\ b.x_dir = the_ball.x_dir /\ b.y_dir = the_ball.y_dir
    BY <1>0, <1>4, StepStaysInField DEF b
  <2>2. Ball!TypeOK'
    BY <1>0, <1>1, <1>4 DEF Ball!IInv, Ball!TypeOK, Balls
  <2>3. Ball!InField' /\ Ball!HeadsIn' /\ Ball!CountsRun'
    BY <1>0, <1>1, <1>4, <2>1 DEF Ball!IInv, Ball!InField, Ball!HeadsIn, Ball!CountsRun
  <2> QED BY <2>2, <2>3 DEF Ball!IInv
<1> QED BY <1>2, <1>3, <1>4 DEF Ball!ball_move, b

LEMMA BallNext == Ball!BounceAssumption /\ Ball!IInv /\ [Ball!Next]_ballvars => Ball!IInv'
<1> SUFFICES ASSUME Ball!BounceAssumption, Ball!IInv, [Ball!Next]_ballvars PROVE Ball!IInv'
  OBVIOUS
<1> USE DEF Ball!IInv, Ball!TypeOK, Ball!InField, Ball!HeadsIn, Ball!CountsRun
<1>1. CASE Ball!ball_move
  BY <1>1, BallTick
<1>2. CASE Ball!KeySpeed
  <2>1. PICK d \in {-1, 1} : the_ball' = [the_ball EXCEPT !.x_ttm = @ + d]
                             \/ the_ball' = [the_ball EXCEPT !.y_ttm = @ + d]
    BY <1>2 DEF Ball!KeySpeed
  <2>2. UNCHANGED <<the_board, sigalrm, running>>
    BY <1>2 DEF Ball!KeySpeed
  <2> QED BY <2>1, <2>2
<1>3. CASE Ball!KeyBoard
  <2>1. PICK d \in {-1, 1} : Ball!move_boad(d)
    BY <1>3 DEF Ball!KeyBoard
  <2>2. the_board' \in TOP_ROW .. BOTTOM_ROW - BOARD_WIDTH
    BY <2>1 DEF Ball!move_boad, Ball!BounceAssumption
  <2> QED BY <1>3, <2>2 DEF Ball!KeyBoard, Ball!BounceAssumption
<1>4. CASE Ball!KeyQuit
  BY <1>4 DEF Ball!KeyQuit
<1>5. CASE UNCHANGED ballvars
  BY <1>5 DEF ballvars
<1> QED BY <1>1, <1>2, <1>3, <1>4, <1>5 DEF Ball!Next

LEMMA BallStands == ExercisesSpec => []Ball!IInv
<1>1. Start => Ball!IInv
  BY BallInit, ExercisesAssumption DEF Start
<1>2. Ball!IInv /\ [Step]_all => Ball!IInv'
  BY BallNext, Moves, ExercisesAssumption
<1> QED BY <1>1, <1>2, PTL DEF ExercisesSpec

(* bounce2d.c: ball and board stay in the field, whatever keys come between *)
(* the ticks, for a field, a board and speeds of any size.                  *)
THEOREM BallStaysIn == ExercisesSpec => []InField
<1>1. Ball!IInv => InField
  BY DEF Ball!IInv, InField
<1> QED BY <1>1, BallStands, PTL

-----------------------------------------------------------------------------
(* producerConsumer0.c                                                      *)

LEMMA FoodStands == ExercisesSpec => []FoodInv
<1>0. Food!ProducerConsumer0Assumption
  BY ExercisesAssumption DEF ToolsAssumption
<1>1. Start => FoodInv
  BY <1>0, FoodInit DEF Start, ToolsStart
<1>2. FoodInv /\ [Step]_all => FoodInv'
  BY <1>0, FoodStep, ToolsMove
<1> QED BY <1>1, <1>2, PTL DEF ExercisesSpec

(* producerConsumer0.c: where each loop has a variable of its own and       *)
(* producer_pt has a place for every producer, producers make what main     *)
(* ordered, for any number of threads and any buffer.                       *)
THEOREM OrdersAreMade ==
    ~OnePlace /\ PRODUCERNUM <= CONSUMERNUM /\ ExercisesSpec => []FoodsAsOrdered
<1> SUFFICES ASSUME ~OnePlace, PRODUCERNUM <= CONSUMERNUM PROVE ExercisesSpec => []FoodsAsOrdered
  OBVIOUS
<1>1. FoodInv => FoodsAsOrdered
  BY DEF FoodInv, OwnPlaces, Food!FoodsAsOrdered, FoodsAsOrdered
<1> QED BY <1>1, FoodStands, PTL

-----------------------------------------------------------------------------
(* mycp.c, 8.4.c, 8.5.c, mymore.c, line_edit_6-6.c, myPWD.c, mytail.c,      *)
(* myhead.c, myls.c                                                         *)

(* The invariants of Tools_proofs and Printing_proofs hold together.        *)
ToolsInv == CpInv /\ ForkInv /\ MoreInv /\ EditInv /\ PwdInv /\ LinesInv /\ LsInv

LEMMA ToolsInvInit == ASSUME Start PROVE ToolsInv
<1>1. Cp!Init /\ Fork!Init /\ More!Init /\ Edit!Init /\ Pwd!Init /\ Lines!Init /\ Ls!Init
  BY DEF Start, ToolsStart
<1> QED BY <1>1, CpInit, ForkInit, MoreInit, EditInit, PwdInit, LinesInit, LsInit, ExercisesAssumption
        DEF ToolsInv, ToolsAssumption

LEMMA ToolsInvNext == ASSUME ToolsInv, [Step]_all PROVE ToolsInv'
BY ToolsMove, CpStep, ForkStep, MoreStep, EditStep, PwdStep, LinesStep, LsStep, ExercisesAssumption
DEF ToolsInv, ToolsAssumption

LEMMA ToolsStand == ExercisesSpec => []ToolsInv
<1>1. ToolsInv /\ [Step]_all => ToolsInv'
  BY ToolsInvNext
<1>2. Start => ToolsInv
  BY ToolsInvInit
<1> QED BY <1>1, <1>2, PTL DEF ExercisesSpec

(* 8.4.c, 8.5.c, mycp.c: what parent and child printed is in the file, and  *)
(* a copy is over when the original has been read, for any buffer, file and *)
(* interleaving.                                                            *)
THEOREM FilesStand == ExercisesSpec => []FilesHold
<1>1. ToolsInv => FilesHold
  BY ForkHolds DEF ToolsInv, CpInv, FilesHold
<1> QED BY <1>1, ToolsStand, PTL

(* mymore.c: the granted lines are the seen ones; line_edit_6-6.c: what the *)
(* user sees is what read gets, for any page, line and buffer.              *)
THEOREM ScreensStand == ExercisesSpec => []ScreensAgree
<1>1. ToolsInv => ScreensAgree
  BY DEF ToolsInv, MoreInv, EditInv, ScreensAgree
<1> QED BY <1>1, ToolsStand, PTL

(* myPWD.c: the path printed leads from the root here, short of a mounted   *)
(* root on the way, for any depth and any inode numbers.                    *)
THEOREM PathStands == ExercisesSpec => []PathIsPrinted
<1>1. ToolsInv => PathIsPrinted
  BY DEF ToolsInv, PwdInv, PathIsPrinted
<1> QED BY <1>1, ToolsStand, PTL

(* mytail.c, myhead.c: what is printed begins and ends at the right place,  *)
(* however it lies in the blocks of the buffer; where the file does not end *)
(* with a newline those are the lines asked for; bytes not asked for are    *)
(* not printed.  myls.c: every name asked for is listed in its place, and   *)
(* no other.  For any file, buffer, directory and options.                  *)
THEOREM RightPartPrinted == ExercisesSpec => []PrintsRightPart
<1>1. ToolsInv => PrintsRightPart
  BY LsListsAll, ExercisesAssumption DEF ToolsInv, ToolsAssumption, LinesInv, PrintsRightPart
<1> QED BY <1>1, ToolsStand, PTL

-----------------------------------------------------------------------------
(* talk_server.c and talk_client.c, with one client at a time               *)

(* What a side has waited in silence and what is left in its timeout are    *)
(* together a timeout at least, where select leaves timeout alone.          *)
SilenceAddsUp ==
    SelectUpdatesTimeout \/ \A p \in Pair!Sides : silent[p] + timeout[p] >= Pair!TIMEOUT(p)

ClocksRun ==
    /\ timeout \in [Pair!Sides -> Int] /\ silent \in [Pair!Sides -> Int]
    /\ \A p \in Pair!Sides : timeout[p] \in 0 .. Pair!TIMEOUT(p) /\ silent[p] \in 0 .. Pair!TIMEOUT(p)
    /\ SilenceAddsUp

PairInv == Pair!TypeOK /\ Pair!ReadsDontBlock /\ ClocksRun

LEMMA TwoSides ==
    ASSUME Pair!TalkPairAssumption
    PROVE  /\ Pair!Sides = {"server", "client"}
           /\ \A p \in Pair!Sides : /\ Pair!TIMEOUT(p) \in Nat \ {0}
                                    /\ Pair!other(p) \in Pair!Sides /\ Pair!other(p) # p
           /\ MAX_COUNT \in Nat /\ MaxInFlight \in Nat \ {0} /\ SelectUpdatesTimeout \in BOOLEAN
BY DEF Pair!TalkPairAssumption, Pair!Sides, Pair!TIMEOUT, Pair!other

LEMMA PairInit == ASSUME Pair!TalkPairAssumption, Pair!Init PROVE PairInv
<1> USE TwoSides DEF Pair!Init
<1>1. ClocksRun
  BY DEF ClocksRun, SilenceAddsUp
<1>2. Pair!TypeOK
  <2>1. at \in [Pair!Sides -> {"accept", "off", "select", "serve", "dead"}] /\ pending \in BOOLEAN
    OBVIOUS
  <2>2. ready \in [Pair!Sides -> SUBSET {"stdin", "socket"}] /\ count \in [Pair!Sides -> 0 .. MAX_COUNT + 1]
    OBVIOUS
  <2>3. stdin \in [Pair!Sides -> {"quiet", "line", "ended"}] /\ unread \in [Pair!Sides -> 0 .. MaxInFlight]
    OBVIOUS
  <2>4. reset \in [Pair!Sides -> BOOLEAN]
    OBVIOUS
  <2> QED BY <1>1, <2>1, <2>2, <2>3, <2>4 DEF Pair!TypeOK, ClocksRun
<1>3. Pair!ReadsDontBlock
  BY DEF Pair!ReadsDontBlock
<1> QED BY <1>1, <1>2, <1>3 DEF PairInv

(* The clocks of every side go on, or start again, together.                *)
ClocksMove ==
    /\ timeout' \in [Pair!Sides -> Int] /\ silent' \in [Pair!Sides -> Int]
    /\ \A p \in Pair!Sides :
          \/ timeout'[p] = timeout[p] /\ silent'[p] = silent[p]
          \/ /\ timeout[p] > 0 /\ timeout'[p] = timeout[p] - 1
             /\ silent'[p] = IF silent[p] < Pair!TIMEOUT(p) THEN silent[p] + 1 ELSE silent[p]
          \/ timeout'[p] = Pair!Rearmed(p) /\ silent'[p] \in {silent[p], 0}
          \/ timeout'[p] = Pair!TIMEOUT(p) /\ silent'[p] = 0

LEMMA ClocksKept ==
    ASSUME Pair!TalkPairAssumption, ClocksRun, ClocksMove
    PROVE  ClocksRun'
<1> USE TwoSides DEF ClocksMove, ClocksRun
<1>1. \A p \in Pair!Sides : Pair!Rearmed(p) = IF SelectUpdatesTimeout THEN timeout[p] ELSE Pair!TIMEOUT(p)
  BY DEF Pair!Rearmed
<1>2. \A p \in Pair!Sides : timeout'[p] \in 0 .. Pair!TIMEOUT(p) /\ silent'[p] \in 0 .. Pair!TIMEOUT(p)
  BY <1>1
<1>3. SilenceAddsUp'
  BY <1>1 DEF SilenceAddsUp
<1> QED BY <1>2, <1>3

LEMMA PairClocks ==
    ASSUME Pair!TalkPairAssumption, PairInv, Pair!Next
    PROVE  ClocksMove
<1> USE TwoSides DEF ClocksRun, PairInv
<1>1. CASE UNCHANGED <<timeout, silent>>
  BY <1>1 DEF ClocksMove
<1>2. ASSUME NEW p \in Pair!Sides, Pair!StartsTalking(p) PROVE ClocksMove
  BY <1>2 DEF ClocksMove, Pair!StartsTalking
<1>3. CASE Pair!Tick
  BY <1>3 DEF ClocksMove, Pair!Tick
<1>4. ASSUME NEW p \in Pair!Sides, timeout' = [timeout EXCEPT ![p] = Pair!Rearmed(p)],
             silent' \in {silent, [silent EXCEPT ![p] = 0]}
      PROVE  ClocksMove
  <2>1. Pair!Rearmed(p) \in Int
    BY DEF Pair!Rearmed
  <2> QED BY <1>4, <2>1 DEF ClocksMove
<1>5. CASE Pair!Connect
  BY <1>2, <1>5 DEF Pair!Connect
<1>6. ASSUME NEW p \in Pair!Sides, Pair!main(p) PROVE ClocksMove
  <2>1. CASE p = "server" /\ Pair!Accept
    BY <1>2, <2>1 DEF Pair!Accept
  <2>2. CASE Pair!Select(p)
    BY <1>4, <2>2 DEF Pair!Select
  <2>3. CASE Pair!TimesOut(p)
    BY <1>1, <1>4, <2>3 DEF Pair!TimesOut
  <2>4. CASE Pair!ServeStdin(p) \/ Pair!ServeSocket(p) \/ Pair!Again(p)
    BY <1>1, <2>4 DEF Pair!ServeStdin, Pair!ServeSocket, Pair!Again
  <2> QED BY <1>6, <2>1, <2>2, <2>3, <2>4 DEF Pair!main
<1>7. ASSUME NEW p \in Pair!Sides, Pair!UserTypes(p) PROVE ClocksMove
  BY <1>1, <1>7 DEF Pair!UserTypes
<1> QED BY <1>3, <1>5, <1>6, <1>7 DEF Pair!Next

(* Closing keeps the types, and nobody but p moves.                         *)
LEMMA CloseTypes ==
    ASSUME Pair!TalkPairAssumption, PairInv, NEW p \in Pair!Sides, Pair!Close(p)
    PROVE  /\ at' \in [Pair!Sides -> {"accept", "off", "select", "serve", "dead"}]
           /\ \A q \in Pair!Sides : q # p => at'[q] = at[q]
           /\ ready' \in [Pair!Sides -> SUBSET {"stdin", "socket"}]
           /\ \A q \in Pair!Sides : ready'[q] = IF q = p THEN {} ELSE ready[q]
           /\ reset' \in [Pair!Sides -> BOOLEAN]
           /\ \A q \in Pair!Sides : reset[q] => reset'[q]
<1> USE TwoSides DEF PairInv, Pair!TypeOK, Pair!Close
<1>1. at' \in [Pair!Sides -> {"accept", "off", "select", "serve", "dead"}]
  BY SMT
<1>2. \A q \in Pair!Sides : q # p => at'[q] = at[q]
  OBVIOUS
<1>3. ready' \in [Pair!Sides -> SUBSET {"stdin", "socket"}]
  OBVIOUS
<1>4. \A q \in Pair!Sides : ready'[q] = IF q = p THEN {} ELSE ready[q]
  OBVIOUS
<1> DEFINE o == Pair!other(p)
           left_over == reset[o] \/ (unread[p] > 0 /\ ~ Pair!Gone(p))
<1>5. reset' = [reset EXCEPT ![o] = left_over] /\ left_over \in BOOLEAN /\ (reset[o] => left_over)
  BY Zenon
<1> HIDE DEF left_over
<1>6. reset' \in [Pair!Sides -> BOOLEAN]
  BY <1>5, Zenon
<1>7. \A q \in Pair!Sides : reset[q] => reset'[q]
  BY <1>5, Zenon
<1> QED BY <1>1, <1>2, <1>3, <1>4, <1>6, <1>7

(* What a side writes may end it, but nobody else.                          *)
LEMMA WriteTypes ==
    ASSUME Pair!TalkPairAssumption, PairInv, NEW p \in Pair!Sides, at[p] = "serve",
           Pair!Written(p) \/ (p = "server" /\ Pair!WrittenNothing)
    PROVE  /\ at' \in [Pair!Sides -> {"accept", "off", "select", "serve", "dead"}]
           /\ at'[p] \in {"serve", "dead", "off"} /\ (p = "client" => at'[p] # "dead")
           /\ p = "server" => at'[p] # "off"
           /\ \A q \in Pair!Sides : q # p => at'[q] = at[q]
           /\ unread' \in [Pair!Sides -> 0 .. MaxInFlight]
           /\ \A q \in Pair!Sides : unread[q] > 0 => unread'[q] > 0
           /\ reset' \in [Pair!Sides -> BOOLEAN]
           /\ \A q \in Pair!Sides : reset[q] => reset'[q]
<1> USE TwoSides DEF PairInv, Pair!TypeOK, Pair!Written, Pair!WrittenNothing
<1>1. /\ at' \in [Pair!Sides -> {"accept", "off", "select", "serve", "dead"}]
      /\ at'[p] \in {"serve", "dead", "off"} /\ (p = "client" => at'[p] # "dead")
      /\ p = "server" => at'[p] # "off"
      /\ \A q \in Pair!Sides : q # p => at'[q] = at[q]
  <2>1. \/ at' = at
        \/ at' = [at EXCEPT ![p] = IF p = "server" THEN "dead" ELSE "off"]
    OBVIOUS
  <2> QED BY ONLY <2>1, TwoSides, Pair!TalkPairAssumption, p \in Pair!Sides, at[p] = "serve",
             at \in [Pair!Sides -> {"accept", "off", "select", "serve", "dead"}]
<1>2. /\ unread' \in [Pair!Sides -> 0 .. MaxInFlight]
      /\ \A q \in Pair!Sides : unread[q] > 0 => unread'[q] > 0
  <2>1. \/ unread' = unread
        \/ /\ unread[Pair!other(p)] < MaxInFlight
           /\ unread' = [unread EXCEPT ![Pair!other(p)] = @ + 1]
    OBVIOUS
  <2> QED BY ONLY <2>1, TwoSides, Pair!TalkPairAssumption, p \in Pair!Sides,
             unread \in [Pair!Sides -> 0 .. MaxInFlight]
<1>3. /\ reset' \in [Pair!Sides -> BOOLEAN]
      /\ \A q \in Pair!Sides : reset[q] => reset'[q]
  <2>1. CASE reset' = reset
    BY <2>1
  <2>2. CASE reset' = [reset EXCEPT ![p] = TRUE]
    <3>1. reset' \in [Pair!Sides -> BOOLEAN] /\ reset'[p] = TRUE
      BY <2>2
    <3>2. \A q \in Pair!Sides : q # p => reset'[q] = reset[q]
      BY <2>2
    <3> QED BY <3>1, <3>2, Zenon
  <2> QED BY <2>1, <2>2
<1> QED BY <1>1, <1>2, <1>3

(* The types that ClocksRun does not give.                                  *)
PairTypes ==
    /\ at \in [Pair!Sides -> {"accept", "off", "select", "serve", "dead"}]
    /\ pending \in BOOLEAN
    /\ ready \in [Pair!Sides -> SUBSET {"stdin", "socket"}]
    /\ count \in [Pair!Sides -> 0 .. MAX_COUNT + 1]
    /\ stdin \in [Pair!Sides -> {"quiet", "line", "ended"}]
    /\ unread \in [Pair!Sides -> 0 .. MaxInFlight]
    /\ reset \in [Pair!Sides -> BOOLEAN]

LEMMA PairTypesNext ==
    ASSUME Pair!TalkPairAssumption, PairInv, Pair!Next
    PROVE  PairTypes'
<1>0. PairTypes
  BY DEF PairInv, Pair!TypeOK, PairTypes
<1> USE <1>0, TwoSides DEF PairTypes
<1>1. CASE Pair!Connect
  <2>1. \A p \in Pair!Sides : unread'[p] = 0
    BY <1>1 DEF Pair!Connect
  <2> QED BY <1>1 DEF Pair!Connect, Pair!StartsTalking
<1>2. CASE Pair!Tick
  BY <1>2 DEF Pair!Tick, Pair!line
<1>3. ASSUME NEW p \in Pair!Sides, Pair!UserTypes(p) PROVE PairTypes'
  BY <1>3 DEF Pair!UserTypes
<1>4. CASE Pair!Accept
  <2>1. at' = [at EXCEPT !["server"] = "select"] /\ count' = [count EXCEPT !["server"] = 0]
    BY <1>4 DEF Pair!Accept, Pair!StartsTalking
  <2>2. pending' = FALSE /\ UNCHANGED <<ready, stdin, unread, reset>>
    BY <1>4 DEF Pair!Accept
  <2>3. at' \in [Pair!Sides -> {"accept", "off", "select", "serve", "dead"}]
    BY <2>1
  <2>4. count' \in [Pair!Sides -> 0 .. MAX_COUNT + 1]
    BY <2>1
  <2> QED BY <2>2, <2>3, <2>4
<1>5. ASSUME NEW p \in Pair!Sides, Pair!Select(p) PROVE PairTypes'
  <2>1. Pair!ReadyFds(p) \subseteq {"stdin", "socket"}
    BY DEF Pair!ReadyFds
  <2> QED BY <1>5, <2>1 DEF Pair!Select, Pair!line
<1>6. ASSUME NEW p \in Pair!Sides, Pair!TimesOut(p) PROVE PairTypes'
  <2>1. CASE Pair!Close(p) /\ UNCHANGED <<pending, stdin, unread, count>>
    BY <2>1, CloseTypes
  <2>2. CASE /\ count[p] <= MAX_COUNT /\ count' = [count EXCEPT ![p] = @ + 1]
             /\ UNCHANGED <<at, ready, pending, stdin, unread, reset>>
    BY <2>2
  <2> QED BY <1>6, <2>1, <2>2 DEF Pair!TimesOut, Pair!line
<1>7. ASSUME NEW p \in Pair!Sides, Pair!ServeStdin(p) PROVE PairTypes'
  <2>1. CASE Pair!Close(p) /\ UNCHANGED <<pending, stdin, unread, count>>
    BY <2>1, CloseTypes
  <2>2. CASE /\ Pair!Written(p) \/ (p = "server" /\ Pair!WrittenNothing)
             /\ stdin' \in {stdin, [stdin EXCEPT ![p] = "quiet"]}
             /\ ready' = [ready EXCEPT ![p] = IF at'[p] = "serve" THEN @ \ {"stdin"} ELSE {}]
             /\ UNCHANGED <<pending, count>>
    <3>1. at[p] = "serve"
      BY <1>7 DEF Pair!ServeStdin
    <3>2. ready' \in [Pair!Sides -> SUBSET {"stdin", "socket"}]
      BY <2>2
    <3> QED BY <2>2, <3>1, <3>2, WriteTypes
  <2> QED BY <1>7, <2>1, <2>2 DEF Pair!ServeStdin
<1>8. ASSUME NEW p \in Pair!Sides, Pair!ServeSocket(p) PROVE PairTypes'
  <2>1. CASE Pair!Close(p) /\ UNCHANGED <<pending, stdin, unread, count>>
    BY <2>1, CloseTypes
  <2>2. CASE /\ \E n \in 0 .. unread[p] - 1 : unread' = [unread EXCEPT ![p] = n]
             /\ ready' = [ready EXCEPT ![p] = {}]
             /\ UNCHANGED <<at, reset, pending, stdin, count>>
    BY <2>2
  <2>3. CASE /\ reset' = [reset EXCEPT ![p] = FALSE]
             /\ ready' = [ready EXCEPT ![p] = {}]
             /\ UNCHANGED <<at, unread, pending, stdin, count>>
    BY <2>3
  <2> QED BY <1>8, <2>1, <2>2, <2>3 DEF Pair!ServeSocket
<1>9. ASSUME NEW p \in Pair!Sides, Pair!Again(p) PROVE PairTypes'
  BY <1>9 DEF Pair!Again, Pair!line
<1> QED BY <1>1, <1>2, <1>3, <1>4, <1>5, <1>6, <1>7, <1>8, <1>9 DEF Pair!Next, Pair!main

(* A promise of select is kept: only the reader itself takes away what it   *)
(* was promised, and nobody comes back from having closed before the other  *)
(* has noticed.                                                             *)
LEMMA PairPromise ==
    ASSUME Pair!TalkPairAssumption, PairInv, Pair!Next
    PROVE  Pair!ReadsDontBlock'
<1> USE TwoSides DEF PairInv, Pair!TypeOK, Pair!ReadsDontBlock, Pair!SocketReady, Pair!Gone
<1>1. CASE Pair!Connect
  BY <1>1 DEF Pair!Connect, Pair!StartsTalking
<1>2. CASE Pair!Tick
  BY <1>2 DEF Pair!Tick, Pair!line
<1>3. ASSUME NEW p \in Pair!Sides, Pair!UserTypes(p) PROVE Pair!ReadsDontBlock'
  BY <1>3 DEF Pair!UserTypes
<1>4. CASE Pair!Accept
  BY <1>4 DEF Pair!Accept, Pair!StartsTalking
<1>5. ASSUME NEW p \in Pair!Sides, Pair!Select(p) PROVE Pair!ReadsDontBlock'
  BY <1>5 DEF Pair!Select, Pair!line, Pair!ReadyFds
<1>6. ASSUME NEW p \in Pair!Sides, Pair!TimesOut(p) PROVE Pair!ReadsDontBlock'
  <2>1. CASE UNCHANGED <<at, ready, pending, unread, reset>>
    BY <2>1
  <2>2. CASE at[p] = "select" /\ Pair!Close(p) /\ UNCHANGED <<pending, unread>>
    BY <2>2, CloseTypes DEF Pair!Close
  <2> QED BY <1>6, <2>1, <2>2 DEF Pair!TimesOut, Pair!Waits, Pair!line
<1>7. ASSUME NEW p \in Pair!Sides, Pair!ServeStdin(p) PROVE Pair!ReadsDontBlock'
  BY <1>7 DEF Pair!ServeStdin, Pair!Written, Pair!WrittenNothing, Pair!Close, Pair!other
<1>8. ASSUME NEW p \in Pair!Sides, Pair!ServeSocket(p) PROVE Pair!ReadsDontBlock'
  BY <1>8 DEF Pair!ServeSocket, Pair!Close, Pair!other
<1>9. ASSUME NEW p \in Pair!Sides, Pair!Again(p) PROVE Pair!ReadsDontBlock'
  BY <1>9 DEF Pair!Again, Pair!line
<1> QED BY <1>1, <1>2, <1>3, <1>4, <1>5, <1>6, <1>7, <1>8, <1>9 DEF Pair!Next, Pair!main

LEMMA PairNext ==
    ASSUME Pair!TalkPairAssumption, PairInv, [Pair!Next]_pairvars
    PROVE  PairInv'
<1>1. CASE Pair!Next
  <2>1. ClocksRun'
    BY <1>1, PairClocks, ClocksKept DEF PairInv
  <2>2. Pair!TypeOK' /\ Pair!ReadsDontBlock'
    BY <1>1, <2>1, PairTypesNext, PairPromise DEF PairTypes, ClocksRun, Pair!TypeOK
  <2> QED BY <2>1, <2>2 DEF PairInv
<1>2. CASE UNCHANGED pairvars
  BY <1>2 DEF pairvars, PairInv, ClocksRun, SilenceAddsUp, Pair!TypeOK, Pair!ReadsDontBlock,
     Pair!SocketReady, Pair!Gone
<1> QED BY <1>1, <1>2

LEMMA PairStands == ExercisesSpec => []PairInv
<1>1. Start => PairInv
  BY PairInit, ExercisesAssumption DEF Start
<1>2. PairInv /\ [Step]_all => PairInv'
  BY PairNext, Moves, ExercisesAssumption
<1> QED BY <1>1, <1>2, PTL DEF ExercisesSpec

(* talk_server.c, talk_client.c: a read that select promised finds data,    *)
(* however many lines are on the way.                                       *)
THEOREM ReadsDontWait == ExercisesSpec => []ReadsDontBlock
<1>1. PairInv => ReadsDontBlock
  BY DEF PairInv, ReadsDontBlock
<1> QED BY <1>1, PairStands, PTL

(* talk_server.c, talk_client.c: on a system whose select leaves timeout    *)
(* alone, whoever gives up has heard nothing for a timeout, for timeouts    *)
(* and counts of any size.                                                  *)
THEOREM SilenceBeforeGivingUp == ~SelectUpdatesTimeout /\ ExercisesSpec => GivesUpInSilence
<1> DEFINE Patient == \A p \in Pair!Sides : at[p] = "select" /\ at'[p] \in {"accept", "off"}
                          => silent[p] = Pair!TIMEOUT(p)
<1> SUFFICES ASSUME ~SelectUpdatesTimeout PROVE ExercisesSpec => GivesUpInSilence
  OBVIOUS
<1>1. ASSUME PairInv, Pair!Next PROVE Patient
  <2> USE TwoSides, ExercisesAssumption DEF PairInv, Pair!TypeOK
  <2>1. ASSUME NEW q \in Pair!Sides, Pair!StartsTalking(q) PROVE Patient
    BY <1>1, <2>1 DEF Pair!StartsTalking
  <2>2. CASE UNCHANGED at
    BY <1>1, <2>2
  <2>3. ASSUME NEW q \in Pair!Sides, Pair!TimesOut(q), Pair!Close(q) PROVE Patient
    <3>1. timeout[q] = 0 /\ silent[q] = Pair!TIMEOUT(q)
      BY <1>1, <2>3 DEF Pair!TimesOut, ClocksRun, SilenceAddsUp
    <3> QED BY <1>1, <2>3, <3>1, CloseTypes
  <2>4. ASSUME NEW q \in Pair!Sides, at[q] = "serve" \/ at'[q] = "serve",
               \A p \in Pair!Sides : p # q => at'[p] = at[p]
        PROVE  Patient
    BY <2>4
  <2>5. ASSUME NEW q \in Pair!Sides, Pair!main(q) PROVE Patient
    <3>1. CASE q = "server" /\ Pair!Accept
      BY <2>1, <3>1 DEF Pair!Accept
    <3>2. CASE Pair!Select(q)
      BY <1>1, <2>4, <3>2 DEF Pair!Select
    <3>3. CASE Pair!TimesOut(q)
      BY <2>2, <2>3, <3>3 DEF Pair!TimesOut
    <3>4. CASE Pair!ServeStdin(q)
      BY <1>1, <2>4, <3>4, CloseTypes, WriteTypes DEF Pair!ServeStdin
    <3>5. CASE Pair!ServeSocket(q)
      BY <1>1, <2>4, <3>5, CloseTypes DEF Pair!ServeSocket
    <3>6. CASE Pair!Again(q)
      BY <1>1, <2>4, <3>6 DEF Pair!Again
    <3> QED BY <2>5, <3>1, <3>2, <3>3, <3>4, <3>5, <3>6 DEF Pair!main
  <2> QED BY <1>1, <2>1, <2>2, <2>5 DEF Pair!Next, Pair!Connect, Pair!Tick, Pair!UserTypes
<1> HIDE DEF Patient
<1>2. PairInv /\ [Step]_all => [Patient]_(Pair!vars)
  BY <1>1, Moves DEF pairvars, Pair!vars
<1>3. ExercisesSpec => [][Patient]_(Pair!vars)
  BY <1>2, PairStands, PTL DEF ExercisesSpec
<1> QED BY <1>3 DEF GivesUpInSilence, Pair!GivesUpInSilence, Patient

-----------------------------------------------------------------------------
(* psh2.c                                                                   *)

LEMMA ShellStands == ExercisesSpec => []ShellInv
<1>0. Psh2!ShellAssumption
  BY ExercisesAssumption
<1>1. Start => ShellInv
  BY <1>0, ShellInit DEF Start
<1>2. ShellInv /\ [Step]_all => ShellInv'
  BY <1>0, Moves, ShellNext
<1> QED BY <1>1, <1>2, PTL DEF ExercisesSpec

(* psh2.c: no child, zombie or running, is left over when the shell turns   *)
(* to the next command, to the prompt or exits, whatever ^C ends meanwhile. *)
THEOREM NoChildIsLeft == ExercisesSpec => []ChildrenAreWaitedFor
<1>1. ShellInv => ChildrenAreWaitedFor
  BY DEF ShellInv, ChildrenAreWaitedFor
<1> QED BY <1>1, ShellStands, PTL

(* psh2.c: whatever the line, its letters and its length, the commands that *)
(* run are the words typed between its semicolons, in order, up to the      *)
(* first "exit"; all of them by the end of the line, unless one ends with   *)
(* 123, and the shell exits then exactly if there was an "exit".            *)
THEOREM TypedCommandsRun == ExercisesSpec => []RunsWhatWasTyped
<1>1. ShellInv => RunsWhatWasTyped
  BY ShellRunsWhatWasTyped, ExercisesAssumption DEF RunsWhatWasTyped
<1> QED BY <1>1, ShellStands, PTL

-----------------------------------------------------------------------------
(* bounce1d.c, testSignal.c                                                 *)

(* A doubled interval that has wrapped round is negative, and not taken.    *)
LEMMA WordTypes ==
    ASSUME Word!BounceMessageAssumption, Word!TypeOK, [Word!Next]_wordvars
    PROVE  Word!TypeOK'
<1> USE DEF Word!TypeOK, Word!BounceMessageAssumption
<1>1. CASE Word!move_msg
  BY <1>1 DEF Word!move_msg
<1>2. CASE Word!KeyTurn
  BY <1>2 DEF Word!KeyTurn
<1>3. CASE Word!KeySpeed
  <2>1. CASE delay > 2 /\ delay' = delay \div 2
    BY <1>3, <2>1 DEF Word!KeySpeed
  <2>2. CASE delay' = IF Word!doubled > 0 THEN Word!doubled ELSE delay
    <3>1. Word!doubled > 0 => Word!doubled \in 1 .. IntMax
      BY DEF Word!doubled
    <3> QED BY <1>3, <2>2, <3>1 DEF Word!KeySpeed
  <2> QED BY <1>3, <2>1, <2>2 DEF Word!KeySpeed
<1>4. CASE Word!KeyQuit
  BY <1>4 DEF Word!KeyQuit
<1>5. CASE UNCHANGED wordvars
  BY <1>5 DEF wordvars
<1> QED BY <1>1, <1>2, <1>3, <1>4, <1>5 DEF Word!Next

LEMMA WordStands == ExercisesSpec => []Word!TypeOK
<1>0. Word!BounceMessageAssumption
  BY ExercisesAssumption
<1>1. Start => Word!TypeOK
  BY <1>0 DEF Start, Word!set_up, Word!TypeOK, Word!BounceMessageAssumption
<1>2. Word!TypeOK /\ [Step]_all => Word!TypeOK'
  BY <1>0, Moves, WordTypes
<1> QED BY <1>1, <1>2, PTL DEF ExercisesSpec

LEMMA SignalTypes ==
    ASSUME Signal!TypeOK, [Signal!Next]_signalvars
    PROVE  Signal!TypeOK'
<1> USE DEF Signal!TypeOK
<1>1. CASE Signal!main
  BY <1>1 DEF Signal!main, Signal!Fork, Signal!Usleep, Signal!Look, Signal!Kill, Signal!Wait
<1>2. CASE Signal!sigactionReg \/ Signal!Deliver \/ Signal!Killed
  BY <1>2 DEF Signal!sigactionReg, Signal!Deliver, Signal!Killed
<1>3. CASE UNCHANGED signalvars
  BY <1>3 DEF signalvars
<1> QED BY <1>1, <1>2, <1>3 DEF Signal!Next

LEMMA SignalStands == ExercisesSpec => []Signal!TypeOK
<1>1. Start => Signal!TypeOK
  BY DEF Start, ToolsStart, Signal!Init, Signal!TypeOK
<1>2. Signal!TypeOK /\ [Step]_all => Signal!TypeOK'
  BY ToolsMove, SignalTypes
<1> QED BY <1>1, <1>2, PTL DEF ExercisesSpec

(* Every program keeps its variables in their types: among them, bounce1d.c *)
(* never sets an interval of 0, mycp.c and producerConsumer0.c stay in their*)
(* buffer and array, and psh2.c never looks for a command behind its last   *)
(* one.                                                                     *)
THEOREM TypesStand == ExercisesSpec => []TypesOK
<1>1. TableInv /\ PairInv /\ Ball!IInv /\ Word!TypeOK /\ ShellInv
      /\ ToolsInv /\ FoodInv /\ Signal!TypeOK => TypesOK
  BY DEF TableInv, PairInv, Ball!IInv, ShellInv, ToolsInv, FoodInv, CpInv, ForkInv, MoreInv,
     EditInv, PwdInv, LinesInv, LsInv, TypesOK, ToolsTypesOK
<1> QED BY <1>1, TableStands, PairStands, BallStands, WordStands, ShellStands,
           ToolsStand, FoodStands, SignalStands, PTL

=============================================================================
