----------------------------- MODULE BounceMessage -----------------------------
(***************************************************************************)
(* ch07/bounce1d.c: a word runs to and fro in a row of COLS columns.        *)
(* move_msg runs on SIGALRM between any two steps of main; ' ' turns the    *)
(* word round wherever it is, 'f' and 's' halve and double the interval.    *)
(* A tick between load and store of main's dir = -dir leaves what the tick  *)
(* alone, or the tick and then the key, would have left.                    *)
(***************************************************************************)
EXTENDS Integers

CONSTANTS COLS,      \* width of the terminal
          MSGLEN,    \* strlen(MESSAGE): 5
          Delay0,    \* interval at the start: 200 ms
          IntMax,    \* INT_MAX
          MaxDrift   \* bound of the model: how far off the screen the word is turned round

(* What is assumed of the constants; Exercises has TLC evaluate it.         *)
BounceMessageAssumption ==
    /\ MSGLEN \in Nat \ {0} /\ COLS \in Nat /\ COLS > MSGLEN
    /\ Delay0 \in 1 .. IntMax /\ IntMax \in Nat
    /\ MaxDrift \in Nat

VARIABLES col,    \* column of the first letter; may leave the screen
          dir,
          delay,  \* milliseconds per step
          shown   \* FALSE after 'Q'

vars == <<col, dir, delay, shown>>

set_up == col = 0 /\ dir = 1 /\ delay = Delay0 /\ shown = TRUE

(* col + strlen(MESSAGE) >= COLS compares unsigned numbers (line 78): left  *)
(* of -MSGLEN the sum is huge.                                              *)
AtRightEdge(c) == c + MSGLEN >= COLS \/ c + MSGLEN < 0

(* Mutant: turn at an edge whichever way the word runs.                     *)
MoveEitherWay ==
    /\ shown
    /\ col' = col + dir
    /\ dir' = IF col' <= 0 \/ AtRightEdge(col') THEN -dir ELSE dir
    /\ UNCHANGED <<delay, shown>>

move_msg ==
    /\ shown
    /\ col' = col + dir
    /\ dir' = IF \/ dir = -1 /\ col' <= 0
                 \/ dir = 1 /\ AtRightEdge(col')
              THEN -dir ELSE dir
    /\ UNCHANGED <<delay, shown>>

(* ' '                                                                      *)
KeyTurn ==
    /\ shown
    /\ col \in -MaxDrift .. COLS - MSGLEN + MaxDrift
    /\ dir' = -dir
    /\ UNCHANGED <<col, delay, shown>>

(* 2 * delay in an int of IntMax, as the machine wraps it round.            *)
doubled == IF 2 * delay <= IntMax THEN 2 * delay ELSE 2 * delay - 2 * (IntMax + 1)

(* Mutant: 'f' without its lower limit.                                     *)
KeySpeedUnlimited ==
    /\ shown
    /\ \/ delay' = delay \div 2
       \/ delay' = IF doubled > 0 THEN doubled ELSE delay
    /\ UNCHANGED <<col, dir, shown>>

(* 'f' and 's'                                                              *)
KeySpeed ==
    /\ shown
    /\ \/ delay > 2 /\ delay' = delay \div 2
       \/ delay' = IF doubled > 0 THEN doubled ELSE delay
    /\ UNCHANGED <<col, dir, shown>>

KeyQuit ==
    /\ shown
    /\ shown' = FALSE
    /\ UNCHANGED <<col, dir, delay>>

Next == move_msg \/ KeyTurn \/ KeySpeed \/ KeyQuit

Spec == set_up /\ [][Next]_vars

FairSpec == Spec /\ WF_vars(move_msg)

-----------------------------------------------------------------------------
(* However often it is halved and doubled, wrapping round included, the     *)
(* interval stays positive: set_ticker(0) would stop the word for good.     *)
TypeOK == col \in Int /\ dir \in {-1, 1} /\ delay \in 1 .. IntMax /\ shown \in BOOLEAN

OnScreen == col \in 0 .. COLS - MSGLEN

(* A word turned round at an edge runs off the screen, but comes back once  *)
(* it is let alone, unless it was driven so far to the left that its sum    *)
(* with the length is negative: there the unsigned comparison keeps it.     *)
WordComesBack ==
    <>[]shown /\ <>[][~KeyTurn]_vars => ([]<>OnScreen \/ <>[](col < -MSGLEN))
=============================================================================
