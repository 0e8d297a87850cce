----------------------------- MODULE Philosopher -----------------------------
(***************************************************************************)
(* thread/philosopher.c: PHILOSOPHER_NUM threads around a table, one mutex  *)
(* per chopstick.  Philosopher no locks chopstick no, then chopstick        *)
(* (no+1) % PHILOSOPHER_NUM, eats, and unlocks them in the same order.      *)
(* main creates the threads one at a time, and the first ones eat while it  *)
(* is still creating the others.                                            *)
(*                                                                          *)
(* The comment in eating (line 42) says the program may deadlock.  It may;  *)
(* the properties say that this is the only way it fails.                   *)
(***************************************************************************)
EXTENDS Integers

CONSTANTS PHILOSOPHER_NUM,  \* 5 in the source
          Nobody            \* "the chopstick lies on the table"

ASSUME PhilosopherAssumption ==
    /\ PHILOSOPHER_NUM \in Nat /\ PHILOSOPHER_NUM >= 2
    /\ Nobody \notin Int

Philosophers == 0 .. PHILOSOPHER_NUM - 1

VARIABLES created,    \* number of threads main has created
          chopstics,  \* chopstics[i]: who has locked chopstick i
          pc          \* pc[no]: where philosopher no is

vars == <<created, chopstics, pc>>

(* The chopsticks philosopher no uses.                                      *)
right(no) == no

left(no) == (no + 1) % PHILOSOPHER_NUM

Init ==
    /\ created = 0
    /\ chopstics = [i \in Philosophers |-> Nobody]
    /\ pc = [no \in Philosophers |-> "new"]

(* main: pthread_create number i.                                           *)
Create ==
    /\ created < PHILOSOPHER_NUM
    /\ created' = created + 1
    /\ pc' = [pc EXCEPT ![created] = "right"]
    /\ UNCHANGED chopstics

(* pthread_mutex_lock on chopstick i, then go on to place.                  *)
PickUp(no, i, place) ==
    /\ chopstics[i] = Nobody
    /\ chopstics' = [chopstics EXCEPT ![i] = no]
    /\ pc' = [pc EXCEPT ![no] = place]
    /\ UNCHANGED created

(* pthread_mutex_unlock.                                                    *)
PutDown(no, i, place) ==
    /\ chopstics' = [chopstics EXCEPT ![i] = Nobody]
    /\ pc' = [pc EXCEPT ![no] = place]
    /\ UNCHANGED created

TakeRight(no) == pc[no] = "right" /\ PickUp(no, right(no), "left")

(* Mutant: a lock that does not wait (trylock, its result ignored).         *)
GrabLeft(no) ==
    /\ pc[no] = "left"
    /\ chopstics' = [chopstics EXCEPT ![left(no)] = no]
    /\ pc' = [pc EXCEPT ![no] = "eating"]
    /\ UNCHANGED created

TakeLeft(no) == pc[no] = "left" /\ PickUp(no, left(no), "eating")

(* After sleep(1) with both chopsticks in hand.                             *)
PutRight(no) == pc[no] = "eating" /\ PutDown(no, right(no), "putting")

(* Mutant: the second unlock repeats the first.                             *)
PutRightAgain(no) == pc[no] = "putting" /\ PutDown(no, right(no), "right")

(* Then sleep(1), thinking, and back to the top of while(1).                *)
PutLeft(no) == pc[no] = "putting" /\ PutDown(no, left(no), "right")

eating(no) == TakeRight(no) \/ TakeLeft(no) \/ PutRight(no) \/ PutLeft(no)

Next == Create \/ \E no \in Philosophers : eating(no)

Spec == Init /\ [][Next]_vars

(* main creates all its threads and every thread that can run does.         *)
FairSpec == Spec /\ WF_vars(Create) /\ \A no \in Philosophers : WF_vars(eating(no))

-----------------------------------------------------------------------------
TypeOK ==
    /\ created \in 0 .. PHILOSOPHER_NUM
    /\ chopstics \in [Philosophers -> Philosophers \cup {Nobody}]
    /\ pc \in [Philosophers -> {"new", "right", "left", "eating", "putting"}]

(* Two philosophers who share a chopstick never eat at the same time, while *)
(* threads are still being created or later.                                *)
NeighboursTakeTurns ==
    \A no \in Philosophers : ~ (pc[no] = "eating" /\ pc[left(no)] = "eating")

(* Who holds what: the reason for the two properties above and below.       *)
HandsMatch ==
    \A no \in Philosophers :
        /\ chopstics[right(no)] = no <=> pc[no] \in {"left", "eating"}
        /\ chopstics[left(no)] = no <=> pc[no] \in {"eating", "putting"}

OwnChopstics ==
    \A i, no \in Philosophers : chopstics[i] = no => i \in {right(no), left(no)}

CreatedInOrder == \A no \in Philosophers : pc[no] = "new" <=> no >= created

(* A philosopher that cannot take a step.                                   *)
Blocked(no) ==
    \/ pc[no] = "right" /\ chopstics[right(no)] # Nobody
    \/ pc[no] = "left" /\ chopstics[left(no)] # Nobody

(* The only way for all to wait is the one the comment at line 42 has in    *)
(* mind: everybody is there and holds the right chopstick.  So remedy 2 of  *)
(* the comment (at most PHILOSOPHER_NUM - 1 with a chopstick) is enough.    *)
StuckOnlyInCircle ==
    (\A no \in Philosophers : Blocked(no)) => \A no \in Philosophers : pc[no] = "left"

(* Nothing else stops the meal: unless everybody is stuck in the circle,    *)
(* somebody keeps eating.                                                   *)
EatOrStuck ==
    \/ []<>(\E no \in Philosophers : pc[no] = "eating")
    \/ <>[](\A no \in Philosophers : pc[no] = "left")
=============================================================================
