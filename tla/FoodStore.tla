------------------------------ MODULE FoodStore ------------------------------
(***************************************************************************)
(* What the food buffer of thread/producerConsumer1.c promises its users:   *)
(* a bounded stack.  A producer puts one food on top, a consumer takes the *)
(* top food, each in one indivisible step; nothing is put on a full buffer *)
(* and nothing is taken from an empty one.  Mutexes, condition variables    *)
(* and the counter testTime do not appear.                                  *)
(***************************************************************************)
EXTENDS Naturals, Sequences

CONSTANTS Consumers,   \* threads running consume_food
          Foods,       \* what a producer can make
          FOODNUMMAX,  \* places in food_arr
          NoFood       \* "no food yet"

VARIABLES items,  \* the foods in the buffer, the last one on top
          meal    \* meal[c]: the food consumer c took last

Init ==
    /\ items = << >>
    /\ meal = [c \in Consumers |-> NoFood]

Put(f) ==
    /\ Len(items) < FOODNUMMAX
    /\ items' = Append(items, f)
    /\ UNCHANGED meal

Get(c) ==
    /\ Len(items) > 0
    /\ meal' = [meal EXCEPT ![c] = items[Len(items)]]
    /\ items' = SubSeq(items, 1, Len(items) - 1)

Next == (\E f \in Foods : Put(f)) \/ (\E c \in Consumers : Get(c))

Spec == Init /\ [][Next]_<<items, meal>>
=============================================================================
