-------------------------- MODULE ProducerConsumer0 --------------------------
(***************************************************************************)
(* producerConsumer0.c: the food buffer by polling.  main hands each        *)
(* producer a pointer to a food declared in the body of a loop; the thread  *)
(* copies it when it comes to run.  (main of producerConsumer1.c is the     *)
(* same.)  Every access to food_buf is inside its mutex, so a round of a    *)
(* thread is one action; main's foods have no lock.                         *)
(***************************************************************************)
EXTENDS Integers

CONSTANTS
  PRODUCERNUM, CONSUMERNUM, FOODNUMMAX,
  OnePlace      \* the compiler puts the variables of both loops in one place

ProducerConsumer0Assumption ==
    PRODUCERNUM \in Nat /\ CONSUMERNUM \in Nat /\ FOODNUMMAX \in Nat \ {0} /\ OnePlace \in BOOLEAN

Producers == 0 .. PRODUCERNUM - 1
Fields == {"food_name", "food_calorie"}
Foods == {"HAMBERGER", "Coke"}        \* a field is named for the food it is of
Values == Foods \cup {"undefined"}
Places == {"hamberger", "coke"}       \* the two variables

VARIABLES
  i,            \* threads created so far, producers first
  filled,       \* fields of the food for producer i that main has stored
  storage,      \* what the places hold
  uncopied,     \* per producer: the fields it has not copied yet
  product,      \* per producer
  food_num, food_arr

vars == <<i, filled, storage, uncopied, product, food_num, food_arr>>
-----------------------------------------------------------------------------
(* The first half orders hambergers.                                        *)
order(t) == IF t < PRODUCERNUM \div 2 THEN "HAMBERGER" ELSE "Coke"

(* Mutant: one variable in front of both loops.                             *)
placeOfAll(t) == "hamberger"

place(t) == IF OnePlace \/ order(t) = "HAMBERGER" THEN "hamberger" ELSE "coke"

Init ==
    /\ i = 0 /\ filled = {}
    /\ storage = [p \in Places |-> [f \in Fields |-> "undefined"]]
    /\ uncopied = [t \in Producers |-> Fields]
    /\ product = [t \in Producers |-> [f \in Fields |-> "undefined"]]
    /\ food_num = 0 /\ food_arr = [k \in 0 .. FOODNUMMAX - 1 |-> [f \in Fields |-> "undefined"]]

FillField(f) ==
    /\ i \in Producers /\ f \notin filled
    /\ filled' = filled \cup {f}
    /\ storage' = [storage EXCEPT ![place(i)][f] = order(i)]
    /\ UNCHANGED <<i, uncopied, product, food_num, food_arr>>

(* pthread_create stores the thread's id in producer_pt[i], an array of     *)
(* CONSUMERNUM: beyond it, over whatever of the foods lies there.           *)
CreateProducer ==
    /\ i \in Producers /\ filled = Fields
    /\ i' = i + 1 /\ filled' = {}
    /\ \E hit \in IF i < CONSUMERNUM THEN {{}} ELSE SUBSET (Places \X Fields) :
          storage' = [p \in Places |-> [f \in Fields |->
                         IF <<p, f>> \in hit THEN "undefined" ELSE storage[p][f]]]
    /\ UNCHANGED <<uncopied, product, food_num, food_arr>>

CreateConsumer ==
    /\ i \in PRODUCERNUM .. PRODUCERNUM + CONSUMERNUM - 1
    /\ i' = i + 1
    /\ UNCHANGED <<filled, storage, uncopied, product, food_num, food_arr>>

main == (\E f \in Fields : FillField(f)) \/ CreateProducer \/ CreateConsumer

(* The thread copies what arg points to, not at once: main may store there. *)
CopyField(t, f) ==
    /\ t < i /\ f \in uncopied[t]
    /\ uncopied' = [uncopied EXCEPT ![t] = @ \ {f}]
    /\ product' = [product EXCEPT ![t][f] = storage[place(t)][f]]
    /\ UNCHANGED <<i, filled, storage, food_num, food_arr>>

(* A round that finds the buffer full, or empty, changes nothing.           *)
Produce(t) ==
    /\ t < i /\ uncopied[t] = {} /\ food_num < FOODNUMMAX
    /\ food_arr' = [food_arr EXCEPT ![food_num] = product[t]]
    /\ food_num' = food_num + 1
    /\ UNCHANGED <<i, filled, storage, uncopied, product>>

produce_food(t) == (\E f \in Fields : CopyField(t, f)) \/ Produce(t)

consume_food ==
    /\ i > PRODUCERNUM /\ food_num > 0
    /\ food_num' = food_num - 1
    /\ UNCHANGED <<i, filled, storage, uncopied, product, food_arr>>

Next == main \/ (\E t \in Producers : produce_food(t)) \/ consume_food

Spec == Init /\ [][Next]_vars
-----------------------------------------------------------------------------
TypeOK ==
    /\ i \in 0 .. PRODUCERNUM + CONSUMERNUM /\ filled \subseteq Fields
    /\ storage \in [Places -> [Fields -> Values]]
    /\ uncopied \in [Producers -> SUBSET Fields]
    /\ product \in [Producers -> [Fields -> Values]]
    /\ food_num \in 0 .. FOODNUMMAX
    /\ food_arr \in [0 .. FOODNUMMAX - 1 -> [Fields -> Values]]

(* Half of the producers make hambergers and half coke (:116, :124): each   *)
(* has the food main filled in for it, name and calories, however late it   *)
(* comes to copy it.                                                        *)
ProductsAsOrdered ==
    \A t \in Producers : \A f \in Fields \ uncopied[t] : product[t][f] = order(t)

(* ... and nothing else is in the buffer.                                   *)
FoodsAreProducts ==
    \A k \in 0 .. food_num - 1 : \E t \in Producers :
        t < i /\ uncopied[t] = {} /\ food_arr[k] = product[t]

FoodsAsOrdered == ProductsAsOrdered /\ FoodsAreProducts
=============================================================================
