-------------------------- MODULE ProducerConsumer1 --------------------------
(***************************************************************************)
(* thread/producerConsumer1.c: producers and consumers share a food buffer  *)
(* under one mutex.  Two programs live in that file and both are modelled:  *)
(*                                                                          *)
(*   Spec   produce_food  / consume_food,  which main starts: both sides    *)
(*          sleep on the one condition variable cond;                       *)
(*   Spec2  produce_food2 / consume_food2, the "improved version" the file  *)
(*          recommends: producers sleep on cond_full, consumers on          *)
(*          cond_empty, and each side signals the other's.                  *)
(*                                                                          *)
(* The two differ only in the condition variables they name, so an action   *)
(* takes them as arguments.  pc[t] is the place thread t has reached:       *)
(*                                                                          *)
(*   gate, gate2  reading testTime in the phase loop (lines 69, 135)        *)
(*   nap, inc     sleep(1), then the load and the store of testTime++       *)
(*   lock         pthread_mutex_lock                                        *)
(*   check        the test of the while around pthread_cond_wait            *)
(*   wait         inside pthread_cond_wait: asleep while t is in            *)
(*                waiting[cv], then waiting for the mutex                   *)
(*   fill, post   storing the product, then food_num++ and the signal       *)
(*   eat, drop    reading the top food, then food_num-- and the signal      *)
(*   unlock       pthread_mutex_unlock (and the sleep(1) that follows)      *)
(***************************************************************************)
EXTENDS Integers, FiniteSets

CONSTANTS Producers,   \* threads running produce_food
          Consumers,   \* threads running consume_food
          Foods,       \* HAMBERGER, Coke
          FOODNUMMAX,  \* places in food_arr (4 in the source)
          Phase1,      \* testTime below which consumers nap (10)
          Phase2,      \* testTime up to which producers nap (20)
          NoFood,      \* content of a place nothing was stored in
          Nobody       \* "the mutex is free"

Threads == Producers \cup Consumers

Conds == {"cond", "cond_full", "cond_empty"}

ASSUME FoodAssumption ==
    /\ Producers # {} /\ Consumers # {}
    /\ IsFiniteSet(Producers) /\ IsFiniteSet(Consumers)
    /\ Producers \cap Consumers = {}
    /\ Nobody \notin Threads
    /\ NoFood \notin Foods
    /\ FOODNUMMAX \in Nat \ {0}
    /\ Phase1 \in Nat /\ Phase2 \in Nat /\ Phase1 <= Phase2

VARIABLES mutex,     \* the thread holding food_buf.mutex, or Nobody
          waiting,   \* waiting[cv]: the threads asleep on cv
          food_num,  \* number of foods in the buffer
          food_arr,  \* the buffer's places
          testTime,  \* the phase counter, shared without a lock
          tmp,       \* tmp[t]: register between t's load and store of testTime
          product,   \* product[p]: what producer p makes
          meal,      \* meal[c]: the food consumer c read last
          pc         \* pc[t]: where thread t is

vars == <<mutex, waiting, food_num, food_arr, testTime, tmp, product, meal, pc>>

buffer == <<food_num, food_arr>>

-----------------------------------------------------------------------------
(* Program start.  product[p] is read through the pointer main passes; what *)
(* it can be depends on main's stack and is left open here.                 *)
Init ==
    /\ mutex = Nobody
    /\ waiting = [cv \in Conds |-> {}]
    /\ food_num = 0
    /\ food_arr = [i \in 0 .. FOODNUMMAX - 1 |-> NoFood]
    /\ testTime = 0
    /\ tmp = [t \in Threads |-> 0]
    /\ product \in [Producers -> Foods]
    /\ meal = [c \in Consumers |-> NoFood]
    /\ pc = [t \in Threads |-> "gate"]

Goto(t, place) == pc' = [pc EXCEPT ![t] = place]

-----------------------------------------------------------------------------
(* The phase loops and the unlocked testTime++.                             *)

(* Mutant: > for >=.                                                        *)
ProducerGateLate(p) ==
    /\ pc[p] = "gate"
    /\ Goto(p, IF testTime > Phase1 THEN "gate2" ELSE "lock")
    /\ UNCHANGED <<mutex, waiting, buffer, testTime, tmp, product, meal>>


ProducerGate(p) ==
    /\ pc[p] = "gate"
    /\ Goto(p, IF testTime >= Phase1 THEN "gate2" ELSE "lock")
    /\ UNCHANGED <<mutex, waiting, buffer, testTime, tmp, product, meal>>

ProducerGate2(p) ==
    /\ pc[p] = "gate2"
    /\ Goto(p, IF testTime < Phase2 THEN "nap" ELSE "lock")
    /\ UNCHANGED <<mutex, waiting, buffer, testTime, tmp, product, meal>>

ConsumerGate(c) ==
    /\ pc[c] = "gate"
    /\ Goto(c, IF testTime < Phase1 THEN "nap" ELSE "lock")
    /\ UNCHANGED <<mutex, waiting, buffer, testTime, tmp, product, meal>>

LoadTestTime(t) ==
    /\ pc[t] = "nap"
    /\ tmp' = [tmp EXCEPT ![t] = testTime]
    /\ Goto(t, "inc")
    /\ UNCHANGED <<mutex, waiting, buffer, testTime, product, meal>>

StoreTestTime(t) ==
    /\ pc[t] = "inc"
    /\ testTime' = tmp[t] + 1
    /\ tmp' = [tmp EXCEPT ![t] = 0]
    /\ Goto(t, "gate")
    /\ UNCHANGED <<mutex, waiting, buffer, product, meal>>

-----------------------------------------------------------------------------
(* pthread calls.                                                           *)

(* Mutant: the call to pthread_mutex_lock forgotten.                        *)
LockForgotten(t) ==
    /\ pc[t] = "lock"
    /\ mutex' = t
    /\ Goto(t, "check")
    /\ UNCHANGED <<waiting, buffer, testTime, tmp, product, meal>>

(* pthread_mutex_lock.                                                      *)
Lock(t) ==
    /\ pc[t] = "lock"
    /\ mutex = Nobody
    /\ mutex' = t
    /\ Goto(t, "check")
    /\ UNCHANGED <<waiting, buffer, testTime, tmp, product, meal>>

(* pthread_mutex_unlock, then sleep(1) and back to the top of while(1).     *)
Unlock(t) ==
    /\ pc[t] = "unlock"
    /\ mutex' = Nobody
    /\ Goto(t, "gate")
    /\ UNCHANGED <<waiting, buffer, testTime, tmp, product, meal>>

(* The first half of pthread_cond_wait: release the mutex and fall asleep,  *)
(* in one indivisible step.                                                 *)
FallAsleep(t, cv) ==
    /\ mutex' = Nobody
    /\ waiting' = [waiting EXCEPT ![cv] = @ \cup {t}]
    /\ Goto(t, "wait")

(* Mutant: if for while around the wait of produce_food (lines 92-98).       *)
ReacquireWithIf(t, cv) ==
    /\ pc[t] = "wait"
    /\ t \notin waiting[cv]
    /\ mutex = Nobody
    /\ mutex' = t
    /\ Goto(t, IF t \in Producers THEN "fill" ELSE "check")
    /\ UNCHANGED <<waiting, buffer, testTime, tmp, product, meal>>

(* The second half: a thread no longer asleep takes the mutex back.         *)
Reacquire(t, cv) ==
    /\ pc[t] = "wait"
    /\ t \notin waiting[cv]
    /\ mutex = Nobody
    /\ mutex' = t
    /\ Goto(t, "check")
    /\ UNCHANGED <<waiting, buffer, testTime, tmp, product, meal>>

(* POSIX lets pthread_cond_wait return although nobody signalled.           *)
SpuriousWakeup(t, cv) ==
    /\ t \in waiting[cv]
    /\ waiting' = [waiting EXCEPT ![cv] = @ \ {t}]
    /\ UNCHANGED <<mutex, buffer, testTime, tmp, product, meal, pc>>

(* pthread_cond_signal wakes one sleeper, any one; nobody if none sleeps.   *)
Signal(cv) ==
    IF waiting[cv] = {}
    THEN UNCHANGED waiting
    ELSE \E t \in waiting[cv] : waiting' = [waiting EXCEPT ![cv] = @ \ {t}]

-----------------------------------------------------------------------------
(* A producer inside the lock.                                              *)

(* while (food_num >= FOODNUMMAX) pthread_cond_wait(full, mutex)            *)
CheckFull(p, full) ==
    /\ pc[p] = "check"
    /\ IF food_num >= FOODNUMMAX
       THEN FallAsleep(p, full)
       ELSE Goto(p, "fill") /\ UNCHANGED <<mutex, waiting>>
    /\ UNCHANGED <<buffer, testTime, tmp, product, meal>>

Fill(p) ==
    /\ pc[p] = "fill"
    /\ food_arr' = [food_arr EXCEPT ![food_num] = product[p]]
    /\ Goto(p, "post")
    /\ UNCHANGED <<mutex, waiting, food_num, testTime, tmp, product, meal>>

(* Mutant: signal only when the buffer was empty.                           *)
PostSignalsFirst(p, empty) ==
    /\ pc[p] = "post"
    /\ food_num' = food_num + 1
    /\ IF food_num = 0 THEN Signal(empty) ELSE UNCHANGED waiting
    /\ Goto(p, "unlock")
    /\ UNCHANGED <<mutex, food_arr, testTime, tmp, product, meal>>


Post(p, empty) ==
    /\ pc[p] = "post"
    /\ food_num' = food_num + 1
    /\ Signal(empty)
    /\ Goto(p, "unlock")
    /\ UNCHANGED <<mutex, food_arr, testTime, tmp, product, meal>>

-----------------------------------------------------------------------------
(* A consumer inside the lock.                                              *)

(* while (food_num <= 0) pthread_cond_wait(empty, mutex)                    *)
CheckEmpty(c, empty) ==
    /\ pc[c] = "check"
    /\ IF food_num <= 0
       THEN FallAsleep(c, empty)
       ELSE Goto(c, "eat") /\ UNCHANGED <<mutex, waiting>>
    /\ UNCHANGED <<buffer, testTime, tmp, product, meal>>

Eat(c) ==
    /\ pc[c] = "eat"
    /\ meal' = [meal EXCEPT ![c] = food_arr[food_num - 1]]
    /\ Goto(c, "drop")
    /\ UNCHANGED <<mutex, waiting, buffer, testTime, tmp, product>>

(* Mutant: the consumer's signal forgotten.                                 *)
DropUnsignalled(c, full) ==
    /\ pc[c] = "drop"
    /\ food_num' = food_num - 1
    /\ Goto(c, "unlock")
    /\ UNCHANGED <<mutex, waiting, food_arr, testTime, tmp, product, meal>>


Drop(c, full) ==
    /\ pc[c] = "drop"
    /\ food_num' = food_num - 1
    /\ Signal(full)
    /\ Goto(c, "unlock")
    /\ UNCHANGED <<mutex, food_arr, testTime, tmp, product, meal>>

-----------------------------------------------------------------------------
(* The thread bodies.  "Waits" are the steps that need the mutex, split off *)
(* because fairness treats them differently.                                *)

ProducerRuns(p, full, empty) ==
    \/ ProducerGate(p) \/ ProducerGate2(p)
    \/ LoadTestTime(p) \/ StoreTestTime(p)
    \/ CheckFull(p, full) \/ Fill(p) \/ Post(p, empty)
    \/ Unlock(p)

ConsumerRuns(c, full, empty) ==
    \/ ConsumerGate(c)
    \/ LoadTestTime(c) \/ StoreTestTime(c)
    \/ CheckEmpty(c, empty) \/ Eat(c) \/ Drop(c, full)
    \/ Unlock(c)

TakesMutex(t, cv) == Lock(t) \/ Reacquire(t, cv)

produce_food(p) ==
    ProducerRuns(p, "cond", "cond") \/ TakesMutex(p, "cond") \/ SpuriousWakeup(p, "cond")

consume_food(c) ==
    ConsumerRuns(c, "cond", "cond") \/ TakesMutex(c, "cond") \/ SpuriousWakeup(c, "cond")

produce_food2(p) ==
    \/ ProducerRuns(p, "cond_full", "cond_empty")
    \/ TakesMutex(p, "cond_full")
    \/ SpuriousWakeup(p, "cond_full")

consume_food2(c) ==
    \/ ConsumerRuns(c, "cond_full", "cond_empty")
    \/ TakesMutex(c, "cond_empty")
    \/ SpuriousWakeup(c, "cond_empty")

Next == (\E p \in Producers : produce_food(p)) \/ (\E c \in Consumers : consume_food(c))

Next2 == (\E p \in Producers : produce_food2(p)) \/ (\E c \in Consumers : consume_food2(c))

Spec == Init /\ [][Next]_vars

Spec2 == Init /\ [][Next2]_vars

(* A runnable thread runs; a mutex that is free again and again (everybody  *)
(* sleeps a second between two uses of it) goes to each side in the end.    *)
(* Nothing makes a spurious wakeup happen, or directs a signal.             *)
FairTo(full, empty) ==
    /\ \A p \in Producers : WF_vars(ProducerRuns(p, full, empty))
    /\ \A c \in Consumers : WF_vars(ConsumerRuns(c, full, empty))
    /\ SF_vars(\E p \in Producers : TakesMutex(p, full))
    /\ SF_vars(\E c \in Consumers : TakesMutex(c, empty))

FairSpec == Spec /\ FairTo("cond", "cond")

FairSpec2 == Spec2 /\ FairTo("cond_full", "cond_empty")

-----------------------------------------------------------------------------
(* Correctness.                                                             *)

TypeOK ==
    /\ mutex \in Threads \cup {Nobody}
    /\ waiting \in [Conds -> SUBSET Threads]
    /\ food_num \in 0 .. FOODNUMMAX
    /\ food_arr \in [0 .. FOODNUMMAX - 1 -> Foods \cup {NoFood}]
    /\ testTime \in Nat
    /\ tmp \in [Threads -> Nat]
    /\ product \in [Producers -> Foods]
    /\ meal \in [Consumers -> Foods \cup {NoFood}]
    /\ pc \in [Threads -> {"gate", "gate2", "nap", "inc", "lock", "check", "wait",
                           "fill", "post", "eat", "drop", "unlock"}]

(* What keeps TypeOK true: the mutex is held exactly by the thread that is  *)
(* between lock and unlock, so what that thread read of the buffer in the   *)
(* while test still holds when it acts on it.                               *)
Inside(t) == pc[t] \in {"check", "fill", "post", "eat", "drop", "unlock"}

OneInside == \A t \in Threads : Inside(t) <=> mutex = t

SidesApart ==
    /\ \A p \in Producers : pc[p] \notin {"eat", "drop"}
    /\ \A c \in Consumers : pc[c] \notin {"gate2", "fill", "post"}

TestStillHolds ==
    /\ \A p \in Producers : pc[p] \in {"fill", "post"} => food_num < FOODNUMMAX
    /\ \A c \in Consumers : pc[c] \in {"eat", "drop"} => food_num > 0
    /\ \A p \in Producers : pc[p] = "post" => food_arr[food_num] = product[p]

(* In the improved version each side sleeps on its own condition variable.  *)
OwnCond ==
    /\ waiting["cond"] = {}
    /\ waiting["cond_full"] \subseteq Producers
    /\ waiting["cond_empty"] \subseteq Consumers
    /\ \A t \in waiting["cond_full"] \cup waiting["cond_empty"] : pc[t] = "wait"

IInv == TypeOK /\ OneInside /\ SidesApart /\ TestStillHolds

Asleep == UNION {waiting[cv] : cv \in Conds}

(* The deadlock the comment at lines 164-171 describes: every thread sleeps *)
(* in pthread_cond_wait and no thread is left to signal.  With one shared   *)
(* condition variable it is avoided only if the buffer is large enough for  *)
(* the number of threads; with two (produce_food2, consume_food2) always.   *)
NotAllAsleep == Asleep # Threads

(* Producers and consumers that will look at the buffer again before they   *)
(* can sleep: woken but still waiting for the mutex, or inside the lock and *)
(* not yet counted in food_num.                                             *)
Filling == {p \in Producers : pc[p] \in {"wait", "check", "fill", "post"}} \ waiting["cond_full"]

Emptying == {c \in Consumers : pc[c] \in {"wait", "check", "eat", "drop"}} \ waiting["cond_empty"]

(* No wakeup is lost in the improved version: while a producer sleeps on a  *)
(* full buffer, every place that has become free is already claimed by a    *)
(* producer that is awake on its way to fill it; and while a consumer       *)
(* sleeps, every food in the buffer is claimed by a consumer that is awake. *)
(* One signal per food is enough only if this holds.                        *)
PlacesClaimed == waiting["cond_full"] # {} => FOODNUMMAX - food_num <= Cardinality(Filling)

FoodsClaimed == waiting["cond_empty"] # {} => food_num <= Cardinality(Emptying)

WakeupsCoverSlots == PlacesClaimed /\ FoodsClaimed

(* The buffer is the bounded stack FoodStore.  A food leaves the stack when *)
(* a consumer reads it (line 151), before food_num-- (line 152).            *)
taken == IF \E c \in Consumers : pc[c] = "drop" THEN 1 ELSE 0

stored == [i \in 1 .. food_num - taken |-> food_arr[i - 1]]

Store == INSTANCE FoodStore WITH items <- stored

ImplementsFoodStore == Store!Spec

(* "The last ten times mostly the consumers consume" (line 68): the nap     *)
(* phase ends for good, although testTime++ is unlocked and a late store    *)
(* can set testTime back to a smaller value.                                *)
PhasesEnd == <>[](testTime >= Phase2)

(* The consumers never stop being served: none of the waits of the two     *)
(* loops turns into a standstill.                                           *)
ConsumersServed == []<>(\E c \in Consumers : pc[c] = "drop")
=============================================================================
