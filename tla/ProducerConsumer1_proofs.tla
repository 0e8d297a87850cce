---------------------- MODULE ProducerConsumer1_proofs ----------------------
(* Proofs about ProducerConsumer1, for any number of threads, any buffer    *)
(* size and any length of the phases.                                       *)
EXTENDS ProducerConsumer1, Sequences, FiniteSetTheorems, TLAPS

-----------------------------------------------------------------------------
(* The inductive invariant IInv, action by action.  The actions are proved  *)
(* for any pair of condition variables, so each lemma serves both Spec and  *)
(* Spec2.                                                                   *)

LEMMA InitIInv == Init => IInv
BY FoodAssumption DEF Init, IInv, TypeOK, OneInside, SidesApart,
   TestStillHolds, Inside, Threads, Conds

(* A step of the phase loops touches neither the buffer nor the locks.      *)
LEMMA PhaseSteps ==
    ASSUME IInv, NEW t \in Threads,
           \/ t \in Producers /\ (ProducerGate(t) \/ ProducerGate2(t))
           \/ t \in Consumers /\ ConsumerGate(t)
           \/ LoadTestTime(t) \/ StoreTestTime(t)
    PROVE  IInv'
<1> USE DEF IInv
<1>1. TypeOK'
  <2>1. CASE ProducerGate(t) \/ ProducerGate2(t) \/ ConsumerGate(t)
    BY <2>1 DEF TypeOK, ProducerGate, ProducerGate2, ConsumerGate, Goto, buffer
  <2>2. CASE LoadTestTime(t)
    BY <2>2 DEF TypeOK, LoadTestTime, Goto, buffer
  <2>3. CASE StoreTestTime(t)
    BY <2>3 DEF TypeOK, StoreTestTime, Goto, buffer
  <2> QED BY <2>1, <2>2, <2>3
<1>2. OneInside'
  BY FoodAssumption DEF TypeOK, OneInside, Inside, ProducerGate, ProducerGate2, ConsumerGate,
     LoadTestTime, StoreTestTime, Goto, buffer
<1>3. SidesApart'
  BY FoodAssumption DEF TypeOK, SidesApart, ProducerGate, ProducerGate2, ConsumerGate,
     LoadTestTime, StoreTestTime, Goto, buffer, Threads
<1>4. TestStillHolds'
  BY FoodAssumption DEF TypeOK, TestStillHolds, ProducerGate, ProducerGate2, ConsumerGate,
     LoadTestTime, StoreTestTime, Goto, buffer, Threads
<1> QED BY <1>1, <1>2, <1>3, <1>4

(* pthread_mutex_lock, the return from pthread_cond_wait, and unlock.       *)
LEMMA MutexSteps ==
    ASSUME IInv, NEW t \in Threads, NEW cv \in Conds,
           TakesMutex(t, cv) \/ SpuriousWakeup(t, cv) \/ Unlock(t)
    PROVE  IInv'
<1> USE DEF IInv
<1>1. TypeOK'
  BY DEF TypeOK, TakesMutex, Lock, Reacquire, SpuriousWakeup, Unlock, Goto, buffer
<1>2. OneInside'
  BY FoodAssumption DEF TypeOK, OneInside, Inside, TakesMutex, Lock, Reacquire, SpuriousWakeup,
     Unlock, Goto, buffer
<1>3. SidesApart'
  BY FoodAssumption DEF TypeOK, SidesApart, TakesMutex, Lock, Reacquire, SpuriousWakeup,
     Unlock, Goto, buffer, Threads
<1>4. TestStillHolds'
  BY FoodAssumption DEF TypeOK, TestStillHolds, TakesMutex, Lock, Reacquire, SpuriousWakeup,
     Unlock, Goto, buffer, Threads
<1> QED BY <1>1, <1>2, <1>3, <1>4

(* The body of a producer inside the lock.                                  *)
LEMMA ProducerInsideSteps ==
    ASSUME IInv, NEW p \in Producers, NEW full \in Conds, NEW empty \in Conds,
           CheckFull(p, full) \/ Fill(p) \/ Post(p, empty)
    PROVE  IInv'
<1> USE DEF IInv
<1>1. p \in Threads /\ p \notin Consumers
  BY FoodAssumption DEF Threads
<1>2. CASE CheckFull(p, full)
  <2>1. TypeOK'
    <3>1. CASE FallAsleep(p, full)
      BY <1>1, <1>2, <3>1, FoodAssumption DEF TypeOK, CheckFull, FallAsleep, Goto, buffer
    <3>2. CASE UNCHANGED <<mutex, waiting>>
      BY <1>1, <1>2, <3>2, FoodAssumption DEF TypeOK, CheckFull, FallAsleep, Goto, buffer
    <3> QED BY <1>2, <3>1, <3>2 DEF CheckFull
  <2>2. OneInside'
    <3>1. CASE FallAsleep(p, full)
      BY <1>1, <1>2, <3>1, FoodAssumption DEF TypeOK, OneInside, Inside, CheckFull,
         FallAsleep, Goto, buffer
    <3>2. CASE UNCHANGED <<mutex, waiting>>
      BY <1>1, <1>2, <3>2, FoodAssumption DEF TypeOK, OneInside, Inside, CheckFull,
         FallAsleep, Goto, buffer
    <3> QED BY <1>2, <3>1, <3>2 DEF CheckFull
  <2>3. SidesApart'
    BY <1>1, <1>2 DEF TypeOK, SidesApart, CheckFull, FallAsleep, Goto, buffer, Threads
  <2>4. TestStillHolds'
    BY <1>1, <1>2, FoodAssumption DEF TypeOK, TestStillHolds, CheckFull, FallAsleep, Goto,
       buffer, Threads
  <2> QED BY <2>1, <2>2, <2>3, <2>4
<1>3. CASE Fill(p)
  <2>1. TypeOK'
    BY <1>1, <1>3, FoodAssumption DEF TypeOK, TestStillHolds, Fill, Goto
  <2>2. OneInside'
    BY <1>1, <1>3, FoodAssumption DEF TypeOK, OneInside, Inside, Fill, Goto
  <2>3. SidesApart'
    BY <1>1, <1>3 DEF TypeOK, SidesApart, Fill, Goto, Threads
  <2>4. TestStillHolds'
    BY <1>1, <1>3, FoodAssumption DEF TypeOK, OneInside, Inside, TestStillHolds, Fill, Goto, Threads
  <2> QED BY <2>1, <2>2, <2>3, <2>4
<1>4. CASE Post(p, empty)
  <2>1. TypeOK'
    <3>1. waiting' \in [Conds -> SUBSET Threads]
      BY <1>4 DEF TypeOK, Post, Signal
    <3>2. food_num' \in 0 .. FOODNUMMAX
      BY <1>4, FoodAssumption DEF TypeOK, TestStillHolds, Post
    <3> QED BY <3>1, <3>2, <1>1, <1>4 DEF TypeOK, Post, Goto
  <2>2. OneInside'
    BY <1>1, <1>4, FoodAssumption DEF TypeOK, OneInside, Inside, Post, Goto
  <2>3. SidesApart'
    BY <1>1, <1>4 DEF TypeOK, SidesApart, Post, Goto, Threads
  <2>4. TestStillHolds'
    BY <1>1, <1>4, FoodAssumption DEF TypeOK, OneInside, Inside, TestStillHolds, Post, Goto, Threads
  <2> QED BY <2>1, <2>2, <2>3, <2>4
<1> QED BY <1>2, <1>3, <1>4

(* The body of a consumer inside the lock.                                  *)
LEMMA ConsumerInsideSteps ==
    ASSUME IInv, NEW c \in Consumers, NEW full \in Conds, NEW empty \in Conds,
           CheckEmpty(c, empty) \/ Eat(c) \/ Drop(c, full)
    PROVE  IInv'
<1> USE DEF IInv
<1>1. c \in Threads /\ c \notin Producers
  BY FoodAssumption DEF Threads
<1>2. CASE CheckEmpty(c, empty)
  <2>1. TypeOK'
    <3>1. CASE FallAsleep(c, empty)
      BY <1>1, <1>2, <3>1, FoodAssumption DEF TypeOK, CheckEmpty, FallAsleep, Goto, buffer
    <3>2. CASE UNCHANGED <<mutex, waiting>>
      BY <1>1, <1>2, <3>2, FoodAssumption DEF TypeOK, CheckEmpty, FallAsleep, Goto, buffer
    <3> QED BY <1>2, <3>1, <3>2 DEF CheckEmpty
  <2>2. OneInside'
    <3>1. CASE FallAsleep(c, empty)
      BY <1>1, <1>2, <3>1, FoodAssumption DEF TypeOK, OneInside, Inside, CheckEmpty,
         FallAsleep, Goto, buffer
    <3>2. CASE UNCHANGED <<mutex, waiting>>
      BY <1>1, <1>2, <3>2, FoodAssumption DEF TypeOK, OneInside, Inside, CheckEmpty,
         FallAsleep, Goto, buffer
    <3> QED BY <1>2, <3>1, <3>2 DEF CheckEmpty
  <2>3. SidesApart'
    BY <1>1, <1>2 DEF TypeOK, SidesApart, CheckEmpty, FallAsleep, Goto, buffer, Threads
  <2>4. TestStillHolds'
    BY <1>1, <1>2, FoodAssumption DEF TypeOK, TestStillHolds, CheckEmpty, FallAsleep, Goto,
       buffer, Threads
  <2> QED BY <2>1, <2>2, <2>3, <2>4
<1>3. CASE Eat(c)
  <2>1. TypeOK'
    BY <1>1, <1>3, FoodAssumption DEF TypeOK, TestStillHolds, Eat, Goto, buffer
  <2>2. OneInside'
    BY <1>1, <1>3, FoodAssumption DEF TypeOK, OneInside, Inside, Eat, Goto, buffer
  <2>3. SidesApart'
    BY <1>1, <1>3 DEF TypeOK, SidesApart, Eat, Goto, Threads
  <2>4. TestStillHolds'
    BY <1>1, <1>3, FoodAssumption DEF TypeOK, OneInside, Inside, TestStillHolds, Eat, Goto,
       Threads, buffer
  <2> QED BY <2>1, <2>2, <2>3, <2>4
<1>4. CASE Drop(c, full)
  <2>1. TypeOK'
    <3>1. waiting' \in [Conds -> SUBSET Threads]
      BY <1>4 DEF TypeOK, Drop, Signal
    <3>2. food_num' \in 0 .. FOODNUMMAX
      BY <1>4, FoodAssumption DEF TypeOK, TestStillHolds, Drop
    <3> QED BY <3>1, <3>2, <1>1, <1>4 DEF TypeOK, Drop, Goto
  <2>2. OneInside'
    BY <1>1, <1>4, FoodAssumption DEF TypeOK, OneInside, Inside, Drop, Goto
  <2>3. SidesApart'
    BY <1>1, <1>4 DEF TypeOK, SidesApart, Drop, Goto, Threads
  <2>4. TestStillHolds'
    BY <1>1, <1>4, FoodAssumption DEF TypeOK, OneInside, Inside, TestStillHolds, Drop, Goto, Threads
  <2> QED BY <2>1, <2>2, <2>3, <2>4
<1> QED BY <1>2, <1>3, <1>4

LEMMA StutterIInv == IInv /\ UNCHANGED vars => IInv'
BY DEF vars, IInv, TypeOK, OneInside, Inside, SidesApart, TestStillHolds

LEMMA NextIInv == IInv /\ [Next]_vars => IInv'
<1> SUFFICES ASSUME IInv, Next PROVE IInv'
  BY StutterIInv
<1> "cond" \in Conds
  BY DEF Conds
<1>1. CASE \E p \in Producers : produce_food(p)
  BY <1>1, PhaseSteps, MutexSteps, ProducerInsideSteps
  DEF produce_food, ProducerRuns, Threads
<1>2. CASE \E c \in Consumers : consume_food(c)
  BY <1>2, PhaseSteps, MutexSteps, ConsumerInsideSteps
  DEF consume_food, ConsumerRuns, Threads
<1> QED BY <1>1, <1>2 DEF Next

LEMMA Next2IInv == IInv /\ [Next2]_vars => IInv'
<1> SUFFICES ASSUME IInv, Next2 PROVE IInv'
  BY StutterIInv
<1> "cond_full" \in Conds /\ "cond_empty" \in Conds
  BY DEF Conds
<1>1. CASE \E p \in Producers : produce_food2(p)
  BY <1>1, PhaseSteps, MutexSteps, ProducerInsideSteps
  DEF produce_food2, ProducerRuns, Threads
<1>2. CASE \E c \in Consumers : consume_food2(c)
  BY <1>2, PhaseSteps, MutexSteps, ConsumerInsideSteps
  DEF consume_food2, ConsumerRuns, Threads
<1> QED BY <1>1, <1>2 DEF Next2

(* The buffer never overflows or underflows and every variable keeps its    *)
(* type, in the program main starts.                                        *)
THEOREM TypeCorrect == Spec => []TypeOK
<1>1. IInv => TypeOK
  BY DEF IInv
<1> QED BY InitIInv, NextIInv, <1>1, PTL DEF Spec

(* The same for the improved version.                                       *)
THEOREM TypeCorrect2 == Spec2 => []TypeOK
<1>1. IInv => TypeOK
  BY DEF IInv
<1> QED BY InitIInv, Next2IInv, <1>1, PTL DEF Spec2

-----------------------------------------------------------------------------
(* No wakeup is lost in the improved version.                               *)

LEMMA NextOwnCond == IInv /\ OwnCond /\ [Next2]_vars => OwnCond'
<1> SUFFICES ASSUME IInv, OwnCond, [Next2]_vars PROVE OwnCond'
  OBVIOUS
<1> USE FoodAssumption DEF IInv, TypeOK, OwnCond, Conds
<1>1. CASE UNCHANGED vars
  BY <1>1 DEF vars
<1>2. ASSUME NEW p \in Producers, produce_food2(p) PROVE OwnCond'
  <2>1. p \in Threads /\ p \notin Consumers
    BY DEF Threads
  <2>2. CASE ProducerGate(p) \/ ProducerGate2(p) \/ LoadTestTime(p) \/ StoreTestTime(p)
             \/ Fill(p) \/ Unlock(p) \/ Lock(p)
    BY <2>1, <2>2 DEF ProducerGate, ProducerGate2, LoadTestTime, StoreTestTime, Fill,
       Unlock, Lock, Goto
  <2>3. CASE CheckFull(p, "cond_full")
    <3>1. CASE FallAsleep(p, "cond_full")
      BY <2>1, <3>1 DEF FallAsleep, Goto
    <3>2. CASE Goto(p, "fill") /\ UNCHANGED waiting
      BY <2>1, <2>3, <3>2 DEF CheckFull, Goto
    <3> QED BY <2>3, <3>1, <3>2 DEF CheckFull
  <2>4. CASE Post(p, "cond_empty")
    BY <2>1, <2>4 DEF Post, Signal, Goto
  <2>5. CASE Reacquire(p, "cond_full")
    BY <2>1, <2>5 DEF Reacquire, Goto
  <2>6. CASE SpuriousWakeup(p, "cond_full")
    BY <2>1, <2>6 DEF SpuriousWakeup
  <2> QED BY <1>2, <2>2, <2>3, <2>4, <2>5, <2>6 DEF produce_food2, ProducerRuns, TakesMutex
<1>3. ASSUME NEW c \in Consumers, consume_food2(c) PROVE OwnCond'
  <2>1. c \in Threads /\ c \notin Producers
    BY DEF Threads
  <2>2. CASE ConsumerGate(c) \/ LoadTestTime(c) \/ StoreTestTime(c)
             \/ Eat(c) \/ Unlock(c) \/ Lock(c)
    BY <2>1, <2>2 DEF ConsumerGate, LoadTestTime, StoreTestTime, Eat, Unlock, Lock, Goto
  <2>3. CASE CheckEmpty(c, "cond_empty")
    <3>1. CASE FallAsleep(c, "cond_empty")
      BY <2>1, <3>1 DEF FallAsleep, Goto
    <3>2. CASE Goto(c, "eat") /\ UNCHANGED waiting
      BY <2>1, <2>3, <3>2 DEF CheckEmpty, Goto
    <3> QED BY <2>3, <3>1, <3>2 DEF CheckEmpty
  <2>4. CASE Drop(c, "cond_full")
    BY <2>1, <2>4 DEF Drop, Signal, Goto
  <2>5. CASE Reacquire(c, "cond_empty")
    BY <2>1, <2>5 DEF Reacquire, Goto
  <2>6. CASE SpuriousWakeup(c, "cond_empty")
    BY <2>1, <2>6 DEF SpuriousWakeup
  <2> QED BY <1>3, <2>2, <2>3, <2>4, <2>5, <2>6 DEF consume_food2, ConsumerRuns, TakesMutex
<1> QED BY <1>1, <1>2, <1>3 DEF Next2

LEMMA FillingFinite == IsFiniteSet(Filling) /\ IsFiniteSet(Filling')
<1>1. Filling \in SUBSET Producers /\ Filling' \in SUBSET Producers
  BY DEF Filling
<1> QED BY <1>1, FoodAssumption, FS_Subset

LEMMA EmptyingFinite == IsFiniteSet(Emptying) /\ IsFiniteSet(Emptying')
<1>1. Emptying \in SUBSET Consumers /\ Emptying' \in SUBSET Consumers
  BY DEF Emptying
<1> QED BY <1>1, FoodAssumption, FS_Subset

(* A step that leaves food_num alone and takes nobody out of Filling keeps  *)
(* the claims of the producers, and likewise for the consumers.             *)
LEMMA PlacesStayClaimed ==
    ASSUME IInv, PlacesClaimed, food_num' = food_num,
           waiting'["cond_full"] \subseteq waiting["cond_full"],
           Filling \subseteq Filling'
    PROVE  PlacesClaimed'
<1>1. /\ Cardinality(Filling) \in Nat /\ Cardinality(Filling') \in Nat
      /\ Cardinality(Filling) <= Cardinality(Filling')
  BY FillingFinite, FS_Subset, FS_CardinalityType
<1> QED BY <1>1, FoodAssumption DEF PlacesClaimed, IInv, TypeOK

LEMMA FoodsStayClaimed ==
    ASSUME IInv, FoodsClaimed, food_num' = food_num,
           waiting'["cond_empty"] \subseteq waiting["cond_empty"],
           Emptying \subseteq Emptying'
    PROVE  FoodsClaimed'
<1>1. /\ Cardinality(Emptying) \in Nat /\ Cardinality(Emptying') \in Nat
      /\ Cardinality(Emptying) <= Cardinality(Emptying')
  BY EmptyingFinite, FS_Subset, FS_CardinalityType
<1> QED BY <1>1, FoodAssumption DEF FoodsClaimed, IInv, TypeOK

LEMMA ProducerKeepsClaims ==
    ASSUME IInv, OwnCond, WakeupsCoverSlots, NEW p \in Producers, produce_food2(p)
    PROVE  WakeupsCoverSlots'
<1> USE FoodAssumption DEF IInv, TypeOK, WakeupsCoverSlots, Conds
<1>1. p \in Threads /\ p \notin Consumers /\ (\A c \in Consumers : c \in Threads /\ c # p)
  BY DEF Threads
<1>2. CASE ProducerGate(p) \/ ProducerGate2(p) \/ LoadTestTime(p) \/ StoreTestTime(p)
           \/ Fill(p) \/ Unlock(p) \/ Lock(p) \/ Reacquire(p, "cond_full")
           \/ SpuriousWakeup(p, "cond_full")
  <2>1. /\ food_num' = food_num
        /\ waiting'["cond_full"] \subseteq waiting["cond_full"]
        /\ waiting'["cond_empty"] \subseteq waiting["cond_empty"]
    BY <1>2 DEF ProducerGate, ProducerGate2, LoadTestTime, StoreTestTime, Fill, Unlock, Lock,
                Reacquire, SpuriousWakeup, buffer
  <2>2. Filling \subseteq Filling'
    BY <1>1, <1>2 DEF Filling, ProducerGate, ProducerGate2, LoadTestTime, StoreTestTime, Fill,
                      Unlock, Lock, Reacquire, SpuriousWakeup, Goto, Threads
  <2>3. Emptying \subseteq Emptying'
    BY <1>1, <1>2 DEF Emptying, ProducerGate, ProducerGate2, LoadTestTime, StoreTestTime, Fill,
                      Unlock, Lock, Reacquire, SpuriousWakeup, Goto
  <2> QED BY <2>1, <2>2, <2>3, PlacesStayClaimed, FoodsStayClaimed
<1>3. CASE CheckFull(p, "cond_full")
  <2>1. FoodsClaimed'
    <3>1. food_num' = food_num /\ waiting'["cond_empty"] = waiting["cond_empty"]
      BY <1>3 DEF CheckFull, FallAsleep, buffer
    <3>2. Emptying \subseteq Emptying'
      BY <1>1, <1>3, <3>1 DEF Emptying, CheckFull, FallAsleep, Goto
    <3> QED BY <3>1, <3>2, FoodsStayClaimed
  <2>2. PlacesClaimed'
    <3>1. CASE food_num >= FOODNUMMAX
      <4>1. Cardinality(Filling') \in Nat
        BY FillingFinite, FS_CardinalityType
      <4> QED BY <1>3, <3>1, <4>1 DEF CheckFull, PlacesClaimed, buffer
    <3>2. CASE ~(food_num >= FOODNUMMAX)
      <4>1. food_num' = food_num /\ waiting' = waiting /\ Goto(p, "fill")
        BY <1>3, <3>2 DEF CheckFull, buffer
      <4>2. Filling \subseteq Filling'
        BY <1>1, <4>1 DEF Filling, Goto, Threads
      <4> QED BY <4>1, <4>2, PlacesStayClaimed
    <3> QED BY <3>1, <3>2
  <2> QED BY <2>1, <2>2
<1>4. CASE Post(p, "cond_empty")
  <2>1. PlacesClaimed'
    <3>1. p \in Filling /\ Filling' = Filling \ {p}
      BY <1>1, <1>4 DEF Filling, Post, Signal, Goto, Threads, OwnCond
    <3>2. Cardinality(Filling) \in Nat /\ Cardinality(Filling') = Cardinality(Filling) - 1
      BY <3>1, FillingFinite, FS_RemoveElement, FS_CardinalityType
    <3>3. waiting'["cond_full"] = waiting["cond_full"] /\ food_num' = food_num + 1
      BY <1>4 DEF Post, Signal
    <3> QED BY <3>2, <3>3 DEF PlacesClaimed
  <2>2. FoodsClaimed'
    <3>1. CASE waiting["cond_empty"] = {}
      BY <1>4, <3>1 DEF FoodsClaimed, Post, Signal
    <3>2. CASE waiting["cond_empty"] # {}
      <4>1. PICK c \in waiting["cond_empty"] : waiting' = [waiting EXCEPT !["cond_empty"] = @ \ {c}]
        BY <1>4, <3>2 DEF Post, Signal
      <4>2. c \notin Emptying /\ Emptying' = Emptying \cup {c}
        BY <1>1, <1>4, <4>1 DEF Emptying, Post, Goto, OwnCond
      <4>3. Cardinality(Emptying) \in Nat /\ Cardinality(Emptying') = Cardinality(Emptying) + 1
        BY <4>2, EmptyingFinite, FS_AddElement, FS_CardinalityType
      <4>4. food_num' = food_num + 1
        BY <1>4 DEF Post
      <4> QED BY <3>2, <4>3, <4>4 DEF FoodsClaimed
    <3> QED BY <3>1, <3>2
  <2> QED BY <2>1, <2>2
<1> QED BY <1>2, <1>3, <1>4 DEF produce_food2, ProducerRuns, TakesMutex

LEMMA ConsumerKeepsClaims ==
    ASSUME IInv, OwnCond, WakeupsCoverSlots, NEW c \in Consumers, consume_food2(c)
    PROVE  WakeupsCoverSlots'
<1> USE FoodAssumption DEF IInv, TypeOK, WakeupsCoverSlots, Conds
<1>1. c \in Threads /\ c \notin Producers /\ (\A p \in Producers : p \in Threads /\ p # c)
  BY DEF Threads
<1>2. CASE ConsumerGate(c) \/ LoadTestTime(c) \/ StoreTestTime(c)
           \/ Eat(c) \/ Unlock(c) \/ Lock(c) \/ Reacquire(c, "cond_empty")
           \/ SpuriousWakeup(c, "cond_empty")
  <2>1. /\ food_num' = food_num
        /\ waiting'["cond_full"] \subseteq waiting["cond_full"]
        /\ waiting'["cond_empty"] \subseteq waiting["cond_empty"]
    BY <1>2 DEF ConsumerGate, LoadTestTime, StoreTestTime, Eat, Unlock, Lock,
                Reacquire, SpuriousWakeup, buffer
  <2>2. Filling \subseteq Filling'
    BY <1>1, <1>2 DEF Filling, ConsumerGate, LoadTestTime, StoreTestTime, Eat,
                      Unlock, Lock, Reacquire, SpuriousWakeup, Goto
  <2>3. Emptying \subseteq Emptying'
    BY <1>1, <1>2 DEF Emptying, ConsumerGate, LoadTestTime, StoreTestTime, Eat,
                      Unlock, Lock, Reacquire, SpuriousWakeup, Goto, Threads
  <2> QED BY <2>1, <2>2, <2>3, PlacesStayClaimed, FoodsStayClaimed
<1>3. CASE CheckEmpty(c, "cond_empty")
  <2>1. PlacesClaimed'
    <3>1. food_num' = food_num /\ waiting'["cond_full"] = waiting["cond_full"]
      BY <1>3 DEF CheckEmpty, FallAsleep, buffer
    <3>2. Filling \subseteq Filling'
      BY <1>1, <1>3, <3>1 DEF Filling, CheckEmpty, FallAsleep, Goto
    <3> QED BY <3>1, <3>2, PlacesStayClaimed
  <2>2. FoodsClaimed'
    <3>1. CASE food_num <= 0
      <4>1. Cardinality(Emptying') \in Nat
        BY EmptyingFinite, FS_CardinalityType
      <4> QED BY <1>3, <3>1, <4>1 DEF CheckEmpty, FoodsClaimed, buffer
    <3>2. CASE ~(food_num <= 0)
      <4>1. food_num' = food_num /\ waiting' = waiting /\ Goto(c, "eat")
        BY <1>3, <3>2 DEF CheckEmpty, buffer
      <4>2. Emptying \subseteq Emptying'
        BY <1>1, <4>1 DEF Emptying, Goto, Threads
      <4> QED BY <4>1, <4>2, FoodsStayClaimed
    <3> QED BY <3>1, <3>2
  <2> QED BY <2>1, <2>2
<1>4. CASE Drop(c, "cond_full")
  <2>1. FoodsClaimed'
    <3>1. c \in Emptying /\ Emptying' = Emptying \ {c}
      BY <1>1, <1>4 DEF Emptying, Drop, Signal, Goto, Threads, OwnCond
    <3>2. Cardinality(Emptying) \in Nat /\ Cardinality(Emptying') = Cardinality(Emptying) - 1
      BY <3>1, EmptyingFinite, FS_RemoveElement, FS_CardinalityType
    <3>3. waiting'["cond_empty"] = waiting["cond_empty"] /\ food_num' = food_num - 1
      BY <1>4 DEF Drop, Signal
    <3> QED BY <3>2, <3>3 DEF FoodsClaimed
  <2>2. PlacesClaimed'
    <3>1. CASE waiting["cond_full"] = {}
      BY <1>4, <3>1 DEF PlacesClaimed, Drop, Signal
    <3>2. CASE waiting["cond_full"] # {}
      <4>1. PICK p \in waiting["cond_full"] : waiting' = [waiting EXCEPT !["cond_full"] = @ \ {p}]
        BY <1>4, <3>2 DEF Drop, Signal
      <4>2. p \notin Filling /\ Filling' = Filling \cup {p}
        BY <1>1, <1>4, <4>1 DEF Filling, Drop, Goto, OwnCond
      <4>3. Cardinality(Filling) \in Nat /\ Cardinality(Filling') = Cardinality(Filling) + 1
        BY <4>2, FillingFinite, FS_AddElement, FS_CardinalityType
      <4>4. food_num' = food_num - 1
        BY <1>4 DEF Drop
      <4> QED BY <3>2, <4>3, <4>4 DEF PlacesClaimed
    <3> QED BY <3>1, <3>2
  <2> QED BY <2>1, <2>2
<1> QED BY <1>2, <1>3, <1>4 DEF consume_food2, ConsumerRuns, TakesMutex

LEMMA NextKeepsClaims == IInv /\ OwnCond /\ WakeupsCoverSlots /\ [Next2]_vars => WakeupsCoverSlots'
<1>1. WakeupsCoverSlots /\ UNCHANGED vars => WakeupsCoverSlots'
  BY DEF vars, WakeupsCoverSlots, PlacesClaimed, FoodsClaimed, Filling, Emptying
<1> QED BY <1>1, ProducerKeepsClaims, ConsumerKeepsClaims DEF Next2

(* In the improved version one signal per food suffices: while somebody     *)
(* sleeps, every food and every free place is claimed by an awake thread.   *)
THEOREM NoLostWakeup == Spec2 => []WakeupsCoverSlots
<1>1. Init => OwnCond /\ WakeupsCoverSlots
  BY DEF Init, Conds, OwnCond, WakeupsCoverSlots, PlacesClaimed, FoodsClaimed
<1> QED BY InitIInv, Next2IInv, NextOwnCond, NextKeepsClaims, <1>1, PTL DEF Spec2

(* "Improved version, avoids deadlock" (lines 187, 224): true for any       *)
(* buffer size and any number of producers and consumers.                   *)
THEOREM ImprovedNeverAllAsleep == Spec2 => []NotAllAsleep
<1>1. IInv /\ OwnCond /\ WakeupsCoverSlots => NotAllAsleep
  <2> SUFFICES ASSUME IInv, OwnCond, WakeupsCoverSlots, Asleep = Threads PROVE FALSE
    BY DEF NotAllAsleep
  <2>1. Asleep = waiting["cond_full"] \cup waiting["cond_empty"]
    BY DEF Asleep, Conds, OwnCond
  <2>2. waiting["cond_full"] = Producers /\ waiting["cond_empty"] = Consumers
    BY <2>1, FoodAssumption DEF OwnCond, Threads
  <2>3. Filling = {} /\ Emptying = {}
    BY <2>2 DEF Filling, Emptying
  <2>4. FOODNUMMAX - food_num <= 0 /\ food_num <= 0
    BY <2>2, <2>3, FoodAssumption, FS_EmptySet DEF WakeupsCoverSlots, PlacesClaimed, FoodsClaimed
  <2> QED BY <2>4, FoodAssumption DEF IInv, TypeOK
<1>2. Init => OwnCond
  BY DEF Init, Conds, OwnCond
<1> QED BY InitIInv, Next2IInv, NextOwnCond, NoLostWakeup, <1>1, <1>2, PTL DEF Spec2

-----------------------------------------------------------------------------
(* Both programs implement the bounded stack FoodStore.                     *)

(* stored, taken and meal only depend on the buffer and on who is at drop.  *)
LEMMA StoreUntouched ==
    ASSUME UNCHANGED <<food_num, food_arr, meal>>,
           \A c \in Consumers : pc'[c] = "drop" <=> pc[c] = "drop"
    PROVE  UNCHANGED <<stored, meal>>
BY DEF stored, taken

(* The steps outside the critical section, and the two while tests.         *)
LEMMA QuietSteps ==
    ASSUME IInv, NEW t \in Threads, NEW cv \in Conds,
           \/ t \in Producers /\ (ProducerGate(t) \/ ProducerGate2(t) \/ CheckFull(t, cv))
           \/ t \in Consumers /\ (ConsumerGate(t) \/ CheckEmpty(t, cv))
           \/ LoadTestTime(t) \/ StoreTestTime(t)
           \/ TakesMutex(t, cv) \/ SpuriousWakeup(t, cv) \/ Unlock(t)
    PROVE  UNCHANGED <<stored, meal>>
<1>1. UNCHANGED <<food_num, food_arr, meal>>
  BY DEF ProducerGate, ProducerGate2, CheckFull, ConsumerGate, CheckEmpty, LoadTestTime,
         StoreTestTime, TakesMutex, Lock, Reacquire, SpuriousWakeup, Unlock, buffer
<1>2. \/ pc' = pc
      \/ \E place \in {"gate", "gate2", "nap", "inc", "lock", "check", "wait", "fill", "eat"} :
             pc[t] # "drop" /\ pc' = [pc EXCEPT ![t] = place]
  BY DEF ProducerGate, ProducerGate2, CheckFull, FallAsleep, ConsumerGate, CheckEmpty,
         LoadTestTime, StoreTestTime, TakesMutex, Lock, Reacquire, SpuriousWakeup, Unlock, Goto
<1>3. \A c \in Consumers : pc'[c] = "drop" <=> pc[c] = "drop"
  BY <1>2 DEF IInv, TypeOK, Threads
<1> QED BY <1>1, <1>3, StoreUntouched

LEMMA FillKeepsStore ==
    ASSUME IInv, NEW p \in Producers, Fill(p)
    PROVE  UNCHANGED <<stored, meal>>
<1> USE FoodAssumption DEF IInv, TypeOK
<1>1. taken = 0 /\ taken' = 0
  BY DEF taken, Fill, Goto, OneInside, Inside, Threads
<1>2. \A i \in 1 .. food_num : food_arr'[i - 1] = food_arr[i - 1]
  BY DEF Fill, TestStillHolds
<1>3. food_num' = food_num /\ meal' = meal
  BY DEF Fill
<1> QED BY <1>1, <1>2, <1>3 DEF stored

LEMMA PostPuts ==
    ASSUME IInv, NEW p \in Producers, NEW cv \in Conds, Post(p, cv)
    PROVE  Store!Put(product[p])
<1> USE FoodAssumption DEF IInv, TypeOK
<1>1. taken = 0 /\ taken' = 0
  BY DEF taken, Post, Goto, OneInside, Inside, Threads
<1>2. /\ food_num' = food_num + 1 /\ UNCHANGED <<food_arr, meal>>
      /\ food_num < FOODNUMMAX /\ food_arr[food_num] = product[p]
  BY DEF Post, TestStillHolds
<1>3. stored = [i \in 1 .. food_num |-> food_arr[i - 1]]
  BY <1>1 DEF stored
<1>4. stored' = [i \in 1 .. food_num + 1 |-> food_arr[i - 1]]
  BY <1>1, <1>2 DEF stored
<1>5. \A i \in 1 .. food_num : food_arr[i - 1] \in Foods \cup {NoFood}
  BY DEF TypeOK
<1>6. stored \in Seq(Foods \cup {NoFood}) /\ Len(stored) = food_num
  BY <1>3, <1>5
<1>7. stored' = Append(stored, product[p])
  BY <1>2, <1>3, <1>4, <1>6
<1> QED BY <1>2, <1>6, <1>7 DEF Store!Put

LEMMA EatGets ==
    ASSUME IInv, NEW c \in Consumers, Eat(c)
    PROVE  Store!Get(c)
<1> USE FoodAssumption DEF IInv, TypeOK
<1>1. taken = 0 /\ taken' = 1
  BY DEF taken, Eat, Goto, OneInside, Inside, Threads
<1>2. /\ UNCHANGED buffer /\ food_num > 0
      /\ meal' = [meal EXCEPT ![c] = food_arr[food_num - 1]]
  BY DEF Eat, TestStillHolds
<1>3. stored = [i \in 1 .. food_num |-> food_arr[i - 1]]
  BY <1>1 DEF stored
<1>4. stored' = [i \in 1 .. food_num - 1 |-> food_arr[i - 1]]
  BY <1>1, <1>2 DEF stored, buffer
<1>5. \A i \in 1 .. food_num : food_arr[i - 1] \in Foods \cup {NoFood}
  BY DEF TypeOK
<1>6. stored \in Seq(Foods \cup {NoFood}) /\ Len(stored) = food_num
  BY <1>3, <1>5
<1>7. stored' = SubSeq(stored, 1, Len(stored) - 1)
  BY <1>2, <1>3, <1>4, <1>6
<1>8. stored[Len(stored)] = food_arr[food_num - 1]
  BY <1>2, <1>3, <1>6
<1> QED BY <1>2, <1>6, <1>7, <1>8 DEF Store!Get

LEMMA DropKeepsStore ==
    ASSUME IInv, NEW c \in Consumers, NEW cv \in Conds, Drop(c, cv)
    PROVE  UNCHANGED <<stored, meal>>
<1> USE FoodAssumption DEF IInv, TypeOK
<1>1. taken = 1 /\ taken' = 0
  BY DEF taken, Drop, Goto, OneInside, Inside, Threads
<1>2. food_num' = food_num - 1 /\ UNCHANGED <<food_arr, meal>>
  BY DEF Drop
<1> QED BY <1>1, <1>2 DEF stored

LEMMA ProducerStepsStore ==
    ASSUME IInv, NEW p \in Producers, NEW full \in Conds, NEW empty \in Conds,
           ProducerRuns(p, full, empty) \/ TakesMutex(p, full) \/ SpuriousWakeup(p, full)
    PROVE  Store!Next \/ UNCHANGED <<stored, meal>>
<1>1. p \in Threads /\ product[p] \in Foods
  BY DEF Threads, IInv, TypeOK
<1>2. CASE Post(p, empty)
  BY <1>1, <1>2, PostPuts DEF Store!Next
<1>3. CASE Fill(p)
  BY <1>3, FillKeepsStore
<1>4. CASE ~Post(p, empty) /\ ~Fill(p)
  BY <1>1, <1>4, QuietSteps DEF ProducerRuns
<1> QED BY <1>2, <1>3, <1>4

LEMMA ConsumerStepsStore ==
    ASSUME IInv, NEW c \in Consumers, NEW full \in Conds, NEW empty \in Conds,
           ConsumerRuns(c, full, empty) \/ TakesMutex(c, empty) \/ SpuriousWakeup(c, empty)
    PROVE  Store!Next \/ UNCHANGED <<stored, meal>>
<1>1. c \in Threads
  BY DEF Threads
<1>2. CASE Eat(c)
  BY <1>2, EatGets DEF Store!Next
<1>3. CASE Drop(c, full)
  BY <1>3, DropKeepsStore
<1>4. CASE ~Eat(c) /\ ~Drop(c, full)
  BY <1>1, <1>4, QuietSteps DEF ConsumerRuns
<1> QED BY <1>2, <1>3, <1>4

LEMMA InitStore == Init => Store!Init
<1> SUFFICES ASSUME Init PROVE Store!Init
  OBVIOUS
<1>1. taken = 0
  BY FoodAssumption DEF Init, taken, Threads
<1>2. stored = << >>
  BY <1>1 DEF Init, stored
<1> QED BY <1>2 DEF Init, Store!Init

LEMMA StutterStore == UNCHANGED vars => UNCHANGED <<stored, meal>>
BY DEF vars, stored, taken

(* Every step of the program main starts is a Put, a Get or invisible: no   *)
(* food is lost, duplicated or consumed before it is completely stored.     *)
THEOREM BufferIsStore == Spec => ImplementsFoodStore
<1>1. IInv /\ [Next]_vars => [Store!Next]_<<stored, meal>>
  <2> SUFFICES ASSUME IInv, [Next]_vars PROVE Store!Next \/ UNCHANGED <<stored, meal>>
    OBVIOUS
  <2> "cond" \in Conds
    BY DEF Conds
  <2> QED BY StutterStore, ProducerStepsStore, ConsumerStepsStore
          DEF Next, produce_food, consume_food
<1> QED BY InitStore, InitIInv, NextIInv, <1>1, PTL DEF Spec, ImplementsFoodStore, Store!Spec

(* The same for the improved version.                                       *)
THEOREM BufferIsStore2 == Spec2 => ImplementsFoodStore
<1>1. IInv /\ [Next2]_vars => [Store!Next]_<<stored, meal>>
  <2> SUFFICES ASSUME IInv, [Next2]_vars PROVE Store!Next \/ UNCHANGED <<stored, meal>>
    OBVIOUS
  <2> "cond_full" \in Conds /\ "cond_empty" \in Conds
    BY DEF Conds
  <2> QED BY StutterStore, ProducerStepsStore, ConsumerStepsStore
          DEF Next2, produce_food2, consume_food2
<1> QED BY InitStore, InitIInv, Next2IInv, <1>1, PTL DEF Spec2, ImplementsFoodStore, Store!Spec
=============================================================================
