CONSTANTS
  Producers = {p1, p2}
  Consumers = {c1, c2}
  Foods = {Hamberger}
  FOODNUMMAX = 4
  Phase1 = 1
  Phase2 = 2
  NoFood = NoFood
  Nobody = Nobody

SPECIFICATION EitherFairSpec
INVARIANTS TypeOK NotAllAsleep WakeupsCoverSlots
PROPERTIES ImplementsFoodStore PhasesEnd ConsumersServed
