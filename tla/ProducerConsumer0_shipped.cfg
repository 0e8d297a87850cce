CONSTANTS
  PRODUCERNUM = 3
  CONSUMERNUM = 1
  FOODNUMMAX = 5
  OnePlace = TRUE

SPECIFICATION Spec
INVARIANT ProductsAsOrdered
