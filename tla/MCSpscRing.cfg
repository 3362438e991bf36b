CONSTANTS
  p1 = p1
  p2 = p2
  q1 = q1
  q2 = q2
  Producers <- TwoProducers
  Poppers <- TwoPoppers
  Uses <- ThreeUses
  RingCapacity = 2
  MaxPush = 4
  Nil = Nil
SPECIFICATION RingFairSpec
INVARIANTS Fifo SlotsSettle
PROPERTY CallsReturn
