SPECIFICATION FairSpec
CONSTANTS
  Consumers = {c1, c2}
  Producer = prod
  NoThread = none
  RingSize = 2
  MaxRequests = 5
  MaxZero = 1
  MaxSpurious = 1
INVARIANTS TypeOK MonitorDiscipline NoOverwrite NoLostWakeup ExactlyOnce
PROPERTIES Implements EveryRequestAnswered
