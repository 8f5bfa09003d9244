CONSTANTS
  Thread = {m, a, b}
  Main = m
  NoThread = NoThread
  Priorities = {0}
  Nices = {0, 1}
  Ticks = {1}
  MinDelay = 1
  Limit = 2
  Watched = {a}
  Users = {a, b}
  Low = 2
SPECIFICATION FairSpec
INVARIANTS QueueInOrder FairShare
PROPERTIES DistancesKept JoinAfterExit NoStarvation
CHECK_DEADLOCK FALSE
