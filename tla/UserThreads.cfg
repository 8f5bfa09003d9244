CONSTANTS
  Thread = {m, a, b, c}
  Main = m
  NoThread = NoThread
  Watched = {a}
  Ticks = {1, 2}
SPECIFICATION FairSpec
INVARIANTS TypeOK OnePlace Exclusion JoinAfterExit
PROPERTY Progress
