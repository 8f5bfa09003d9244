SPECIFICATION FairSpec
CONSTANTS
  Workers = {w1, w2}
  Blocks = {b1, b2}
  NoBlock = noblock
  Values = {zero}
  Zero = zero
  Unset = unset
  CacheSize = 1
  AgeR = 1
  AgeWB = 2
  AgeReset = 2
  AgerPreempts = TRUE
  Kinds = {"read", "write"}

PROPERTY EveryOperationEnds
