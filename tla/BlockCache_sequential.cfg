SPECIFICATION Spec
CONSTANTS
  Workers = {w1}
  Blocks = {b1, b2, b3}
  NoBlock = noblock
  Values = {zero, v1}
  Zero = zero
  Unset = unset
  CacheSize = 2
  AgeR = 1
  AgeWB = 2
  AgeReset = 2
  AgerPreempts = FALSE
  Kinds = {"read", "write", "free", "swap"}
SYMMETRY Symmetry
INVARIANTS TypeOK UniqueSlot CleanMatchesDisk
PROPERTY Implements
VIEW WithoutStored
