CONSTANTS
  n1 = n1  n2 = n2  n3 = n3  d1 = d1  d2 = d2
  Names = {n1, n2}
  Data = {d1, d2}
  Empty = Empty
  Directory = Directory
  NumInodes = 4
  NumBlocks = 5
  InodeBlocks = 2
  PageSize = 2
  Offsets = {0, 1, 2}
  Writes <- PairOrOne
  Lingering = {{}}
  Reserve = 0
  Kinds = {"create", "write", "remove", "append", "defrag"}
  MaxBlks = 9
SPECIFICATION Spec
INVARIANT BlocksOwned
PROPERTY Implements
SYMMETRY NameSymmetry
