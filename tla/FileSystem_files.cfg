CONSTANTS
  n1 = n1  n2 = n2  n3 = n3  d1 = d1  d2 = d2
  Names = {n1, n2}
  Data = {d1, d2}
  Empty = Empty
  Directory = Directory
  NumInodes = 5
  NumBlocks = 5
  InodeBlocks = 2
  PageSize = 3
  Offsets = {0, 1}
  Writes <- OneCell
  Lingering = {{}, {1, 2, 3, 4}}
  Reserve = 1
  Kinds = {"create", "write", "remove", "copy"}
  MaxBlks = 9
SPECIFICATION Spec
INVARIANT BlocksOwned
PROPERTY Implements
SYMMETRY NameSymmetry
