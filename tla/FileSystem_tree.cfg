CONSTANTS
  n1 = n1  n2 = n2  n3 = n3  d1 = d1  d2 = d2
  Names = {n1, n2}
  Data = {d1}
  Empty = Empty
  Directory = Directory
  NumInodes = 5
  NumBlocks = 4
  InodeBlocks = 2
  PageSize = 2
  Offsets = {0}
  Writes <- OneCell
  Lingering = {{}}
  Reserve = 0
  Kinds = {"create", "mkdir", "remove"}
  MaxBlks = 9
SPECIFICATION Spec
INVARIANTS TypeOK TreeShape
PROPERTY Implements
SYMMETRY NameSymmetry
