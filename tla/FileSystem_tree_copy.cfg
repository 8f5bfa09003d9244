CONSTANTS
  n1 = n1  n2 = n2  n3 = n3  d1 = d1  d2 = d2
  Names = {n1, n2}
  Data = {d1}
  Empty = Empty
  Directory = Directory
  NumInodes = 6
  NumBlocks = 6
  InodeBlocks = 2
  PageSize = 3
  Offsets = {0}
  Writes <- OneCell
  Lingering = {{}}
  Reserve = 1
  Kinds = {"create","mkdir","write","copy"}
  MaxBlks = 9
SPECIFICATION Spec
INVARIANTS TreeShape WalksAgree
PROPERTY Implements
SYMMETRY NameSymmetry
