CONSTANTS
  user = user  admin = admin
  nameD = nameD  nameF = nameF  cell = cell
  Clients = {user, admin}
  Names = {nameD, nameF}
  Data = {cell}
  Empty = Empty
  Directory = Directory
  NumInodes = 4
  NumBlocks = 4
  InodeBlocks = 2
  PageSize = 4
  MaxData = 1
  MaxEntries = 2
  Does <- ClientDoes
  Paths <- ClientPaths
  Pairs <- ClientPairs
  Buffers <- ClientBuffers
  Counts = {2}
  MaxOpen = 1
  Budget <- ClientBudget
  MaxOffset = 2
  Word = 16
  MaxBlks = 9
SPECIFICATION FairSpec
INVARIANTS TypeOK
PROPERTIES CallsDoWhatTheySay SizesHold CallsEnd
VIEW WithoutAnswers
CHECK_DEADLOCK FALSE
