SPECIFICATION Spec
CONSTANTS
  Thread = {t1, t2, t3, t4, t5, t6, t7}
  Key = {0, 1, 2}
  Nodes = {1, 2, 3, 4, 5, 6}
  First = First
  Nil = Nil
  NoThread = NoThread
  Null = Null
VIEW UpToNames
INVARIANTS RedBlack PrioritaryIsLeftmost SearchFinds
PROPERTY Implements
CHECK_DEADLOCK FALSE
