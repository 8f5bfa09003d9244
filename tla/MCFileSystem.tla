---------------------------- MODULE MCFileSystem ----------------------------
(* Bounded instances of FileSystem. *)
EXTENDS FileSystem, TLC

CONSTANTS n1, n2, n3, d1, d2

NameSymmetry == Permutations(Names) \cup Permutations(Data)

\* What may be written: one cell, or two.
OneCell == {<<d>> : d \in Data}
PairOrOne == OneCell \cup {<<d, e>> : d, e \in Data}
=============================================================================
