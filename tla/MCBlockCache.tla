---------------------------- MODULE MCBlockCache ----------------------------
(* Model-checking instance of BlockCache.  Blocks are only compared, and so *)
(* are the values other than Zero: both are symmetric, and so are workers.  *)
EXTENDS BlockCache, TLC, KnownDefects

Symmetry ==
  Permutations(Workers) \cup Permutations(Blocks) \cup Permutations(Values \ {Zero})

\* The state without stored, a history that no guard and no other variable
\* depends on: the view of a run that does not ask about it.
WithoutStored == <<disk, slot, op, age, unreliable, result>>
=============================================================================
