----------------------------- MODULE MCRunTree ------------------------------
(* RunTree for TLC. *)
EXTENDS RunTree

\* Threads that are neither runnable nor active are interchangeable: what a
\* state is, up to the names of the threads.
KeyOf(n) == IF tree.thread[n] = NoThread THEN NoThread ELSE vruntime[tree.thread[n]]
UpToNames ==
  <<tree.left, tree.right, [n \in Nodes |-> tree.parent[n]], tree.red, tree.prioritary,
    [n \in Nodes |-> KeyOf(n)], vruntime[active]>>
=============================================================================
