------------------------------ MODULE RunTree -------------------------------
(***************************************************************************)
(* The run queue of the fair scheduler: redblacktree.c.  tree is the memory *)
(* of the structure: two sentinels, First above the root and Nil below the  *)
(* leaves, and the allocated nodes.  The C code is written once for each    *)
(* side; here a side is a field name, so that t[side][n] is a child.        *)
(*                                                                         *)
(* rbDelete's repair runs up to First, not up to the root: when the black   *)
(* height shrinks it takes First->right, which is Nil, for the sibling of   *)
(* the root and paints Nil red.  From then on the tree is no red-black tree *)
(* and `prioritary' need not be its leftmost node (KnownDefects).  The     *)
(* actions here stop at that point: see NilIsBlack.                         *)
(***************************************************************************)
EXTENDS Naturals, FiniteSets, Sequences, SequencesExt

CONSTANTS
  Thread,    \* thread descriptors
  Key,       \* values of vruntime, a set of naturals
  Nodes,     \* bound: tree nodes that can be allocated, a set of naturals
  First, Nil,  \* the sentinels
  NoThread, Null  \* null pointers to a thread and to a node

Memory == Nodes \cup {First, Nil}
Sides == {"left", "right"}
Other(side) == IF side = "left" THEN "right" ELSE "left"

VARIABLES tree, vruntime, active
vars == <<tree, vruntime, active>>

rbCreate ==
  [left |-> [n \in Memory |-> Nil], right |-> [n \in Memory |-> Nil],
   parent |-> [n \in Memory |-> Nil], red |-> [n \in Memory |-> FALSE],
   thread |-> [n \in Memory |-> NoThread], prioritary |-> Null]

Set(t, field, n, x) == [t EXCEPT ![field][n] = x]
Paint(t, n, c) == Set(t, "red", n, c)
Allocated(t) == {n \in Nodes : t.thread[n] # NoThread}
Root(t) == t.left[First]

\* Fault: a thread goes behind those with the same key.
compare_Strict(t, vr, a, b) == vr[t.thread[a]] > vr[t.thread[b]]
\* compare: whether the key of node a is not below that of node b.
compare(t, vr, a, b) == vr[t.thread[a]] >= vr[t.thread[b]]

emptyTree(t) == Root(t) = Nil

\* leftRotate for side = "left": the other child of x takes its place.
Rotate(t, x, side) ==
  LET y  == t[Other(side)][x]
      in == t[side][y]
      p  == t.parent[x]
      t1 == Set(t, Other(side), x, in)
      t2 == IF in = Nil THEN t1 ELSE Set(t1, "parent", in, x)
      t3 == Set(t2, "parent", y, p)
      t4 == Set(t3, IF t3.left[p] = x THEN "left" ELSE "right", p, y)
  IN Set(Set(t4, side, y, x), "parent", x, y)

-----------------------------------------------------------------------------
\* The place for z: the last node on the way down from n.
RECURSIVE Place(_, _, _, _, _)
Place(t, vr, z, n, y) ==
  IF n = Nil THEN y
  ELSE Place(t, vr, z, IF compare(t, vr, n, z) THEN t.left[n] ELSE t.right[n], n)

treeInsertHelp(t0, vr, z) ==
  LET y == Place(t0, vr, z, Root(t0), First)
      t == Set(Set(Set(t0, "left", z, Nil), "right", z, Nil), "parent", z, y)
  IN IF y = First \/ compare(t, vr, y, z)
     THEN LET u == Set(t, "left", y, z)
          IN IF y = First \/ u.left[u.prioritary] # Nil
             THEN [u EXCEPT !.prioritary = z] ELSE u
     ELSE Set(t, "right", y, z)

\* The loop of rbTreeInsert: x and its parent are red.
RECURSIVE InsertRepair(_, _)
InsertRepair(t, x) ==
  LET p == t.parent[x]
      g == t.parent[p]
      side == IF p = t.left[g] THEN "left" ELSE "right"
      uncle == t[Other(side)][g]
  IN IF ~t.red[p] THEN t
     ELSE IF t.red[uncle]
     THEN InsertRepair(Paint(Paint(Paint(t, p, FALSE), uncle, FALSE), g, TRUE), g)
     ELSE LET inner == x = t[Other(side)][p]
              u  == IF inner THEN Rotate(t, p, side) ELSE t
              x1 == IF inner THEN p ELSE x
              p1 == u.parent[x1]
              g1 == u.parent[p1]
          IN InsertRepair(Rotate(Paint(Paint(u, p1, FALSE), g1, TRUE), g1, Other(side)), x1)

rbTreeInsert(t, vr, th) ==
  LET z == CHOOSE n \in Nodes \ Allocated(t) : \A m \in Nodes \ Allocated(t) : n <= m
      u == Paint(treeInsertHelp(Set(t, "thread", z, th), vr, z), z, TRUE)
      r == InsertRepair(u, z)
  IN Paint(r, Root(r), FALSE)

-----------------------------------------------------------------------------
\* Fault: the test of the right branch is used on the left as well.
OnlyPaint_Nil(t, s, side) == Nil \in {t.left[s], t.right[s]}
\* Whether the sibling s is only painted: the left branch of dColorBalance asks
\* for two black children, the right branch for one that is Nil.
OnlyPaint(t, s, side) ==
  IF side = "left" THEN ~t.red[t.left[s]] /\ ~t.red[t.right[s]]
  ELSE Nil \in {t.left[s], t.right[s]}

\* The repair after a black node was taken out above n.
RECURSIVE dColorBalance(_, _)
dColorBalance(t, n) ==
  IF n = First \/ t.red[n] THEN Paint(t, n, FALSE)
  ELSE
  LET p == t.parent[n]
      side == IF n = t.left[p] THEN "left" ELSE "right"
      away == Other(side)
      s0 == t[away][p]
      t1 == IF t.red[s0] THEN Rotate(Paint(Paint(t, s0, FALSE), p, TRUE), p, side) ELSE t
      s1 == t1[away][t1.parent[n]]
  IN IF OnlyPaint(t1, s1, side) THEN dColorBalance(Paint(t1, s1, TRUE), t1.parent[n])
     ELSE LET near == ~t1.red[t1[away][s1]]
              t2 == IF near
                    THEN Rotate(Paint(Paint(t1, t1[side][s1], FALSE), s1, TRUE), s1, away)
                    ELSE t1
              q  == t2.parent[n]
              s2 == IF near THEN t2[away][q] ELSE s1
              t3 == Paint(Paint(Paint(t2, s2, t2.red[q]), q, FALSE), t2[away][s2], FALSE)
          IN Paint(Rotate(t3, q, side), First, FALSE)

RECURSIVE Leftmost(_, _)
Leftmost(t, n) == IF t.left[n] = Nil THEN n ELSE Leftmost(t, t.left[n])

rbDelete(t, n) ==
  LET out == IF Nil \in {t.left[n], t.right[n]} THEN n ELSE Leftmost(t, t.right[n])
      kid == IF t.left[out] # Nil THEN t.left[out] ELSE t.right[out]
      p   == t.parent[out]
      t1  == Set(Set(t, "parent", kid, p), IF out = t.left[p] THEN "left" ELSE "right", p, kid)
      t2  == IF out # n THEN Set(t1, "thread", n, t.thread[out]) ELSE t1
      t3  == IF ~t.red[out] THEN dColorBalance(t2, kid) ELSE t2
      free(u) == Paint(Set(Set(Set(Set(u, "thread", out, NoThread), "left", out, Nil),
                               "right", out, Nil), "parent", out, Nil), out, FALSE)
  IN free(t3)

\* Fault: the right child is passed over.
Successor_Parent(t) == IF t.parent[t.prioritary] # First THEN t.parent[t.prioritary] ELSE Nil
\* treeRemove: prioritary moves on by the links of its node alone.
Successor(t) ==
  LET n == t.prioritary
  IN IF t.right[n] # Nil THEN t.right[n]
     ELSE IF t.parent[n] \notin {First, Nil} THEN t.parent[n] ELSE Nil
Taken(t) == t.thread[t.prioritary]
treeRemove(t) ==
  LET u == [t EXCEPT !.prioritary = Successor(t)]
  IN IF t.prioritary = Nil THEN u ELSE rbDelete(u, t.prioritary)

\* Fault: the way down does not depend on the key.
rbSearch_Right(t, vr, n, th) == IF n = Nil \/ t.thread[n] = th THEN n ELSE t.right[n]
\* By thread, but the way down is chosen by the virtual run time.
RECURSIVE rbSearch(_, _, _, _)
rbSearch(t, vr, n, th) ==
  IF n = Nil \/ t.thread[n] = th THEN n
  ELSE rbSearch(t, vr, IF vr[th] < vr[t.thread[n]] THEN t.left[n] ELSE t.right[n], th)

\* inorder, inorderDec, inorderDump: the threads from left to right.
RECURSIVE InOrder(_, _)
InOrder(t, n) ==
  IF n = Nil THEN <<>>
  ELSE InOrder(t, t.left[n]) \o <<t.thread[n]>> \o InOrder(t, t.right[n])
Threads(t) == InOrder(t, Root(t))
-----------------------------------------------------------------------------
\* Bound: the run ends where Nil is first painted, in particular where the
\* tree becomes empty again.
NilIsBlack(t) == ~t.red[Nil]

Init == /\ tree = rbCreate
        /\ active \in Thread
        /\ vruntime = [t \in Thread |-> 0]

\* sthread_user_create, and wherever else a thread is made runnable.
Add(t, v) ==
  /\ NilIsBlack(tree)
  /\ Allocated(tree) # Nodes
  /\ t # active /\ \A n \in Nodes : tree.thread[n] # t
  /\ vruntime' = [vruntime EXCEPT ![t] = v]
  /\ tree' = rbTreeInsert(tree, vruntime', t)
  /\ UNCHANGED active

\* sthread_user_yield, after the dispatcher's UpdtVruntime.
Yield(v) ==
  /\ NilIsBlack(tree) /\ ~emptyTree(tree)
  /\ vruntime' = [vruntime EXCEPT ![active] = v]
  /\ active' = Taken(tree)
  /\ LET u == treeRemove(tree)
     IN /\ NilIsBlack(u)
        /\ tree' = rbTreeInsert(u, vruntime', active)

\* sthread_user_exit, sthread_user_sleep, and wherever else the active thread stops.
Block ==
  /\ NilIsBlack(tree) /\ ~emptyTree(tree)
  /\ tree' = treeRemove(tree)
  /\ NilIsBlack(tree')
  /\ active' = Taken(tree)
  /\ UNCHANGED vruntime

Next == \/ \E t \in Thread, v \in Key : Add(t, v)
        \/ \E v \in Key : v >= vruntime[active] /\ Yield(v)
        \/ Block
Spec == Init /\ [][Next]_vars
-----------------------------------------------------------------------------
\* The types of the structure; every link is to memory that is allocated.
TypeOK ==
  LET live == Allocated(tree) \cup {First, Nil}
  IN /\ \A s \in Sides \cup {"parent"} : tree[s] \in [Memory -> Memory]
     /\ \A n \in live, s \in Sides : tree[s][n] \in live
     /\ \A n \in Allocated(tree) : tree.parent[n] \in live
     /\ tree.red \in [Memory -> BOOLEAN]
     /\ tree.prioritary \in live \cup {Null}
     /\ active \in Thread /\ vruntime \in [Thread -> Key]

\* Number of black nodes on the way to each Nil below n.
RECURSIVE Heights(_, _)
Heights(t, n) ==
  IF n = Nil THEN {0}
  ELSE {h + (IF t.red[n] THEN 0 ELSE 1) : h \in Heights(t, t.left[n]) \cup Heights(t, t.right[n])}

\* rbDelete and rbTreeInsert keep the tree red-black: no red node has a red
\* child, every way down has as many black nodes, the links up and down agree,
\* and none of them is to memory that was freed.  The right branch of dColorBalance paints in cases where the left
\* one rotates, and Successor relies on the balance.
RedBlack ==
  /\ TypeOK
  /\ Cardinality(Heights(tree, Root(tree))) = 1
  /\ \A n \in Allocated(tree), s \in Sides :
       LET c == tree[s][n] IN c # Nil => tree.parent[c] = n /\ ~(tree.red[n] /\ tree.red[c])

\* `prioritary', which treeInsertHelp and treeRemove move by local rules,
\* is the node on the left, the one treeRemove says it removes.
PrioritaryIsLeftmost ==
  ~emptyTree(tree) => tree.prioritary = Leftmost(tree, Root(tree))

\* A thread whose virtual run time no other runnable thread has is found by
\* rbSearch, on which sthread_user_join relies; rotations and the copying of
\* a thread from node to node in rbDelete do not hide it.
SearchFinds ==
  LET runnable == ToSet(Threads(tree))
  IN \A th \in runnable :
       (\A u \in runnable \ {th} : vruntime[u] # vruntime[th])
         => LET n == rbSearch(tree, vruntime, Root(tree), th) IN n # Nil /\ tree.thread[n] = th

\* The tree is a queue in the order of virtual run time.
Queue == INSTANCE RunQueue WITH queue <- Threads(tree)
\* treeRemove gives the thread that is first in that order, and every other
\* thread stays, in its place.
Implements == Queue!Spec
=============================================================================
