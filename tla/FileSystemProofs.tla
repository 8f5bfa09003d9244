-------------------------- MODULE FileSystemProofs --------------------------
(***************************************************************************)
(* Proofs about FileSystem: what defragmentation, copying and the walks of   *)
(* the disk usage report do, the invariant, the theorems, and the refinement *)
(* of Namespace.                                                             *)
(*                                                                          *)
(* FsTree writes the recursion as functions of the depth left.  The lemmas  *)
(* about them state, at each depth, that the function is the one its        *)
(* equation describes, and go up from depth 0 with BoundedInduction.         *)
(*                                                                          *)
(* A tree presents a state when its paths are those that lead from the root *)
(* to an inode, each to what a client sees of the inode (Presents).  What an *)
(* operation leaves alone is put as Retains (FsLemmas); the tree after it    *)
(* then has the paths of the tree before, and new paths to new inodes        *)
(* (Spread), and one lemma an operation says which step of Namespace this is. *)
(***************************************************************************)
EXTENDS FileSystem, FsLemmas

-----------------------------------------------------------------------------
(* Defragmentation.  Gather and fs_defrag repeat the swap of FsLemmas; the  *)
(* counters i and j of fs_defrag stay within the blocks because the inodes   *)
(* it is done with keep to the blocks below j (Packed), so that the next one *)
(* finds room from j on (OwnerFits).                                         *)

\* Tidy is transitive.
LEMMA TidyTransitive ==
  ASSUME NEW s, NEW t, NEW u, Tidy(s, t), Tidy(t, u)
  PROVE  Tidy(s, u)
<1>1. Retains(s, u, {})
  BY RetainsTransitive DEF Tidy
<1> QED BY <1>1 DEF Tidy

\* An inode with a block below j has all its blocks below j.
Packed(s, j) ==
  \A f \in InUse(s), k \in 0 .. InodeBlocks, m \in 0 .. InodeBlocks :
    s.itab[f].blocks[k] \in 1 .. j - 1 /\ s.itab[f].blocks[m] # NoBlk => s.itab[f].blocks[m] \in 1 .. j - 1

\* The first n of the len blocks of owner, none of them below j, are at j and after it.
Gathered(s, owner, j, len, n) ==
  \A k \in 0 .. InodeBlocks :
    /\ s.itab[owner].blocks[k] # NoBlk <=> k < len
    /\ k < len => s.itab[owner].blocks[k] >= j
    /\ k < len /\ k < n => s.itab[owner].blocks[k] = j + k

\* Where the blocks of an inode may go: there is room for them from j on.
Fits(owner, j, len) ==
  owner \in Itab /\ j \in Nat /\ j > 0 /\ len \in 0 .. InodeBlocks /\ j + len <= NumBlocks

\* An exchange of a block of the owner, at or after j, with the place it goes to.
LEMMA ExchangeGathers ==
  ASSUME NEW owner, NEW j, NEW len, Fits(owner, j, len), NEW n \in 1 .. InodeBlocks, n <= len,
         NEW s, Sound(s), Alone(s), owner \in InUse(s), Packed(s, j), Gathered(s, owner, j, len, n - 1),
         NEW src, src = s.itab[owner].blocks[n - 1], NEW dst, dst = j + n - 1, src # dst,
         NEW t, Exchanged(s, t, src, dst), InUse(t) = InUse(s)
  PROVE  Packed(t, j) /\ Gathered(t, owner, j, len, n)
<1>0. /\ InUse(s) \subseteq Itab /\ InodeBlocks \in Nat /\ NoBlk = 0 /\ BlockNos \subseteq Nat
      /\ j \in Nat /\ j > 0 /\ len \in Nat /\ n \in Nat
  BY StateType, Constants, SMTT(40) DEF Sound, Formed, InUse, Fits
<1>1. \A f \in Itab, k \in 0 .. InodeBlocks : s.itab[f].blocks[k] \in Nat
  BY <1>0, BlockFacts
<1>2. n - 1 \in 0 .. InodeBlocks /\ n - 1 < len
  BY <1>0
<1>3. src \in Nat /\ src >= j /\ dst \in Nat /\ dst >= j /\ src # NoBlk
  BY <1>0, <1>1, <1>2 DEF Gathered
<1>4. \A f \in Itab, k \in 0 .. InodeBlocks : t.itab[f].blocks[k] = Exchange(src, dst, s.itab[f].blocks[k])
  BY DEF Exchanged
<1>5. \A c \in Nat : /\ Exchange(src, dst, c) \in 1 .. j - 1 <=> c \in 1 .. j - 1
                     /\ c \in 1 .. j - 1 => Exchange(src, dst, c) = c
                     /\ Exchange(src, dst, c) = NoBlk <=> c = NoBlk
                     /\ c >= j => Exchange(src, dst, c) >= j
  BY <1>0, <1>3 DEF Exchange
<1>6. Packed(t, j)
  <2> SUFFICES ASSUME NEW f \in InUse(s), NEW k \in 0 .. InodeBlocks, NEW m \in 0 .. InodeBlocks,
                      t.itab[f].blocks[k] \in 1 .. j - 1, t.itab[f].blocks[m] # NoBlk
               PROVE  t.itab[f].blocks[m] \in 1 .. j - 1
    BY DEF Packed
  <2>1. f \in Itab
    BY <1>0
  <2>2. s.itab[f].blocks[k] \in 1 .. j - 1 /\ s.itab[f].blocks[m] # NoBlk
    BY <2>1, <1>1, <1>4, <1>5
  <2>3. s.itab[f].blocks[m] \in 1 .. j - 1
    BY <2>2 DEF Packed
  <2> QED BY <2>1, <2>3, <1>1, <1>4, <1>5
<1>7. Gathered(t, owner, j, len, n)
  <2> SUFFICES ASSUME NEW k \in 0 .. InodeBlocks
               PROVE  /\ t.itab[owner].blocks[k] # NoBlk <=> k < len
                      /\ k < len => t.itab[owner].blocks[k] >= j
                      /\ k < len /\ k < n => t.itab[owner].blocks[k] = j + k
    BY DEF Gathered
  <2> DEFINE c == s.itab[owner].blocks[k]
  <2>1. owner \in Itab /\ c \in Nat /\ t.itab[owner].blocks[k] = Exchange(src, dst, c)
    BY <1>0, <1>1, <1>4
  <2>2. /\ c # NoBlk <=> k < len
        /\ k < len => c >= j
        /\ k < len /\ k < n - 1 => c = j + k
    BY DEF Gathered
  <2>3. c = src => k = n - 1
    BY <2>1, <1>2, <1>3, PlaceIs
  <2>4. k = n - 1 => c = src
    OBVIOUS
  <2> HIDE DEF c
  <2>5. /\ Exchange(src, dst, c) # NoBlk <=> k < len
        /\ k < len => Exchange(src, dst, c) >= j
    BY <2>1, <2>2, <1>5
  <2>6. k < len /\ k < n => Exchange(src, dst, c) = j + k
    <3> SUFFICES ASSUME k < len, k < n PROVE Exchange(src, dst, c) = j + k
      OBVIOUS
    <3>1. k \in Nat
      BY <1>0
    <3>2. CASE k = n - 1
      BY <3>2, <2>4, <1>0 DEF Exchange
    <3>3. CASE k # n - 1
      <4>1. k < n - 1 /\ c = j + k
        BY <3>1, <3>3, <2>2, <1>0
      <4>2. c # src /\ c # dst
        BY <4>1, <3>1, <3>3, <2>3, <1>0
      <4> QED BY <4>1, <4>2 DEF Exchange
    <3> QED BY <3>2, <3>3
  <2> QED BY <2>1, <2>5, <2>6
<1> QED BY <1>6, <1>7

\* What a gathering that is sane so far has come to.
Gathering(g, t, owner, j, len, n) ==
  Tidy(g, t.fs) /\ Packed(t.fs, j) /\ Gathered(t.fs, owner, j, len, n)

\* The loop of Gather.
GatherStep(t, owner, j, n) ==
  IF n > ChainLength(t.fs.itab[owner].blocks) \/ t.fs.itab[owner].blocks[n - 1] = j + n - 1 THEN t
  ELSE swap(t, owner, t.fs.itab[owner].blocks[n - 1], j + n - 1)

\* A step keeps the shape; if it is sane it gathers another block.
LEMMA GatherStepKeeps ==
  ASSUME NEW g, NEW owner, NEW j, NEW len, NEW n \in 1 .. InodeBlocks,
         NEW t, Shape(t), NEW r, r = GatherStep(t, owner, j, n)
  PROVE  /\ Shape(r) /\ (r.sane => t.sane)
         /\ r.sane /\ owner \in InUse(g) /\ Fits(owner, j, len) /\ Gathering(g, t, owner, j, len, n - 1)
            => Gathering(g, r, owner, j, len, n)
<1> DEFINE chain == t.fs.itab[owner].blocks
           stays == n > ChainLength(chain) \/ chain[n - 1] = j + n - 1
<1>0. r = IF stays THEN t ELSE swap(t, owner, chain[n - 1], j + n - 1)
  BY DEF GatherStep
<1> HIDE DEF chain, stays
<1>1. Shape(r) /\ (r.sane => t.sane)
  <2>1. CASE stays
    BY <2>1, <1>0
  <2>2. CASE ~ stays
    <3>1. r = swap(t, owner, chain[n - 1], j + n - 1)
      BY <2>2, <1>0
    <3> QED BY <3>1, SwapShape
  <2> QED BY <2>1, <2>2
<1>2. ASSUME r.sane, owner \in InUse(g), Fits(owner, j, len), Gathering(g, t, owner, j, len, n - 1)
      PROVE  Gathering(g, r, owner, j, len, n)
  <2>0. /\ Tidy(g, t.fs) /\ Packed(t.fs, j) /\ Gathered(t.fs, owner, j, len, n - 1)
        /\ Sound(t.fs) /\ Alone(t.fs) /\ owner \in InUse(t.fs) /\ Formed(t.fs) /\ Backed(t.fs)
    BY <1>2 DEF Gathering, Tidy, Sound
  <2>1. /\ owner \in Itab /\ j \in Nat /\ j > 0 /\ len \in 0 .. InodeBlocks /\ j + len <= NumBlocks
        /\ InodeBlocks \in Nat /\ NumBlocks \in Nat /\ n - 1 \in 0 .. InodeBlocks
    BY <1>2, Constants DEF Fits
  <2>2. \A k \in 0 .. InodeBlocks : chain[k] # NoBlk <=> k < len
    BY <2>0 DEF Gathered, chain
  <2>3. ChainLength(chain) = len
    <3> DEFINE m == ChainLength(chain)
    <3>1. m \in 0 .. InodeBlocks /\ \A k \in 0 .. InodeBlocks : chain[k] # NoBlk <=> k < m
      BY <2>0, <2>1, ChainIs DEF chain
    <3> HIDE DEF m
    <3>2. ~ (m < len) /\ ~ (len < m)
      BY <3>1, <2>1, <2>2
    <3>3. m = len
      BY <3>1, <3>2, <2>1
    <3> QED BY <3>3 DEF m
  <2>4. CASE stays
    <3>1. r = t
      BY <2>4, <1>0
    <3>2. Gathered(t.fs, owner, j, len, n)
      <4> SUFFICES ASSUME NEW k \in 0 .. InodeBlocks, k < len, k < n
                   PROVE  t.fs.itab[owner].blocks[k] = j + k
        BY <2>0 DEF Gathered
      <4>1. CASE k < n - 1
        BY <4>1, <2>0 DEF Gathered
      <4>2. CASE k = n - 1
        <5>1. ~ (n > ChainLength(chain))
          BY <4>2, <2>1, <2>3
        <5>2. chain[n - 1] = j + n - 1
          BY <5>1, <2>4 DEF stays
        <5>3. j + n - 1 = j + k
          BY <4>2, <2>1
        <5> QED BY <5>2, <5>3, <4>2 DEF chain
      <4> QED BY <4>1, <4>2, <2>1
    <3> QED BY <3>1, <3>2, <2>0 DEF Gathering
  <2>5. CASE ~ stays
    <3> SUFFICES ASSUME NEW src, src = chain[n - 1], NEW dst, dst = j + n - 1
                 PROVE  Gathering(g, r, owner, j, len, n)
      OBVIOUS
    <3>1. r = swap(t, owner, src, dst)
      BY <2>5, <1>0
    <3>2. n <= len /\ src # dst
      BY <2>1, <2>3, <2>5 DEF stays
    <3>3. src # NoBlk /\ src = t.fs.itab[owner].blocks[n - 1]
      BY <3>2, <2>1, <2>2 DEF chain
    <3>4. src \in BlockNos \ {NoBlk}
      BY <3>3, <2>0, <2>1, BlockFacts
    <3>5. dst \in BlockNos \ {NoBlk, src}
      BY <3>2, <2>1, Constants DEF BlockNos
    <3>6. Exchanged(t.fs, r.fs, src, dst)
      BY <3>1, <3>3, <3>5, <2>0, <2>1, <1>2, SaneSwap
    <3>7. Tidy(t.fs, r.fs)
      <4>1. Renamed(t.fs, r.fs)
        BY <3>4, <3>5, <3>6, <2>0, ExchangedIsRenamed
      <4> QED BY <4>1, <2>0, RenamedKeeps
    <3>8. InUse(r.fs) = InUse(t.fs)
      BY <3>7 DEF Tidy
    <3>9. Packed(r.fs, j) /\ Gathered(r.fs, owner, j, len, n)
      BY <3>2, <3>3, <3>6, <3>8, <2>0, <1>2, ExchangeGathers
    <3>10. Tidy(g, r.fs)
      BY <3>7, <2>0, TidyTransitive
    <3> QED BY <3>9, <3>10 DEF Gathering
  <2> QED BY <2>4, <2>5
<1> QED BY <1>1, <1>2

\* The recursion of Gather has a solution.
GathersUpTo(u, s, owner, j) ==
  u = [n \in 0 .. InodeBlocks |-> IF n = 0 THEN s ELSE GatherStep(u[n - 1], owner, j, n)]

\* Gather, as a function of the blocks looked at.
LEMMA GatherIs ==
  ASSUME NEW s, NEW owner, NEW j
  PROVE  \E u : GathersUpTo(u, s, owner, j) /\ Gather(s, owner, j) = u[InodeBlocks]
<1> DEFINE N == InodeBlocks
           Good(u, m) == /\ DOMAIN u = 0 .. N /\ u[0] = s
                         /\ \A n \in 1 .. m : u[n] = GatherStep(u[n - 1], owner, j, n)
           T == {m \in 0 .. N : \E u : Good(u, m)}
<1>0. N \in Nat
  BY Constants
<1>1. 0 \in T
  <2>1. Good([n \in 0 .. N |-> s], 0)
    BY <1>0
  <2>2. \E h : Good(h, 0)
    BY <2>1
  <2>3. 0 \in 0 .. N
    BY <1>0
  <2> HIDE DEF Good
  <2> QED BY <2>2, <2>3
<1> HIDE DEF N
<1>2. \A m \in 1 .. N : m - 1 \in T => m \in T
  <2> SUFFICES ASSUME NEW m \in 1 .. N, m - 1 \in T PROVE m \in T
    OBVIOUS
  <2>0. m \in 0 .. N
    BY <1>0
  <2>1. PICK u : Good(u, m - 1)
    OBVIOUS
  <2> DEFINE v == GatherStep(u[m - 1], owner, j, m)
             w == [n \in 0 .. N |-> IF n = m THEN v ELSE u[n]]
  <2>2. Good(w, m)
    <3>1. DOMAIN w = 0 .. N /\ w[0] = s
      BY <2>1, <1>0
    <3>2. ASSUME NEW n \in 1 .. m PROVE w[n] = GatherStep(w[n - 1], owner, j, n)
      <4>1. n \in 0 .. N /\ n - 1 \in 0 .. N /\ n - 1 # m
        BY <1>0
      <4>2. CASE n = m
        <5>1. w[n] = v /\ w[n - 1] = u[n - 1]
          BY <4>1, <4>2
        <5> HIDE DEF w
        <5> QED BY <5>1, <4>2
      <4>3. CASE n # m
        <5>1. w[n] = u[n] /\ w[n - 1] = u[n - 1] /\ n \in 1 .. m - 1
          BY <4>1, <4>3
        <5> HIDE DEF w
        <5> QED BY <5>1, <2>1
      <4> QED BY <4>2, <4>3
    <3> QED BY <3>1, <3>2
  <2>3. \E h : Good(h, m)
    BY <2>2
  <2> HIDE DEF Good, w
  <2> QED BY <2>0, <2>3
<1>3. \E u : Good(u, N)
  <2> HIDE DEF T
  <2>1. \A n \in 0 .. N : n \in T
    BY <1>0, <1>1, <1>2, BoundedInduction
  <2>2. N \in T
    BY <2>1, <1>0
  <2> QED BY <2>2 DEF T
<1>4. PICK u : Good(u, N)
  BY <1>3
<1> DEFINE w == [n \in 0 .. N |-> u[n]]
<1>5. GathersUpTo(w, s, owner, j)
  <2>1. ASSUME NEW n \in 0 .. N
        PROVE  w[n] = IF n = 0 THEN s ELSE GatherStep(w[n - 1], owner, j, n)
    <3>1. CASE n = 0
      BY <3>1, <1>4
    <3>2. CASE n # 0
      <4>1. n \in 1 .. N /\ n - 1 \in 0 .. N
        BY <3>2, <1>0
      <4>2. u[n] = GatherStep(u[n - 1], owner, j, n)
        BY <4>1, <1>4
      <4> QED BY <4>1, <4>2, <3>2
    <3> QED BY <3>1, <3>2
  <2>2. w = [n \in 0 .. N |-> w[n]]
    OBVIOUS
  <2> HIDE DEF w
  <2> QED BY <2>1, <2>2 DEF GathersUpTo, N
<1> DEFINE U == CHOOSE h : GathersUpTo(h, s, owner, j)
<1>6. GathersUpTo(U, s, owner, j)
  <2> HIDE DEF w
  <2> QED BY <1>5
<1>7. Gather(s, owner, j) = U[InodeBlocks]
  BY DEF Gather, GathersUpTo, GatherStep
<1> QED BY <1>6, <1>7

\* Gather keeps the file system, and puts all the blocks of the owner at j and after it.
LEMMA GatherKeeps ==
  ASSUME NEW s, Shape(s), NEW owner, NEW j, NEW len, NEW r, r = Gather(s, owner, j)
  PROVE  /\ Shape(r) /\ (r.sane => s.sane)
         /\ r.sane /\ Sound(s.fs) /\ Alone(s.fs) /\ owner \in InUse(s.fs) /\ Fits(owner, j, len)
              /\ Packed(s.fs, j) /\ Gathered(s.fs, owner, j, len, 0)
            => Gathering(s.fs, r, owner, j, len, InodeBlocks)
<1>1. PICK u : GathersUpTo(u, s, owner, j) /\ r = u[InodeBlocks]
  BY GatherIs
<1> DEFINE N == InodeBlocks
           Starts == /\ Sound(s.fs) /\ Alone(s.fs) /\ owner \in InUse(s.fs) /\ Fits(owner, j, len)
                     /\ Packed(s.fs, j) /\ Gathered(s.fs, owner, j, len, 0)
           T == {n \in 0 .. N : /\ Shape(u[n]) /\ (u[n].sane => s.sane)
                                /\ u[n].sane /\ Starts => Gathering(s.fs, u[n], owner, j, len, n)}
<1>2. N \in Nat
  BY Constants
<1>3. \A n \in 0 .. N : u[n] = IF n = 0 THEN s ELSE GatherStep(u[n - 1], owner, j, n)
  BY <1>1 DEF GathersUpTo
<1>4. 0 \in T
  <2>1. u[0] = s /\ 0 \in 0 .. N
    BY <1>2, <1>3
  <2>2. Starts => Gathering(s.fs, s, owner, j, len, 0)
    BY RetainsReflexive DEF Gathering, Tidy
  <2> HIDE DEF Starts
  <2> QED BY <2>1, <2>2
<1>5. \A n \in 1 .. N : n - 1 \in T => n \in T
  <2> SUFFICES ASSUME NEW n \in 1 .. N, n - 1 \in T PROVE n \in T
    OBVIOUS
  <2> DEFINE t == u[n - 1]
             x == u[n]
  <2>1. n \in 0 .. N /\ x = GatherStep(t, owner, j, n) /\ n \in 1 .. InodeBlocks
    BY <1>2, <1>3
  <2>2. Shape(t) /\ (t.sane => s.sane) /\ (t.sane /\ Starts => Gathering(s.fs, t, owner, j, len, n - 1))
    OBVIOUS
  <2>3. Starts => owner \in InUse(s.fs) /\ Fits(owner, j, len)
    OBVIOUS
  <2> HIDE DEF t, x, Starts, N
  <2>4. /\ Shape(x) /\ (x.sane => t.sane)
        /\ x.sane /\ owner \in InUse(s.fs) /\ Fits(owner, j, len) /\ Gathering(s.fs, t, owner, j, len, n - 1)
             => Gathering(s.fs, x, owner, j, len, n)
    BY <2>1, <2>2, GatherStepKeeps
  <2> QED BY <2>1, <2>2, <2>3, <2>4 DEF x
<1>6. N \in T
  <2> HIDE DEF T, N
  <2>1. \A n \in 0 .. N : n \in T
    BY <1>2, <1>4, <1>5, BoundedInduction
  <2> QED BY <1>2, <2>1
<1> HIDE DEF Starts
<1>7. Shape(r) /\ (r.sane => s.sane) /\ (r.sane /\ Starts => Gathering(s.fs, r, owner, j, len, InodeBlocks))
  BY <1>1, <1>6
<1> QED BY <1>7 DEF Starts

\* After the owner's blocks comes the next place.
LEMMA GatheredPacks ==
  ASSUME NEW s, Sound(s), Alone(s), NEW owner \in InUse(s), NEW j, NEW len, Fits(owner, j, len),
         Packed(s, j), Gathered(s, owner, j, len, InodeBlocks)
  PROVE  Packed(s, j + len)
<1>0. /\ InUse(s) \subseteq Itab /\ InodeBlocks \in Nat /\ NoBlk = 0 /\ BlockNos \subseteq Nat
      /\ j \in Nat /\ j > 0 /\ len \in 0 .. InodeBlocks
  BY StateType, Constants DEF Sound, Formed, InUse, BlockNos, Fits
<1>1. \A f \in Itab, k \in 0 .. InodeBlocks : s.itab[f].blocks[k] \in Nat
  BY <1>0, BlockFacts
<1>2. \A k \in 0 .. InodeBlocks :
        /\ s.itab[owner].blocks[k] # NoBlk => k < len
        /\ k < len => s.itab[owner].blocks[k] = j + k
  BY <1>0 DEF Gathered
<1> SUFFICES ASSUME NEW M, M = j + len PROVE Packed(s, M)
  OBVIOUS
<1> SUFFICES ASSUME NEW f \in InUse(s), NEW k \in 0 .. InodeBlocks, NEW m \in 0 .. InodeBlocks,
                    s.itab[f].blocks[k] \in 1 .. M - 1, s.itab[f].blocks[m] # NoBlk
             PROVE  s.itab[f].blocks[m] \in 1 .. M - 1
  BY DEF Packed
<1>3. CASE f = owner
  <2>1. m < len /\ s.itab[f].blocks[m] = j + m
    BY <1>2, <1>3
  <2> QED BY <1>0, <2>1
<1>4. CASE f # owner
  <2> DEFINE c == s.itab[f].blocks[k]
             e == s.itab[f].blocks[m]
  <2>1. c \in Nat /\ c \in 1 .. M - 1
    BY <1>0, <1>1
  <2>2. ~ (c >= j)
    <3> SUFFICES ASSUME c >= j PROVE FALSE
      OBVIOUS
    <3> DEFINE i == c - j
    <3> HIDE DEF c
    <3>1. i \in 0 .. InodeBlocks /\ i < len /\ j + i = c /\ c # NoBlk
      BY <1>0, <2>1
    <3> HIDE DEF i
    <3>2. s.itab[owner].blocks[i] = c
      BY <1>2, <3>1
    <3>3. f = owner
      BY <1>0, <3>1, <3>2, PlaceIs DEF c
    <3> QED BY <3>3, <1>4
  <2>3. c \in 1 .. j - 1
    <3> HIDE DEF c
    <3> QED BY <1>0, <2>1, <2>2
  <2>4. e \in 1 .. j - 1
    BY <2>3 DEF Packed
  <2> HIDE DEF e
  <2>5. e \in 1 .. M - 1
    BY <1>0, <2>4
  <2> QED BY <2>5 DEF e
<1> QED BY <1>3, <1>4

\* An inode with a block at or after j has all its blocks there, and there is room for them.
LEMMA OwnerFits ==
  ASSUME NEW s, Sound(s), Alone(s), NEW owner \in InUse(s), NEW j \in Nat, j > 0, Packed(s, j),
         NEW k \in 0 .. InodeBlocks, s.itab[owner].blocks[k] >= j,
         NEW len, len = ChainLength(s.itab[owner].blocks)
  PROVE  Fits(owner, j, len) /\ Gathered(s, owner, j, len, 0) /\ len > 0
<1>0. /\ owner \in Itab /\ InodeBlocks \in Nat /\ NumBlocks \in Nat /\ NoBlk = 0
      /\ BlockNos = 0 .. NumBlocks - 1 /\ Formed(s) /\ Backed(s)
  BY StateType, Constants DEF Sound, Formed, InUse, BlockNos
<1> DEFINE B == s.itab[owner].blocks
<1>1. len \in 0 .. InodeBlocks /\ \A m \in 0 .. InodeBlocks : B[m] # NoBlk <=> m < len
  BY <1>0, ChainIs
<1>2. \A m \in 0 .. InodeBlocks : B[m] \in 0 .. NumBlocks - 1
  BY <1>0, BlockFacts
<1>3. ASSUME NEW m \in 0 .. InodeBlocks, B[m] # NoBlk PROVE B[m] >= j
  <2>1. B[m] \in 1 .. j - 1 => B[k] \in 1 .. j - 1
    <3>1. B[k] # NoBlk
      BY <1>0, <1>2
    <3> QED BY <3>1 DEF Packed
  <2>2. B[k] >= j
    OBVIOUS
  <2> HIDE DEF B
  <2> QED BY <1>0, <1>2, <1>3, <2>1, <2>2
<1>4. ASSUME NEW m \in 0 .. InodeBlocks, NEW i \in 0 .. InodeBlocks, B[m] # NoBlk, B[m] = B[i] PROVE m = i
  BY <1>0, <1>4, PlaceIs
<1>5. B[k] >= j /\ B[k] # NoBlk
  BY <1>0, <1>2
<1> HIDE DEF B
<1>6. j <= NumBlocks - 1 /\ k < len
  BY <1>0, <1>1, <1>2, <1>5
<1>7. j + len <= NumBlocks
  <2> DEFINE P == 0 .. len - 1
             U == j .. NumBlocks - 1
             g == [m \in P |-> B[m]]
  <2>1. IsFiniteSet(P) /\ Cardinality(P) = len
    <3>1. IsFiniteSet(P) /\ Cardinality(P) = len - 0
      BY <1>1, IntervalSize
    <3> QED BY <1>1, <3>1
  <2>2. IsFiniteSet(U) /\ Cardinality(U) = NumBlocks - j
    BY <1>0, <1>6, IntervalSize
  <2>3. \A m \in P : m \in 0 .. InodeBlocks /\ B[m] # NoBlk /\ B[m] \in U
    <3> SUFFICES ASSUME NEW m \in P PROVE m \in 0 .. InodeBlocks /\ B[m] # NoBlk /\ B[m] \in U
      OBVIOUS
    <3>1. m \in 0 .. InodeBlocks /\ m < len
      BY <1>0, <1>1
    <3>2. B[m] # NoBlk /\ B[m] >= j /\ B[m] \in 0 .. NumBlocks - 1
      BY <3>1, <1>1, <1>2, <1>3
    <3> QED BY <1>0, <3>1, <3>2
  <2>4. g \in Injection(P, U)
    <3> HIDE DEF P, U
    <3> QED BY <2>3, <1>4 DEF Injection, IsInjective
  <2> HIDE DEF P, U, g
  <2>5. Cardinality(P) <= Cardinality(U)
    BY <2>2, <2>4, FS_Injection
  <2> QED BY <1>0, <1>1, <2>1, <2>2, <2>5
<1>8. Fits(owner, j, len)
  BY <1>0, <1>1, <1>7 DEF Fits
<1>9. Gathered(s, owner, j, len, 0)
  <2> SUFFICES ASSUME NEW m \in 0 .. InodeBlocks
               PROVE  (B[m] # NoBlk <=> m < len) /\ (m < len => B[m] >= j) /\ ~ (m < 0)
    BY DEF Gathered, B
  <2> QED BY <1>1, <1>3
<1> QED BY <1>1, <1>6, <1>8, <1>9

-----------------------------------------------------------------------------
(* fs_defrag.                                                               *)

\* The loop of fs_defrag.
DefragStep(at, end) ==
  LET owner == getOwner(at.s.fs, at.i)
      o     == CHOOSE f \in owner : TRUE
      len   == ChainLength(at.s.fs.itab[o].blocks)
  IN  IF at.i >= end \/ at.s.ret = Fail THEN at
      ELSE IF at.i \notin at.s.fs.bused THEN [at EXCEPT !.i = @ + 1]
      ELSE IF owner = {} THEN [at EXCEPT !.s.ret = Fail]
      ELSE [s |-> Gather(at.s, o, at.j), i |-> at.i + len, j |-> at.j + len]

DefragStart(e) == [s |-> [fs |-> e, ret |-> OK, sane |-> TRUE], i |-> NoBlk + 1, j |-> NoBlk + 1]

\* The recursion of fs_defrag has a solution.
DefragsUpTo(u, e, end) ==
  u = [n \in 0 .. end |-> IF n = 0 THEN DefragStart(e) ELSE DefragStep(u[n - 1], end)]

\* fs_defrag, as a function of the turns of its loop.
LEMMA DefragIs ==
  ASSUME NEW e, NEW end \in Nat, end = MinOf(MaxBlks, NumBlocks)
  PROVE  \E u : DefragsUpTo(u, e, end) /\ fs_defrag(e) = u[end].s
<1> DEFINE a == DefragStart(e)
           Good(u, m) == /\ DOMAIN u = 0 .. end /\ u[0] = a
                         /\ \A n \in 1 .. m : u[n] = DefragStep(u[n - 1], end)
           T == {m \in 0 .. end : \E u : Good(u, m)}
<1>1. 0 \in T
  <2>1. Good([n \in 0 .. end |-> a], 0)
    OBVIOUS
  <2>2. \E h : Good(h, 0)
    BY <2>1
  <2>3. 0 \in 0 .. end
    OBVIOUS
  <2> HIDE DEF Good
  <2> QED BY <2>2, <2>3
<1> HIDE DEF a
<1>2. \A m \in 1 .. end : m - 1 \in T => m \in T
  <2> SUFFICES ASSUME NEW m \in 1 .. end, m - 1 \in T PROVE m \in T
    OBVIOUS
  <2>0. m \in 0 .. end
    OBVIOUS
  <2>1. PICK u : Good(u, m - 1)
    OBVIOUS
  <2> DEFINE v == DefragStep(u[m - 1], end)
             w == [n \in 0 .. end |-> IF n = m THEN v ELSE u[n]]
  <2>2. Good(w, m)
    <3>1. DOMAIN w = 0 .. end /\ w[0] = a
      BY <2>1
    <3>2. ASSUME NEW n \in 1 .. m PROVE w[n] = DefragStep(w[n - 1], end)
      <4>1. n \in 0 .. end /\ n - 1 \in 0 .. end /\ n - 1 # m
        OBVIOUS
      <4>2. CASE n = m
        <5>1. w[n] = v /\ w[n - 1] = u[n - 1]
          BY <4>1, <4>2
        <5> HIDE DEF w
        <5> QED BY <5>1, <4>2
      <4>3. CASE n # m
        <5>1. w[n] = u[n] /\ w[n - 1] = u[n - 1] /\ n \in 1 .. m - 1
          BY <4>1, <4>3
        <5> HIDE DEF w
        <5> QED BY <5>1, <2>1
      <4> QED BY <4>2, <4>3
    <3> QED BY <3>1, <3>2
  <2>3. \E h : Good(h, m)
    BY <2>2
  <2> HIDE DEF Good, w
  <2> QED BY <2>0, <2>3
<1>3. \E u : Good(u, end)
  <2> HIDE DEF T
  <2>1. \A n \in 0 .. end : n \in T
    BY <1>1, <1>2, BoundedInduction
  <2>2. end \in T
    BY <2>1
  <2> QED BY <2>2 DEF T
<1>4. PICK u : Good(u, end)
  BY <1>3
<1> DEFINE w == [n \in 0 .. end |-> u[n]]
<1>5. DefragsUpTo(w, e, end)
  <2>1. ASSUME NEW n \in 0 .. end
        PROVE  w[n] = IF n = 0 THEN a ELSE DefragStep(w[n - 1], end)
    <3>1. CASE n = 0
      BY <3>1, <1>4
    <3>2. CASE n # 0
      <4>1. n \in 1 .. end /\ n - 1 \in 0 .. end
        BY <3>2
      <4>2. u[n] = DefragStep(u[n - 1], end)
        BY <4>1, <1>4
      <4> QED BY <4>1, <4>2, <3>2
    <3> QED BY <3>1, <3>2
  <2>2. w = [n \in 0 .. end |-> w[n]]
    OBVIOUS
  <2> HIDE DEF w
  <2> QED BY <2>1, <2>2 DEF DefragsUpTo, a
<1> DEFINE U == CHOOSE h : DefragsUpTo(h, e, end)
<1>6. DefragsUpTo(U, e, end)
  <2> HIDE DEF w
  <2> QED BY <1>5
<1>7. fs_defrag(e) = U[end].s
  BY DEF fs_defrag, DefragsUpTo, DefragStep, DefragStart
<1> QED BY <1>6, <1>7

\* A defragmentation of e under way: below j the inodes are complete.
Going(e, at) ==
  /\ at = [s |-> at.s, i |-> at.i, j |-> at.j] /\ Shape(at.s)
  /\ at.s.sane => /\ Tidy(e, at.s.fs) /\ Packed(at.s.fs, at.j)
                  /\ at.i \in Nat /\ at.j \in Nat /\ 0 < at.j /\ at.j <= at.i

\* What a step comes to.
LEMMA DefragStepCases ==
  ASSUME NEW e, NEW end, NEW at, Going(e, at), NEW r, r = DefragStep(at, end),
         NEW owner, owner = getOwner(at.s.fs, at.i), NEW o, o = CHOOSE f \in owner : TRUE,
         NEW len, len = ChainLength(at.s.fs.itab[o].blocks)
  PROVE  \/ r = at
         \/ r = [s |-> at.s, i |-> at.i + 1, j |-> at.j]
         \/ /\ r = [s |-> r.s, i |-> at.i, j |-> at.j]
            /\ Shape(r.s) /\ r.s.fs = at.s.fs /\ r.s.sane = at.s.sane
         \/ /\ ~ (at.i >= end) /\ owner # {}
            /\ r = [s |-> Gather(at.s, o, at.j), i |-> at.i + len, j |-> at.j + len]
<1> DEFINE stops == at.i >= end \/ at.s.ret = Fail
           free  == at.i \notin at.s.fs.bused
           g     == Gather(at.s, o, at.j)
<1>1. r = IF stops THEN at
          ELSE IF free THEN [at EXCEPT !.i = @ + 1]
          ELSE IF owner = {} THEN [at EXCEPT !.s.ret = Fail]
          ELSE [s |-> g, i |-> at.i + len, j |-> at.j + len]
  BY DEF DefragStep
<1>2. at = [s |-> at.s, i |-> at.i, j |-> at.j] /\ at.s = [fs |-> at.s.fs, ret |-> at.s.ret, sane |-> at.s.sane]
  BY DEF Going, Shape
<1> HIDE DEF stops, free, g
<1>3. CASE stops
  BY <1>1, <1>3
<1>4. CASE ~ stops /\ free
  <2>1. r = [at EXCEPT !.i = @ + 1]
    BY <1>1, <1>4
  <2> QED BY <1>2, <2>1
<1>5. CASE ~ stops /\ ~ free /\ owner = {}
  <2> DEFINE x == at.s
             y == [x EXCEPT !.ret = Fail]
  <2>1. r = [at EXCEPT !.s.ret = Fail]
    BY <1>1, <1>5
  <2>2. [at EXCEPT !.s.ret = Fail] = [at EXCEPT !.s = y]
    OBVIOUS
  <2>3. y = [fs |-> x.fs, ret |-> Fail, sane |-> x.sane]
    BY <1>2
  <2>4. y.fs = x.fs /\ y.sane = x.sane /\ y.ret = Fail
    BY <2>3
  <2>5. x.sane \in BOOLEAN
    BY DEF Going, Shape
  <2> HIDE DEF y
  <2>6. r = [s |-> y, i |-> at.i, j |-> at.j]
    BY <1>2, <2>1, <2>2
  <2>7. r.s = y
    BY <2>6
  <2>8. Shape(y)
    BY <2>3, <2>4, <2>5 DEF Shape
  <2> QED BY <2>4, <2>6, <2>7, <2>8
<1>6. CASE ~ stops /\ ~ free /\ owner # {}
  <2>1. r = [s |-> g, i |-> at.i + len, j |-> at.j + len]
    BY <1>1, <1>6
  <2>2. ~ (at.i >= end)
    BY <1>6 DEF stops
  <2> QED BY <1>6, <2>1, <2>2 DEF g
<1> QED BY <1>3, <1>4, <1>5, <1>6

\* The counters of fs_defrag stay in order.
LEMMA GoesOn ==
  ASSUME NEW i, NEW j, NEW len, len \in Nat, i \in Nat, j \in Nat, 0 < j, j <= i
  PROVE  i + len \in Nat /\ j + len \in Nat /\ 0 < j + len /\ j + len <= i + len
  OBVIOUS

\* A length that fits is a number.
LEMMA FitsLength ==
  ASSUME NEW owner, NEW j, NEW len, Fits(owner, j, len)
  PROVE  len \in Nat
  BY Constants DEF Fits

\* A step of fs_defrag goes on with the defragmentation.
LEMMA DefragStepKeeps ==
  ASSUME NEW e, NEW end \in Nat, end <= NumBlocks, NEW at, Going(e, at), NEW r, r = DefragStep(at, end)
  PROVE  Going(e, r)
<1> SUFFICES ASSUME NEW owner, owner = getOwner(at.s.fs, at.i), NEW o, o = CHOOSE f \in owner : TRUE,
                    NEW len, len = ChainLength(at.s.fs.itab[o].blocks)
             PROVE  Going(e, r)
  OBVIOUS
<1>0. /\ at = [s |-> at.s, i |-> at.i, j |-> at.j] /\ Shape(at.s)
      /\ at.s.sane => /\ Tidy(e, at.s.fs) /\ Packed(at.s.fs, at.j)
                      /\ at.i \in Nat /\ at.j \in Nat /\ 0 < at.j /\ at.j <= at.i
  BY DEF Going
<1> DEFINE x == at.s
           i == at.i
           j == at.j
           z == Gather(x, o, j)
<1>1. \/ r = at
      \/ r = [s |-> x, i |-> i + 1, j |-> j]
      \/ /\ r = [s |-> r.s, i |-> i, j |-> j]
         /\ Shape(r.s) /\ r.s.fs = x.fs /\ r.s.sane = x.sane
      \/ /\ ~ (i >= end) /\ owner # {}
         /\ r = [s |-> z, i |-> i + len, j |-> j + len]
  BY DefragStepCases
<1>2. CASE r = at
  BY <1>2
<1>3. CASE r = [s |-> x, i |-> i + 1, j |-> j]
  <2>1. r.s = x /\ r.i = i + 1 /\ r.j = j /\ r = [s |-> r.s, i |-> r.i, j |-> r.j]
    BY <1>3
  <2>2. Shape(x) /\ (x.sane => Tidy(e, x.fs) /\ Packed(x.fs, j) /\ i \in Nat /\ j \in Nat /\ 0 < j /\ j <= i)
    BY <1>0
  <2> HIDE DEF x, i, j
  <2>3. r.s.sane => r.i \in Nat /\ r.j \in Nat /\ 0 < r.j /\ r.j <= r.i
    BY <2>1, <2>2
  <2>4. r.s.sane => Tidy(e, r.s.fs) /\ Packed(r.s.fs, r.j)
    BY <2>1, <2>2
  <2>5. Shape(r.s)
    BY <2>1, <2>2
  <2> QED BY <2>1, <2>3, <2>4, <2>5 DEF Going
<1>4. CASE /\ r = [s |-> r.s, i |-> i, j |-> j]
           /\ Shape(r.s) /\ r.s.fs = x.fs /\ r.s.sane = x.sane
  <2>1. r.i = i /\ r.j = j /\ r = [s |-> r.s, i |-> r.i, j |-> r.j]
    BY <1>4
  <2>2. x.sane => Tidy(e, x.fs) /\ Packed(x.fs, j) /\ i \in Nat /\ j \in Nat /\ 0 < j /\ j <= i
    BY <1>0
  <2> HIDE DEF x, i, j
  <2> QED BY <1>4, <2>1, <2>2 DEF Going
<1>5. CASE /\ ~ (i >= end) /\ owner # {}
           /\ r = [s |-> z, i |-> i + len, j |-> j + len]
  <2>0. /\ owner = getOwner(x.fs, i) /\ len = ChainLength(x.fs.itab[o].blocks) /\ Shape(x)
        /\ x.sane => /\ Tidy(e, x.fs) /\ Packed(x.fs, j)
                     /\ i \in Nat /\ j \in Nat /\ 0 < j /\ j <= i
    BY <1>0
  <2> HIDE DEF x, i, j
  <2>2. Shape(z) /\ (z.sane => x.sane)
    BY <2>0, GatherKeeps
  <2>3. ASSUME z.sane
        PROVE  Tidy(e, z.fs) /\ Packed(z.fs, j + len) /\ len \in Nat /\ i \in Nat /\ j \in Nat /\ 0 < j /\ j <= i
    <3>1. /\ Tidy(e, x.fs) /\ Packed(x.fs, j) /\ i \in Nat /\ j \in Nat /\ 0 < j /\ j <= i
          /\ Sound(x.fs) /\ Alone(x.fs)
      BY <2>0, <2>2, <2>3 DEF Tidy
    <3>2. i \in BlockNos \ {NoBlk}
      <4>1. ~ (i >= end)
        BY <1>5
      <4>2. i < NumBlocks /\ i # NoBlk
        BY <4>1, <3>1, Constants
      <4> QED BY <4>2, <3>1, Constants DEF BlockNos
    <3>3. owner # {}
      BY <1>5
    <3>4. PICK f \in InUse(x.fs), k \in 0 .. InodeBlocks : owner = {f} /\ x.fs.itab[f].blocks[k] = i
      <4>1. \/ getOwner(x.fs, i) = {}
            \/ \E f \in InUse(x.fs), k \in 0 .. InodeBlocks :
                 getOwner(x.fs, i) = {f} /\ x.fs.itab[f].blocks[k] = i
        BY <3>1, <3>2, OwnerIs
      <4> QED BY <4>1, <3>3, <2>0
    <3>5. o = f
      BY <3>4
    <3>6. o \in InUse(x.fs) /\ x.fs.itab[o].blocks[k] >= j
      BY <3>1, <3>4, <3>5
    <3>7. Fits(o, j, len) /\ Gathered(x.fs, o, j, len, 0)
      BY <2>0, <3>1, <3>6, OwnerFits
    <3>8. Gathering(x.fs, z, o, j, len, InodeBlocks)
      BY <2>0, <2>3, <3>1, <3>6, <3>7, GatherKeeps
    <3> HIDE DEF z
    <3>9. Tidy(x.fs, z.fs) /\ Packed(z.fs, j) /\ Gathered(z.fs, o, j, len, InodeBlocks)
      BY <3>8 DEF Gathering
    <3>10. Sound(z.fs) /\ Alone(z.fs) /\ o \in InUse(z.fs)
      BY <3>6, <3>9 DEF Tidy
    <3>11. Packed(z.fs, j + len)
      BY <3>7, <3>9, <3>10, GatheredPacks
    <3>12. Tidy(e, z.fs)
      <4> DEFINE xf == x.fs
                 zf == z.fs
      <4>1. Tidy(e, xf) /\ Tidy(xf, zf)
        BY <3>1, <3>9
      <4> HIDE DEF xf, zf
      <4>2. Tidy(e, zf)
        BY <4>1, TidyTransitive
      <4> QED BY <4>2 DEF zf
    <3>13. len \in Nat
      BY <3>7, FitsLength
    <3> QED BY <3>1, <3>11, <3>12, <3>13
  <2> HIDE DEF z
  <2>1. r.s = z /\ r.i = i + len /\ r.j = j + len /\ r = [s |-> r.s, i |-> r.i, j |-> r.j]
    <3> DEFINE i1 == i + len
               j1 == j + len
    <3>1. r = [s |-> z, i |-> i1, j |-> j1]
      BY <1>5
    <3> HIDE DEF i1, j1
    <3>2. r.s = z /\ r.i = i1 /\ r.j = j1 /\ r = [s |-> r.s, i |-> r.i, j |-> r.j]
      BY <3>1
    <3> QED BY <3>2 DEF i1, j1
  <2>4. r.s.sane => r.i \in Nat /\ r.j \in Nat /\ 0 < r.j /\ r.j <= r.i
    <3> SUFFICES ASSUME z.sane PROVE r.i \in Nat /\ r.j \in Nat /\ 0 < r.j /\ r.j <= r.i
      BY <2>1
    <3>1. len \in Nat /\ i \in Nat /\ j \in Nat /\ 0 < j /\ j <= i
      BY <2>3
    <3>2. r.i = i + len /\ r.j = j + len
      BY <2>1
    <3> QED BY <3>1, <3>2, GoesOn
  <2>5. r.s.sane => Tidy(e, r.s.fs) /\ Packed(r.s.fs, r.j)
    BY <2>1, <2>3
  <2>6. Shape(r.s)
    BY <2>1, <2>2
  <2> QED BY <2>1, <2>4, <2>5, <2>6 DEF Going
<1> HIDE DEF x, i, j, z
<1> QED BY <1>1, <1>2, <1>3, <1>4, <1>5

\* fs_defrag keeps the file system, as long as swap writes the entry it means.
LEMMA DefragKeeps ==
  ASSUME NEW e, Sound(e), Alone(e), NEW r, r = fs_defrag(e), r.sane
  PROVE  Tidy(e, r.fs)
<1> SUFFICES ASSUME NEW end, end = MinOf(MaxBlks, NumBlocks) PROVE Tidy(e, r.fs)
  OBVIOUS
<1>1. end \in Nat /\ end <= NumBlocks
  BY Constants, FsDefragAssumption DEF MinOf
<1>2. PICK u : DefragsUpTo(u, e, end) /\ r = u[end].s
  BY <1>1, DefragIs
<1> DEFINE T == {n \in 0 .. end : Going(e, u[n])}
<1>3. \A n \in 0 .. end : u[n] = IF n = 0 THEN DefragStart(e) ELSE DefragStep(u[n - 1], end)
  BY <1>2 DEF DefragsUpTo
<1>4. 0 \in T
  <2> DEFINE x == [fs |-> e, ret |-> OK, sane |-> TRUE]
             a == [s |-> x, i |-> 1, j |-> 1]
  <2>1. Shape(x) /\ x.fs = e
    BY DEF Shape
  <2>2. a = DefragStart(e)
    BY Constants DEF DefragStart
  <2>3. Tidy(e, e) /\ Packed(e, 1)
    BY RetainsReflexive DEF Tidy, Packed
  <2> HIDE DEF x
  <2>4. a.s = x /\ a.i = 1 /\ a.j = 1 /\ a = [s |-> a.s, i |-> a.i, j |-> a.j]
    OBVIOUS
  <2> HIDE DEF a
  <2>5. Going(e, a)
    BY <2>1, <2>3, <2>4 DEF Going
  <2>6. 0 \in 0 .. end /\ u[0] = a
    BY <1>1, <1>3, <2>2
  <2> QED BY <2>5, <2>6
<1>5. \A n \in 1 .. end : n - 1 \in T => n \in T
  <2> SUFFICES ASSUME NEW n \in 1 .. end, n - 1 \in T PROVE n \in T
    OBVIOUS
  <2> DEFINE at == u[n - 1]
             b == u[n]
  <2>1. n \in 0 .. end /\ b = DefragStep(at, end) /\ Going(e, at)
    BY <1>1, <1>3
  <2> HIDE DEF at, b
  <2>2. Going(e, b)
    BY <1>1, <2>1, DefragStepKeeps
  <2> QED BY <2>1, <2>2 DEF b
<1>6. end \in T
  <2> HIDE DEF T
  <2>1. \A n \in 0 .. end : n \in T
    BY <1>1, <1>4, <1>5, BoundedInduction
  <2> QED BY <1>1, <2>1
<1>7. Going(e, u[end])
  BY <1>6
<1> QED BY <1>2, <1>7 DEF Going

-----------------------------------------------------------------------------
(* Copying.                                                                 *)

\* The inode of a copy.
CopyOf(s, dest, file) ==
  [type   |-> FILE,
   size   |-> s.itab[file].size,
   blocks |-> [k \in 0 .. InodeBlocks |->
                IF k < ChainLength(s.itab[file].blocks) THEN s.itab[file].blocks[k]
                                                        ELSE s.itab[dest].blocks[k]]]

\* copy_inode changes the inode of the copy only.
LEMMA CopyInodeIs ==
  ASSUME NEW s, Sound(s), NEW dest \in FilesOf(s), NEW file \in FilesOf(s)
  PROVE  copy_inode(s, dest, file) =
           [iused |-> s.iused, bused |-> s.bused,
            itab |-> [s.itab EXCEPT ![dest] = CopyOf(s, dest, file)], store |-> s.store]
<1> DEFINE I == s.iused
           B == s.bused
           T == s.itab
           W == s.store
           z == s.itab[file].size
           v == s.itab[dest].size
           D == s.itab[dest].blocks
           C == [k \in 0 .. InodeBlocks |->
                   IF k < ChainLength(s.itab[file].blocks) THEN s.itab[file].blocks[k] ELSE s.itab[dest].blocks[k]]
           R1 == [type |-> FILE, size |-> v, blocks |-> C]
           R2 == [type |-> FILE, size |-> z, blocks |-> C]
           T1 == [T EXCEPT ![dest] = R1]
           T2 == [T EXCEPT ![dest] = R2]
<1>0. dest \in Itab /\ s.itab[dest].type = FILE /\ s \in States
  BY StateType DEF Sound, Formed, FilesOf, InUse
<1>1. /\ s = [iused |-> I, bused |-> B, itab |-> T, store |-> W] /\ T \in [Itab -> InodeRecords]
      /\ T[dest] = [type |-> FILE, size |-> v, blocks |-> D]
  BY <1>0, StateType
<1>2. CopyOf(s, dest, file) = R2
  BY DEF CopyOf
<1>3. copy_inode(s, dest, file) = [s EXCEPT !.itab[dest].blocks = C, !.itab[dest].size = z]
  BY DEF copy_inode
<1>4. [T EXCEPT ![dest].blocks = C] = T1
  <2> HIDE DEF T, C, v, D
  <2>1. [T[dest] EXCEPT !.blocks = C] = R1
    BY <1>1
  <2>2. [T EXCEPT ![dest].blocks = C] = [T EXCEPT ![dest] = [T[dest] EXCEPT !.blocks = C]]
    BY <1>0, <1>1
  <2> QED BY <2>1, <2>2
<1>5. [T1 EXCEPT ![dest].size = z] = T2
  <2> HIDE DEF T, C, v, D, z
  <2>1. T1[dest] = R1
    BY <1>0, <1>1
  <2>2. [R1 EXCEPT !.size = z] = R2
    OBVIOUS
  <2> HIDE DEF R1, R2
  <2> QED BY <1>0, <1>1, <2>1, <2>2
<1>6. [s EXCEPT !.itab[dest].blocks = C] = [iused |-> I, bused |-> B, itab |-> T1, store |-> W]
  <2> DEFINE X == [T EXCEPT ![dest].blocks = C]
  <2>1. [s EXCEPT !.itab[dest].blocks = C] = [s EXCEPT !.itab = X]
    <3> HIDE DEF C
    <3> QED OBVIOUS
  <2> HIDE DEF I, B, T, W, C, X, T1
  <2> QED BY <1>1, <1>4, <2>1 DEF X
<1>7. [s EXCEPT !.itab[dest].blocks = C, !.itab[dest].size = z]
        = [iused |-> I, bused |-> B, itab |-> T2, store |-> W]
  <2> DEFINE s1 == [iused |-> I, bused |-> B, itab |-> T1, store |-> W]
  <2> HIDE DEF I, B, T, W, C, z, T1, T2
  <2>1. [s EXCEPT !.itab[dest].blocks = C, !.itab[dest].size = z] = [s1 EXCEPT !.itab[dest].size = z]
    BY <1>6
  <2>2. [s1 EXCEPT !.itab[dest].size = z] = [iused |-> I, bused |-> B, itab |-> [T1 EXCEPT ![dest].size = z], store |-> W]
    OBVIOUS
  <2> QED BY <1>5, <2>1, <2>2
<1> QED BY <1>2, <1>3, <1>7

\* A file of one block: all its positions are on page 0.
LEMMA OneBlockIs ==
  ASSUME NEW s, Sound(s), OneBlockFiles(s), NEW f \in FilesOf(s)
  PROVE  /\ ChainLength(s.itab[f].blocks) \in {0, 1}
         /\ \A k \in 1 .. InodeBlocks : s.itab[f].blocks[k] = NoBlk
         /\ \A i \in Positions(s, f) : PageOf(i) = 0 /\ ChainLength(s.itab[f].blocks) = 1
<1> DEFINE n == ChainLength(s.itab[f].blocks)
<1>0. Formed(s) /\ Backed(s) /\ f \in Itab /\ s.itab[f].blocks[1] = NoBlk /\ InodeBlocks \in Nat /\ InodeBlocks > 1
  BY StateType, Constants DEF Sound, Formed, FilesOf, InUse, OneBlockFiles
<1>1. /\ n \in 0 .. InodeBlocks
      /\ \A k \in 0 .. InodeBlocks : s.itab[f].blocks[k] # NoBlk <=> k < n
  BY <1>0, ChainIs
<1> HIDE DEF n
<1>2. 1 \in 0 .. InodeBlocks /\ ~ (1 < n)
  BY <1>0, <1>1
<1>3. n \in {0, 1}
  BY <1>0, <1>1, <1>2
<1>4. \A k \in 1 .. InodeBlocks : s.itab[f].blocks[k] = NoBlk
  <2> SUFFICES ASSUME NEW k \in 1 .. InodeBlocks PROVE s.itab[f].blocks[k] = NoBlk
    OBVIOUS
  <2>1. k \in 0 .. InodeBlocks /\ ~ (k < n)
    BY <1>0, <1>3
  <2> QED BY <2>1, <1>1
<1>5. ASSUME NEW i \in Positions(s, f) PROVE PageOf(i) = 0 /\ n = 1
  <2>1. PageOf(i) \in 0 .. InodeBlocks - 1 /\ s.itab[f].blocks[PageOf(i)] # NoBlk
    BY <1>0, PositionIs
  <2>2. PageOf(i) \in 0 .. InodeBlocks /\ PageOf(i) < n
    BY <2>1, <1>0, <1>1
  <2> QED BY <2>1, <2>2, <1>3
<1> QED BY <1>3, <1>4, <1>5 DEF n

\* From s to t one file has got the content of another, and nothing else changes.
Equates(s, t, dest, file) ==
  InUse(t) = InUse(s) /\ Retains(s, t, {dest}) /\ Content(t, dest) = Content(s, file)

\* copy_inode shares the block of a file.
LEMMA CopyInodeKeeps ==
  ASSUME NEW s, Sound(s), OneBlockFiles(s), NEW dest \in FilesOf(s), NEW file \in FilesOf(s),
         NEW t, t = copy_inode(s, dest, file)
  PROVE  /\ Sound(t) /\ OneBlockFiles(t) /\ Grown(s, t) /\ (FewNames /\ OnePageDirs(s) => OnePageDirs(t))
         /\ Equates(s, t, dest, file)
<1> DEFINE F == s.itab[file].blocks
           D == s.itab[dest].blocks
           n == ChainLength(F)
           C == t.itab[dest].blocks
<1>0. /\ Formed(s) /\ Backed(s) /\ Owned(s) /\ Filled(s) /\ s \in States /\ InUse(s) \subseteq Itab
      /\ dest \in Itab /\ file \in Itab /\ dest \in InUse(s) /\ file \in InUse(s)
      /\ InodeBlocks \in Nat /\ InodeBlocks > 1
  BY StateType, Constants DEF Sound, Formed, FilesOf, InUse
<1>1. /\ n \in {0, 1} /\ (\A k \in 1 .. InodeBlocks : F[k] = NoBlk /\ D[k] = NoBlk)
      /\ \A i \in Positions(s, file) : PageOf(i) = 0 /\ n = 1
  BY OneBlockIs
<1>2. /\ F \in [0 .. InodeBlocks -> BlockNos] /\ D \in [0 .. InodeBlocks -> BlockNos]
      /\ s.itab[file].size \in 0 .. InodeBlocks * PageSize
      /\ s.itab \in [Itab -> InodeRecords]
  <2> DEFINE m == InodeBlocks * PageSize
  <2>1. m \in Nat
    BY Constants
  <2>2. s.itab[file].size \in 0 .. m
    <3>1. s.itab[file].size \in Nat /\ s.itab[file].size <= m
      BY <1>0, StateType
    <3> HIDE DEF m
    <3> QED BY <2>1, <3>1
  <2> QED BY <1>0, <2>2, StateType
<1>3. t = [iused |-> s.iused, bused |-> s.bused,
           itab |-> [s.itab EXCEPT ![dest] = CopyOf(s, dest, file)], store |-> s.store]
  BY CopyInodeIs
<1>4. /\ CopyOf(s, dest, file) \in InodeRecords /\ CopyOf(s, dest, file).type = FILE
      /\ CopyOf(s, dest, file).size = s.itab[file].size
      /\ \A k \in 0 .. InodeBlocks : CopyOf(s, dest, file).blocks[k] = IF k < n THEN F[k] ELSE D[k]
  <2> DEFINE B == [k \in 0 .. InodeBlocks |-> IF k < n THEN F[k] ELSE D[k]]
             m == InodeBlocks * PageSize
  <2>1. CopyOf(s, dest, file) = [type |-> FILE, size |-> s.itab[file].size, blocks |-> B]
    BY DEF CopyOf
  <2>2. B \in [0 .. InodeBlocks -> BlockNos]
    <3> HIDE DEF F, D, n
    <3> QED BY <1>2
  <2>3. \A k \in 0 .. InodeBlocks : B[k] = IF k < n THEN F[k] ELSE D[k]
    OBVIOUS
  <2>4. s.itab[file].size \in 0 .. m
    BY <1>2
  <2> HIDE DEF B, m
  <2>5. CopyOf(s, dest, file) \in [type : {FILE, DIR}, size : 0 .. m, blocks : [0 .. InodeBlocks -> BlockNos]]
    BY <2>1, <2>2, <2>4
  <2> QED BY <2>1, <2>3, <2>5 DEF InodeRecords, m
<1>5. /\ t \in States /\ t.iused = s.iused /\ t.bused = s.bused /\ t.store = s.store
      /\ t.itab[dest] = CopyOf(s, dest, file) /\ \A g \in Itab \ {dest} : t.itab[g] = s.itab[g]
  <2> DEFINE R == CopyOf(s, dest, file)
             T == s.itab
             T1 == [T EXCEPT ![dest] = R]
  <2> HIDE DEF R, T
  <2>1. T1 \in [Itab -> InodeRecords] /\ T1[dest] = R /\ \A g \in Itab \ {dest} : T1[g] = T[g]
    BY <1>0, <1>2, <1>4 DEF R, T
  <2>2. t = [iused |-> s.iused, bused |-> s.bused, itab |-> T1, store |-> s.store]
    BY <1>3 DEF R, T
  <2> HIDE DEF T1
  <2>3. t \in States
    BY <1>0, <2>1, <2>2, StateType DEF States
  <2> QED BY <2>1, <2>2, <2>3 DEF R, T
<1>6. /\ t.itab[dest].type = FILE /\ t.itab[dest].size = s.itab[file].size
      /\ \A k \in 0 .. InodeBlocks : C[k] = IF k < n THEN F[k] ELSE D[k]
      /\ \A k \in 1 .. InodeBlocks : C[k] = NoBlk
  <2>1. /\ t.itab[dest].type = FILE /\ t.itab[dest].size = s.itab[file].size
        /\ \A k \in 0 .. InodeBlocks : C[k] = IF k < n THEN F[k] ELSE D[k]
    BY <1>4, <1>5
  <2>2. ASSUME NEW k \in 1 .. InodeBlocks PROVE C[k] = NoBlk
    <3>1. k \in 0 .. InodeBlocks
      BY <1>0
    <3> QED BY <3>1, <2>1, <1>1
  <2> QED BY <2>1, <2>2
<1>7. InUse(t) = InUse(s) /\ FilesOf(t) = FilesOf(s)
  <2>1. InUse(t) = InUse(s)
    BY <1>5 DEF InUse
  <2>2. \A g \in InUse(s) : t.itab[g].type = s.itab[g].type
    BY <1>0, <1>5, <1>6 DEF FilesOf
  <2> QED BY <2>1, <2>2 DEF FilesOf
<1>8. \A k \in 0 .. InodeBlocks : k # 0 => k \in 1 .. InodeBlocks
  BY <1>0
<1>9. BlocksOfOwn(t, dest)
  <2> SUFFICES ASSUME NEW i \in 0 .. InodeBlocks
               PROVE  /\ C[i] \in t.bused
                      /\ \A g \in InUse(t), j \in 0 .. InodeBlocks :
                           C[i] # NoBlk /\ C[i] = t.itab[g].blocks[j] =>
                             \/ dest = g /\ i = j
                             \/ /\ i = 0 /\ j = 0 /\ g \in FilesOf(t)
                                /\ C[1] = NoBlk /\ t.itab[g].blocks[1] = NoBlk
    BY DEF BlocksOfOwn
  <2>1. C[i] \in t.bused
    <3>1. F[i] \in s.bused /\ D[i] \in s.bused
      BY <1>0 DEF Owned
    <3> QED BY <3>1, <1>5, <1>6
  <2>2. ASSUME NEW g \in InUse(t), NEW j \in 0 .. InodeBlocks, C[i] # NoBlk, C[i] = t.itab[g].blocks[j]
        PROVE  \/ dest = g /\ i = j
               \/ /\ i = 0 /\ j = 0 /\ g \in FilesOf(t)
                  /\ C[1] = NoBlk /\ t.itab[g].blocks[1] = NoBlk
    <3>1. i = 0 /\ C[1] = NoBlk /\ 1 \in 1 .. InodeBlocks
      BY <2>2, <1>0, <1>6, <1>8
    <3>2. CASE g = dest
      BY <2>2, <3>1, <3>2, <1>6, <1>8
    <3>3. CASE g # dest
      <4>1. g \in InUse(s) /\ t.itab[g] = s.itab[g]
        BY <3>3, <1>0, <1>5, <1>7
      <4>2. \E x \in {file, dest} : x \in FilesOf(s) /\ s.itab[x].blocks[0] # NoBlk /\ s.itab[x].blocks[0] = s.itab[g].blocks[j]
        <5>1. C[0] = F[0] \/ C[0] = D[0]
          BY <1>0, <1>6
        <5> QED BY <5>1, <2>2, <3>1, <4>1
      <4>3. PICK x \in FilesOf(s) : s.itab[x].blocks[0] # NoBlk /\ s.itab[x].blocks[0] = s.itab[g].blocks[j]
        BY <4>2
      <4>4. x \in InUse(s) /\ 0 \in 0 .. InodeBlocks
        BY <1>0 DEF FilesOf
      <4>5. j = 0 /\ g \in FilesOf(s)
        BY <4>1, <4>3, <4>4, <1>0 DEF Owned
      <4>6. s.itab[g].blocks[1] = NoBlk
        BY <4>5 DEF OneBlockFiles
      <4> QED BY <3>1, <4>1, <4>5, <4>6, <1>7
    <3> QED BY <3>2, <3>3
  <2> QED BY <2>1, <2>2
<1>10. \A i \in Positions(t, dest) : /\ C[PageOf(i)] # NoBlk /\ Entry(t, dest, i).name \in Data
                                     /\ Entry(t, dest, i) = Entry(s, file, i)
  <2> SUFFICES ASSUME NEW i \in Positions(t, dest)
               PROVE  /\ C[PageOf(i)] # NoBlk /\ Entry(t, dest, i).name \in Data
                      /\ Entry(t, dest, i) = Entry(s, file, i)
    OBVIOUS
  <2>1. i \in Positions(s, file)
    BY <1>6 DEF Positions
  <2>2. PageOf(i) = 0 /\ n = 1 /\ 0 \in 0 .. InodeBlocks
    BY <2>1, <1>0, <1>1
  <2>3. C[0] = F[0]
    <3>1. 0 < n
      BY <2>2
    <3> QED BY <3>1, <2>2, <1>6
  <2>4. F[0] # NoBlk
    BY <2>1, <2>2, <1>0 DEF Backed
  <2>5. Entry(t, dest, i) = Entry(s, file, i)
    BY <2>2, <2>3, <1>5 DEF Entry
  <2>6. Entry(s, file, i).name \in Data
    BY <2>1, <1>0 DEF Filled
  <2> QED BY <2>2, <2>3, <2>4, <2>5, <2>6
<1>11. C[InodeBlocks] = NoBlk /\ \A k \in 0 .. InodeBlocks - 1 : C[k + 1] = NoBlk
  <2>1. InodeBlocks \in 1 .. InodeBlocks /\ \A k \in 0 .. InodeBlocks - 1 : k + 1 \in 1 .. InodeBlocks
    BY <1>0
  <2> QED BY <2>1, <1>6
<1>12. FileChange(s, t, dest)
  BY <1>0, <1>5, <1>6, <1>9, <1>10, <1>11 DEF FileChange
<1>13. C[1] = NoBlk
  BY <1>0, <1>6
<1>14. Content(t, dest) = Content(s, file)
  <2>1. \A i \in Positions(s, file) : Entry(t, dest, i).name = Entry(s, file, i).name
    BY <1>6, <1>10 DEF Positions
  <2>2. s.itab[file].size \in Nat
    BY <1>0, StateType
  <2> QED BY <1>6, <2>1, <2>2, ContentKept
<1>15. Retains(s, t, {dest})
  BY <1>12, FileChangeRetains
<1> QED BY <1>12, <1>13, <1>14, <1>15, FileChangeKeeps DEF Equates

\* A copy under way in a sound state whose files have one block, and what may
\* come of it.
Fine(s) == s \in Copies /\ Sound(s.fs) /\ OneBlockFiles(s.fs)
\* A copy that went on from s to t.
Follows(s, t) ==
  /\ Fine(t) /\ Grown(s.fs, t.fs)
  /\ FewNames /\ OnePageDirs(s.fs) => OnePageDirs(t.fs)

\* Follows is transitive.
LEMMA FollowsTransitive ==
  ASSUME NEW s, NEW t, NEW u, Fine(s), Follows(s, t), Follows(t, u)
  PROVE  Follows(s, u)
<1>1. Grown(s.fs, u.fs)
  BY GrownTransitive DEF Fine, Follows
<1> QED BY <1>1 DEF Follows

\* A copy under way after one of its parts changed.
LEMMA CopiesFields ==
  ASSUME NEW s \in Copies, NEW x \in States
  PROVE  /\ [s EXCEPT !.fs = x] \in Copies /\ [s EXCEPT !.fs = x].fs = x
         /\ [s EXCEPT !.ret = Fail] \in Copies /\ [s EXCEPT !.ret = Fail].fs = s.fs
         /\ [s EXCEPT !.count = @ - 1] \in Copies /\ [s EXCEPT !.count = @ - 1].fs = s.fs
         /\ [s EXCEPT !.fs = x, !.count = @ - 1] \in Copies /\ [s EXCEPT !.fs = x, !.count = @ - 1].fs = x
<1> DEFINE a == s.fs
           b == s.ret
           m == s.count
           k == m - 1
<1>1. s = [fs |-> a, ret |-> b, count |-> m] /\ a \in States /\ b \in {OK, Fail} /\ m \in Int
  BY DEF Copies
<1>2. k \in Int
  BY <1>1
<1> HIDE DEF a, b, m
<1>3. \A y \in States, r \in {OK, Fail}, c \in Int : [fs |-> y, ret |-> r, count |-> c] \in Copies
  BY DEF Copies
<1>4. /\ [s EXCEPT !.fs = x] = [fs |-> x, ret |-> b, count |-> m]
      /\ [s EXCEPT !.ret = Fail] = [fs |-> a, ret |-> Fail, count |-> m]
      /\ [s EXCEPT !.count = @ - 1] = [fs |-> a, ret |-> b, count |-> k]
  BY <1>1
<1>5. [s EXCEPT !.fs = x, !.count = @ - 1] = [fs |-> x, ret |-> b, count |-> k]
  <2> DEFINE s1 == [s EXCEPT !.fs = x]
  <2>1. s1 = [fs |-> x, ret |-> b, count |-> m]
    BY <1>4
  <2> HIDE DEF s1
  <2>2. [s1 EXCEPT !.count = @ - 1] = [fs |-> x, ret |-> b, count |-> k]
    BY <2>1
  <2>3. [s EXCEPT !.fs = x, !.count = @ - 1] = [s1 EXCEPT !.count = @ - 1]
    BY DEF s1
  <2> QED BY <2>2, <2>3
<1> HIDE DEF k
<1>6. Fail \in {OK, Fail}
  OBVIOUS
<1>7. [s EXCEPT !.fs = x] \in Copies /\ [s EXCEPT !.fs = x].fs = x
  BY <1>1, <1>3, <1>4
<1>8. [s EXCEPT !.ret = Fail] \in Copies /\ [s EXCEPT !.ret = Fail].fs = a
  BY <1>1, <1>3, <1>4, <1>6
<1>9. [s EXCEPT !.count = @ - 1] \in Copies /\ [s EXCEPT !.count = @ - 1].fs = a
  BY <1>1, <1>2, <1>3, <1>4
<1>10. [s EXCEPT !.fs = x, !.count = @ - 1] \in Copies /\ [s EXCEPT !.fs = x, !.count = @ - 1].fs = x
  BY <1>1, <1>2, <1>3, <1>5
<1> QED BY <1>7, <1>8, <1>9, <1>10 DEF a

\* The same with a state that grew, or with another answer or count.
LEMMA FollowsFields ==
  ASSUME NEW s, Fine(s), NEW x, Sound(x), OneBlockFiles(x), Grown(s.fs, x),
         FewNames /\ OnePageDirs(s.fs) => OnePageDirs(x)
  PROVE  /\ Follows(s, s)
         /\ Follows(s, [s EXCEPT !.fs = x]) /\ [s EXCEPT !.fs = x].fs = x
         /\ Follows(s, [s EXCEPT !.ret = Fail])
         /\ Follows(s, [s EXCEPT !.count = @ - 1]) /\ [s EXCEPT !.count = @ - 1].fs = s.fs
         /\ Follows(s, [s EXCEPT !.fs = x, !.count = @ - 1])
<1>0. s \in Copies /\ x \in States
  BY DEF Fine, Sound, Formed
<1>1. Grown(s.fs, s.fs)
  BY GrownReflexive DEF Fine
<1>2. /\ [s EXCEPT !.fs = x] \in Copies /\ [s EXCEPT !.fs = x].fs = x
      /\ [s EXCEPT !.ret = Fail] \in Copies /\ [s EXCEPT !.ret = Fail].fs = s.fs
      /\ [s EXCEPT !.count = @ - 1] \in Copies /\ [s EXCEPT !.count = @ - 1].fs = s.fs
      /\ [s EXCEPT !.fs = x, !.count = @ - 1] \in Copies /\ [s EXCEPT !.fs = x, !.count = @ - 1].fs = x
  BY <1>0, CopiesFields
<1>3. Follows(s, s)
  BY <1>1 DEF Follows
<1>4. Follows(s, [s EXCEPT !.fs = x])
  BY <1>2 DEF Follows, Fine
<1>5. Follows(s, [s EXCEPT !.ret = Fail])
  BY <1>1, <1>2 DEF Follows, Fine
<1>6. Follows(s, [s EXCEPT !.count = @ - 1])
  BY <1>1, <1>2 DEF Follows, Fine
<1>7. Follows(s, [s EXCEPT !.fs = x, !.count = @ - 1])
  BY <1>2 DEF Follows, Fine
<1> QED BY <1>2, <1>3, <1>4, <1>5, <1>6, <1>7

\* The name of an entry.
LEMMA GetNameIs ==
  ASSUME NEW s, Sound(s), NEW mother \in Itab, NEW f, NEW name, name = get_name(s, mother, f), name # {}
  PROVE  /\ (CHOOSE n \in name : TRUE) \in Names /\ f \in InUse(s)
         /\ HasEntry(s, mother, CHOOSE n \in name : TRUE, f)
<1> DEFINE at == {i \in Positions(s, mother) : Entry(s, mother, i).ino = f}
           j == LeastOf(at)
<1>0. Formed(s) /\ Backed(s) /\ Linked(s)
  BY DEF Sound
<1>1. s.itab[mother].type = DIR /\ at # {} /\ name = {Entry(s, mother, j).name}
  BY DEF get_name
<1>2. at \subseteq Nat
  BY <1>0, PositionIs
<1>3. j \in at
  <2> HIDE DEF at
  <2> QED BY <1>1, <1>2, LeastNumber
<1>4. mother \in DirsOf(s)
  <2>1. mother \in InUse(s)
    BY <1>0, <1>1, InitIs, Constants DEF Formed
  <2> QED BY <2>1, <1>1 DEF DirsOf
<1> HIDE DEF j
<1>5. j \in Positions(s, mother) /\ Entry(s, mother, j).ino = f
  BY <1>3
<1>6. Entry(s, mother, j).name \in Names /\ f \in InUse(s)
  BY <1>0, <1>4, <1>5 DEF Linked
<1>7. (CHOOSE n \in name : TRUE) = Entry(s, mother, j).name
  BY <1>1
<1>8. HasEntry(s, mother, Entry(s, mother, j).name, f)
  BY <1>4, <1>5 DEF HasEntry
<1> QED BY <1>6, <1>7, <1>8

\* A step of the copying of one level: g copies what is at one level less.
Copying(g) == \A args \in Itab \X Itab \X Itab, t \in Copies : Fine(t) => Follows(t, g[args][t])

\* The walk of a copy over the entries of a directory; the recursion, by depth.
CopyWalkIs(w, g, new, made, f) ==
  w = [n \in 0 .. made.fs.itab[f].size |->
        IF n = 0 THEN new
        ELSE LET t == w[n - 1]
             IN  IF t.ret = Fail THEN t
                 ELSE g[<<Entry(t.fs, f, n - 1).ino, made.ino, f>>][[t EXCEPT !.count = @ - 1]]]

CopyWalkOf(g, new, made, f) == (CHOOSE w : CopyWalkIs(w, g, new, made, f))[made.fs.itab[f].size]

\* The entries of a directory have inode numbers that stay within it as it grows.
LEMMA GrownEntry ==
  ASSUME NEW s, NEW t, Sound(s), Sound(t), Grown(s, t), NEW f \in DirsOf(s), NEW M, M = s.itab[f].size
  PROVE  M \in Nat /\ \A n \in 1 .. M : Entry(t, f, n - 1).ino \in Itab
<1>1. f \in DirsOf(t) /\ f \in Itab /\ Formed(s) /\ Formed(t) /\ Backed(t)
  BY StateType DEF Sound, Formed, DirsOf, InUse, Grown
<1>2. M \in Nat /\ t.itab[f].size \in Nat /\ M <= t.itab[f].size
  BY <1>1, StateType DEF Formed, Grown
<1>3. ASSUME NEW n \in 1 .. M PROVE Entry(t, f, n - 1).ino \in Itab
  <2>1. n - 1 \in Positions(t, f)
    BY <1>2 DEF Positions
  <2> QED BY <1>1, <2>1, PositionIs
<1> QED BY <1>2, <1>3

\* The walk of a copy stays in a set that every entry leads back into.
LEMMA CopyWalkStays ==
  ASSUME NEW g, NEW new, NEW made, NEW f, NEW M \in Nat, M = made.fs.itab[f].size, NEW G, G \subseteq Copies,
         new \in G,
         \A n \in 1 .. M : \A t \in G :
           t.ret # Fail => g[<<Entry(t.fs, f, n - 1).ino, made.ino, f>>][[t EXCEPT !.count = @ - 1]] \in G
  PROVE  CopyWalkOf(g, new, made, f) \in G
<1> DEFINE Next1(n, t) == IF t.ret = Fail THEN t
                          ELSE g[<<Entry(t.fs, f, n - 1).ino, made.ino, f>>][[t EXCEPT !.count = @ - 1]]
           F == [n \in 1 .. M |-> [t \in Copies |-> Next1(n, t)]]
           I == [n \in 0 .. M |-> G]
<1>1. \A n \in 1 .. M : \A t \in G : Next1(n, t) \in G
  OBVIOUS
<1> HIDE DEF Next1
<1>4. \A n \in 1 .. M : \A t \in G : F[n][t] = Next1(n, t)
  OBVIOUS
<1> HIDE DEF F
<1>5. PICK u : Steps(u, M, new, F)
  BY StepsExist
<1>6. \A n \in 0 .. M : u[n] \in G
  <2>1. \A n \in 0 .. M : I[n] = G
    OBVIOUS
  <2>2. \A n \in 1 .. M : n - 1 \in 0 .. M /\ n \in 0 .. M
    OBVIOUS
  <2>3. 0 \in 0 .. M
    OBVIOUS
  <2> HIDE DEF I
  <2>4. new \in I[0] /\ \A n \in 1 .. M : \A t \in I[n - 1] : F[n][t] \in I[n]
    BY <1>1, <1>4, <2>1, <2>2, <2>3
  <2>5. \A n \in 0 .. M : u[n] \in I[n]
    BY <1>5, <2>4, StepsKeep
  <2> QED BY <2>1, <2>5
<1>7. CopyWalkIs(u, g, new, made, f)
  <2>1. u = [n \in 0 .. M |-> IF n = 0 THEN new ELSE F[n][u[n - 1]]]
    BY <1>5 DEF Steps
  <2>2. \A n \in 0 .. M : (IF n = 0 THEN new ELSE F[n][u[n - 1]]) = (IF n = 0 THEN new ELSE Next1(n, u[n - 1]))
    <3> SUFFICES ASSUME NEW n \in 0 .. M, n # 0 PROVE F[n][u[n - 1]] = Next1(n, u[n - 1])
      OBVIOUS
    <3>1. n \in 1 .. M /\ n - 1 \in 0 .. M
      OBVIOUS
    <3> QED BY <3>1, <1>4, <1>6
  <2>3. u = [n \in 0 .. M |-> IF n = 0 THEN new ELSE Next1(n, u[n - 1])]
    BY <2>1, <2>2
  <2> QED BY <2>3 DEF CopyWalkIs, Next1
<1> DEFINE w == CHOOSE x : CopyWalkIs(x, g, new, made, f)
<1>8. CopyWalkIs(w, g, new, made, f)
  BY <1>7
<1>9. CopyWalkOf(g, new, made, f) = w[M]
  BY DEF CopyWalkOf
<1> HIDE DEF w
<1>10. w = [n \in 0 .. M |-> IF n = 0 THEN new ELSE Next1(n, w[n - 1])]
  BY <1>8 DEF CopyWalkIs, Next1
<1>11. w[0] = new /\ \A n \in 1 .. M : w[n] = Next1(n, w[n - 1])
  <2>1. \A n \in 0 .. M : w[n] = IF n = 0 THEN new ELSE Next1(n, w[n - 1])
    BY <1>10
  <2>2. 0 \in 0 .. M /\ \A n \in 1 .. M : n \in 0 .. M /\ n # 0
    OBVIOUS
  <2> QED BY <2>1, <2>2
<1> DEFINE T == {n \in 0 .. M : w[n] \in G}
<1>12. \A n \in 0 .. M : n \in T
  <2>1. 0 \in T
    BY <1>11
  <2>2. \A n \in 1 .. M : n - 1 \in T => n \in T
    <3> SUFFICES ASSUME NEW n \in 1 .. M, n - 1 \in T PROVE n \in T
      OBVIOUS
    <3>1. w[n] = Next1(n, w[n - 1]) /\ n \in 0 .. M
      BY <1>11
    <3> QED BY <3>1, <1>1
  <2> HIDE DEF T
  <2> QED BY <2>1, <2>2, BoundedInduction
<1>13. w[M] \in G
  BY <1>12
<1> QED BY <1>9, <1>13

\* The walk over the entries of a directory to copy, when a level below copies well.
LEMMA CopyWalkKeeps ==
  ASSUME NEW g, Copying(g), NEW new, Fine(new), NEW made, made.fs = new.fs, made.ino \in Itab,
         NEW f \in DirsOf(new.fs)
  PROVE  Follows(new, CopyWalkOf(g, new, made, f))
<1> DEFINE M == made.fs.itab[f].size
           G == {t \in Copies : Follows(new, t)}
<1>0. M \in Nat /\ f \in Itab
  BY GrownReflexive, GrownEntry, StateType DEF Fine, Sound, Formed, DirsOf, InUse
<1>1. \A n \in 1 .. M : \A t \in G :
        g[<<Entry(t.fs, f, n - 1).ino, made.ino, f>>][[t EXCEPT !.count = @ - 1]] \in G
  <2> SUFFICES ASSUME NEW n \in 1 .. M, NEW t \in G
               PROVE  g[<<Entry(t.fs, f, n - 1).ino, made.ino, f>>][[t EXCEPT !.count = @ - 1]] \in G
    OBVIOUS
  <2>1. t \in Copies /\ Follows(new, t) /\ Fine(t)
    BY DEF Follows
  <2> DEFINE t1 == [t EXCEPT !.count = @ - 1]
             args == <<Entry(t.fs, f, n - 1).ino, made.ino, f>>
  <2>2. Follows(t, t1)
    BY <2>1, GrownReflexive, FollowsFields DEF Fine
  <2>3. Fine(t1) /\ t1 \in Copies
    BY <2>2 DEF Follows, Fine
  <2>4. args \in Itab \X Itab \X Itab
    <3>1. M = new.fs.itab[f].size /\ Sound(new.fs) /\ Sound(t.fs) /\ Grown(new.fs, t.fs)
      BY <2>1 DEF Fine, Follows
    <3>2. Entry(t.fs, f, n - 1).ino \in Itab
      <4> HIDE DEF M
      <4> QED BY <3>1, GrownEntry
    <3> QED BY <3>2, <1>0
  <2> HIDE DEF t1, args
  <2>6. Follows(t1, g[args][t1])
    BY <2>3, <2>4 DEF Copying
  <2>7. Follows(new, g[args][t1])
    BY <2>1, <2>2, <2>3, <2>6, FollowsTransitive
  <2>8. g[args][t1] \in Copies
    BY <2>7 DEF Follows, Fine
  <2> QED BY <2>7, <2>8 DEF args, t1
<1>2. new \in G
  BY GrownReflexive, FollowsFields DEF Fine
<1>3. G \subseteq Copies /\ \A t \in G : Follows(new, t)
  OBVIOUS
<1> HIDE DEF G, M
<1>4. CopyWalkOf(g, new, made, f) \in G
  BY <1>0, <1>1, <1>2, <1>3, CopyWalkStays DEF M
<1> QED BY <1>3, <1>4

\* The body of fs_copy_aux, with g for the copying of the level below.
CopyOne(g, d, args, s) ==
  LET f    == args[1]
      name == get_name(s.fs, args[3], f)
      type == s.fs.itab[f].type
      made == NewObject(s.fs, args[2], CHOOSE n \in name : TRUE, type)
      new  == [s EXCEPT !.fs = made.fs]
  IN  IF d = 0 \/ s.count < 0 THEN s
      ELSE IF name = {} \/ made.ret = Fail THEN [s EXCEPT !.ret = Fail]
      ELSE IF type = FILE
      THEN [new EXCEPT !.fs = copy_inode(made.fs, made.ino, f), !.count = @ - 1]
      ELSE CopyWalkOf(g, new, made, f)

CopiedUpTo(h) ==
  h = [d \in 0 .. Depth |->
        [args \in Itab \X Itab \X Itab |-> [s \in Copies |-> CopyOne(h[d - 1], d, args, s)]]]

\* fs_copy_aux by its equation.
LEMMA CopiedIs ==
  ASSUME NEW copy, NEW file, NEW dest, NEW mother
  PROVE  \E h : CopiedUpTo(h) /\ fs_copy_aux(copy, file, dest, mother) = h[Depth][<<file, dest, mother>>][copy]
<1> DEFINE None == [args \in Itab \X Itab \X Itab |-> [x \in Copies |-> x]]
           Step(n, g) == [args \in Itab \X Itab \X Itab |-> [x \in Copies |-> CopyOne(g, n, args, x)]]
           Good(u, m) == /\ DOMAIN u = 0 .. Depth /\ u[0] = None
                         /\ \A n \in 1 .. m : u[n] = Step(n, u[n - 1])
           T == {m \in 0 .. Depth : \E u : Good(u, m)}
<1>0. Depth \in Nat
  BY Constants DEF Depth
<1> HIDE DEF None, Step
<1>1. 0 \in T
  <2>1. Good([n \in 0 .. Depth |-> None], 0)
    BY <1>0
  <2>2. \E x : Good(x, 0)
    BY <2>1
  <2>3. 0 \in 0 .. Depth
    BY <1>0
  <2> HIDE DEF Good
  <2> QED BY <2>2, <2>3
<1>2. \A m \in 1 .. Depth : m - 1 \in T => m \in T
  <2> SUFFICES ASSUME NEW m \in 1 .. Depth, m - 1 \in T PROVE m \in T
    OBVIOUS
  <2>0. m \in 0 .. Depth
    BY <1>0
  <2>1. PICK u : Good(u, m - 1)
    OBVIOUS
  <2> DEFINE v == Step(m, u[m - 1])
             w == [n \in 0 .. Depth |-> IF n = m THEN v ELSE u[n]]
  <2>2. Good(w, m)
    <3>1. DOMAIN w = 0 .. Depth /\ w[0] = None
      BY <1>0, <2>1
    <3>2. ASSUME NEW n \in 1 .. m PROVE w[n] = Step(n, w[n - 1])
      <4>1. n \in 0 .. Depth /\ n - 1 \in 0 .. Depth /\ n - 1 # m
        BY <1>0
      <4>2. CASE n = m
        <5>1. w[n] = v /\ w[n - 1] = u[n - 1]
          BY <4>1, <4>2
        <5> HIDE DEF w
        <5> QED BY <5>1, <4>2
      <4>3. CASE n # m
        <5>1. w[n] = u[n] /\ w[n - 1] = u[n - 1] /\ n \in 1 .. m - 1
          BY <4>1, <4>3
        <5> HIDE DEF w
        <5> QED BY <5>1, <2>1
      <4> QED BY <4>2, <4>3
    <3> QED BY <3>1, <3>2
  <2>3. \E x : Good(x, m)
    BY <2>2
  <2> HIDE DEF Good, w
  <2> QED BY <2>0, <2>3
<1>3. Depth \in T
  <2> HIDE DEF T
  <2>1. \A n \in 0 .. Depth : n \in T
    BY <1>0, <1>1, <1>2, BoundedInduction
  <2> QED BY <1>0, <2>1
<1>4. PICK u : Good(u, Depth)
  BY <1>3
<1> DEFINE w == [n \in 0 .. Depth |-> u[n]]
<1>5. CopiedUpTo(w)
  <2>1. ASSUME NEW n \in 0 .. Depth
        PROVE  w[n] = [args \in Itab \X Itab \X Itab |-> [x \in Copies |-> CopyOne(w[n - 1], n, args, x)]]
    <3>1. CASE n = 0
      <4>1. w[n] = None
        BY <3>1, <1>4
      <4>2. None = [args \in Itab \X Itab \X Itab |-> [x \in Copies |-> CopyOne(w[n - 1], n, args, x)]]
        BY <3>1 DEF None, CopyOne
      <4> QED BY <4>1, <4>2
    <3>2. CASE n # 0
      <4>1. n \in 1 .. Depth /\ n - 1 \in 0 .. Depth
        BY <3>2, <1>0
      <4>2. w[n] = Step(n, w[n - 1])
        BY <4>1, <1>4
      <4> HIDE DEF w
      <4>3. Step(n, w[n - 1]) = [args \in Itab \X Itab \X Itab |-> [x \in Copies |-> CopyOne(w[n - 1], n, args, x)]]
        BY <3>2 DEF Step
      <4> QED BY <4>2, <4>3
    <3> QED BY <3>1, <3>2
  <2>2. w = [n \in 0 .. Depth |-> w[n]]
    OBVIOUS
  <2> HIDE DEF w
  <2> QED BY <2>1, <2>2 DEF CopiedUpTo
<1> DEFINE H == CHOOSE h : CopiedUpTo(h)
<1>6. CopiedUpTo(H)
  <2> HIDE DEF w
  <2> QED BY <1>5
<1>7. fs_copy_aux(copy, file, dest, mother) = H[Depth][<<file, dest, mother>>][copy]
  BY DEF fs_copy_aux, CopiedUpTo, CopyOne, CopyWalkOf, CopyWalkIs
<1> HIDE DEF H
<1> QED BY <1>6, <1>7

\* Copying one object, when a level below copies well.
LEMMA CopyOneKeeps ==
  ASSUME NEW g, NEW d, d = 0 \/ Copying(g), NEW args \in Itab \X Itab \X Itab, NEW s, Fine(s)
  PROVE  Follows(s, CopyOne(g, d, args, s))
<1> DEFINE f == args[1]
           name == get_name(s.fs, args[3], f)
           type == s.fs.itab[f].type
           n1 == CHOOSE n \in name : TRUE
           made == NewObject(s.fs, args[2], n1, type)
           new == [s EXCEPT !.fs = made.fs]
           r == CopyOne(g, d, args, s)
<1>1. /\ (d = 0 \/ s.count < 0) => r = s
      /\ ~ (d = 0 \/ s.count < 0) =>
           /\ (name = {} \/ made.ret = Fail) => r = [s EXCEPT !.ret = Fail]
           /\ ~ (name = {} \/ made.ret = Fail) =>
                /\ type = FILE => r = [new EXCEPT !.fs = copy_inode(made.fs, made.ino, f), !.count = @ - 1]
                /\ type # FILE => r = CopyWalkOf(g, new, made, f)
  BY DEF CopyOne
<1> SUFFICES Follows(s, r)
  OBVIOUS
<1> HIDE DEF r
<1>2. f \in Itab /\ args[2] \in Itab /\ args[3] \in Itab /\ Sound(s.fs) /\ OneBlockFiles(s.fs) /\ Grown(s.fs, s.fs)
  BY GrownReflexive DEF Fine
<1> HIDE DEF f
<1>3. Follows(s, s) /\ Follows(s, [s EXCEPT !.ret = Fail])
  BY <1>2, FollowsFields
<1>4. ASSUME d # 0, name # {}, made.ret # Fail,
             type = FILE => r = [new EXCEPT !.fs = copy_inode(made.fs, made.ino, f), !.count = @ - 1],
             type # FILE => r = CopyWalkOf(g, new, made, f)
      PROVE  Follows(s, r)
  <2>1. n1 \in Names /\ f \in InUse(s.fs)
    <3> HIDE DEF n1
    <3> QED BY <1>2, <1>4, GetNameIs DEF n1
  <2>2. type \in {FILE, DIR}
    BY <1>2, StateType DEF Sound, Formed
  <2> HIDE DEF n1
  <2>3. /\ Keeps(s.fs, made.fs) /\ Grown(s.fs, made.fs) /\ made.ret \in {OK, Fail}
        /\ made.ret = OK => made.ino \in InUse(made.fs) /\ made.ino \in Inodes /\ made.fs.itab[made.ino].type = type
    <3> HIDE DEF type, made
    <3> QED BY <1>2, <2>1, <2>2, NewObjectKeeps DEF made
  <2> HIDE DEF made
  <2>4. made.ino \in InUse(made.fs) /\ made.ino \in Itab /\ made.fs.itab[made.ino].type = type
    BY <1>4, <2>3 DEF Itab
  <2>5. Sound(made.fs) /\ OneBlockFiles(made.fs) /\ (FewNames /\ OnePageDirs(s.fs) => OnePageDirs(made.fs))
    BY <1>2, <2>3 DEF Keeps
  <2>6. Follows(s, new) /\ new.fs = made.fs
    BY <1>2, <2>3, <2>5, FollowsFields
  <2>7. Fine(new)
    BY <2>6 DEF Follows
  <2>8. f \in InUse(made.fs) /\ made.fs.itab[f].type = type
    BY <2>1, <2>3 DEF Grown
  <2> HIDE DEF new
  <2>9. CASE type = FILE
    <3> DEFINE x == copy_inode(made.fs, made.ino, f)
    <3>1. f \in FilesOf(made.fs) /\ made.ino \in FilesOf(made.fs)
      BY <2>4, <2>8, <2>9 DEF FilesOf
    <3>2. Sound(x) /\ OneBlockFiles(x) /\ Grown(made.fs, x) /\ (FewNames /\ OnePageDirs(made.fs) => OnePageDirs(x))
      BY <2>5, <3>1, CopyInodeKeeps
    <3> HIDE DEF x
    <3>3. Follows(new, [new EXCEPT !.fs = x, !.count = @ - 1])
      BY <2>6, <2>7, <3>2, FollowsFields
    <3>4. Follows(s, [new EXCEPT !.fs = x, !.count = @ - 1])
      BY <2>6, <3>3, FollowsTransitive
    <3> QED BY <1>4, <2>9, <3>4 DEF x
  <2>10. CASE type # FILE
    <3>1. f \in DirsOf(new.fs)
      BY <2>2, <2>6, <2>8, <2>10 DEF DirsOf
    <3>2. Follows(new, CopyWalkOf(g, new, made, f))
      BY <1>4, <2>4, <2>6, <2>7, <3>1, CopyWalkKeeps
    <3> QED BY <1>4, <2>6, <2>10, <3>2, FollowsTransitive
  <2> QED BY <2>9, <2>10
<1> HIDE DEF name, type, n1, made, new
<1>5. CASE d = 0 \/ s.count < 0
  BY <1>1, <1>3, <1>5
<1>6. CASE ~ (d = 0 \/ s.count < 0) /\ (name = {} \/ made.ret = Fail)
  BY <1>1, <1>3, <1>6
<1>7. CASE ~ (d = 0 \/ s.count < 0) /\ ~ (name = {} \/ made.ret = Fail)
  BY <1>1, <1>4, <1>7
<1> QED BY <1>5, <1>6, <1>7

\* Every level copies one object by the level below, and keeps the file system
\* sound.
LEMMA LevelsCopy ==
  ASSUME NEW h, CopiedUpTo(h)
  PROVE  /\ \A d \in 0 .. Depth : \A args \in Itab \X Itab \X Itab, t \in Copies :
              h[d][args][t] = CopyOne(h[d - 1], d, args, t)
         /\ \A d \in 0 .. Depth : Copying(h[d])
<1>0. Depth \in Nat /\ Depth \in 0 .. Depth /\ 0 \in 0 .. Depth
  BY Constants DEF Depth
<1> DEFINE T == {d \in 0 .. Depth : Copying(h[d])}
<1>2. \A d \in 0 .. Depth : \A args \in Itab \X Itab \X Itab, t \in Copies :
        h[d][args][t] = CopyOne(h[d - 1], d, args, t)
  <2> SUFFICES ASSUME NEW d \in 0 .. Depth, NEW args \in Itab \X Itab \X Itab, NEW t \in Copies
               PROVE  h[d][args][t] = CopyOne(h[d - 1], d, args, t)
    OBVIOUS
  <2>1. h[d] = [a \in Itab \X Itab \X Itab |-> [x \in Copies |-> CopyOne(h[d - 1], d, a, x)]]
    BY DEF CopiedUpTo
  <2>2. h[d][args] = [x \in Copies |-> CopyOne(h[d - 1], d, args, x)]
    BY <2>1
  <2> QED BY <2>2
<1>3. 0 \in T
  <2>1. \A args \in Itab \X Itab \X Itab, t \in Copies : Fine(t) => Follows(t, h[0][args][t])
    BY <1>0, <1>2, CopyOneKeeps
  <2> QED BY <1>0, <2>1 DEF Copying
<1>4. \A d \in 1 .. Depth : d - 1 \in T => d \in T
  <2> SUFFICES ASSUME NEW d \in 1 .. Depth, d - 1 \in T PROVE d \in T
    OBVIOUS
  <2>1. d \in 0 .. Depth /\ Copying(h[d - 1])
    BY <1>0
  <2>2. \A args \in Itab \X Itab \X Itab, t \in Copies : Fine(t) => Follows(t, h[d][args][t])
    BY <1>2, <2>1, CopyOneKeeps
  <2> QED BY <2>1, <2>2 DEF Copying
<1>5. \A d \in 0 .. Depth : d \in T
  <2> HIDE DEF T
  <2> QED BY <1>0, <1>3, <1>4, BoundedInduction
<1> QED BY <1>2, <1>5

\* fs_copy_aux.
LEMMA CopyAuxKeeps ==
  ASSUME NEW s, Fine(s), NEW file \in Itab, NEW dest \in Itab, NEW mother \in Itab
  PROVE  Follows(s, fs_copy_aux(s, file, dest, mother))
<1>1. PICK h : CopiedUpTo(h) /\ fs_copy_aux(s, file, dest, mother) = h[Depth][<<file, dest, mother>>][s]
  BY CopiedIs
<1>2. Depth \in 0 .. Depth
  BY Constants DEF Depth
<1>3. Copying(h[Depth])
  BY <1>1, <1>2, LevelsCopy
<1> QED BY <1>1, <1>3 DEF Copying, Fine

-----------------------------------------------------------------------------
(* What is copied, and its size.                                            *)

\* The walk of countcopies over the entries of a directory; the recursion, by depth.
CountWalkIs(w, g, s, f) ==
  w = [n \in 0 .. s.itab[f].size |->
        IF n = 0 THEN 1 ELSE w[n - 1] + g[Entry(s, f, n - 1).ino]]

CountWalkOf(g, s, f) == (CHOOSE w : CountWalkIs(w, g, s, f))[s.itab[f].size]

CountUpTo(h, s) ==
  h = [d \in 0 .. Depth |-> [f \in Itab |->
        IF d = 0 \/ s.itab[f].type = FILE THEN 1 ELSE CountWalkOf(h[d - 1], s, f)]]

\* The walk of countcopies over a directory adds up to an integer.
LEMMA CountWalkKeeps ==
  ASSUME NEW s, Sound(s), NEW f \in Itab, NEW g \in [Itab -> Int]
  PROVE  CountWalkOf(g, s, f) \in Int
<1> DEFINE M == s.itab[f].size
           F == [n \in 1 .. M |-> [x \in Int |-> x + g[Entry(s, f, n - 1).ino]]]
           I == [n \in 0 .. M |-> Int]
<1>0. M \in Nat /\ Formed(s) /\ Backed(s)
  BY StateType DEF Sound, Formed
<1>1. \A n \in 1 .. M : g[Entry(s, f, n - 1).ino] \in Int
  <2> SUFFICES ASSUME NEW n \in 1 .. M PROVE g[Entry(s, f, n - 1).ino] \in Int
    OBVIOUS
  <2>1. n - 1 \in Positions(s, f)
    BY <1>0 DEF Positions
  <2>2. Entry(s, f, n - 1).ino \in Itab
    BY <1>0, <2>1, PositionIs
  <2> QED BY <2>2
<1>2. \A n \in 1 .. M : \A x \in Int : F[n][x] = x + g[Entry(s, f, n - 1).ino] /\ F[n][x] \in Int
  <2> SUFFICES ASSUME NEW n \in 1 .. M, NEW x \in Int
               PROVE  F[n][x] = x + g[Entry(s, f, n - 1).ino] /\ F[n][x] \in Int
    OBVIOUS
  <2>1. F[n] = [y \in Int |-> y + g[Entry(s, f, n - 1).ino]]
    OBVIOUS
  <2>2. F[n][x] = x + g[Entry(s, f, n - 1).ino]
    BY <2>1
  <2> QED BY <2>2, <1>1
<1> HIDE DEF F
<1>3. PICK u : Steps(u, M, 1, F)
  <2> HIDE DEF M
  <2> QED BY <1>0, StepsExist
<1>4. \A n \in 0 .. M : u[n] \in Int
  <2>1. \A n \in 0 .. M : I[n] = Int
    OBVIOUS
  <2>2. 0 \in 0 .. M /\ \A n \in 1 .. M : n - 1 \in 0 .. M /\ n \in 0 .. M
    BY <1>0
  <2> HIDE DEF I, M
  <2>3. 1 \in I[0] /\ \A n \in 1 .. M : \A t \in I[n - 1] : F[n][t] \in I[n]
    BY <1>2, <2>1, <2>2
  <2>4. \A n \in 0 .. M : u[n] \in I[n]
    BY <1>0, <1>3, <2>3, StepsKeep
  <2> QED BY <2>1, <2>4
<1>5. CountWalkIs(u, g, s, f)
  <2>1. u = [n \in 0 .. M |-> IF n = 0 THEN 1 ELSE F[n][u[n - 1]]]
    BY <1>3 DEF Steps
  <2>2. \A n \in 0 .. M : (IF n = 0 THEN 1 ELSE F[n][u[n - 1]])
                             = (IF n = 0 THEN 1 ELSE u[n - 1] + g[Entry(s, f, n - 1).ino])
    <3> SUFFICES ASSUME NEW n \in 0 .. M, n # 0 PROVE F[n][u[n - 1]] = u[n - 1] + g[Entry(s, f, n - 1).ino]
      OBVIOUS
    <3>1. n \in 1 .. M /\ n - 1 \in 0 .. M
      BY <1>0
    <3> QED BY <3>1, <1>2, <1>4
  <2>3. u = [n \in 0 .. M |-> IF n = 0 THEN 1 ELSE u[n - 1] + g[Entry(s, f, n - 1).ino]]
    BY <2>1, <2>2
  <2> QED BY <2>3 DEF CountWalkIs
<1> DEFINE w == CHOOSE x : CountWalkIs(x, g, s, f)
<1>6. CountWalkIs(w, g, s, f)
  BY <1>5
<1>7. CountWalkOf(g, s, f) = w[M]
  BY DEF CountWalkOf
<1> HIDE DEF w
<1>8. w = [n \in 0 .. M |-> IF n = 0 THEN 1 ELSE w[n - 1] + g[Entry(s, f, n - 1).ino]]
  BY <1>6 DEF CountWalkIs
<1> HIDE DEF M
<1>9. w[0] = 1 /\ \A n \in 1 .. M : w[n] = w[n - 1] + g[Entry(s, f, n - 1).ino]
  <2>1. \A n \in 0 .. M : w[n] = IF n = 0 THEN 1 ELSE w[n - 1] + g[Entry(s, f, n - 1).ino]
    BY <1>8
  <2>2. 0 \in 0 .. M /\ \A n \in 1 .. M : n \in 0 .. M /\ n # 0
    BY <1>0
  <2> QED BY <2>1, <2>2
<1> DEFINE T == {n \in 0 .. M : w[n] \in Int}
<1>10. \A n \in 0 .. M : n \in T
  <2>1. 0 \in T
    BY <1>0, <1>9
  <2>2. \A n \in 1 .. M : n - 1 \in T => n \in T
    BY <1>0, <1>1, <1>9
  <2> HIDE DEF T
  <2> QED BY <1>0, <2>1, <2>2, BoundedInduction
<1>11. w[M] \in Int
  BY <1>0, <1>10
<1> QED BY <1>7, <1>11

\* countcopies is an integer.
LEMMA CountIsInt ==
  ASSUME NEW s, Sound(s), NEW file \in Itab
  PROVE  countcopies(s, file) \in Int
<1> DEFINE A == [Itab -> Int]
           One == [f \in Itab |-> 1]
           Level(g) == [f \in Itab |-> IF s.itab[f].type = FILE THEN 1 ELSE CountWalkOf(g, s, f)]
           F == [d \in 1 .. Depth |-> [g \in A |-> Level(g)]]
           I == [n \in 0 .. Depth |-> A]
<1>0. Depth \in Nat /\ Depth \in 0 .. Depth /\ 0 \in 0 .. Depth
  BY Constants DEF Depth
<1>1. One \in A /\ \A g \in A : Level(g) \in A
  <2>1. One \in A
    OBVIOUS
  <2>2. ASSUME NEW g \in A PROVE Level(g) \in A
    <3>1. \A f \in Itab : CountWalkOf(g, s, f) \in Int
      BY CountWalkKeeps
    <3> QED BY <3>1
  <2> QED BY <2>1, <2>2
<1>2. \A n \in 1 .. Depth : \A g \in A : F[n][g] = Level(g)
  <2> HIDE DEF Level, A
  <2> QED OBVIOUS
<1> HIDE DEF F
<1>3. PICK u : Steps(u, Depth, One, F)
  <2> HIDE DEF One
  <2> QED BY <1>0, StepsExist
<1>4. \A n \in 0 .. Depth : u[n] \in A
  <2> HIDE DEF A, One, Level
  <2>1. \A n \in 0 .. Depth : I[n] = A
    OBVIOUS
  <2>2. \A n \in 1 .. Depth : n - 1 \in 0 .. Depth /\ n \in 0 .. Depth
    BY <1>0
  <2> HIDE DEF I
  <2>3. One \in I[0] /\ \A n \in 1 .. Depth : \A t \in I[n - 1] : F[n][t] \in I[n]
    BY <1>0, <1>1, <1>2, <2>1, <2>2
  <2>4. \A n \in 0 .. Depth : u[n] \in I[n]
    BY <1>0, <1>3, <2>3, StepsKeep
  <2> QED BY <2>1, <2>4
<1>5. CountUpTo(u, s)
  <2>1. u = [n \in 0 .. Depth |-> IF n = 0 THEN One ELSE F[n][u[n - 1]]]
    BY <1>3 DEF Steps
  <2>2. ASSUME NEW n \in 0 .. Depth
        PROVE  (IF n = 0 THEN One ELSE F[n][u[n - 1]])
                 = [f \in Itab |-> IF n = 0 \/ s.itab[f].type = FILE THEN 1 ELSE CountWalkOf(u[n - 1], s, f)]
    <3>1. CASE n = 0
      BY <3>1
    <3>2. CASE n # 0
      <4>1. n \in 1 .. Depth /\ n - 1 \in 0 .. Depth
        BY <1>0, <3>2
      <4>2. F[n][u[n - 1]] = Level(u[n - 1])
        <5> HIDE DEF Level
        <5> QED BY <4>1, <1>2, <1>4
      <4> QED BY <4>2, <3>2
    <3> QED BY <3>1, <3>2
  <2>3. u = [n \in 0 .. Depth |-> [f \in Itab |->
              IF n = 0 \/ s.itab[f].type = FILE THEN 1 ELSE CountWalkOf(u[n - 1], s, f)]]
    <3> HIDE DEF One
    <3> QED BY <2>1, <2>2
  <2> QED BY <2>3 DEF CountUpTo
<1> DEFINE H == CHOOSE h : CountUpTo(h, s)
<1>6. CountUpTo(H, s)
  BY <1>5
<1>7. countcopies(s, file) = H[Depth][file]
  BY DEF countcopies, CountUpTo, CountWalkOf, CountWalkIs
<1> HIDE DEF H
<1>8. \A d \in 0 .. Depth : H[d] = [f \in Itab |->
              IF d = 0 \/ s.itab[f].type = FILE THEN 1 ELSE CountWalkOf(H[d - 1], s, f)]
  BY <1>6 DEF CountUpTo
<1> DEFINE T == {d \in 0 .. Depth : H[d] \in A}
<1>9. 0 \in T
  <2>1. H[0] = [f \in Itab |-> 1]
    BY <1>0, <1>8
  <2> QED BY <1>0, <2>1
<1>10. \A d \in 1 .. Depth : d - 1 \in T => d \in T
  <2> SUFFICES ASSUME NEW d \in 1 .. Depth, d - 1 \in T PROVE d \in T
    OBVIOUS
  <2>1. d \in 0 .. Depth /\ d # 0 /\ H[d - 1] \in A
    OBVIOUS
  <2>2. H[d] = Level(H[d - 1])
    BY <2>1, <1>8
  <2> HIDE DEF Level, A
  <2> QED BY <2>1, <2>2, <1>1
<1>11. \A d \in 0 .. Depth : d \in T
  <2> HIDE DEF T
  <2> QED BY <1>0, <1>9, <1>10, BoundedInduction
<1>12. H[Depth] \in A
  BY <1>0, <1>11
<1> QED BY <1>7, <1>12

-----------------------------------------------------------------------------
\* The walk of fs_copy over the directory it was called for.
FirstWalkIs(w, s, file, dest, mother) ==
  w = [n \in 0 .. s.fs.itab[file].size |->
        IF n = 0 THEN s
        ELSE LET t == w[n - 1]
             IN  IF t.ret = Fail THEN t
                 ELSE fs_copy_aux(t, Entry(t.fs, file, n - 1).ino, dest, mother)]

FirstWalkOf(s, file, dest, mother) ==
  (CHOOSE w : FirstWalkIs(w, s, file, dest, mother))[s.fs.itab[file].size]

\* The walk of fs_copy stays in a set that every entry leads back into.
LEMMA FirstWalkStays ==
  ASSUME NEW s, NEW f, NEW dest, NEW mother, NEW M \in Nat, M = s.fs.itab[f].size, NEW G, G \subseteq Copies,
         s \in G,
         \A n \in 1 .. M : \A t \in G :
           t.ret # Fail => fs_copy_aux(t, Entry(t.fs, f, n - 1).ino, dest, mother) \in G
  PROVE  FirstWalkOf(s, f, dest, mother) \in G
<1> DEFINE Next1(n, t) == IF t.ret = Fail THEN t
                          ELSE fs_copy_aux(t, Entry(t.fs, f, n - 1).ino, dest, mother)
           F == [n \in 1 .. M |-> [t \in Copies |-> Next1(n, t)]]
           I == [n \in 0 .. M |-> G]
<1>1. \A n \in 1 .. M : \A t \in G : Next1(n, t) \in G
  OBVIOUS
<1> HIDE DEF Next1
<1>4. \A n \in 1 .. M : \A t \in G : F[n][t] = Next1(n, t)
  OBVIOUS
<1> HIDE DEF F
<1>5. PICK u : Steps(u, M, s, F)
  BY StepsExist
<1>6. \A n \in 0 .. M : u[n] \in G
  <2>1. \A n \in 0 .. M : I[n] = G
    OBVIOUS
  <2>2. \A n \in 1 .. M : n - 1 \in 0 .. M /\ n \in 0 .. M
    OBVIOUS
  <2>3. 0 \in 0 .. M
    OBVIOUS
  <2> HIDE DEF I
  <2>4. s \in I[0] /\ \A n \in 1 .. M : \A t \in I[n - 1] : F[n][t] \in I[n]
    BY <1>1, <1>4, <2>1, <2>2, <2>3
  <2>5. \A n \in 0 .. M : u[n] \in I[n]
    BY <1>5, <2>4, StepsKeep
  <2> QED BY <2>1, <2>5
<1>7. FirstWalkIs(u, s, f, dest, mother)
  <2>1. u = [n \in 0 .. M |-> IF n = 0 THEN s ELSE F[n][u[n - 1]]]
    BY <1>5 DEF Steps
  <2>2. \A n \in 0 .. M : (IF n = 0 THEN s ELSE F[n][u[n - 1]]) = (IF n = 0 THEN s ELSE Next1(n, u[n - 1]))
    <3> SUFFICES ASSUME NEW n \in 0 .. M, n # 0 PROVE F[n][u[n - 1]] = Next1(n, u[n - 1])
      OBVIOUS
    <3>1. n \in 1 .. M /\ n - 1 \in 0 .. M
      OBVIOUS
    <3> QED BY <3>1, <1>4, <1>6
  <2>3. u = [n \in 0 .. M |-> IF n = 0 THEN s ELSE Next1(n, u[n - 1])]
    BY <2>1, <2>2
  <2> QED BY <2>3 DEF FirstWalkIs, Next1
<1> DEFINE w == CHOOSE x : FirstWalkIs(x, s, f, dest, mother)
<1>8. FirstWalkIs(w, s, f, dest, mother)
  BY <1>7
<1>9. FirstWalkOf(s, f, dest, mother) = w[M]
  BY DEF FirstWalkOf
<1> HIDE DEF w
<1>10. w = [n \in 0 .. M |-> IF n = 0 THEN s ELSE Next1(n, w[n - 1])]
  BY <1>8 DEF FirstWalkIs, Next1
<1>11. w[0] = s /\ \A n \in 1 .. M : w[n] = Next1(n, w[n - 1])
  <2>1. \A n \in 0 .. M : w[n] = IF n = 0 THEN s ELSE Next1(n, w[n - 1])
    BY <1>10
  <2>2. 0 \in 0 .. M /\ \A n \in 1 .. M : n \in 0 .. M /\ n # 0
    OBVIOUS
  <2> QED BY <2>1, <2>2
<1> DEFINE T == {n \in 0 .. M : w[n] \in G}
<1>12. \A n \in 0 .. M : n \in T
  <2>1. 0 \in T
    BY <1>11
  <2>2. \A n \in 1 .. M : n - 1 \in T => n \in T
    <3> SUFFICES ASSUME NEW n \in 1 .. M, n - 1 \in T PROVE n \in T
      OBVIOUS
    <3>1. w[n] = Next1(n, w[n - 1]) /\ n \in 0 .. M
      BY <1>11
    <3> QED BY <3>1, <1>1
  <2> HIDE DEF T
  <2> QED BY <2>1, <2>2, BoundedInduction
<1>13. w[M] \in G
  BY <1>12
<1> QED BY <1>9, <1>13

\* The walk of fs_copy over the directory itself.
LEMMA FirstWalkKeeps ==
  ASSUME NEW s, Fine(s), NEW f \in DirsOf(s.fs), NEW dest \in Itab, NEW mother \in Itab
  PROVE  Follows(s, FirstWalkOf(s, f, dest, mother))
<1> DEFINE M == s.fs.itab[f].size
           G == {t \in Copies : Follows(s, t)}
<1>0. M \in Nat /\ f \in Itab
  BY GrownReflexive, GrownEntry, StateType DEF Fine, Sound, Formed, DirsOf, InUse
<1>1. \A n \in 1 .. M : \A t \in G : fs_copy_aux(t, Entry(t.fs, f, n - 1).ino, dest, mother) \in G
  <2> SUFFICES ASSUME NEW n \in 1 .. M, NEW t \in G
               PROVE  fs_copy_aux(t, Entry(t.fs, f, n - 1).ino, dest, mother) \in G
    OBVIOUS
  <2>1. t \in Copies /\ Follows(s, t) /\ Fine(t)
    BY DEF Follows
  <2> DEFINE e == Entry(t.fs, f, n - 1).ino
  <2>2. e \in Itab
    <3>1. Sound(s.fs) /\ Sound(t.fs) /\ Grown(s.fs, t.fs)
      BY <2>1 DEF Fine, Follows
    <3> QED BY <3>1, GrownEntry
  <2> HIDE DEF e
  <2>4. Follows(t, fs_copy_aux(t, e, dest, mother))
    BY <2>1, <2>2, CopyAuxKeeps
  <2>5. Follows(s, fs_copy_aux(t, e, dest, mother))
    BY <2>1, <2>4, FollowsTransitive
  <2>6. fs_copy_aux(t, e, dest, mother) \in Copies
    BY <2>5 DEF Follows, Fine
  <2> QED BY <2>5, <2>6 DEF e
<1>2. s \in G
  BY GrownReflexive, FollowsFields DEF Fine
<1>3. G \subseteq Copies /\ \A t \in G : Follows(s, t)
  OBVIOUS
<1> HIDE DEF G, M
<1>4. FirstWalkOf(s, f, dest, mother) \in G
  BY <1>0, <1>1, <1>2, <1>3, FirstWalkStays DEF M
<1> QED BY <1>3, <1>4

\* fs_copy_first: between two files, or from a directory.
LEMMA CopyFirstKeeps ==
  ASSUME NEW s, Fine(s), NEW file \in InUse(s.fs), NEW dest \in InUse(s.fs),
         s.fs.itab[dest].type = s.fs.itab[file].type, NEW mother \in Itab
  PROVE  Follows(s, fs_copy_first(s, file, dest, mother))
<1>0. Sound(s.fs) /\ OneBlockFiles(s.fs) /\ dest \in Itab /\ file \in Itab
  BY StateType DEF Fine, Sound, Formed, InUse
<1>1. CASE s.fs.itab[file].type = FILE
  <2> DEFINE x == copy_inode(s.fs, dest, file)
  <2>1. file \in FilesOf(s.fs) /\ dest \in FilesOf(s.fs)
    BY <1>1 DEF FilesOf
  <2>2. Sound(x) /\ OneBlockFiles(x) /\ Grown(s.fs, x) /\ (FewNames /\ OnePageDirs(s.fs) => OnePageDirs(x))
    BY <1>0, <2>1, CopyInodeKeeps
  <2> HIDE DEF x
  <2>3. Follows(s, [s EXCEPT !.fs = x])
    BY <2>2, FollowsFields
  <2>4. fs_copy_first(s, file, dest, mother) = [s EXCEPT !.fs = x]
    BY <1>1 DEF fs_copy_first, x
  <2> QED BY <2>3, <2>4
<1>2. CASE s.fs.itab[file].type # FILE
  <2>1. file \in DirsOf(s.fs)
    BY <1>0, <1>2, StateType DEF Sound, Formed, DirsOf
  <2>2. fs_copy_first(s, file, dest, mother) = FirstWalkOf(s, file, dest, mother)
    BY <1>2 DEF fs_copy_first, FirstWalkOf, FirstWalkIs
  <2> QED BY <2>1, <2>2, <1>0, FirstWalkKeeps
<1> QED BY <1>1, <1>2

\* The one inode a search finds.
LEMMA FoundIs ==
  ASSUME NEW s, Sound(s), NEW dir, IsDir(s, dir), NEW name \in Names,
         NEW found, found = fsi_dir_search(s, dir, name), found # {}
  PROVE  (CHOOSE f \in found : TRUE) \in InUse(s)
<1>1. dir \in InUse(s)
  BY DEF IsDir, InUse
<1>2. \E x \in InUse(s) : found = {x}
  BY <1>1, SearchIs
<1> QED BY <1>2

\* fs_copy.
LEMMA CopyKeeps ==
  ASSUME NEW s, Sound(s), OneBlockFiles(s), NEW dir \in Itab, NEW name \in Names,
         NEW dest \in Itab, NEW destName \in Names, NEW t, t = fs_copy(s, dir, name, dest, destName).fs
  PROVE  Sound(t) /\ OneBlockFiles(t) /\ (FewNames /\ OnePageDirs(s) => OnePageDirs(t))
<1> DEFINE found == fsi_dir_search(s, dir, name)
           src == CHOOSE f \in found : TRUE
           type == s.itab[src].type
           there == fsi_dir_search(s, dest, destName)
           dst == CHOOSE f \in there : TRUE
           made == NewObject(s, dest, destName, type)
           count == countcopies(s, src) - 1
           start == [fs |-> s, ret |-> OK, count |-> count]
           begun == [start EXCEPT !.fs = made.fs]
           r1 == fs_copy_first(start, src, dst, dest)
           r2 == fs_copy_first(begun, src, made.ino, src)
<1>1. \/ t = s
      \/ /\ IsDir(s, dir) /\ IsDir(s, dest) /\ found # {}
         /\ \/ there # {} /\ s.itab[dst].type = type /\ t = r1.fs
            \/ made.ret # Fail /\ t = r2.fs
  BY DEF fs_copy
<1> HIDE DEF r1, r2
<1>2. CASE t = s
  BY <1>2
<1>3. ASSUME IsDir(s, dir), IsDir(s, dest), found # {}
      PROVE  src \in InUse(s) /\ src \in Itab /\ type \in {FILE, DIR} /\ Fine(start) /\ start.fs = s
  <2>1. src \in InUse(s)
    <3> HIDE DEF src
    <3> QED BY <1>3, FoundIs DEF src
  <2> HIDE DEF src
  <2>2. src \in Itab /\ type \in {FILE, DIR} /\ s \in States
    BY <2>1, StateType DEF Sound, Formed, InUse
  <2>3. count \in Int
    <3>1. countcopies(s, src) \in Int
      BY <2>2, CountIsInt
    <3> QED BY <3>1
  <2> HIDE DEF count
  <2>4. start \in Copies /\ start.fs = s
    BY <2>2, <2>3 DEF Copies
  <2> QED BY <2>1, <2>2, <2>4 DEF Fine
<1>4. ASSUME NEW a, NEW x, Fine(a), a.fs = s \/ (Keeps(s, a.fs) /\ Grown(s, a.fs)), Follows(a, x), t = x.fs
      PROVE  Sound(t) /\ OneBlockFiles(t) /\ (FewNames /\ OnePageDirs(s) => OnePageDirs(t))
  <2>1. Sound(t) /\ OneBlockFiles(t) /\ (FewNames /\ OnePageDirs(a.fs) => OnePageDirs(t))
    BY <1>4 DEF Follows, Fine
  <2> QED BY <2>1, <1>4 DEF Keeps
<1>5. CASE IsDir(s, dir) /\ IsDir(s, dest) /\ found # {} /\ there # {} /\ s.itab[dst].type = type /\ t = r1.fs
  <2>1. src \in InUse(s) /\ Fine(start) /\ start.fs = s
    BY <1>3, <1>5
  <2>2. dst \in InUse(s)
    <3> HIDE DEF dst
    <3> QED BY <1>5, FoundIs DEF dst
  <2> HIDE DEF src, dst, start
  <2>3. Follows(start, r1)
    BY <2>1, <2>2, <1>5, CopyFirstKeeps DEF r1
  <2> QED BY <2>1, <2>3, <1>4, <1>5
<1>6. CASE IsDir(s, dir) /\ IsDir(s, dest) /\ found # {} /\ made.ret # Fail /\ t = r2.fs
  <2>1. src \in InUse(s) /\ src \in Itab /\ type \in {FILE, DIR} /\ Fine(start) /\ start.fs = s
    BY <1>3, <1>6
  <2> HIDE DEF src, start
  <2>2. /\ Keeps(s, made.fs) /\ Grown(s, made.fs) /\ made.ret \in {OK, Fail}
        /\ made.ret = OK => made.ino \in InUse(made.fs) /\ made.ino \in Inodes /\ made.fs.itab[made.ino].type = type
    <3> HIDE DEF type, made
    <3> QED BY <2>1, NewObjectKeeps DEF made
  <2> HIDE DEF made
  <2>3. Sound(made.fs) /\ OneBlockFiles(made.fs) /\ (FewNames /\ OnePageDirs(s) => OnePageDirs(made.fs))
    BY <2>2 DEF Keeps
  <2>4. made.ino \in InUse(made.fs) /\ made.fs.itab[made.ino].type = type
    BY <2>2, <1>6
  <2>5. Follows(start, begun) /\ begun.fs = made.fs
    <3> DEFINE x == made.fs
    <3>1. /\ Sound(x) /\ OneBlockFiles(x) /\ Grown(start.fs, x)
          /\ (FewNames /\ OnePageDirs(start.fs) => OnePageDirs(x)) /\ Fine(start)
      BY <2>1, <2>2, <2>3
    <3> HIDE DEF x
    <3> QED BY <3>1, FollowsFields DEF x
  <2>6. src \in InUse(made.fs) /\ made.fs.itab[src].type = type
    BY <2>1, <2>2 DEF Grown
  <2> HIDE DEF begun
  <2>7. Fine(begun)
    BY <2>5 DEF Follows
  <2>8. Follows(begun, r2)
    BY <2>1, <2>4, <2>5, <2>6, <2>7, CopyFirstKeeps DEF r2
  <2> QED BY <2>2, <2>5, <2>7, <2>8, <1>4, <1>6
<1> QED BY <1>1, <1>2, <1>5, <1>6

\* One step of the recursion of Objects.
BelowFrom(b, s, d, g) ==
  {<<<< >>, g>>} \cup
  IF d = 0 \/ s.itab[g].type = FILE THEN {}
  ELSE UNION {{<<<<Entry(s, g, i).name>> \o o[1], o[2]>> : o \in b[d - 1][Entry(s, g, i).ino]} :
              i \in Positions(s, g)}
BelowUpTo(b, s) == b = [d \in 0 .. Depth |-> [g \in Itab |-> BelowFrom(b, s, d, g)]]

\* What it comes to.
Reach(s, d, g) == IF g \in InUse(s) THEN Ways(s, g, d) ELSE {<<<<>>, g>>}

\* The step takes what is reached in d - 1 steps to what is reached in d.
LEMMA BelowFromIs ==
  ASSUME NEW s, Sound(s), NEW d \in Nat, NEW g \in Itab, NEW b,
         d # 0 => \A e \in InUse(s) : b[d - 1][e] = Ways(s, e, d - 1)
  PROVE  BelowFrom(b, s, d, g) = Reach(s, d, g)
<1>0. s \in States /\ \A f \in Itab \ InUse(s) : s.itab[f] = fsi_inode_init(FILE)
  BY DEF Sound, Formed
<1>1. g \notin InUse(s) => s.itab[g].type = FILE
  BY <1>0 DEF fsi_inode_init
<1>2. CASE d = 0 \/ s.itab[g].type = FILE
  <2>1. BelowFrom(b, s, d, g) = {<<<<>>, g>>}
    BY <1>2 DEF BelowFrom
  <2>2. g \in InUse(s) => Ways(s, g, d) = {<<<<>>, g>>}
    BY <1>2, WaysStay, Constants DEF DirsOf
  <2> QED BY <2>1, <2>2 DEF Reach
<1>3. CASE d # 0 /\ s.itab[g].type # FILE
  <2>1. g \in DirsOf(s) /\ g \in InUse(s)
    BY <1>0, <1>1, <1>3, StateType DEF DirsOf
  <2>2. \A i \in Positions(s, g) : b[d - 1][Entry(s, g, i).ino] = Ways(s, Entry(s, g, i).ino, d - 1)
    BY <1>3, <2>1 DEF Sound, Linked
  <2> DEFINE S(i) == {<<<<Entry(s, g, i).name>> \o o[1], o[2]>> : o \in b[d - 1][Entry(s, g, i).ino]}
             W(i) == {<<<<Entry(s, g, i).name>> \o o[1], o[2]>> : o \in Ways(s, Entry(s, g, i).ino, d - 1)}
  <2>3. \A i \in Positions(s, g) : S(i) = W(i)
    BY <2>2
  <2>4. BelowFrom(b, s, d, g) = {<<<<>>, g>>} \cup UNION {S(i) : i \in Positions(s, g)}
    BY <1>3 DEF BelowFrom
  <2>5. Onward(s, g, d) = UNION {W(i) : i \in Positions(s, g)}
    BY DEF Onward
  <2> HIDE DEF S, W
  <2>6. UNION {S(i) : i \in Positions(s, g)} = UNION {W(i) : i \in Positions(s, g)}
    BY <2>3
  <2>7. Ways(s, g, d) = {<<<<>>, g>>} \cup Onward(s, g, d)
    BY <1>3, <2>1, WaysStep
  <2> QED BY <2>1, <2>4, <2>5, <2>6, <2>7 DEF Reach
<1> QED BY <1>2, <1>3

\* The recursion of Objects has one solution: Reach.
LEMMA BelowIsReach ==
  ASSUME NEW s, Sound(s)
  PROVE  /\ \E b : BelowUpTo(b, s)
         /\ \A b : BelowUpTo(b, s) => \A f \in InUse(s) : b[Depth][f] = Ways(s, f, Depth)
<1>0. Depth \in Nat /\ InUse(s) \subseteq Itab
  BY Constants, StateType DEF Depth, Sound, Formed, InUse
<1> DEFINE B == [d \in 0 .. Depth |-> [g \in Itab |-> Reach(s, d, g)]]
<1>1. ASSUME NEW d \in 0 .. Depth, NEW g \in Itab PROVE BelowFrom(B, s, d, g) = Reach(s, d, g)
  <2>1. d # 0 => \A e \in InUse(s) : B[d - 1][e] = Ways(s, e, d - 1)
    <3>1. d # 0 => d - 1 \in 0 .. Depth
      BY <1>0
    <3> QED BY <3>1, <1>0 DEF Reach
  <2>2. d \in Nat
    BY <1>0
  <2> HIDE DEF B
  <2> QED BY <2>1, <2>2, BelowFromIs
<1>2. BelowUpTo(B, s)
  <2> DEFINE C == [d \in 0 .. Depth |-> [g \in Itab |-> BelowFrom(B, s, d, g)]]
  <2>1. \A d \in 0 .. Depth, g \in Itab : BelowFrom(B, s, d, g) = Reach(s, d, g)
    BY <1>1
  <2>2. \A d \in 0 .. Depth : [g \in Itab |-> BelowFrom(B, s, d, g)] = [g \in Itab |-> Reach(s, d, g)]
    BY <2>1
  <2>3. C = B
    BY <2>2
  <2> QED BY <2>3 DEF BelowUpTo
<1>3. \E b : BelowUpTo(b, s)
  <2> HIDE DEF B
  <2> QED BY <1>2
<1>4. ASSUME NEW b, BelowUpTo(b, s) PROVE \A f \in InUse(s) : b[Depth][f] = Ways(s, f, Depth)
  <2> DEFINE T == {d \in 0 .. Depth : \A e \in InUse(s) : b[d][e] = Ways(s, e, d)}
  <2>1. \A d \in 0 .. Depth, g \in Itab : b[d][g] = BelowFrom(b, s, d, g)
    <3> DEFINE C == [d \in 0 .. Depth |-> [g \in Itab |-> BelowFrom(b, s, d, g)]]
    <3>1. \A d \in 0 .. Depth, g \in Itab : C[d][g] = BelowFrom(b, s, d, g)
      OBVIOUS
    <3>2. b = C
      BY <1>4 DEF BelowUpTo
    <3> HIDE DEF C
    <3> QED BY <3>1, <3>2
  <2>2. 0 \in T
    <3>1. 0 \in 0 .. Depth /\ 0 \in Nat
      BY <1>0
    <3>2. \A g \in Itab : BelowFrom(b, s, 0, g) = Reach(s, 0, g)
      BY BelowFromIs
    <3> QED BY <3>1, <3>2, <2>1, <1>0 DEF Reach
  <2>3. \A d \in 1 .. Depth : d - 1 \in T => d \in T
    <3> SUFFICES ASSUME NEW d \in 1 .. Depth, d - 1 \in T PROVE d \in T
      OBVIOUS
    <3>1. d \in 0 .. Depth /\ d \in Nat
      BY <1>0
    <3>2. \A g \in Itab : BelowFrom(b, s, d, g) = Reach(s, d, g)
      <4>1. \A e \in InUse(s) : b[d - 1][e] = Ways(s, e, d - 1)
        OBVIOUS
      <4> QED BY <3>1, <4>1, BelowFromIs
    <3> QED BY <3>1, <3>2, <2>1, <1>0 DEF Reach
  <2> HIDE DEF T
  <2>4. Depth \in T
    <3>1. \A d \in 0 .. Depth : d \in T
      BY <1>0, <2>2, <2>3, BoundedInduction
    <3> QED BY <3>1, <1>0
  <2> QED BY <2>4 DEF T
<1> QED BY <1>3, <1>4

\* Objects are all there is below an inode, at the ends of the ways to them.
LEMMA ObjectsAre ==
  ASSUME Sound(fs), NEW f \in InUse(fs)
  PROVE  Objects(f) = Ways(fs, f, Depth)
<1> DEFINE U == CHOOSE b : BelowUpTo(b, fs)
<1>1. BelowUpTo(U, fs)
  BY BelowIsReach
<1>2. Objects(f) = U[Depth][f]
  BY DEF Objects, BelowUpTo, BelowFrom
<1> HIDE DEF U
<1> QED BY <1>1, <1>2, BelowIsReach

\* The paths from m to f of at most d + 1 names.
PathsFrom(s, m, d, f) == {p \in Seq(Names) : p # <<>> /\ Leads(s, m, p, f) /\ Len(p) <= d + 1}

\* One step of the recursion of fsi_dir_get_path_name.
WayOf(b, s, d, m, f, i) ==
  IF Entry(s, m, i).ino = f THEN {<<Entry(s, m, i).name>>}
  ELSE IF d = 0 \/ ~ IsDir(s, Entry(s, m, i).ino) THEN {}
  ELSE {Joined(Entry(s, m, i).name, p) : p \in b[d - 1][Entry(s, m, i).ino]}
PathStep(b, s, d, m, f) ==
  LET found == {i \in Positions(s, m) : WayOf(b, s, d, m, f, i) # {}}
  IN  IF found = {} THEN {} ELSE WayOf(b, s, d, m, f, LeastOf(found))
PathUpTo(b, s, f) == b = [d \in 0 .. Depth |-> [m \in Itab |-> PathStep(b, s, d, m, f)]]

\* b has the paths of d steps to f, from every directory.
Paths(b, s, d, f) == \A e \in DirsOf(s) : b[d][e] = PathsFrom(s, e, d, f)

\* A way by an entry begins with its name.
LEMMA WayOfIs ==
  ASSUME NEW s, Sound(s), NEW d \in Nat, NEW m \in DirsOf(s), NEW f \in InUse(s), NEW b,
         d # 0 => Paths(b, s, d - 1, f), NEW i \in Positions(s, m),
         NEW n, n = Entry(s, m, i).name, NEW e, e = Entry(s, m, i).ino, NEW x
  PROVE  x \in WayOf(b, s, d, m, f, i) <=> \E q : FirstStep(s, m, x, f, n, e, q) /\ Len(q) <= d
<1>0. HasEntry(s, m, n, e) /\ n \in Names /\ e \in InUse(s)
  <2>1. HasEntry(s, m, n, e)
    BY DEF HasEntry
  <2> QED BY <2>1, NamesType
<1>1. <<>> \in Seq(Names) /\ Len(<<>>) = 0
  BY EmptySeq
<1>2. ASSUME NEW q, FirstStep(s, m, x, f, n, e, q)
      PROVE  /\ q \in Seq(Names) /\ Len(q) \in Nat /\ Leads(s, e, q, f) /\ x = <<n>> \o q
             /\ e = f <=> q = <<>>
             /\ q # <<>> => e \in DirsOf(s) /\ Len(q) > 0
  <2>1. q \in Seq(Names) /\ Len(q) \in Nat /\ Leads(s, e, q, f) /\ x = <<n>> \o q
    BY <1>2, LenProperties DEF FirstStep
  <2>2. e = f => q = <<>>
    BY <2>1, NoLoop
  <2>3. q = <<>> => e = f
    BY <2>1, <1>0, LeadsNowhere
  <2>4. q # <<>> => e \in DirsOf(s) /\ Len(q) > 0
    <3> SUFFICES ASSUME q # <<>> PROVE e \in DirsOf(s) /\ Len(q) > 0
      OBVIOUS
    <3>1. PICK a, c, r : FirstStep(s, e, q, f, a, c, r)
      BY <2>1, LeadsFirst
    <3>2. e \in DirsOf(s) /\ Len(q) = Len(r) + 1 /\ Len(r) \in Nat
      BY <3>1, LenProperties DEF FirstStep, HasEntry
    <3> QED BY <3>2
  <2> QED BY <2>1, <2>2, <2>3, <2>4
<1>3. CASE e = f
  <2>1. WayOf(b, s, d, m, f, i) = {<<n>>}
    BY <1>3 DEF WayOf
  <2>2. <<n>> \in Seq(Names) /\ Len(<<n>>) = 1
    BY <1>0
  <2>3. <<n>> = <<n>> \o <<>>
    BY <2>2, ConcatEmptySeq
  <2>4. x = <<n>> => FirstStep(s, m, x, f, n, e, <<>>)
    <3>1. Leads(s, e, <<>>, f)
      BY <1>0, <1>3, LeadsNowhere
    <3>2. SUFFICES ASSUME NEW z, z = <<>>, NEW y, y = <<n>>, x = y PROVE FirstStep(s, m, x, f, n, e, z)
      OBVIOUS
    <3>3. z \in Seq(Names) /\ Len(z) = 0 /\ x = <<n>> \o z /\ Len(x) = 1 /\ Leads(s, e, z, f)
      BY <3>1, <3>2, <1>1, <2>2, <2>3
    <3> QED BY <3>3, <1>0 DEF FirstStep
  <2>5. \A q : FirstStep(s, m, x, f, n, e, q) => x = <<n>>
    BY <1>2, <1>3, <2>3
  <2>6. Len(<<>>) <= d
    BY <1>1
  <2> QED BY <2>1, <2>4, <2>5, <2>6
<1>4. CASE e # f /\ (d = 0 \/ ~ IsDir(s, e))
  <2>1. WayOf(b, s, d, m, f, i) = {}
    BY <1>4 DEF WayOf
  <2>2. ASSUME NEW q, FirstStep(s, m, x, f, n, e, q), Len(q) <= d PROVE FALSE
    <3>1. e \in DirsOf(s) /\ Len(q) > 0 /\ Len(q) \in Nat
      BY <1>2, <1>4, <2>2
    <3>2. IsDir(s, e)
      BY <3>1 DEF IsDir, DirsOf, InUse
    <3> QED BY <3>1, <3>2, <1>4, <2>2
  <2> QED BY <2>1, <2>2
<1>5. CASE e # f /\ d # 0 /\ IsDir(s, e)
  <2>1. WayOf(b, s, d, m, f, i) = {Joined(n, p) : p \in b[d - 1][e]}
    BY <1>5 DEF WayOf
  <2>2. e \in DirsOf(s)
    BY <1>5 DEF IsDir, DirsOf, InUse
  <2>3. b[d - 1][e] = PathsFrom(s, e, d - 1, f)
    BY <1>5, <2>2 DEF Paths
  <2>4. ASSUME NEW q, q \in PathsFrom(s, e, d - 1, f), x = <<n>> \o q
        PROVE  FirstStep(s, m, x, f, n, e, q) /\ Len(q) <= d
    <3>1. q \in Seq(Names) /\ Leads(s, e, q, f) /\ Len(q) \in Nat /\ Len(q) <= d - 1 + 1
      BY <2>4, LenProperties DEF PathsFrom
    <3>2. <<n>> \in Seq(Names) /\ Len(<<n>>) = 1
      BY <1>0
    <3>3. Len(x) = Len(q) + 1
      BY <3>1, <3>2, <2>4, ConcatProperties
    <3> QED BY <3>1, <3>3, <2>4, <1>0 DEF FirstStep
  <2>5. ASSUME NEW q, FirstStep(s, m, x, f, n, e, q), Len(q) <= d
        PROVE  q \in PathsFrom(s, e, d - 1, f) /\ x = <<n>> \o q
    <3>1. q \in Seq(Names) /\ Len(q) \in Nat /\ Leads(s, e, q, f) /\ x = <<n>> \o q /\ q # <<>>
      BY <1>2, <1>5, <2>5
    <3>2. Len(q) <= d - 1 + 1
      BY <2>5, <3>1
    <3> QED BY <3>1, <3>2 DEF PathsFrom
  <2>6. x \in WayOf(b, s, d, m, f, i) <=> \E q \in PathsFrom(s, e, d - 1, f) : x = <<n>> \o q
    BY <2>1, <2>3 DEF Joined
  <2> QED BY <2>4, <2>5, <2>6
<1> QED BY <1>3, <1>4, <1>5

\* From paths of d steps the recursion makes those of d + 1.
LEMMA PathStepIs ==
  ASSUME NEW s, Sound(s), NEW d \in Nat, NEW m \in DirsOf(s), NEW f \in InUse(s), NEW b,
         d # 0 => Paths(b, s, d - 1, f)
  PROVE  PathStep(b, s, d, m, f) = PathsFrom(s, m, d, f)
<1> DEFINE W(i) == WayOf(b, s, d, m, f, i)
           P == PathsFrom(s, m, d, f)
           found == {i \in Positions(s, m) : W(i) # {}}
<1>1. ASSUME NEW i \in Positions(s, m), NEW x \in W(i) PROVE x \in P
  <2>1. PICK q : FirstStep(s, m, x, f, Entry(s, m, i).name, Entry(s, m, i).ino, q) /\ Len(q) <= d
    BY WayOfIs
  <2>2. /\ q \in Seq(Names) /\ Len(x) = Len(q) + 1 /\ Leads(s, Entry(s, m, i).ino, q, f)
        /\ HasEntry(s, m, Entry(s, m, i).name, Entry(s, m, i).ino) /\ x = <<Entry(s, m, i).name>> \o q
    BY <2>1 DEF FirstStep
  <2>3. Leads(s, m, x, f)
    BY <2>2, LeadsFrom
  <2>4. Len(q) \in Nat
    BY <2>2, LenProperties
  <2>5. x \in Seq(Names) /\ x # <<>>
    <3>1. x \in Seq(Names)
      BY <2>3, LeadsType
    <3>2. Len(x) # 0
      BY <2>2, <2>4
    <3> QED BY <3>1, <3>2, EmptySeq
  <2> QED BY <2>1, <2>2, <2>3, <2>4, <2>5 DEF PathsFrom
<1>2. ASSUME NEW x \in P PROVE \E i \in Positions(s, m) : x \in W(i)
  <2>1. x \in Seq(Names) /\ x # <<>> /\ Leads(s, m, x, f) /\ Len(x) <= d + 1
    BY DEF PathsFrom
  <2>2. PICK n, e, q : FirstStep(s, m, x, f, n, e, q)
    BY <2>1, LeadsFirst
  <2>3. q \in Seq(Names) /\ Len(x) = Len(q) + 1 /\ HasEntry(s, m, n, e)
    BY <2>2 DEF FirstStep
  <2>4. PICK i \in Positions(s, m) : Entry(s, m, i).name = n /\ Entry(s, m, i).ino = e
    BY <2>3 DEF HasEntry
  <2>5. Len(q) \in Nat
    BY <2>3, LenProperties
  <2>6. Len(q) <= d
    BY <2>1, <2>3, <2>5
  <2>7. x \in WayOf(b, s, d, m, f, i)
    BY <2>2, <2>4, <2>6, WayOfIs
  <2> QED BY <2>7
<1>3. ASSUME NEW x \in P, NEW y \in P PROVE x = y
  BY OneWay DEF PathsFrom
<1> HIDE DEF W, P
<1>4. CASE found = {}
  <2>1. P = {}
    BY <1>2, <1>4
  <2>2. PathStep(b, s, d, m, f) = {}
    BY <1>4 DEF PathStep, W
  <2> QED BY <2>1, <2>2 DEF P
<1>5. CASE found # {}
  <2> DEFINE j == LeastOf(found)
  <2>1. j \in found
    <3>1. Positions(s, m) \in SUBSET Nat
      <4>1. s.itab[m].size \in Nat
        BY StateType DEF Sound, Formed, DirsOf, InUse
      <4> QED BY <4>1 DEF Positions
    <3>2. found \in SUBSET Nat
      BY <3>1
    <3> QED BY <3>2, <1>5, LeastNumber
  <2>2. PathStep(b, s, d, m, f) = W(j)
    BY <1>5 DEF PathStep, W
  <2> HIDE DEF j
  <2>3. W(j) = P
    BY <2>1, <1>1, <1>3
  <2> QED BY <2>2, <2>3 DEF P
<1> QED BY <1>4, <1>5

\* Only what directories have matters to it.
LEMMA PathStepSame ==
  ASSUME NEW s, NEW d, NEW m, NEW f, NEW b, NEW c, d # 0 => \A e \in DirsOf(s) : b[d - 1][e] = c[d - 1][e]
  PROVE  PathStep(b, s, d, m, f) = PathStep(c, s, d, m, f)
<1>1. \A i : WayOf(b, s, d, m, f, i) = WayOf(c, s, d, m, f, i)
  <2> SUFFICES ASSUME NEW i PROVE WayOf(b, s, d, m, f, i) = WayOf(c, s, d, m, f, i)
    OBVIOUS
  <2>1. CASE d = 0 \/ ~ IsDir(s, Entry(s, m, i).ino)
    BY <2>1 DEF WayOf
  <2>2. CASE d # 0 /\ IsDir(s, Entry(s, m, i).ino)
    <3>1. Entry(s, m, i).ino \in DirsOf(s)
      BY <2>2 DEF IsDir, DirsOf, InUse
    <3>2. b[d - 1][Entry(s, m, i).ino] = c[d - 1][Entry(s, m, i).ino]
      BY <2>2, <3>1
    <3> QED BY <3>2 DEF WayOf
  <2> QED BY <2>1, <2>2
<1> QED BY <1>1 DEF PathStep

\* The recursion of fsi_dir_get_path_name has one solution.
LEMMA PathsExist ==
  ASSUME NEW s, Sound(s), NEW f \in InUse(s)
  PROVE  /\ \E b : PathUpTo(b, s, f)
         /\ \A b : PathUpTo(b, s, f) => Paths(b, s, Depth, f)
<1>0. Depth \in Nat /\ DirsOf(s) \subseteq Itab
  BY Constants, StateType DEF Depth, Sound, Formed, InUse, DirsOf
<1> DEFINE C == [d \in 0 .. Depth |-> [m \in DirsOf(s) |-> PathsFrom(s, m, d, f)]]
           B == [d \in 0 .. Depth |-> [m \in Itab |-> PathStep(C, s, d, m, f)]]
<1>1. \A d \in 0 .. Depth : Paths(C, s, d, f)
  BY DEF Paths
<1>2. ASSUME NEW d \in 0 .. Depth PROVE Paths(B, s, d, f)
  <2> SUFFICES ASSUME NEW m \in DirsOf(s) PROVE B[d][m] = PathsFrom(s, m, d, f)
    BY DEF Paths
  <2>1. B[d][m] = PathStep(C, s, d, m, f)
    BY <1>0
  <2>2. d # 0 => d - 1 \in 0 .. Depth
    BY <1>0
  <2>3. d # 0 => Paths(C, s, d - 1, f)
    BY <1>1, <2>2
  <2>4. d \in Nat
    BY <1>0
  <2> HIDE DEF C
  <2>5. PathStep(C, s, d, m, f) = PathsFrom(s, m, d, f)
    BY <2>3, <2>4, PathStepIs
  <2> QED BY <2>1, <2>5
<1>3. ASSUME NEW d \in 0 .. Depth, NEW m \in Itab PROVE PathStep(B, s, d, m, f) = PathStep(C, s, d, m, f)
  <2>1. d # 0 => d - 1 \in 0 .. Depth
    BY <1>0
  <2>2. d # 0 => \A e \in DirsOf(s) : B[d - 1][e] = C[d - 1][e]
    BY <1>1, <1>2, <2>1 DEF Paths
  <2> HIDE DEF B, C
  <2> QED BY <2>2, PathStepSame
<1>4. PathUpTo(B, s, f)
  <2> DEFINE A == [d \in 0 .. Depth |-> [m \in Itab |-> PathStep(B, s, d, m, f)]]
  <2>1. \A d \in 0 .. Depth : [m \in Itab |-> PathStep(B, s, d, m, f)] = [m \in Itab |-> PathStep(C, s, d, m, f)]
    BY <1>3
  <2>2. A = B
    BY <2>1
  <2> QED BY <2>2 DEF PathUpTo
<1>5. \E b : PathUpTo(b, s, f)
  <2> HIDE DEF B
  <2> QED BY <1>4
<1>6. ASSUME NEW b, PathUpTo(b, s, f) PROVE Paths(b, s, Depth, f)
  <2> DEFINE T == {d \in 0 .. Depth : Paths(b, s, d, f)}
  <2>1. \A d \in 0 .. Depth, m \in Itab : b[d][m] = PathStep(b, s, d, m, f)
    <3> DEFINE A == [d \in 0 .. Depth |-> [m \in Itab |-> PathStep(b, s, d, m, f)]]
    <3>1. \A d \in 0 .. Depth, m \in Itab : A[d][m] = PathStep(b, s, d, m, f)
      OBVIOUS
    <3>2. b = A
      BY <1>6 DEF PathUpTo
    <3> HIDE DEF A
    <3> QED BY <3>1, <3>2
  <2>2. ASSUME NEW d \in 0 .. Depth, d # 0 => Paths(b, s, d - 1, f) PROVE d \in T
    <3>1. d \in Nat
      BY <1>0
    <3>2. \A m \in DirsOf(s) : PathStep(b, s, d, m, f) = PathsFrom(s, m, d, f)
      BY <2>2, <3>1, PathStepIs
    <3>3. Paths(b, s, d, f)
      BY <3>2, <2>1, <1>0 DEF Paths
    <3> QED BY <3>3
  <2>3. 0 \in T
    BY <2>2, <1>0
  <2>4. \A d \in 1 .. Depth : d - 1 \in T => d \in T
    <3> SUFFICES ASSUME NEW d \in 1 .. Depth, d - 1 \in T PROVE d \in T
      OBVIOUS
    <3>1. d \in 0 .. Depth /\ Paths(b, s, d - 1, f)
      BY <1>0
    <3> QED BY <3>1, <2>2
  <2> HIDE DEF T
  <2>5. Depth \in T
    <3>1. \A d \in 0 .. Depth : d \in T
      BY <1>0, <2>3, <2>4, BoundedInduction
    <3> QED BY <3>1, <1>0
  <2> QED BY <2>5 DEF T
<1> QED BY <1>5, <1>6

\* fsi_get_path_name is the way from the root.
LEMMA PathNameIs ==
  ASSUME NEW s, Sound(s), NEW f, NEW p, Leads(s, Root, p, f)
  PROVE  fsi_get_path_name(s, f) = {p}
<1>0. p \in Seq(Names) /\ Len(p) \in Nat /\ f \in InUse(s) /\ Root \in InUse(s)
  BY LeadsType
<1>1. CASE f = Root
  <2>1. p = <<>>
    BY <1>1, RootIsFirst
  <2> QED BY <2>1, <1>0, <1>1 DEF fsi_get_path_name, InUse
<1>2. CASE f # Root
  <2> DEFINE U == CHOOSE b : PathUpTo(b, s, f)
  <2>1. PathUpTo(U, s, f)
    BY <1>0, PathsExist
  <2>2. fsi_dir_get_path_name(s, Root, f) = U[Depth][Root]
    BY DEF fsi_dir_get_path_name, PathUpTo, PathStep, WayOf
  <2> HIDE DEF U
  <2>3. Root \in DirsOf(s)
    BY <1>0 DEF Sound, Formed, DirsOf
  <2>4. U[Depth][Root] = PathsFrom(s, Root, Depth, f)
    BY <1>0, <2>1, <2>3, PathsExist DEF Paths
  <2>5. PathsFrom(s, Root, Depth, f) = {p}
    <3>1. p # <<>>
      BY <1>0, <1>2, LeadsNowhere
    <3>2. Len(p) <= Depth + 1
      BY PathIsShort, Constants DEF Depth
    <3>3. p \in PathsFrom(s, Root, Depth, f)
      BY <1>0, <3>1, <3>2 DEF PathsFrom
    <3>4. \A q \in PathsFrom(s, Root, Depth, f) : q = p
      BY OneWay DEF PathsFrom
    <3> QED BY <3>3, <3>4
  <2>6. fsi_get_path_name(s, f) = fsi_dir_get_path_name(s, Root, f)
    BY <1>0, <1>2 DEF fsi_get_path_name, InUse
  <2> QED BY <2>2, <2>4, <2>5, <2>6
<1> QED BY <1>1, <1>2

\* Those that hold a block are the objects it is a block of: what is not in use
\* holds none, and blocks[] has no gap.
LEMMA HoldersAre ==
  ASSUME Sound(fs), NEW b, b # NoBlk
  PROVE  \A f : f \in Holders(fs, b) <=> f \in InUse(fs) /\ b \in Chain(f)
<1>0. /\ Formed(fs) /\ Backed(fs) /\ InUse(fs) \subseteq Itab /\ InUse(fs) \subseteq Inodes
      /\ InodeBlocks \in Nat /\ Inodes \subseteq Itab
  BY StateType, Constants DEF Sound, Formed, InUse, Itab
<1> SUFFICES ASSUME NEW f PROVE f \in Holders(fs, b) <=> f \in InUse(fs) /\ b \in Chain(f)
  OBVIOUS
<1>1. CASE f \in InUse(fs)
  <2> DEFINE n == ChainLength(fs.itab[f].blocks)
  <2>1. /\ n \in 0 .. InodeBlocks
        /\ \A k \in 0 .. InodeBlocks : fs.itab[f].blocks[k] # NoBlk <=> k < n
    BY <1>0, <1>1, ChainIs
  <2>2. Chain(f) = {fs.itab[f].blocks[k] : k \in 0 .. n - 1}
    BY DEF Chain
  <2> HIDE DEF n
  <2>3. ASSUME f \in Holders(fs, b) PROVE b \in Chain(f)
    <3>1. PICK k \in 0 .. InodeBlocks - 1 : fs.itab[f].blocks[k] = b
      BY <2>3 DEF Holders
    <3>2. k \in 0 .. InodeBlocks
      BY <1>0
    <3>3. k < n
      BY <2>1, <3>1, <3>2
    <3>4. k \in 0 .. n - 1
      BY <1>0, <2>1, <3>3
    <3> QED BY <2>2, <3>1, <3>4
  <2>4. ASSUME b \in Chain(f) PROVE f \in Holders(fs, b)
    <3>1. PICK k \in 0 .. n - 1 : fs.itab[f].blocks[k] = b
      BY <2>2, <2>4
    <3>2. k \in 0 .. InodeBlocks - 1
      BY <1>0, <2>1
    <3> QED BY <1>0, <1>1, <3>1, <3>2 DEF Holders
  <2> QED BY <1>1, <2>3, <2>4
<1>2. CASE f \notin InUse(fs)
  <2> SUFFICES ASSUME f \in Holders(fs, b) PROVE FALSE
    BY <1>2
  <2>1. f \in Itab \ InUse(fs)
    BY <1>0, <1>2 DEF Holders
  <2>2. fs.itab[f].blocks = NoBlocks
    BY <1>0, <2>1 DEF Formed, fsi_inode_init
  <2>3. PICK k \in 0 .. InodeBlocks - 1 : fs.itab[f].blocks[k] = b
    BY DEF Holders
  <2>4. k \in 0 .. InodeBlocks
    BY <1>0
  <2> QED BY <2>2, <2>3, <2>4 DEF NoBlocks
<1> QED BY <1>1, <1>2

\* The objects below the root are what paths lead to.
LEMMA ObjectsBelowRoot ==
  ASSUME Sound(fs)
  PROVE  /\ \A o \in Objects(Root) : o = <<o[1], o[2]>> /\ Leads(fs, Root, o[1], o[2])
         /\ \A p, h : Leads(fs, Root, p, h) => <<p, h>> \in Objects(Root)
<1>0. Root \in InUse(fs) /\ Depth = NumInodes /\ NumInodes \in Nat
  BY StateType, Constants DEF Sound, Formed, InUse, Depth
<1>1. Objects(Root) = Ways(fs, Root, Depth)
  BY <1>0, ObjectsAre
<1>2. ASSUME NEW o \in Ways(fs, Root, Depth) PROVE o = <<o[1], o[2]>> /\ Leads(fs, Root, o[1], o[2])
  BY DEF Ways
<1>3. ASSUME NEW p, NEW h, Leads(fs, Root, p, h) PROVE <<p, h>> \in Ways(fs, Root, Depth)
  <2>1. Len(p) \in Nat /\ Len(p) + 2 <= NumInodes
    BY <1>3, PathIsShort
  <2>2. Len(p) <= Depth
    BY <1>0, <2>1
  <2>3. p \in Seq(Names) /\ h \in InUse(fs)
    BY <1>3, LeadsType
  <2> QED BY <1>3, <2>2, <2>3, WayIn
<1> QED BY <1>1, <1>2, <1>3

\* The files of a block in the report are the paths of the objects that have it.
LEMMA ReportIs ==
  ASSUME Sound(fs), NEW b, b # NoBlk
  PROVE  /\ \A f \in Holders(fs, b) : fsi_get_path_name(fs, f) # {}
         /\ UNION {fsi_get_path_name(fs, f) : f \in Holders(fs, b)}
              = {o[1] : o \in {o \in Objects(Root) : b \in Chain(o[2])}}
<1> DEFINE L == UNION {fsi_get_path_name(fs, f) : f \in Holders(fs, b)}
           R == {o[1] : o \in {o \in Objects(Root) : b \in Chain(o[2])}}
<1>1. ASSUME NEW f \in Holders(fs, b)
      PROVE  \E p : fsi_get_path_name(fs, f) = {p} /\ p \in R
  <2>1. f \in InUse(fs) /\ b \in Chain(f)
    BY HoldersAre
  <2>2. PICK p \in Seq(Names) : Leads(fs, Root, p, f)
    BY <2>1, PathExists
  <2>3. fsi_get_path_name(fs, f) = {p}
    BY <2>2, PathNameIs
  <2>4. <<p, f>> \in Objects(Root)
    BY <2>2, ObjectsBelowRoot
  <2>5. p \in R
    BY <2>1, <2>4
  <2> QED BY <2>3, <2>5
<1>2. ASSUME NEW x \in R PROVE x \in L
  <2>1. PICK o \in Objects(Root) : b \in Chain(o[2]) /\ x = o[1]
    OBVIOUS
  <2>2. Leads(fs, Root, o[1], o[2])
    BY ObjectsBelowRoot
  <2>3. o[2] \in InUse(fs)
    BY <2>2, LeadsType
  <2>4. o[2] \in Holders(fs, b)
    BY <2>1, <2>3, HoldersAre
  <2>5. fsi_get_path_name(fs, o[2]) = {x}
    BY <2>1, <2>2, PathNameIs
  <2> QED BY <2>4, <2>5
<1>3. L \subseteq R
  <2> HIDE DEF R
  <2> QED BY <1>1
<1>4. L = R
  <2> HIDE DEF L, R
  <2> QED BY <1>2, <1>3
<1>5. \A f \in Holders(fs, b) : fsi_get_path_name(fs, f) # {}
  <2> HIDE DEF R
  <2> QED BY <1>1
<1> QED BY <1>4, <1>5

\* The walks of a sound file system agree.
LEMMA InvariantWalks ==
  ASSUME Sound(fs)
  PROVE  WalksAgree
<1> DEFINE objects == Objects(Root)
           paths == {o[1] : o \in objects}
           usage == fs_diskusage(fs)
<1>1. ASSUME NEW o \in objects
      PROVE  /\ o[1] # << >> => fs_lookup(fs, o[1]) = [ret |-> 1, ino |-> {o[2]}]
             /\ fsi_get_path_name(fs, o[2]) = {o[1]}
  <2>1. Leads(fs, Root, o[1], o[2])
    BY ObjectsBelowRoot
  <2>2. o[1] \in Seq(Names)
    BY <2>1, LeadsType
  <2>3. fsi_get_path_name(fs, o[2]) = {o[1]}
    BY <2>1, PathNameIs
  <2>4. o[1] # << >> => fs_lookup(fs, o[1]) = [ret |-> 1, ino |-> {o[2]}]
    BY <2>1, <2>2, LookupFinds
  <2> QED BY <2>2, <2>3, <2>4
<1>2. ASSUME NEW q \in paths, NEW n \in Names, Append(q, n) \notin paths
      PROVE  fs_lookup(fs, Append(q, n)).ret # 1
  <2> DEFINE x == Append(q, n)
  <2>1. q \in Seq(Names)
    <3>1. \A o \in objects : o[1] \in Seq(Names)
      BY ObjectsBelowRoot, LeadsType
    <3>2. PICK o \in objects : q = o[1]
      OBVIOUS
    <3> QED BY <3>1, <3>2
  <2>2. x \in Seq(Names) /\ x # <<>>
    BY <2>1, AppendProperties
  <2>3. ASSUME NEW h, Leads(fs, Root, x, h) PROVE FALSE
    <3>1. <<x, h>> \in objects
      BY <2>3, ObjectsBelowRoot
    <3>2. x \in paths
      BY <3>1
    <3> QED BY <1>2, <3>2
  <2> HIDE DEF x
  <2>4. fs_lookup(fs, x).ret # 1
    BY <2>2, <2>3, LookupFinds
  <2> QED BY <2>4 DEF x
<1>3. /\ usage.ret = OK
      /\ \A b \in DOMAIN usage.files : usage.files[b] = {o[1] : o \in {o \in objects : b \in Chain(o[2])}}
  <2> DEFINE listed == {b \in fs.bused \ {NoBlk} : b <= fsi_num_blocks_used(fs) + 1}
             Named(b) == UNION {fsi_get_path_name(fs, f) : f \in Holders(fs, b)}
  <2>1. /\ (\A b \in listed : \A f \in Holders(fs, b) : fsi_get_path_name(fs, f) # {}) => usage.ret = OK
        /\ usage.files = [b \in listed |-> Named(b)]
    BY DEF fs_diskusage
  <2>2. ASSUME NEW b \in listed
        PROVE  /\ \A f \in Holders(fs, b) : fsi_get_path_name(fs, f) # {}
               /\ Named(b) = {o[1] : o \in {o \in objects : b \in Chain(o[2])}}
    BY ReportIs
  <2> HIDE DEF usage, listed, Named, objects
  <2> QED BY <2>1, <2>2
<1> QED BY <1>1, <1>2, <1>3, Zenon DEF WalksAgree

-----------------------------------------------------------------------------
(* The file system.                                                         *)

\* What the theorems ask of an instance.  A directory that is removed from has
\* one page: swap_entry goes on over a second one whatever its cells hold.  A
\* file that may be copied has one block, and when a copy is written there is a
\* block free for it: copy_inode_write leaves blocks shared when it fails.
Limits ==
  /\ "remove" \in Kinds => FewNames
  /\ "copy" \in Kinds => /\ "append" \notin Kinds /\ Reserve > 0
                         /\ \A offset \in Offsets, data \in Writes : offset + Len(data) <= PageSize

\* The inductive invariant.
Invariant ==
  /\ Sound(fs)
  /\ "copy" \in Kinds => OneBlockFiles(fs)
  /\ "copy" \notin Kinds => Alone(fs)
  /\ "remove" \in Kinds => OnePageDirs(fs)

\* The invariant holds at first.
LEMMA InvariantStart == Init => Invariant
  BY FormatIs DEF Init, Invariant

\* A file is written in a state that has a block for it.
LEMMA RoomIs ==
  ASSUME Room, Reserve > 0
  PROVE  FreeBlocks(fs) # {}
<1> SUFFICES ASSUME FreeBlocks(fs) = {} PROVE FALSE
  OBVIOUS
<1>1. Cardinality(FreeBlocks(fs)) = 0
  BY FS_EmptySet
<1>2. Reserve \in Nat
  BY FileSystemAssumption
<1> QED BY <1>1, <1>2 DEF Room

\* When no file has sharers, no block is in two places.
LEMMA UnsharedAlone ==
  ASSUME Sound(fs), Unshared
  PROVE  Alone(fs)
<1>1. InUse(fs) \subseteq Inodes
  BY StateType, Constants DEF Sound, Formed, InUse, Itab
<1>2. \A f \in InUse(fs) : Own(fs, f)
  BY <1>1, SharersAre DEF Unshared
<1> QED BY <1>2 DEF Own, Alone

\* Every call keeps it.
LEMMA InvariantStep == Limits /\ Invariant /\ [Next]_fs => Invariant'
<1> SUFFICES ASSUME Limits, Invariant, [Next]_fs PROVE Invariant'
  OBVIOUS
<1> DEFINE Held(t) == /\ Sound(t)
                      /\ "copy" \in Kinds => OneBlockFiles(t)
                      /\ "copy" \notin Kinds => Alone(t)
                      /\ "remove" \in Kinds => OnePageDirs(t)
<1>0. /\ Sound(fs) /\ ("copy" \in Kinds => OneBlockFiles(fs)) /\ ("copy" \notin Kinds => Alone(fs))
      /\ ("remove" \in Kinds => OnePageDirs(fs)) /\ ("remove" \in Kinds => FewNames)
  BY DEF Invariant, Limits
<1>1. ASSUME NEW t, fs' = t, Held(t) PROVE Invariant'
  BY <1>1 DEF Invariant
<1>2. Inodes \subseteq Itab /\ Inodes = Itab \ {0}
  BY Constants DEF Itab
<1>3. ASSUME NEW dir \in Inodes, NEW name \in Names, NEW type \in {FILE, DIR}
      PROVE  Held(NewObject(fs, dir, name, type).fs)
  <2> DEFINE r == NewObject(fs, dir, name, type)
  <2>1. Keeps(fs, r.fs) /\ (Alone(fs) => Alone(r.fs))
    <3> HIDE DEF r
    <3> QED BY <1>0, <1>2, NewObjectKeeps DEF r
  <2> HIDE DEF r
  <2> QED BY <1>0, <2>1 DEF Keeps, r
<1>4. CASE Create
  <2>1. PICK dir \in Inodes, name \in Names : fs' = fs_create(fs, dir, name).fs
    BY <1>4 DEF Create
  <2>2. fs' = NewObject(fs, dir, name, FILE).fs
    BY <2>1 DEF fs_create
  <2> HIDE DEF Held
  <2> QED BY <1>1, <1>3, <2>2
<1>5. CASE Mkdir
  <2>1. PICK dir \in Inodes, name \in Names : fs' = fs_mkdir(fs, dir, name).fs
    BY <1>5 DEF Mkdir
  <2>2. fs' = NewObject(fs, dir, name, DIR).fs
    BY <2>1 DEF fs_mkdir
  <2> HIDE DEF Held
  <2> QED BY <1>1, <1>3, <2>2
<1>6. CASE Write
  <2>1. PICK file \in Inodes, offset \in Offsets, data \in Writes : fs' = fs_write(fs, file, offset, data).fs
    BY <1>6 DEF Write
  <2> DEFINE r == fs_write(fs, file, offset, data)
  <2>2. offset \in Nat /\ data \in Seq(Data) /\ file \in Itab
    BY <1>2, FileSystemAssumption
  <2>3. Alone(fs) \/ FreeBlocks(fs) # {}
    BY <1>0, <1>6, RoomIs DEF Write, Limits
  <2>4. /\ Sound(r.fs)
        /\ OneBlockFiles(fs) /\ offset + Len(data) <= PageSize => OneBlockFiles(r.fs)
        /\ FewNames /\ OnePageDirs(fs) => OnePageDirs(r.fs)
        /\ Alone(fs) => Alone(r.fs)
    <3> HIDE DEF r
    <3> QED BY <1>0, <2>2, <2>3, WriteKeeps DEF r
  <2> HIDE DEF r
  <2>5. "copy" \in Kinds => offset + Len(data) <= PageSize
    BY DEF Limits
  <2>6. Held(r.fs)
    BY <1>0, <2>4, <2>5
  <2> HIDE DEF Held
  <2> QED BY <1>1, <2>1, <2>6 DEF r
<1>7. CASE Remove
  <2>1. PICK dir \in Inodes, name \in Names, stale \in Lingering : fs' = fs_remove(fs, dir, name, stale).fs
    BY <1>7 DEF Remove
  <2> DEFINE t == fs_remove(fs, dir, name, stale).fs
  <2>2. OnePageDirs(fs)
    BY <1>0, <1>7 DEF Remove
  <2>3. Sound(t) /\ OnePageDirs(t) /\ (OneBlockFiles(fs) => OneBlockFiles(t)) /\ (Alone(fs) => Alone(t))
    <3> HIDE DEF t
    <3> QED BY <1>0, <1>2, <2>2, RemoveKeeps DEF t
  <2> HIDE DEF t
  <2>4. Held(t)
    BY <1>0, <2>3
  <2> HIDE DEF Held
  <2> QED BY <1>1, <2>1, <2>4 DEF t
<1>8. CASE Copy
  <2>1. PICK dir \in Inodes, dest \in Inodes, name \in Names, destName \in Names :
          fs' = fs_copy(fs, dir, name, dest, destName).fs
    BY <1>8 DEF Copy
  <2> DEFINE t == fs_copy(fs, dir, name, dest, destName).fs
  <2>2. "copy" \in Kinds /\ OneBlockFiles(fs)
    BY <1>0, <1>8 DEF Copy
  <2>3. Sound(t) /\ OneBlockFiles(t) /\ (FewNames /\ OnePageDirs(fs) => OnePageDirs(t))
    <3> HIDE DEF t
    <3> QED BY <1>0, <1>2, <2>2, CopyKeeps DEF t
  <2> HIDE DEF t
  <2>4. Held(t)
    BY <1>0, <2>2, <2>3
  <2> HIDE DEF Held
  <2> QED BY <1>1, <2>1, <2>4 DEF t
<1>9. CASE AppendFile
  <2>1. PICK dir \in Inodes, dest \in Inodes, name \in Names, destName \in Names :
          fs' = fs_append(fs, dest, destName, dir, name).fs
    BY <1>9 DEF AppendFile
  <2> DEFINE r == fs_append(fs, dest, destName, dir, name)
  <2>2. "copy" \notin Kinds /\ Alone(fs)
    BY <1>0, <1>9 DEF AppendFile, Limits
  <2>3. Sound(r.fs) /\ Alone(r.fs) /\ (FewNames /\ OnePageDirs(fs) => OnePageDirs(r.fs))
    <3> HIDE DEF r
    <3> QED BY <1>0, <1>2, <2>2, AppendKeeps DEF r
  <2> HIDE DEF r
  <2>4. Held(r.fs)
    BY <1>0, <2>2, <2>3
  <2> HIDE DEF Held
  <2> QED BY <1>1, <2>1, <2>4 DEF r
<1>10. CASE UNCHANGED fs
  BY <1>10 DEF Invariant
<1>11. CASE Defrag
  <2> DEFINE r == fs_defrag(fs)
  <2>1. Unshared /\ r.sane /\ fs' = r.fs
    BY <1>11 DEF Defrag
  <2> HIDE DEF r
  <2>2. Alone(fs)
    BY <1>0, <2>1, UnsharedAlone
  <2>3. Tidy(fs, r.fs)
    BY <1>0, <2>1, <2>2, DefragKeeps DEF r
  <2>4. Held(r.fs)
    BY <1>0, <2>3 DEF Tidy
  <2> HIDE DEF Held
  <2> QED BY <1>1, <2>1, <2>4
<1> QED BY <1>4, <1>5, <1>6, <1>7, <1>8, <1>9, <1>10, <1>11 DEF Next

\* So it holds always.
LEMMA InvariantHolds == Limits => (Spec => []Invariant)
<1> SUFFICES ASSUME Limits PROVE Spec => []Invariant
  OBVIOUS
<1>1. Invariant /\ [Next]_fs => Invariant'
  BY InvariantStep
<1> QED BY <1>1, InvariantStart, PTL DEF Spec

\* A sound file system has its types.
LEMMA InvariantTypes ==
  ASSUME Sound(fs)
  PROVE  TypeOK
<1>0. Formed(fs) /\ Backed(fs) /\ fs \in States
  BY DEF Sound, Formed
<1>1. fs.iused \subseteq Itab /\ fs.bused \subseteq BlockNos /\ {0, Root} \subseteq fs.iused /\ NoBlk \in fs.bused
  BY <1>0, StateType DEF Formed
<1>2. ASSUME NEW f \in Itab
      PROVE  /\ fs.itab[f].type \in {FILE, DIR}
             /\ fs.itab[f].size \in 0 .. InodeBlocks * PageSize
             /\ \A k \in 0 .. InodeBlocks : fs.itab[f].blocks[k] \in BlockNos
             /\ fs.itab[f].blocks[InodeBlocks] = NoBlk
  <2> DEFINE m == InodeBlocks * PageSize
  <2>1. m \in Nat
    BY Constants
  <2>2. fs.itab[f].size \in Nat /\ fs.itab[f].size <= m
    BY <1>0, StateType
  <2> HIDE DEF m
  <2>3. fs.itab[f].size \in 0 .. m
    BY <2>1, <2>2
  <2> QED BY <1>0, <2>3, StateType DEF Backed, m
<1>3. \A b \in BlockNos, k \in 0 .. PageSize - 1 :
        fs.store[b][k] \in [name : Names \cup Data \cup {Empty}, ino : Itab]
  BY <1>0, StateType DEF Cells
<1> QED BY <1>1, <1>2, <1>3 DEF TypeOK

\* A sound file system is a tree.
LEMMA InvariantTree ==
  ASSUME Sound(fs)
  PROVE  TreeShape
<1>0. Linked(fs) /\ Parented(fs) /\ Rooted(fs) /\ Used = InUse(fs) /\ Dirs = DirsOf(fs)
  BY DEF Sound, Used, Dirs, InUse, DirsOf
<1>1. \A l \in Links : /\ l[1] \in DirsOf(fs) /\ l[2] \in Positions(fs, l[1])
                       /\ l[3] = Entry(fs, l[1], l[2]) /\ l = <<l[1], l[2], l[3]>>
  BY <1>0 DEF Links
<1>2. \A d \in DirsOf(fs) : \A i \in Positions(fs, d) : <<d, i, Entry(fs, d, i)>> \in Links
  BY <1>0 DEF Links
<1>3. \A l \in Links : l[3].ino \in Used \ {Root}
  BY <1>0, <1>1 DEF Linked
<1>4. ASSUME NEW f \in Used \ {Root} PROVE Cardinality({l \in Links : l[3].ino = f}) = 1
  <2>1. PICK d \in DirsOf(fs) : \E i \in Positions(fs, d) : Entry(fs, d, i).ino = f
    BY <1>0 DEF Parented
  <2>2. PICK i \in Positions(fs, d) : Entry(fs, d, i).ino = f
    BY <2>1
  <2> DEFINE l == <<d, i, Entry(fs, d, i)>>
  <2>3. l \in Links /\ l[3].ino = f
    BY <1>2, <2>2
  <2>4. ASSUME NEW m \in Links, m[3].ino = f PROVE m = l
    <3>1. m[1] = d /\ m[2] = i
      BY <1>0, <1>1, <2>2, <2>4 DEF Linked
    <3> QED BY <1>1, <3>1
  <2>5. {m \in Links : m[3].ino = f} = {l}
    <3> HIDE DEF l
    <3> QED BY <2>3, <2>4
  <2> QED BY <2>5, FS_Singleton
<1>5. ASSUME NEW l \in Links, NEW m \in Links, l[1] = m[1], l[3].name = m[3].name PROVE l = m
  <2>1. l[2] = m[2]
    BY <1>0, <1>1, <1>5 DEF Linked
  <2> QED BY <1>1, <1>5, <2>1
<1>6. ASSUME NEW S \in SUBSET Used, Root \in S, \A l \in Links : l[1] \in S => l[3].ino \in S PROVE S = Used
  <2>1. Closed(fs, S)
    <3> SUFFICES ASSUME NEW d \in S \cap DirsOf(fs), NEW i \in Positions(fs, d) PROVE Entry(fs, d, i).ino \in S
      BY DEF Closed
    <3> DEFINE l == <<d, i, Entry(fs, d, i)>>
    <3>1. l \in Links /\ l[1] = d /\ l[3] = Entry(fs, d, i)
      BY <1>2
    <3> HIDE DEF l
    <3> QED BY <3>1, <1>6
  <2> QED BY <1>0, <1>6, <2>1 DEF Rooted
<1> QED BY <1>3, <1>4, <1>5, <1>6 DEF TreeShape

\* In a sound file system blocks are owned.
LEMMA InvariantBlocks ==
  ASSUME Sound(fs)
  PROVE  BlocksOwned
<1>0. /\ Formed(fs) /\ Backed(fs) /\ Owned(fs) /\ Used = InUse(fs) /\ Used \subseteq Itab
      /\ InodeBlocks \in Nat /\ PageSize \in Nat
  BY StateType, Constants DEF Sound, Formed, Used, InUse
<1>1. ASSUME NEW f \in Used
      PROVE  fs.itab[f].size <= ChainLength(fs.itab[f].blocks) * PageSize /\ Chain(f) \subseteq fs.bused \ {NoBlk}
  <2> DEFINE n == ChainLength(fs.itab[f].blocks)
  <2>1. /\ n \in 0 .. InodeBlocks /\ fs.itab[f].size <= PageSize * n
        /\ \A k \in 0 .. InodeBlocks : fs.itab[f].blocks[k] # NoBlk <=> k < n
    BY <1>0, ChainIs
  <2>2. Chain(f) = {fs.itab[f].blocks[k] : k \in 0 .. n - 1}
    BY DEF Chain
  <2> HIDE DEF n
  <2>3. PageSize * n = n * PageSize
    BY <1>0, <2>1
  <2>4. \A k \in 0 .. n - 1 : k \in 0 .. InodeBlocks /\ k < n
    BY <1>0, <2>1
  <2>5. Chain(f) \subseteq fs.bused \ {NoBlk}
    BY <1>0, <2>1, <2>2, <2>4 DEF Owned
  <2> QED BY <2>1, <2>3, <2>5 DEF n
<1>2. ASSUME NEW f \in Used, NEW g \in Used, NEW i \in 0 .. InodeBlocks - 1, NEW j \in 0 .. InodeBlocks - 1,
             NEW b, b = fs.itab[f].blocks[i], b # NoBlk, b = fs.itab[g].blocks[j], <<f, i>> # <<g, j>>
      PROVE  /\ i = j
             /\ fs.itab[f].type = FILE /\ fs.itab[g].type = FILE
             /\ fs.itab[f].blocks[0] = fs.itab[g].blocks[0]
  <2>1. i \in 0 .. InodeBlocks /\ j \in 0 .. InodeBlocks
    BY <1>0
  <2>2. i = 0 /\ j = 0 /\ f \in FilesOf(fs) /\ g \in FilesOf(fs)
    BY <1>0, <1>2, <2>1 DEF Owned
  <2> QED BY <1>2, <2>2 DEF FilesOf
<1> QED BY <1>1, <1>2 DEF BlocksOwned, PagesSuffice

-----------------------------------------------------------------------------
\* The tables keep their types, and inode 0, the root and block 0 stay taken
\* (fs_format, and every operation of fs.c after it).
THEOREM TypesHold == Limits => (Spec => []TypeOK)
<1>1. Invariant => TypeOK
  BY InvariantTypes DEF Invariant
<1> QED BY <1>1, InvariantHolds, PTL

\* The directories form a tree over exactly the inodes in use: create and mkdir
\* add a leaf, fs_remove takes what is below an entry and nothing else, and
\* fs_copy adds copies one by one (fs.c: fs_create, fs_remove_aux, fs_copy_aux).
THEOREM TreeShapeHolds == Limits => (Spec => []TreeShape)
<1>1. Invariant => TreeShape
  BY InvariantTree DEF Invariant
<1> QED BY <1>1, InvariantHolds, PTL

\* What an inode in use has is marked in the bitmap and is its own, but for the
\* block that files share as copies: a write takes blocks of its own first, and
\* a removal frees no block that another file still has.
THEOREM BlocksOwnedHolds == Limits => (Spec => []BlocksOwned)
<1>1. Invariant => BlocksOwned
  BY InvariantBlocks DEF Invariant
<1> QED BY <1>1, InvariantHolds, PTL

\* Three walks of the tree agree: fs_lookup finds each object by its path and
\* nothing by any other, and the disk usage report names the path of each inode
\* and, for each block, the files a client would read it in (fs_lookup,
\* fsi_get_path_name, fs_diskusage).
THEOREM WalksAgreeHolds == Limits => (Spec => []WalksAgree)
<1>1. Invariant => WalksAgree
  BY InvariantWalks DEF Invariant
<1> QED BY <1>1, InvariantHolds, PTL
-----------------------------------------------------------------------------
(* The tree of names: states and the trees that present them.               *)

\* What a client sees of an inode.
Shown(s, h) == IF s.itab[h].type = DIR THEN Directory ELSE Content(s, h)

\* The paths of the tree a are those that lead from the root to an inode, each
\* to what is seen of it.
Presents(s, a) ==
  /\ a = [p \in DOMAIN a |-> a[p]]
  /\ \A p : p \in DOMAIN a <=> \E h : Leads(s, Root, p, h)
  /\ \A p, h : Leads(s, Root, p, h) => a[p] = Shown(s, h)

\* The tree of FileSystem presents its state.
LEMMA TreePresents ==
  ASSUME Sound(fs)
  PROVE  Presents(fs, Tree)
<1> DEFINE all == Objects(Root)
           At(p) == (CHOOSE o \in all : o[1] = p)[2]
           P == {o[1] : o \in all}
           T == [p \in P |-> IF fs.itab[At(p)].type = DIR THEN Directory ELSE Content(fs, At(p))]
<1>1. Tree = T
  BY DEF Tree
<1>2. \A p, h : Leads(fs, Root, p, h) => p \in P /\ At(p) = h
  <2> SUFFICES ASSUME NEW p, NEW h, Leads(fs, Root, p, h)
               PROVE  p \in P /\ At(p) = h
    OBVIOUS
  <2>1. <<p, h>> \in all /\ <<p, h>>[1] = p
    BY ObjectsBelowRoot
  <2> DEFINE c == CHOOSE o \in all : o[1] = p
  <2>2. c \in all /\ c[1] = p
    BY <2>1, Zenon
  <2>3. Leads(fs, Root, p, c[2])
    BY <2>2, ObjectsBelowRoot, Zenon
  <2>4. c[2] = h
    BY <2>3, LeadsOneWay
  <2>5. p \in P
    BY <2>1, Zenon
  <2>6. At(p) = c[2]
    OBVIOUS
  <2> HIDE DEF c, At, P
  <2> QED BY <2>4, <2>5, <2>6
<1>3. \A p : p \in P <=> \E h : Leads(fs, Root, p, h)
  <2>1. \A o \in all : Leads(fs, Root, o[1], o[2])
    BY ObjectsBelowRoot, Zenon
  <2>2. \A p : p \in P => \E o \in all : o[1] = p
    BY Zenon
  <2> HIDE DEF P, At, all
  <2> QED BY <1>2, <2>1, <2>2
<1> HIDE DEF P, At
<1>4. DOMAIN T = P /\ T = [p \in DOMAIN T |-> T[p]]
  OBVIOUS
<1>5. \A p, h : Leads(fs, Root, p, h) => T[p] = Shown(fs, h)
  BY <1>2 DEF Shown
<1> HIDE DEF T
<1>6. Presents(fs, T)
  BY <1>3, <1>4, <1>5, Zenon DEF Presents
<1> QED BY <1>1, <1>6, Zenon

\* A directory is seen as one, and only a directory is; of a file its content.
LEMMA ShownIs ==
  ASSUME NEW s, Sound(s), NEW h \in InUse(s)
  PROVE  /\ h \in DirsOf(s) => Shown(s, h) = Directory
         /\ h \notin DirsOf(s) => h \in FilesOf(s) /\ Shown(s, h) # Directory
         /\ h \in FilesOf(s) => Shown(s, h) = Content(s, h) /\ Shown(s, h) \in Seq(Data)
<1>1. h \in Itab /\ s \in States
  BY StateType DEF Sound, Formed, InUse
<1>2. s.itab[h].type \in {FILE, DIR} /\ FILE # DIR
  BY <1>1, StateType, Constants
<1>3. h \in DirsOf(s) => Shown(s, h) = Directory
  BY DEF DirsOf, Shown
<1>4. h \notin DirsOf(s) => h \in FilesOf(s)
  BY <1>2 DEF DirsOf, FilesOf
<1>5. h \in FilesOf(s) => Shown(s, h) = Content(s, h) /\ Shown(s, h) \in Seq(Data)
  BY <1>2, ContentIs DEF FilesOf, Shown
<1>6. Directory \notin Seq(Data)
  BY FileSystemAssumption
<1> QED BY <1>3, <1>4, <1>5, <1>6

\* Paths to directories and to files.
LEMMA PathKinds ==
  ASSUME NEW s, Sound(s), NEW a, Presents(s, a), NEW p, NEW h, Leads(s, Root, p, h)
  PROVE  /\ p \in DOMAIN a /\ a[p] = Shown(s, h)
         /\ NameTree!IsDirectory(a, p) <=> h \in DirsOf(s)
         /\ NameTree!IsRegular(a, p) <=> h \in FilesOf(s)
         /\ h \in FilesOf(s) => a[p] = Content(s, h)
<1>1. p \in DOMAIN a /\ a[p] = Shown(s, h) /\ h \in InUse(s)
  BY LeadsType DEF Presents
<1>2. ~ (h \in DirsOf(s) /\ h \in FilesOf(s))
  BY Constants DEF DirsOf, FilesOf
<1> QED BY <1>1, <1>2, ShownIs DEF NameTree!IsDirectory, NameTree!IsRegular

-----------------------------------------------------------------------------
(* What is retained is seen as before.                                      *)

\* A way stays when no entry goes.
LEMMA LeadsKept ==
  ASSUME NEW s, NEW t, NEW X, Retains(s, t, X), NEW g, NEW p, NEW h, Leads(s, g, p, h)
  PROVE  Leads(t, g, p, h)
<1>1. PICK w : Trace(s, g, p, h, w)
  BY DEF Leads
<1>2. \A d, n, e : HasEntry(s, d, n, e) => HasEntry(t, d, n, e)
  BY DEF Retains
<1>3. InUse(s) \subseteq InUse(t)
  BY DEF Retains
<1>4. w \in [0 .. Len(p) -> InUse(t)]
  BY <1>1, <1>3 DEF Trace
<1>5. Trace(t, g, p, h, w)
  BY <1>1, <1>2, <1>4 DEF Trace
<1> QED BY <1>5 DEF Leads

\* What is left of an inode is seen as it was.
LEMMA ShownKept ==
  ASSUME NEW s, Sound(s), NEW t, NEW X, Retains(s, t, X), NEW h \in InUse(s), h \notin X
  PROVE  Shown(t, h) = Shown(s, h)
<1>1. t.itab[h].type = s.itab[h].type
  BY DEF Retains
<1>2. CASE h \in DirsOf(s)
  BY <1>1, <1>2 DEF DirsOf, Shown
<1>3. CASE h \notin DirsOf(s)
  <2>1. h \in FilesOf(s) /\ s.itab[h].type # DIR
    BY <1>3, ShownIs DEF DirsOf
  <2>2. Content(t, h) = Content(s, h)
    BY <2>1 DEF Retains
  <2> QED BY <1>1, <2>1, <2>2 DEF Shown
<1> QED BY <1>2, <1>3

\* The paths to what there was are those from before.
LEMMA Spread ==
  ASSUME NEW s, Sound(s), NEW t, Sound(t), NEW X, Retains(s, t, X)
  PROVE  \A p, h : Leads(s, Root, p, h) <=> Leads(t, Root, p, h) /\ h \in InUse(s)
<1> SUFFICES ASSUME NEW p, NEW h
             PROVE  Leads(s, Root, p, h) <=> Leads(t, Root, p, h) /\ h \in InUse(s)
  OBVIOUS
<1>1. Leads(s, Root, p, h) => Leads(t, Root, p, h) /\ h \in InUse(s)
  BY LeadsKept, LeadsType
<1>2. ASSUME Leads(t, Root, p, h), h \in InUse(s) PROVE Leads(s, Root, p, h)
  <2>1. PICK q \in Seq(Names) : Leads(s, Root, q, h)
    BY <1>2, PathExists
  <2>2. Leads(t, Root, q, h)
    BY <2>1, LeadsKept
  <2>3. p = q
    BY <1>2, <2>2, OnePath
  <2> QED BY <2>1, <2>3
<1> QED BY <1>1, <1>2

\* The tree after keeps the paths of the tree before, and what they lead to,
\* except to what is in X; the other paths lead to what is new.
LEMMA TreeKept ==
  ASSUME NEW s, Sound(s), NEW t, Sound(t), NEW X, Retains(s, t, X),
         NEW a, Presents(s, a), NEW b, Presents(t, b)
  PROVE  /\ DOMAIN a \subseteq DOMAIN b
         /\ \A p, h : Leads(s, Root, p, h) /\ h \notin X => b[p] = a[p]
         /\ \A p \in DOMAIN b \ DOMAIN a : \E h \in InUse(t) \ InUse(s) : Leads(t, Root, p, h)
         /\ \A p, h : Leads(t, Root, p, h) /\ h \notin InUse(s) => p \in DOMAIN b \ DOMAIN a
<1>1. \A p, h : Leads(s, Root, p, h) <=> Leads(t, Root, p, h) /\ h \in InUse(s)
  BY Spread
<1>2. DOMAIN a \subseteq DOMAIN b
  BY <1>1, Zenon DEF Presents
<1>3. ASSUME NEW p, NEW h, Leads(s, Root, p, h), h \notin X PROVE b[p] = a[p]
  <2>1. a[p] = Shown(s, h) /\ b[p] = Shown(t, h) /\ h \in InUse(s)
    BY <1>1, <1>3, Zenon DEF Presents
  <2> QED BY <1>3, <2>1, ShownKept
<1>4. ASSUME NEW p \in DOMAIN b \ DOMAIN a PROVE \E h \in InUse(t) \ InUse(s) : Leads(t, Root, p, h)
  <2>1. PICK h : Leads(t, Root, p, h)
    BY <1>4, Zenon DEF Presents
  <2>2. ~ Leads(s, Root, p, h)
    BY <1>4, Zenon DEF Presents
  <2>3. h \in InUse(t) \ InUse(s)
    BY <1>1, <2>1, <2>2, LeadsType
  <2> QED BY <2>1, <2>3
<1>5. ASSUME NEW p, NEW h, Leads(t, Root, p, h), h \notin InUse(s) PROVE p \in DOMAIN b \ DOMAIN a
  <2>1. p \in DOMAIN b
    BY <1>5, Zenon DEF Presents
  <2>2. ASSUME p \in DOMAIN a PROVE FALSE
    <3>1. PICK g : Leads(s, Root, p, g)
      BY <2>2, Zenon DEF Presents
    <3>2. Leads(t, Root, p, g) /\ g \in InUse(s)
      BY <1>1, <3>1
    <3>3. g = h
      BY <1>5, <3>2, LeadsOneWay
    <3> QED BY <1>5, <3>2, <3>3
  <2> QED BY <2>1, <2>2
<1> QED BY <1>2, <1>3, <1>4, <1>5

\* Two trees with the same paths to the same things are the same.
LEMMA SameTree ==
  ASSUME NEW s, NEW t, NEW a, Presents(s, a), NEW b, Presents(t, b),
         DOMAIN b = DOMAIN a, \A p \in DOMAIN a : b[p] = a[p]
  PROVE  b = a
<1>1. a = [p \in DOMAIN a |-> a[p]] /\ b = [p \in DOMAIN b |-> b[p]]
  BY DEF Presents
<1> QED BY <1>1

\* Nothing is new and nothing has changed: the tree is the same.
LEMMA TreeSame ==
  ASSUME NEW s, Sound(s), NEW t, Sound(t), Retains(s, t, {}), InUse(t) = InUse(s),
         NEW a, Presents(s, a), NEW b, Presents(t, b)
  PROVE  b = a
<1>1. DOMAIN a \subseteq DOMAIN b /\ DOMAIN b \ DOMAIN a = {}
  BY TreeKept
<1>2. \A p \in DOMAIN a : b[p] = a[p]
  <2> TAKE p \in DOMAIN a
  <2>1. PICK h : Leads(s, Root, p, h)
    BY Zenon DEF Presents
  <2>2. h \notin {}
    OBVIOUS
  <2> QED BY <2>1, <2>2, TreeKept
<1> QED BY <1>1, <1>2, SameTree

\* One file has changed, and with it what its path leads to.
LEMMA TreeChanged ==
  ASSUME NEW s, Sound(s), NEW t, Sound(t), NEW file \in FilesOf(s), Retains(s, t, {file}), InUse(t) = InUse(s),
         NEW a, Presents(s, a), NEW b, Presents(t, b), NEW p, Leads(s, Root, p, file)
  PROVE  b = NameTree!With(a, [q \in {p} |-> Content(t, file)])
<1> DEFINE new == Content(t, file)
<1> HIDE DEF new
<1> DEFINE c == NameTree!With(a, [q \in {p} |-> new])
<1>1. DOMAIN a \subseteq DOMAIN b /\ DOMAIN b \ DOMAIN a = {} /\ p \in DOMAIN a
  BY TreeKept, PathKinds
<1>2. /\ c = [q \in DOMAIN c |-> c[q]] /\ DOMAIN c = DOMAIN a
      /\ c[p] = new /\ \A q \in DOMAIN a : q # p => c[q] = a[q]
  BY <1>1 DEF NameTree!With
<1>3. b[p] = new
  <2>1. file \in FilesOf(t)
    BY DEF Retains, FilesOf
  <2>2. Leads(t, Root, p, file)
    BY LeadsKept
  <2> QED BY <2>1, <2>2, PathKinds DEF new
<1>4. \A q \in DOMAIN a : q # p => b[q] = a[q]
  <2> SUFFICES ASSUME NEW q \in DOMAIN a, q # p PROVE b[q] = a[q]
    OBVIOUS
  <2>1. PICK h : Leads(s, Root, q, h)
    BY Zenon DEF Presents
  <2>2. h # file
    BY <2>1, OnePath
  <2>3. h \notin {file}
    BY <2>2
  <2> QED BY <2>1, <2>3, TreeKept
<1>5. b = [q \in DOMAIN b |-> b[q]]
  BY DEF Presents
<1> HIDE DEF c
<1>6. DOMAIN b = DOMAIN c /\ \A q \in DOMAIN c : b[q] = c[q]
  BY <1>1, <1>2, <1>3, <1>4
<1>7. b = c
  BY <1>2, <1>5, <1>6
<1> QED BY <1>7 DEF c, new

-----------------------------------------------------------------------------
(* Creation.                                                                *)

\* From s to t there is a new object: e, under name in dir.
Adds(s, t, dir, name, e) ==
  /\ Retains(s, t, {}) /\ dir \in DirsOf(s)
  /\ InUse(t) = InUse(s) \cup {e} /\ e \notin InUse(s)
  /\ HasEntry(t, dir, name, e)

\* An inode without content.
Blank(t, e, type) == t.itab[e].type = type /\ t.itab[e].size = 0

\* An object that is made is added.
LEMMA MadeAdds ==
  ASSUME NEW s, Sound(s),
         NEW t, NEW dir, NEW name, NEW type, NEW e, NEW block,
         MadeFrom(s, t, dir, name, type, e, block)
  PROVE  Adds(s, t, dir, name, e) /\ Blank(t, e, type)
<1>0. Formed(s) /\ Backed(s) /\ Owned(s) /\ Linked(s) /\ FILE # DIR
  BY Constants DEF Sound
<1>1. /\ InUse(t) = InUse(s) \cup {e}
      /\ dir \in DirsOf(s) /\ dir # e /\ e \notin InUse(s) /\ e \in Inodes
      /\ t.itab[e] = fsi_inode_init(type)
      /\ \A f \in Itab \ {dir, e} : t.itab[f] = s.itab[f]
      /\ t.itab[dir].type = DIR
  BY <1>0, MadeParts DEF NewTables
<1>2. /\ Positions(t, e) = {}
      /\ \A f \in InUse(s) \ {dir} : Positions(t, f) = Positions(s, f)
      /\ Positions(t, dir) = Positions(s, dir) \cup {s.itab[dir].size}
      /\ \A f \in InUse(s) : \A i \in Positions(s, f) : Entry(t, f, i) = Entry(s, f, i)
      /\ Entry(t, dir, s.itab[dir].size) = [name |-> name, ino |-> e]
  BY <1>0, MadeEntries
<1>3. InUse(s) \subseteq Itab
  BY <1>0, StateType DEF Formed, InUse
<1>4. \A f \in InUse(s) \ {dir} : t.itab[f] = s.itab[f]
  BY <1>1, <1>3
<1>5. \A f \in InUse(s) : t.itab[f].type = s.itab[f].type
  BY <1>1, <1>4 DEF DirsOf
<1>6. Retains(s, t, {})
  <2>1. \A d \in DirsOf(s) : \A i \in Positions(s, d) : i \in Positions(t, d) /\ Entry(t, d, i) = Entry(s, d, i)
    BY <1>1, <1>2 DEF DirsOf
  <2>2. \A f \in FilesOf(s) \ {} : /\ t.itab[f].size = s.itab[f].size
                                   /\ \A i \in Positions(s, f) : Entry(t, f, i).name = Entry(s, f, i).name
    <3>1. \A f \in FilesOf(s) : f \in InUse(s) \ {dir}
      BY <1>0, <1>1 DEF FilesOf, DirsOf
    <3> QED BY <1>2, <1>4, <3>1
  <2> QED BY <1>0, <1>1, <1>5, <2>1, <2>2, RetainsIf
<1>7. HasEntry(t, dir, name, e)
  <2>1. dir \in DirsOf(t)
    BY <1>1 DEF DirsOf
  <2> QED BY <2>1, <1>2 DEF HasEntry
<1>8. t.itab[e].type = type /\ t.itab[e].size = 0
  BY <1>1 DEF fsi_inode_init
<1> QED BY <1>1, <1>6, <1>7, <1>8 DEF Adds, Blank

\* What an operation that makes an object answers: it fails and changes nothing,
\* or adds the object.
AddsOrFails(s, r, dir, name, type) ==
  \/ r.ret = Fail /\ r.fs = s
  \/ r.ret = OK /\ Adds(s, r.fs, dir, name, r.ino) /\ Blank(r.fs, r.ino, type)

\* fs_create and fs_mkdir do so.
LEMMA NewObjectAdds ==
  ASSUME NEW s, Sound(s), NEW dir \in Itab, NEW name \in Names, NEW type \in {FILE, DIR},
         NEW r, r = NewObject(s, dir, name, type)
  PROVE  Sound(r.fs) /\ AddsOrFails(s, r, dir, name, type)
<1>0. Formed(s) /\ Backed(s) /\ Linked(s)
  BY DEF Sound
<1>1. \/ r.ret = Fail /\ r.fs = s
      \/ /\ r.ret = OK
         /\ \E finode, block :
              /\ Makes(s, dir, name, finode, block)
              /\ r.ino = finode /\ r.fs = Made(s, dir, name, type, finode, block)
  BY <1>0, NewObjectIs
<1>2. CASE r.ret = Fail /\ r.fs = s
  BY <1>2 DEF AddsOrFails
<1>3. CASE r.ret = OK
  <2>1. PICK finode, block :
          /\ r.ret = OK /\ Makes(s, dir, name, finode, block)
          /\ r.ino = finode /\ r.fs = Made(s, dir, name, type, finode, block)
    BY <1>1, <1>3, Constants
  <2>2. MadeFrom(s, r.fs, dir, name, type, finode, block)
    BY <2>1 DEF MadeFrom
  <2>3. Adds(s, r.fs, dir, name, finode) /\ Blank(r.fs, finode, type)
    BY <2>2, MadeAdds
  <2>4. Sound(r.fs)
    BY <2>2, MadeSound
  <2> QED BY <2>1, <2>3, <2>4 DEF AddsOrFails
<1> QED BY <1>1, <1>2, <1>3 DEF AddsOrFails

\* The tree b is a with what at the path p, which is new.
Gains(a, b, p, what) == NameTree!Vacant(a, p) /\ b = NameTree!With(a, [q \in {p} |-> what])

\* An object that is added has a new path, and nothing else changes.
LEMMA TreeAdded ==
  ASSUME NEW s, Sound(s), NEW t, Sound(t), NEW dir, NEW name, NEW e, Adds(s, t, dir, name, e),
         NEW a, Presents(s, a), NEW b, Presents(t, b), NEW d, Leads(s, Root, d, dir),
         NEW p, p = Append(d, name)
  PROVE  Leads(t, Root, p, e) /\ Gains(a, b, p, Shown(t, e))
<1> DEFINE new == Shown(t, e)
<1> HIDE DEF new
<1> DEFINE c == NameTree!With(a, [q \in {p} |-> new])
<1>0. /\ Retains(s, t, {}) /\ HasEntry(t, dir, name, e) /\ dir \in DirsOf(s)
      /\ InUse(t) = InUse(s) \cup {e} /\ e \notin InUse(s)
  BY DEF Adds
<1>1. Leads(t, Root, p, e)
  <2>1. Leads(t, Root, d, dir)
    BY <1>0, LeadsKept
  <2> QED BY <1>0, <2>1, LeadsOn
<1>2. p \in DOMAIN b /\ p \notin DOMAIN a /\ b[p] = new
  <2>1. p \in DOMAIN b \ DOMAIN a
    BY <1>0, <1>1, TreeKept
  <2> QED BY <2>1, <1>1, PathKinds DEF new
<1>3. NameTree!Vacant(a, p)
  <2>1. d \in DOMAIN a /\ NameTree!IsDirectory(a, d) /\ name \in Names
    BY <1>0, PathKinds, NamesType
  <2> QED BY <2>1, <1>2 DEF NameTree!Vacant, NameTree!NewPaths
<1>4. DOMAIN b = DOMAIN a \cup {p}
  <2>1. DOMAIN a \subseteq DOMAIN b
    BY <1>0, TreeKept
  <2>2. ASSUME NEW q \in DOMAIN b \ DOMAIN a PROVE q = p
    <3>1. PICK h \in InUse(t) \ InUse(s) : Leads(t, Root, q, h)
      BY <1>0, TreeKept
    <3>2. h = e
      BY <1>0
    <3> QED BY <3>1, <3>2, <1>1, OnePath
  <2> QED BY <2>1, <2>2, <1>2
<1>5. \A q \in DOMAIN a : b[q] = a[q]
  <2> TAKE q \in DOMAIN a
  <2>1. PICK h : Leads(s, Root, q, h)
    BY Zenon DEF Presents
  <2>2. h \notin {}
    OBVIOUS
  <2> QED BY <1>0, <2>1, <2>2, TreeKept
<1>6. /\ c = [q \in DOMAIN c |-> c[q]] /\ DOMAIN c = DOMAIN a \cup {p}
      /\ c[p] = new /\ \A q \in DOMAIN a : q # p => c[q] = a[q]
  BY DEF NameTree!With
<1>7. b = [q \in DOMAIN b |-> b[q]]
  BY DEF Presents
<1> HIDE DEF c
<1>8. DOMAIN b = DOMAIN c /\ \A q \in DOMAIN c : b[q] = c[q]
  BY <1>2, <1>4, <1>5, <1>6
<1>9. b = c
  BY <1>6, <1>7, <1>8
<1>10. Gains(a, b, p, new)
  BY <1>3, <1>9 DEF c, Gains
<1> QED BY <1>1, <1>10 DEF new

\* The step of the tree is one of those its specification has.
TreeStep(a, b) == a # b => NameTree!Step(a, b)

\* fs_create and fs_mkdir create a file without content, or a directory.
LEMMA NewObjectRefines ==
  ASSUME NEW s, Sound(s), NEW dir \in Itab, NEW name \in Names, NEW type \in {FILE, DIR},
         NEW t, t = NewObject(s, dir, name, type).fs,
         NEW a, Presents(s, a), NEW b, Presents(t, b)
  PROVE  TreeStep(a, b)
<1> SUFFICES ASSUME NEW r, r = NewObject(s, dir, name, type) PROVE TreeStep(a, b)
  OBVIOUS
<1>0. t = r.fs
  OBVIOUS
<1>1. Sound(t) /\ (t = s \/ (Adds(s, t, dir, name, r.ino) /\ Blank(t, r.ino, type)))
  BY <1>0, NewObjectAdds DEF AddsOrFails
<1>2. CASE t = s
  <2>1. b = a
    BY <1>1, <1>2, RetainsReflexive, TreeSame
  <2> QED BY <2>1 DEF TreeStep
<1>3. CASE Adds(s, t, dir, name, r.ino) /\ Blank(t, r.ino, type)
  <2>1. /\ dir \in InUse(s) /\ t.itab[r.ino].type = type /\ t.itab[r.ino].size = 0
        /\ FILE # DIR
    BY <1>3, Constants DEF Adds, Blank, DirsOf
  <2>2. PICK d \in Seq(Names) : Leads(s, Root, d, dir)
    BY <2>1, PathExists
  <2> DEFINE p == Append(d, name)
  <2>3. Shown(t, r.ino) = IF type = DIR THEN Directory ELSE <<>>
    <3>1. Content(t, r.ino) = <<>>
      BY <2>1 DEF Content
    <3> QED BY <2>1, <3>1 DEF Shown
  <2>4. Gains(a, b, p, Shown(t, r.ino))
    BY <1>1, <1>3, <2>2, TreeAdded
  <2> HIDE DEF p
  <2>5. NameTree!Create(a, b, p) \/ NameTree!Mkdir(a, b, p)
    <3>1. CASE type = DIR
      BY <3>1, <2>3, <2>4 DEF Gains, NameTree!Mkdir
    <3>2. CASE type = FILE
      BY <2>1, <3>2, <2>3, <2>4 DEF Gains, NameTree!Create
    <3> QED BY <3>1, <3>2
  <2>6. p \in NameTree!NewPaths(a)
    BY <2>4 DEF Gains, NameTree!Vacant
  <2> QED BY <2>5, <2>6 DEF TreeStep, NameTree!Step
<1> QED BY <1>1, <1>2, <1>3

-----------------------------------------------------------------------------
(* Writing.                                                                 *)

\* Splice is what Namespace says of a write.
LEMMA SplicedIs ==
  ASSUME NEW c \in Seq(Data), NEW offset \in Nat, NEW data \in Seq(Data), NEW size, size = Len(c)
  PROVE  Splice(c, MinOf(offset, size), data) = NameTree!Spliced(c, offset, data)
<1> DEFINE off == MinOf(offset, size)
           len == MaxOf(off + Len(data), Len(c))
<1>1. off = IF offset > Len(c) THEN Len(c) ELSE offset
  BY DEF MinOf
<1>2. off \in Nat
  BY <1>1
<1> HIDE DEF off
<1>3. len = IF off + Len(data) > Len(c) THEN off + Len(data) ELSE Len(c)
  BY <1>2 DEF MaxOf
<1> HIDE DEF len
<1>4. Splice(c, off, data) = [i \in 1 .. len |-> IF i - off \in 1 .. Len(data) THEN data[i - off] ELSE c[i]]
  BY DEF Splice, len
<1> QED BY <1>1, <1>3, <1>4 DEF NameTree!Spliced, off

\* What is put at the end of a sequence follows it.
LEMMA SpliceAtEnd ==
  ASSUME NEW c \in Seq(Data), NEW data \in Seq(Data), NEW size, size = Len(c)
  PROVE  Splice(c, MinOf(size, size), data) = c \o data
<1>1. MinOf(size, size) = Len(c) /\ Len(c) \in Nat /\ Len(data) \in Nat
  BY DEF MinOf
<1>2. MaxOf(Len(c) + Len(data), Len(c)) = Len(c) + Len(data)
  BY <1>1 DEF MaxOf
<1> DEFINE N == Len(c) + Len(data)
           u == c \o data
           v == [i \in 1 .. N |-> IF i - Len(c) \in 1 .. Len(data) THEN data[i - Len(c)] ELSE c[i]]
<1>3. /\ u \in Seq(Data) /\ Len(u) = N
      /\ \A i \in 1 .. N : u[i] = IF i <= Len(c) THEN c[i] ELSE data[i - Len(c)]
  BY <1>1, ConcatProperties
<1>4. u = [i \in 1 .. N |-> u[i]]
  <2> HIDE DEF u, N
  <2> QED BY <1>3
<1>5. \A i \in 1 .. N : i - Len(c) \in 1 .. Len(data) <=> ~ (i <= Len(c))
  BY <1>1
<1>6. u = v
  <2> HIDE DEF u, N
  <2> QED BY <1>3, <1>4, <1>5
<1>7. Splice(c, MinOf(size, size), data) = v
  BY <1>1, <1>2 DEF Splice
<1> QED BY <1>6, <1>7

\* A write that is done to a file puts the data into its content in the tree,
\* and into nothing else.
LEMMA WriteRefines ==
  ASSUME NEW s, Sound(s), NEW t, Sound(t), NEW file, NEW offset \in Offsets, NEW data \in Writes,
         Rewrites(s, t, file, offset, data),
         NEW a, Presents(s, a), NEW b, Presents(t, b)
  PROVE  TreeStep(a, b)
<1>1. CASE Retains(s, t, {})
  <2>1. b = a
    BY <1>1, TreeSame DEF Rewrites
  <2> QED BY <2>1 DEF TreeStep
<1>2. CASE ~ Retains(s, t, {})
  <2>1. /\ file \in FilesOf(s) /\ file \in InUse(s) /\ Retains(s, t, {file}) /\ InUse(t) = InUse(s)
        /\ Content(t, file) = Splice(Content(s, file), MinOf(offset, s.itab[file].size), data)
    BY <1>2 DEF Rewrites, FilesOf
  <2>2. PICK p \in Seq(Names) : Leads(s, Root, p, file)
    BY <2>1, PathExists
  <2> DEFINE c == Content(s, file)
             new == Content(t, file)
  <2>3. c \in Seq(Data) /\ s.itab[file].size = Len(c)
    <3>1. c \in Seq(Data)
      BY <2>1, ContentIs
    <3>2. s.itab[file].size \in Nat
      BY <2>1, StateType DEF Sound, Formed, InUse
    <3> QED BY <3>1, <3>2 DEF Content
  <2>4. offset \in Nat /\ data \in Seq(Data)
    BY FileSystemAssumption
  <2>5. new = NameTree!Spliced(c, offset, data)
    BY <2>1, <2>3, <2>4, SplicedIs
  <2>6. b = NameTree!With(a, [q \in {p} |-> new])
    BY <2>1, <2>2, TreeChanged
  <2>7. p \in DOMAIN a /\ NameTree!IsRegular(a, p) /\ a[p] = c
    BY <2>1, <2>2, PathKinds
  <2> HIDE DEF c, new
  <2>8. NameTree!Write(a, b, p, offset, data)
    BY <2>5, <2>6, <2>7 DEF NameTree!Write
  <2> QED BY <2>7, <2>8 DEF TreeStep, NameTree!Step
<1> QED BY <1>1, <1>2

\* What fs_append does is to put the content of one file at the end of another.
LEMMA AppendRefines ==
  ASSUME NEW s, Sound(s), NEW t, Sound(t), Appends(s, t),
         NEW a, Presents(s, a), NEW b, Presents(t, b)
  PROVE  TreeStep(a, b)
<1>1. CASE InUse(t) = InUse(s) /\ Retains(s, t, {})
  <2>1. b = a
    BY <1>1, TreeSame
  <2> QED BY <2>1 DEF TreeStep
<1>2. CASE ~ (InUse(t) = InUse(s) /\ Retains(s, t, {}))
  <2>1. t # s
    BY <1>2, RetainsReflexive
  <2>2. PICK d \in InUse(s), f \in FilesOf(s) : Rewrites(s, t, d, s.itab[d].size, Content(s, f))
    BY <2>1 DEF Appends
  <2>3. /\ d \in FilesOf(s) /\ f \in InUse(s) /\ Retains(s, t, {d}) /\ InUse(t) = InUse(s)
        /\ Content(t, d) = Splice(Content(s, d), MinOf(s.itab[d].size, s.itab[d].size), Content(s, f))
    BY <1>2, <2>2 DEF Rewrites, FilesOf
  <2>4. PICK p \in Seq(Names) : Leads(s, Root, p, d)
    BY PathExists
  <2>5. PICK q \in Seq(Names) : Leads(s, Root, q, f)
    BY <2>3, PathExists
  <2> DEFINE c == Content(s, d)
             data == Content(s, f)
             new == Content(t, d)
  <2>6. c \in Seq(Data) /\ s.itab[d].size = Len(c) /\ data \in Seq(Data)
    <3>1. c \in Seq(Data) /\ data \in Seq(Data)
      BY <2>3, ContentIs
    <3>2. s.itab[d].size \in Nat
      BY <2>3, StateType DEF Sound, Formed, InUse
    <3> QED BY <3>1, <3>2 DEF Content
  <2>7. new = c \o data
    BY <2>3, <2>6, SpliceAtEnd
  <2>8. b = NameTree!With(a, [r \in {p} |-> new])
    BY <2>3, <2>4, TreeChanged
  <2>9. /\ p \in DOMAIN a /\ NameTree!IsRegular(a, p) /\ a[p] = c
        /\ q \in DOMAIN a /\ NameTree!IsRegular(a, q) /\ a[q] = data
    BY <2>3, <2>4, <2>5, PathKinds
  <2> HIDE DEF c, data, new
  <2>10. NameTree!AppendTo(a, b, p, q)
    BY <2>7, <2>8, <2>9 DEF NameTree!AppendTo
  <2> QED BY <2>9, <2>10 DEF TreeStep, NameTree!Step
<1> QED BY <1>1, <1>2

-----------------------------------------------------------------------------
(* Removal.                                                                 *)

\* A state with nothing new and nothing changed has the same tree.
LEMMA PresentsSame ==
  ASSUME NEW s, Sound(s), NEW t, Sound(t), Retains(s, t, {}), InUse(t) = InUse(s),
         NEW a, Presents(s, a)
  PROVE  Presents(t, a)
<1>1. \A p, h : Leads(s, Root, p, h) <=> Leads(t, Root, p, h) /\ h \in InUse(s)
  BY Spread
<1>2. \A p, h : Leads(t, Root, p, h) <=> Leads(s, Root, p, h)
  BY <1>1, LeadsType
<1>3. a = [p \in DOMAIN a |-> a[p]] /\ \A p : p \in DOMAIN a <=> \E h : Leads(t, Root, p, h)
  BY <1>2, Zenon DEF Presents
<1>4. \A p, h : Leads(t, Root, p, h) => a[p] = Shown(t, h)
  <2> SUFFICES ASSUME NEW p, NEW h, Leads(t, Root, p, h) PROVE a[p] = Shown(t, h)
    OBVIOUS
  <2>1. Leads(s, Root, p, h) /\ h \in InUse(s) /\ h \notin {}
    BY <1>2, LeadsType
  <2>2. a[p] = Shown(s, h)
    BY <2>1 DEF Presents
  <2>3. Shown(t, h) = Shown(s, h)
    BY <2>1, ShownKept
  <2> QED BY <2>2, <2>3
<1> QED BY <1>3, <1>4, Zenon DEF Presents

\* A way from what is below an inode stays below it.
LEMMA BelowOn ==
  ASSUME NEW s, Sound(s), NEW file \in InUse(s), NEW g, NEW p \in Seq(Names), NEW h, NEW w, Trace(s, g, p, h, w),
         NEW k \in 0 .. Len(p), w[k] \in Below(s, file)
  PROVE  h \in Below(s, file)
<1> DEFINE N == Len(p) - k
           T == {j \in 0 .. N : w[k + j] \in Below(s, file)}
<1>0. Len(p) \in Nat /\ N \in Nat /\ Linked(s)
  BY LenProperties DEF Sound
<1>1. 0 \in T
  BY <1>0
<1>2. ASSUME NEW j \in 1 .. N, j - 1 \in T PROVE j \in T
  <2> DEFINE m == k + j
  <2>1. m \in 1 .. Len(p) /\ m - 1 = k + (j - 1)
    BY <1>0
  <2>2. w[m - 1] \in Below(s, file)
    BY <1>2, <2>1
  <2>3. HasEntry(s, w[m - 1], p[m], w[m])
    BY <2>1 DEF Trace
  <2> HIDE DEF m
  <2>4. Closed(s, Below(s, file))
    BY <1>0, BelowIs
  <2>5. w[m] \in Below(s, file)
    BY <2>2, <2>3, <2>4 DEF HasEntry, Closed
  <2> QED BY <2>5 DEF m
<1>3. \A j \in 0 .. N : j \in T
  <2> HIDE DEF T, N
  <2> QED BY <1>0, <1>1, <1>2, BoundedInduction
<1>4. N \in T
  BY <1>0, <1>3
<1>5. k + N = Len(p)
  BY <1>0
<1> QED BY <1>4, <1>5 DEF Trace

\* What is below an inode is what ways lead to from it.
LEMMA BelowLeads ==
  ASSUME NEW s, Sound(s), NEW file \in InUse(s), NEW h
  PROVE  h \in Below(s, file) <=> \E q : Leads(s, file, q, h)
<1>0. Linked(s) /\ file \in Below(s, file)
  BY BelowIs DEF Sound
<1>1. ASSUME NEW q, Leads(s, file, q, h) PROVE h \in Below(s, file)
  <2>1. q \in Seq(Names) /\ Len(q) \in Nat
    BY <1>1, LeadsType
  <2>2. PICK w : Trace(s, file, q, h, w)
    BY <1>1 DEF Leads
  <2>3. w[0] = file /\ 0 \in 0 .. Len(q)
    BY <2>1, <2>2 DEF Trace
  <2> QED BY <1>0, <2>1, <2>2, <2>3, BelowOn
<1>2. ASSUME h \in Below(s, file) PROVE \E q : Leads(s, file, q, h)
  <2> DEFINE S == {x \in InUse(s) : \E q : Leads(s, file, q, x)}
  <2>1. file \in S
    BY LeadsNowhere
  <2>2. Closed(s, S)
    <3> SUFFICES ASSUME NEW d \in S \cap DirsOf(s), NEW i \in Positions(s, d) PROVE Entry(s, d, i).ino \in S
      BY DEF Closed
    <3>1. PICK q : Leads(s, file, q, d)
      OBVIOUS
    <3>2. HasEntry(s, d, Entry(s, d, i).name, Entry(s, d, i).ino)
      BY DEF HasEntry
    <3>3. Leads(s, file, Append(q, Entry(s, d, i).name), Entry(s, d, i).ino)
      BY <3>1, <3>2, LeadsOn
    <3>4. Entry(s, d, i).ino \in InUse(s)
      BY <3>2, NamesType
    <3> QED BY <3>3, <3>4
  <2> HIDE DEF S
  <2>3. S \subseteq InUse(s)
    BY DEF S
  <2>4. h \in S
    BY <1>0, <1>2, <2>1, <2>2, <2>3, BelowIs
  <2> QED BY <2>4 DEF S
<1> QED BY <1>1, <1>2

\* The first part of a sequence that goes on.
LEMMA PrefixIs ==
  ASSUME NEW p \in Seq(Names)
  PROVE  /\ SubSeq(p, 1, Len(p)) = p
         /\ \A q \in Seq(Names) : SubSeq(p \o q, 1, Len(p)) = p /\ Len(p) <= Len(p \o q) /\ p \o q \in Seq(Names)
<1>1. Len(p) \in Nat /\ SubSeq(p, 1, Len(p)) = p
  BY SubSeqProperties, SeqEqual, LenProperties
<1> SUFFICES ASSUME NEW q \in Seq(Names)
             PROVE  SubSeq(p \o q, 1, Len(p)) = p /\ Len(p) <= Len(p \o q) /\ p \o q \in Seq(Names)
  BY <1>1
<1> DEFINE r == p \o q
<1>2. /\ r \in Seq(Names) /\ Len(r) = Len(p) + Len(q) /\ Len(q) \in Nat
      /\ \A i \in 1 .. Len(p) : r[i] = p[i]
  BY <1>1, ConcatProperties, LenProperties
<1> HIDE DEF r
<1> DEFINE u == SubSeq(r, 1, Len(p))
<1>3. u \in Seq(Names) /\ Len(u) = Len(p) /\ \A i \in 1 .. Len(p) : u[i] = r[i]
  BY <1>1, <1>2, SubSeqProperties
<1> HIDE DEF u
<1>4. u = p
  BY <1>1, <1>2, <1>3, SeqEqual
<1> QED BY <1>1, <1>2, <1>4 DEF u, r

\* The paths with a given path first are those that lead on from its end.
LEMMA UnderIs ==
  ASSUME NEW s, Sound(s), NEW p, NEW file, Leads(s, Root, p, file), NEW r, NEW h, Leads(s, Root, r, h)
  PROVE  NameTree!IsPrefix(p, r) <=> h \in Below(s, file)
<1>0. /\ p \in Seq(Names) /\ Len(p) \in Nat /\ r \in Seq(Names) /\ Len(r) \in Nat /\ file \in InUse(s)
      /\ file \in Below(s, file)
  BY LeadsType, BelowIs DEF Sound
<1>1. NameTree!IsPrefix(p, r) <=> Len(p) <= Len(r) /\ SubSeq(r, 1, Len(p)) = p
  BY <1>0, PrefixIs DEF NameTree!IsPrefix
<1>2. ASSUME NameTree!IsPrefix(p, r) PROVE h \in Below(s, file)
  <2>1. Len(p) \in 0 .. Len(r) /\ SubSeq(r, 1, Len(p)) = p
    BY <1>0, <1>1, <1>2
  <2>2. PICK w : Trace(s, Root, r, h, w)
    BY DEF Leads
  <2>3. Leads(s, Root, p, w[Len(p)])
    <3>1. \A k \in 0 .. Len(r) : Leads(s, Root, SubSeq(r, 1, k), w[k])
      BY <1>0, <2>2, LeadsBefore
    <3> QED BY <2>1, <3>1
  <2>4. w[Len(p)] = file
    BY <2>3, LeadsOneWay
  <2> QED BY <1>0, <2>1, <2>2, <2>4, BelowOn
<1>3. ASSUME h \in Below(s, file) PROVE NameTree!IsPrefix(p, r)
  <2>1. PICK q : Leads(s, file, q, h)
    BY <1>0, <1>3, BelowLeads
  <2>2. q \in Seq(Names) /\ Leads(s, Root, p \o q, h)
    BY <2>1, LeadsType, LeadsThrough
  <2>3. r = p \o q
    BY <2>2, OnePath
  <2> QED BY <1>0, <1>1, <2>2, <2>3, PrefixIs
<1> QED BY <1>2, <1>3

\* The tree b is a without p and what is below it.
Loses(a, b, p) == b = [q \in DOMAIN a \ NameTree!Under(a, p) |-> a[q]]

\* What is below an inode goes, and with it the paths that begin with its path.
LEMMA TreeCut ==
  ASSUME NEW s, Sound(s), NEW t, Sound(t), Retains(t, s, {}), NEW file, InUse(t) = InUse(s) \ Below(s, file),
         NEW a, Presents(s, a), NEW b, Presents(t, b), NEW p, Leads(s, Root, p, file)
  PROVE  Loses(a, b, p)
<1> DEFINE rest == DOMAIN a \ NameTree!Under(a, p)
<1>1. DOMAIN b \subseteq DOMAIN a
  BY TreeKept
<1>2. ASSUME NEW r \in DOMAIN a PROVE r \in DOMAIN b <=> r \in rest
  <2>1. PICK h : Leads(s, Root, r, h)
    BY Zenon DEF Presents
  <2>2. NameTree!IsPrefix(p, r) <=> h \in Below(s, file)
    BY <2>1, UnderIs
  <2>3. h \in InUse(s)
    BY <2>1, LeadsType
  <2>4. r \in DOMAIN b <=> h \in InUse(t)
    <3>1. ASSUME h \in InUse(t) PROVE r \in DOMAIN b
      <4>1. Leads(t, Root, r, h)
        BY <2>1, <3>1, Spread
      <4> QED BY <4>1, PathKinds
    <3>2. ASSUME h \notin InUse(t) PROVE r \notin DOMAIN b
      BY <2>1, <3>2, TreeKept
    <3> QED BY <3>1, <3>2
  <2> QED BY <2>2, <2>3, <2>4 DEF NameTree!Under
<1>3. DOMAIN b = rest
  BY <1>1, <1>2
<1>4. \A r \in DOMAIN b : b[r] = a[r]
  <2> SUFFICES ASSUME NEW r \in DOMAIN b PROVE b[r] = a[r]
    OBVIOUS
  <2>1. PICK h : Leads(t, Root, r, h)
    BY Zenon DEF Presents
  <2>2. h \notin {}
    OBVIOUS
  <2>3. a[r] = b[r]
    BY <2>1, <2>2, TreeKept
  <2> QED BY <2>3
<1>5. b = [r \in DOMAIN b |-> b[r]]
  BY DEF Presents
<1> HIDE DEF rest
<1>6. b = [r \in rest |-> a[r]]
  BY <1>3, <1>4, <1>5
<1> QED BY <1>6 DEF rest, Loses

\* fs_remove removes the path of an object and the paths below it.
LEMMA RemoveRefines ==
  ASSUME NEW s, Sound(s), OnePageDirs(s), NEW dir \in Itab \ {0}, NEW name \in Names, NEW stale,
         NEW t, t = fs_remove(s, dir, name, stale).fs,
         NEW a, Presents(s, a), NEW b, Presents(t, b)
  PROVE  TreeStep(a, b)
<1>1. Sound(t) /\ (t = s \/ \E x, m, file : Removes(s, x, t, dir, m, file))
  BY RemoveKeeps
<1>2. CASE t = s
  <2>1. b = a
    BY <1>1, <1>2, RetainsReflexive, TreeSame
  <2> QED BY <2>1 DEF TreeStep
<1>3. CASE \E x, m, file : Removes(s, x, t, dir, m, file)
  <2>1. PICK x, m, file : Removes(s, x, t, dir, m, file)
    BY <1>3
  <2>2. /\ Sound(x) /\ Retains(s, x, {}) /\ InUse(x) = InUse(s) /\ HasEntry(x, dir, m, file)
        /\ Retains(t, x, {}) /\ InUse(t) = InUse(x) \ Below(x, file)
    BY <2>1 DEF Removes
  <2>3. Presents(x, a)
    BY <2>2, PresentsSame
  <2>4. dir \in InUse(x) /\ m \in Names
    BY <2>2, NamesType
  <2>5. PICK d \in Seq(Names) : Leads(x, Root, d, dir)
    BY <2>2, <2>4, PathExists
  <2> DEFINE p == Append(d, m)
  <2>6. Leads(x, Root, p, file)
    BY <2>2, <2>5, LeadsOn
  <2>7. p # <<>>
    BY <2>4, AppendProperties
  <2> HIDE DEF p
  <2>8. p \in DOMAIN a
    BY <2>2, <2>3, <2>6, PathKinds
  <2>9. Loses(a, b, p)
    BY <1>1, <2>2, <2>3, <2>6, TreeCut
  <2>10. NameTree!Unlink(a, b, p)
    BY <2>7, <2>9 DEF Loses, NameTree!Unlink
  <2> QED BY <2>8, <2>10 DEF TreeStep, NameTree!Step
<1> QED BY <1>1, <1>2, <1>3

-----------------------------------------------------------------------------
(* Defragmentation.                                                         *)

\* fs_defrag changes nothing that a client sees.
LEMMA DefragRefines ==
  ASSUME NEW s, Sound(s), NEW t, Tidy(s, t), NEW a, Presents(s, a), NEW b, Presents(t, b)
  PROVE  TreeStep(a, b)
<1>1. Sound(t) /\ InUse(t) = InUse(s) /\ Retains(s, t, {})
  BY DEF Tidy
<1>2. b = a
  BY <1>1, TreeSame
<1> QED BY <1>2 DEF TreeStep

-----------------------------------------------------------------------------
(* Copying a directory, one object at a time.                               *)

\* Entries of what was there before lead to it as they did.
LEMMA EntriesBack ==
  ASSUME NEW s, Sound(s), NEW t, Sound(t), NEW X, Retains(s, t, X),
         NEW d, NEW n, NEW e \in InUse(s), HasEntry(t, d, n, e)
  PROVE  HasEntry(s, d, n, e)
<1>1. e \in InUse(s) \ {Root}
  BY NamesType
<1>2. PICK c, i : c \in DirsOf(s) /\ i \in Positions(s, c) /\ Entry(s, c, i).ino = e
  BY <1>1 DEF Sound, Parented
<1> DEFINE m == Entry(s, c, i).name
<1>3. HasEntry(s, c, m, e)
  BY <1>2 DEF HasEntry
<1> HIDE DEF m
<1>4. HasEntry(t, c, m, e)
  BY <1>3 DEF Retains
<1>5. c = d /\ m = n
  BY <1>4, NamesUnique
<1> QED BY <1>3, <1>5

\* The inode e, below the copy top in x, is seen as the one at the same place
\* below the directory src in s.
Twin(s, x, top, src, e) ==
  \E q, f : Leads(x, top, q, e) /\ Leads(s, src, q, f) /\ Shown(x, e) = Shown(s, f)

\* What there was before the copy is as it was, but for new entries of dest;
\* what is new is part of the copy.
Copied(s, x, top, src, dest) ==
  /\ Retains(s, x, {})
  /\ \A d \in InUse(s) \ {dest} : \A n, e : HasEntry(x, d, n, e) => HasEntry(s, d, n, e)
  /\ \A e \in InUse(x) \ InUse(s) : Twin(s, x, top, src, e)

\* The directory d of the copy has the place of m in the original.
Place(s, x, top, src, d, m) ==
  d \in InUse(x) \ InUse(s) /\ \E q : Leads(x, top, q, d) /\ Leads(s, src, q, m)

\* Twins stay twins, and places places.
LEMMA TwinKept ==
  ASSUME NEW s, NEW x, Sound(x), NEW z, Retains(x, z, {}), NEW top, NEW src, NEW e
  PROVE  /\ e \in InUse(x) /\ Twin(s, x, top, src, e) => Twin(s, z, top, src, e)
         /\ \A m : Place(s, x, top, src, e, m) => Place(s, z, top, src, e, m)
<1>1. \A q, h : Leads(x, top, q, h) => Leads(z, top, q, h)
  BY LeadsKept
<1>2. InUse(x) \subseteq InUse(z)
  BY DEF Retains
<1>3. ASSUME e \in InUse(x) PROVE Shown(z, e) = Shown(x, e)
  <2>1. e \notin {}
    OBVIOUS
  <2> QED BY <1>3, <2>1, ShownKept
<1>4. ASSUME e \in InUse(x), Twin(s, x, top, src, e) PROVE Twin(s, z, top, src, e)
  BY <1>1, <1>3, <1>4 DEF Twin
<1>5. ASSUME NEW m, Place(s, x, top, src, e, m) PROVE Place(s, z, top, src, e, m)
  BY <1>1, <1>2, <1>5 DEF Place
<1> QED BY <1>4, <1>5

\* One more object is copied.
LEMMA TwinAdded ==
  ASSUME NEW s, Sound(s), NEW x, Sound(x), NEW z, Sound(z), NEW top, NEW src, NEW dest, Copied(s, x, top, src, dest),
         NEW d, NEW m, Place(s, x, top, src, d, m), NEW n, NEW f, HasEntry(s, m, n, f),
         NEW e, Adds(x, z, d, n, e), Shown(z, e) = Shown(s, f)
  PROVE  Copied(s, z, top, src, dest) /\ Place(s, z, top, src, e, f)
<1>0. /\ Retains(x, z, {}) /\ InUse(z) = InUse(x) \cup {e} /\ e \notin InUse(x) /\ HasEntry(z, d, n, e)
      /\ Retains(s, x, {}) /\ InUse(s) \subseteq InUse(x)
  BY DEF Adds, Copied, Retains
<1>1. PICK q : Leads(x, top, q, d) /\ Leads(s, src, q, m)
  BY DEF Place
<1>2. d \in InUse(x) \ InUse(s)
  BY DEF Place
<1> DEFINE p == Append(q, n)
<1>3. Leads(z, top, p, e) /\ Leads(s, src, p, f)
  <2>1. Leads(z, top, q, d)
    BY <1>0, <1>1, LeadsKept
  <2> QED BY <1>0, <1>1, <2>1, LeadsOn
<1> HIDE DEF p
<1>4. Retains(s, z, {})
  BY <1>0, RetainsTransitive
<1>5. ASSUME NEW c \in InUse(s) \ {dest}, NEW k, NEW h, HasEntry(z, c, k, h) PROVE HasEntry(s, c, k, h)
  <2>1. h # e
    <3>1. c # d
      BY <1>2
    <3> QED BY <1>0, <1>5, <3>1, NamesUnique
  <2>2. h \in InUse(x)
    BY <1>0, <1>5, <2>1, NamesType
  <2>3. HasEntry(x, c, k, h)
    BY <1>0, <1>5, <2>2, EntriesBack
  <2> QED BY <1>5, <2>3 DEF Copied
<1>6. ASSUME NEW h \in InUse(z) \ InUse(s) PROVE Twin(s, z, top, src, h)
  <2>1. CASE h = e
    BY <2>1, <1>3 DEF Twin
  <2>2. CASE h # e
    <3>1. h \in InUse(x) \ InUse(s)
      BY <1>0, <2>2
    <3>2. Twin(s, x, top, src, h)
      BY <3>1 DEF Copied
    <3> QED BY <1>0, <3>1, <3>2, TwinKept
  <2> QED BY <2>1, <2>2
<1>7. Copied(s, z, top, src, dest)
  BY <1>4, <1>5, <1>6 DEF Copied
<1>8. e \in InUse(z) \ InUse(s)
  BY <1>0
<1>9. Place(s, z, top, src, e, f)
  BY <1>3, <1>8 DEF Place
<1> QED BY <1>7, <1>9

\* A copy that starts: the new directory is the copy of the old one so far.
LEMMA TwinStarts ==
  ASSUME NEW s, Sound(s), NEW z, Sound(z), NEW src \in DirsOf(s), NEW dest, NEW n, NEW top,
         Adds(s, z, dest, n, top), z.itab[top].type = DIR
  PROVE  Copied(s, z, top, src, dest) /\ Place(s, z, top, src, top, src)
<1>0. /\ Retains(s, z, {}) /\ InUse(z) = InUse(s) \cup {top} /\ top \notin InUse(s) /\ HasEntry(z, dest, n, top)
      /\ src \in InUse(s) /\ s.itab[src].type = DIR
  BY DEF Adds, DirsOf
<1>1. top \in InUse(z) \ InUse(s)
  BY <1>0
<1>2. Leads(z, top, <<>>, top) /\ Leads(s, src, <<>>, src)
  BY <1>0, <1>1, LeadsNowhere
<1>3. Shown(z, top) = Shown(s, src)
  BY <1>0 DEF Shown
<1>4. Place(s, z, top, src, top, src)
  BY <1>1, <1>2 DEF Place
<1>5. ASSUME NEW e \in InUse(z) \ InUse(s) PROVE Twin(s, z, top, src, e)
  <2>1. e = top
    BY <1>0
  <2> QED BY <2>1, <1>2, <1>3 DEF Twin
<1>6. ASSUME NEW c \in InUse(s) \ {dest}, NEW k, NEW h, HasEntry(z, c, k, h) PROVE HasEntry(s, c, k, h)
  <2>1. h # top
    BY <1>0, <1>6, NamesUnique
  <2>2. h \in InUse(s)
    BY <1>0, <1>6, <2>1, NamesType
  <2> QED BY <1>0, <1>6, <2>2, EntriesBack
<1>7. Copied(s, z, top, src, dest)
  BY <1>0, <1>5, <1>6 DEF Copied
<1> QED BY <1>4, <1>7

\* A copy under way from u to t that goes on as a copy should.
Twins(s, top, src, dest, u, t) ==
  Follows(u, t) /\ Retains(u.fs, t.fs, {}) /\ Copied(s, t.fs, top, src, dest)

\* The copying of one level does so, from any directory of the copy.
CopiesWell(s, top, src, dest, g) ==
  \A args \in Itab \X Itab \X Itab, u \in Copies :
    Fine(u) /\ Copied(s, u.fs, top, src, dest) /\ Place(s, u.fs, top, src, args[2], args[3])
      => Twins(s, top, src, dest, u, g[args][u])

\* Twins is transitive.
LEMMA TwinsTransitive ==
  ASSUME NEW s, NEW top, NEW src, NEW dest, NEW u, Fine(u), NEW v, NEW t,
         Twins(s, top, src, dest, u, v), Twins(s, top, src, dest, v, t)
  PROVE  Twins(s, top, src, dest, u, t)
<1>1. Follows(u, t)
  BY FollowsTransitive DEF Twins
<1>2. Retains(u.fs, t.fs, {})
  BY RetainsTransitive DEF Twins
<1> QED BY <1>1, <1>2 DEF Twins

\* A copy whose count of entries is one less, and a copy that has failed.
Counted(u) == [u EXCEPT !.count = @ - 1]
Failing(u) == [u EXCEPT !.ret = Fail]

\* Nothing happens, but for the count.
LEMMA TwinsFields ==
  ASSUME NEW s, NEW top, NEW src, NEW dest, NEW u, Fine(u), Copied(s, u.fs, top, src, dest)
  PROVE  /\ Twins(s, top, src, dest, u, u)
         /\ Twins(s, top, src, dest, u, Failing(u))
         /\ Twins(s, top, src, dest, u, Counted(u))
         /\ Counted(u).fs = u.fs
<1>0. Sound(u.fs) /\ OneBlockFiles(u.fs) /\ Grown(u.fs, u.fs) /\ Retains(u.fs, u.fs, {}) /\ u \in Copies /\ u.fs \in States
  BY GrownReflexive, RetainsReflexive DEF Fine, Sound, Formed
<1>1. Follows(u, u) /\ Follows(u, [u EXCEPT !.ret = Fail]) /\ Follows(u, [u EXCEPT !.count = @ - 1])
  BY <1>0, FollowsFields
<1>2. [u EXCEPT !.ret = Fail].fs = u.fs /\ [u EXCEPT !.count = @ - 1].fs = u.fs
  BY <1>0, CopiesFields
<1> QED BY <1>0, <1>1, <1>2 DEF Twins, Counted, Failing

\* The walk over the entries of a directory that has its place in the copy.
LEMMA WalkTwins ==
  ASSUME NEW s, NEW top, NEW src, NEW dest, NEW g, CopiesWell(s, top, src, dest, g),
         NEW u, Fine(u), Copied(s, u.fs, top, src, dest), NEW made, made.fs = u.fs, made.ino \in Itab,
         NEW f \in DirsOf(u.fs), Place(s, u.fs, top, src, made.ino, f)
  PROVE  Twins(s, top, src, dest, u, CopyWalkOf(g, u, made, f))
<1> DEFINE M == made.fs.itab[f].size
           G == {t \in Copies : Twins(s, top, src, dest, u, t)}
<1>0. M \in Nat /\ f \in Itab
  BY GrownReflexive, GrownEntry, StateType DEF Fine, Sound, Formed, DirsOf, InUse
<1>1. \A n \in 1 .. M : \A t \in G :
        g[<<Entry(t.fs, f, n - 1).ino, made.ino, f>>][[t EXCEPT !.count = @ - 1]] \in G
  <2> SUFFICES ASSUME NEW n \in 1 .. M, NEW t \in G
               PROVE  g[<<Entry(t.fs, f, n - 1).ino, made.ino, f>>][[t EXCEPT !.count = @ - 1]] \in G
    OBVIOUS
  <2>1. t \in Copies /\ Twins(s, top, src, dest, u, t) /\ Follows(u, t) /\ Fine(t)
    BY DEF Twins, Follows
  <2>2. Copied(s, t.fs, top, src, dest) /\ Retains(u.fs, t.fs, {}) /\ Sound(u.fs)
    BY <2>1 DEF Twins, Fine
  <2> DEFINE t1 == Counted(t)
             args == <<Entry(t.fs, f, n - 1).ino, made.ino, f>>
  <2>3. Twins(s, top, src, dest, t, t1) /\ t1.fs = t.fs
    BY <2>1, <2>2, TwinsFields
  <2>4. args \in Itab \X Itab \X Itab /\ args[2] = made.ino /\ args[3] = f
    <3>1. M = u.fs.itab[f].size /\ Sound(t.fs) /\ Grown(u.fs, t.fs)
      BY <2>1 DEF Fine, Follows
    <3>2. Entry(t.fs, f, n - 1).ino \in Itab
      <4> HIDE DEF M
      <4> QED BY <2>2, <3>1, GrownEntry
    <3> QED BY <3>2, <1>0
  <2> HIDE DEF t1, args
  <2>5. Fine(t1) /\ t1 \in Copies
    BY <2>3 DEF Twins, Follows, Fine
  <2>6. Place(s, t1.fs, top, src, args[2], args[3])
    BY <2>2, <2>3, <2>4, TwinKept
  <2>7. Copied(s, t1.fs, top, src, dest)
    BY <2>2, <2>3
  <2>8. Twins(s, top, src, dest, t1, g[args][t1])
    BY <2>4, <2>5, <2>6, <2>7 DEF CopiesWell
  <2>9. Twins(s, top, src, dest, t, g[args][t1])
    BY <2>1, <2>3, <2>8, TwinsTransitive
  <2>10. Twins(s, top, src, dest, u, g[args][t1])
    BY <2>1, <2>9, TwinsTransitive
  <2>11. g[args][t1] \in Copies
    BY <2>10 DEF Twins, Follows, Fine
  <2> QED BY <2>10, <2>11 DEF args, t1, Counted
<1>2. u \in G
  BY TwinsFields DEF Fine
<1>3. \A t \in G : Twins(s, top, src, dest, u, t)
  OBVIOUS
<1>4. G \subseteq Copies
  OBVIOUS
<1>5. M = made.fs.itab[f].size
  OBVIOUS
<1> HIDE DEF G, M
<1>6. CopyWalkOf(g, u, made, f) \in G
  <2>1. M \in Nat
    BY <1>0
  <2>2. \A n \in 1 .. M : \A t \in G :
          t.ret # Fail => g[<<Entry(t.fs, f, n - 1).ino, made.ino, f>>][[t EXCEPT !.count = @ - 1]] \in G
    BY <1>1
  <2> QED BY <2>1, <2>2, <1>2, <1>4, <1>5, CopyWalkStays
<1> QED BY <1>3, <1>6

\* The directory dest is not below src.
Apart(s, src, dest) == \A q : ~ Leads(s, src, q, dest)

\* An entry of a directory that has its place is one of the original.
LEMMA EntryCopied ==
  ASSUME NEW s, NEW x, NEW top, NEW src, NEW dest, Apart(s, src, dest), Copied(s, x, top, src, dest),
         NEW d, NEW m, Place(s, x, top, src, d, m), NEW n, NEW f, HasEntry(x, m, n, f)
  PROVE  HasEntry(s, m, n, f)
<1>1. \E q : Leads(s, src, q, m)
  BY DEF Place
<1>2. m \in InUse(s) \ {dest}
  BY <1>1, LeadsType DEF Apart
<1> QED BY <1>2 DEF Copied

\* A file that is added and then gets the content of another.
LEMMA AddedEquated ==
  ASSUME NEW x, NEW y, NEW d, NEW n, NEW e, Adds(x, y, d, n, e), NEW f \in FilesOf(x), NEW z, Equates(y, z, e, f)
  PROVE  /\ Adds(x, z, d, n, e) /\ Content(z, e) = Content(x, f)
         /\ z.itab[e].type = y.itab[e].type
<1>1. /\ Retains(x, y, {}) /\ e \notin InUse(x) /\ e \in InUse(y) /\ InUse(y) = InUse(x) \cup {e}
      /\ HasEntry(y, d, n, e) /\ d \in DirsOf(x)
  BY DEF Adds
<1>2. InUse(z) = InUse(y) /\ Retains(y, z, {e}) /\ Content(z, e) = Content(y, f)
  BY DEF Equates
<1>3. Content(y, f) = Content(x, f)
  BY <1>1 DEF Retains
<1>4. Retains(x, z, {})
  <2>1. Retains(x, z, {e})
    <3>1. Retains(x, y, {e})
      BY <1>1, RetainsLess
    <3> QED BY <1>2, <3>1, RetainsTransitive
  <2>2. e \notin FilesOf(x)
    BY <1>1 DEF FilesOf
  <2> QED BY <2>1, <2>2 DEF Retains
<1>5. HasEntry(z, d, n, e) /\ z.itab[e].type = y.itab[e].type
  BY <1>1, <1>2 DEF Retains
<1> QED BY <1>1, <1>2, <1>3, <1>4, <1>5 DEF Adds

\* Another object of the original is made in the copy.
LEMMA MadeTwin ==
  ASSUME NEW s, Sound(s), NEW x, Sound(x), NEW top, NEW src, NEW dest, Copied(s, x, top, src, dest),
         NEW d, NEW m, Place(s, x, top, src, d, m), NEW n, NEW f, HasEntry(s, m, n, f),
         NEW y, Sound(y), NEW e, Adds(x, y, d, n, e), Blank(y, e, x.itab[f].type)
  PROVE  /\ f \in DirsOf(x) => Copied(s, y, top, src, dest) /\ Place(s, y, top, src, e, f)
         /\ \A z : f \in FilesOf(x) /\ Sound(z) /\ Equates(y, z, e, f) => Copied(s, z, top, src, dest)
<1>0. /\ Retains(s, x, {}) /\ Retains(x, y, {}) /\ f \in InUse(s) /\ x.itab[f].type = s.itab[f].type /\ FILE # DIR
      /\ e \notin InUse(x) /\ e \in InUse(y) /\ y.itab[e].type = x.itab[f].type
      /\ InUse(y) = InUse(x) \cup {e} /\ HasEntry(y, d, n, e) /\ d \in DirsOf(x)
  <2>1. f \in InUse(s)
    BY NamesType
  <2> QED BY <2>1, Constants DEF Copied, Adds, Retains, Blank
<1>1. ASSUME f \in DirsOf(x) PROVE Copied(s, y, top, src, dest) /\ Place(s, y, top, src, e, f)
  <2>1. Shown(y, e) = Shown(s, f)
    BY <1>0, <1>1 DEF Shown, DirsOf
  <2> QED BY <2>1, TwinAdded
<1>2. ASSUME NEW z, f \in FilesOf(x), Sound(z), Equates(y, z, e, f) PROVE Copied(s, z, top, src, dest)
  <2>1. /\ Adds(x, z, d, n, e) /\ Content(z, e) = Content(x, f)
        /\ z.itab[e].type = FILE /\ s.itab[f].type = FILE
    <3>1. x.itab[f].type = FILE
      BY <1>2 DEF FilesOf
    <3> QED BY <1>0, <1>2, <3>1, AddedEquated
  <2>2. Content(x, f) = Content(s, f)
    BY <1>0, <2>1 DEF FilesOf, Retains
  <2>3. Shown(z, e) = Shown(s, f)
    BY <1>0, <2>1, <2>2 DEF Shown
  <2> QED BY <1>2, <2>1, <2>3, TwinAdded
<1> QED BY <1>1, <1>2

\* Copying one object, when a level below copies well.
LEMMA CopyOneTwins ==
  ASSUME NEW s, Sound(s), NEW top, NEW src, NEW dest, Apart(s, src, dest),
         NEW g, NEW d, d = 0 \/ CopiesWell(s, top, src, dest, g),
         NEW args \in Itab \X Itab \X Itab, NEW u, Fine(u),
         Copied(s, u.fs, top, src, dest), Place(s, u.fs, top, src, args[2], args[3])
  PROVE  Twins(s, top, src, dest, u, CopyOne(g, d, args, u))
<1> DEFINE f == args[1]
           a == args[2]
           m == args[3]
           name == get_name(u.fs, m, f)
           type == u.fs.itab[f].type
           n1 == CHOOSE n \in name : TRUE
           made == NewObject(u.fs, a, n1, type)
           new == [u EXCEPT !.fs = made.fs]
           r == CopyOne(g, d, args, u)
<1>1. /\ (d = 0 \/ u.count < 0) => r = u
      /\ ~ (d = 0 \/ u.count < 0) =>
           /\ (name = {} \/ made.ret = Fail) => r = Failing(u)
           /\ ~ (name = {} \/ made.ret = Fail) =>
                /\ type = FILE => r = [new EXCEPT !.fs = copy_inode(made.fs, made.ino, f), !.count = @ - 1]
                /\ type # FILE => r = CopyWalkOf(g, new, made, f)
  BY DEF CopyOne, Failing
<1> SUFFICES Twins(s, top, src, dest, u, r)
  OBVIOUS
<1> HIDE DEF r
<1>2. f \in Itab /\ a \in Itab /\ m \in Itab /\ Sound(u.fs) /\ OneBlockFiles(u.fs) /\ Place(s, u.fs, top, src, a, m)
  BY DEF Fine
<1> HIDE DEF f, a, m
<1>3. Twins(s, top, src, dest, u, u) /\ Twins(s, top, src, dest, u, Failing(u))
  BY TwinsFields
<1>4. ASSUME d # 0, name # {}, made.ret # Fail,
             type = FILE => r = [new EXCEPT !.fs = copy_inode(made.fs, made.ino, f), !.count = @ - 1],
             type # FILE => r = CopyWalkOf(g, new, made, f)
      PROVE  Twins(s, top, src, dest, u, r)
  <2>1. n1 \in Names /\ f \in InUse(u.fs) /\ HasEntry(u.fs, m, n1, f)
    <3> HIDE DEF n1
    <3> QED BY <1>2, <1>4, GetNameIs DEF n1
  <2> HIDE DEF n1
  <2>2. HasEntry(s, m, n1, f)
    BY <1>2, <2>1, EntryCopied
  <2>3. type \in {FILE, DIR}
    BY <1>2, StateType DEF Sound, Formed
  <2> HIDE DEF type
  <2>4. /\ Keeps(u.fs, made.fs) /\ Grown(u.fs, made.fs) /\ Sound(made.fs)
        /\ Adds(u.fs, made.fs, a, n1, made.ino) /\ Blank(made.fs, made.ino, type)
    <3> HIDE DEF made
    <3>1. Keeps(u.fs, made.fs) /\ Grown(u.fs, made.fs)
      BY <1>2, <2>1, <2>3, NewObjectKeeps DEF made
    <3>2. Sound(made.fs) /\ AddsOrFails(u.fs, made, a, n1, type)
      BY <1>2, <2>1, <2>3, NewObjectAdds DEF made
    <3> QED BY <1>4, <3>1, <3>2 DEF AddsOrFails
  <2> HIDE DEF made
  <2>5. /\ made.ino \in InUse(made.fs) /\ made.ino \in Itab /\ Retains(u.fs, made.fs, {})
        /\ made.fs.itab[made.ino].type = type
    <3>1. made.ino \in InUse(made.fs) /\ Retains(u.fs, made.fs, {}) /\ made.fs.itab[made.ino].type = type
      BY <2>4 DEF Adds, Blank
    <3>2. InUse(made.fs) \subseteq Itab
      BY <2>4, StateType DEF Sound, Formed, InUse
    <3> QED BY <3>1, <3>2
  <2>6. Sound(made.fs) /\ OneBlockFiles(made.fs) /\ (FewNames /\ OnePageDirs(u.fs) => OnePageDirs(made.fs))
    BY <1>2, <2>4 DEF Keeps
  <2>7. Follows(u, new) /\ new.fs = made.fs /\ Fine(new)
    <3>1. Follows(u, new) /\ new.fs = made.fs
      BY <1>2, <2>4, <2>6, FollowsFields
    <3> HIDE DEF new
    <3> QED BY <3>1 DEF Follows
  <2>8. f \in InUse(made.fs) /\ made.fs.itab[f].type = type
    BY <2>1, <2>5 DEF Retains, type
  <2>9. Blank(made.fs, made.ino, u.fs.itab[f].type)
    BY <2>4 DEF type
  <2> HIDE DEF new
  <2>10. CASE type = FILE
    <3> DEFINE x == copy_inode(made.fs, made.ino, f)
    <3>1. f \in FilesOf(made.fs) /\ made.ino \in FilesOf(made.fs) /\ f \in FilesOf(u.fs)
      BY <2>1, <2>5, <2>8, <2>10 DEF FilesOf, type
    <3>2. /\ Sound(x) /\ OneBlockFiles(x) /\ Grown(made.fs, x) /\ (FewNames /\ OnePageDirs(made.fs) => OnePageDirs(x))
          /\ Equates(made.fs, x, made.ino, f)
      BY <2>6, <3>1, CopyInodeKeeps
    <3> HIDE DEF x
    <3>3. /\ Follows(new, [new EXCEPT !.fs = x, !.count = @ - 1])
          /\ [new EXCEPT !.fs = x, !.count = @ - 1].fs = x
      <4>1. new \in Copies /\ x \in States
        BY <2>7, <3>2 DEF Fine, Sound, Formed
      <4>2. Follows(new, [new EXCEPT !.fs = x, !.count = @ - 1])
        BY <2>7, <3>2, FollowsFields
      <4> QED BY <4>1, <4>2, CopiesFields
    <3>4. Follows(new, r) /\ r.fs = x
      BY <1>4, <2>10, <3>3 DEF x
    <3>5. Follows(u, r)
      BY <2>7, <3>4, FollowsTransitive
    <3>6. Copied(s, x, top, src, dest)
      BY <1>2, <2>2, <2>4, <2>9, <3>1, <3>2, MadeTwin
    <3>7. Retains(u.fs, x, {})
      <4>1. Retains(u.fs, x, {made.ino})
        <5>1. Retains(u.fs, made.fs, {made.ino})
          BY <2>5, RetainsLess
        <5> QED BY <3>2, <5>1, RetainsTransitive DEF Equates
      <4>2. made.ino \notin FilesOf(u.fs)
        BY <2>4 DEF Adds, FilesOf
      <4> QED BY <4>1, <4>2 DEF Retains
    <3> QED BY <3>4, <3>5, <3>6, <3>7 DEF Twins
  <2>11. CASE type # FILE
    <3>1. f \in DirsOf(new.fs) /\ f \in DirsOf(u.fs)
      BY <2>1, <2>3, <2>7, <2>8, <2>11 DEF DirsOf, type
    <3>2. Copied(s, new.fs, top, src, dest) /\ Place(s, new.fs, top, src, made.ino, f)
      BY <1>2, <2>2, <2>4, <2>7, <2>9, <3>1, MadeTwin
    <3>3. Twins(s, top, src, dest, new, CopyWalkOf(g, new, made, f))
      BY <1>4, <2>5, <2>7, <3>1, <3>2, WalkTwins
    <3>4. Twins(s, top, src, dest, u, new)
      BY <2>5, <2>7, <3>2 DEF Twins
    <3>5. r = CopyWalkOf(g, new, made, f)
      BY <1>4, <2>11
    <3> QED BY <3>3, <3>4, <3>5, TwinsTransitive
  <2> QED BY <2>10, <2>11
<1> HIDE DEF name, type, n1, made, new
<1>5. CASE d = 0 \/ u.count < 0
  BY <1>1, <1>3, <1>5
<1>6. CASE ~ (d = 0 \/ u.count < 0) /\ (name = {} \/ made.ret = Fail)
  BY <1>1, <1>3, <1>6
<1>7. CASE ~ (d = 0 \/ u.count < 0) /\ ~ (name = {} \/ made.ret = Fail)
  BY <1>1, <1>4, <1>7
<1> QED BY <1>5, <1>6, <1>7

\* Every level copies well.
LEMMA LevelsCopyWell ==
  ASSUME NEW s, Sound(s), NEW top, NEW src, NEW dest, Apart(s, src, dest), NEW h, CopiedUpTo(h)
  PROVE  \A d \in 0 .. Depth : CopiesWell(s, top, src, dest, h[d])
<1> DEFINE T == {d \in 0 .. Depth : CopiesWell(s, top, src, dest, h[d])}
<1>0. Depth \in Nat /\ Depth \in 0 .. Depth /\ 0 \in 0 .. Depth
  BY Constants DEF Depth
<1>1. \A d \in 0 .. Depth : \A args \in Itab \X Itab \X Itab, t \in Copies :
        h[d][args][t] = CopyOne(h[d - 1], d, args, t)
  BY LevelsCopy
<1>2. ASSUME NEW d \in 0 .. Depth, d = 0 \/ CopiesWell(s, top, src, dest, h[d - 1])
      PROVE  CopiesWell(s, top, src, dest, h[d])
  <2> SUFFICES ASSUME NEW args \in Itab \X Itab \X Itab, NEW u \in Copies,
                      Fine(u), Copied(s, u.fs, top, src, dest), Place(s, u.fs, top, src, args[2], args[3])
               PROVE  Twins(s, top, src, dest, u, h[d][args][u])
    BY DEF CopiesWell
  <2>1. Twins(s, top, src, dest, u, CopyOne(h[d - 1], d, args, u))
    BY <1>2, CopyOneTwins
  <2> QED BY <1>1, <2>1
<1>3. 0 \in T
  BY <1>0, <1>2
<1>4. \A d \in 1 .. Depth : d - 1 \in T => d \in T
  <2> SUFFICES ASSUME NEW d \in 1 .. Depth, d - 1 \in T PROVE d \in T
    OBVIOUS
  <2>1. d \in 0 .. Depth /\ CopiesWell(s, top, src, dest, h[d - 1])
    BY <1>0
  <2> QED BY <1>2, <2>1
<1>5. \A d \in 0 .. Depth : d \in T
  <2> HIDE DEF T
  <2> QED BY <1>0, <1>3, <1>4, BoundedInduction
<1> QED BY <1>5

\* fs_copy_aux makes a part of the copy.
LEMMA CopyAuxTwins ==
  ASSUME NEW s, Sound(s), NEW top, NEW src, NEW dest, Apart(s, src, dest), NEW u, Fine(u),
         NEW file \in Itab, NEW a \in Itab, NEW m \in Itab,
         Copied(s, u.fs, top, src, dest), Place(s, u.fs, top, src, a, m)
  PROVE  Twins(s, top, src, dest, u, fs_copy_aux(u, file, a, m))
<1>1. PICK h : CopiedUpTo(h) /\ fs_copy_aux(u, file, a, m) = h[Depth][<<file, a, m>>][u]
  BY CopiedIs
<1>2. Depth \in 0 .. Depth
  BY Constants DEF Depth
<1>3. CopiesWell(s, top, src, dest, h[Depth])
  BY <1>1, <1>2, LevelsCopyWell
<1> DEFINE args == <<file, a, m>>
<1>4. args \in Itab \X Itab \X Itab /\ args[2] = a /\ args[3] = m
  OBVIOUS
<1> HIDE DEF args
<1>5. Twins(s, top, src, dest, u, h[Depth][args][u])
  BY <1>3, <1>4 DEF CopiesWell, Fine
<1> QED BY <1>1, <1>5 DEF args

\* The walk of fs_copy over a directory makes a copy of it below top.
LEMMA FirstWalkTwins ==
  ASSUME NEW s, Sound(s), NEW top \in Itab, NEW src, NEW dest, Apart(s, src, dest), NEW u, Fine(u),
         src \in DirsOf(u.fs), Copied(s, u.fs, top, src, dest), Place(s, u.fs, top, src, top, src)
  PROVE  Twins(s, top, src, dest, u, FirstWalkOf(u, src, top, src))
<1> DEFINE M == u.fs.itab[src].size
           G == {t \in Copies : Twins(s, top, src, dest, u, t)}
<1>0. M \in Nat /\ src \in Itab
  BY StateType DEF Fine, Sound, Formed, DirsOf, InUse
<1>1. \A n \in 1 .. M : \A t \in G :
        t.ret # Fail => fs_copy_aux(t, Entry(t.fs, src, n - 1).ino, top, src) \in G
  <2> SUFFICES ASSUME NEW n \in 1 .. M, NEW t \in G
               PROVE  fs_copy_aux(t, Entry(t.fs, src, n - 1).ino, top, src) \in G
    OBVIOUS
  <2>1. t \in Copies /\ Twins(s, top, src, dest, u, t) /\ Follows(u, t) /\ Fine(t)
    BY DEF Twins, Follows
  <2>2. Copied(s, t.fs, top, src, dest) /\ Retains(u.fs, t.fs, {}) /\ Sound(u.fs)
    BY <2>1 DEF Twins, Fine
  <2> DEFINE file == Entry(t.fs, src, n - 1).ino
  <2>3. file \in Itab
    <3>1. M = u.fs.itab[src].size /\ Sound(t.fs) /\ Grown(u.fs, t.fs)
      BY <2>1 DEF Fine, Follows
    <3> HIDE DEF M
    <3> QED BY <2>2, <3>1, GrownEntry
  <2> HIDE DEF file
  <2>4. Place(s, t.fs, top, src, top, src)
    BY <2>2, TwinKept
  <2>5. Twins(s, top, src, dest, t, fs_copy_aux(t, file, top, src))
    BY <1>0, <2>1, <2>2, <2>3, <2>4, CopyAuxTwins
  <2>6. Twins(s, top, src, dest, u, fs_copy_aux(t, file, top, src))
    BY <2>1, <2>5, TwinsTransitive
  <2>7. fs_copy_aux(t, file, top, src) \in Copies
    BY <2>6 DEF Twins, Follows, Fine
  <2> QED BY <2>6, <2>7 DEF file
<1>2. u \in G
  BY TwinsFields DEF Fine
<1>3. G \subseteq Copies /\ \A t \in G : Twins(s, top, src, dest, u, t)
  OBVIOUS
<1>4. M = u.fs.itab[src].size
  OBVIOUS
<1> HIDE DEF G, M
<1>5. FirstWalkOf(u, src, top, src) \in G
  BY <1>0, <1>1, <1>2, <1>3, <1>4, FirstWalkStays
<1> QED BY <1>3, <1>5

-----------------------------------------------------------------------------
(* descendsFrom finds every directory below.                                *)

\* The recursion of descendsFrom, by depth.
FoundBy(g, s, des, p) ==
  \E i \in Positions(s, p) :
    s.itab[Entry(s, p, i).ino].type = DIR /\ (Entry(s, p, i).ino = des \/ g[Entry(s, p, i).ino])

FoundUpTo(b, s, des) ==
  b = [d \in 0 .. Depth |-> [p \in Itab |-> d # 0 /\ FoundBy(b[d - 1], s, des, p)]]

\* descendsFrom by its equation.
LEMMA FoundIsDefined ==
  ASSUME NEW s, NEW des, NEW parent
  PROVE  \E h : FoundUpTo(h, s, des) /\ descendsFrom(s, des, parent) = h[Depth][parent]
<1> DEFINE None == [p \in Itab |-> FALSE]
           A == [Itab -> BOOLEAN]
           Level(g) == [p \in Itab |-> FoundBy(g, s, des, p)]
           F == [d \in 1 .. Depth |-> [g \in A |-> Level(g)]]
           I == [n \in 0 .. Depth |-> A]
<1>0. Depth \in Nat /\ Depth \in 0 .. Depth /\ 0 \in 0 .. Depth
  BY Constants DEF Depth
<1>1. None \in A /\ \A g \in A : Level(g) \in A
  <2>1. \A g, p : FoundBy(g, s, des, p) \in BOOLEAN
    BY DEF FoundBy
  <2> QED BY <2>1
<1>2. \A n \in 1 .. Depth : \A g \in A : F[n][g] = Level(g)
  <2> HIDE DEF Level, A
  <2> QED OBVIOUS
<1> HIDE DEF F
<1>3. PICK u : Steps(u, Depth, None, F)
  <2> HIDE DEF None
  <2> QED BY <1>0, StepsExist
<1>4. \A n \in 0 .. Depth : u[n] \in A
  <2> HIDE DEF A, None, Level
  <2>1. \A n \in 0 .. Depth : I[n] = A
    OBVIOUS
  <2>2. \A n \in 1 .. Depth : n - 1 \in 0 .. Depth /\ n \in 0 .. Depth
    BY <1>0
  <2> HIDE DEF I
  <2>3. None \in I[0] /\ \A n \in 1 .. Depth : \A t \in I[n - 1] : F[n][t] \in I[n]
    BY <1>0, <1>1, <1>2, <2>1, <2>2
  <2>4. \A n \in 0 .. Depth : u[n] \in I[n]
    BY <1>0, <1>3, <2>3, StepsKeep
  <2> QED BY <2>1, <2>4
<1>5. FoundUpTo(u, s, des)
  <2>1. u = [n \in 0 .. Depth |-> IF n = 0 THEN None ELSE F[n][u[n - 1]]]
    BY <1>3 DEF Steps
  <2>2. ASSUME NEW n \in 0 .. Depth
        PROVE  (IF n = 0 THEN None ELSE F[n][u[n - 1]])
                 = [p \in Itab |-> n # 0 /\ FoundBy(u[n - 1], s, des, p)]
    <3>1. CASE n = 0
      BY <3>1
    <3>2. CASE n # 0
      <4>1. n \in 1 .. Depth /\ n - 1 \in 0 .. Depth
        BY <1>0, <3>2
      <4>2. F[n][u[n - 1]] = Level(u[n - 1])
        <5> HIDE DEF Level
        <5> QED BY <4>1, <1>2, <1>4
      <4>3. \A p \in Itab : FoundBy(u[n - 1], s, des, p) = (n # 0 /\ FoundBy(u[n - 1], s, des, p))
        BY <3>2 DEF FoundBy
      <4>4. Level(u[n - 1]) = [p \in Itab |-> n # 0 /\ FoundBy(u[n - 1], s, des, p)]
        BY <4>3
      <4> QED BY <4>2, <4>4, <3>2
    <3> QED BY <3>1, <3>2
  <2>3. u = [n \in 0 .. Depth |-> [p \in Itab |-> n # 0 /\ FoundBy(u[n - 1], s, des, p)]]
    <3> HIDE DEF None
    <3> QED BY <2>1, <2>2
  <2> QED BY <2>3 DEF FoundUpTo
<1> DEFINE H == CHOOSE h : FoundUpTo(h, s, des)
<1>6. FoundUpTo(H, s, des)
  BY <1>5
<1>7. descendsFrom(s, des, parent) = H[Depth][parent]
  BY DEF descendsFrom, FoundUpTo, FoundBy
<1> HIDE DEF H
<1> QED BY <1>6, <1>7

\* A directory below parent is found.
LEMMA FoundBelow ==
  ASSUME NEW s, Sound(s), NEW parent \in DirsOf(s), NEW q, q # <<>>, NEW des \in DirsOf(s), Leads(s, parent, q, des)
  PROVE  descendsFrom(s, des, parent)
<1>0. Depth \in Nat /\ Depth \in 0 .. Depth /\ 0 \in 0 .. Depth /\ DirsOf(s) \subseteq Itab
  BY Constants, StateType DEF Depth, Sound, Formed, DirsOf, InUse
<1>1. PICK h : FoundUpTo(h, s, des) /\ descendsFrom(s, des, parent) = h[Depth][parent]
  BY FoundIsDefined
<1>2. \A d \in 0 .. Depth : \A p \in Itab : h[d][p] = (d # 0 /\ FoundBy(h[d - 1], s, des, p))
  <2> SUFFICES ASSUME NEW d \in 0 .. Depth, NEW p \in Itab
               PROVE  h[d][p] = (d # 0 /\ FoundBy(h[d - 1], s, des, p))
    OBVIOUS
  <2>1. h[d] = [x \in Itab |-> d # 0 /\ FoundBy(h[d - 1], s, des, x)]
    BY <1>1 DEF FoundUpTo
  <2> QED BY <2>1
<1> DEFINE T == {d \in 0 .. Depth : \A p \in DirsOf(s) : \A x :
                   x # <<>> /\ Leads(s, p, x, des) /\ Len(x) <= d => h[d][p]}
<1>3. 0 \in T
  <2>1. ASSUME NEW p, NEW x, x # <<>>, Leads(s, p, x, des) PROVE ~ (Len(x) <= 0)
    BY <2>1, LeadsType, EmptySeq
  <2> QED BY <1>0, <2>1
<1>4. \A d \in 1 .. Depth : d - 1 \in T => d \in T
  <2> SUFFICES ASSUME NEW d \in 1 .. Depth, d - 1 \in T, NEW p \in DirsOf(s), NEW x,
                      x # <<>>, Leads(s, p, x, des), Len(x) <= d
               PROVE  h[d][p]
    BY <1>0
  <2>0. d \in 0 .. Depth /\ d # 0 /\ p \in Itab
    BY <1>0
  <2>1. PICK n, e, y : FirstStep(s, p, x, des, n, e, y)
    BY LeadsFirst
  <2>2. HasEntry(s, p, n, e) /\ Leads(s, e, y, des) /\ Len(x) = Len(y) + 1 /\ Len(y) \in Nat
    BY <2>1, LenProperties DEF FirstStep
  <2>3. PICK i \in Positions(s, p) : Entry(s, p, i).ino = e
    BY <2>2 DEF HasEntry
  <2>4. s.itab[e].type = DIR /\ (e = des \/ h[d - 1][e])
    <3>1. CASE y = <<>>
      <4>1. e = des
        BY <2>2, <3>1, LeadsType, LeadsNowhere
      <4> QED BY <4>1 DEF DirsOf
    <3>2. CASE y # <<>>
      <4>1. e \in DirsOf(s)
        BY <2>2, <3>2, LeadsFirst, NamesType DEF FirstStep
      <4>2. Len(y) <= d - 1
        BY <2>2
      <4>3. h[d - 1][e]
        BY <2>2, <3>2, <4>1, <4>2
      <4> QED BY <4>1, <4>3 DEF DirsOf
    <3> QED BY <3>1, <3>2
  <2>5. FoundBy(h[d - 1], s, des, p)
    BY <2>3, <2>4 DEF FoundBy
  <2> QED BY <1>2, <2>0, <2>5
<1>5. Depth \in T
  <2> HIDE DEF T
  <2>1. \A d \in 0 .. Depth : d \in T
    BY <1>0, <1>3, <1>4, BoundedInduction
  <2> QED BY <1>0, <2>1
<1>6. Len(q) <= Depth
  <2>1. PICK r \in Seq(Names) : Leads(s, Root, r, parent)
    BY PathExists DEF DirsOf
  <2>2. Leads(s, Root, r \o q, des)
    BY <2>1, LeadsThrough
  <2>3. Len(r \o q) \in Nat /\ Len(r \o q) + 2 <= NumInodes
    BY <2>2, PathIsShort
  <2>4. q \in Seq(Names) /\ Len(q) \in Nat /\ Len(r) \in Nat
    BY <2>1, LeadsType
  <2>5. Len(r \o q) = Len(r) + Len(q)
    BY <2>4, ConcatProperties
  <2>6. NumInodes \in Nat
    BY Constants
  <2> HIDE DEF T
  <2> QED BY <2>3, <2>4, <2>5, <2>6 DEF Depth
<1> QED BY <1>1, <1>5, <1>6

-----------------------------------------------------------------------------
(* A copied directory, in the tree.                                         *)

\* The last part of a sequence, and all but its last element.
LEMMA SuffixIs ==
  ASSUME NEW p \in Seq(Names), NEW q \in Seq(Names)
  PROVE  SubSeq(p \o q, Len(p) + 1, Len(p \o q)) = q
<1> DEFINE r == p \o q
           u == SubSeq(r, Len(p) + 1, Len(r))
<1>1. Len(p) \in Nat /\ Len(q) \in Nat /\ \A i \in 1 .. Len(q) : q[i] \in Names
  BY LenProperties, ElementOfSeq
<1>2. Len(r) = Len(p) + Len(q)
  BY ConcatProperties
<1>3. \A i \in 1 .. Len(q) : r[Len(p) + i] = q[i]
  <2> TAKE i \in 1 .. Len(q)
  <2>1. Len(p) + i \in 1 .. Len(p) + Len(q) /\ ~ (Len(p) + i <= Len(p)) /\ (Len(p) + i) - Len(p) = i
    BY <1>1
  <2> DEFINE k == Len(p) + i
  <2>2. k \in 1 .. Len(p) + Len(q) /\ ~ (k <= Len(p)) /\ k - Len(p) = i
    BY <2>1
  <2> HIDE DEF k
  <2>3. r[k] = q[k - Len(p)]
    BY <2>2, ConcatProperties
  <2> QED BY <2>2, <2>3 DEF k
<1> HIDE DEF r
<1>4. \A i \in Len(p) + 1 .. Len(r) : r[i] \in Names
  <2> TAKE i \in Len(p) + 1 .. Len(r)
  <2>1. i - Len(p) \in 1 .. Len(q) /\ Len(p) + (i - Len(p)) = i
    BY <1>1, <1>2
  <2> QED BY <2>1, <1>1, <1>3
<1>5. /\ u \in Seq(Names) /\ Len(u) = Len(q)
      /\ \A i \in 1 .. Len(q) : u[i] = r[(Len(p) + 1) + i - 1]
  <2> DEFINE m == Len(p) + 1
             n == Len(r)
  <2>1. m \in Int /\ n \in Int /\ \A i \in m .. n : r[i] \in Names
    BY <1>1, <1>2, <1>4
  <2>2. (IF m <= n THEN n - m + 1 ELSE 0) = Len(q) /\ n - m + 1 = Len(q)
    BY <1>1, <1>2
  <2> HIDE DEF m, n
  <2>3. /\ SubSeq(r, m, n) \in Seq(Names) /\ Len(SubSeq(r, m, n)) = IF m <= n THEN n - m + 1 ELSE 0
        /\ \A i \in 1 .. n - m + 1 : SubSeq(r, m, n)[i] = r[m + i - 1]
    BY <2>1, SubSeqProperties
  <2> QED BY <2>2, <2>3 DEF m, n
<1> HIDE DEF u
<1>6. \A i \in 1 .. Len(u) : u[i] = q[i]
  <2> TAKE i \in 1 .. Len(u)
  <2>1. (Len(p) + 1) + i - 1 = Len(p) + i /\ i \in 1 .. Len(q)
    BY <1>1, <1>5
  <2> QED BY <2>1, <1>3, <1>5
<1>7. u = q
  BY <1>5, <1>6, SeqEqual
<1> QED BY <1>7 DEF u, r

\* All of a path but its last name.
LEMMA FrontIs ==
  ASSUME NEW p \in Seq(Names), NEW n \in Names
  PROVE  NameTree!Front(Append(p, n)) = p
<1> DEFINE r == Append(p, n)
<1>1. r \in Seq(Names) /\ Len(r) = Len(p) + 1 /\ Len(p) \in Nat /\ \A i \in 1 .. Len(p) : r[i] = p[i]
  BY AppendProperties, LenProperties
<1>2. NameTree!Front(r) = SubSeq(r, 1, Len(p))
  BY <1>1 DEF NameTree!Front
<1> HIDE DEF r
<1> DEFINE u == SubSeq(r, 1, Len(p))
<1>3. u \in Seq(Names) /\ Len(u) = Len(p) /\ \A i \in 1 .. Len(p) : u[i] = r[i]
  <2>1. \A i \in 1 .. Len(p) : r[i] \in Names
    BY <1>1, ElementOfSeq
  <2> QED BY <1>1, <2>1, SubSeqProperties
<1> HIDE DEF u
<1>4. u = p
  BY <1>1, <1>3, SeqEqual
<1> QED BY <1>2, <1>4 DEF u, r

\* The path c of the copy leads to e, by way of top, and q leads to its twin f.
CopyAt(s, t, top, src, to, c, q, e, f) ==
  /\ e \in InUse(t) \ InUse(s) /\ Leads(t, Root, c, e) /\ c = to \o q
  /\ Leads(t, top, q, e) /\ Leads(s, src, q, f) /\ Shown(t, e) = Shown(s, f)

\* A new path is one of the copy.
LEMMA NewPathIs ==
  ASSUME NEW s, Sound(s), NEW t, Sound(t), NEW top, NEW src, NEW dest, Copied(s, t, top, src, dest),
         NEW to, Leads(t, Root, to, top), NEW a, Presents(s, a), NEW b, Presents(t, b),
         NEW c \in DOMAIN b \ DOMAIN a
  PROVE  \E q, e, f : CopyAt(s, t, top, src, to, c, q, e, f)
<1>1. PICK e \in InUse(t) \ InUse(s) : Leads(t, Root, c, e)
  BY TreeKept DEF Copied
<1>2. PICK q, f : Leads(t, top, q, e) /\ Leads(s, src, q, f) /\ Shown(t, e) = Shown(s, f)
  BY <1>1 DEF Copied, Twin
<1>3. Leads(t, Root, to \o q, e)
  BY <1>2, LeadsThrough
<1>4. c = to \o q
  BY <1>1, <1>3, OnePath
<1> QED BY <1>1, <1>2, <1>4 DEF CopyAt

\* What is copied of a directory is so in the tree.
LEMMA TreeCopied ==
  ASSUME NEW s, Sound(s), NEW t, Sound(t), NEW top, NEW src, NEW dest, Copied(s, t, top, src, dest),
         NEW from, Leads(s, Root, from, src), src \in DirsOf(s),
         NEW d, Leads(s, Root, d, dest), dest \in DirsOf(s), NEW name \in Names, NEW to, to = Append(d, name),
         Leads(t, Root, to, top), top \notin InUse(s),
         NEW a, Presents(s, a), NEW b, Presents(t, b)
  PROVE  NameTree!CopyDirectory(a, b, from, to)
<1> DEFINE new == DOMAIN b \ DOMAIN a
           Source(c) == from \o SubSeq(c, Len(to) + 1, Len(c))
           F == [c \in new |-> a[Source(c)]]
<1>0. /\ Retains(s, t, {}) /\ from \in Seq(Names) /\ to \in Seq(Names) /\ d \in Seq(Names)
      /\ Len(to) = Len(d) + 1 /\ Len(d) \in Nat
  BY LeadsType, AppendProperties DEF Copied
<1>1. to \in new
  BY <1>0, TreeKept
<1>2. NameTree!IsDirectory(a, from) /\ NameTree!Vacant(a, to)
  <2>1. NameTree!IsDirectory(a, from)
    BY PathKinds
  <2>2. d \in DOMAIN a /\ NameTree!IsDirectory(a, d)
    BY PathKinds
  <2> HIDE DEF Source, F
  <2> QED BY <2>1, <2>2, <1>1 DEF NameTree!Vacant, NameTree!NewPaths
<1>3. ASSUME NEW c \in new
      PROVE  /\ NameTree!IsPrefix(to, c) /\ (c = to \/ NameTree!Front(c) \in new)
             /\ Source(c) \in DOMAIN a /\ a[Source(c)] = b[c]
  <2>1. PICK q, e, f : CopyAt(s, t, top, src, to, c, q, e, f)
    BY NewPathIs
  <2>2. /\ e \in InUse(t) \ InUse(s) /\ Leads(t, Root, c, e) /\ c = to \o q
        /\ Leads(t, top, q, e) /\ Leads(s, src, q, f) /\ Shown(t, e) = Shown(s, f)
    BY <2>1 DEF CopyAt
  <2>3. q \in Seq(Names) /\ c \in Seq(Names) /\ Len(c) \in Nat /\ Len(q) \in Nat
    BY <2>2, LeadsType
  <2>4. NameTree!IsPrefix(to, c)
    <3>1. SubSeq(c, 1, Len(to)) = to /\ SubSeq(to, 1, Len(to)) = to /\ Len(to) <= Len(c)
      BY <1>0, <2>2, <2>3, PrefixIs
    <3> QED BY <3>1 DEF NameTree!IsPrefix
  <2>5. Source(c) = from \o q
    BY <1>0, <2>2, <2>3, SuffixIs
  <2>6. Source(c) \in DOMAIN a /\ a[Source(c)] = b[c]
    <3>1. Leads(s, Root, from \o q, f)
      BY <2>2, LeadsThrough
    <3>2. from \o q \in DOMAIN a /\ a[from \o q] = Shown(s, f)
      BY <3>1, PathKinds
    <3>3. b[c] = Shown(t, e)
      BY <2>2, PathKinds
    <3> QED BY <2>2, <2>5, <3>2, <3>3
  <2>7. c = to \/ NameTree!Front(c) \in new
    <3>1. c # <<>>
      <4>1. Len(c) = Len(to) + Len(q)
        BY <1>0, <2>2, <2>3, ConcatProperties
      <4> QED BY <4>1, <1>0, <2>3, EmptySeq
    <3>2. PICK r \in Seq(Names), n \in Names : \E h :
            c = Append(r, n) /\ Leads(t, Root, r, h) /\ HasEntry(t, h, n, e)
      BY <2>2, <3>1, LeadsLast
    <3>3. PICK h : c = Append(r, n) /\ Leads(t, Root, r, h) /\ HasEntry(t, h, n, e)
      BY <3>2
    <3>4. NameTree!Front(c) = r
      BY <3>3, FrontIs
    <3>5. CASE h \notin InUse(s)
      <4>1. r \in new
        BY <1>0, <3>3, <3>5, TreeKept
      <4> QED BY <3>4, <4>1
    <3>6. CASE h \in InUse(s)
      <4>1. h = dest
        <5>1. ASSUME h # dest PROVE FALSE
          <6>1. HasEntry(s, h, n, e)
            BY <3>3, <3>6, <5>1 DEF Copied
          <6> QED BY <6>1, <2>2, NamesType
        <5> QED BY <5>1
      <4>2. Leads(t, Root, d, h)
        BY <4>1, <1>0, LeadsKept
      <4>3. r = d
        BY <3>3, <4>2, OnePath
      <4>4. Len(c) = Len(to) /\ Len(c) = Len(to) + Len(q)
        <5>1. Len(c) = Len(r) + 1
          BY <3>3, AppendProperties
        <5>2. Len(c) = Len(to) + Len(q)
          BY <1>0, <2>2, <2>3, ConcatProperties
        <5> QED BY <1>0, <4>3, <5>1, <5>2
      <4>5. q = <<>>
        BY <4>4, <1>0, <2>3, EmptySeq
      <4>6. c = to
        BY <4>5, <1>0, <2>2, ConcatEmptySeq
      <4> QED BY <4>6
    <3> QED BY <3>5, <3>6
  <2> QED BY <2>4, <2>6, <2>7
<1>4. b = NameTree!With(a, F)
  <2>1. DOMAIN F = new /\ \A c \in new : F[c] = b[c]
    <3>1. \A c \in new : a[Source(c)] = b[c]
      BY <1>3
    <3> HIDE DEF Source, new
    <3> QED BY <3>1
  <2>2. DOMAIN a \subseteq DOMAIN b /\ \A p \in DOMAIN a : b[p] = a[p]
    <3>1. DOMAIN a \subseteq DOMAIN b
      BY <1>0, TreeKept
    <3>2. ASSUME NEW p \in DOMAIN a PROVE b[p] = a[p]
      <4>1. PICK h : Leads(s, Root, p, h)
        BY Zenon DEF Presents
      <4>2. h \notin {}
        OBVIOUS
      <4> QED BY <1>0, <4>1, <4>2, TreeKept
    <3> QED BY <3>1, <3>2
  <2> DEFINE w == NameTree!With(a, F)
  <2> HIDE DEF F
  <2>3. /\ w = [q \in DOMAIN w |-> w[q]] /\ DOMAIN w = DOMAIN a \cup DOMAIN F
        /\ \A q \in DOMAIN F : w[q] = F[q]
        /\ \A q \in DOMAIN a \ DOMAIN F : w[q] = a[q]
    BY DEF NameTree!With
  <2>4. b = [q \in DOMAIN b |-> b[q]]
    BY DEF Presents
  <2> HIDE DEF w
  <2>5. DOMAIN b = DOMAIN w /\ \A q \in DOMAIN w : b[q] = w[q]
    BY <2>1, <2>2, <2>3
  <2>6. b = w
    BY <2>3, <2>4, <2>5
  <2> QED BY <2>6 DEF w
<1>5. \A c \in new : NameTree!IsPrefix(to, c) /\ (c = to \/ NameTree!Front(c) \in new)
  BY <1>3
<1>6. \A c \in new : Source(c) \in DOMAIN a
  BY <1>3
<1> QED BY <1>1, <1>2, <1>4, <1>5, <1>6, Zenon DEF NameTree!CopyDirectory

-----------------------------------------------------------------------------
(* fs_copy.                                                                 *)

\* A file has got the content of another.
LEMMA CopyFileOver ==
  ASSUME NEW s, Sound(s), NEW t, Sound(t), NEW src \in FilesOf(s), NEW dst \in FilesOf(s), Equates(s, t, dst, src),
         NEW a, Presents(s, a), NEW b, Presents(t, b)
  PROVE  TreeStep(a, b)
<1>0. InUse(t) = InUse(s) /\ Retains(s, t, {dst}) /\ Content(t, dst) = Content(s, src)
  BY DEF Equates
<1>1. PICK p \in Seq(Names) : Leads(s, Root, p, src)
  BY PathExists DEF FilesOf
<1>2. PICK q \in Seq(Names) : Leads(s, Root, q, dst)
  BY PathExists DEF FilesOf
<1>3. /\ p \in DOMAIN a /\ NameTree!IsRegular(a, p) /\ a[p] = Content(s, src)
      /\ q \in DOMAIN a /\ NameTree!IsRegular(a, q)
  BY <1>1, <1>2, PathKinds
<1>4. b = NameTree!With(a, [x \in {q} |-> Content(t, dst)])
  BY <1>0, <1>2, TreeChanged
<1>5. Content(t, dst) = a[p]
  BY <1>0, <1>3
<1>6. NameTree!CopyFile(a, b, p, q)
  BY <1>3, <1>4, <1>5 DEF NameTree!CopyFile
<1> QED BY <1>3, <1>6 DEF TreeStep, NameTree!Step

\* A new file has got the content of another.
LEMMA CopyFileNew ==
  ASSUME NEW s, Sound(s), NEW y, NEW t, Sound(t), NEW src \in FilesOf(s), NEW dest, NEW name, NEW e,
         Adds(s, y, dest, name, e), Blank(y, e, FILE), Equates(y, t, e, src),
         NEW a, Presents(s, a), NEW b, Presents(t, b)
  PROVE  TreeStep(a, b)
<1>1. Adds(s, t, dest, name, e) /\ Content(t, e) = Content(s, src) /\ t.itab[e].type = FILE
  BY AddedEquated DEF Blank
<1>2. Shown(t, e) = Content(s, src)
  BY <1>1, Constants DEF Shown
<1>3. PICK p \in Seq(Names) : Leads(s, Root, p, src)
  BY PathExists DEF FilesOf
<1>4. PICK d \in Seq(Names) : Leads(s, Root, d, dest)
  BY <1>1, PathExists DEF Adds, DirsOf
<1> DEFINE q == Append(d, name)
<1>5. Gains(a, b, q, Shown(t, e))
  BY <1>1, <1>4, TreeAdded
<1>6. p \in DOMAIN a /\ NameTree!IsRegular(a, p) /\ a[p] = Content(s, src)
  BY <1>3, PathKinds
<1>7. Shown(t, e) = a[p]
  BY <1>2, <1>6
<1> HIDE DEF q
<1>8. NameTree!Vacant(a, q) /\ b = NameTree!With(a, [x \in {q} |-> a[p]])
  BY <1>5, <1>7 DEF Gains
<1>9. q \in NameTree!NewPaths(a)
  BY <1>8 DEF NameTree!Vacant
<1>10. NameTree!CopyFile(a, b, p, q)
  BY <1>6, <1>8 DEF NameTree!CopyFile
<1> QED BY <1>6, <1>9, <1>10 DEF TreeStep, NameTree!Step

\* A new directory has got copies of what is in another.
LEMMA CopyDirectoryNew ==
  ASSUME NEW s, Sound(s), NEW u, Fine(u), NEW src \in DirsOf(s), NEW dest, Apart(s, src, dest),
         NEW name, NEW top, Adds(s, u.fs, dest, name, top), Blank(u.fs, top, DIR),
         NEW t, t = FirstWalkOf(u, src, top, src).fs,
         NEW a, Presents(s, a), NEW b, Presents(t, b)
  PROVE  TreeStep(a, b)
<1>0. /\ Sound(u.fs) /\ u.fs.itab[top].type = DIR /\ Retains(s, u.fs, {}) /\ top \in InUse(u.fs) \ InUse(s)
      /\ dest \in DirsOf(s) /\ HasEntry(u.fs, dest, name, top) /\ name \in Names
  <2>1. Sound(u.fs) /\ HasEntry(u.fs, dest, name, top)
    BY DEF Fine, Adds
  <2> QED BY <2>1, NamesType DEF Adds, Blank
<1>1. Copied(s, u.fs, top, src, dest) /\ Place(s, u.fs, top, src, top, src)
  BY <1>0, TwinStarts
<1>2. src \in DirsOf(u.fs) /\ top \in Itab
  <2>1. InUse(u.fs) \subseteq Itab
    BY <1>0, StateType DEF Sound, Formed, InUse
  <2> QED BY <1>0, <2>1 DEF DirsOf, Retains
<1> DEFINE r == FirstWalkOf(u, src, top, src)
<1>3. Twins(s, top, src, dest, u, r)
  BY <1>1, <1>2, FirstWalkTwins
<1> HIDE DEF r
<1>4. Copied(s, t, top, src, dest) /\ Retains(u.fs, t, {}) /\ Sound(t)
  <2>1. t = r.fs
    BY DEF r
  <2> QED BY <1>3, <2>1 DEF Twins, Follows, Fine
<1>5. PICK from \in Seq(Names) : Leads(s, Root, from, src)
  BY PathExists DEF DirsOf
<1>6. PICK d \in Seq(Names) : Leads(s, Root, d, dest)
  BY <1>0, PathExists DEF DirsOf
<1> DEFINE to == Append(d, name)
<1>7. Leads(u.fs, Root, to, top)
  <2>1. Leads(u.fs, Root, d, dest)
    BY <1>0, <1>6, LeadsKept
  <2> QED BY <1>0, <2>1, LeadsOn
<1>8. Leads(t, Root, to, top)
  BY <1>0, <1>4, <1>7, LeadsKept
<1>9. NameTree!CopyDirectory(a, b, from, to)
  BY <1>0, <1>4, <1>5, <1>6, <1>8, TreeCopied
<1>10. from \in DOMAIN a
  BY <1>5, PathKinds
<1> HIDE DEF to
<1>11. to \in NameTree!NewPaths(a)
  BY <1>9 DEF NameTree!CopyDirectory, NameTree!Vacant
<1> QED BY <1>9, <1>10, <1>11 DEF TreeStep, NameTree!Step

\* A file that the directory does not have is not copied.
LEMMA CopyAuxFails ==
  ASSUME NEW u, Fine(u), NEW file \in Itab, NEW dest \in Itab, NEW mother \in Itab, get_name(u.fs, mother, file) = {}
  PROVE  fs_copy_aux(u, file, dest, mother) \in Copies /\ fs_copy_aux(u, file, dest, mother).fs = u.fs
<1>1. PICK h : CopiedUpTo(h) /\ fs_copy_aux(u, file, dest, mother) = h[Depth][<<file, dest, mother>>][u]
  BY CopiedIs
<1>2. Depth \in 0 .. Depth
  BY Constants DEF Depth
<1> DEFINE args == <<file, dest, mother>>
<1>3. args \in Itab \X Itab \X Itab /\ args[1] = file /\ args[3] = mother
  OBVIOUS
<1> HIDE DEF args
<1>4. h[Depth][args][u] = CopyOne(h[Depth - 1], Depth, args, u)
  BY <1>1, <1>2, <1>3, LevelsCopy DEF Fine
<1>5. CopyOne(h[Depth - 1], Depth, args, u) = u \/ CopyOne(h[Depth - 1], Depth, args, u) = Failing(u)
  BY <1>3 DEF CopyOne, Failing
<1>6. u \in Copies /\ u.fs \in States
  BY DEF Fine, Sound, Formed
<1>7. Failing(u) \in Copies /\ Failing(u).fs = u.fs
  BY <1>6, CopiesFields DEF Failing
<1> QED BY <1>1, <1>4, <1>5, <1>6, <1>7 DEF args

\* Nothing is copied of a directory whose files are looked up in another one.
LEMMA FirstWalkFails ==
  ASSUME NEW u, Fine(u), NEW src \in DirsOf(u.fs), NEW dst \in Itab, NEW dest \in Itab, dest # src
  PROVE  FirstWalkOf(u, src, dst, dest).fs = u.fs
<1> DEFINE M == u.fs.itab[src].size
           G == {t \in Copies : Fine(t) /\ t.fs = u.fs}
<1>0. M \in Nat /\ Sound(u.fs)
  BY StateType DEF Fine, Sound, Formed, DirsOf, InUse
<1>1. \A n \in 1 .. M : \A t \in G :
        t.ret # Fail => fs_copy_aux(t, Entry(t.fs, src, n - 1).ino, dst, dest) \in G
  <2> SUFFICES ASSUME NEW n \in 1 .. M, NEW t \in G
               PROVE  fs_copy_aux(t, Entry(t.fs, src, n - 1).ino, dst, dest) \in G
    OBVIOUS
  <2>1. Fine(t) /\ t.fs = u.fs
    OBVIOUS
  <2> DEFINE file == Entry(u.fs, src, n - 1).ino
             m == Entry(u.fs, src, n - 1).name
  <2>2. HasEntry(u.fs, src, m, file)
    <3>1. n - 1 \in Positions(u.fs, src)
      BY <1>0 DEF Positions
    <3> QED BY <3>1 DEF HasEntry
  <2> HIDE DEF file, m
  <2>3. file \in Itab
    BY <1>0, <2>2, NamesType, StateType DEF Sound, Formed, InUse
  <2>4. get_name(u.fs, dest, file) = {}
    <3> SUFFICES ASSUME NEW name, name = get_name(u.fs, dest, file), name # {} PROVE FALSE
      OBVIOUS
    <3>1. HasEntry(u.fs, dest, CHOOSE x \in name : TRUE, file)
      BY <1>0, <2>3, GetNameIs
    <3> QED BY <1>0, <2>2, <3>1, NamesUnique
  <2> DEFINE r == fs_copy_aux(t, file, dst, dest)
  <2>5. r \in Copies /\ r.fs = u.fs
    BY <2>1, <2>3, <2>4, CopyAuxFails
  <2> HIDE DEF r
  <2>6. Fine(r)
    BY <2>5 DEF Fine
  <2> QED BY <2>1, <2>5, <2>6 DEF r, file
<1>2. u \in G /\ G \subseteq Copies /\ \A t \in G : t.fs = u.fs
  BY DEF Fine
<1>3. M = u.fs.itab[src].size
  OBVIOUS
<1> HIDE DEF G, M
<1>4. FirstWalkOf(u, src, dst, dest) \in G
  BY <1>0, <1>1, <1>2, <1>3, FirstWalkStays
<1> QED BY <1>2, <1>4

\* fs_copy does not copy a directory into one that is below it.
LEMMA ApartIs ==
  ASSUME NEW s, Sound(s), NEW dir, NEW name, NEW src, HasEntry(s, dir, name, src),
         NEW dest \in DirsOf(s), ~ descendsFrom(s, dest, dir)
  PROVE  Apart(s, src, dest)
<1> SUFFICES ASSUME NEW q, Leads(s, src, q, dest) PROVE FALSE
  BY DEF Apart
<1> DEFINE p == <<name>> \o q
<1>1. Leads(s, dir, p, dest)
  BY LeadsFrom
<1>2. name \in Names /\ dir \in DirsOf(s) /\ q \in Seq(Names)
  BY NamesType, LeadsType DEF HasEntry
<1>3. p # <<>>
  <2>1. <<name>> \in Seq(Names) /\ <<name>> # <<>>
    BY <1>2
  <2> QED BY <1>2, <2>1, ConcatEqualIffEmpty
<1> HIDE DEF p
<1> QED BY <1>1, <1>2, <1>3, FoundBelow

\* The one inode a search finds.
LEMMA FoundHas ==
  ASSUME NEW s, Sound(s), NEW dir, IsDir(s, dir), NEW name \in Names,
         NEW found, found = fsi_dir_search(s, dir, name), found # {}
  PROVE  dir \in DirsOf(s) /\ HasEntry(s, dir, name, CHOOSE f \in found : TRUE)
<1>1. dir \in InUse(s)
  BY DEF IsDir, InUse
<1>2. /\ dir \in DirsOf(s)
      /\ \E i \in Positions(s, dir) :
           Entry(s, dir, i).name = name /\ fsi_dir_search(s, dir, name) = {Entry(s, dir, i).ino}
  BY <1>1, SearchIs
<1>3. PICK i \in Positions(s, dir) : Entry(s, dir, i).name = name /\ found = {Entry(s, dir, i).ino}
  BY <1>2
<1>4. (CHOOSE f \in found : TRUE) = Entry(s, dir, i).ino
  BY <1>3
<1>5. HasEntry(s, dir, name, Entry(s, dir, i).ino)
  BY <1>2, <1>3 DEF HasEntry
<1> QED BY <1>2, <1>4, <1>5

\* fs_copy_first: between two files, and from a directory.
LEMMA CopyFirstIs ==
  ASSUME NEW u, Fine(u), NEW file, NEW dest, NEW mother
  PROVE  /\ /\ file \in FilesOf(u.fs) /\ dest \in FilesOf(u.fs)
            => /\ Sound(fs_copy_first(u, file, dest, mother).fs)
               /\ Equates(u.fs, fs_copy_first(u, file, dest, mother).fs, dest, file)
         /\ file \in DirsOf(u.fs) => fs_copy_first(u, file, dest, mother) = FirstWalkOf(u, file, dest, mother)
<1>0. Sound(u.fs) /\ OneBlockFiles(u.fs) /\ u \in Copies /\ FILE # DIR
  BY Constants DEF Fine
<1>1. ASSUME file \in FilesOf(u.fs), dest \in FilesOf(u.fs)
      PROVE  /\ Sound(fs_copy_first(u, file, dest, mother).fs)
             /\ Equates(u.fs, fs_copy_first(u, file, dest, mother).fs, dest, file)
  <2> DEFINE x == copy_inode(u.fs, dest, file)
  <2>1. Sound(x) /\ Equates(u.fs, x, dest, file)
    BY <1>0, <1>1, CopyInodeKeeps
  <2> HIDE DEF x
  <2>2. fs_copy_first(u, file, dest, mother) = [u EXCEPT !.fs = x]
    BY <1>1 DEF fs_copy_first, x, FilesOf
  <2>3. [u EXCEPT !.fs = x].fs = x
    BY <1>0, <2>1, CopiesFields DEF Sound, Formed
  <2> QED BY <2>1, <2>2, <2>3
<1>2. ASSUME file \in DirsOf(u.fs)
      PROVE  fs_copy_first(u, file, dest, mother) = FirstWalkOf(u, file, dest, mother)
  BY <1>0, <1>2 DEF fs_copy_first, FirstWalkOf, FirstWalkIs, DirsOf
<1> QED BY <1>1, <1>2

\* fs_copy to a name that exists: a file gets the content, a directory nothing.
LEMMA CopyOver ==
  ASSUME NEW s, Sound(s), NEW u, Fine(u), u.fs = s, NEW src \in InUse(s), NEW dst \in InUse(s),
         s.itab[dst].type = s.itab[src].type, NEW dest \in DirsOf(s), src \in DirsOf(s) => Apart(s, src, dest),
         NEW t, t = fs_copy_first(u, src, dst, dest).fs, Sound(t),
         NEW a, Presents(s, a), NEW b, Presents(t, b)
  PROVE  TreeStep(a, b)
<1>0. InUse(s) \subseteq Itab
  BY StateType DEF Sound, Formed, InUse
<1>1. CASE src \in DirsOf(s)
  <2>1. dest # src
    <3>1. Leads(s, src, <<>>, src)
      BY LeadsNowhere
    <3> QED BY <1>1, <3>1 DEF Apart
  <2>2. t = FirstWalkOf(u, src, dst, dest).fs
    BY <1>1, CopyFirstIs
  <2>3. dest \in Itab /\ dst \in Itab
    BY <1>0 DEF DirsOf
  <2>4. t = s
    BY <1>1, <2>1, <2>2, <2>3, FirstWalkFails
  <2>5. b = a
    BY <2>4, RetainsReflexive, TreeSame
  <2> QED BY <2>5 DEF TreeStep
<1>2. CASE src \notin DirsOf(s)
  <2>1. src \in FilesOf(s) /\ dst \in FilesOf(s)
    BY <1>2, ShownIs DEF FilesOf
  <2>2. Equates(s, t, dst, src)
    BY <2>1, CopyFirstIs
  <2> QED BY <2>1, <2>2, CopyFileOver
<1> QED BY <1>1, <1>2

\* fs_copy to a new name.
LEMMA CopyAdds ==
  ASSUME NEW s, Sound(s), NEW u, Fine(u), NEW src \in InUse(s), NEW dest, NEW name, NEW e,
         Adds(s, u.fs, dest, name, e), Blank(u.fs, e, s.itab[src].type), src \in DirsOf(s) => Apart(s, src, dest),
         NEW t, t = fs_copy_first(u, src, e, src).fs, Sound(t),
         NEW a, Presents(s, a), NEW b, Presents(t, b)
  PROVE  TreeStep(a, b)
<1>0. /\ src \in InUse(u.fs) /\ u.fs.itab[src].type = s.itab[src].type
      /\ e \in InUse(u.fs) /\ u.fs.itab[e].type = s.itab[src].type
  BY DEF Adds, Blank, Retains
<1>1. CASE src \in DirsOf(s)
  <2>1. src \in DirsOf(u.fs) /\ Blank(u.fs, e, DIR)
    BY <1>0, <1>1 DEF DirsOf
  <2>2. t = FirstWalkOf(u, src, e, src).fs
    BY <2>1, CopyFirstIs
  <2> QED BY <1>1, <2>1, <2>2, CopyDirectoryNew
<1>2. CASE src \notin DirsOf(s)
  <2>1. src \in FilesOf(s) /\ s.itab[src].type = FILE
    BY <1>2, ShownIs DEF FilesOf
  <2>2. src \in FilesOf(u.fs) /\ e \in FilesOf(u.fs) /\ Blank(u.fs, e, FILE)
    BY <1>0, <2>1 DEF FilesOf
  <2>3. Equates(u.fs, t, e, src)
    BY <2>2, CopyFirstIs
  <2> QED BY <2>1, <2>2, <2>3, CopyFileNew
<1> QED BY <1>1, <1>2

\* fs_copy copies a file, or a directory as far as it goes, or changes nothing.
LEMMA CopyRefines ==
  ASSUME NEW s, Sound(s), OneBlockFiles(s), NEW dir \in Itab, NEW name \in Names,
         NEW dest \in Itab, NEW destName \in Names, NEW t, t = fs_copy(s, dir, name, dest, destName).fs,
         NEW a, Presents(s, a), NEW b, Presents(t, b)
  PROVE  TreeStep(a, b)
<1> DEFINE found == fsi_dir_search(s, dir, name)
           src == CHOOSE f \in found : TRUE
           type == s.itab[src].type
           there == fsi_dir_search(s, dest, destName)
           dst == CHOOSE f \in there : TRUE
           made == NewObject(s, dest, destName, type)
           count == countcopies(s, src) - 1
           start == [fs |-> s, ret |-> OK, count |-> count]
           begun == [start EXCEPT !.fs = made.fs]
           r1 == fs_copy_first(start, src, dst, dest)
           r2 == fs_copy_first(begun, src, made.ino, src)
<1>0. Sound(t)
  BY CopyKeeps
<1>1. \/ t = s
      \/ /\ IsDir(s, dir) /\ IsDir(s, dest) /\ found # {}
         /\ ~ (type = DIR /\ descendsFrom(s, dest, dir))
         /\ \/ there # {} /\ s.itab[dst].type = type /\ t = r1.fs
            \/ made.ret # Fail /\ t = r2.fs
  BY DEF fs_copy
<1> HIDE DEF r1, r2
<1>2. CASE t = s
  <2>1. b = a
    BY <1>2, RetainsReflexive, TreeSame
  <2> QED BY <2>1 DEF TreeStep
<1>3. ASSUME IsDir(s, dir), IsDir(s, dest), found # {}, ~ (type = DIR /\ descendsFrom(s, dest, dir))
      PROVE  /\ src \in InUse(s) /\ type \in {FILE, DIR} /\ Fine(start) /\ start.fs = s /\ s \in States
             /\ dest \in DirsOf(s) /\ (src \in DirsOf(s) => Apart(s, src, dest))
  <2>1. dir \in DirsOf(s) /\ HasEntry(s, dir, name, src)
    <3> HIDE DEF src
    <3> QED BY <1>3, FoundHas DEF src
  <2> HIDE DEF src
  <2>2. src \in InUse(s)
    BY <2>1, NamesType
  <2>3. src \in Itab /\ type \in {FILE, DIR} /\ s \in States
    BY <2>2, StateType DEF Sound, Formed, InUse
  <2>4. count \in Int
    <3>1. countcopies(s, src) \in Int
      BY <2>3, CountIsInt
    <3> QED BY <3>1
  <2> HIDE DEF count
  <2>5. start \in Copies /\ start.fs = s
    BY <2>3, <2>4 DEF Copies
  <2>6. Fine(start)
    BY <2>5 DEF Fine
  <2>7. dest \in DirsOf(s)
    BY <1>3, <2>3, StateType DEF IsDir, DirsOf, InUse
  <2>8. ASSUME src \in DirsOf(s) PROVE Apart(s, src, dest)
    <3>1. ~ descendsFrom(s, dest, dir)
      BY <1>3, <2>8 DEF DirsOf
    <3> QED BY <2>1, <2>7, <3>1, ApartIs
  <2> HIDE DEF start, type
  <2> QED BY <2>2, <2>3, <2>5, <2>6, <2>7, <2>8
<1>4. CASE /\ IsDir(s, dir) /\ IsDir(s, dest) /\ found # {} /\ ~ (type = DIR /\ descendsFrom(s, dest, dir))
           /\ there # {} /\ s.itab[dst].type = type /\ t = r1.fs
  <2>1. src \in InUse(s) /\ Fine(start) /\ start.fs = s /\ dest \in DirsOf(s) /\ (src \in DirsOf(s) => Apart(s, src, dest))
    BY <1>3, <1>4
  <2>2. dst \in InUse(s)
    <3> HIDE DEF dst
    <3> QED BY <1>4, FoundIs DEF dst
  <2> HIDE DEF src, dst, start
  <2> QED BY <1>0, <1>4, <2>1, <2>2, CopyOver DEF r1
<1>5. CASE /\ IsDir(s, dir) /\ IsDir(s, dest) /\ found # {} /\ ~ (type = DIR /\ descendsFrom(s, dest, dir))
           /\ made.ret # Fail /\ t = r2.fs
  <2>1. /\ src \in InUse(s) /\ type \in {FILE, DIR} /\ Fine(start) /\ start.fs = s
        /\ dest \in DirsOf(s) /\ (src \in DirsOf(s) => Apart(s, src, dest))
    BY <1>3, <1>5
  <2> HIDE DEF src, start
  <2>2. /\ Keeps(s, made.fs) /\ Grown(s, made.fs)
        /\ Sound(made.fs) /\ AddsOrFails(s, made, dest, destName, type)
    <3> HIDE DEF type, made
    <3>1. Keeps(s, made.fs) /\ Grown(s, made.fs)
      BY <2>1, NewObjectKeeps DEF made
    <3>2. Sound(made.fs) /\ AddsOrFails(s, made, dest, destName, type)
      BY <2>1, NewObjectAdds DEF made
    <3> QED BY <3>1, <3>2
  <2> HIDE DEF made
  <2>3. Sound(made.fs) /\ OneBlockFiles(made.fs) /\ (FewNames /\ OnePageDirs(s) => OnePageDirs(made.fs))
    BY <2>2 DEF Keeps
  <2>4. Adds(s, made.fs, dest, destName, made.ino) /\ Blank(made.fs, made.ino, type)
    BY <1>5, <2>2 DEF AddsOrFails
  <2>5. Follows(start, begun) /\ begun.fs = made.fs
    <3> DEFINE x == made.fs
    <3>1. /\ Sound(x) /\ OneBlockFiles(x) /\ Grown(start.fs, x)
          /\ (FewNames /\ OnePageDirs(start.fs) => OnePageDirs(x)) /\ Fine(start)
      BY <2>1, <2>2, <2>3
    <3> HIDE DEF x
    <3> QED BY <3>1, FollowsFields DEF x
  <2> HIDE DEF begun
  <2>6. Fine(begun)
    BY <2>5 DEF Follows
  <2>7. Adds(s, begun.fs, dest, destName, made.ino) /\ Blank(begun.fs, made.ino, s.itab[src].type)
    BY <2>4, <2>5
  <2>8. t = fs_copy_first(begun, src, made.ino, src).fs
    BY <1>5 DEF r2
  <2> HIDE DEF type
  <2> QED BY <1>0, <2>1, <2>6, <2>7, <2>8, CopyAdds
<1> QED BY <1>1, <1>2, <1>4, <1>5

-----------------------------------------------------------------------------
(* The file system implements the tree of names.                            *)

\* fs_format: there is the root only.
LEMMA FormatPresents ==
  ASSUME NEW s, s = fs_format, Sound(s), NEW a, Presents(s, a)
  PROVE  a = [p \in {<<>>} |-> Directory]
<1>1. InUse(s) = {Root} /\ Root \in DirsOf(s)
  <2>1. s.iused = {0, Root} /\ s.itab = [f \in Itab |-> fsi_inode_init(IF f = Root THEN DIR ELSE FILE)]
    BY DEF fs_format
  <2>2. InUse(s) = {Root} /\ Root \in Itab
    BY <2>1, Constants DEF InUse, Itab
  <2>3. s.itab[Root].type = DIR
    BY <2>1, <2>2 DEF fsi_inode_init
  <2> QED BY <2>2, <2>3 DEF DirsOf
<1>2. Leads(s, Root, <<>>, Root)
  BY <1>1, LeadsNowhere
<1>3. ASSUME NEW p, NEW h, Leads(s, Root, p, h) PROVE p = <<>>
  <2>1. h = Root
    BY <1>1, <1>3, LeadsType
  <2> QED BY <1>3, <2>1, NoLoop
<1>4. DOMAIN a = {<<>>}
  <2>1. ASSUME NEW p \in DOMAIN a PROVE p = <<>>
    <3>1. PICK h : Leads(s, Root, p, h)
      BY Zenon DEF Presents
    <3> QED BY <1>3, <3>1
  <2>2. <<>> \in DOMAIN a
    BY <1>2, PathKinds
  <2> QED BY <2>1, <2>2
<1>5. a[<<>>] = Directory
  BY <1>1, <1>2, PathKinds, ShownIs
<1>6. a = [p \in DOMAIN a |-> a[p]]
  BY DEF Presents
<1> QED BY <1>4, <1>5, <1>6

\* Every call does in the tree what the specification of the tree has for it, or
\* leaves the tree as it is.
LEMMA StepRefines ==
  ASSUME Limits, Invariant, [Next]_fs, NEW t, fs' = t, NEW a, Presents(fs, a), NEW b, Presents(t, b), Sound(t)
  PROVE  TreeStep(a, b)
<1>0. /\ Sound(fs) /\ ("copy" \in Kinds => OneBlockFiles(fs)) /\ ("copy" \notin Kinds => Alone(fs))
      /\ ("remove" \in Kinds => OnePageDirs(fs)) /\ ("remove" \in Kinds => FewNames)
  BY DEF Invariant, Limits
<1>1. Inodes \subseteq Itab /\ Inodes = Itab \ {0}
  BY Constants DEF Itab
<1>2. CASE Create
  <2>1. PICK dir \in Inodes, name \in Names : t = fs_create(fs, dir, name).fs
    BY <1>2 DEF Create
  <2>2. t = NewObject(fs, dir, name, FILE).fs
    BY <2>1 DEF fs_create
  <2> QED BY <1>0, <1>1, <2>2, NewObjectRefines
<1>3. CASE Mkdir
  <2>1. PICK dir \in Inodes, name \in Names : t = fs_mkdir(fs, dir, name).fs
    BY <1>3 DEF Mkdir
  <2>2. t = NewObject(fs, dir, name, DIR).fs
    BY <2>1 DEF fs_mkdir
  <2> QED BY <1>0, <1>1, <2>2, NewObjectRefines
<1>4. CASE Write
  <2>1. PICK file \in Inodes, offset \in Offsets, data \in Writes : t = fs_write(fs, file, offset, data).fs
    BY <1>4 DEF Write
  <2>2. offset \in Nat /\ data \in Seq(Data) /\ file \in Itab
    BY <1>1, FileSystemAssumption
  <2>3. Alone(fs) \/ FreeBlocks(fs) # {}
    BY <1>0, <1>4, RoomIs DEF Write, Limits
  <2> DEFINE r == fs_write(fs, file, offset, data)
  <2>4. t = r.fs
    BY <2>1
  <2> HIDE DEF r
  <2>5. Rewrites(fs, r.fs, file, offset, data)
    BY <1>0, <2>2, <2>3, WriteKeeps DEF r
  <2> QED BY <1>0, <2>4, <2>5, WriteRefines
<1>5. CASE Remove
  <2>1. PICK dir \in Inodes, name \in Names, stale \in Lingering : t = fs_remove(fs, dir, name, stale).fs
    BY <1>5 DEF Remove
  <2>2. OnePageDirs(fs)
    BY <1>0, <1>5 DEF Remove
  <2> QED BY <1>0, <1>1, <2>1, <2>2, RemoveRefines
<1>6. CASE Copy
  <2>1. PICK dir \in Inodes, dest \in Inodes, name \in Names, destName \in Names :
          t = fs_copy(fs, dir, name, dest, destName).fs
    BY <1>6 DEF Copy
  <2>2. OneBlockFiles(fs)
    BY <1>0, <1>6 DEF Copy
  <2> QED BY <1>0, <1>1, <2>1, <2>2, CopyRefines
<1>7. CASE AppendFile
  <2>1. PICK dir \in Inodes, dest \in Inodes, name \in Names, destName \in Names :
          t = fs_append(fs, dest, destName, dir, name).fs
    BY <1>7 DEF AppendFile
  <2>2. Alone(fs)
    BY <1>0, <1>7 DEF AppendFile, Limits
  <2> DEFINE r == fs_append(fs, dest, destName, dir, name)
  <2>3. t = r.fs
    BY <2>1
  <2> HIDE DEF r
  <2>4. Appends(fs, r.fs)
    BY <1>0, <1>1, <2>2, AppendKeeps DEF r
  <2> QED BY <1>0, <2>3, <2>4, AppendRefines
<1>8. CASE UNCHANGED fs
  <2>1. t = fs
    BY <1>8
  <2>2. b = a
    BY <1>0, <2>1, RetainsReflexive, TreeSame
  <2> QED BY <2>2 DEF TreeStep
<1>9. CASE Defrag
  <2> DEFINE r == fs_defrag(fs)
  <2>1. Unshared /\ r.sane /\ t = r.fs
    BY <1>9 DEF Defrag
  <2> HIDE DEF r
  <2>2. Alone(fs)
    BY <1>0, <2>1, UnsharedAlone
  <2>3. Tidy(fs, r.fs)
    BY <1>0, <2>1, <2>2, DefragKeeps DEF r
  <2> QED BY <1>0, <2>1, <2>3, DefragRefines
<1> QED BY <1>2, <1>3, <1>4, <1>5, <1>6, <1>7, <1>8, <1>9 DEF Next

-----------------------------------------------------------------------------
\* To a client that walks it, the file system is a tree of names in which every
\* file has its own content: what fs_create, fs_mkdir, fs_write, fs_remove,
\* fs_copy, fs_append and fs_defrag do to inodes, entries and blocks is, in the
\* tree, one change to one object or to what is below it, whatever blocks the
\* copies share (fs.c).
THEOREM FileSystemImplementsTree == Limits => (Spec => Implements)
<1> SUFFICES ASSUME Limits PROVE Spec => Implements
  OBVIOUS
<1>1. Spec => []Invariant
  BY InvariantHolds, PTL
<1>2. Init => NameTree!Init
  <2> SUFFICES ASSUME Init PROVE NameTree!Init
    OBVIOUS
  <2>1. fs = fs_format /\ Sound(fs)
    BY InvariantStart DEF Init, Invariant
  <2>2. Presents(fs, Tree)
    BY <2>1, TreePresents
  <2>3. Tree = [p \in {<<>>} |-> Directory]
    BY <2>1, <2>2, FormatPresents
  <2> QED BY <2>3 DEF NameTree!Init
<1>3. Invariant => Presents(fs, Tree)
  BY TreePresents DEF Invariant
<1>4. Invariant /\ Invariant' /\ Presents(fs, Tree) /\ Presents(fs, Tree)' /\ [Next]_fs => [NameTree!Next]_Tree
  <2> SUFFICES ASSUME Invariant, Invariant', Presents(fs, Tree), Presents(fs, Tree)', [Next]_fs
               PROVE  [NameTree!Next]_Tree
    OBVIOUS
  <2>1. Presents(fs', Tree') /\ Sound(fs')
    BY DEF Invariant
  <2>2. TreeStep(Tree, Tree')
    BY <2>1, StepRefines
  <2>3. Tree # Tree' => NameTree!Next
    BY <2>2 DEF TreeStep, NameTree!Next
  <2> QED BY <2>3
<1> QED BY <1>1, <1>2, <1>3, <1>4, PTL DEF Spec, Implements, NameTree!Spec

=============================================================================
