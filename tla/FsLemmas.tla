------------------------------ MODULE FsLemmas ------------------------------
(***************************************************************************)
(* Lemmas for the proofs about the file system: the invariant, as a         *)
(* predicate on states, and what fs_format, the operations of FsCore, the     *)
(* removal of FsTree and the swaps of FsDefrag do to it.                     *)
(*                                                                          *)
(* An operation is handled in two parts.  A relation between the states     *)
(* before and after says what it changes (Made, FileChange, Took, ...), and  *)
(* the operation is shown to be in it; then every step of the relation is    *)
(* shown to keep the invariant.                                              *)
(***************************************************************************)
EXTENDS FsDefrag, TLAPS, FiniteSetTheorems, SequenceTheorems

-----------------------------------------------------------------------------
(* Numbers: inodes, blocks, positions in pages.                             *)

\* What the constants are.
LEMMA Constants ==
  /\ NumInodes \in Nat /\ NumInodes > 2 /\ NumBlocks \in Nat /\ NumBlocks > 1
  /\ InodeBlocks \in Nat /\ InodeBlocks > 1 /\ PageSize \in Nat /\ PageSize > 0
  /\ Itab = 0 .. NumInodes - 1 /\ Inodes = 1 .. NumInodes - 1
  /\ 0 \in Itab /\ Root \in Inodes /\ Root # 0
  /\ NoBlk \in BlockNos /\ NoBlk = 0 /\ BlockNos \subseteq Nat /\ FILE # DIR /\ OK # Fail
  BY FsAssumption DEF Itab, Inodes, Root, NoBlk, BlockNos, FILE, DIR, OK, Fail

\* A nonempty set of numbers has a least one.
LEMMA LeastNumber ==
  ASSUME NEW T \in SUBSET Nat, T # {}
  PROVE  LeastOf(T) \in T /\ \A k \in T : LeastOf(T) <= k
<1>1. \E x \in T : \A y \in T : ~ (<<y, x>> \in OpToRel(<, Nat))
  BY WFMin, NatLessThanWellFounded
<1>2. \A x, y \in Nat : <<y, x>> \in OpToRel(<, Nat) <=> y < x
  BY DEF OpToRel
<1>3. \E x \in T : \A y \in T : x <= y
  <2>1. PICK x \in T : \A y \in T : ~ (y < x)
    BY <1>1, <1>2
  <2> QED BY <2>1
<1> QED BY <1>3 DEF LeastOf

\* Induction up to a bound, over the set of what has the property.
LEMMA BoundedInduction ==
  ASSUME NEW T, NEW N \in Nat, 0 \in T, \A n \in 1 .. N : n - 1 \in T => n \in T
  PROVE  \A n \in 0 .. N : n \in T
<1> SUFFICES ASSUME (0 .. N) \ T # {} PROVE FALSE
  OBVIOUS
<1> DEFINE U == (0 .. N) \ T
           m == LeastOf(U)
<1>1. m \in U /\ \A k \in U : m <= k
  BY LeastNumber
<1> HIDE DEF m
<1>2. m - 1 \in 0 .. N /\ m - 1 \notin U /\ m \in 1 .. N
  BY <1>1
<1> QED BY <1>1, <1>2

\* Positions: page p has those from PageSize * p on.
LEMMA Division ==
  ASSUME NEW i \in Nat
  PROVE  /\ PageOf(i) \in Nat /\ CellOf(i) \in 0 .. PageSize - 1
         /\ i = PageSize * PageOf(i) + CellOf(i)
  BY Constants DEF PageOf, CellOf

\* Products of the size of a page.
LEMMA Product ==
  ASSUME NEW a \in Nat, NEW b \in Nat, a < b
  PROVE  PageSize * a \in Nat /\ PageSize * b \in Nat /\ PageSize * a + PageSize <= PageSize * b
<1>1. b - a - 1 \in Nat /\ PageSize \in Nat
  BY Constants
<1>2. PageSize * (b - a - 1) >= 0 /\ PageSize * a \in Nat /\ PageSize * b \in Nat
  BY <1>1
<1>3. PageSize * (b - a - 1) = PageSize * b - PageSize * a - PageSize
  BY <1>1
<1> QED BY <1>2, <1>3, <1>1

\* A number made of a page and a cell has that page and that cell.
LEMMA DivisionUnique ==
  ASSUME NEW p \in Nat, NEW k \in 0 .. PageSize - 1
  PROVE  PageSize * p + k \in Nat /\ PageOf(PageSize * p + k) = p /\ CellOf(PageSize * p + k) = k
<1> DEFINE i == PageSize * p + k
           q == PageOf(i)
           r == CellOf(i)
<1>1. i \in Nat
  BY Constants
<1> HIDE DEF i
<1>2. q \in Nat /\ r \in 0 .. PageSize - 1 /\ i = PageSize * q + r
  BY <1>1, Division
<1> HIDE DEF q, r
<1>3. PageSize \in Nat /\ PageSize * p \in Nat /\ PageSize * q \in Nat
  BY <1>2, Constants
<1>4. ~ (p < q)
  <2> SUFFICES ASSUME p < q PROVE FALSE
    OBVIOUS
  <2>1. PageSize * p + PageSize <= PageSize * q
    BY <1>2, Product
  <2> QED BY <2>1, <1>2, <1>3 DEF i
<1>5. ~ (q < p)
  <2> SUFFICES ASSUME q < p PROVE FALSE
    OBVIOUS
  <2>1. PageSize * q + PageSize <= PageSize * p
    BY <1>2, Product
  <2> QED BY <2>1, <1>2, <1>3 DEF i
<1>6. p = q
  BY <1>2, <1>4, <1>5
<1>7. k = r
  BY <1>2, <1>3, <1>6 DEF i
<1> QED BY <1>1, <1>6, <1>7 DEF i, q, r

\* A later position is on no earlier page.
LEMMA DivisionMonotone ==
  ASSUME NEW i \in Nat, NEW j \in Nat, i <= j
  PROVE  PageOf(i) <= PageOf(j)
<1> DEFINE p == PageOf(i)
           q == PageOf(j)
<1>1. /\ p \in Nat /\ q \in Nat /\ CellOf(i) \in 0 .. PageSize - 1 /\ CellOf(j) \in 0 .. PageSize - 1
      /\ i = PageSize * p + CellOf(i) /\ j = PageSize * q + CellOf(j)
  BY Division
<1> HIDE DEF p, q
<1> SUFFICES ASSUME q < p PROVE FALSE
  BY <1>1 DEF p, q
<1>2. PageSize * q + PageSize <= PageSize * p
  BY <1>1, Product
<1>3. PageSize \in Nat /\ PageSize * p \in Nat /\ PageSize * q \in Nat
  BY <1>1, Constants
<1> QED BY <1>1, <1>2, <1>3

\* Position i is in one of the first n pages if it is below n pages of cells.
LEMMA DivisionBound ==
  ASSUME NEW i \in Nat, NEW n \in Nat
  PROVE  PageSize * n \in Nat /\ (i < PageSize * n <=> PageOf(i) < n)
<1> DEFINE q == PageOf(i)
           r == CellOf(i)
<1>1. q \in Nat /\ r \in 0 .. PageSize - 1 /\ i = PageSize * q + r
  BY Division
<1>2. PageSize \in Nat /\ PageSize * n \in Nat /\ PageSize * q \in Nat
  BY <1>1, Constants
<1>3. q < n => i < PageSize * n
  <2> HIDE DEF q, r
  <2> SUFFICES ASSUME q < n PROVE i < PageSize * n
    OBVIOUS
  <2>1. PageSize * q + PageSize <= PageSize * n
    BY <1>1, Product
  <2> QED BY <2>1, <1>1, <1>2
<1>4. ~ (q < n) => ~ (i < PageSize * n)
  <2> HIDE DEF q, r
  <2>1. n = q \/ n < q \/ q < n
    BY <1>1
  <2>2. CASE n < q
    <3>1. PageSize * n + PageSize <= PageSize * q
      BY <1>1, <2>2, Product
    <3> QED BY <3>1, <1>1, <1>2
  <2> QED BY <2>1, <2>2, <1>1, <1>2
<1> QED BY <1>2, <1>3, <1>4

\* OFFSET_TO_BLOCKS gives the number of pages that hold n cells.
LEMMA BlocksForIs ==
  ASSUME NEW n \in Nat
  PROVE  /\ BlocksFor(n) \in Nat
         /\ \A i \in Nat : i < n => PageOf(i) < BlocksFor(n)
         /\ \A p \in Nat : p < BlocksFor(n) => PageSize * p < n
         /\ \A m \in Nat : n <= PageSize * m <=> BlocksFor(n) <= m
<1> DEFINE q == PageOf(n)
           r == CellOf(n)
           c == IF r > 0 THEN 1 ELSE 0
<1>1. q \in Nat /\ r \in 0 .. PageSize - 1 /\ n = PageSize * q + r
  BY Division
<1>2. PageSize \in Nat /\ PageSize > 0 /\ PageSize * q \in Nat
  BY <1>1, Constants
<1>3. BlocksFor(n) = q + c
  BY DEF BlocksFor
<1> HIDE DEF q, r
<1>4. BlocksFor(n) \in Nat
  BY <1>1, <1>3
<1>5. \A p \in Nat : p < BlocksFor(n) => PageSize * p < n
  <2> SUFFICES ASSUME NEW p \in Nat, p < BlocksFor(n) PROVE PageSize * p < n
    OBVIOUS
  <2>1. p < q \/ (p = q /\ r > 0)
    BY <1>1, <1>3
  <2>2. CASE p < q
    <3>1. PageSize * p + PageSize <= PageSize * q /\ PageSize * p \in Nat
      BY <1>1, <2>2, Product
    <3> QED BY <3>1, <1>1, <1>2
  <2> QED BY <2>1, <2>2, <1>1, <1>2
<1>6. \A i \in Nat : i < n => PageOf(i) < BlocksFor(n)
  <2> SUFFICES ASSUME NEW i \in Nat, i < n PROVE PageOf(i) < BlocksFor(n)
    OBVIOUS
  <2>1. PageOf(i) \in Nat /\ PageOf(i) <= q
    BY Division, DivisionMonotone DEF q
  <2>2. CASE r > 0
    BY <1>1, <1>3, <2>1, <2>2
  <2>3. CASE r = 0
    <3>1. i < PageSize * q
      BY <1>1, <1>2, <2>3
    <3> QED BY <3>1, <1>1, <1>3, <2>3, DivisionBound
  <2> QED BY <1>1, <2>2, <2>3
<1>7. \A m \in Nat : BlocksFor(n) <= m => n <= PageSize * m
  <2> SUFFICES ASSUME NEW m \in Nat, BlocksFor(n) <= m PROVE n <= PageSize * m
    OBVIOUS
  <2>1. n = 0 \/ n - 1 \in Nat
    OBVIOUS
  <2>2. PageSize * m \in Nat
    BY <1>2
  <2>3. CASE n - 1 \in Nat
    <3>1. PageOf(n - 1) < BlocksFor(n) /\ PageOf(n - 1) \in Nat
      BY <1>6, <2>3, Division
    <3>2. PageOf(n - 1) < m
      BY <3>1, <1>4
    <3>3. n - 1 < PageSize * m
      BY <3>2, <2>3, DivisionBound
    <3> QED BY <3>3, <2>2
  <2> QED BY <2>1, <2>2, <2>3
<1>8. \A m \in Nat : n <= PageSize * m => BlocksFor(n) <= m
  <2> SUFFICES ASSUME NEW m \in Nat, n <= PageSize * m, m < BlocksFor(n) PROVE FALSE
    BY <1>4
  <2>1. PageSize * m < n /\ PageSize * m \in Nat
    BY <1>2, <1>5
  <2> QED BY <2>1
<1> QED BY <1>4, <1>5, <1>6, <1>7, <1>8

-----------------------------------------------------------------------------
(* The invariant, as a predicate on states.                                 *)

\* The objects: inodes in use but 0, directories and files among them.
InUse(s) == s.iused \ {0}
DirsOf(s) == {d \in InUse(s) : s.itab[d].type = DIR}
FilesOf(s) == {f \in InUse(s) : s.itab[f].type = FILE}

\* The tables are of their types, and an inode that is not in use is empty.
Formed(s) ==
  /\ s \in States
  /\ {0, Root} \subseteq s.iused /\ NoBlk \in s.bused /\ s.itab[Root].type = DIR
  /\ \A f \in Itab \ InUse(s) : s.itab[f] = fsi_inode_init(FILE)

\* blocks[] is a prefix of blocks, long enough for the size.
Backed(s) ==
  \A f \in Itab :
    /\ s.itab[f].blocks[InodeBlocks] = NoBlk
    /\ \A k \in 0 .. InodeBlocks - 1 :
         s.itab[f].blocks[k] = NoBlk => s.itab[f].blocks[k + 1] = NoBlk
    /\ \A i \in Positions(s, f) : s.itab[f].blocks[PageOf(i)] # NoBlk

\* Blocks of inodes in use are marked, and no other inode has them, but for
\* files of one block.
Owned(s) ==
  \A f \in InUse(s), i \in 0 .. InodeBlocks :
    /\ s.itab[f].blocks[i] \in s.bused
    /\ \A g \in InUse(s), j \in 0 .. InodeBlocks :
         s.itab[f].blocks[i] # NoBlk /\ s.itab[f].blocks[i] = s.itab[g].blocks[j] =>
           \/ f = g /\ i = j
           \/ /\ i = 0 /\ j = 0 /\ f \in FilesOf(s) /\ g \in FilesOf(s)
              /\ s.itab[f].blocks[1] = NoBlk /\ s.itab[g].blocks[1] = NoBlk

\* An entry of a directory is a name for an inode in use; names of a directory
\* differ; no inode has two entries.
Linked(s) ==
  \A d \in DirsOf(s) : \A i \in Positions(s, d) :
    /\ Entry(s, d, i).ino \in InUse(s) \ {Root} /\ Entry(s, d, i).name \in Names
    /\ \A j \in Positions(s, d) : Entry(s, d, i).name = Entry(s, d, j).name => i = j
    /\ \A e \in DirsOf(s) : \A j \in Positions(s, e) :
         Entry(s, d, i).ino = Entry(s, e, j).ino => d = e /\ i = j

\* Every inode in use but the root has an entry.
Parented(s) ==
  \A f \in InUse(s) \ {Root} : \E d \in DirsOf(s) : \E i \in Positions(s, d) : Entry(s, d, i).ino = f

\* A set of inodes that has what the entries of its directories lead to.
Closed(s, S) ==
  \A d \in S \cap DirsOf(s) : \A i \in Positions(s, d) : Entry(s, d, i).ino \in S

\* Everything in use is below the root.
Rooted(s) == \A S \in SUBSET InUse(s) : Root \in S /\ Closed(s, S) => S = InUse(s)

\* Files hold data, not entries.
Filled(s) == \A f \in FilesOf(s) : \A i \in Positions(s, f) : Entry(s, f, i).name \in Data

\* A sound file system.
Sound(s) ==
  Formed(s) /\ Backed(s) /\ Owned(s) /\ Linked(s) /\ Parented(s) /\ Rooted(s) /\ Filled(s)

-----------------------------------------------------------------------------
\* The types of the parts of a state.
LEMMA StateType ==
  ASSUME NEW s \in States
  PROVE  /\ s = [iused |-> s.iused, bused |-> s.bused, itab |-> s.itab, store |-> s.store]
         /\ s.iused \subseteq Itab /\ s.bused \subseteq BlockNos
         /\ s.itab \in [Itab -> InodeRecords] /\ s.store \in [BlockNos -> Pages]
         /\ \A f \in Itab :
              /\ s.itab[f] = [type |-> s.itab[f].type, size |-> s.itab[f].size, blocks |-> s.itab[f].blocks]
              /\ s.itab[f].type \in {FILE, DIR}
              /\ s.itab[f].size \in Nat /\ s.itab[f].size <= InodeBlocks * PageSize
              /\ s.itab[f].blocks \in [0 .. InodeBlocks -> BlockNos]
              /\ \A k \in 0 .. InodeBlocks : s.itab[f].blocks[k] \in BlockNos
         /\ \A b \in BlockNos : s.store[b] \in Pages
         /\ \A b \in BlockNos, k \in 0 .. PageSize - 1 :
              /\ s.store[b][k] \in Cells /\ s.store[b][k].ino \in Itab
              /\ s.store[b][k].name \in Names \cup Data \cup {Empty}
<1> USE DEF States
<1>1. /\ s = [iused |-> s.iused, bused |-> s.bused, itab |-> s.itab, store |-> s.store]
      /\ s.iused \subseteq Itab /\ s.bused \subseteq BlockNos
      /\ s.itab \in [Itab -> InodeRecords] /\ s.store \in [BlockNos -> Pages]
  OBVIOUS
<1>2. InodeBlocks * PageSize \in Nat
  BY Constants
<1>3. ASSUME NEW f \in Itab
      PROVE  /\ s.itab[f] = [type |-> s.itab[f].type, size |-> s.itab[f].size, blocks |-> s.itab[f].blocks]
             /\ s.itab[f].type \in {FILE, DIR}
             /\ s.itab[f].size \in Nat /\ s.itab[f].size <= InodeBlocks * PageSize
             /\ s.itab[f].blocks \in [0 .. InodeBlocks -> BlockNos]
             /\ \A k \in 0 .. InodeBlocks : s.itab[f].blocks[k] \in BlockNos
  <2> DEFINE r == s.itab[f]
             m == InodeBlocks * PageSize
  <2>1. r \in [type : {FILE, DIR}, size : 0 .. m, blocks : [0 .. InodeBlocks -> BlockNos]]
    BY <1>1 DEF InodeRecords
  <2> HIDE DEF r, m
  <2>2. /\ r = [type |-> r.type, size |-> r.size, blocks |-> r.blocks]
        /\ r.type \in {FILE, DIR} /\ r.size \in 0 .. m /\ r.blocks \in [0 .. InodeBlocks -> BlockNos]
    BY <2>1
  <2>3. r.size \in Nat /\ r.size <= m
    BY <2>2, <1>2 DEF m
  <2>4. \A k \in 0 .. InodeBlocks : r.blocks[k] \in BlockNos
    BY <2>2
  <2> QED BY <2>2, <2>3, <2>4 DEF r, m
<1>4. \A b \in BlockNos : s.store[b] \in Pages
  BY <1>1
<1>5. ASSUME NEW b \in BlockNos, NEW k \in 0 .. PageSize - 1
      PROVE  /\ s.store[b][k] \in Cells /\ s.store[b][k].ino \in Itab
             /\ s.store[b][k].name \in Names \cup Data \cup {Empty}
  BY <1>4 DEF Pages, Cells
<1> QED BY <1>1, <1>3, <1>4, <1>5

\* A position of an inode is a cell of one of its blocks.
LEMMA PositionIs ==
  ASSUME NEW s, Formed(s), Backed(s), NEW f \in Itab, NEW i \in Positions(s, f)
  PROVE  /\ i \in Nat /\ i < s.itab[f].size
         /\ PageOf(i) \in 0 .. InodeBlocks - 1 /\ CellOf(i) \in 0 .. PageSize - 1
         /\ s.itab[f].blocks[PageOf(i)] \in BlockNos \ {NoBlk}
         /\ Entry(s, f, i) \in Cells /\ Entry(s, f, i).ino \in Itab
<1>1. s.itab[f].size \in Nat /\ s.itab[f].size <= InodeBlocks * PageSize
  BY StateType DEF Formed
<1>2. i \in Nat /\ i < s.itab[f].size
  BY <1>1 DEF Positions
<1>3. InodeBlocks * PageSize = PageSize * InodeBlocks /\ InodeBlocks * PageSize \in Nat
  BY Constants
<1>4. i < PageSize * InodeBlocks
  BY <1>1, <1>2, <1>3
<1>5. PageOf(i) \in 0 .. InodeBlocks - 1 /\ CellOf(i) \in 0 .. PageSize - 1
  <2>1. i \in Nat /\ InodeBlocks \in Nat
    BY <1>2, Constants
  <2>2. PageOf(i) < InodeBlocks
    BY <2>1, <1>4, DivisionBound
  <2>3. PageOf(i) \in Nat /\ CellOf(i) \in 0 .. PageSize - 1
    BY <2>1, Division
  <2> QED BY <2>1, <2>2, <2>3
<1>6. s.itab[f].blocks[PageOf(i)] \in BlockNos \ {NoBlk}
  <2>1. s \in States /\ PageOf(i) \in 0 .. InodeBlocks
    BY <1>5, Constants DEF Formed
  <2>2. s.itab[f].blocks[PageOf(i)] \in BlockNos
    BY <2>1, StateType
  <2> QED BY <2>2 DEF Backed
<1> QED BY <1>2, <1>5, <1>6, StateType DEF Formed, Entry

\* What an inode holds depends on its blocks only.
LEMMA EntryKept ==
  ASSUME NEW s, Formed(s), Backed(s), NEW f \in Itab, NEW t,
         t.itab[f].size = s.itab[f].size,
         \A k \in 0 .. InodeBlocks : s.itab[f].blocks[k] # NoBlk =>
            t.store[t.itab[f].blocks[k]] = s.store[s.itab[f].blocks[k]]
  PROVE  Positions(t, f) = Positions(s, f) /\ \A i \in Positions(s, f) : Entry(t, f, i) = Entry(s, f, i)
<1>1. Positions(t, f) = Positions(s, f)
  BY DEF Positions
<1>2. ASSUME NEW i \in Positions(s, f) PROVE Entry(t, f, i) = Entry(s, f, i)
  <2>1. PageOf(i) \in 0 .. InodeBlocks /\ s.itab[f].blocks[PageOf(i)] # NoBlk
    BY PositionIs, Constants
  <2> QED BY <2>1 DEF Entry
<1> QED BY <1>1, <1>2

\* The chain of an inode is as long as the code's loops over blocks[].
LEMMA ChainIs ==
  ASSUME NEW s, Formed(s), Backed(s), NEW f \in Itab
  PROVE  /\ ChainLength(s.itab[f].blocks) \in 0 .. InodeBlocks
         /\ \A k \in 0 .. InodeBlocks : s.itab[f].blocks[k] # NoBlk <=> k < ChainLength(s.itab[f].blocks)
         /\ s.itab[f].size <= PageSize * ChainLength(s.itab[f].blocks)
<1> DEFINE B == s.itab[f].blocks
           Z == {k \in 0 .. InodeBlocks : B[k] = NoBlk}
           n == ChainLength(B)
<1>1. InodeBlocks \in Z /\ Z \in SUBSET Nat
  BY Constants DEF Backed
<1>2. n \in Z /\ \A k \in Z : n <= k
  BY <1>1, LeastNumber DEF ChainLength
<1> DEFINE T == {m \in Nat : \A k \in 0 .. InodeBlocks : k = n + m => k \in Z}
<1>3. \A m \in 0 .. InodeBlocks : m \in T
  <2>1. 0 \in T
    BY <1>2
  <2>2. ASSUME NEW m \in 1 .. InodeBlocks, m - 1 \in T PROVE m \in T
    <3> SUFFICES ASSUME NEW k \in 0 .. InodeBlocks, k = n + m PROVE k \in Z
      BY Constants
    <3>1. n \in Nat /\ InodeBlocks \in Nat /\ m \in Nat /\ m > 0
      BY <1>2, Constants
    <3>2. k - 1 \in 0 .. InodeBlocks - 1 /\ k - 1 \in 0 .. InodeBlocks /\ k - 1 = n + (m - 1) /\ k = (k - 1) + 1
      BY <3>1
    <3>3. k - 1 \in Z
      BY <2>2, <3>2
    <3> QED BY <3>2, <3>3 DEF Backed
  <2> HIDE DEF T
  <2> QED BY <2>1, <2>2, BoundedInduction, Constants
<1>4. \A k \in 0 .. InodeBlocks : k >= n => B[k] = NoBlk
  <2> SUFFICES ASSUME NEW k \in 0 .. InodeBlocks, k >= n PROVE B[k] = NoBlk
    OBVIOUS
  <2>1. k - n \in 0 .. InodeBlocks /\ k = n + (k - n)
    BY <1>2, Constants
  <2> QED BY <1>3, <2>1
<1>5. \A k \in 0 .. InodeBlocks : B[k] # NoBlk <=> k < n
  BY <1>2, <1>4, Constants
<1>6. s.itab[f].size <= PageSize * n
  <2>1. s.itab[f].size \in Nat /\ PageSize * n \in Nat /\ n \in Nat
    <3>1. n \in Nat /\ PageSize \in Nat
      BY <1>2, Constants
    <3> HIDE DEF n
    <3>2. PageSize * n \in Nat
      BY <3>1
    <3> QED BY <3>1, <3>2, StateType DEF Formed
  <2>2. CASE s.itab[f].size = 0
    BY <2>1, <2>2
  <2>3. CASE s.itab[f].size # 0
    <3> DEFINE i == s.itab[f].size - 1
    <3>1. i \in Positions(s, f) /\ i \in Nat
      BY <2>1, <2>3 DEF Positions
    <3>2. PageOf(i) \in 0 .. InodeBlocks /\ B[PageOf(i)] # NoBlk
      BY <3>1, PositionIs, Constants
    <3>3. PageOf(i) < n
      BY <3>2, <1>5
    <3>4. i < PageSize * n
      BY <3>1, <3>3, <2>1, DivisionBound
    <3> QED BY <3>4, <2>1
  <2> QED BY <2>2, <2>3
<1> QED BY <1>2, <1>5, <1>6

-----------------------------------------------------------------------------
(* Creation.                                                                *)

\* The size of an interval of numbers.
LEMMA IntervalSize ==
  ASSUME NEW m \in Nat, NEW n \in Nat, m <= n
  PROVE  IsFiniteSet(m .. n - 1) /\ Cardinality(m .. n - 1) = n - m
<1> DEFINE b == n - 1
<1>1. b \in Int /\ m \in Int /\ (m > b <=> m = n) /\ b - m + 1 = n - m
  OBVIOUS
<1> HIDE DEF b
<1>2. IsFiniteSet(m .. b) /\ Cardinality(m .. b) = IF m > b THEN 0 ELSE b - m + 1
  BY <1>1, FS_Interval
<1>3. m = n => n - m = 0
  OBVIOUS
<1>4. Cardinality(m .. b) = n - m
  BY <1>1, <1>2, <1>3
<1> QED BY <1>2, <1>4 DEF b

\* A directory has no more entries than there are inodes besides inode 0 and
\* the root, and no more than there are names.
LEMMA FewEntries ==
  ASSUME NEW s, Formed(s), Backed(s), Linked(s), NEW d \in DirsOf(s)
  PROVE  /\ s.itab[d].size <= NumInodes - 2
         /\ IsFiniteSet(Names) => s.itab[d].size <= Cardinality(Names)
<1> DEFINE n == s.itab[d].size
           P == Positions(s, d)
<1>1. d \in Itab /\ n \in Nat /\ P = 0 .. n - 1
  BY StateType DEF Formed, DirsOf, InUse, Positions
<1>2. IsFiniteSet(P) /\ Cardinality(P) = n
  <2>1. IsFiniteSet(0 .. n - 1) /\ Cardinality(0 .. n - 1) = n - 0
    BY <1>1, IntervalSize
  <2> QED BY <1>1, <2>1
<1> HIDE DEF n, P
<1>3. n <= NumInodes - 2
  <2> DEFINE U == 2 .. NumInodes - 1
             g == [i \in P |-> Entry(s, d, i).ino]
  <2>1. IsFiniteSet(U) /\ Cardinality(U) = NumInodes - 2
    BY Constants, IntervalSize
  <2>2. \A i \in P : Entry(s, d, i).ino \in U
    BY StateType, Constants DEF Linked, Formed, InUse, P, Root
  <2>3. \A i, j \in P : Entry(s, d, i).ino = Entry(s, d, j).ino => i = j
    BY DEF Linked, P
  <2>4. g \in Injection(P, U)
    BY <2>2, <2>3 DEF Injection, IsInjective
  <2> HIDE DEF U, g
  <2>5. Cardinality(P) <= Cardinality(U)
    BY <2>1, <2>4, FS_Injection
  <2> QED BY <1>2, <2>1, <2>5
<1>4. ASSUME IsFiniteSet(Names) PROVE n <= Cardinality(Names)
  <2> DEFINE g == [i \in P |-> Entry(s, d, i).name]
  <2>1. g \in Injection(P, Names)
    BY DEF Linked, P, Injection, IsInjective
  <2> HIDE DEF g
  <2>2. Cardinality(P) <= Cardinality(Names)
    BY <1>4, <2>1, FS_Injection
  <2> QED BY <1>2, <2>2
<1> QED BY <1>3, <1>4 DEF n

\* The state after a new object: its inode, and an entry in block.
Made(s, dir, name, type, finode, block) ==
  LET size == s.itab[dir].size
  IN  [iused |-> s.iused \cup {finode},
       bused |-> s.bused \cup {block},
       itab  |-> [s.itab EXCEPT
                   ![dir] = [type |-> DIR, size |-> size + 1,
                             blocks |-> [s.itab[dir].blocks EXCEPT ![PageOf(size)] = block]],
                   ![finode] = fsi_inode_init(type)],
       store |-> [s.store EXCEPT ![block] = [@ EXCEPT ![CellOf(size)] = [name |-> name, ino |-> finode]]]]

\* What it takes: a directory without the name, a free inode, a page.
Makes(s, dir, name, finode, block) ==
  LET size == s.itab[dir].size
  IN  /\ dir \in DirsOf(s) /\ finode \in Itab \ s.iused /\ block \in BlockNos \ {NoBlk}
      /\ \A i \in Positions(s, dir) : Entry(s, dir, i).name # name
      /\ size \in Nat /\ size < 2 * PageSize /\ PageOf(size) \in 0 .. InodeBlocks - 1
      /\ PageOf(size) \in {0, 1}
      /\ \/ CellOf(size) = 0 /\ block \notin s.bused
         \/ CellOf(size) # 0 /\ block = s.itab[dir].blocks[PageOf(size)]

\* The state t has a new object that s had room for.
MadeFrom(s, t, dir, name, type, finode, block) ==
  /\ Makes(s, dir, name, finode, block) /\ name \in Names /\ type \in {FILE, DIR}
  /\ t = Made(s, dir, name, type, finode, block)

\* A creation fails and changes nothing, or makes an object.
LEMMA NewObjectIs ==
  ASSUME NEW s, Formed(s), Backed(s), Linked(s), NEW dir \in Itab, NEW name, NEW type
  PROVE  LET r == NewObject(s, dir, name, type)
         IN  \/ r.ret = Fail /\ r.fs = s
             \/ /\ r.ret = OK
                /\ \E finode, block :
                     /\ Makes(s, dir, name, finode, block)
                     /\ r.ino = finode /\ r.fs = Made(s, dir, name, type, finode, block)
<1> DEFINE size == s.itab[dir].size
           newPage == CellOf(size) = 0
           finode == LeastOf(FreeInodes(s))
           block == IF newPage THEN LeastOf(FreeBlocks(s)) ELSE s.itab[dir].blocks[PageOf(size)]
           r == NewObject(s, dir, name, type)
           added == AddEntry(s, dir, block, [name |-> name, ino |-> finode])
           bad == \/ ~ IsDir(s, dir) \/ fsi_dir_search(s, dir, name) # {}
                  \/ FreeInodes(s) = {}
                  \/ newPage /\ FreeBlocks(s) = {}
<1>1. CASE bad
  <2>1. r = [fs |-> s, ret |-> Fail, ino |-> 0]
    BY <1>1 DEF NewObject
  <2> QED BY <2>1
<1>2. CASE ~ bad
  <2>1. r = [fs |-> [added EXCEPT !.iused = @ \cup {finode}, !.itab[finode] = fsi_inode_init(type)],
             ret |-> OK, ino |-> finode]
    BY <1>2 DEF NewObject
  <2>2. dir \in DirsOf(s) /\ dir \in Itab
    BY <1>2 DEF IsDir, DirsOf, InUse
  <2>3. \A i \in Positions(s, dir) : Entry(s, dir, i).name # name
    BY <1>2 DEF fsi_dir_search
  <2>4. finode \in Itab \ s.iused
    <3>1. FreeInodes(s) # {} /\ FreeInodes(s) \in SUBSET Nat /\ FreeInodes(s) = Itab \ s.iused
      BY <1>2, Constants DEF FreeInodes
    <3> QED BY <3>1, LeastNumber
  <2>5. size \in Nat /\ size < 2 * PageSize
    <3>1. size \in Nat /\ size <= NumInodes - 2
      BY <2>2, FewEntries, StateType DEF Formed
    <3> QED BY <3>1, FsAssumption
  <2>6. PageOf(size) \in 0 .. InodeBlocks - 1 /\ PageOf(size) \in {0, 1} /\ CellOf(size) \in 0 .. PageSize - 1
    <3>1. PageOf(size) \in Nat /\ CellOf(size) \in 0 .. PageSize - 1
      BY <2>5, Division
    <3>2. size < PageSize * 2
      BY <2>5, Constants
    <3>3. PageOf(size) < 2
      BY <3>2, <2>5, DivisionBound
    <3> QED BY <3>1, <3>3, Constants
  <2>7. /\ newPage => block \in BlockNos \ {NoBlk} /\ block \notin s.bused
        /\ ~ newPage => block \in BlockNos \ {NoBlk} /\ block = s.itab[dir].blocks[PageOf(size)]
    <3>1. ASSUME newPage PROVE block \in BlockNos \ {NoBlk} /\ block \notin s.bused
      <4>1. FreeBlocks(s) # {} /\ FreeBlocks(s) \in SUBSET Nat /\ FreeBlocks(s) = BlockNos \ s.bused
        BY <1>2, <3>1, Constants DEF FreeBlocks
      <4>2. block \in BlockNos \ s.bused
        BY <4>1, <3>1, LeastNumber
      <4> QED BY <4>2 DEF Formed
    <3>2. ASSUME ~ newPage PROVE block \in BlockNos \ {NoBlk}
      <4> DEFINE i == size - 1
      <4>1. size # 0
        <5>1. 0 \in Nat /\ PageSize * 0 + 0 = 0 /\ 0 \in 0 .. PageSize - 1
          BY Constants
        <5>2. CellOf(0) = 0
          BY <5>1, DivisionUnique
        <5> QED BY <5>2, <3>2
      <4>2. i \in Positions(s, dir) /\ i \in Nat /\ size = i + 1
        BY <4>1, <2>5 DEF Positions
      <4>3. PageOf(i) = PageOf(size)
        <5> DEFINE q == PageOf(size)
                   c == CellOf(size)
        <5>1. size = PageSize * q + c /\ q \in Nat /\ c \in 0 .. PageSize - 1 /\ c # 0
          BY <2>5, <3>2, Division
        <5> HIDE DEF q, c, size
        <5>2. c - 1 \in 0 .. PageSize - 1 /\ PageSize * q \in Nat
          BY <5>1, Constants
        <5>3. PageOf(PageSize * q + (c - 1)) = q
          BY <5>1, <5>2, DivisionUnique
        <5>4. i = PageSize * q + (c - 1)
          BY <5>1, <5>2, Constants
        <5> QED BY <5>3, <5>4 DEF q
      <4>4. s.itab[dir].blocks[PageOf(i)] \in BlockNos \ {NoBlk}
        BY <2>2, <4>2, PositionIs
      <4> QED BY <4>3, <4>4, <3>2
    <3> QED BY <3>1, <3>2
  <2>8. Makes(s, dir, name, finode, block)
    <3> HIDE DEF finode, block, added, r
    <3> QED BY <2>2, <2>3, <2>4, <2>5, <2>6, <2>7 DEF Makes
  <2>9. r.fs = Made(s, dir, name, type, finode, block)
    <3> DEFINE t == [added EXCEPT !.iused = @ \cup {finode}, !.itab[finode] = fsi_inode_init(type)]
               D == s.itab[dir]
               E == [type |-> DIR, size |-> size + 1, blocks |-> [s.itab[dir].blocks EXCEPT ![PageOf(size)] = block]]
    <3>1. D = [type |-> DIR, size |-> size, blocks |-> s.itab[dir].blocks]
      BY <2>2, StateType DEF Formed, DirsOf
    <3>2. s = [iused |-> s.iused, bused |-> s.bused, itab |-> s.itab, store |-> s.store]
          /\ s.itab \in [Itab -> InodeRecords] /\ s.store \in [BlockNos -> Pages]
      BY StateType DEF Formed
    <3> DEFINE e == [name |-> name, ino |-> finode]
               q == PageOf(size)
               c == CellOf(size)
    <3>3. added = [[[[s EXCEPT !.bused = @ \cup {block}] EXCEPT !.store[block][c] = e]
                     EXCEPT !.itab[dir].blocks[q] = block] EXCEPT !.itab[dir].size = size + 1]
      BY DEF AddEntry
    <3> HIDE DEF finode, block, r, q, c, e, added, size
    <3>4. added = [iused |-> s.iused, bused |-> s.bused \cup {block}, itab |-> [s.itab EXCEPT ![dir] = E],
                   store |-> [s.store EXCEPT ![block] = [@ EXCEPT ![c] = e]]]
      <4> DEFINE I == s.iused
                 B == s.bused
                 T == s.itab
                 W == s.store
                 D1 == [type |-> DIR, size |-> size, blocks |-> [s.itab[dir].blocks EXCEPT ![q] = block]]
                 T1 == [T EXCEPT ![dir] = D1]
                 T2 == [T EXCEPT ![dir] = E]
                 W1 == [W EXCEPT ![block] = [@ EXCEPT ![c] = e]]
      <4>1. [[s EXCEPT !.bused = @ \cup {block}] EXCEPT !.store[block][c] = e]
              = [iused |-> I, bused |-> B \cup {block}, itab |-> T, store |-> W1]
        <5>1. s = [iused |-> I, bused |-> B, itab |-> T, store |-> W]
          BY <3>2
        <5> HIDE DEF I, B, T, W
        <5> DEFINE s1 == [s EXCEPT !.bused = @ \cup {block}]
                   B1 == B \cup {block}
        <5>2. s1 = [iused |-> I, bused |-> B1, itab |-> T, store |-> W]
          BY <5>1
        <5> HIDE DEF s1, B1
        <5>3. [s1 EXCEPT !.store[block][c] = e] = [iused |-> I, bused |-> B1, itab |-> T, store |-> W1]
          BY <5>2
        <5> QED BY <5>3 DEF s1, B1
      <4>2. [T EXCEPT ![dir].blocks[q] = block] = T1
        BY <3>1, <2>2, <3>2
      <4>3. [T1 EXCEPT ![dir].size = size + 1] = T2
        BY <3>2, <2>2 DEF q
      <4> HIDE DEF I, B, T, W, T1, T2, W1
      <4>4. added = [iused |-> I, bused |-> B \cup {block}, itab |-> T2, store |-> W1]
        BY <3>3, <4>1, <4>2, <4>3
      <4> QED BY <4>4 DEF I, B, T, W, T2, W1
    <3>5. t = Made(s, dir, name, type, finode, block)
      <4> DEFINE T2 == [s.itab EXCEPT ![dir] = E]
                 W1 == [s.store EXCEPT ![block] = [@ EXCEPT ![c] = e]]
      <4>1. t = [iused |-> s.iused \cup {finode}, bused |-> s.bused \cup {block},
                 itab |-> [T2 EXCEPT ![finode] = fsi_inode_init(type)], store |-> W1]
        <5> DEFINE I == s.iused
                   B == s.bused \cup {block}
        <5>1. added = [iused |-> I, bused |-> B, itab |-> T2, store |-> W1]
          BY <3>4
        <5> HIDE DEF I, B, T2, W1
        <5> DEFINE a1 == [added EXCEPT !.iused = @ \cup {finode}]
                   I1 == I \cup {finode}
        <5>2. a1 = [iused |-> I1, bused |-> B, itab |-> T2, store |-> W1]
          BY <5>1
        <5> HIDE DEF a1, I1
        <5>3. [a1 EXCEPT !.itab[finode] = fsi_inode_init(type)]
                = [iused |-> I1, bused |-> B, itab |-> [T2 EXCEPT ![finode] = fsi_inode_init(type)], store |-> W1]
          BY <5>2
        <5>4. t = [a1 EXCEPT !.itab[finode] = fsi_inode_init(type)]
          BY DEF a1
        <5> QED BY <5>3, <5>4 DEF I, B, I1
      <4>2. [T2 EXCEPT ![finode] = fsi_inode_init(type)]
              = [s.itab EXCEPT ![dir] = E, ![finode] = fsi_inode_init(type)]
        OBVIOUS
      <4> QED BY <4>1, <4>2 DEF Made, size, c, q, e
    <3> QED BY <2>1, <3>5 DEF r
  <2> HIDE DEF r, finode, block, added
  <2>10. r.ret = OK /\ r.ino = finode
    BY <2>1
  <2>11. \E fi, bl : Makes(s, dir, name, fi, bl) /\ r.ino = fi /\ r.fs = Made(s, dir, name, type, fi, bl)
    BY <2>8, <2>9, <2>10
  <2> QED BY <2>10, <2>11 DEF r
<1> QED BY <1>1, <1>2

\* What a new object changes: the tables, and the page with its entry.
NewTables(s, t, dir, name, type, finode, block) ==
  /\ t \in States
  /\ t.iused = s.iused \cup {finode} /\ t.bused = s.bused \cup {block}
  /\ InUse(t) = InUse(s) \cup {finode}
  /\ DirsOf(t) = DirsOf(s) \cup (IF type = DIR THEN {finode} ELSE {})
  /\ dir \in DirsOf(s) /\ dir # finode /\ finode \notin InUse(s) /\ finode \in Inodes
  /\ t.itab[finode] = fsi_inode_init(type)
  /\ \A f \in Itab \ {dir, finode} : t.itab[f] = s.itab[f]
  /\ t.itab[dir].type = DIR /\ t.itab[dir].size = s.itab[dir].size + 1
  /\ \A k \in 0 .. InodeBlocks :
       t.itab[dir].blocks[k] = IF k = PageOf(s.itab[dir].size) THEN block ELSE s.itab[dir].blocks[k]

NewPage(s, t, dir, name, type, finode, block) ==
  /\ \A b \in BlockNos \ {block} : t.store[b] = s.store[b]
  /\ t.store[block][CellOf(s.itab[dir].size)] = [name |-> name, ino |-> finode]
  /\ \A k \in 0 .. PageSize - 1 : k # CellOf(s.itab[dir].size) => t.store[block][k] = s.store[block][k]

\* Making an object changes what NewTables and NewPage say.
LEMMA MadeParts ==
  ASSUME NEW s, Formed(s), Backed(s), Owned(s),
         NEW t, NEW dir, NEW name, NEW type, NEW finode, NEW block,
         MadeFrom(s, t, dir, name, type, finode, block)
  PROVE  NewTables(s, t, dir, name, type, finode, block) /\ NewPage(s, t, dir, name, type, finode, block)
<1> SUFFICES ASSUME NEW size, size = s.itab[dir].size
             PROVE  NewTables(s, t, dir, name, type, finode, block) /\ NewPage(s, t, dir, name, type, finode, block)
  OBVIOUS
<1>0. /\ Makes(s, dir, name, finode, block) /\ name \in Names /\ type \in {FILE, DIR}
      /\ t = Made(s, dir, name, type, finode, block)
  BY DEF MadeFrom
<1> DEFINE q == PageOf(size)
           c == CellOf(size)
           bl == s.itab[dir].blocks
           e == [name |-> name, ino |-> finode]
           E == [type |-> DIR, size |-> size + 1, blocks |-> [bl EXCEPT ![q] = block]]
           W == [s.store EXCEPT ![block] = [@ EXCEPT ![c] = e]]
           T == [s.itab EXCEPT ![dir] = E, ![finode] = fsi_inode_init(type)]
<1>1. t = [iused |-> s.iused \cup {finode}, bused |-> s.bused \cup {block}, itab |-> T, store |-> W]
  BY <1>0 DEF Made
<1>2. /\ dir \in DirsOf(s) /\ finode \in Itab \ s.iused /\ block \in BlockNos
      /\ size \in Nat /\ size < 2 * PageSize /\ q \in 0 .. InodeBlocks - 1
  BY <1>0 DEF Makes
<1>3. dir \in Itab /\ dir # finode /\ finode \notin InUse(s) /\ finode \in Inodes /\ dir \in s.iused
  BY <1>2, StateType, Constants, SMTT(40) DEF Formed, DirsOf, InUse
<1>4. /\ s.itab \in [Itab -> InodeRecords] /\ s.store \in [BlockNos -> Pages]
      /\ bl \in [0 .. InodeBlocks -> BlockNos] /\ s.iused \subseteq Itab /\ s.bused \subseteq BlockNos
  BY <1>3, StateType DEF Formed
<1>5. c \in 0 .. PageSize - 1
  BY <1>2, Division
<1>6. E \in InodeRecords
  <2>1. size + 1 \in 0 .. InodeBlocks * PageSize
    <3>1. PageSize * 2 <= PageSize * InodeBlocks
      <4>1. InodeBlocks = 2 \/ (InodeBlocks > 2 /\ PageSize * 2 + PageSize <= PageSize * InodeBlocks)
        BY Constants, Product
      <4> QED BY <4>1, Constants
    <3>2. InodeBlocks * PageSize = PageSize * InodeBlocks /\ PageSize * InodeBlocks \in Nat /\ 2 * PageSize = PageSize * 2
      BY Constants
    <3>3. size < PageSize * 2 /\ size \in Nat
      BY <3>2, <1>2
    <3> QED BY <3>1, <3>2, <3>3, Constants, SMTT(30)
  <2>2. [bl EXCEPT ![q] = block] \in [0 .. InodeBlocks -> BlockNos]
    BY <1>2, <1>4
  <2> HIDE DEF bl, q
  <2> QED BY <2>1, <2>2 DEF InodeRecords
<1>7. fsi_inode_init(type) \in InodeRecords
  <2>0. type \in {FILE, DIR}
    BY <1>0
  <2>1. NoBlocks \in [0 .. InodeBlocks -> BlockNos] /\ 0 \in 0 .. InodeBlocks * PageSize
    BY Constants DEF NoBlocks
  <2> QED BY <2>0, <2>1 DEF fsi_inode_init, InodeRecords
<1>8. T \in [Itab -> InodeRecords]
  <2> HIDE DEF E
  <2> QED BY <1>3, <1>4, <1>6, <1>7
<1>9. W \in [BlockNos -> Pages]
  <2>1. e \in Cells
    BY <1>0, <1>3 DEF Cells, Inodes, Itab
  <2>2. s.store[block] \in [0 .. PageSize - 1 -> Cells]
    BY <1>2, <1>4 DEF Pages
  <2> HIDE DEF e, c
  <2>3. [s.store[block] EXCEPT ![c] = e] \in Pages
    BY <2>1, <2>2 DEF Pages
  <2> QED BY <2>3, <1>4
<1>10. t \in States
  <2> HIDE DEF T, W
  <2> QED BY <1>1, <1>2, <1>3, <1>4, <1>8, <1>9 DEF States
<1>11. /\ t.iused = s.iused \cup {finode} /\ t.bused = s.bused \cup {block} /\ t.itab = T /\ t.store = W
  <2> HIDE DEF T, W
  <2> QED BY <1>1
<1>12. InUse(t) = InUse(s) \cup {finode}
  BY <1>11, <1>3, Constants DEF InUse
<1>13. /\ T[finode] = fsi_inode_init(type) /\ T[dir] = E
       /\ \A f \in Itab \ {dir, finode} : T[f] = s.itab[f]
  <2> DEFINE i == fsi_inode_init(type)
             T1 == [s.itab EXCEPT ![dir] = E]
  <2> HIDE DEF E, i
  <2>1. T1 \in [Itab -> InodeRecords \cup {E}] /\ T1[dir] = E /\ \A f \in Itab \ {dir} : T1[f] = s.itab[f]
    BY <1>3, <1>4
  <2>2. T = [T1 EXCEPT ![finode] = i]
    BY DEF i
  <2> HIDE DEF T1, T
  <2> QED BY <2>1, <2>2, <1>3 DEF i, Inodes, Itab
<1>14. /\ E.type = DIR /\ E.size = size + 1
       /\ \A k \in 0 .. InodeBlocks : E.blocks[k] = IF k = q THEN block ELSE bl[k]
  BY <1>4
<1>15. \A b \in BlockNos \ {block} : W[b] = s.store[b]
  BY <1>4
<1>16. W[block][c] = e /\ \A k \in 0 .. PageSize - 1 : k # c => W[block][k] = s.store[block][k]
  <2>1. W[block] = [s.store[block] EXCEPT ![c] = e]
    BY <1>2, <1>4
  <2>2. s.store[block] \in [0 .. PageSize - 1 -> Cells]
    BY <1>2, <1>4 DEF Pages
  <2> HIDE DEF e, c, W
  <2> QED BY <2>1, <2>2, <1>5
<1> HIDE DEF T, W, E
<1>17. DirsOf(t) = DirsOf(s) \cup (IF type = DIR THEN {finode} ELSE {})
  <2>1. \A f \in InUse(s) : t.itab[f].type = s.itab[f].type /\ f \in Itab
    <3> SUFFICES ASSUME NEW f \in InUse(s) PROVE t.itab[f].type = s.itab[f].type /\ f \in Itab
      OBVIOUS
    <3>1. f \in Itab /\ f # finode
      BY <1>3, <1>4 DEF InUse
    <3>2. CASE f = dir
      BY <3>1, <3>2, <1>11, <1>13, <1>14, <1>2 DEF DirsOf
    <3>3. CASE f # dir
      BY <3>1, <3>3, <1>11, <1>13
    <3> QED BY <3>1, <3>2, <3>3
  <2>2. t.itab[finode].type = type
    BY <1>11, <1>13 DEF fsi_inode_init
  <2> QED BY <2>1, <2>2, <1>0, <1>12, <1>3 DEF DirsOf
<1>18. /\ t.itab[finode] = fsi_inode_init(type)
       /\ \A f \in Itab \ {dir, finode} : t.itab[f] = s.itab[f]
       /\ t.itab[dir].type = DIR /\ t.itab[dir].size = size + 1
  BY <1>11, <1>13, <1>14
<1>19. \A k \in 0 .. InodeBlocks :
         t.itab[dir].blocks[k] = IF k = PageOf(size) THEN block ELSE s.itab[dir].blocks[k]
  BY <1>11, <1>13, <1>14
<1>20. \A b \in BlockNos \ {block} : t.store[b] = s.store[b]
  BY <1>11, <1>15
<1>21. /\ t.store[block][CellOf(size)] = [name |-> name, ino |-> finode]
       /\ \A k \in 0 .. PageSize - 1 : k # CellOf(size) => t.store[block][k] = s.store[block][k]
  BY <1>11, <1>16
<1>22. NewTables(s, t, dir, name, type, finode, block)
  BY <1>2, <1>3, <1>10, <1>11, <1>12, <1>17, <1>18, <1>19 DEF NewTables
<1>23. NewPage(s, t, dir, name, type, finode, block)
  BY <1>20, <1>21 DEF NewPage
<1> QED BY <1>22, <1>23

\* A new object leaves the entries there are as they are, and adds its own.
LEMMA MadeEntries ==
  ASSUME NEW s, Formed(s), Backed(s), Owned(s),
         NEW t, NEW dir, NEW name, NEW type, NEW finode, NEW block,
         MadeFrom(s, t, dir, name, type, finode, block)
  PROVE  /\ Positions(t, finode) = {}
         /\ \A f \in InUse(s) \ {dir} : Positions(t, f) = Positions(s, f)
         /\ Positions(t, dir) = Positions(s, dir) \cup {s.itab[dir].size} /\ s.itab[dir].size \notin Positions(s, dir)
         /\ \A f \in InUse(s) : \A i \in Positions(s, f) : Entry(t, f, i) = Entry(s, f, i)
         /\ Entry(t, dir, s.itab[dir].size) = [name |-> name, ino |-> finode]
<1> SUFFICES ASSUME NEW size, size = s.itab[dir].size
             PROVE
             /\ Positions(t, finode) = {}
             /\ \A f \in InUse(s) \ {dir} : Positions(t, f) = Positions(s, f)
             /\ Positions(t, dir) = Positions(s, dir) \cup {size} /\ size \notin Positions(s, dir)
             /\ \A f \in InUse(s) : \A i \in Positions(s, f) : Entry(t, f, i) = Entry(s, f, i)
             /\ Entry(t, dir, size) = [name |-> name, ino |-> finode]
  OBVIOUS
<1> DEFINE q == PageOf(size)
           c == CellOf(size)
<1>1. /\ dir \in DirsOf(s) /\ dir # finode /\ finode \notin InUse(s) /\ finode \in Itab
      /\ t.itab[finode] = fsi_inode_init(type)
      /\ \A f \in Itab \ {dir, finode} : t.itab[f] = s.itab[f]
      /\ t.itab[dir].size = size + 1
      /\ \A k \in 0 .. InodeBlocks :
           t.itab[dir].blocks[k] = IF k = q THEN block ELSE s.itab[dir].blocks[k]
      /\ \A b \in BlockNos \ {block} : t.store[b] = s.store[b]
      /\ t.store[block][c] = [name |-> name, ino |-> finode]
      /\ \A k \in 0 .. PageSize - 1 : k # c => t.store[block][k] = s.store[block][k]
  <2>1. /\ NewTables(s, t, dir, name, type, finode, block)
        /\ NewPage(s, t, dir, name, type, finode, block)
    BY MadeParts
  <2>2. /\ dir \in DirsOf(s) /\ dir # finode /\ finode \notin InUse(s) /\ finode \in Inodes
        /\ t.itab[finode] = fsi_inode_init(type)
        /\ \A f \in Itab \ {dir, finode} : t.itab[f] = s.itab[f]
        /\ t.itab[dir].size = size + 1
        /\ \A k \in 0 .. InodeBlocks :
             t.itab[dir].blocks[k] = IF k = q THEN block ELSE s.itab[dir].blocks[k]
    BY <2>1 DEF NewTables
  <2>3. /\ \A b \in BlockNos \ {block} : t.store[b] = s.store[b]
        /\ t.store[block][c] = [name |-> name, ino |-> finode]
        /\ \A k \in 0 .. PageSize - 1 : k # c => t.store[block][k] = s.store[block][k]
    BY <2>1 DEF NewPage
  <2>4. finode \in Itab
    BY <2>2 DEF Inodes, Itab
  <2> QED BY <2>2, <2>3, <2>4
<1>2. /\ size \in Nat /\ block \in BlockNos \ {NoBlk} /\ q \in 0 .. InodeBlocks - 1
      /\ (c = 0 /\ block \notin s.bused) \/ (c # 0 /\ block = s.itab[dir].blocks[q])
  BY DEF MadeFrom, Makes
<1>3. c \in 0 .. PageSize - 1 /\ size = PageSize * q + c
  BY <1>2, Division
<1>4. InUse(s) \subseteq Itab /\ dir \in InUse(s)
  BY <1>1, StateType DEF Formed, InUse, DirsOf
<1> HIDE DEF q, c
<1>5. Positions(t, finode) = {}
  BY <1>1 DEF Positions, fsi_inode_init
<1>6. \A f \in InUse(s) \ {dir} : Positions(t, f) = Positions(s, f)
  BY <1>1, <1>4 DEF Positions
<1>7. Positions(t, dir) = Positions(s, dir) \cup {size} /\ size \notin Positions(s, dir)
  <2>1. Positions(t, dir) = 0 .. size /\ Positions(s, dir) = 0 .. size - 1
    BY <1>1, <1>2 DEF Positions
  <2> QED BY <2>1, <1>2
<1>8. Entry(t, dir, size) = [name |-> name, ino |-> finode]
  <2>1. t.itab[dir].blocks[q] = block
    <3>1. q \in 0 .. InodeBlocks
      BY <1>2, Constants
    <3> QED BY <3>1, <1>1
  <2>2. Entry(t, dir, size) = t.store[t.itab[dir].blocks[q]][c]
    BY DEF Entry, q, c
  <2> QED BY <2>1, <2>2, <1>1
<1>9. ASSUME NEW f \in InUse(s), NEW i \in Positions(s, f) PROVE Entry(t, f, i) = Entry(s, f, i)
  <2> DEFINE b == s.itab[f].blocks[PageOf(i)]
  <2>1. /\ i \in Nat /\ i < s.itab[f].size /\ PageOf(i) \in 0 .. InodeBlocks /\ CellOf(i) \in 0 .. PageSize - 1
        /\ b \in BlockNos \ {NoBlk} /\ f \in Itab /\ i = PageSize * PageOf(i) + CellOf(i)
    <3>1. /\ i \in Nat /\ i < s.itab[f].size /\ PageOf(i) \in 0 .. InodeBlocks - 1
          /\ CellOf(i) \in 0 .. PageSize - 1 /\ b \in BlockNos \ {NoBlk} /\ f \in Itab
      BY <1>4, PositionIs
    <3>2. PageOf(i) \in 0 .. InodeBlocks
      BY <3>1, Constants
    <3>3. i = PageSize * PageOf(i) + CellOf(i)
      BY <3>1, Division
    <3> QED BY <3>1, <3>2, <3>3
  <2>2. b \in s.bused
    BY <2>1 DEF Owned
  <2>3. f = dir /\ PageOf(i) = q => CellOf(i) # c /\ c # 0
    <3> SUFFICES ASSUME f = dir, PageOf(i) = q, CellOf(i) = c \/ c = 0 PROVE FALSE
      OBVIOUS
    <3>1. i < size
      BY <2>1
    <3>2. PageSize * q \in Nat
      BY <1>2, Constants
    <3> QED BY <3>1, <3>2, <2>1, <1>3, <1>2
  <2>4. t.itab[f].blocks[PageOf(i)] = b
    <3>1. CASE f = dir
      <4>1. PageOf(i) = q => b = block
        BY <3>1, <2>3, <1>2
      <4> QED BY <4>1, <3>1, <2>1, <1>1
    <3>2. CASE f # dir
      BY <3>2, <2>1, <1>1
    <3> QED BY <3>1, <3>2
  <2>5. b = block => CellOf(i) # c
    <3> SUFFICES ASSUME b = block PROVE CellOf(i) # c
      OBVIOUS
    <3>0. b = block
      OBVIOUS
    <3>1. block = s.itab[dir].blocks[q] /\ c # 0
      BY <2>2, <1>2
    <3>2. f = dir /\ PageOf(i) = q
      <4>1. q \in 0 .. InodeBlocks /\ dir \notin FilesOf(s)
        BY <1>1, <1>2, Constants DEF FilesOf, DirsOf
      <4>2. s.itab[f].blocks[PageOf(i)] # NoBlk /\ s.itab[f].blocks[PageOf(i)] = s.itab[dir].blocks[q]
        BY <2>1, <3>0, <3>1
      <4> QED BY <4>1, <4>2, <2>1, <1>4 DEF Owned
    <3> QED BY <3>2, <2>3
  <2>6. t.store[b][CellOf(i)] = s.store[b][CellOf(i)]
    BY <2>5, <2>1, <1>1
  <2> QED BY <2>4, <2>6 DEF Entry
<1> QED BY <1>5, <1>6, <1>7, <1>8, <1>9

\* A new object keeps the file system sound.
LEMMA MadeSound ==
  ASSUME NEW s, Sound(s),
         NEW t, NEW dir, NEW name, NEW type, NEW finode, NEW block,
         MadeFrom(s, t, dir, name, type, finode, block)
  PROVE  Sound(t)
<1> SUFFICES ASSUME NEW size, size = s.itab[dir].size, NEW q, q = PageOf(size)
             PROVE  Sound(t)
  OBVIOUS
<1>0. Formed(s) /\ Backed(s) /\ Owned(s) /\ Linked(s) /\ Parented(s) /\ Rooted(s) /\ Filled(s)
  BY DEF Sound
<1>1. /\ t \in States /\ t.iused = s.iused \cup {finode} /\ t.bused = s.bused \cup {block}
      /\ InUse(t) = InUse(s) \cup {finode}
      /\ DirsOf(t) = DirsOf(s) \cup (IF type = DIR THEN {finode} ELSE {})
      /\ dir \in DirsOf(s) /\ dir # finode /\ finode \notin InUse(s) /\ finode \in Inodes
      /\ t.itab[finode] = fsi_inode_init(type)
      /\ \A f \in Itab \ {dir, finode} : t.itab[f] = s.itab[f]
      /\ t.itab[dir].type = DIR /\ t.itab[dir].size = size + 1
      /\ \A k \in 0 .. InodeBlocks :
           t.itab[dir].blocks[k] = IF k = q THEN block ELSE s.itab[dir].blocks[k]
  BY <1>0, MadeParts DEF NewTables
<1>2. /\ Positions(t, finode) = {}
      /\ \A f \in InUse(s) \ {dir} : Positions(t, f) = Positions(s, f)
      /\ Positions(t, dir) = Positions(s, dir) \cup {size} /\ size \notin Positions(s, dir)
      /\ \A f \in InUse(s) : \A i \in Positions(s, f) : Entry(t, f, i) = Entry(s, f, i)
      /\ Entry(t, dir, size) = [name |-> name, ino |-> finode]
  <2>1. /\ Positions(t, finode) = {}
        /\ \A f \in InUse(s) \ {dir} : Positions(t, f) = Positions(s, f)
        /\ Positions(t, dir) = Positions(s, dir) \cup {s.itab[dir].size} /\ s.itab[dir].size \notin Positions(s, dir)
        /\ \A f \in InUse(s) : \A i \in Positions(s, f) : Entry(t, f, i) = Entry(s, f, i)
        /\ Entry(t, dir, s.itab[dir].size) = [name |-> name, ino |-> finode]
    <3>1. Formed(s) /\ Backed(s) /\ Owned(s) /\ MadeFrom(s, t, dir, name, type, finode, block)
      BY <1>0
    <3> HIDE <1>0
    <3> QED BY <3>1, MadeEntries
  <2> QED BY <2>1
<1>3. /\ size \in Nat /\ block \in BlockNos \ {NoBlk} /\ q \in 0 .. InodeBlocks - 1 /\ q \in {0, 1}
      /\ (CellOf(size) = 0 /\ block \notin s.bused) \/ (CellOf(size) # 0 /\ block = s.itab[dir].blocks[q])
      /\ \A i \in Positions(s, dir) : Entry(s, dir, i).name # name
  BY DEF MadeFrom, Makes
<1>4. /\ InUse(s) \subseteq Itab /\ dir \in InUse(s) /\ dir \in Itab /\ finode \in Itab
      /\ Root \in InUse(s) /\ Root # finode /\ Root \in Itab
  BY <1>0, <1>1, StateType, Constants DEF Formed, InUse, DirsOf, Inodes, Itab
<1>5. \A f \in Itab : f \notin {dir, finode} => t.itab[f] = s.itab[f]
  BY <1>1
<1>6. \A f \in InUse(s), k \in 0 .. InodeBlocks :
        t.itab[f].blocks[k] = IF f = dir /\ k = q THEN block ELSE s.itab[f].blocks[k]
  BY <1>1, <1>4
<1>7. \A k \in 0 .. InodeBlocks : t.itab[finode].blocks[k] = NoBlk
  BY <1>1 DEF fsi_inode_init, NoBlocks
<1>b. name \in Names /\ type \in {FILE, DIR}
  BY DEF MadeFrom
<1>8. Formed(t)
  <2>1. {0, Root} \subseteq t.iused /\ NoBlk \in t.bused
    BY <1>0, <1>1 DEF Formed
  <2>2. t.itab[Root].type = DIR
    BY <1>0, <1>1, <1>4 DEF Formed
  <2>3. ASSUME NEW f \in Itab \ InUse(t) PROVE t.itab[f] = fsi_inode_init(FILE)
    BY <2>3, <1>0, <1>1, <1>4 DEF Formed
  <2> QED BY <2>1, <2>2, <2>3, <1>1 DEF Formed
<1>9. Backed(t)
  <2> SUFFICES ASSUME NEW f \in Itab
               PROVE  /\ t.itab[f].blocks[InodeBlocks] = NoBlk
                      /\ \A k \in 0 .. InodeBlocks - 1 :
                           t.itab[f].blocks[k] = NoBlk => t.itab[f].blocks[k + 1] = NoBlk
                      /\ \A i \in Positions(t, f) : t.itab[f].blocks[PageOf(i)] # NoBlk
    BY DEF Backed
  <2>0. \A k \in 0 .. InodeBlocks - 1 : k \in 0 .. InodeBlocks /\ k + 1 \in 0 .. InodeBlocks
    BY Constants
  <2>1. CASE f = finode
    BY <2>0, <2>1, <1>2, <1>7, Constants
  <2>2. CASE f \notin {dir, finode}
    <3>1. t.itab[f] = s.itab[f]
      BY <2>2, <1>5
    <3> QED BY <3>1, <1>0 DEF Backed, Positions
  <2>3. CASE f = dir
    <3>1. t.itab[f].blocks[InodeBlocks] = NoBlk
      BY <2>3, <1>0, <1>1, <1>3, Constants, SMTT(30) DEF Backed
    <3>2. q = 1 => s.itab[dir].blocks[0] # NoBlk
      <4> SUFFICES ASSUME q = 1 PROVE s.itab[dir].blocks[0] # NoBlk
        OBVIOUS
      <4>1. CellOf(size) \in 0 .. PageSize - 1 /\ size = PageSize * 1 + CellOf(size)
        BY <1>3, Division
      <4>2. 0 \in Positions(s, dir) /\ 0 \in Nat
        <5>1. PageSize * 1 = PageSize /\ size > 0
          BY <4>1, <1>3, Constants
        <5> QED BY <5>1, <1>3 DEF Positions
      <4>3. PageOf(0) = 0
        <5>1. 0 \in Nat /\ PageSize * 0 + 0 = 0 /\ 0 \in 0 .. PageSize - 1
          BY Constants
        <5> QED BY <5>1, DivisionUnique
      <4> QED BY <4>2, <4>3, <1>0, <1>4 DEF Backed
    <3>3. ASSUME NEW k \in 0 .. InodeBlocks - 1, t.itab[f].blocks[k] = NoBlk
          PROVE  t.itab[f].blocks[k + 1] = NoBlk
      <4>1. k # q /\ s.itab[dir].blocks[k] = NoBlk
        BY <3>3, <2>0, <2>3, <1>1, <1>3
      <4>2. s.itab[dir].blocks[k + 1] = NoBlk
        BY <4>1, <1>0, <1>4 DEF Backed
      <4>3. k + 1 # q
        BY <4>1, <3>2, <1>3
      <4> QED BY <4>2, <4>3, <2>0, <2>3, <1>1
    <3>4. ASSUME NEW i \in Positions(t, f) PROVE t.itab[f].blocks[PageOf(i)] # NoBlk
      <4>1. CASE i = size
        <5>1. PageOf(i) = q /\ q \in 0 .. InodeBlocks /\ block # NoBlk
          BY <4>1, <1>3, Constants
        <5> QED BY <5>1, <2>3, <1>1
      <4>2. CASE i \in Positions(s, dir)
        <5>1. s.itab[dir].blocks[PageOf(i)] # NoBlk /\ PageOf(i) \in 0 .. InodeBlocks
          BY <4>2, <1>0, <1>4, PositionIs, Constants
        <5> QED BY <5>1, <2>3, <1>1, <1>3
      <4> QED BY <4>1, <4>2, <2>3, <1>2
    <3> QED BY <3>1, <3>3, <3>4
  <2> QED BY <2>1, <2>2, <2>3
<1>10. Owned(t)
  <2> SUFFICES ASSUME NEW f \in InUse(t), NEW i \in 0 .. InodeBlocks
               PROVE  /\ t.itab[f].blocks[i] \in t.bused
                      /\ \A g \in InUse(t), j \in 0 .. InodeBlocks :
                           t.itab[f].blocks[i] # NoBlk /\ t.itab[f].blocks[i] = t.itab[g].blocks[j] =>
                             \/ f = g /\ i = j
                             \/ /\ i = 0 /\ j = 0 /\ f \in FilesOf(t) /\ g \in FilesOf(t)
                                /\ t.itab[f].blocks[1] = NoBlk /\ t.itab[g].blocks[1] = NoBlk
    BY DEF Owned
  <2>1. t.itab[f].blocks[i] \in t.bused
    <3>1. CASE f = finode
      BY <3>1, <1>0, <1>1, <1>7 DEF Formed
    <3>2. CASE f \in InUse(s)
      BY <3>2, <1>0, <1>1, <1>6 DEF Owned
    <3> QED BY <3>1, <3>2, <1>1
  <2>2. ASSUME NEW g \in InUse(t), NEW j \in 0 .. InodeBlocks,
               t.itab[f].blocks[i] # NoBlk, t.itab[f].blocks[i] = t.itab[g].blocks[j]
        PROVE  \/ f = g /\ i = j
               \/ /\ i = 0 /\ j = 0 /\ f \in FilesOf(t) /\ g \in FilesOf(t)
                  /\ t.itab[f].blocks[1] = NoBlk /\ t.itab[g].blocks[1] = NoBlk
    <3>1. f \in InUse(s) /\ g \in InUse(s)
      BY <2>2, <1>1, <1>7
    <3>2. ASSUME NEW h \in InUse(s), NEW k \in 0 .. InodeBlocks, s.itab[h].blocks[k] = block
          PROVE  h = dir /\ k = q
      <4>1. block = s.itab[dir].blocks[q]
        BY <3>2, <1>0, <1>3 DEF Owned
      <4>2. q \in 0 .. InodeBlocks /\ block # NoBlk /\ dir \notin FilesOf(s)
        BY <1>1, <1>3, Constants DEF DirsOf, FilesOf
      <4> QED BY <4>1, <4>2, <3>2, <1>0, <1>4 DEF Owned
    <3>3. CASE (f = dir /\ i = q) \/ (g = dir /\ j = q)
      BY <3>1, <3>2, <3>3, <2>2, <1>6
    <3>4. CASE ~ (f = dir /\ i = q) /\ ~ (g = dir /\ j = q)
      <4>1. s.itab[f].blocks[i] # NoBlk /\ s.itab[f].blocks[i] = s.itab[g].blocks[j]
        BY <3>1, <3>4, <2>2, <1>6
      <4>2. CASE i = 0 /\ j = 0 /\ f \in FilesOf(s) /\ g \in FilesOf(s)
                 /\ s.itab[f].blocks[1] = NoBlk /\ s.itab[g].blocks[1] = NoBlk
        <5>1. f # dir /\ g # dir /\ 1 \in 0 .. InodeBlocks
          BY <4>2, <1>1, Constants DEF FilesOf, DirsOf
        <5>2. f \in FilesOf(t) /\ g \in FilesOf(t)
          BY <5>1, <4>2, <3>1, <1>1, <1>4, <1>5 DEF FilesOf
        <5>3. t.itab[f].blocks[1] = NoBlk /\ t.itab[g].blocks[1] = NoBlk
          BY <5>1, <4>2, <3>1, <1>6
        <5> QED BY <5>2, <5>3, <4>2
      <4> QED BY <4>1, <4>2, <3>1, <1>0 DEF Owned
    <3> QED BY <3>3, <3>4
  <2> QED BY <2>1, <2>2
<1>11. \A d \in DirsOf(t) : \A i \in Positions(t, d) :
         \/ d \in DirsOf(s) /\ i \in Positions(s, d) /\ Entry(t, d, i) = Entry(s, d, i)
         \/ d = dir /\ i = size /\ Entry(t, d, i) = [name |-> name, ino |-> finode]
  BY <1>1, <1>2 DEF DirsOf
<1>12. \A d \in DirsOf(s) : d \in DirsOf(t) /\ \A i \in Positions(s, d) :
         i \in Positions(t, d) /\ Entry(t, d, i) = Entry(s, d, i)
  BY <1>1, <1>2 DEF DirsOf
<1>13. Linked(t)
  <2> SUFFICES ASSUME NEW d \in DirsOf(t), NEW i \in Positions(t, d)
               PROVE  /\ Entry(t, d, i).ino \in InUse(t) \ {Root} /\ Entry(t, d, i).name \in Names
                      /\ \A j \in Positions(t, d) : Entry(t, d, i).name = Entry(t, d, j).name => i = j
                      /\ \A e \in DirsOf(t) : \A j \in Positions(t, e) :
                           Entry(t, d, i).ino = Entry(t, e, j).ino => d = e /\ i = j
    BY DEF Linked
  <2>1. \A e \in DirsOf(s) : \A j \in Positions(s, e) :
          Entry(s, e, j).ino \in InUse(s) \ {Root} /\ Entry(s, e, j).name \in Names
    BY <1>0 DEF Linked
  <2>2. Entry(t, d, i).ino \in InUse(t) \ {Root} /\ Entry(t, d, i).name \in Names
    BY <2>1, <1>b, <1>1, <1>4, <1>11
  <2>3. ASSUME NEW j \in Positions(t, d), Entry(t, d, i).name = Entry(t, d, j).name PROVE i = j
    BY <2>3, <1>0, <1>3, <1>11 DEF Linked
  <2>4. ASSUME NEW e \in DirsOf(t), NEW j \in Positions(t, e), Entry(t, d, i).ino = Entry(t, e, j).ino
        PROVE  d = e /\ i = j
    BY <2>1, <2>4, <1>0, <1>1, <1>11 DEF Linked
  <2> QED BY <2>2, <2>3, <2>4
<1>14. Parented(t)
  <2> SUFFICES ASSUME NEW f \in InUse(t) \ {Root}
               PROVE  \E d \in DirsOf(t) : \E i \in Positions(t, d) : Entry(t, d, i).ino = f
    BY DEF Parented
  <2>1. CASE f = finode
    BY <2>1, <1>1, <1>2
  <2>2. CASE f \in InUse(s)
    BY <2>2, <1>0, <1>12 DEF Parented
  <2> QED BY <2>1, <2>2, <1>1
<1>15. Rooted(t)
  <2> SUFFICES ASSUME NEW S \in SUBSET InUse(t), Root \in S, Closed(t, S) PROVE S = InUse(t)
    BY DEF Rooted
  <2> DEFINE S0 == S \ {finode}
  <2>1. S0 \in SUBSET InUse(s) /\ Root \in S0
    BY <1>1, <1>4
  <2>2. Closed(s, S0)
    <3> SUFFICES ASSUME NEW d \in S0 \cap DirsOf(s), NEW i \in Positions(s, d) PROVE Entry(s, d, i).ino \in S0
      BY DEF Closed
    <3>1. Entry(s, d, i).ino \in S
      BY <1>12 DEF Closed
    <3>2. Entry(s, d, i).ino \in InUse(s)
      BY <1>0 DEF Linked
    <3> QED BY <3>1, <3>2, <1>1
  <2>3. S0 = InUse(s)
    BY <2>1, <2>2, <1>0 DEF Rooted
  <2>4. finode \in S
    <3>1. dir \in S \cap DirsOf(t) /\ size \in Positions(t, dir)
      BY <2>3, <1>1, <1>2, <1>4
    <3> QED BY <3>1, <1>2 DEF Closed
  <2> QED BY <2>3, <2>4, <1>1
<1>16. Filled(t)
  <2> SUFFICES ASSUME NEW f \in FilesOf(t), NEW i \in Positions(t, f) PROVE Entry(t, f, i).name \in Data
    BY DEF Filled
  <2>1. f # finode /\ f # dir /\ f \in InUse(s)
    BY <1>1, <1>2, Constants DEF FilesOf
  <2>2. f \in FilesOf(s) /\ i \in Positions(s, f)
    BY <2>1, <1>2, <1>4, <1>5 DEF FilesOf
  <2> QED BY <2>1, <2>2, <1>0, <1>2 DEF Filled
<1> QED BY <1>8, <1>9, <1>10, <1>13, <1>14, <1>15, <1>16 DEF Sound

\* Directory d has the inode e under the name n.
HasEntry(s, d, n, e) ==
  d \in DirsOf(s) /\ \E i \in Positions(s, d) : Entry(s, d, i).name = n /\ Entry(s, d, i).ino = e

\* Nothing goes that is in s: no object, no entry, and of the files but those in
\* X no content.
Retains(s, t, X) ==
  /\ InUse(s) \subseteq InUse(t)
  /\ \A f \in InUse(s) : t.itab[f].type = s.itab[f].type
  /\ \A d, n, e : HasEntry(s, d, n, e) => HasEntry(t, d, n, e)
  /\ \A f \in FilesOf(s) \ X : Content(t, f) = Content(s, f)

\* A file with the same names in its cells has the same content.
LEMMA ContentKept ==
  ASSUME NEW s, NEW t, NEW f, NEW g, t.itab[g].size = s.itab[f].size, s.itab[f].size \in Nat,
         \A i \in Positions(s, f) : Entry(t, g, i).name = Entry(s, f, i).name
  PROVE  Content(t, g) = Content(s, f)
<1> DEFINE n == s.itab[f].size
<1>1. ASSUME NEW k \in 1 .. n PROVE Entry(t, g, k - 1).name = Entry(s, f, k - 1).name
  <2>1. k - 1 \in Positions(s, f)
    BY DEF Positions
  <2> QED BY <2>1
<1>2. Content(t, g) = [k \in 1 .. n |-> Entry(t, g, k - 1).name]
  BY DEF Content
<1>3. Content(s, f) = [k \in 1 .. n |-> Entry(s, f, k - 1).name]
  BY DEF Content
<1> HIDE DEF n
<1> QED BY <1>1, <1>2, <1>3, Zenon

\* What is in the cells of directories and files is enough.
LEMMA RetainsIf ==
  ASSUME NEW s, Formed(s), NEW t, NEW X, InUse(s) \subseteq InUse(t),
         \A f \in InUse(s) : t.itab[f].type = s.itab[f].type,
         \A d \in DirsOf(s) : \A i \in Positions(s, d) : i \in Positions(t, d) /\ Entry(t, d, i) = Entry(s, d, i),
         \A f \in FilesOf(s) \ X : /\ t.itab[f].size = s.itab[f].size
                                   /\ \A i \in Positions(s, f) : Entry(t, f, i).name = Entry(s, f, i).name
  PROVE  Retains(s, t, X)
<1>1. \A d, n, e : HasEntry(s, d, n, e) => HasEntry(t, d, n, e)
  <2>1. DirsOf(s) \subseteq DirsOf(t)
    BY DEF DirsOf
  <2> QED BY <2>1 DEF HasEntry
<1>2. ASSUME NEW f \in FilesOf(s) \ X PROVE Content(t, f) = Content(s, f)
  <2>1. f \in Itab /\ s.itab[f].size \in Nat
    BY StateType DEF FilesOf, InUse, Formed
  <2> QED BY <2>1, ContentKept
<1> QED BY <1>1, <1>2 DEF Retains

\* Retains is transitive.
LEMMA RetainsTransitive ==
  ASSUME NEW s, NEW t, NEW u, NEW X, Retains(s, t, X), Retains(t, u, X)
  PROVE  Retains(s, u, X)
<1>1. InUse(s) \subseteq InUse(u) /\ \A f \in InUse(s) : u.itab[f].type = s.itab[f].type
  BY DEF Retains
<1>2. \A d, n, e : HasEntry(s, d, n, e) => HasEntry(u, d, n, e)
  BY DEF Retains
<1>3. \A f \in FilesOf(s) \ X : Content(u, f) = Content(s, f)
  <2>1. FilesOf(s) \subseteq FilesOf(t)
    BY DEF Retains, FilesOf
  <2> QED BY <2>1 DEF Retains
<1> QED BY <1>1, <1>2, <1>3 DEF Retains

\* What keeps more keeps less.
LEMMA RetainsLess ==
  ASSUME NEW s, NEW t, NEW X, NEW Y, Retains(s, t, X), X \subseteq Y
  PROVE  Retains(s, t, Y)
  BY DEF Retains

\* Retains is reflexive.
LEMMA RetainsReflexive ==
  ASSUME NEW s, NEW X
  PROVE  Retains(s, s, X)
  BY DEF Retains

\* Nothing goes, no type changes, no directory shrinks.
Grown(s, t) ==
  /\ InUse(s) \subseteq InUse(t)
  /\ \A f \in InUse(s) : t.itab[f].type = s.itab[f].type
  /\ \A d \in DirsOf(s) : s.itab[d].size <= t.itab[d].size

\* Every file has one block, every directory one page; no block has two files.
OneBlockFiles(s) == \A f \in FilesOf(s) : s.itab[f].blocks[1] = NoBlk
\* Directories of one page.
OnePageDirs(s) == \A d \in DirsOf(s) : s.itab[d].blocks[1] = NoBlk
\* No sharing at all.
Alone(s) ==
  \A f, g \in InUse(s) :
    s.itab[f].blocks[0] # NoBlk /\ s.itab[f].blocks[0] = s.itab[g].blocks[0] => f = g

\* So few names that a directory does not outgrow its first page.
FewNames == IsFiniteSet(Names) /\ Cardinality(Names) <= PageSize

\* What a step keeps.
Keeps(s, t) ==
  /\ Sound(t)
  /\ OneBlockFiles(s) => OneBlockFiles(t)
  /\ FewNames /\ OnePageDirs(s) => OnePageDirs(t)

\* Keeps is transitive.
LEMMA KeepsTransitive ==
  ASSUME NEW s, NEW t, NEW u, Keeps(s, t), Keeps(t, u)
  PROVE  Keeps(s, u)
  BY DEF Keeps

\* Grown is transitive.
LEMMA GrownTransitive ==
  ASSUME NEW s, NEW t, NEW u, Sound(s), Sound(t), Sound(u), Grown(s, t), Grown(t, u)
  PROVE  Grown(s, u)
<1>1. InUse(s) \subseteq InUse(u) /\ \A f \in InUse(s) : u.itab[f].type = s.itab[f].type
  BY DEF Grown
<1>2. ASSUME NEW d \in DirsOf(s) PROVE s.itab[d].size <= u.itab[d].size
  <2>1. d \in DirsOf(t) /\ d \in Itab
    BY StateType DEF DirsOf, Grown, Sound, Formed, InUse
  <2>2. s.itab[d].size \in Nat /\ t.itab[d].size \in Nat /\ u.itab[d].size \in Nat
    BY <2>1, StateType DEF Sound, Formed
  <2>3. s.itab[d].size <= t.itab[d].size /\ t.itab[d].size <= u.itab[d].size
    BY <2>1 DEF Grown
  <2> QED BY <2>2, <2>3
<1> QED BY <1>1, <1>2 DEF Grown

\* Grown is reflexive.
LEMMA GrownReflexive ==
  ASSUME NEW s, Sound(s)
  PROVE  Grown(s, s)
<1>1. \A d \in DirsOf(s) : s.itab[d].size \in Nat
  BY StateType DEF Sound, Formed, DirsOf, InUse
<1> QED BY <1>1 DEF Grown

\* A new object leaves the others alone.
LEMMA MadeKeeps ==
  ASSUME NEW s, Sound(s),
         NEW t, NEW dir, NEW name, NEW type, NEW finode, NEW block,
         MadeFrom(s, t, dir, name, type, finode, block)
  PROVE  /\ Keeps(s, t) /\ Grown(s, t) /\ (Alone(s) => Alone(t))
         /\ finode \in InUse(t) /\ finode \in Inodes /\ t.itab[finode].type = type
<1> SUFFICES ASSUME NEW size, size = s.itab[dir].size, NEW q, q = PageOf(size)
             PROVE  /\ Keeps(s, t) /\ Grown(s, t) /\ (Alone(s) => Alone(t))
                    /\ finode \in InUse(t) /\ finode \in Inodes /\ t.itab[finode].type = type
  OBVIOUS
<1>0. Formed(s) /\ Backed(s) /\ Owned(s) /\ Linked(s)
  BY DEF Sound
<1>1. /\ InUse(t) = InUse(s) \cup {finode}
      /\ DirsOf(t) = DirsOf(s) \cup (IF type = DIR THEN {finode} ELSE {})
      /\ dir \in DirsOf(s) /\ dir # finode /\ finode \notin InUse(s) /\ finode \in Inodes
      /\ t.itab[finode] = fsi_inode_init(type)
      /\ \A f \in Itab \ {dir, finode} : t.itab[f] = s.itab[f]
      /\ t.itab[dir].type = DIR /\ t.itab[dir].size = size + 1
      /\ \A k \in 0 .. InodeBlocks :
           t.itab[dir].blocks[k] = IF k = q THEN block ELSE s.itab[dir].blocks[k]
  BY <1>0, MadeParts DEF NewTables
<1>2. InUse(s) \subseteq Itab /\ s.itab[dir].type = DIR /\ size \in Nat /\ dir \in InUse(s)
  BY <1>0, <1>1, StateType DEF Formed, InUse, DirsOf
<1>3. \A f \in InUse(s) : f # dir => t.itab[f] = s.itab[f]
  BY <1>1, <1>2
<1>4. Grown(s, t)
  <2>1. \A f \in InUse(s) : t.itab[f].type = s.itab[f].type
    BY <1>1, <1>2, <1>3
  <2>2. ASSUME NEW d \in DirsOf(s) PROVE s.itab[d].size <= t.itab[d].size
    <3>1. CASE d = dir
      BY <3>1, <1>1, <1>2
    <3>2. CASE d # dir
      <4>1. t.itab[d] = s.itab[d] /\ s.itab[d].size \in Nat
        BY <3>2, <1>0, <1>2, <1>3, StateType DEF DirsOf, Formed
      <4> QED BY <4>1
    <3> QED BY <3>1, <3>2
  <2> QED BY <2>1, <2>2, <1>1 DEF Grown
<1>5. Sound(t)
  BY MadeSound
<1>6. t.itab[finode].type = type /\ \A k \in 0 .. InodeBlocks : t.itab[finode].blocks[k] = NoBlk
  BY <1>1 DEF fsi_inode_init, NoBlocks
<1>7. 0 \in 0 .. InodeBlocks /\ 1 \in 0 .. InodeBlocks
  BY Constants
<1>8. OneBlockFiles(s) => OneBlockFiles(t)
  <2> SUFFICES ASSUME OneBlockFiles(s), NEW f \in FilesOf(t) PROVE t.itab[f].blocks[1] = NoBlk
    BY DEF OneBlockFiles
  <2>1. f # dir
    BY <1>1, Constants DEF FilesOf
  <2>2. CASE f = finode
    BY <2>2, <1>6, <1>7
  <2>3. CASE f # finode
    <3>1. f \in FilesOf(s) /\ t.itab[f] = s.itab[f]
      BY <2>1, <2>3, <1>1, <1>3 DEF FilesOf
    <3> QED BY <3>1 DEF OneBlockFiles
  <2> QED BY <2>2, <2>3
<1>9. FewNames /\ OnePageDirs(s) => OnePageDirs(t)
  <2> SUFFICES ASSUME FewNames, OnePageDirs(s), NEW d \in DirsOf(t) PROVE t.itab[d].blocks[1] = NoBlk
    BY DEF OnePageDirs
  <2>1. CASE d = dir
    <3>1. t.itab[dir].size <= Cardinality(Names)
      <4>1. Formed(t) /\ Backed(t) /\ Linked(t) /\ dir \in DirsOf(t) /\ IsFiniteSet(Names)
        BY <2>1, <1>5 DEF Sound, FewNames
      <4> QED BY <4>1, FewEntries
    <3>2. size < PageSize * 1
      <4>1. Cardinality(Names) \in Nat /\ Cardinality(Names) <= PageSize
        BY FS_CardinalityType DEF FewNames
      <4> QED BY <4>1, <3>1, <1>1, <1>2, Constants
    <3>3. PageOf(size) < 1 /\ PageOf(size) \in Nat
      BY <3>2, <1>2, DivisionBound, Division
    <3>4. q # 1
      BY <3>3
    <3> QED BY <3>4, <2>1, <1>1, <1>7 DEF OnePageDirs
  <2>2. CASE d = finode
    BY <2>2, <1>6, <1>7
  <2>3. CASE d # finode /\ d # dir
    <3>1. d \in DirsOf(s) /\ t.itab[d] = s.itab[d]
      BY <2>3, <1>1, <1>3 DEF DirsOf
    <3> QED BY <3>1 DEF OnePageDirs
  <2> QED BY <2>1, <2>2, <2>3
<1>10. Alone(s) => Alone(t)
  <2> SUFFICES ASSUME Alone(s), NEW f \in InUse(t), NEW g \in InUse(t),
                      t.itab[f].blocks[0] # NoBlk, t.itab[f].blocks[0] = t.itab[g].blocks[0], f # g
               PROVE  FALSE
    BY DEF Alone
  <2>1. f \in FilesOf(t) /\ g \in FilesOf(t)
    BY <1>5, <1>7 DEF Sound, Owned
  <2>2. f # dir /\ g # dir /\ f # finode /\ g # finode
    BY <2>1, <1>1, <1>6, <1>7, Constants DEF FilesOf
  <2>3. f \in InUse(s) /\ g \in InUse(s) /\ t.itab[f] = s.itab[f] /\ t.itab[g] = s.itab[g]
    BY <2>2, <1>1, <1>3
  <2> QED BY <2>3 DEF Alone
<1> QED BY <1>1, <1>4, <1>5, <1>6, <1>8, <1>9, <1>10 DEF Keeps

\* fs_create and fs_mkdir.
LEMMA NewObjectKeeps ==
  ASSUME NEW s, Sound(s), NEW dir \in Itab, NEW name \in Names, NEW type \in {FILE, DIR},
         NEW r, r = NewObject(s, dir, name, type)
  PROVE  /\ Keeps(s, r.fs) /\ Grown(s, r.fs) /\ (Alone(s) => Alone(r.fs))
         /\ r.ret \in {OK, Fail}
         /\ r.ret = OK => r.ino \in InUse(r.fs) /\ r.ino \in Inodes /\ r.fs.itab[r.ino].type = type
<1>0. Formed(s) /\ Backed(s) /\ Linked(s)
  BY DEF Sound
<1>1. \/ r.ret = Fail /\ r.fs = s
      \/ /\ r.ret = OK
         /\ \E finode, block :
              /\ Makes(s, dir, name, finode, block)
              /\ r.ino = finode /\ r.fs = Made(s, dir, name, type, finode, block)
  BY <1>0, NewObjectIs
<1>2. CASE r.ret = Fail /\ r.fs = s
  BY <1>2, GrownReflexive, Constants DEF Keeps
<1>3. CASE r.ret = OK
  <2>1. PICK finode, block :
          /\ r.ret = OK /\ Makes(s, dir, name, finode, block)
          /\ r.ino = finode /\ r.fs = Made(s, dir, name, type, finode, block)
    BY <1>1, <1>3, Constants
  <2>2. r.fs = Made(s, dir, name, type, finode, block)
    BY <2>1
  <2>3. MadeFrom(s, r.fs, dir, name, type, finode, block)
    BY <2>1 DEF MadeFrom
  <2>4. /\ Keeps(s, r.fs) /\ Grown(s, r.fs) /\ (Alone(s) => Alone(r.fs))
        /\ finode \in InUse(r.fs) /\ finode \in Inodes /\ r.fs.itab[finode].type = type
    BY <2>3, MadeKeeps
  <2> QED BY <2>1, <2>4
<1> QED BY <1>1, <1>2, <1>3

-----------------------------------------------------------------------------
(* Changes to one file.                                                     *)

\* The blocks of the file in t are its own, but for the first one of a file
\* that has no second.
BlocksOfOwn(t, file) ==
  \A i \in 0 .. InodeBlocks :
    /\ t.itab[file].blocks[i] \in t.bused
    /\ \A g \in InUse(t), j \in 0 .. InodeBlocks :
         t.itab[file].blocks[i] # NoBlk /\ t.itab[file].blocks[i] = t.itab[g].blocks[j] =>
           \/ file = g /\ i = j
           \/ /\ i = 0 /\ j = 0 /\ g \in FilesOf(t)
              /\ t.itab[file].blocks[1] = NoBlk /\ t.itab[g].blocks[1] = NoBlk

\* From s to t one file changes, and no block of anything else.
FileChange(s, t, file) ==
  /\ t \in States /\ t.iused = s.iused /\ s.bused \subseteq t.bused
  /\ file \in FilesOf(s) /\ t.itab[file].type = FILE
  /\ \A g \in Itab \ {file} : t.itab[g] = s.itab[g]
  /\ \A g \in InUse(s) \ {file}, k \in 0 .. InodeBlocks :
       s.itab[g].blocks[k] # NoBlk => t.store[s.itab[g].blocks[k]] = s.store[s.itab[g].blocks[k]]
  /\ t.itab[file].blocks[InodeBlocks] = NoBlk
  /\ \A k \in 0 .. InodeBlocks - 1 :
       t.itab[file].blocks[k] = NoBlk => t.itab[file].blocks[k + 1] = NoBlk
  /\ \A i \in Positions(t, file) :
       t.itab[file].blocks[PageOf(i)] # NoBlk /\ Entry(t, file, i).name \in Data
  /\ BlocksOfOwn(t, file)

\* A change to one file keeps the file system sound.
LEMMA FileChangeKeeps ==
  ASSUME NEW s, Sound(s), NEW t, NEW file, FileChange(s, t, file)
  PROVE  /\ Sound(t) /\ Grown(s, t)
         /\ FewNames /\ OnePageDirs(s) => OnePageDirs(t)
         /\ OneBlockFiles(s) /\ t.itab[file].blocks[1] = NoBlk => OneBlockFiles(t)
         /\ InUse(t) = InUse(s) /\ FilesOf(t) = FilesOf(s) /\ DirsOf(t) = DirsOf(s)
<1>0. Formed(s) /\ Backed(s) /\ Owned(s) /\ Linked(s) /\ Parented(s) /\ Rooted(s) /\ Filled(s)
  BY DEF Sound
<1>1. /\ t \in States /\ t.iused = s.iused /\ s.bused \subseteq t.bused
      /\ file \in FilesOf(s) /\ t.itab[file].type = FILE
      /\ \A g \in Itab \ {file} : t.itab[g] = s.itab[g]
  BY DEF FileChange
<1>2. InUse(s) \subseteq Itab /\ file \in InUse(s) /\ s.itab[file].type = FILE /\ file # Root
  BY <1>0, <1>1, StateType, Constants DEF Formed, InUse, FilesOf
<1>3. InUse(t) = InUse(s)
  BY <1>1 DEF InUse
<1>4. \A g \in InUse(s) : g # file => t.itab[g] = s.itab[g]
  BY <1>1, <1>2
<1>5. FilesOf(t) = FilesOf(s) /\ DirsOf(t) = DirsOf(s)
  BY <1>1, <1>2, <1>3, <1>4 DEF FilesOf, DirsOf
<1>6. \A g \in InUse(s) \ {file} :
        Positions(t, g) = Positions(s, g) /\ \A i \in Positions(s, g) : Entry(t, g, i) = Entry(s, g, i)
  <2> SUFFICES ASSUME NEW g \in InUse(s) \ {file}
               PROVE  Positions(t, g) = Positions(s, g) /\ \A i \in Positions(s, g) : Entry(t, g, i) = Entry(s, g, i)
    OBVIOUS
  <2>1. t.itab[g] = s.itab[g] /\ g \in Itab
    BY <1>2, <1>4
  <2>2. \A k \in 0 .. InodeBlocks : s.itab[g].blocks[k] # NoBlk =>
            t.store[t.itab[g].blocks[k]] = s.store[s.itab[g].blocks[k]]
    BY <2>1 DEF FileChange
  <2> QED BY <1>0, <2>1, <2>2, EntryKept
<1>7. \A d \in DirsOf(s) :
        Positions(t, d) = Positions(s, d) /\ \A i \in Positions(s, d) : Entry(t, d, i) = Entry(s, d, i)
  BY <1>2, <1>6, Constants DEF DirsOf
<1>8. Formed(t)
  <2>1. {0, Root} \subseteq t.iused /\ NoBlk \in t.bused /\ t.itab[Root].type = DIR
    BY <1>0, <1>1, <1>2, Constants DEF Formed, Itab
  <2>2. \A f \in Itab \ InUse(t) : t.itab[f] = fsi_inode_init(FILE)
    BY <1>0, <1>1, <1>2, <1>3 DEF Formed
  <2> QED BY <2>1, <2>2, <1>1 DEF Formed
<1>9. Backed(t)
  <2> SUFFICES ASSUME NEW f \in Itab
               PROVE  /\ t.itab[f].blocks[InodeBlocks] = NoBlk
                      /\ \A k \in 0 .. InodeBlocks - 1 :
                           t.itab[f].blocks[k] = NoBlk => t.itab[f].blocks[k + 1] = NoBlk
                      /\ \A i \in Positions(t, f) : t.itab[f].blocks[PageOf(i)] # NoBlk
    BY DEF Backed
  <2>1. CASE f = file
    BY <2>1 DEF FileChange
  <2>2. CASE f # file
    <3>1. t.itab[f] = s.itab[f]
      BY <2>2, <1>1
    <3> QED BY <3>1, <1>0 DEF Backed, Positions
  <2> QED BY <2>1, <2>2
<1>10. Owned(t)
  <2>0. BlocksOfOwn(t, file)
    BY DEF FileChange
  <2> SUFFICES ASSUME NEW f \in InUse(s), NEW i \in 0 .. InodeBlocks
               PROVE  /\ t.itab[f].blocks[i] \in t.bused
                      /\ \A g \in InUse(s), j \in 0 .. InodeBlocks :
                           t.itab[f].blocks[i] # NoBlk /\ t.itab[f].blocks[i] = t.itab[g].blocks[j] =>
                             \/ f = g /\ i = j
                             \/ /\ i = 0 /\ j = 0 /\ f \in FilesOf(s) /\ g \in FilesOf(s)
                                /\ t.itab[f].blocks[1] = NoBlk /\ t.itab[g].blocks[1] = NoBlk
    BY <1>3, <1>5 DEF Owned
  <2>1. CASE f = file
    BY <2>0, <2>1, <1>1, <1>3, <1>5 DEF BlocksOfOwn
  <2>2. CASE f # file
    <3>1. t.itab[f] = s.itab[f]
      BY <2>2, <1>4
    <3>2. ASSUME NEW g \in InUse(s), NEW j \in 0 .. InodeBlocks,
                 t.itab[f].blocks[i] # NoBlk, t.itab[f].blocks[i] = t.itab[g].blocks[j]
          PROVE  \/ f = g /\ i = j
                 \/ /\ i = 0 /\ j = 0 /\ f \in FilesOf(s) /\ g \in FilesOf(s)
                    /\ t.itab[f].blocks[1] = NoBlk /\ t.itab[g].blocks[1] = NoBlk
      <4>1. CASE g = file
        <5>1. t.itab[file].blocks[j] # NoBlk /\ t.itab[file].blocks[j] = t.itab[f].blocks[i]
          BY <3>2, <4>1
        <5>2. j = 0 /\ i = 0 /\ f \in FilesOf(t) /\ t.itab[file].blocks[1] = NoBlk /\ t.itab[f].blocks[1] = NoBlk
          BY <5>1, <2>0, <2>2, <1>3 DEF BlocksOfOwn
        <5> QED BY <5>2, <4>1, <1>1, <1>5
      <4>2. CASE g # file
        <5>1. t.itab[g] = s.itab[g]
          BY <4>2, <1>4
        <5> QED BY <5>1, <3>1, <3>2, <1>0 DEF Owned
      <4> QED BY <4>1, <4>2
    <3> QED BY <3>1, <3>2, <1>0, <1>1 DEF Owned
  <2> QED BY <2>1, <2>2
<1>11. Linked(t)
  BY <1>0, <1>3, <1>5, <1>7 DEF Linked
<1>12. Parented(t)
  BY <1>0, <1>3, <1>5, <1>7 DEF Parented
<1>13. Rooted(t)
  <2> SUFFICES ASSUME NEW S \in SUBSET InUse(s), Root \in S, Closed(t, S) PROVE S = InUse(s)
    BY <1>3 DEF Rooted
  <2>1. Closed(s, S)
    BY <1>5, <1>7 DEF Closed
  <2> QED BY <2>1, <1>0 DEF Rooted
<1>14. Filled(t)
  <2> SUFFICES ASSUME NEW f \in FilesOf(s), NEW i \in Positions(t, f) PROVE Entry(t, f, i).name \in Data
    BY <1>5 DEF Filled
  <2>1. CASE f = file
    BY <2>1 DEF FileChange
  <2>2. CASE f # file
    BY <2>2, <1>0, <1>6 DEF Filled, FilesOf
  <2> QED BY <2>1, <2>2
<1>15. Sound(t)
  BY <1>8, <1>9, <1>10, <1>11, <1>12, <1>13, <1>14 DEF Sound
<1>16. Grown(s, t)
  <2>1. \A f \in InUse(s) : t.itab[f].type = s.itab[f].type
    BY <1>1, <1>2, <1>4
  <2>2. ASSUME NEW d \in DirsOf(s) PROVE s.itab[d].size <= t.itab[d].size
    <3>1. d # file /\ d \in InUse(s) /\ d \in Itab
      BY <1>2, Constants DEF DirsOf
    <3>2. t.itab[d] = s.itab[d] /\ s.itab[d].size \in Nat
      BY <3>1, <1>0, <1>4, StateType DEF Formed
    <3> QED BY <3>2
  <2> QED BY <2>1, <2>2, <1>3 DEF Grown
<1>17. FewNames /\ OnePageDirs(s) => OnePageDirs(t)
  BY <1>2, <1>4, <1>5, Constants DEF OnePageDirs, DirsOf
<1>18. OneBlockFiles(s) /\ t.itab[file].blocks[1] = NoBlk => OneBlockFiles(t)
  BY <1>4, <1>5 DEF OneBlockFiles, FilesOf
<1> QED BY <1>3, <1>5, <1>15, <1>16, <1>17, <1>18

\* A change to one file leaves the others, and the directories, as they are;
\* and the file too, when its cells have the same names.
LEMMA FileChangeRetains ==
  ASSUME NEW s, Sound(s), NEW t, NEW file, FileChange(s, t, file)
  PROVE  /\ Retains(s, t, {file})
         /\ t.itab[file].size = s.itab[file].size
              /\ (\A i \in Positions(s, file) : Entry(t, file, i).name = Entry(s, file, i).name)
            => Retains(s, t, {})
<1>0. Formed(s) /\ Backed(s)
  BY DEF Sound
<1>1. /\ t.iused = s.iused /\ file \in FilesOf(s) /\ t.itab[file].type = FILE
      /\ \A g \in Itab \ {file} : t.itab[g] = s.itab[g]
  BY DEF FileChange
<1>2. InUse(s) \subseteq Itab /\ s.itab[file].type = FILE /\ FILE # DIR
  BY <1>0, <1>1, StateType, Constants DEF Formed, InUse, FilesOf
<1>3. InUse(t) = InUse(s)
  BY <1>1 DEF InUse
<1>4. \A g \in InUse(s) : g # file => t.itab[g] = s.itab[g]
  BY <1>1, <1>2
<1>5. ASSUME NEW g \in InUse(s) \ {file}
      PROVE  Positions(t, g) = Positions(s, g) /\ \A i \in Positions(s, g) : Entry(t, g, i) = Entry(s, g, i)
  <2>1. t.itab[g] = s.itab[g] /\ g \in Itab
    BY <1>2, <1>4
  <2>2. \A k \in 0 .. InodeBlocks : s.itab[g].blocks[k] # NoBlk =>
            t.store[t.itab[g].blocks[k]] = s.store[s.itab[g].blocks[k]]
    BY <2>1 DEF FileChange
  <2> QED BY <1>0, <2>1, <2>2, EntryKept
<1>6. \A f \in InUse(s) : t.itab[f].type = s.itab[f].type
  BY <1>1, <1>2, <1>4
<1>7. \A d \in DirsOf(s) : \A i \in Positions(s, d) : i \in Positions(t, d) /\ Entry(t, d, i) = Entry(s, d, i)
  BY <1>2, <1>5 DEF DirsOf
<1>8. \A f \in FilesOf(s) \ {file} : /\ t.itab[f].size = s.itab[f].size
                                     /\ \A i \in Positions(s, f) : Entry(t, f, i).name = Entry(s, f, i).name
  BY <1>4, <1>5 DEF FilesOf
<1>9. Retains(s, t, {file})
  BY <1>0, <1>3, <1>6, <1>7, <1>8, RetainsIf
<1>10. ASSUME t.itab[file].size = s.itab[file].size,
              \A i \in Positions(s, file) : Entry(t, file, i).name = Entry(s, file, i).name
       PROVE  Retains(s, t, {})
  <2>1. \A f \in FilesOf(s) \ {} : /\ t.itab[f].size = s.itab[f].size
                                   /\ \A i \in Positions(s, f) : Entry(t, f, i).name = Entry(s, f, i).name
    BY <1>8, <1>10
  <2> QED BY <1>0, <1>3, <1>6, <1>7, <2>1, RetainsIf
<1> QED BY <1>9, <1>10

\* No other object has the first block of the file.
Own(s, file) ==
  \A g \in InUse(s) \ {file} :
    s.itab[file].blocks[0] # NoBlk => s.itab[g].blocks[0] # s.itab[file].blocks[0]

\* Only files share a block, and a file whose block nobody shares owns it.
LEMMA SharersAre ==
  ASSUME NEW s, Sound(s), NEW file \in InUse(s)
  PROVE  /\ Sharers(s, file) = {} <=> Own(s, file)
         /\ \A f \in Sharers(s, file) : f \in FilesOf(s) /\ file \in FilesOf(s) /\ f \in Inodes /\ f # file
         /\ Alone(s) => Own(s, file)
<1>1. InUse(s) = s.iused \cap Inodes
  BY StateType, Constants DEF Sound, Formed, InUse, Inodes, Itab
<1>2. Sharers(s, file) = {f \in InUse(s) \ {file} :
        s.itab[f].blocks[0] = s.itab[file].blocks[0] /\ s.itab[file].blocks[0] # NoBlk}
  BY <1>1 DEF Sharers
<1>3. Sharers(s, file) = {} <=> Own(s, file)
  BY <1>2 DEF Own
<1>4. 0 \in 0 .. InodeBlocks
  BY Constants
<1>5. \A f \in Sharers(s, file) : f \in FilesOf(s) /\ file \in FilesOf(s) /\ f \in Inodes /\ f # file
  BY <1>1, <1>2, <1>4 DEF Sound, Owned
<1>6. Alone(s) => Own(s, file)
  BY DEF Alone, Own
<1> QED BY <1>3, <1>5, <1>6

\* The state with block b, which contains page, at position k of a file.
WithBlock(s, file, k, b, page) ==
  [iused |-> s.iused,
   bused |-> s.bused \cup {b},
   itab  |-> [s.itab EXCEPT ![file] = [type |-> FILE, size |-> s.itab[file].size,
                                       blocks |-> [s.itab[file].blocks EXCEPT ![k] = b]]],
   store |-> [s.store EXCEPT ![b] = page]]

\* A free block becomes block k of a file, and does no harm to what it holds.
NewBlock(s, t, file, k, b) ==
  /\ file \in FilesOf(s) /\ k \in 0 .. InodeBlocks - 1 /\ b \in BlockNos \ s.bused
  /\ k = 0 \/ (Own(s, file) /\ s.itab[file].blocks[k - 1] # NoBlk)
  /\ \E page \in Pages :
       /\ \A i \in Positions(s, file) : PageOf(i) = k => page[CellOf(i)].name \in Data
       /\ t = WithBlock(s, file, k, b, page)

\* What an allocation of block b as block k of a file changes.
BlockTables(s, t, file, k, b) ==
  /\ t \in States /\ t.iused = s.iused /\ t.bused = s.bused \cup {b}
  /\ \A g \in Itab \ {file} : t.itab[g] = s.itab[g]
  /\ t.itab[file].type = FILE /\ t.itab[file].size = s.itab[file].size
  /\ \A j \in 0 .. InodeBlocks : t.itab[file].blocks[j] = IF j = k THEN b ELSE s.itab[file].blocks[j]
  /\ \A c \in BlockNos \ {b} : t.store[c] = s.store[c]
  /\ \A i \in Positions(s, file) : PageOf(i) = k => t.store[b][CellOf(i)].name \in Data

\* What an allocation changes in the tables.
LEMMA NewBlockTables ==
  ASSUME NEW s, Sound(s), NEW t, NEW file, NEW k, NEW b, NewBlock(s, t, file, k, b)
  PROVE  BlockTables(s, t, file, k, b)
<1>1. PICK page \in Pages :
        /\ \A i \in Positions(s, file) : PageOf(i) = k => page[CellOf(i)].name \in Data
        /\ t = WithBlock(s, file, k, b, page)
  BY DEF NewBlock
<1>2. file \in FilesOf(s) /\ k \in 0 .. InodeBlocks - 1 /\ b \in BlockNos \ s.bused
  BY DEF NewBlock
<1>3. /\ s.itab \in [Itab -> InodeRecords] /\ s.store \in [BlockNos -> Pages]
      /\ s.iused \subseteq Itab /\ s.bused \subseteq BlockNos /\ file \in Itab
      /\ s.itab[file].size \in 0 .. InodeBlocks * PageSize
      /\ s.itab[file].blocks \in [0 .. InodeBlocks -> BlockNos]
  <2>1. s \in States /\ file \in Itab
    BY <1>2, StateType DEF Sound, Formed, FilesOf, InUse
  <2>2. InodeBlocks * PageSize \in Nat
    BY Constants
  <2>3. s.itab[file].size \in Nat /\ s.itab[file].size <= InodeBlocks * PageSize
    BY <2>1, StateType
  <2>4. s.itab[file].size \in 0 .. InodeBlocks * PageSize
    <3> DEFINE m == InodeBlocks * PageSize
    <3>1. m \in Nat /\ s.itab[file].size \in Nat /\ s.itab[file].size <= m
      BY <2>2, <2>3
    <3> HIDE DEF m
    <3>2. s.itab[file].size \in 0 .. m
      BY <3>1
    <3> QED BY <3>2 DEF m
  <2> QED BY <2>1, <2>4, StateType
<1> DEFINE B == [s.itab[file].blocks EXCEPT ![k] = b]
           R == [type |-> FILE, size |-> s.itab[file].size, blocks |-> B]
           T == [s.itab EXCEPT ![file] = R]
           W == [s.store EXCEPT ![b] = page]
<1>4. B \in [0 .. InodeBlocks -> BlockNos] /\ \A j \in 0 .. InodeBlocks : B[j] = IF j = k THEN b ELSE s.itab[file].blocks[j]
  BY <1>2, <1>3
<1> HIDE DEF B
<1>5. R \in InodeRecords /\ R.type = FILE /\ R.size = s.itab[file].size /\ R.blocks = B
  BY <1>3, <1>4 DEF InodeRecords
<1> HIDE DEF R
<1>6. T \in [Itab -> InodeRecords] /\ T[file] = R /\ \A g \in Itab \ {file} : T[g] = s.itab[g]
  BY <1>3, <1>5
<1>7. W \in [BlockNos -> Pages] /\ W[b] = page /\ \A c \in BlockNos \ {b} : W[c] = s.store[c]
  BY <1>1, <1>2, <1>3
<1>8. t = [iused |-> s.iused, bused |-> s.bused \cup {b}, itab |-> T, store |-> W]
  BY <1>1 DEF WithBlock, T, R, B, W
<1> HIDE DEF T, W
<1>9. t \in States /\ t.iused = s.iused /\ t.bused = s.bused \cup {b} /\ t.itab = T /\ t.store = W
  BY <1>2, <1>3, <1>6, <1>7, <1>8 DEF States
<1>10. /\ \A g \in Itab \ {file} : t.itab[g] = s.itab[g]
       /\ t.itab[file].type = FILE /\ t.itab[file].size = s.itab[file].size
       /\ \A j \in 0 .. InodeBlocks : t.itab[file].blocks[j] = IF j = k THEN b ELSE s.itab[file].blocks[j]
  BY <1>4, <1>5, <1>6, <1>9
<1>11. /\ \A c \in BlockNos \ {b} : t.store[c] = s.store[c]
       /\ \A i \in Positions(s, file) : PageOf(i) = k => t.store[b][CellOf(i)].name \in Data
  BY <1>1, <1>7, <1>9
<1> QED BY <1>9, <1>10, <1>11 DEF BlockTables

\* An allocation changes one file, which keeps its content.
LEMMA NewBlockKeeps ==
  ASSUME NEW s, Sound(s), NEW t, NEW file, NEW k, NEW b, NewBlock(s, t, file, k, b)
  PROVE  /\ FileChange(s, t, file)
         /\ k = 0 \/ Own(s, file) => Own(t, file)
         /\ Alone(s) => Alone(t)
         /\ OneBlockFiles(s) /\ k = 0 => OneBlockFiles(t)
         /\ \A i \in Positions(s, file) : i \in Positions(t, file) /\ (PageOf(i) # k => Entry(t, file, i) = Entry(s, file, i))
<1>0. Formed(s) /\ Backed(s) /\ Owned(s) /\ Linked(s) /\ Filled(s)
  BY DEF Sound
<1>1. /\ t \in States /\ t.iused = s.iused /\ t.bused = s.bused \cup {b}
      /\ \A g \in Itab \ {file} : t.itab[g] = s.itab[g]
      /\ t.itab[file].type = FILE /\ t.itab[file].size = s.itab[file].size
      /\ \A j \in 0 .. InodeBlocks : t.itab[file].blocks[j] = IF j = k THEN b ELSE s.itab[file].blocks[j]
      /\ \A c \in BlockNos \ {b} : t.store[c] = s.store[c]
      /\ \A i \in Positions(s, file) : PageOf(i) = k => t.store[b][CellOf(i)].name \in Data
  BY NewBlockTables DEF BlockTables
<1>2. /\ file \in FilesOf(s) /\ k \in 0 .. InodeBlocks - 1 /\ b \in BlockNos \ s.bused
      /\ k = 0 \/ (Own(s, file) /\ s.itab[file].blocks[k - 1] # NoBlk)
      /\ b # NoBlk
  BY <1>0 DEF NewBlock, Formed
<1>3. InUse(s) \subseteq Itab /\ file \in InUse(s) /\ file \in Itab /\ InUse(t) = InUse(s) /\ FilesOf(t) = FilesOf(s)
  BY <1>0, <1>1, <1>2, StateType DEF Formed, FilesOf, InUse
<1>4. \A g \in InUse(s), j \in 0 .. InodeBlocks : s.itab[g].blocks[j] \in s.bused /\ s.itab[g].blocks[j] # b
  BY <1>0, <1>2 DEF Owned
<1>5. \A g \in InUse(s) : g # file => t.itab[g] = s.itab[g]
  BY <1>1, <1>3
<1>6. 0 \in 0 .. InodeBlocks /\ 1 \in 0 .. InodeBlocks /\ k \in 0 .. InodeBlocks /\ InodeBlocks \in 0 .. InodeBlocks /\ k # InodeBlocks
  BY <1>2, Constants
<1>7. Positions(t, file) = Positions(s, file)
  BY <1>1 DEF Positions
<1>8. ASSUME NEW i \in Positions(s, file)
      PROVE  /\ t.itab[file].blocks[PageOf(i)] # NoBlk /\ Entry(t, file, i).name \in Data
             /\ PageOf(i) # k => Entry(t, file, i) = Entry(s, file, i)
  <2>1. PageOf(i) \in 0 .. InodeBlocks /\ s.itab[file].blocks[PageOf(i)] \in BlockNos \ {NoBlk}
    BY <1>0, <1>3, PositionIs, Constants
  <2>2. CASE PageOf(i) = k
    BY <2>1, <2>2, <1>1, <1>2 DEF Entry
  <2>3. CASE PageOf(i) # k
    <3>1. t.itab[file].blocks[PageOf(i)] = s.itab[file].blocks[PageOf(i)]
      BY <2>1, <2>3, <1>1
    <3>2. Entry(t, file, i) = Entry(s, file, i)
      BY <3>1, <2>1, <1>1, <1>3, <1>4 DEF Entry
    <3> QED BY <3>1, <3>2, <2>1, <2>3, <1>0, <1>2 DEF Filled
  <2> QED BY <2>2, <2>3
<1>9. BlocksOfOwn(t, file)
  <2> SUFFICES ASSUME NEW i \in 0 .. InodeBlocks
               PROVE  /\ t.itab[file].blocks[i] \in t.bused
                      /\ \A g \in InUse(t), j \in 0 .. InodeBlocks :
                           t.itab[file].blocks[i] # NoBlk /\ t.itab[file].blocks[i] = t.itab[g].blocks[j] =>
                             \/ file = g /\ i = j
                             \/ /\ i = 0 /\ j = 0 /\ g \in FilesOf(t)
                                /\ t.itab[file].blocks[1] = NoBlk /\ t.itab[g].blocks[1] = NoBlk
    BY DEF BlocksOfOwn
  <2>1. t.itab[file].blocks[i] \in t.bused
    BY <1>1, <1>3, <1>4
  <2>2. ASSUME NEW g \in InUse(t), NEW j \in 0 .. InodeBlocks,
               t.itab[file].blocks[i] # NoBlk, t.itab[file].blocks[i] = t.itab[g].blocks[j]
        PROVE  \/ file = g /\ i = j
               \/ /\ i = 0 /\ j = 0 /\ g \in FilesOf(t)
                  /\ t.itab[file].blocks[1] = NoBlk /\ t.itab[g].blocks[1] = NoBlk
    <3>0. g \in InUse(s)
      BY <1>3
    <3>1. CASE g = file
      <4>1. CASE i = k \/ j = k
        BY <3>1, <4>1, <2>2, <1>1, <1>3, <1>4
      <4>2. CASE i # k /\ j # k
        <5>1. s.itab[file].blocks[i] # NoBlk /\ s.itab[file].blocks[i] = s.itab[file].blocks[j]
          BY <3>1, <4>2, <2>2, <1>1
        <5> QED BY <5>1, <3>1, <1>0, <1>3 DEF Owned
      <4> QED BY <4>1, <4>2
    <3>2. CASE g # file
      <4>1. t.itab[g] = s.itab[g]
        BY <3>0, <3>2, <1>5
      <4>2. i # k
        BY <4>1, <3>0, <2>2, <1>1, <1>4
      <4>3. s.itab[file].blocks[i] # NoBlk /\ s.itab[file].blocks[i] = s.itab[g].blocks[j]
        BY <4>1, <4>2, <2>2, <1>1
      <4>4. i = 0 /\ j = 0
        BY <4>3, <3>0, <3>2, <1>0, <1>3 DEF Owned
      <4>5. ~ Own(s, file)
        BY <4>3, <4>4, <3>0, <3>2 DEF Own
      <4> QED BY <4>2, <4>4, <4>5, <1>2
    <3> QED BY <3>1, <3>2
  <2> QED BY <2>1, <2>2
<1>10. FileChange(s, t, file)
  <2>1. t.itab[file].blocks[InodeBlocks] = NoBlk
    BY <1>0, <1>1, <1>3, <1>6 DEF Backed
  <2>2. ASSUME NEW j \in 0 .. InodeBlocks - 1, t.itab[file].blocks[j] = NoBlk
        PROVE  t.itab[file].blocks[j + 1] = NoBlk
    <3>1. j \in 0 .. InodeBlocks /\ j + 1 \in 0 .. InodeBlocks
      BY Constants
    <3>2. j # k /\ s.itab[file].blocks[j] = NoBlk
      BY <2>2, <3>1, <1>1, <1>2
    <3>3. s.itab[file].blocks[j + 1] = NoBlk
      BY <3>2, <1>0, <1>3 DEF Backed
    <3>4. j + 1 # k
      BY <3>2, <1>2
    <3> QED BY <3>1, <3>3, <3>4, <1>1
  <2>3. \A g \in InUse(s) \ {file}, j \in 0 .. InodeBlocks :
          s.itab[g].blocks[j] # NoBlk => t.store[s.itab[g].blocks[j]] = s.store[s.itab[g].blocks[j]]
    <3>1. \A g \in InUse(s), j \in 0 .. InodeBlocks : s.itab[g].blocks[j] \in BlockNos
      BY <1>0, <1>3, StateType DEF Formed
    <3> QED BY <3>1, <1>1, <1>4
  <2> QED BY <2>1, <2>2, <2>3, <1>1, <1>2, <1>7, <1>8, <1>9 DEF FileChange
<1>11. k = 0 \/ Own(s, file) => Own(t, file)
  <2> SUFFICES ASSUME k = 0 \/ Own(s, file), NEW g \in InUse(s) \ {file}, t.itab[file].blocks[0] # NoBlk
               PROVE  t.itab[g].blocks[0] # t.itab[file].blocks[0]
    BY <1>3 DEF Own
  <2>1. t.itab[g].blocks[0] = s.itab[g].blocks[0]
    BY <1>5
  <2>2. CASE k = 0
    BY <2>1, <2>2, <1>1, <1>4, <1>6
  <2>3. CASE k # 0
    BY <2>1, <2>3, <1>1, <1>6 DEF Own
  <2> QED BY <2>2, <2>3
<1>12. Alone(s) => Alone(t)
  <2> SUFFICES ASSUME Alone(s), NEW f \in InUse(s), NEW g \in InUse(s),
                      t.itab[f].blocks[0] # NoBlk, t.itab[f].blocks[0] = t.itab[g].blocks[0], f # g
               PROVE  FALSE
    BY <1>3 DEF Alone
  <2>1. t.itab[file].blocks[0] = IF k = 0 THEN b ELSE s.itab[file].blocks[0]
    BY <1>1, <1>6
  <2>2. f # file => t.itab[f].blocks[0] = s.itab[f].blocks[0]
    BY <1>5
  <2>3. g # file => t.itab[g].blocks[0] = s.itab[g].blocks[0]
    BY <1>5
  <2>4. s.itab[f].blocks[0] # b /\ s.itab[g].blocks[0] # b
    BY <1>4, <1>6
  <2> QED BY <2>1, <2>2, <2>3, <2>4, <1>3 DEF Alone
<1>13. OneBlockFiles(s) /\ k = 0 => OneBlockFiles(t)
  <2> SUFFICES ASSUME OneBlockFiles(s), k = 0 PROVE OneBlockFiles(t)
    OBVIOUS
  <2>1. t.itab[file].blocks[1] = NoBlk
    BY <1>1, <1>2, <1>6 DEF OneBlockFiles
  <2> QED BY <2>1, <1>10, FileChangeKeeps
<1> QED BY <1>7, <1>8, <1>10, <1>11, <1>12, <1>13

\* A free block has become block k of a file.
Took(s, file, k, t) == \E b \in BlockNos \ s.bused : t = WithBlock(s, file, k, b, s.store[b])

\* Allocate takes a free block, if there is one, and no more.
LEMMA AllocateIs ==
  ASSUME NEW s, Sound(s), NEW file \in FilesOf(s), NEW k
  PROVE  /\ Allocate([fs |-> s, ret |-> Fail], file, k) = [fs |-> s, ret |-> Fail]
         /\ FreeBlocks(s) = {} => Allocate([fs |-> s, ret |-> OK], file, k) = [fs |-> s, ret |-> Fail]
         /\ FreeBlocks(s) # {} =>
              \E t : Took(s, file, k, t) /\ Allocate([fs |-> s, ret |-> OK], file, k) = [fs |-> t, ret |-> OK]
<1>1. Allocate([fs |-> s, ret |-> Fail], file, k) = [fs |-> s, ret |-> Fail]
  BY DEF Allocate
<1>2. ASSUME FreeBlocks(s) = {} PROVE Allocate([fs |-> s, ret |-> OK], file, k) = [fs |-> s, ret |-> Fail]
  BY <1>2 DEF Allocate
<1>3. ASSUME FreeBlocks(s) # {}, NEW b, b = LeastOf(FreeBlocks(s))
      PROVE  /\ b \in BlockNos \ s.bused
             /\ Allocate([fs |-> s, ret |-> OK], file, k)
                  = [fs |-> WithBlock(s, file, k, b, s.store[b]), ret |-> OK]
  <2>1. b \in BlockNos \ s.bused
    <3>1. FreeBlocks(s) \in SUBSET Nat /\ FreeBlocks(s) = BlockNos \ s.bused
      BY Constants DEF FreeBlocks
    <3> QED BY <3>1, <1>3, LeastNumber
  <2>2. file \in Itab /\ s.itab[file].type = FILE /\ s \in States
    BY StateType DEF FilesOf, InUse, Sound, Formed
  <2>3. /\ s = [iused |-> s.iused, bused |-> s.bused, itab |-> s.itab, store |-> s.store]
        /\ s.itab \in [Itab -> InodeRecords] /\ s.store \in [BlockNos -> Pages]
        /\ s.itab[file] = [type |-> FILE, size |-> s.itab[file].size, blocks |-> s.itab[file].blocks]
    BY <2>2, StateType
  <2> DEFINE I == s.iused
             B == s.bused
             B1 == B \cup {b}
             T == s.itab
             R == [type |-> FILE, size |-> s.itab[file].size, blocks |-> [s.itab[file].blocks EXCEPT ![k] = b]]
             T1 == [T EXCEPT ![file] = R]
             W == s.store
             x == [fs |-> s, ret |-> OK]
             x1 == [x EXCEPT !.fs.bused = @ \cup {b}]
             s1 == [iused |-> I, bused |-> B1, itab |-> T, store |-> W]
             s2 == [iused |-> I, bused |-> B1, itab |-> T1, store |-> W]
  <2>4. x1 = [fs |-> s1, ret |-> OK]
    <3>1. s = [iused |-> I, bused |-> B, itab |-> T, store |-> W]
      BY <2>3
    <3> HIDE DEF I, B, T, W
    <3>2. [s EXCEPT !.bused = B1] = s1
      BY <3>1
    <3>3. s.bused \cup {b} = B1
      BY <3>1
    <3> HIDE DEF s1, B1
    <3>4. x1 = [x EXCEPT !.fs = [s EXCEPT !.bused = B1]]
      BY <3>3
    <3> QED BY <3>2, <3>4
  <2>5. [T EXCEPT ![file].blocks[k] = b] = T1
    BY <2>2, <2>3
  <2>6. [x1 EXCEPT !.fs.itab[file].blocks[k] = b] = [fs |-> s2, ret |-> OK]
    <3> DEFINE T2 == [T EXCEPT ![file].blocks[k] = b]
    <3>1. [s1 EXCEPT !.itab = T2] = [iused |-> I, bused |-> B1, itab |-> T2, store |-> W]
      <4> HIDE DEF I, B1, T, W, T2
      <4> QED OBVIOUS
    <3>2. [s1 EXCEPT !.itab[file].blocks[k] = b] = [s1 EXCEPT !.itab = T2]
      <4>1. s1.itab = T
        OBVIOUS
      <4> HIDE DEF T, s1
      <4> QED BY <4>1
    <3>3. [s1 EXCEPT !.itab[file].blocks[k] = b] = s2
      BY <3>1, <3>2, <2>5
    <3> HIDE DEF s1, s2, x1
    <3> QED BY <2>4, <3>3
  <2>7. Allocate(x, file, k) = [x1 EXCEPT !.fs.itab[file].blocks[k] = b]
    <3>1. x.ret = OK /\ x.fs = s
      OBVIOUS
    <3> HIDE DEF x
    <3> QED BY <3>1, <1>3, Constants DEF Allocate
  <2>8. s2 = WithBlock(s, file, k, b, s.store[b])
    <3>1. [s.store EXCEPT ![b] = s.store[b]] = s.store
      BY <2>3
    <3> QED BY <3>1 DEF WithBlock
  <2> QED BY <2>1, <2>6, <2>7, <2>8
<1>4. FreeBlocks(s) # {} =>
        \E t : Took(s, file, k, t) /\ Allocate([fs |-> s, ret |-> OK], file, k) = [fs |-> t, ret |-> OK]
  BY <1>3 DEF Took
<1> QED BY <1>1, <1>2, <1>4

\* Allocate takes a free block if there is one.
LEMMA AllocateTakes ==
  ASSUME NEW s, Sound(s), NEW file \in FilesOf(s), FreeBlocks(s) # {}, NEW k
  PROVE  \E t : Took(s, file, k, t) /\ Allocate([fs |-> s, ret |-> OK], file, k) = [fs |-> t, ret |-> OK]
  BY AllocateIs, ZenonT(40)

\* The recursion of AllocateFrom has a solution.
AllocatesUpTo(u, s, file, from, to) ==
  u = [n \in from .. to |-> IF n = from THEN [fs |-> s, ret |-> OK] ELSE Allocate(u[n - 1], file, n - 1)]

\* The fold of AllocateFrom, as a function of the blocks allocated.
LEMMA AllocateFromIs ==
  ASSUME NEW s, NEW file, NEW from \in Nat, NEW to \in Nat, from <= to
  PROVE  \E u : AllocatesUpTo(u, s, file, from, to) /\ AllocateFrom(s, file, from, to) = u[to]
<1> DEFINE a == [fs |-> s, ret |-> OK]
           N == to - from
           Good(u, m) == /\ DOMAIN u = from .. to /\ u[from] = a
                         /\ \A n \in from + 1 .. from + m : u[n] = Allocate(u[n - 1], file, n - 1)
           T == {m \in 0 .. N : \E u : Good(u, m)}
<1>1. 0 \in T
  <2>1. Good([n \in from .. to |-> a], 0)
    OBVIOUS
  <2> QED BY <2>1
<1>2. \A m \in 1 .. N : m - 1 \in T => m \in T
  <2> SUFFICES ASSUME NEW m \in 1 .. N, m - 1 \in T PROVE m \in T
    OBVIOUS
  <2>0. m \in 0 .. N
    OBVIOUS
  <2>1. PICK u : Good(u, m - 1)
    OBVIOUS
  <2> DEFINE v == Allocate(u[from + m - 1], file, from + m - 1)
             w == [n \in from .. to |-> IF n = from + m THEN v ELSE u[n]]
  <2>2. Good(w, m)
    <3>1. DOMAIN w = from .. to /\ w[from] = a
      BY <2>1
    <3>2. ASSUME NEW n \in from + 1 .. from + m PROVE w[n] = Allocate(w[n - 1], file, n - 1)
      <4>1. n \in from .. to /\ n - 1 \in from .. to /\ n - 1 # from + m
        OBVIOUS
      <4>2. CASE n = from + m
        <5>1. w[n] = v /\ w[n - 1] = u[n - 1] /\ n - 1 = from + m - 1
          BY <4>1, <4>2
        <5> HIDE DEF w
        <5> QED BY <5>1
      <4>3. CASE n # from + m
        <5>1. w[n] = u[n] /\ w[n - 1] = u[n - 1] /\ n \in from + 1 .. from + (m - 1)
          BY <4>1, <4>3
        <5> HIDE DEF w
        <5> QED BY <5>1, <2>1
      <4> QED BY <4>2, <4>3
    <3> QED BY <3>1, <3>2
  <2>3. \E h : Good(h, m)
    BY <2>2
  <2> HIDE DEF Good, w, N
  <2> QED BY <2>0, <2>3
<1>3. N \in Nat
  OBVIOUS
<1>4. \E u : Good(u, N)
  <2> HIDE DEF T, N
  <2>1. \A n \in 0 .. N : n \in T
    BY <1>1, <1>2, <1>3, BoundedInduction
  <2>2. N \in T
    BY <2>1, <1>3
  <2> QED BY <2>2 DEF T
<1>5. PICK u : Good(u, N)
  BY <1>4
<1> DEFINE w == [n \in from .. to |-> u[n]]
<1>6. AllocatesUpTo(w, s, file, from, to)
  <2>1. ASSUME NEW n \in from .. to
        PROVE  w[n] = IF n = from THEN a ELSE Allocate(w[n - 1], file, n - 1)
    <3>1. CASE n = from
      BY <3>1, <1>5
    <3>2. CASE n # from
      <4>1. n \in from + 1 .. from + N /\ n - 1 \in from .. to
        BY <3>2
      <4>2. u[n] = Allocate(u[n - 1], file, n - 1)
        BY <4>1, <1>5
      <4> QED BY <4>1, <4>2, <3>2
    <3> QED BY <3>1, <3>2
  <2>2. w = [n \in from .. to |-> w[n]]
    OBVIOUS
  <2> HIDE DEF w
  <2> QED BY <2>1, <2>2 DEF AllocatesUpTo
<1> DEFINE U == CHOOSE h : AllocatesUpTo(h, s, file, from, to)
<1>7. AllocatesUpTo(U, s, file, from, to)
  <2> HIDE DEF w
  <2> QED BY <1>6
<1>8. AllocateFrom(s, file, from, to) = U[to]
  BY DEF AllocateFrom, AllocatesUpTo
<1> QED BY <1>7, <1>8

\* The pages that hold positions of an inode have blocks.
LEMMA PagesHeld ==
  ASSUME NEW s, Formed(s), Backed(s), NEW f \in Itab
  PROVE  /\ BlocksFor(s.itab[f].size) \in 0 .. InodeBlocks
         /\ \A j \in Nat : j < BlocksFor(s.itab[f].size) => s.itab[f].blocks[j] # NoBlk
         /\ \A i \in Positions(s, f) : PageOf(i) < BlocksFor(s.itab[f].size)
<1> DEFINE z == s.itab[f].size
<1>1. z \in Nat /\ z <= InodeBlocks * PageSize
  BY StateType DEF Formed
<1>2. InodeBlocks * PageSize = PageSize * InodeBlocks /\ PageSize * InodeBlocks \in Nat /\ InodeBlocks \in Nat
  BY Constants
<1> HIDE DEF z
<1>3. /\ BlocksFor(z) \in Nat
      /\ \A i \in Nat : i < z => PageOf(i) < BlocksFor(z)
      /\ \A p \in Nat : p < BlocksFor(z) => PageSize * p < z
      /\ z <= PageSize * InodeBlocks <=> BlocksFor(z) <= InodeBlocks
  BY <1>1, <1>2, BlocksForIs
<1>4. BlocksFor(z) \in 0 .. InodeBlocks
  BY <1>1, <1>2, <1>3
<1>5. ASSUME NEW j \in Nat, j < BlocksFor(z) PROVE s.itab[f].blocks[j] # NoBlk
  <2>1. PageSize * j < z /\ 0 \in 0 .. PageSize - 1
    BY <1>3, <1>5, Constants
  <2>2. PageSize * j + 0 \in Nat /\ PageOf(PageSize * j + 0) = j
    BY <2>1, DivisionUnique
  <2>3. PageSize * j + 0 < z
    <3>1. PageSize * j \in Nat /\ PageSize * j < z
      BY <2>1, Constants
    <3> QED BY <3>1
  <2>4. PageSize * j + 0 \in Positions(s, f)
    BY <2>2, <2>3, <1>1 DEF Positions, z
  <2> QED BY <2>2, <2>4 DEF Backed
<1>6. \A i \in Positions(s, f) : i \in Nat /\ i < z
  BY <1>1 DEF Positions, z
<1> QED BY <1>3, <1>4, <1>5, <1>6 DEF z

\* What blocks for a file leave as it is.
FileKept(s, t, file) ==
  /\ Sound(t) /\ InUse(t) = InUse(s) /\ file \in FilesOf(t) /\ Own(t, file)
  /\ FewNames /\ OnePageDirs(s) => OnePageDirs(t)
  /\ Alone(s) => Alone(t)
  /\ t.itab[file].size = s.itab[file].size
  /\ Retains(s, t, {})

\* What AllocateFrom gives back: the file system kept, with the blocks below `to` if it worked.
Supplied(s, r, file, to) ==
  /\ r = [fs |-> r.fs, ret |-> r.ret] /\ r.ret \in {OK, Fail}
  /\ FileKept(s, r.fs, file)
  /\ OneBlockFiles(s) /\ to <= 1 => OneBlockFiles(r.fs)
  /\ r.ret = OK => \A j \in 0 .. to - 1 : r.fs.itab[file].blocks[j] # NoBlk

\* Allocating the blocks a write needs keeps the file system sound, also when it fails half way.
LEMMA AllocateFromKeeps ==
  ASSUME NEW s, Sound(s), NEW file \in FilesOf(s), Own(s, file),
         NEW from, from = BlocksFor(s.itab[file].size), NEW to \in 0 .. InodeBlocks, from <= to,
         NEW r, r = AllocateFrom(s, file, from, to)
  PROVE  Supplied(s, r, file, to)
<1>0. Formed(s) /\ Backed(s) /\ file \in Itab /\ s \in States
  BY StateType DEF Sound, Formed, FilesOf, InUse
<1>1. from \in 0 .. InodeBlocks /\ \A j \in Nat : j < from => s.itab[file].blocks[j] # NoBlk
  BY <1>0, PagesHeld
<1>2. from \in Nat /\ to \in Nat /\ InodeBlocks \in Nat
  BY <1>1, Constants
<1>3. PICK u : AllocatesUpTo(u, s, file, from, to) /\ r = u[to]
  BY <1>2, AllocateFromIs
<1> DEFINE P(x, n) ==
             /\ x = [fs |-> x.fs, ret |-> x.ret] /\ x.ret \in {OK, Fail}
             /\ FileKept(s, x.fs, file)
             /\ OneBlockFiles(s) /\ to <= 1 => OneBlockFiles(x.fs)
             /\ x.ret = OK => \A j \in 0 .. n - 1 : x.fs.itab[file].blocks[j] # NoBlk
           N == to - from
           T == {m \in 0 .. N : P(u[from + m], from + m)}
<1>4. 0 \in T
  <2>1. u[from] = [fs |-> s, ret |-> OK]
    BY <1>2, <1>3 DEF AllocatesUpTo
  <2>2. FileKept(s, s, file)
    BY RetainsReflexive DEF FileKept
  <2>3. \A j \in 0 .. from - 1 : s.itab[file].blocks[j] # NoBlk
    BY <1>1, <1>2
  <2>4. P([fs |-> s, ret |-> OK], from)
    BY <2>2, <2>3
  <2>5. 0 \in 0 .. N /\ from + 0 = from
    BY <1>2
  <2> HIDE DEF P, N
  <2> QED BY <2>1, <2>4, <2>5
<1>5. ASSUME NEW n \in from + 1 .. to, P(u[n - 1], n - 1) PROVE P(u[n], n)
  <2> DEFINE t == u[n - 1].fs
  <2>1. n - 1 \in 0 .. InodeBlocks - 1 /\ n \in from .. to /\ n # from /\ from <= n - 1 /\ n - 1 \in Nat
    BY <1>2
  <2>2. u[n] = Allocate(u[n - 1], file, n - 1)
    BY <2>1, <1>3 DEF AllocatesUpTo
  <2>3. u[n - 1] = [fs |-> t, ret |-> u[n - 1].ret] /\ FileKept(s, t, file)
        /\ (OneBlockFiles(s) /\ to <= 1 => OneBlockFiles(t))
    BY <1>5
  <2>4. Sound(t) /\ file \in FilesOf(t) /\ Own(t, file) /\ t.itab[file].size = s.itab[file].size
    BY <2>3 DEF FileKept
  <2> SUFFICES ASSUME NEW st, st = t PROVE P(u[n], n)
    OBVIOUS
  <2>5. /\ Allocate([fs |-> st, ret |-> Fail], file, n - 1) = [fs |-> st, ret |-> Fail]
        /\ FreeBlocks(st) = {} => Allocate([fs |-> st, ret |-> OK], file, n - 1) = [fs |-> st, ret |-> Fail]
    BY <2>4, AllocateIs
  <2>6. CASE u[n - 1].ret = Fail \/ FreeBlocks(st) = {}
    <3>1. u[n - 1].ret \in {OK, Fail}
      BY <1>5
    <3>2. u[n] = [fs |-> st, ret |-> Fail]
      <4> HIDE DEF t
      <4>1. u[n - 1] = [fs |-> st, ret |-> u[n - 1].ret]
        BY <2>3
      <4> QED BY <4>1, <2>2, <2>5, <2>6, <3>1
    <3>3. P([fs |-> st, ret |-> Fail], n)
      BY <2>3, Constants
    <3> HIDE DEF P
    <3> QED BY <3>2, <3>3
  <2>7. CASE ~ (u[n - 1].ret = Fail \/ FreeBlocks(st) = {})
    <3>1. PICK v : Took(st, file, n - 1, v) /\ Allocate([fs |-> st, ret |-> OK], file, n - 1) = [fs |-> v, ret |-> OK]
      <4>1. FreeBlocks(st) # {} /\ Sound(st) /\ file \in FilesOf(st)
        BY <2>4, <2>7
      <4> SUFFICES ASSUME NEW k, k = n - 1
                   PROVE  \E v : Took(st, file, k, v) /\ Allocate([fs |-> st, ret |-> OK], file, k) = [fs |-> v, ret |-> OK]
        OBVIOUS
      <4>2. \E v : Took(st, file, k, v) /\ Allocate([fs |-> st, ret |-> OK], file, k) = [fs |-> v, ret |-> OK]
        BY <4>1, AllocateTakes
      <4> QED BY <4>2
    <3>. PICK b \in BlockNos \ st.bused : v = WithBlock(st, file, n - 1, b, st.store[b])
      BY <3>1 DEF Took
    <3>2. u[n - 1] = [fs |-> st, ret |-> OK]
      BY <2>3, <2>7, <1>5
    <3> SUFFICES ASSUME NEW k, k = n - 1 PROVE P(u[n], n)
      OBVIOUS
    <3>0. k = n - 1 /\ k \in 0 .. InodeBlocks - 1
      BY <2>1
    <3>3. u[n] = [fs |-> v, ret |-> OK]
      BY <2>2, <3>1, <3>2
    <3>4. \A j \in 0 .. n - 2 : st.itab[file].blocks[j] # NoBlk
      BY <1>5, <2>7, <2>1
    <3>5. NewBlock(st, v, file, k, b)
      <4>1. st.store[b] \in Pages
        BY <2>4, <3>1, StateType DEF Sound, Formed
      <4>2. \A i \in Positions(st, file) : PageOf(i) # k
        <5>1. \A i \in Positions(st, file) : PageOf(i) < from
          BY <2>4, <1>0, PagesHeld DEF Sound
        <5> QED BY <5>1, <2>1, <1>2
      <4>3. k = 0 \/ st.itab[file].blocks[k - 1] # NoBlk
        <5>1. k # 0 => k - 1 \in 0 .. n - 2
          BY <2>1
        <5> QED BY <5>1, <3>4
      <4> QED BY <4>1, <4>2, <4>3, <2>1, <2>4 DEF NewBlock
    <3>5a. \A i \in Positions(st, file) : PageOf(i) # k
      <4>1. \A i \in Positions(st, file) : PageOf(i) < from
        BY <2>4, <1>0, PagesHeld DEF Sound
      <4> QED BY <4>1, <2>1, <1>2
    <3>6. /\ v.itab[file].type = FILE /\ v.itab[file].size = st.itab[file].size
          /\ \A j \in 0 .. InodeBlocks : v.itab[file].blocks[j] = IF j = k THEN b ELSE st.itab[file].blocks[j]
      <4>1. BlockTables(st, v, file, k, b)
        BY <2>4, <3>5, NewBlockTables
      <4> QED BY <4>1 DEF BlockTables
    <3>7. /\ FileChange(st, v, file) /\ Own(v, file) /\ (Alone(st) => Alone(v))
          /\ OneBlockFiles(st) /\ k = 0 => OneBlockFiles(v)
          /\ \A i \in Positions(st, file) : Entry(v, file, i) = Entry(st, file, i)
      BY <2>4, <3>5, <3>5a, NewBlockKeeps
    <3>8. Sound(v) /\ (FewNames /\ OnePageDirs(st) => OnePageDirs(v)) /\ InUse(v) = InUse(st) /\ FilesOf(v) = FilesOf(st)
      BY <2>4, <3>7, FileChangeKeeps
    <3>9. FileKept(s, v, file)
      <4>1. Retains(st, v, {})
        BY <2>4, <3>6, <3>7, FileChangeRetains
      <4>2. Retains(s, v, {})
        BY <2>3, <4>1, RetainsTransitive DEF FileKept
      <4> QED BY <2>3, <2>4, <3>6, <3>7, <3>8, <4>2 DEF FileKept
    <3>10. OneBlockFiles(s) /\ to <= 1 => OneBlockFiles(v)
      <4>1. to <= 1 => k = 0
        BY <2>1, <1>2
      <4> QED BY <4>1, <2>3, <3>7
    <3>11. \A j \in 0 .. n - 1 : v.itab[file].blocks[j] # NoBlk
      <4> SUFFICES ASSUME NEW j \in 0 .. n - 1 PROVE v.itab[file].blocks[j] # NoBlk
        OBVIOUS
      <4>1. j \in 0 .. InodeBlocks /\ (j = n - 1 \/ j \in 0 .. n - 2)
        BY <2>1, <1>2
      <4>2. b # NoBlk
        BY <2>4, <3>1 DEF Sound, Formed
      <4> QED BY <4>1, <4>2, <3>4, <3>6
    <3>12. P([fs |-> v, ret |-> OK], n)
      BY <3>9, <3>10, <3>11
    <3> HIDE DEF P
    <3> QED BY <3>3, <3>12
  <2> QED BY <2>6, <2>7
<1>6. \A m \in 1 .. N : m - 1 \in T => m \in T
  <2> HIDE DEF P
  <2> SUFFICES ASSUME NEW m \in 1 .. N, m - 1 \in T PROVE m \in T
    OBVIOUS
  <2> SUFFICES ASSUME NEW n, n = from + m PROVE m \in T
    OBVIOUS
  <2>1. m \in 0 .. N /\ n \in from + 1 .. to /\ from + (m - 1) = n - 1
    BY <1>2
  <2>2. P(u[n], n)
    BY <2>1, <1>5
  <2> QED BY <2>1, <2>2
<1>7. N \in T
  <2> HIDE DEF T
  <2>1. N \in Nat /\ N \in 0 .. N
    BY <1>2
  <2> HIDE DEF N
  <2> QED BY <2>1, <1>4, <1>6, BoundedInduction
<1>8. P(u[to], to)
  <2>1. from + N = to
    BY <1>2
  <2> HIDE DEF P, N
  <2> QED BY <2>1, <1>7
<1> QED BY <1>3, <1>8 DEF Supplied

-----------------------------------------------------------------------------
(* Copy on write.                                                           *)

\* One block of copy_inode_write: allocated, then copied.
CopyStep(x, file, chain, k) ==
  LET s == Allocate(x, file, k)
  IN  IF s.ret = Fail THEN s
      ELSE [s EXCEPT !.fs.store[s.fs.itab[file].blocks[k]] = s.fs.store[chain[k]]]

CopiesBlocks(u, s, file, chain) ==
  u = [n \in 0 .. ChainLength(chain) |->
        IF n = 0 THEN [fs |-> s, ret |-> OK] ELSE CopyStep(u[n - 1], file, chain, n - 1)]

\* A shared file has one block, and gets another one with the same content.
LEMMA CopyWriteIs ==
  ASSUME NEW s, Sound(s), NEW file \in InUse(s), FreeBlocks(s) # {}, NEW f \in Sharers(s, file)
  PROVE  \E b \in BlockNos \ s.bused :
           copy_inode_write(s, file, f).fs = WithBlock(s, file, 0, b, s.store[s.itab[file].blocks[0]])
<1>0. f \in FilesOf(s) /\ file \in FilesOf(s) /\ f # file /\ f \in Itab /\ file \in Itab /\ s \in States
  BY SharersAre, StateType DEF FilesOf, InUse, Sound, Formed
<1> DEFINE chain == s.itab[f].blocks
           a == [fs |-> s, ret |-> OK]
<1>1. chain[0] = s.itab[file].blocks[0] /\ chain[0] # NoBlk /\ chain[1] = NoBlk /\ chain[0] \in s.bused /\ chain[0] \in BlockNos
  <2>1. chain[0] = s.itab[file].blocks[0] /\ chain[0] # NoBlk
    BY DEF Sharers
  <2>2. 0 \in 0 .. InodeBlocks /\ f \in InUse(s)
    BY <1>0, Constants DEF FilesOf
  <2>3. chain[1] = NoBlk /\ chain[0] \in s.bused
    BY <1>0, <2>1, <2>2 DEF Sound, Owned
  <2> QED BY <2>1, <2>3, <1>0, <2>2, StateType
<1>2. ChainLength(chain) = 1
  <2>1. ChainLength(chain) \in Nat /\ 0 < ChainLength(chain) /\ ~ (1 < ChainLength(chain))
    <3>1. 0 \in 0 .. InodeBlocks /\ 1 \in 0 .. InodeBlocks
      BY Constants
    <3>2. /\ ChainLength(chain) \in 0 .. InodeBlocks
          /\ \A k \in 0 .. InodeBlocks : chain[k] # NoBlk <=> k < ChainLength(chain)
      BY <1>0, ChainIs DEF Sound
    <3> QED BY <1>1, <3>1, <3>2
  <2> HIDE DEF chain
  <2> QED BY <2>1
<1> DEFINE v == CopyStep(a, file, chain, 0)
           w == [n \in 0 .. 1 |-> IF n = 0 THEN a ELSE v]
           U == CHOOSE h : CopiesBlocks(h, s, file, chain)
<1>3. CopiesBlocks(w, s, file, chain)
  <2>1. w[0] = a /\ w[1] = v
    OBVIOUS
  <2>2. \A n \in 0 .. 1 : w[n] = IF n = 0 THEN a ELSE CopyStep(w[n - 1], file, chain, n - 1)
    <3>1. w[0] = IF 0 = 0 THEN a ELSE CopyStep(w[0 - 1], file, chain, 0 - 1)
      BY <2>1
    <3>2. w[1] = IF 1 = 0 THEN a ELSE CopyStep(w[1 - 1], file, chain, 1 - 1)
      BY <2>1
    <3> HIDE DEF w
    <3> QED BY <3>1, <3>2
  <2>3. w = [n \in 0 .. 1 |-> w[n]]
    OBVIOUS
  <2> HIDE DEF w
  <2> QED BY <2>2, <2>3, <1>2 DEF CopiesBlocks
<1>4. CopiesBlocks(U, s, file, chain)
  <2> HIDE DEF w
  <2> QED BY <1>3
<1>5. copy_inode_write(s, file, f) = U[1]
  <2>1. copy_inode_write(s, file, f) = U[ChainLength(chain)]
    BY DEF copy_inode_write, CopiesBlocks, CopyStep
  <2> HIDE DEF U, chain
  <2> QED BY <2>1, <1>2
<1>6. U[1] = v
  <2> HIDE DEF U, v
  <2>1. U[0] = a
    BY <1>4, <1>2 DEF CopiesBlocks
  <2>2. U[1] = CopyStep(U[1 - 1], file, chain, 1 - 1)
    BY <1>4, <1>2 DEF CopiesBlocks
  <2> QED BY <2>1, <2>2 DEF v
<1>7. PICK t : Took(s, file, 0, t) /\ Allocate(a, file, 0) = [fs |-> t, ret |-> OK]
  <2>1. \E t : Took(s, file, 0, t) /\ Allocate([fs |-> s, ret |-> OK], file, 0) = [fs |-> t, ret |-> OK]
    BY <1>0, AllocateTakes
  <2> QED BY <2>1
<1>8. PICK b \in BlockNos \ s.bused : t = WithBlock(s, file, 0, b, s.store[b])
  BY <1>7 DEF Took
<1>9. t.itab[file].blocks[0] = b /\ t.store = s.store
  <2>1. s.itab \in [Itab -> InodeRecords] /\ s.store \in [BlockNos -> Pages] /\ s.itab[file].blocks \in [0 .. InodeBlocks -> BlockNos]
    BY <1>0, StateType
  <2>2. 0 \in 0 .. InodeBlocks
    BY Constants
  <2> DEFINE B == [s.itab[file].blocks EXCEPT ![0] = b]
             R == [type |-> FILE, size |-> s.itab[file].size, blocks |-> B]
             T == [s.itab EXCEPT ![file] = R]
  <2>3. B[0] = b /\ R.blocks = B /\ T[file] = R
    <3>1. B[0] = b
      BY <2>1, <2>2
    <3>2. R.blocks = B
      OBVIOUS
    <3> HIDE DEF R
    <3> QED BY <3>1, <3>2, <2>1, <1>0
  <2>4. [s.store EXCEPT ![b] = s.store[b]] = s.store
    BY <2>1
  <2>5. t.itab = T /\ t.store = s.store
    BY <1>8, <2>4 DEF WithBlock
  <2> HIDE DEF B, R, T
  <2> QED BY <2>3, <2>5
<1>10. v = [fs |-> [t EXCEPT !.store[b] = s.store[chain[0]]], ret |-> OK]
  <2> DEFINE y == [fs |-> t, ret |-> OK]
  <2>1. Allocate(a, file, 0) = y /\ y.ret = OK /\ y.fs = t
    BY <1>7
  <2>2. v = [y EXCEPT !.fs.store[t.itab[file].blocks[0]] = t.store[chain[0]]]
    <3> HIDE DEF y, a
    <3> QED BY <2>1, Constants DEF CopyStep
  <2>3. v = [y EXCEPT !.fs.store[b] = s.store[chain[0]]]
    <3> HIDE DEF v, y, chain, a
    <3> QED BY <2>2, <1>9
  <2> HIDE DEF v, chain
  <2> QED BY <2>3
<1>11. [t EXCEPT !.store[b] = s.store[chain[0]]] = WithBlock(s, file, 0, b, s.store[chain[0]])
  <2> DEFINE page == s.store[chain[0]]
             I == s.iused
             B == s.bused \cup {b}
             T == [s.itab EXCEPT ![file] = [type |-> FILE, size |-> s.itab[file].size,
                                       blocks |-> [s.itab[file].blocks EXCEPT ![0] = b]]]
             W == [s.store EXCEPT ![b] = s.store[b]]
             W1 == [W EXCEPT ![b] = page]
  <2>1. W = s.store
    BY <1>0, StateType
  <2>2. t = [iused |-> I, bused |-> B, itab |-> T, store |-> W]
    BY <1>8 DEF WithBlock
  <2>3. WithBlock(s, file, 0, b, page) = [iused |-> I, bused |-> B, itab |-> T, store |-> W1]
    <3>1. W1 = [s.store EXCEPT ![b] = page]
      <4> HIDE DEF W
      <4> QED BY <2>1
    <3> HIDE DEF W1
    <3> QED BY <3>1 DEF WithBlock
  <2>4. [t EXCEPT !.store = W1] = [iused |-> I, bused |-> B, itab |-> T, store |-> W1]
    <3> HIDE DEF I, B, T, W, W1
    <3> QED BY <2>2
  <2>5. [t EXCEPT !.store[b] = page] = [t EXCEPT !.store = W1]
    <3>1. t.store = W
      BY <2>2
    <3> HIDE DEF W, page
    <3> QED BY <3>1
  <2> HIDE DEF page, I, B, T, W, W1
  <2> QED BY <2>3, <2>4, <2>5 DEF page
<1>12. copy_inode_write(s, file, f).fs = WithBlock(s, file, 0, b, s.store[chain[0]])
  <2> DEFINE z == [t EXCEPT !.store[b] = s.store[chain[0]]]
  <2>1. copy_inode_write(s, file, f) = [fs |-> z, ret |-> OK]
    BY <1>5, <1>6, <1>10
  <2> HIDE DEF z
  <2>2. copy_inode_write(s, file, f).fs = z
    BY <2>1
  <2> QED BY <2>2, <1>11 DEF z
<1> QED BY <1>1, <1>8, <1>12

\* fs_write starts from a state in which the file has blocks of its own.
LEMMA OwnKeeps ==
  ASSUME NEW s, Sound(s), NEW file \in FilesOf(s), Alone(s) \/ FreeBlocks(s) # {},
         NEW own, own = IF Sharers(s, file) = {} THEN s
                        ELSE copy_inode_write(s, file, LeastOf(Sharers(s, file))).fs
  PROVE  FileKept(s, own, file) /\ (OneBlockFiles(s) => OneBlockFiles(own))
<1>0. file \in InUse(s) /\ file \in Itab /\ s \in States
  BY StateType DEF FilesOf, InUse, Sound, Formed
<1>1. CASE Sharers(s, file) = {}
  <2>1. own = s /\ Own(s, file)
    BY <1>0, <1>1, SharersAre
  <2> QED BY <2>1, RetainsReflexive DEF FileKept
<1>2. CASE Sharers(s, file) # {}
  <2>1. FreeBlocks(s) # {}
    BY <1>0, <1>2, SharersAre
  <2>2. LeastOf(Sharers(s, file)) \in Sharers(s, file)
    <3>1. Sharers(s, file) \subseteq Nat
      BY Constants DEF Sharers
    <3> QED BY <3>1, <1>2, LeastNumber
  <2>3. PICK b \in BlockNos \ s.bused : own = WithBlock(s, file, 0, b, s.store[s.itab[file].blocks[0]])
    BY <1>0, <1>2, <2>1, <2>2, CopyWriteIs
  <2>4. s.itab[file].blocks[0] \in BlockNos
    <3>1. 0 \in 0 .. InodeBlocks
      BY Constants
    <3> QED BY <1>0, <3>1, StateType
  <2>5. NewBlock(s, own, file, 0, b)
    <3> DEFINE page == s.store[s.itab[file].blocks[0]]
    <3>1. page \in Pages /\ 0 \in 0 .. InodeBlocks - 1
      BY <1>0, <2>4, StateType, Constants
    <3>2. \A i \in Positions(s, file) : PageOf(i) = 0 => page[CellOf(i)].name \in Data
      BY DEF Sound, Filled, Entry
    <3> HIDE DEF page
    <3> QED BY <2>3, <3>1, <3>2 DEF NewBlock, page
  <2>6. BlockTables(s, own, file, 0, b)
    BY <2>5, NewBlockTables
  <2>7. /\ FileChange(s, own, file) /\ Own(own, file) /\ (Alone(s) => Alone(own))
        /\ OneBlockFiles(s) => OneBlockFiles(own)
        /\ \A i \in Positions(s, file) : PageOf(i) # 0 => Entry(own, file, i) = Entry(s, file, i)
    BY <2>5, NewBlockKeeps
  <2>8. Sound(own) /\ (FewNames /\ OnePageDirs(s) => OnePageDirs(own)) /\ InUse(own) = InUse(s) /\ FilesOf(own) = FilesOf(s)
    BY <2>7, FileChangeKeeps
  <2>9. ASSUME NEW i \in Positions(s, file), PageOf(i) = 0 PROVE Entry(own, file, i) = Entry(s, file, i)
    <3> DEFINE page == s.store[s.itab[file].blocks[0]]
    <3>1. own.itab[file].blocks[0] = b
      BY <2>6, Constants DEF BlockTables
    <3>2. own.store[b] = page
      <4>1. own.store = [s.store EXCEPT ![b] = page]
        BY <2>3 DEF WithBlock
      <4>2. s.store \in [BlockNos -> Pages]
        BY <1>0, StateType
      <4> HIDE DEF page
      <4> QED BY <4>1, <4>2
    <3> QED BY <2>9, <3>1, <3>2 DEF Entry
  <2>10. own.itab[file].size = s.itab[file].size
    BY <2>6 DEF BlockTables
  <2>11. Retains(s, own, {})
    BY <2>7, <2>9, <2>10, FileChangeRetains
  <2> QED BY <2>6, <2>7, <2>8, <2>11 DEF FileKept, BlockTables
<1> QED BY <1>1, <1>2

-----------------------------------------------------------------------------
(* Writing, once the file has the blocks.                                   *)

\* The pages and their contents that a write of data at off computes.
WSpan(off, data) == PageOf(off) .. BlocksFor(off + Len(data)) - 1

WPage(g, file, off, data, used, p) ==
  [k \in 0 .. PageSize - 1 |->
    LET i == p * PageSize + k - off
    IN  IF i \in 0 .. Len(data) - 1 THEN [name |-> data[i + 1], ino |-> 0]
        ELSE IF p < used THEN g.store[g.itab[file].blocks[p]][k] ELSE ZeroCell]

WPos(blk, span, b) == CHOOSE p \in span : blk[p] = b /\ \A q \in span : blk[q] = b => q <= p

WStore(g, file, off, data, used) ==
  LET blk == g.itab[file].blocks
      span == WSpan(off, data)
  IN  [b \in BlockNos |-> IF Len(data) > 0 /\ \E p \in span : blk[p] = b
                          THEN WPage(g, file, off, data, used, WPos(blk, span, b)) ELSE g.store[b]]

Written(g, file, off, data, used) ==
  [iused |-> g.iused, bused |-> g.bused,
   itab  |-> [g.itab EXCEPT ![file] = [type   |-> FILE,
                                       size   |-> MaxOf(off + Len(data), g.itab[file].size),
                                       blocks |-> g.itab[file].blocks]],
   store |-> WStore(g, file, off, data, used)]

\* The file has blocks of its own for all that is written.
Writing(g, file, off, data) ==
  /\ Sound(g) /\ file \in FilesOf(g) /\ Own(g, file)
  /\ off \in Nat /\ off <= g.itab[file].size /\ data \in Seq(Data)
  /\ BlocksFor(off + Len(data)) <= InodeBlocks
  /\ \A j \in Nat : j < BlocksFor(off + Len(data)) => g.itab[file].blocks[j] # NoBlk

\* The pages a write touches have blocks, each once and no other object's.
LEMMA SpanIs ==
  ASSUME NEW g, NEW file, NEW off, NEW data, Writing(g, file, off, data)
  PROVE  /\ WSpan(off, data) \subseteq 0 .. InodeBlocks - 1
         /\ \A p \in WSpan(off, data) :
              /\ g.itab[file].blocks[p] \in BlockNos \ {NoBlk}
              /\ WPos(g.itab[file].blocks, WSpan(off, data), g.itab[file].blocks[p]) = p
         /\ \A p \in WSpan(off, data), h \in InUse(g) \ {file}, j \in 0 .. InodeBlocks :
              g.itab[h].blocks[j] # g.itab[file].blocks[p]
<1> DEFINE blk == g.itab[file].blocks
           span == WSpan(off, data)
           end == BlocksFor(off + Len(data))
<1>0. /\ Sound(g) /\ Formed(g) /\ Owned(g) /\ g \in States /\ file \in InUse(g) /\ file \in Itab
      /\ off \in Nat /\ data \in Seq(Data) /\ end <= InodeBlocks
      /\ \A j \in Nat : j < end => blk[j] # NoBlk
  BY StateType DEF Writing, Sound, Formed, FilesOf, InUse
<1>1. end \in Nat /\ PageOf(off) \in Nat
  <2>1. off + Len(data) \in Nat
    BY <1>0
  <2> QED BY <1>0, <2>1, BlocksForIs, Division
<1> HIDE DEF end
<1>2. span \subseteq 0 .. InodeBlocks - 1 /\ \A p \in span : p \in Nat /\ p < end
  BY <1>0, <1>1, Constants DEF WSpan, end
<1>3. \A p \in span : blk[p] \in BlockNos \ {NoBlk} /\ p \in 0 .. InodeBlocks
  <2> SUFFICES ASSUME NEW p \in span PROVE blk[p] \in BlockNos \ {NoBlk} /\ p \in 0 .. InodeBlocks
    OBVIOUS
  <2>1. p \in 0 .. InodeBlocks /\ p \in Nat /\ p < end
    BY <1>2, Constants
  <2>2. blk[p] \in BlockNos
    BY <1>0, <2>1, StateType
  <2> QED BY <1>0, <2>1, <2>2
<1>4. \A p, q \in span : blk[p] = blk[q] => p = q
  BY <1>0, <1>3 DEF Owned
<1>5. ASSUME NEW p \in span PROVE WPos(blk, span, blk[p]) = p
  <2> DEFINE Last(x) == blk[x] = blk[p] /\ \A q \in span : blk[q] = blk[p] => q <= x
  <2>1. Last(p)
    BY <1>2, <1>4
  <2>2. \A x \in span : Last(x) => x = p
    BY <1>4
  <2>3. WPos(blk, span, blk[p]) = CHOOSE x \in span : Last(x)
    BY DEF WPos
  <2> HIDE DEF Last
  <2> QED BY <2>1, <2>2, <2>3
<1>6. ASSUME NEW p \in span, NEW h \in InUse(g) \ {file}, NEW j \in 0 .. InodeBlocks, g.itab[h].blocks[j] = blk[p]
      PROVE  FALSE
  <2>1. p = 0 /\ j = 0
    BY <1>0, <1>3, <1>6 DEF Owned
  <2> QED BY <1>3, <1>6, <2>1 DEF Writing, Own
<1> QED BY <1>2, <1>3, <1>5, <1>6

\* What the write has done.
WriteTables(g, t, file, off, data, used) ==
  /\ t \in States /\ t.iused = g.iused /\ t.bused = g.bused
  /\ \A h \in Itab \ {file} : t.itab[h] = g.itab[h]
  /\ t.itab[file].type = FILE /\ t.itab[file].size = MaxOf(off + Len(data), g.itab[file].size)
  /\ t.itab[file].blocks = g.itab[file].blocks
  /\ \A b \in BlockNos : (\A p \in WSpan(off, data) : g.itab[file].blocks[p] # b) => t.store[b] = g.store[b]
  /\ Len(data) = 0 => t.store = g.store
  /\ Len(data) > 0 =>
       \A p \in WSpan(off, data) : t.store[g.itab[file].blocks[p]] = WPage(g, file, off, data, used, p)

\* What a write changes.
LEMMA WriteTablesHold ==
  ASSUME NEW g, NEW file, NEW off, NEW data, Writing(g, file, off, data),
         NEW used, used = BlocksFor(g.itab[file].size), NEW t, t = Written(g, file, off, data, used)
  PROVE  WriteTables(g, t, file, off, data, used)
<1> DEFINE blk == g.itab[file].blocks
           span == WSpan(off, data)
           z == MaxOf(off + Len(data), g.itab[file].size)
           R == [type |-> FILE, size |-> z, blocks |-> blk]
           T == [g.itab EXCEPT ![file] = R]
           W == WStore(g, file, off, data, used)
<1>0. /\ Sound(g) /\ Formed(g) /\ g \in States /\ file \in Itab
      /\ off \in Nat /\ data \in Seq(Data) /\ Len(data) \in Nat
  BY StateType DEF Writing, Sound, Formed, FilesOf, InUse
<1>1. /\ g.itab \in [Itab -> InodeRecords] /\ g.store \in [BlockNos -> Pages]
      /\ blk \in [0 .. InodeBlocks -> BlockNos] /\ g.iused \subseteq Itab /\ g.bused \subseteq BlockNos
      /\ g.itab[file].size \in Nat /\ g.itab[file].size <= InodeBlocks * PageSize
  BY <1>0, StateType
<1>2. z \in 0 .. InodeBlocks * PageSize
  <2> DEFINE m == PageSize * InodeBlocks
             n == off + Len(data)
  <2>1. n \in Nat /\ InodeBlocks \in Nat
    BY <1>0, Constants
  <2>2. BlocksFor(n) <= InodeBlocks
    BY DEF Writing
  <2>3. n <= m
    <3> HIDE DEF n
    <3> QED BY <2>1, <2>2, BlocksForIs
  <2>4. m \in Nat /\ InodeBlocks * PageSize = m
    BY Constants
  <2> HIDE DEF m, n
  <2>5. z = MaxOf(n, g.itab[file].size)
    BY DEF n
  <2> HIDE DEF z
  <2>6. z \in 0 .. m
    BY <1>1, <2>1, <2>3, <2>4, <2>5 DEF MaxOf
  <2> QED BY <2>4, <2>6
<1> HIDE DEF z
<1>3. R \in InodeRecords /\ R.type = FILE /\ R.size = z /\ R.blocks = blk
  BY <1>1, <1>2 DEF InodeRecords
<1> HIDE DEF R
<1>4. T \in [Itab -> InodeRecords] /\ T[file] = R /\ \A h \in Itab \ {file} : T[h] = g.itab[h]
  BY <1>0, <1>1, <1>3
<1>5. \A p \in span : WPage(g, file, off, data, used, p) \in Pages
  <2> SUFFICES ASSUME NEW p \in span, NEW k \in 0 .. PageSize - 1, NEW i, i = p * PageSize + k - off
               PROVE  (IF i \in 0 .. Len(data) - 1 THEN [name |-> data[i + 1], ino |-> 0]
                       ELSE IF p < used THEN g.store[blk[p]][k] ELSE ZeroCell) \in Cells
    BY DEF WPage, Pages
  <2>1. ZeroCell \in Cells
    BY Constants DEF ZeroCell, Cells
  <2>2. i \in 0 .. Len(data) - 1 => [name |-> data[i + 1], ino |-> 0] \in Cells
    <3> SUFFICES ASSUME i \in 0 .. Len(data) - 1 PROVE [name |-> data[i + 1], ino |-> 0] \in Cells
      OBVIOUS
    <3>1. data[i + 1] \in Data
      <4>1. i + 1 \in 1 .. Len(data)
        BY <1>0
      <4> QED BY <1>0, <4>1
    <3> QED BY <3>1, Constants DEF Cells
  <2>3. g.store[blk[p]][k] \in Cells
    <3>1. blk[p] \in BlockNos
      BY SpanIs
    <3> QED BY <3>1, <1>0, StateType
  <2> QED BY <2>1, <2>2, <2>3
<1>6. \A b \in BlockNos :
        W[b] = IF Len(data) > 0 /\ \E p \in span : blk[p] = b
               THEN WPage(g, file, off, data, used, WPos(blk, span, b)) ELSE g.store[b]
  BY DEF WStore
<1>7. \A p \in span : blk[p] \in BlockNos /\ WPos(blk, span, blk[p]) = p
  BY SpanIs
<1>8. W \in [BlockNos -> Pages]
  <2>1. \A b \in BlockNos : W[b] \in Pages
    <3> HIDE DEF W, blk, span
    <3> QED BY <1>1, <1>5, <1>6, <1>7
  <2>2. W = [b \in BlockNos |-> W[b]]
    BY DEF WStore
  <2> HIDE DEF W
  <2> QED BY <2>1, <2>2
<1>9. t = [iused |-> g.iused, bused |-> g.bused, itab |-> T, store |-> W]
  BY DEF Written, T, R, W, z
<1> HIDE DEF T, W
<1>10. t \in States /\ t.iused = g.iused /\ t.bused = g.bused /\ t.itab = T /\ t.store = W
  BY <1>1, <1>4, <1>8, <1>9 DEF States
<1>11. Len(data) = 0 => t.store = g.store
  <2>1. Len(data) = 0 => \A b \in BlockNos : W[b] = g.store[b]
    BY <1>6
  <2> QED BY <2>1, <1>1, <1>8, <1>10
<1>12. Len(data) > 0 => \A p \in span : t.store[blk[p]] = WPage(g, file, off, data, used, p)
  <2> HIDE DEF blk, span
  <2> QED BY <1>6, <1>7, <1>10
<1>13. \A b \in BlockNos : (\A p \in span : blk[p] # b) => t.store[b] = g.store[b]
  <2> HIDE DEF blk, span
  <2> QED BY <1>6, <1>10
<1>14. /\ \A h \in Itab \ {file} : t.itab[h] = g.itab[h]
       /\ t.itab[file].type = FILE /\ t.itab[file].size = z /\ t.itab[file].blocks = blk
  BY <1>3, <1>4, <1>10
<1> QED BY <1>10, <1>11, <1>12, <1>13, <1>14 DEF WriteTables, z

\* What is in a position after the write.
LEMMA WrittenEntry ==
  ASSUME NEW g, NEW file, NEW off, NEW data, Writing(g, file, off, data),
         NEW used, used = BlocksFor(g.itab[file].size), NEW t, WriteTables(g, t, file, off, data, used),
         NEW i \in Positions(t, file)
  PROVE  /\ t.itab[file].blocks[PageOf(i)] # NoBlk /\ Entry(t, file, i).name \in Data
         /\ i - off \in 0 .. Len(data) - 1 => Entry(t, file, i).name = data[i - off + 1]
         /\ i - off \notin 0 .. Len(data) - 1 => i < g.itab[file].size /\ Entry(t, file, i) = Entry(g, file, i)
<1> DEFINE blk == g.itab[file].blocks
           span == WSpan(off, data)
           count == Len(data)
           end == BlocksFor(off + count)
           size == g.itab[file].size
           p == PageOf(i)
           c == CellOf(i)
<1>0. /\ Sound(g) /\ Formed(g) /\ Backed(g) /\ Filled(g) /\ g \in States /\ file \in FilesOf(g) /\ file \in Itab
      /\ off \in Nat /\ off <= size /\ data \in Seq(Data) /\ count \in Nat /\ size \in Nat
  BY StateType, SMTT(40) DEF Writing, Sound, Formed, FilesOf, InUse
<1>1. i \in Nat /\ (i < off + count \/ i < size)
  BY <1>0 DEF WriteTables, Positions, MaxOf
<1>2. p \in Nat /\ c \in 0 .. PageSize - 1 /\ i = PageSize * p + c /\ PageSize * p \in Nat
  <2>1. p \in Nat /\ c \in 0 .. PageSize - 1 /\ i = PageSize * p + c
    BY <1>1, Division
  <2> HIDE DEF p, c
  <2> QED BY <2>1, Constants
<1>3. i < off + count => p < end
  <2>1. off + count \in Nat
    BY <1>0
  <2> QED BY <1>1, <2>1, BlocksForIs
<1>4. i < size => p < used
  BY <1>0, <1>1, BlocksForIs
<1>5. end \in Nat /\ used \in Nat
  <2>1. off + count \in Nat
    BY <1>0
  <2> QED BY <1>0, <2>1, BlocksForIs
<1>6. i < size => i \in Positions(g, file) /\ blk[p] # NoBlk /\ Entry(g, file, i).name \in Data
  <2>1. i < size => i \in Positions(g, file)
    BY <1>0, <1>1 DEF Positions
  <2> QED BY <2>1, <1>0 DEF Backed, Filled
<1>7. blk[p] # NoBlk
  BY <1>1, <1>2, <1>3, <1>6 DEF Writing
<1>8. t.itab[file].blocks = blk
  BY DEF WriteTables
<1>9. Entry(t, file, i) = t.store[blk[p]][c] /\ Entry(g, file, i) = g.store[blk[p]][c]
  BY <1>8 DEF Entry
<1>10. i < size => blk[p] \in BlockNos
  BY <1>0, <1>6, PositionIs
<1> SUFFICES /\ t.store[blk[p]][c].name \in Data
             /\ i - off \in 0 .. count - 1 => t.store[blk[p]][c].name = data[i - off + 1]
             /\ i - off \notin 0 .. count - 1 => i < size /\ t.store[blk[p]][c] = g.store[blk[p]][c]
  BY <1>7, <1>8, <1>9
<1>11. CASE count > 0 /\ p \in span
  <2>1. t.store[blk[p]] = WPage(g, file, off, data, used, p)
    BY <1>11 DEF WriteTables
  <2>2. p * PageSize + c - off = i - off
    <3> HIDE DEF p, c, size, count
    <3>1. p * PageSize = PageSize * p /\ off \in Nat
      BY <1>0, <1>2, Constants
    <3> QED BY <3>1, <1>2, <1>1
  <2>3. t.store[blk[p]][c] = IF i - off \in 0 .. count - 1 THEN [name |-> data[i - off + 1], ino |-> 0]
                             ELSE IF p < used THEN g.store[blk[p]][c] ELSE ZeroCell
    <3> HIDE DEF p, c, count
    <3> QED BY <2>1, <2>2, <1>2 DEF WPage, count
  <2>4. CASE i - off \in 0 .. count - 1
    <3>1. data[i - off + 1] \in Data
      <4>1. i - off + 1 \in 1 .. count
        BY <2>4, <1>0, <1>1
      <4> QED BY <4>1, <1>0
    <3> HIDE DEF p, c
    <3> QED BY <2>3, <2>4, <3>1
  <2>5. CASE ~ (i - off \in 0 .. count - 1)
    <3>1. i < size
      BY <2>5, <1>0, <1>1
    <3> HIDE DEF p, c, size
    <3> QED BY <2>3, <2>5, <3>1, <1>4, <1>6, <1>9
  <2> QED BY <2>4, <2>5
<1>12. CASE ~ (count > 0 /\ p \in span)
  <2>1. i < size /\ i - off \notin 0 .. count - 1
    <3>1. CASE count = 0
      BY <3>1, <1>0, <1>1
    <3>2. CASE count > 0 /\ p \notin span
      <4>1. PageOf(off) \in Nat
        BY <1>0, Division
      <4>2. p < PageOf(off) \/ p >= end
        <5> HIDE DEF p, end
        <5> QED BY <3>2, <4>1, <1>2, <1>5 DEF WSpan, end
      <4>3. p < PageOf(off) => i < off
        <5> SUFFICES ASSUME off <= i PROVE PageOf(off) <= p
          <6> HIDE DEF p
          <6> QED BY <4>1, <1>0, <1>1, <1>2
        <5> QED BY <1>0, <1>1, DivisionMonotone
      <4>4. p >= end => ~ (i < off + count)
        <5> HIDE DEF p, end, count
        <5> QED BY <1>2, <1>3, <1>5
      <4> HIDE DEF p, end, count, size
      <4> QED BY <4>2, <4>3, <4>4, <1>0, <1>1
    <3> QED BY <3>1, <3>2, <1>0, <1>12
  <2>2. t.store[blk[p]] = g.store[blk[p]]
    <3>1. CASE count = 0
      BY <3>1 DEF WriteTables
    <3>2. CASE count > 0
      <4>1. p \notin span /\ blk[p] \in BlockNos /\ blk[p] # NoBlk /\ p \in 0 .. InodeBlocks
        BY <1>6, <1>10, <1>12, <2>1, <3>2, <1>0, PositionIs, Constants
      <4>2. \A q \in span : q \in 0 .. InodeBlocks
        BY SpanIs, Constants
      <4>3. \A q \in span : blk[q] # blk[p]
        <5> SUFFICES ASSUME NEW q \in span, blk[q] = blk[p] PROVE FALSE
          OBVIOUS
        <5>1. q = p
          BY <4>1, <4>2, <1>0 DEF Sound, Owned, FilesOf
        <5> QED BY <4>1, <5>1
      <4> HIDE DEF blk, span, p
      <4> QED BY <4>1, <4>3 DEF WriteTables, blk, span
    <3> QED BY <3>1, <3>2, <1>0
  <2> HIDE DEF blk, p, c, size, count
  <2> QED BY <2>1, <2>2, <1>6, <1>9
<1> QED BY <1>11, <1>12

\* The sequence c with data in it after the first off elements.
Splice(c, off, data) ==
  [i \in 1 .. MaxOf(off + Len(data), Len(c)) |-> IF i - off \in 1 .. Len(data) THEN data[i - off] ELSE c[i]]

\* The data are in the content of the file after the write, and the rest is
\* what it was.
LEMMA WrittenContent ==
  ASSUME NEW g, NEW file, NEW off, NEW data, Writing(g, file, off, data),
         NEW used, used = BlocksFor(g.itab[file].size), NEW t, WriteTables(g, t, file, off, data, used)
  PROVE  Content(t, file) = Splice(Content(g, file), off, data)
<1> DEFINE size == g.itab[file].size
           new == t.itab[file].size
           c == Content(g, file)
<1>0. size \in Nat /\ off \in Nat /\ off <= size /\ data \in Seq(Data) /\ Len(data) \in Nat
  <2>1. Sound(g) /\ file \in FilesOf(g) /\ off \in Nat /\ off <= size /\ data \in Seq(Data)
    BY DEF Writing
  <2>2. g \in States /\ file \in Itab
    BY <2>1, StateType DEF Sound, Formed, FilesOf, InUse
  <2>3. size \in Nat
    BY <2>2, StateType
  <2> QED BY <2>1, <2>3
<1>1. new = MaxOf(off + Len(data), size) /\ new \in Nat
  <2>1. new = MaxOf(off + Len(data), size)
    BY DEF WriteTables
  <2> HIDE DEF new, size
  <2> QED BY <2>1, <1>0 DEF MaxOf
<1>2. c = [i \in 1 .. size |-> Entry(g, file, i - 1).name] /\ Len(c) = size
  <2>1. c = [i \in 1 .. size |-> Entry(g, file, i - 1).name]
    BY DEF Content
  <2> HIDE DEF size, c
  <2> QED BY <2>1, <1>0
<1>3. Content(t, file) = [i \in 1 .. new |-> Entry(t, file, i - 1).name]
  BY DEF Content
<1>4. ASSUME NEW i \in 1 .. new
      PROVE  Entry(t, file, i - 1).name = IF i - off \in 1 .. Len(data) THEN data[i - off] ELSE c[i]
  <2>1. i - 1 \in Positions(t, file)
    BY <1>1 DEF Positions
  <2>2. /\ i - 1 - off \in 0 .. Len(data) - 1 => Entry(t, file, i - 1).name = data[i - 1 - off + 1]
        /\ i - 1 - off \notin 0 .. Len(data) - 1 =>
             i - 1 < size /\ Entry(t, file, i - 1) = Entry(g, file, i - 1)
    BY <2>1, WrittenEntry
  <2> HIDE DEF size, c, new
  <2>3. i - 1 - off \in 0 .. Len(data) - 1 <=> i - off \in 1 .. Len(data)
    BY <1>0, <1>1
  <2>4. i - 1 - off + 1 = i - off
    BY <1>0, <1>1
  <2>5. CASE i - off \in 1 .. Len(data)
    BY <2>2, <2>3, <2>4, <2>5
  <2>6. CASE i - off \notin 1 .. Len(data)
    <3>1. i \in 1 .. size /\ Entry(t, file, i - 1) = Entry(g, file, i - 1)
      BY <2>2, <2>3, <2>6, <1>0, <1>1
    <3> QED BY <3>1, <2>6, <1>2
  <2> QED BY <2>5, <2>6
<1> HIDE DEF size, c, new
<1> QED BY <1>1, <1>2, <1>3, <1>4 DEF Splice, c

\* From g to t the data are put into the content of one file.
Overwrites(g, t, file, off, data) ==
  /\ InUse(t) = InUse(g) /\ Retains(g, t, {file})
  /\ Content(t, file) = Splice(Content(g, file), off, data)

\* A write to blocks of its own keeps the file system sound.
LEMMA WrittenKeeps ==
  ASSUME NEW g, NEW file, NEW off, NEW data, Writing(g, file, off, data),
         NEW used, used = BlocksFor(g.itab[file].size), NEW t, t = Written(g, file, off, data, used)
  PROVE  /\ Sound(t)
         /\ OneBlockFiles(g) => OneBlockFiles(t)
         /\ FewNames /\ OnePageDirs(g) => OnePageDirs(t)
         /\ Alone(g) => Alone(t)
         /\ Overwrites(g, t, file, off, data)
<1>0. /\ Sound(g) /\ Formed(g) /\ Backed(g) /\ Owned(g) /\ g \in States /\ file \in FilesOf(g) /\ file \in InUse(g) /\ file \in Itab
  BY StateType DEF Writing, Sound, Formed, FilesOf, InUse
<1>1. WriteTables(g, t, file, off, data, used)
  BY WriteTablesHold
<1>2. /\ t \in States /\ t.iused = g.iused /\ t.bused = g.bused
      /\ \A h \in Itab \ {file} : t.itab[h] = g.itab[h]
      /\ t.itab[file].type = FILE /\ t.itab[file].blocks = g.itab[file].blocks
      /\ \A b \in BlockNos : (\A p \in WSpan(off, data) : g.itab[file].blocks[p] # b) => t.store[b] = g.store[b]
  BY <1>1 DEF WriteTables
<1>3. InUse(t) = InUse(g) /\ InUse(g) \subseteq Itab /\ FilesOf(t) = FilesOf(g)
  <2>1. InUse(t) = InUse(g)
    BY <1>2 DEF InUse
  <2>2. InUse(g) \subseteq Itab
    BY <1>0, StateType DEF InUse
  <2>3. \A h \in InUse(g) : t.itab[h].type = FILE <=> g.itab[h].type = FILE
    BY <1>0, <1>2, <2>2 DEF FilesOf
  <2> QED BY <2>1, <2>2, <2>3 DEF FilesOf
<1>4. \A h \in InUse(g) : t.itab[h].blocks = g.itab[h].blocks
  BY <1>2, <1>3
<1>5. BlocksOfOwn(t, file)
  <2>1. ASSUME NEW i \in 0 .. InodeBlocks PROVE t.itab[file].blocks[i] \in t.bused
    BY <1>0, <1>2 DEF Owned
  <2>2. ASSUME NEW i \in 0 .. InodeBlocks, NEW h \in InUse(t), NEW j \in 0 .. InodeBlocks,
               t.itab[file].blocks[i] # NoBlk, t.itab[file].blocks[i] = t.itab[h].blocks[j]
        PROVE  \/ file = h /\ i = j
               \/ /\ i = 0 /\ j = 0 /\ h \in FilesOf(t)
                  /\ t.itab[file].blocks[1] = NoBlk /\ t.itab[h].blocks[1] = NoBlk
    <3>1. h \in InUse(g) /\ t.itab[file].blocks = g.itab[file].blocks /\ t.itab[h].blocks = g.itab[h].blocks
      BY <1>0, <1>3, <1>4
    <3>2. \/ file = h /\ i = j
          \/ /\ i = 0 /\ j = 0 /\ h \in FilesOf(g)
             /\ g.itab[file].blocks[1] = NoBlk /\ g.itab[h].blocks[1] = NoBlk
      BY <1>0, <2>2, <3>1 DEF Owned
    <3> QED BY <3>1, <3>2, <1>3
  <2> QED BY <2>1, <2>2 DEF BlocksOfOwn
<1>6. \A h \in InUse(g) \ {file}, k \in 0 .. InodeBlocks :
        g.itab[h].blocks[k] # NoBlk => t.store[g.itab[h].blocks[k]] = g.store[g.itab[h].blocks[k]]
  <2> SUFFICES ASSUME NEW h \in InUse(g) \ {file}, NEW k \in 0 .. InodeBlocks
               PROVE  t.store[g.itab[h].blocks[k]] = g.store[g.itab[h].blocks[k]]
    OBVIOUS
  <2>1. g.itab[h].blocks[k] \in BlockNos
    BY <1>0, <1>3, StateType
  <2>2. \A p \in WSpan(off, data) : g.itab[file].blocks[p] # g.itab[h].blocks[k]
    BY SpanIs
  <2> QED BY <2>1, <2>2, <1>2
<1>7. /\ t.itab[file].blocks[InodeBlocks] = NoBlk
      /\ \A k \in 0 .. InodeBlocks - 1 : t.itab[file].blocks[k] = NoBlk => t.itab[file].blocks[k + 1] = NoBlk
  BY <1>0, <1>2 DEF Backed
<1>8. \A i \in Positions(t, file) : t.itab[file].blocks[PageOf(i)] # NoBlk /\ Entry(t, file, i).name \in Data
  BY <1>1, WrittenEntry
<1>9. FileChange(g, t, file)
  BY <1>0, <1>2, <1>5, <1>6, <1>7, <1>8 DEF FileChange
<1>10. Sound(t) /\ (FewNames /\ OnePageDirs(g) => OnePageDirs(t))
  BY <1>0, <1>9, FileChangeKeeps
<1>11. OneBlockFiles(g) => OneBlockFiles(t)
  <2>1. FilesOf(g) \subseteq InUse(g)
    BY DEF FilesOf
  <2> QED BY <1>3, <1>4, <2>1 DEF OneBlockFiles
<1>12. Alone(g) => Alone(t)
  <2> SUFFICES ASSUME Alone(g), NEW f \in InUse(g), NEW h \in InUse(g), t.itab[f].blocks[0] # NoBlk,
                      t.itab[f].blocks[0] = t.itab[h].blocks[0]
               PROVE  f = h
    BY <1>3 DEF Alone
  <2>1. t.itab[f].blocks = g.itab[f].blocks /\ t.itab[h].blocks = g.itab[h].blocks
    BY <1>4
  <2> QED BY <2>1 DEF Alone
<1>13. Retains(g, t, {file})
  BY <1>0, <1>9, FileChangeRetains
<1>14. Content(t, file) = Splice(Content(g, file), off, data)
  BY <1>1, WrittenContent
<1>15. Overwrites(g, t, file, off, data)
  BY <1>3, <1>13, <1>14 DEF Overwrites
<1> QED BY <1>10, <1>11, <1>12, <1>15

\* What fs_write computes: the state with blocks of its own for the file, the
\* one with new blocks too, the one written, and the answer.
OwnFor(s, file) ==
  IF Sharers(s, file) = {} THEN s ELSE copy_inode_write(s, file, LeastOf(Sharers(s, file))).fs

\* The parts of fs_write: allocation, store, answer.
GotFor(own, file, off, data) ==
  LET used == BlocksFor(own.itab[file].size)
  IN  AllocateFrom(own, file, used, used + (MaxOf(BlocksFor(off + Len(data)), used) - used))

StoredFor(got, file, off, data, used, size) ==
  [got EXCEPT
    !.store = [b \in BlockNos |->
                IF Len(data) > 0 /\ \E p \in WSpan(off, data) : got.itab[file].blocks[p] = b
                THEN WPage(got, file, off, data, used, WPos(got.itab[file].blocks, WSpan(off, data), b)) ELSE @[b]],
    !.itab[file].size = MaxOf(off + Len(data), size)]

Result(own, got, file, off, data) ==
  LET used == BlocksFor(own.itab[file].size)
  IN  IF MaxOf(BlocksFor(off + Len(data)), used) - used > InodeBlocks - used THEN [fs |-> own, ret |-> Fail]
      ELSE IF got.ret = Fail THEN got
      ELSE [fs |-> StoredFor(got.fs, file, off, data, used, own.itab[file].size), ret |-> OK]

\* The store and the size that fs_write computes are those of Written.
LEMMA WrittenIs ==
  ASSUME NEW g \in States, NEW file \in Itab, g.itab[file].type = FILE, NEW off, NEW data, NEW used
  PROVE  StoredFor(g, file, off, data, used, g.itab[file].size) = Written(g, file, off, data, used)
<1> DEFINE z == MaxOf(off + Len(data), g.itab[file].size)
           I == g.iused
           B == g.bused
           T == g.itab
           W == WStore(g, file, off, data, used)
           T1 == [T EXCEPT ![file] = [type |-> FILE, size |-> z, blocks |-> g.itab[file].blocks]]
           T2 == [T EXCEPT ![file].size = z]
           X == [b \in BlockNos |->
                   IF Len(data) > 0 /\ \E p \in WSpan(off, data) : g.itab[file].blocks[p] = b
                   THEN WPage(g, file, off, data, used, WPos(g.itab[file].blocks, WSpan(off, data), b)) ELSE g.store[b]]
           g1 == [iused |-> I, bused |-> B, itab |-> T, store |-> W]
<1>1. g = [iused |-> I, bused |-> B, itab |-> T, store |-> g.store]
  BY StateType
<1>2. X = W
  BY DEF WStore
<1>3. T2 = T1
  <2>1. T \in [Itab -> InodeRecords]
    BY StateType
  <2>2. T[file] = [type |-> FILE, size |-> T[file].size, blocks |-> T[file].blocks]
    BY StateType
  <2>3. [T[file] EXCEPT !.size = z] = [type |-> FILE, size |-> z, blocks |-> T[file].blocks]
    BY <2>2
  <2> HIDE DEF T
  <2> QED BY <2>3, <2>1 DEF T
<1>4. [g EXCEPT !.store = W] = g1
  <2> HIDE DEF I, B, T, W
  <2> QED BY <1>1
<1>5. [g1 EXCEPT !.itab = T1] = [iused |-> I, bused |-> B, itab |-> T1, store |-> W]
  <2> HIDE DEF I, B, T, W, T1
  <2> QED OBVIOUS
<1>6. [g1 EXCEPT !.itab[file].size = z] = [g1 EXCEPT !.itab = T2]
  <2>1. g1.itab = T
    OBVIOUS
  <2> HIDE DEF g1, T
  <2> QED BY <2>1
<1>7. Written(g, file, off, data, used) = [iused |-> I, bused |-> B, itab |-> T1, store |-> W]
  BY DEF Written
<1>8. [g EXCEPT
           !.store = [b \in BlockNos |->
                       IF Len(data) > 0 /\ \E p \in WSpan(off, data) : g.itab[file].blocks[p] = b
                       THEN WPage(g, file, off, data, used, WPos(g.itab[file].blocks, WSpan(off, data), b)) ELSE @[b]],
           !.itab[file].size = z]
        = [g1 EXCEPT !.itab[file].size = z]
  <2>1. [g EXCEPT !.store = X, !.itab[file].size = z] = [g1 EXCEPT !.itab[file].size = z]
    <3> HIDE DEF X, g1, W
    <3> QED BY <1>2, <1>4
  <2> QED BY <2>1
<1>9. StoredFor(g, file, off, data, used, g.itab[file].size)
        = [g EXCEPT
           !.store = [b \in BlockNos |->
                       IF Len(data) > 0 /\ \E p \in WSpan(off, data) : g.itab[file].blocks[p] = b
                       THEN WPage(g, file, off, data, used, WPos(g.itab[file].blocks, WSpan(off, data), b)) ELSE @[b]],
           !.itab[file].size = z]
  BY DEF StoredFor
<1> QED
  <2> HIDE DEF g1, T1, T2, I, B, W
  <2> QED BY <1>3, <1>5, <1>6, <1>7, <1>8, <1>9

\* fs_write in four steps: own blocks, allocation, store, answer.
LEMMA WriteIs ==
  ASSUME NEW s, NEW file, NEW offset, NEW data
  PROVE  fs_write(s, file, offset, data) =
           IF ~ IsFile(s, file) THEN [fs |-> s, ret |-> Fail]
           ELSE Result(OwnFor(s, file),
                       GotFor(OwnFor(s, file), file, MinOf(offset, OwnFor(s, file).itab[file].size), data),
                       file, MinOf(offset, OwnFor(s, file).itab[file].size), data)
  BY DEF fs_write, Result, GotFor, OwnFor, StoredFor, WSpan, WPage, WPos

\* The blocks asked for lie within an inode and cover the write.
LEMMA Required ==
  ASSUME NEW used \in Nat, NEW end \in Nat, NEW max \in Nat, used <= max,
         ~ (MaxOf(end, used) - used > max - used)
  PROVE  /\ used + (MaxOf(end, used) - used) \in 0 .. max /\ used <= used + (MaxOf(end, used) - used)
         /\ end <= used + (MaxOf(end, used) - used) /\ end <= max
         /\ \A m \in Nat : used <= m /\ end <= m => used + (MaxOf(end, used) - used) <= m
  BY DEF MaxOf

\* The new blocks, when there is room for them in blocks[].
LEMMA GotKeeps ==
  ASSUME NEW s, Sound(s), NEW file \in FilesOf(s), Own(s, file),
         NEW off \in Nat, off <= s.itab[file].size, NEW data \in Seq(Data),
         NEW used, used = BlocksFor(s.itab[file].size),
         NEW end, end = BlocksFor(off + Len(data)),
         ~ (MaxOf(end, used) - used > InodeBlocks - used),
         NEW got, got = GotFor(s, file, off, data)
  PROVE  /\ got = [fs |-> got.fs, ret |-> got.ret] /\ got.ret \in {OK, Fail}
         /\ FileKept(s, got.fs, file)
         /\ OneBlockFiles(s) /\ off + Len(data) <= PageSize => OneBlockFiles(got.fs)
         /\ got.ret # Fail => Writing(got.fs, file, off, data)
<1>0. Formed(s) /\ Backed(s) /\ file \in Itab /\ file \in InUse(s)
  BY StateType DEF Sound, Formed, FilesOf, InUse
<1>1. /\ used \in 0 .. InodeBlocks
      /\ \A j \in Nat : j < used => s.itab[file].blocks[j] # NoBlk
  BY <1>0, PagesHeld
<1>2. off + Len(data) \in Nat
  OBVIOUS
<1>3. end \in Nat
  BY <1>2, BlocksForIs
<1>4. used \in Nat /\ used <= InodeBlocks /\ InodeBlocks \in Nat
  BY <1>1, Constants
<1> DEFINE to == used + (MaxOf(end, used) - used)
<1>5. /\ to \in 0 .. InodeBlocks /\ used <= to /\ end <= to /\ end <= InodeBlocks
      /\ \A m \in Nat : used <= m /\ end <= m => to <= m
  <2> USE <1>3, <1>4
  <2> SUFFICES ASSUME NEW u, u = used, NEW e, e = end, u \in Nat, e \in Nat, u <= InodeBlocks,
                      ~ (MaxOf(e, u) - u > InodeBlocks - u), NEW t, t = u + (MaxOf(e, u) - u)
               PROVE  /\ t \in 0 .. InodeBlocks /\ u <= t /\ e <= t /\ e <= InodeBlocks
                      /\ \A m \in Nat : u <= m /\ e <= m => t <= m
    OBVIOUS
  <2> QED BY Required
<1>6. got = AllocateFrom(s, file, used, to)
  BY DEF GotFor
<1> HIDE DEF to
<1>7. /\ got = [fs |-> got.fs, ret |-> got.ret] /\ got.ret \in {OK, Fail}
      /\ FileKept(s, got.fs, file)
      /\ OneBlockFiles(s) /\ to <= 1 => OneBlockFiles(got.fs)
      /\ got.ret = OK => \A j \in 0 .. to - 1 : got.fs.itab[file].blocks[j] # NoBlk
  <2>1. Supplied(s, got, file, to)
    BY <1>5, <1>6, AllocateFromKeeps
  <2> QED BY <2>1 DEF Supplied
<1>8. OneBlockFiles(s) /\ off + Len(data) <= PageSize => to <= 1
  <2> SUFFICES ASSUME OneBlockFiles(s), off + Len(data) <= PageSize PROVE used <= 1 /\ end <= 1
    BY <1>5
  <2>1. used <= 1
    <3>1. s.itab[file].blocks[1] = NoBlk
      BY DEF OneBlockFiles
    <3> QED BY <3>1, <1>1, <1>4
  <2>2. end <= 1
    <3> DEFINE n == off + Len(data)
    <3>1. n \in Nat /\ n <= PageSize * 1
      BY <1>2, Constants
    <3> HIDE DEF n
    <3>2. BlocksFor(n) <= 1
      BY <3>1, BlocksForIs
    <3> QED BY <3>2 DEF n
  <2> QED BY <2>1, <2>2
<1>9. got.ret # Fail => Writing(got.fs, file, off, data)
  <2> SUFFICES ASSUME got.ret = OK, NEW g, g = got.fs PROVE Writing(g, file, off, data)
    BY <1>7
  <2>1. Sound(g) /\ file \in FilesOf(g) /\ Own(g, file) /\ g.itab[file].size = s.itab[file].size
    BY <1>7 DEF FileKept
  <2>2. \A j \in Nat : j < end => g.itab[file].blocks[j] # NoBlk
    <3> SUFFICES ASSUME NEW j \in Nat, j < end PROVE j \in 0 .. to - 1
      BY <1>7
    <3> QED BY <1>3, <1>5
  <2> QED BY <2>1, <2>2, <1>5 DEF Writing
<1> QED BY <1>7, <1>8, <1>9

\* What fs_write does to the objects: nothing, or it puts the data into the
\* content of the file.
Rewrites(s, t, file, offset, data) ==
  /\ InUse(t) = InUse(s)
  /\ \/ Retains(s, t, {})
     \/ /\ file \in FilesOf(s) /\ Retains(s, t, {file})
        /\ Content(t, file) = Splice(Content(s, file), MinOf(offset, s.itab[file].size), data)

\* fs_write, for a state in which the file can have its blocks to itself.
LEMMA WriteKeeps ==
  ASSUME NEW s, Sound(s), NEW file \in Itab, NEW offset \in Nat, NEW data \in Seq(Data),
         Alone(s) \/ FreeBlocks(s) # {},
         NEW r, r = fs_write(s, file, offset, data)
  PROVE  /\ Sound(r.fs)
         /\ OneBlockFiles(s) /\ offset + Len(data) <= PageSize => OneBlockFiles(r.fs)
         /\ FewNames /\ OnePageDirs(s) => OnePageDirs(r.fs)
         /\ Alone(s) => Alone(r.fs)
         /\ Rewrites(s, r.fs, file, offset, data)
<1>1. CASE ~ IsFile(s, file)
  <2>1. r = [fs |-> s, ret |-> Fail]
    BY <1>1, WriteIs
  <2> QED BY <2>1, RetainsReflexive DEF Rewrites
<1>2. CASE IsFile(s, file)
  <2> DEFINE own == OwnFor(s, file)
             off == MinOf(offset, own.itab[file].size)
             got == GotFor(own, file, off, data)
             used == BlocksFor(own.itab[file].size)
             end == BlocksFor(off + Len(data))
             g == got.fs
             x == StoredFor(g, file, off, data, used, own.itab[file].size)
  <2>1. file \in FilesOf(s)
    BY <1>2 DEF IsFile, FilesOf, InUse
  <2>2. FileKept(s, own, file) /\ (OneBlockFiles(s) => OneBlockFiles(own))
    BY <2>1, OwnKeeps DEF OwnFor
  <2>3. /\ Sound(own) /\ Formed(own) /\ file \in FilesOf(own) /\ Own(own, file)
        /\ (FewNames /\ OnePageDirs(s) => OnePageDirs(own)) /\ (Alone(s) => Alone(own))
    BY <2>2 DEF FileKept, Sound
  <2>4. r = IF MaxOf(end, used) - used > InodeBlocks - used THEN [fs |-> own, ret |-> Fail]
            ELSE IF got.ret = Fail THEN got ELSE [fs |-> x, ret |-> OK]
    BY <1>2, WriteIs DEF Result
  <2> HIDE DEF own
  <2>5. off \in Nat /\ off <= own.itab[file].size /\ off <= offset
    <3>1. own.itab[file].size \in Nat
      BY <2>3, StateType DEF Formed
    <3> QED BY <3>1 DEF MinOf
  <2> HIDE DEF off
  <2>6. CASE MaxOf(end, used) - used > InodeBlocks - used
    <3>1. r.fs = own
      <4> HIDE DEF end, used, got, x
      <4> QED BY <2>4, <2>6
    <3> QED BY <3>1, <2>2, <2>3 DEF Rewrites, FileKept
  <2>7. CASE ~ (MaxOf(end, used) - used > InodeBlocks - used)
    <3>1. /\ got = [fs |-> got.fs, ret |-> got.ret] /\ got.ret \in {OK, Fail}
          /\ FileKept(own, g, file)
          /\ OneBlockFiles(own) /\ off + Len(data) <= PageSize => OneBlockFiles(g)
          /\ got.ret # Fail => Writing(g, file, off, data)
      <4> SUFFICES ASSUME NEW e, e = end, NEW u, u = used, ~ (MaxOf(e, u) - u > InodeBlocks - u),
                          NEW h, h = got
                   PROVE  /\ h = [fs |-> h.fs, ret |-> h.ret] /\ h.ret \in {OK, Fail}
                          /\ FileKept(own, h.fs, file)
                          /\ OneBlockFiles(own) /\ off + Len(data) <= PageSize => OneBlockFiles(h.fs)
                          /\ h.ret # Fail => Writing(h.fs, file, off, data)
        BY <2>7
      <4> QED BY <2>3, <2>5, GotKeeps
    <3> HIDE DEF got, x
    <3>2. OneBlockFiles(s) /\ offset + Len(data) <= PageSize => OneBlockFiles(g)
      <4>1. offset + Len(data) <= PageSize => off + Len(data) <= PageSize
        BY <2>5, Constants
      <4> QED BY <4>1, <3>1, <2>2
    <3>3. /\ Sound(g) /\ (FewNames /\ OnePageDirs(s) => OnePageDirs(g)) /\ (Alone(s) => Alone(g))
          /\ file \in FilesOf(g) /\ g.itab[file].size = own.itab[file].size
      BY <2>3, <3>1 DEF FileKept
    <3>3a. /\ Retains(s, g, {}) /\ InUse(g) = InUse(s)
           /\ own.itab[file].size = s.itab[file].size
      BY <2>2, <3>1, RetainsTransitive DEF FileKept
    <3>4. CASE got.ret = Fail
      <4>1. r.fs = g
        <5> HIDE DEF end, used
        <5> QED BY <2>4, <2>7, <3>4
      <4> QED BY <4>1, <3>2, <3>3, <3>3a DEF Rewrites
    <3>5. CASE got.ret # Fail
      <4>1. r.fs = x
        <5> HIDE DEF end, used
        <5> QED BY <2>4, <2>7, <3>5
      <4>2. g \in States /\ g.itab[file].type = FILE
        BY <3>3 DEF Sound, Formed, FilesOf
      <4> HIDE DEF g
      <4>3. x = Written(g, file, off, data, used)
        BY <4>2, <3>3, WrittenIs DEF x
      <4>4. Writing(g, file, off, data) /\ used = BlocksFor(g.itab[file].size)
        BY <3>1, <3>3, <3>5
      <4>5. /\ Sound(x) /\ (OneBlockFiles(g) => OneBlockFiles(x))
            /\ (FewNames /\ OnePageDirs(g) => OnePageDirs(x)) /\ (Alone(g) => Alone(x))
            /\ Overwrites(g, x, file, off, data)
        <5> HIDE DEF used
        <5> QED BY <4>3, <4>4, WrittenKeeps
      <4>6. Rewrites(s, x, file, offset, data)
        <5>1. Retains(s, x, {file})
          <6>1. Retains(s, g, {file})
            BY <3>3a, RetainsLess
          <6> QED BY <6>1, <4>5, RetainsTransitive DEF Overwrites
        <5>2. Content(g, file) = Content(s, file)
          BY <2>1, <3>3a DEF Retains
        <5>3. off = MinOf(offset, s.itab[file].size)
          BY <3>3a DEF off
        <5> QED BY <2>1, <3>3a, <4>5, <5>1, <5>2, <5>3 DEF Rewrites, Overwrites
      <4> QED BY <4>1, <4>5, <4>6, <3>2, <3>3
    <3> QED BY <3>4, <3>5
  <2> QED BY <2>6, <2>7
<1> QED BY <1>1, <1>2

\* What a search for a name finds is the entry of a directory.
LEMMA SearchIs ==
  ASSUME NEW s, Sound(s), NEW dir \in InUse(s), NEW name \in Names, fsi_dir_search(s, dir, name) # {}
  PROVE  /\ dir \in DirsOf(s)
         /\ \E i \in Positions(s, dir) :
              /\ Entry(s, dir, i).name = name /\ Entry(s, dir, i).ino \in InUse(s) \ {Root}
              /\ fsi_dir_search(s, dir, name) = {Entry(s, dir, i).ino}
<1> DEFINE found == {i \in Positions(s, dir) : Entry(s, dir, i).name = name}
           i == LeastOf(found)
<1>0. Formed(s) /\ Backed(s) /\ Linked(s) /\ Filled(s) /\ s \in States /\ dir \in Itab
  BY StateType DEF Sound, Formed, InUse
<1>1. found # {} /\ fsi_dir_search(s, dir, name) = {Entry(s, dir, i).ino}
  BY DEF fsi_dir_search
<1>2. found \subseteq Nat
  BY <1>0, PositionIs
<1>3. i \in found
  <2> HIDE DEF found
  <2> QED BY <1>1, <1>2, LeastNumber
<1> HIDE DEF i
<1>4. i \in Positions(s, dir) /\ Entry(s, dir, i).name = name
  BY <1>3
<1>5. dir \in DirsOf(s)
  <2>1. s.itab[dir].type \in {FILE, DIR}
    BY <1>0, StateType
  <2>2. dir \in FilesOf(s) => name \in Data
    BY <1>0, <1>4 DEF Filled
  <2> QED BY <2>1, <2>2, FsAssumption DEF DirsOf, FilesOf
<1>6. Entry(s, dir, i).ino \in InUse(s) \ {Root}
  BY <1>0, <1>4, <1>5 DEF Linked
<1> QED BY <1>1, <1>4, <1>5, <1>6

\* Where the search finds nothing no entry has the name.
LEMMA SearchFails ==
  ASSUME NEW s, NEW dir, NEW name, fsi_dir_search(s, dir, name) = {}, NEW i \in Positions(s, dir)
  PROVE  Entry(s, dir, i).name # name
  BY DEF fsi_dir_search

\* The content of a file is a sequence of data.
LEMMA ContentIs ==
  ASSUME NEW s, Sound(s), NEW file \in FilesOf(s)
  PROVE  Content(s, file) \in Seq(Data)
<1> DEFINE n == s.itab[file].size
<1>1. n \in Nat
  BY StateType DEF Sound, Formed, FilesOf, InUse
<1>2. ASSUME NEW i \in 1 .. n PROVE Entry(s, file, i - 1).name \in Data
  <2>1. i - 1 \in Positions(s, file)
    BY <1>1 DEF Positions
  <2> QED BY <2>1 DEF Sound, Filled
<1>3. Content(s, file) \in [1 .. n -> Data]
  BY <1>2 DEF Content
<1> HIDE DEF n
<1> QED BY <1>1, <1>3

\* The content of a file is put at the end of another, or nothing happens.
Appends(s, t) ==
  \/ t = s
  \/ \E d \in InUse(s), f \in FilesOf(s) : Rewrites(s, t, d, s.itab[d].size, Content(s, f))

\* fs_append keeps a file system without copies sound.
LEMMA AppendKeeps ==
  ASSUME NEW s, Sound(s), Alone(s), NEW dest \in Itab, NEW destName \in Names, NEW dir \in Itab, NEW name \in Names,
         NEW r, r = fs_append(s, dest, destName, dir, name)
  PROVE  /\ Sound(r.fs) /\ Alone(r.fs)
         /\ FewNames /\ OnePageDirs(s) => OnePageDirs(r.fs)
         /\ Appends(s, r.fs)
<1> DEFINE src == fsi_dir_search(s, dir, name)
           dst == fsi_dir_search(s, dest, destName)
           f == CHOOSE x \in src : TRUE
           d == CHOOSE x \in dst : TRUE
           data == Content(s, f)
           w == fs_write(s, d, s.itab[d].size, data)
<1>1. \/ r = [fs |-> s, ret |-> Fail]
      \/ /\ IsDir(s, dir) /\ IsDir(s, dest) /\ src # {} /\ dst # {} /\ IsFile(s, f)
         /\ r = w
  BY DEF fs_append
<1> HIDE DEF w
<1>2. CASE r = [fs |-> s, ret |-> Fail]
  BY <1>2 DEF Appends
<1>3. CASE IsDir(s, dir) /\ IsDir(s, dest) /\ src # {} /\ dst # {} /\ IsFile(s, f) /\ r = w
  <2>1. dir \in InUse(s) /\ dest \in InUse(s)
    BY <1>3 DEF IsDir, InUse
  <2>2. d \in InUse(s)
    <3>1. \E x : dst = {x} /\ x \in InUse(s)
      BY <2>1, <1>3, SearchIs
    <3> HIDE DEF dst
    <3> QED BY <3>1
  <2>3. f \in FilesOf(s)
    BY <1>3 DEF IsFile, FilesOf, InUse
  <2> HIDE DEF d, f
  <2>4. d \in Itab /\ s.itab[d].size \in Nat
    BY <2>2, StateType DEF Sound, Formed, InUse
  <2>5. data \in Seq(Data)
    BY <2>3, ContentIs
  <2> HIDE DEF data
  <2>6. /\ Sound(w.fs) /\ Alone(w.fs) /\ (FewNames /\ OnePageDirs(s) => OnePageDirs(w.fs))
        /\ Rewrites(s, w.fs, d, s.itab[d].size, data)
    <3> SUFFICES ASSUME NEW o \in Nat, o = s.itab[d].size,
                        NEW x, x = fs_write(s, d, o, data)
                 PROVE  /\ Sound(x.fs) /\ Alone(x.fs) /\ (FewNames /\ OnePageDirs(s) => OnePageDirs(x.fs))
                        /\ Rewrites(s, x.fs, d, o, data)
      BY <2>4 DEF w
    <3>1. Alone(s) \/ FreeBlocks(s) # {}
      OBVIOUS
    <3> QED BY <2>4, <2>5, <3>1, WriteKeeps
  <2>7. Appends(s, w.fs)
    BY <2>2, <2>3, <2>6 DEF Appends, data
  <2> QED BY <2>6, <2>7, <1>3
<1> QED BY <1>1, <1>2, <1>3

-----------------------------------------------------------------------------
(* Sequences of steps, and exchanges.                                       *)

\* A sequence of N steps F[n] that take what is in I[n - 1] to I[n].
Steps(u, N, a, F) == u = [n \in 0 .. N |-> IF n = 0 THEN a ELSE F[n][u[n - 1]]]

\* A sequence of steps exists.
LEMMA StepsExist ==
  ASSUME NEW N \in Nat, NEW a, NEW F
  PROVE  \E u : Steps(u, N, a, F)
<1> DEFINE Good(u, m) == /\ DOMAIN u = 0 .. N /\ u[0] = a
                         /\ \A n \in 1 .. m : u[n] = F[n][u[n - 1]]
           T == {m \in 0 .. N : \E u : Good(u, m)}
<1>1. 0 \in T
  <2>1. Good([n \in 0 .. N |-> a], 0)
    OBVIOUS
  <2>2. \E x : Good(x, 0)
    BY <2>1
  <2>3. 0 \in 0 .. N
    OBVIOUS
  <2> HIDE DEF Good
  <2> QED BY <2>2, <2>3
<1>2. \A m \in 1 .. N : m - 1 \in T => m \in T
  <2> SUFFICES ASSUME NEW m \in 1 .. N, m - 1 \in T PROVE m \in T
    OBVIOUS
  <2>0. m \in 0 .. N
    OBVIOUS
  <2>1. PICK u : Good(u, m - 1)
    OBVIOUS
  <2> DEFINE v == F[m][u[m - 1]]
             w == [n \in 0 .. N |-> IF n = m THEN v ELSE u[n]]
  <2>2. Good(w, m)
    <3>1. DOMAIN w = 0 .. N /\ w[0] = a
      BY <2>1
    <3>2. ASSUME NEW n \in 1 .. m PROVE w[n] = F[n][w[n - 1]]
      <4>1. n \in 0 .. N /\ n - 1 \in 0 .. N /\ n - 1 # m
        OBVIOUS
      <4>2. CASE n = m
        <5>1. w[n] = v /\ w[n - 1] = u[n - 1]
          BY <4>1, <4>2
        <5> HIDE DEF w
        <5> QED BY <5>1, <4>2
      <4>3. CASE n # m
        <5>1. w[n] = u[n] /\ w[n - 1] = u[n - 1] /\ n \in 1 .. m - 1
          BY <4>1, <4>3
        <5> HIDE DEF w
        <5> QED BY <5>1, <2>1
      <4> QED BY <4>2, <4>3
    <3> QED BY <3>1, <3>2
  <2>3. \E x : Good(x, m)
    BY <2>2
  <2> HIDE DEF Good, w
  <2> QED BY <2>0, <2>3
<1>3. N \in T
  <2> HIDE DEF T
  <2>1. \A n \in 0 .. N : n \in T
    BY <1>1, <1>2, BoundedInduction
  <2> QED BY <2>1
<1>4. PICK u : Good(u, N)
  BY <1>3
<1> DEFINE w == [n \in 0 .. N |-> u[n]]
<1>5. \A n \in 0 .. N : w[n] = IF n = 0 THEN a ELSE F[n][w[n - 1]]
  <2> SUFFICES ASSUME NEW n \in 0 .. N PROVE w[n] = IF n = 0 THEN a ELSE F[n][w[n - 1]]
    OBVIOUS
  <2>1. CASE n = 0
    BY <2>1, <1>4
  <2>2. CASE n # 0
    <3>1. n \in 1 .. N /\ n - 1 \in 0 .. N
      BY <2>2
    <3>2. u[n] = F[n][u[n - 1]]
      BY <3>1, <1>4
    <3> QED BY <3>1, <3>2, <2>2
  <2> QED BY <2>1, <2>2
<1>6. w = [n \in 0 .. N |-> w[n]]
  OBVIOUS
<1>7. Steps(w, N, a, F)
  <2> HIDE DEF w
  <2> QED BY <1>5, <1>6 DEF Steps
<1> QED BY <1>7

\* What the first element of a sequence of steps has, and every step keeps, all have.
\* I[n] is the set of what may be in position n: an invariant as a set of values.
LEMMA StepsKeep ==
  ASSUME NEW N \in Nat, NEW a, NEW F, NEW u, Steps(u, N, a, F),
         NEW I, a \in I[0], \A n \in 1 .. N : \A x \in I[n - 1] : F[n][x] \in I[n]
  PROVE  \A n \in 0 .. N : u[n] \in I[n]
<1> DEFINE T == {n \in 0 .. N : u[n] \in I[n]}
<1>1. 0 \in T
  BY DEF Steps
<1>2. \A n \in 1 .. N : n - 1 \in T => n \in T
  <2> SUFFICES ASSUME NEW n \in 1 .. N, n - 1 \in T PROVE n \in T
    OBVIOUS
  <2>1. u[n] = F[n][u[n - 1]] /\ n \in 0 .. N
    BY DEF Steps
  <2> QED BY <2>1
<1>3. \A n \in 0 .. N : n \in T
  <2> HIDE DEF T
  <2> QED BY <1>1, <1>2, BoundedInduction
<1> QED BY <1>3

\* What is at k after the exchange of i and n.
Exchange(i, n, k) == IF k = i THEN n ELSE IF k = n THEN i ELSE k

-----------------------------------------------------------------------------
(* Paths.                                                                   *)

\* w are the inodes on the way from g along the path p to h.
Trace(s, g, p, h, w) ==
  /\ w \in [0 .. Len(p) -> InUse(s)] /\ w[0] = g /\ w[Len(p)] = h
  /\ \A k \in 1 .. Len(p) : HasEntry(s, w[k - 1], p[k], w[k])

\* The path p leads from g to h.
Leads(s, g, p, h) == p \in Seq(Names) /\ \E w : Trace(s, g, p, h, w)

\* An entry of a directory in use names an inode in use.
LEMMA NamesType ==
  ASSUME NEW s, Sound(s), NEW d, NEW n, NEW e, HasEntry(s, d, n, e)
  PROVE  d \in DirsOf(s) /\ d \in InUse(s) /\ n \in Names /\ e \in InUse(s) \ {Root}
BY DEF HasEntry, Sound, Linked, DirsOf

\* A name leads from a directory to one inode; an inode has one name.
LEMMA NamesUnique ==
  ASSUME NEW s, Sound(s), NEW d, NEW n, NEW e, HasEntry(s, d, n, e)
  PROVE  /\ \A f : HasEntry(s, d, n, f) => f = e
         /\ \A c, m : HasEntry(s, c, m, e) => c = d /\ m = n
BY DEF HasEntry, Sound, Linked

\* The empty path leads where it starts.
LEMMA LeadsNowhere ==
  ASSUME NEW s, NEW g \in InUse(s)
  PROVE  Leads(s, g, <<>>, g) /\ \A h : Leads(s, g, <<>>, h) => h = g
<1>1. <<>> \in Seq(Names) /\ Len(<<>>) = 0
  BY EmptySeq
<1> DEFINE w == [k \in 0 .. 0 |-> g]
<1>2. Trace(s, g, <<>>, g, w)
  BY <1>1 DEF Trace
<1>3. \E x : Trace(s, g, <<>>, g, x)
  <2> HIDE DEF w
  <2> QED BY <1>2
<1>4. ASSUME NEW h, NEW x, Trace(s, g, <<>>, h, x) PROVE h = g
  BY <1>1, <1>4 DEF Trace
<1> QED BY <1>1, <1>3, <1>4 DEF Leads

\* A path goes from an inode in use to an inode in use.
LEMMA LeadsType ==
  ASSUME NEW s, NEW g, NEW p, NEW h, Leads(s, g, p, h)
  PROVE  g \in InUse(s) /\ h \in InUse(s) /\ p \in Seq(Names) /\ Len(p) \in Nat
<1>1. PICK w : Trace(s, g, p, h, w)
  BY DEF Leads
<1>2. p \in Seq(Names) /\ Len(p) \in Nat
  BY LenProperties DEF Leads
<1>3. 0 \in 0 .. Len(p) /\ Len(p) \in 0 .. Len(p)
  BY <1>2
<1> QED BY <1>1, <1>2, <1>3 DEF Trace

\* A way goes on by one step.
LEMMA LeadsOn ==
  ASSUME NEW s, Sound(s), NEW g, NEW p, NEW d, Leads(s, g, p, d), NEW n, NEW e, HasEntry(s, d, n, e)
  PROVE  Leads(s, g, Append(p, n), e)
<1>0. n \in Names /\ e \in InUse(s)
  BY NamesType
<1>1. p \in Seq(Names) /\ Len(p) \in Nat
  BY LeadsType
<1>2. PICK w : Trace(s, g, p, d, w)
  BY DEF Leads
<1> DEFINE q == Append(p, n)
           N == Len(p)
           v == [k \in 0 .. N + 1 |-> IF k = N + 1 THEN e ELSE w[k]]
<1>3. q \in Seq(Names) /\ Len(q) = N + 1 /\ (\A k \in 1 .. N : q[k] = p[k]) /\ q[N + 1] = n
  BY <1>0, <1>1, AppendProperties
<1>4. /\ w \in [0 .. N -> InUse(s)] /\ w[0] = g /\ w[N] = d
      /\ \A k \in 1 .. N : HasEntry(s, w[k - 1], p[k], w[k])
  BY <1>2 DEF Trace
<1>5. N \in Nat
  BY <1>1
<1> HIDE DEF N, q
<1>6. v \in [0 .. N + 1 -> InUse(s)]
  BY <1>0, <1>4, <1>5
<1>7. v[0] = g /\ v[N + 1] = e /\ v[N] = d
  BY <1>4, <1>5
<1>8. \A k \in 1 .. N + 1 : HasEntry(s, v[k - 1], q[k], v[k])
  <2> SUFFICES ASSUME NEW k \in 1 .. N + 1 PROVE HasEntry(s, v[k - 1], q[k], v[k])
    OBVIOUS
  <2>1. CASE k = N + 1
    <3>1. k - 1 = N
      BY <2>1, <1>5
    <3> HIDE DEF v
    <3> QED BY <3>1, <2>1, <1>3, <1>7
  <2>2. CASE k # N + 1
    <3>1. k \in 1 .. N /\ v[k - 1] = w[k - 1] /\ v[k] = w[k]
      BY <2>2, <1>5
    <3> HIDE DEF v
    <3> QED BY <3>1, <1>3, <1>4
  <2> QED BY <2>1, <2>2
<1>9. Trace(s, g, q, e, v)
  <2> HIDE DEF v
  <2> QED BY <1>3, <1>6, <1>7, <1>8 DEF Trace
<1> HIDE DEF v
<1> QED BY <1>3, <1>9 DEF Leads, q

\* A way begins with a step.
LEMMA LeadsFrom ==
  ASSUME NEW s, Sound(s), NEW d, NEW n, NEW e, HasEntry(s, d, n, e), NEW p, NEW h, Leads(s, e, p, h)
  PROVE  Leads(s, d, <<n>> \o p, h)
<1>0. n \in Names /\ d \in InUse(s)
  BY NamesType
<1>1. p \in Seq(Names) /\ Len(p) \in Nat
  BY LeadsType
<1>2. PICK w : Trace(s, e, p, h, w)
  BY DEF Leads
<1> DEFINE q == <<n>> \o p
           N == Len(p)
           v == [k \in 0 .. N + 1 |-> IF k = 0 THEN d ELSE w[k - 1]]
<1>3. q \in Seq(Names) /\ Len(q) = N + 1 /\ q[1] = n /\ (\A k \in 2 .. N + 1 : q[k] = p[k - 1])
  <2>1. <<n>> \in Seq(Names) /\ Len(<<n>>) = 1 /\ <<n>>[1] = n
    BY <1>0
  <2>2. /\ q \in Seq(Names) /\ Len(q) = 1 + N
        /\ \A i \in 1 .. 1 + N : q[i] = IF i <= 1 THEN <<n>>[i] ELSE p[i - 1]
    BY <2>1, <1>1, ConcatProperties
  <2>3. N \in Nat
    BY <1>1
  <2> HIDE DEF q, N
  <2> QED BY <2>1, <2>2, <2>3
<1>4. /\ w \in [0 .. N -> InUse(s)] /\ w[0] = e /\ w[N] = h
      /\ \A k \in 1 .. N : HasEntry(s, w[k - 1], p[k], w[k])
  BY <1>2 DEF Trace
<1>5. N \in Nat
  BY <1>1
<1> HIDE DEF N, q
<1>6. v \in [0 .. N + 1 -> InUse(s)]
  BY <1>0, <1>4, <1>5
<1>7. v[0] = d /\ v[N + 1] = h /\ v[1] = e
  BY <1>4, <1>5
<1>8. \A k \in 1 .. N + 1 : HasEntry(s, v[k - 1], q[k], v[k])
  <2> SUFFICES ASSUME NEW k \in 1 .. N + 1 PROVE HasEntry(s, v[k - 1], q[k], v[k])
    OBVIOUS
  <2>1. CASE k = 1
    <3>1. k - 1 = 0
      BY <2>1
    <3> HIDE DEF v
    <3> QED BY <3>1, <2>1, <1>3, <1>7
  <2>2. CASE k # 1
    <3> DEFINE j == k - 1
    <3>1. j \in 1 .. N /\ k \in 2 .. N + 1 /\ v[k - 1] = w[j - 1] /\ v[k] = w[j]
      BY <2>2, <1>5
    <3>2. q[k] = p[j]
      BY <3>1, <1>3
    <3> HIDE DEF v, j
    <3> QED BY <3>1, <3>2, <1>4
  <2> QED BY <2>1, <2>2
<1>9. Trace(s, d, q, h, v)
  <2> HIDE DEF v
  <2> QED BY <1>3, <1>6, <1>7, <1>8 DEF Trace
<1> HIDE DEF v
<1> QED BY <1>3, <1>9 DEF Leads, q

\* What goes before on a way is a way.
LEMMA LeadsBefore ==
  ASSUME NEW s, NEW g, NEW p \in Seq(Names), NEW h, NEW w, Trace(s, g, p, h, w), NEW k \in 0 .. Len(p)
  PROVE  /\ Leads(s, g, SubSeq(p, 1, k), w[k])
         /\ SubSeq(p, 1, k) \in Seq(Names) /\ Len(SubSeq(p, 1, k)) = k /\ Len(p) \in Nat
<1> DEFINE N == Len(p)
           q == SubSeq(p, 1, k)
           v == [i \in 0 .. k |-> w[i]]
<1>1. N \in Nat /\ \A i \in 1 .. N : p[i] \in Names
  BY LenProperties, ElementOfSeq
<1>2. q \in Seq(Names) /\ Len(q) = k /\ \A i \in 1 .. k : q[i] = p[i]
  <2>1. \A i \in 1 .. k : p[i] \in Names
    BY <1>1
  <2>2. 1 \in Int /\ k \in Int /\ k \in Nat
    BY <1>1
  <2>3. /\ q \in Seq(Names) /\ Len(q) = (IF 1 <= k THEN k - 1 + 1 ELSE 0)
        /\ \A i \in 1 .. k - 1 + 1 : q[i] = p[1 + i - 1]
    BY <2>1, <2>2, SubSeqProperties
  <2> HIDE DEF q
  <2> QED BY <2>2, <2>3
<1>3. /\ w \in [0 .. N -> InUse(s)] /\ w[0] = g
      /\ \A i \in 1 .. N : HasEntry(s, w[i - 1], p[i], w[i])
  BY DEF Trace
<1>4. k \in Nat /\ k <= N
  BY <1>1
<1> HIDE DEF N, q
<1>5. v \in [0 .. k -> InUse(s)] /\ v[0] = g /\ v[k] = w[k]
  BY <1>1, <1>3, <1>4
<1>6. \A i \in 1 .. k : HasEntry(s, v[i - 1], q[i], v[i])
  <2> SUFFICES ASSUME NEW i \in 1 .. k PROVE HasEntry(s, v[i - 1], q[i], v[i])
    OBVIOUS
  <2>1. i \in 1 .. N /\ v[i - 1] = w[i - 1] /\ v[i] = w[i]
    BY <1>1, <1>4
  <2> HIDE DEF v
  <2> QED BY <2>1, <1>2, <1>3
<1>7. Trace(s, g, q, w[k], v)
  <2> HIDE DEF v
  <2> QED BY <1>2, <1>5, <1>6 DEF Trace
<1>8. Leads(s, g, q, w[k])
  <2> HIDE DEF v
  <2> QED BY <1>2, <1>7 DEF Leads
<1> QED BY <1>1, <1>2, <1>8 DEF q, N

\* A way ends with a step.
LEMMA LeadsLast ==
  ASSUME NEW s, NEW g, NEW p, NEW h, Leads(s, g, p, h), p # <<>>
  PROVE  \E q \in Seq(Names), n \in Names : \E e :
           p = Append(q, n) /\ Leads(s, g, q, e) /\ HasEntry(s, e, n, h)
<1>1. p \in Seq(Names) /\ Len(p) \in Nat
  BY LeadsType
<1>2. PICK w : Trace(s, g, p, h, w)
  BY DEF Leads
<1>3. PICK q \in Seq(Names), n \in Names : p = Append(q, n)
  BY <1>1, SequenceEmptyOrAppend
<1>4. Len(p) = Len(q) + 1 /\ Len(q) \in Nat /\ p[Len(p)] = n
  BY <1>3, AppendProperties, LenProperties
<1> DEFINE k == Len(q)
<1>5. k \in 0 .. Len(p) /\ k + 1 = Len(p) /\ Len(p) \in 1 .. Len(p) /\ Len(p) - 1 = k
  BY <1>4
<1>6. SubSeq(p, 1, k) = q
  <2>1. SubSeq(p, 1, k) \in Seq(Names) /\ Len(SubSeq(p, 1, k)) = k
    BY <1>1, <1>2, <1>5, LeadsBefore
  <2>2. \A i \in 1 .. k : SubSeq(p, 1, k)[i] = q[i]
    <3>1. \A i \in 1 .. k : p[i] = q[i]
      BY <1>3, AppendProperties
    <3>2. \A i \in 1 .. k : p[i] \in Names
      <4>1. \A i \in 1 .. k : q[i] \in Names
        BY ElementOfSeq
      <4> QED BY <3>1, <4>1
    <3>3. 1 \in Int /\ k \in Int
      BY <1>4
    <3>4. \A i \in 1 .. k - 1 + 1 : SubSeq(p, 1, k)[i] = p[1 + i - 1]
      BY <3>2, <3>3, SubSeqProperties
    <3>5. \A i \in 1 .. k : i \in 1 .. k - 1 + 1 /\ 1 + i - 1 = i
      BY <1>4
    <3> HIDE DEF k
    <3> QED BY <3>1, <3>4, <3>5
  <2> QED BY <2>1, <2>2, SeqEqual
<1>7. Leads(s, g, q, w[k])
  <2> HIDE DEF k
  <2>1. Leads(s, g, SubSeq(p, 1, k), w[k])
    BY <1>1, <1>2, <1>5, LeadsBefore
  <2> QED BY <2>1, <1>6
<1>8. HasEntry(s, w[k], n, h)
  <2>1. HasEntry(s, w[Len(p) - 1], p[Len(p)], w[Len(p)]) /\ w[Len(p)] = h
    BY <1>2, <1>5 DEF Trace
  <2> QED BY <2>1, <1>4, <1>5
<1> QED BY <1>3, <1>7, <1>8

\* A way starts with a step.
\* The path p from g to h begins with the name n, of e, and goes on along q.
FirstStep(s, g, p, h, n, e, q) ==
  /\ n \in Names /\ q \in Seq(Names) /\ p = <<n>> \o q /\ Len(p) = Len(q) + 1
  /\ HasEntry(s, g, n, e) /\ Leads(s, e, q, h)

\* A path that is not empty has a first step.
LEMMA LeadsFirst ==
  ASSUME NEW s, NEW g, NEW p, NEW h, Leads(s, g, p, h), p # <<>>
  PROVE  \E n, e, q : FirstStep(s, g, p, h, n, e, q)
<1>1. p \in Seq(Names) /\ Len(p) \in Nat /\ Len(p) # 0
  BY LeadsType, EmptySeq
<1>2. PICK w : Trace(s, g, p, h, w)
  BY DEF Leads
<1> DEFINE q == Tail(p)
           n == Head(p)
           N == Len(q)
           v == [k \in 0 .. N |-> w[k + 1]]
<1>3. q \in Seq(Names) /\ n \in Names /\ N = Len(p) - 1 /\ \A i \in 1 .. N : q[i] = p[i + 1]
  BY <1>1, HeadTailProperties
<1>4. p = <<n>> \o q /\ n = p[1]
  BY <1>1
<1>5. /\ w \in [0 .. Len(p) -> InUse(s)] /\ w[0] = g /\ w[Len(p)] = h
      /\ \A k \in 1 .. Len(p) : HasEntry(s, w[k - 1], p[k], w[k])
  BY <1>2 DEF Trace
<1>6. N \in Nat /\ Len(p) = N + 1
  BY <1>1, <1>3
<1> HIDE DEF q, n, N
<1>7. v \in [0 .. N -> InUse(s)] /\ v[0] = w[1] /\ v[N] = h
  BY <1>5, <1>6
<1>8. \A k \in 1 .. N : HasEntry(s, v[k - 1], q[k], v[k])
  <2> SUFFICES ASSUME NEW k \in 1 .. N PROVE HasEntry(s, v[k - 1], q[k], v[k])
    OBVIOUS
  <2> DEFINE j == k + 1
  <2>1. j \in 1 .. Len(p) /\ v[k - 1] = w[j - 1] /\ v[k] = w[j] /\ q[k] = p[j]
    BY <1>3, <1>6
  <2> HIDE DEF v, j
  <2> QED BY <2>1, <1>5
<1>9. Trace(s, w[1], q, h, v)
  <2> HIDE DEF v
  <2> QED BY <1>7, <1>8 DEF Trace, N
<1>10. HasEntry(s, g, n, w[1])
  <2>1. 1 \in 1 .. Len(p) /\ 1 - 1 = 0
    BY <1>6
  <2> QED BY <2>1, <1>4, <1>5
<1>11. Leads(s, w[1], q, h)
  <2> HIDE DEF v
  <2> QED BY <1>3, <1>9 DEF Leads
<1> QED BY <1>3, <1>4, <1>6, <1>10, <1>11 DEF N, FirstStep

\* A path leads to one inode.
LEMMA LeadsOneWay ==
  ASSUME NEW s, Sound(s), NEW g, NEW p, NEW h, NEW f, Leads(s, g, p, h), Leads(s, g, p, f)
  PROVE  h = f
<1>1. p \in Seq(Names) /\ Len(p) \in Nat
  BY LeadsType
<1>2. PICK w : Trace(s, g, p, h, w)
  BY DEF Leads
<1>3. PICK v : Trace(s, g, p, f, v)
  BY DEF Leads
<1> DEFINE N == Len(p)
           T == {k \in 0 .. N : w[k] = v[k]}
<1>4. N \in Nat
  BY <1>1
<1>5. /\ w[0] = g /\ v[0] = g /\ w[N] = h /\ v[N] = f
      /\ \A k \in 1 .. N : HasEntry(s, w[k - 1], p[k], w[k]) /\ HasEntry(s, v[k - 1], p[k], v[k])
  BY <1>2, <1>3 DEF Trace
<1> HIDE DEF N
<1>6. 0 \in T
  BY <1>4, <1>5
<1>7. \A k \in 1 .. N : k - 1 \in T => k \in T
  <2> SUFFICES ASSUME NEW k \in 1 .. N, k - 1 \in T PROVE k \in T
    OBVIOUS
  <2>1. HasEntry(s, w[k - 1], p[k], w[k]) /\ HasEntry(s, w[k - 1], p[k], v[k])
    BY <1>5
  <2>2. w[k] = v[k]
    BY <2>1, NamesUnique
  <2> QED BY <2>2, <1>4
<1>8. N \in T
  <2> HIDE DEF T
  <2>1. \A k \in 0 .. N : k \in T
    BY <1>4, <1>6, <1>7, BoundedInduction
  <2> QED BY <2>1, <1>4
<1> QED BY <1>5, <1>8

\* No way leads into the root.
LEMMA RootIsFirst ==
  ASSUME NEW s, Sound(s), NEW g, NEW p, Leads(s, g, p, Root)
  PROVE  p = <<>>
<1> SUFFICES ASSUME p # <<>> PROVE FALSE
  OBVIOUS
<1>1. PICK q \in Seq(Names), n \in Names : \E e :
           p = Append(q, n) /\ Leads(s, g, q, e) /\ HasEntry(s, e, n, Root)
  BY LeadsLast
<1>2. PICK e : HasEntry(s, e, n, Root)
  BY <1>1
<1> QED BY <1>2, NamesType

\* An inode has one path from the root.
LEMMA OnePath ==
  ASSUME NEW s, Sound(s), NEW p, NEW q, NEW h, Leads(s, Root, p, h), Leads(s, Root, q, h)
  PROVE  p = q
<1> DEFINE N == Len(p)
           Unique(a, x) == \A b : Leads(s, Root, a, x) /\ Leads(s, Root, b, x) => a = b
           T == {n \in 0 .. N : \A a \in Seq(Names), x \in InUse(s) : Len(a) = n => Unique(a, x)}
<1>1. N \in Nat /\ p \in Seq(Names) /\ h \in InUse(s)
  BY LeadsType
<1>2. 0 \in T
  <2> SUFFICES ASSUME NEW a \in Seq(Names), NEW x \in InUse(s), Len(a) = 0, NEW b,
                      Leads(s, Root, a, x), Leads(s, Root, b, x)
               PROVE  a = b
    BY <1>1
  <2>1. a = <<>>
    BY EmptySeq
  <2>2. Root \in InUse(s)
    BY LeadsType
  <2>3. x = Root
    BY <2>1, <2>2, LeadsNowhere
  <2> QED BY <2>1, <2>3, RootIsFirst
<1>3. \A n \in 1 .. N : n - 1 \in T => n \in T
  <2> SUFFICES ASSUME NEW n \in 1 .. N, n - 1 \in T,
                      NEW a \in Seq(Names), NEW x \in InUse(s), Len(a) = n, NEW b,
                      Leads(s, Root, a, x), Leads(s, Root, b, x)
               PROVE  a = b
    BY <1>1
  <2>1. a # <<>>
    BY <1>1, EmptySeq
  <2>2. PICK a1 \in Seq(Names), i \in Names : \E e :
          a = Append(a1, i) /\ Leads(s, Root, a1, e) /\ HasEntry(s, e, i, x)
    BY <2>1, LeadsLast
  <2>3. PICK e : a = Append(a1, i) /\ Leads(s, Root, a1, e) /\ HasEntry(s, e, i, x)
    BY <2>2
  <2>4. x # Root
    BY <2>3, NamesType
  <2>5. b # <<>>
    <3>1. Root \in InUse(s)
      BY LeadsType
    <3> QED BY <3>1, <2>4, LeadsNowhere
  <2>6. PICK b1 \in Seq(Names), j \in Names : \E f :
          b = Append(b1, j) /\ Leads(s, Root, b1, f) /\ HasEntry(s, f, j, x)
    BY <2>5, LeadsLast
  <2>7. PICK f : b = Append(b1, j) /\ Leads(s, Root, b1, f) /\ HasEntry(s, f, j, x)
    BY <2>6
  <2>8. f = e /\ j = i
    BY <2>3, <2>7, NamesUnique
  <2>9. Len(a1) = n - 1 /\ e \in InUse(s)
    <3>1. Len(a) = Len(a1) + 1 /\ Len(a1) \in Nat
      BY <2>3, AppendProperties, LenProperties
    <3>2. e \in InUse(s)
      BY <2>3, LeadsType
    <3> QED BY <3>1, <3>2
  <2>10. a1 = b1
    BY <2>3, <2>7, <2>8, <2>9
  <2> QED BY <2>3, <2>7, <2>8, <2>10
<1>4. N \in T
  <2> HIDE DEF T, N
  <2>1. \A n \in 0 .. N : n \in T
    BY <1>1, <1>2, <1>3, BoundedInduction
  <2> QED BY <2>1, <1>1
<1> QED BY <1>1, <1>4

\* Every inode in use has a path from the root.
LEMMA PathExists ==
  ASSUME NEW s, Sound(s), NEW h \in InUse(s)
  PROVE  \E p \in Seq(Names) : Leads(s, Root, p, h)
<1> DEFINE S == {x \in InUse(s) : \E p \in Seq(Names) : Leads(s, Root, p, x)}
<1>0. Root \in InUse(s)
  BY StateType, Constants DEF Sound, Formed, InUse
<1>1. Root \in S
  <2>1. <<>> \in Seq(Names)
    BY EmptySeq
  <2> QED BY <1>0, <2>1, LeadsNowhere
<1>2. Closed(s, S)
  <2> SUFFICES ASSUME NEW d \in S \cap DirsOf(s), NEW i \in Positions(s, d) PROVE Entry(s, d, i).ino \in S
    BY DEF Closed
  <2> DEFINE e == Entry(s, d, i).ino
             n == Entry(s, d, i).name
  <2>1. PICK p \in Seq(Names) : Leads(s, Root, p, d)
    OBVIOUS
  <2>2. HasEntry(s, d, n, e)
    BY DEF HasEntry
  <2> HIDE DEF e, n
  <2>3. e \in InUse(s)
    BY <2>2, NamesType
  <2>4. Leads(s, Root, Append(p, n), e)
    BY <2>1, <2>2, LeadsOn
  <2>5. Append(p, n) \in Seq(Names)
    BY <2>4, LeadsType
  <2>6. e \in S
    BY <2>3, <2>4, <2>5
  <2> QED BY <2>6 DEF e
<1>3. S = InUse(s)
  <2> HIDE DEF S
  <2>1. S \in SUBSET InUse(s)
    BY DEF S
  <2> QED BY <1>1, <1>2, <2>1 DEF Sound, Rooted
<1> QED BY <1>3

\* A path from the root is no longer than there are inodes.
LEMMA PathIsShort ==
  ASSUME NEW s, Sound(s), NEW p, NEW h, Leads(s, Root, p, h)
  PROVE  Len(p) \in Nat /\ Len(p) + 2 <= NumInodes
<1>1. p \in Seq(Names) /\ Len(p) \in Nat
  BY LeadsType
<1>2. PICK w : Trace(s, Root, p, h, w)
  BY DEF Leads
<1> DEFINE N == Len(p)
           P == 0 .. N
           U == 1 .. NumInodes - 1
<1>3. N \in Nat /\ NumInodes \in Nat /\ NumInodes > 2
  BY <1>1, Constants
<1>4. w \in [P -> InUse(s)]
  BY <1>2 DEF Trace
<1>5. InUse(s) \subseteq U
  BY StateType, Constants DEF Sound, Formed, InUse
<1>6. ASSUME NEW a \in P, NEW b \in P, w[a] = w[b] PROVE a = b
  <2> DEFINE pa == SubSeq(p, 1, a)
             pb == SubSeq(p, 1, b)
  <2>1. Leads(s, Root, pa, w[a]) /\ Len(pa) = a
    BY <1>1, <1>2, LeadsBefore
  <2>2. Leads(s, Root, pb, w[b]) /\ Len(pb) = b
    BY <1>1, <1>2, LeadsBefore
  <2> HIDE DEF pa, pb
  <2>3. pa = pb
    BY <2>1, <2>2, <1>6, OnePath
  <2> QED BY <2>1, <2>2, <2>3
<1>7. IsFiniteSet(U) /\ Cardinality(U) = NumInodes - 1
  <2>1. IsFiniteSet(1 .. NumInodes - 1) /\ Cardinality(1 .. NumInodes - 1) = NumInodes - 1
    BY <1>3, IntervalSize
  <2> QED BY <2>1
<1>8. IsFiniteSet(P) /\ Cardinality(P) = N + 1
  <2> DEFINE M == N + 1
  <2>1. M \in Nat /\ 0 .. N = 0 .. M - 1 /\ 0 <= M /\ M - 0 = N + 1
    BY <1>3
  <2> HIDE DEF M
  <2>2. IsFiniteSet(0 .. M - 1) /\ Cardinality(0 .. M - 1) = M - 0
    BY <2>1, IntervalSize
  <2> QED BY <2>1, <2>2
<1> HIDE DEF P, U, N
<1>9. w \in Injection(P, U)
  <2>1. w \in [P -> U]
    BY <1>4, <1>5
  <2> QED BY <2>1, <1>6 DEF Injection, IsInjective
<1>10. Cardinality(P) <= Cardinality(U)
  BY <1>7, <1>9, FS_Injection
<1>11. N + 2 <= NumInodes
  BY <1>3, <1>7, <1>8, <1>10
<1> QED BY <1>3, <1>11 DEF N

\* The ways of at most d steps from g, each with where it leads.
Ways(s, g, d) == {o \in Seq(Names) \X InUse(s) : Leads(s, g, o[1], o[2]) /\ Len(o[1]) <= d}

\* Those that begin with an entry of g.
Onward(s, g, d) ==
  UNION {{<<<<Entry(s, g, i).name>> \o o[1], o[2]>> : o \in Ways(s, Entry(s, g, i).ino, d - 1)} :
         i \in Positions(s, g)}

\* A short path is a way.
LEMMA WayIn ==
  ASSUME NEW s, NEW g, NEW d, NEW p \in Seq(Names), NEW h \in InUse(s), Leads(s, g, p, h), Len(p) <= d
  PROVE  <<p, h>> \in Ways(s, g, d)
BY DEF Ways

\* A way from a directory stays, or goes on from one of its entries.
LEMMA WaysStep ==
  ASSUME NEW s, Sound(s), NEW g \in DirsOf(s), NEW d \in Nat, d # 0
  PROVE  Ways(s, g, d) = {<<<<>>, g>>} \cup Onward(s, g, d)
<1>0. g \in InUse(s) /\ <<>> \in Seq(Names) /\ Len(<<>>) = 0
  BY EmptySeq DEF DirsOf
<1>1. <<<<>>, g>> \in Ways(s, g, d)
  <2> SUFFICES ASSUME NEW p \in Seq(Names), p = <<>> PROVE <<p, g>> \in Ways(s, g, d)
    BY <1>0
  <2>1. Leads(s, g, p, g) /\ Len(p) <= d
    BY <1>0, LeadsNowhere
  <2> QED BY <1>0, <2>1, WayIn
<1>2. ASSUME NEW i \in Positions(s, g), NEW o \in Ways(s, Entry(s, g, i).ino, d - 1)
      PROVE  <<<<Entry(s, g, i).name>> \o o[1], o[2]>> \in Ways(s, g, d)
  <2> DEFINE n == Entry(s, g, i).name
             e == Entry(s, g, i).ino
             p == o[1]
             h == o[2]
             q == <<n>> \o p
  <2>1. p \in Seq(Names) /\ h \in InUse(s) /\ Leads(s, e, p, h) /\ Len(p) <= d - 1
    BY DEF Ways
  <2>2. HasEntry(s, g, n, e)
    BY DEF HasEntry
  <2> HIDE DEF n, e, p, h
  <2>3. Leads(s, g, q, h) /\ n \in Names
    BY <2>1, <2>2, LeadsFrom, NamesType
  <2>4. q \in Seq(Names) /\ Len(q) = Len(p) + 1 /\ Len(p) \in Nat
    BY <2>1, <2>3, ConcatProperties, LenProperties
  <2> HIDE DEF q
  <2>5. Len(q) <= d
    BY <2>1, <2>4
  <2>6. <<q, h>> \in Ways(s, g, d)
    BY <2>1, <2>3, <2>4, <2>5 DEF Ways
  <2> QED BY <2>6 DEF q, n, p, h
<1>3. ASSUME NEW o \in Ways(s, g, d), o # <<<<>>, g>> PROVE o \in Onward(s, g, d)
  <2> DEFINE p == o[1]
             h == o[2]
  <2>1. p \in Seq(Names) /\ h \in InUse(s) /\ Leads(s, g, p, h) /\ Len(p) <= d /\ o = <<p, h>>
    BY DEF Ways
  <2> HIDE DEF p, h
  <2>2. p # <<>>
    BY <2>1, <1>0, <1>3, LeadsNowhere
  <2>3. PICK n, e, q : FirstStep(s, g, p, h, n, e, q)
    BY <2>1, <2>2, LeadsFirst
  <2>4. /\ n \in Names /\ q \in Seq(Names)
        /\ p = <<n>> \o q /\ HasEntry(s, g, n, e) /\ Leads(s, e, q, h) /\ Len(p) = Len(q) + 1
    BY <2>3 DEF FirstStep
  <2>5. PICK i \in Positions(s, g) : Entry(s, g, i).name = n /\ Entry(s, g, i).ino = e
    BY <2>4 DEF HasEntry
  <2>6. Len(q) \in Nat
    BY <2>4, LenProperties
  <2>7. Len(q) <= d - 1
    BY <2>1, <2>4, <2>6
  <2> DEFINE x == <<q, h>>
  <2>8. x \in Ways(s, Entry(s, g, i).ino, d - 1) /\ x[1] = q /\ x[2] = h
    BY <2>1, <2>4, <2>5, <2>7 DEF Ways
  <2>9. o = <<<<Entry(s, g, i).name>> \o x[1], x[2]>>
    BY <2>1, <2>4, <2>5, <2>8
  <2> HIDE DEF x
  <2>10. o \in {<<<<Entry(s, g, i).name>> \o y[1], y[2]>> : y \in Ways(s, Entry(s, g, i).ino, d - 1)}
    BY <2>8, <2>9
  <2> QED BY <2>10 DEF Onward
<1>4. Onward(s, g, d) \subseteq Ways(s, g, d)
  <2> SUFFICES ASSUME NEW x \in Onward(s, g, d) PROVE x \in Ways(s, g, d)
    OBVIOUS
  <2>1. PICK i \in Positions(s, g) :
          x \in {<<<<Entry(s, g, i).name>> \o o[1], o[2]>> : o \in Ways(s, Entry(s, g, i).ino, d - 1)}
    BY DEF Onward
  <2>2. PICK o \in Ways(s, Entry(s, g, i).ino, d - 1) : x = <<<<Entry(s, g, i).name>> \o o[1], o[2]>>
    BY <2>1
  <2> QED BY <2>2, <1>2
<1> QED BY <1>1, <1>3, <1>4

\* No way goes on from a file, nor any of no steps.
LEMMA WaysStay ==
  ASSUME NEW s, Sound(s), NEW g \in InUse(s), NEW d \in Nat, d = 0 \/ g \notin DirsOf(s)
  PROVE  Ways(s, g, d) = {<<<<>>, g>>}
<1>0. <<>> \in Seq(Names) /\ Len(<<>>) = 0
  BY EmptySeq
<1>1. <<<<>>, g>> \in Ways(s, g, d)
  <2> SUFFICES ASSUME NEW p \in Seq(Names), p = <<>> PROVE <<p, g>> \in Ways(s, g, d)
    BY <1>0
  <2>1. Leads(s, g, p, g) /\ Len(p) <= d
    BY <1>0, LeadsNowhere
  <2> QED BY <1>0, <2>1, WayIn
<1>2. ASSUME NEW o \in Ways(s, g, d) PROVE o = <<<<>>, g>>
  <2> DEFINE p == o[1]
             h == o[2]
  <2>1. p \in Seq(Names) /\ h \in InUse(s) /\ Leads(s, g, p, h) /\ Len(p) <= d /\ o = <<p, h>>
    BY DEF Ways
  <2> HIDE DEF p, h
  <2>2. p = <<>>
    <3> SUFFICES ASSUME p # <<>> PROVE FALSE
      OBVIOUS
    <3>1. PICK n, e, q : FirstStep(s, g, p, h, n, e, q)
      BY <2>1, LeadsFirst
    <3>2. g \in DirsOf(s)
      BY <3>1 DEF FirstStep, HasEntry
    <3>3. Len(q) \in Nat /\ Len(p) = Len(q) + 1
      BY <3>1, LenProperties DEF FirstStep
    <3> QED BY <2>1, <3>2, <3>3
  <2> QED BY <2>1, <2>2, LeadsNowhere
<1> QED BY <1>1, <1>2

\* Concatenation of paths is associative.
LEMMA PathsAssociate ==
  ASSUME NEW a \in Seq(Names), NEW b \in Seq(Names), NEW c \in Seq(Names)
  PROVE  (a \o b) \o c = a \o (b \o c)
BY ConcatProperties, SeqEqual

\* A way from the root goes on along any way from its end.
LEMMA LeadsThrough ==
  ASSUME NEW s, Sound(s), NEW r, NEW m, Leads(s, Root, r, m), NEW p, NEW f, Leads(s, m, p, f)
  PROVE  Leads(s, Root, r \o p, f)
<1> DEFINE N == Len(p)
           T == {n \in 0 .. N : \A q \in Seq(Names) : \A h :
                   Len(q) = n /\ Leads(s, m, q, h) => Leads(s, Root, r \o q, h)}
<1>0. /\ N \in Nat /\ p \in Seq(Names) /\ r \in Seq(Names) /\ m \in InUse(s)
  BY LeadsType
<1>1. 0 \in T
  <2>1. ASSUME NEW q \in Seq(Names), NEW h, Len(q) = 0, Leads(s, m, q, h) PROVE Leads(s, Root, r \o q, h)
    <3>1. q = <<>>
      BY <2>1, EmptySeq
    <3>2. r \o q = r
      BY <3>1, <1>0, ConcatEmptySeq
    <3>3. h = m
      BY <3>1, <2>1, <1>0, LeadsNowhere
    <3> QED BY <3>2, <3>3
  <2> QED BY <2>1, <1>0
<1>2. \A n \in 1 .. N : n - 1 \in T => n \in T
  <2> SUFFICES ASSUME NEW n \in 1 .. N, n - 1 \in T PROVE n \in T
    OBVIOUS
  <2>1. ASSUME NEW q \in Seq(Names), NEW h, Len(q) = n, Leads(s, m, q, h) PROVE Leads(s, Root, r \o q, h)
    <3>1. q # <<>>
      BY <2>1, EmptySeq
    <3>2. PICK a \in Seq(Names), x \in Names : \E e : q = Append(a, x) /\ Leads(s, m, a, e) /\ HasEntry(s, e, x, h)
      BY <2>1, <3>1, LeadsLast
    <3>3. PICK e : q = Append(a, x) /\ Leads(s, m, a, e) /\ HasEntry(s, e, x, h)
      BY <3>2
    <3>4. Len(a) = n - 1
      <4>1. Len(a) \in Nat /\ Len(q) = Len(a) + 1
        BY <3>3, AppendProperties, LenProperties
      <4> QED BY <4>1, <2>1
    <3>5. Leads(s, Root, r \o a, e)
      BY <3>3, <3>4
    <3>6. Leads(s, Root, Append(r \o a, x), h)
      BY <3>3, <3>5, LeadsOn
    <3>7. Append(r \o a, x) = r \o q
      <4>1. <<x>> \in Seq(Names) /\ r \o a \in Seq(Names)
        BY <1>0, ConcatProperties
      <4>2. Append(r \o a, x) = (r \o a) \o <<x>> /\ q = a \o <<x>>
        BY <4>1, <3>3, AppendIsConcat
      <4> DEFINE l == <<x>>
      <4>3. l \in Seq(Names)
        BY <4>1
      <4> HIDE DEF l
      <4>4. (r \o a) \o l = r \o (a \o l)
        BY <3>2, <4>3, <1>0, PathsAssociate
      <4>5. q = a \o l /\ Append(r \o a, x) = (r \o a) \o l
        BY <4>2 DEF l
      <4> QED BY <4>4, <4>5
    <3> QED BY <3>6, <3>7
  <2>2. n \in 0 .. N
    BY <1>0
  <2> QED BY <2>1, <2>2
<1>3. N \in T
  <2> HIDE DEF T
  <2>1. \A n \in 0 .. N : n \in T
    BY <1>0, <1>1, <1>2, BoundedInduction
  <2> QED BY <2>1, <1>0
<1> QED BY <1>0, <1>3

\* There is one way from an inode to another.
LEMMA OneWay ==
  ASSUME NEW s, Sound(s), NEW m, NEW f, NEW p, Leads(s, m, p, f), NEW q, Leads(s, m, q, f)
  PROVE  p = q
<1>1. p \in Seq(Names) /\ q \in Seq(Names) /\ m \in InUse(s)
  BY LeadsType
<1>2. PICK r \in Seq(Names) : Leads(s, Root, r, m)
  BY <1>1, PathExists
<1>3. Leads(s, Root, r \o p, f) /\ Leads(s, Root, r \o q, f)
  BY <1>2, LeadsThrough
<1>4. r \o p = r \o q
  BY <1>3, OnePath
<1> QED BY <1>1, <1>4, ConcatSimplifications

\* No way leads back.
LEMMA NoLoop ==
  ASSUME NEW s, Sound(s), NEW m, NEW p, Leads(s, m, p, m)
  PROVE  p = <<>>
<1>1. Leads(s, m, <<>>, m)
  BY LeadsType, LeadsNowhere
<1> QED BY <1>1, OneWay

-----------------------------------------------------------------------------
(* Defragmentation: blocks that change their numbers.  A swap that writes   *)
(* the entry it means exchanges the numbers of two blocks and their          *)
(* contents (Exchanged), which is a renaming of blocks (Renamed), and a       *)
(* renaming keeps the file system (RenamedKeeps).                             *)

\* From s to t blocks have other numbers, and their contents go with them.
Renamed(s, t) ==
  /\ t \in States /\ t.iused = s.iused /\ NoBlk \in t.bused
  /\ \A f \in Itab : t.itab[f].type = s.itab[f].type /\ t.itab[f].size = s.itab[f].size
  /\ \A f \in Itab \ InUse(s) : t.itab[f] = s.itab[f]
  /\ \A f \in InUse(s), k \in 0 .. InodeBlocks :
       /\ t.itab[f].blocks[k] \in t.bused
       /\ t.itab[f].blocks[k] = NoBlk <=> s.itab[f].blocks[k] = NoBlk
       /\ \A g \in InUse(s), j \in 0 .. InodeBlocks :
            t.itab[f].blocks[k] = t.itab[g].blocks[j] => s.itab[f].blocks[k] = s.itab[g].blocks[j]
       /\ s.itab[f].blocks[k] # NoBlk => t.store[t.itab[f].blocks[k]] = s.store[s.itab[f].blocks[k]]

\* What defragmentation keeps.
Tidy(s, t) ==
  /\ Sound(t) /\ Alone(t) /\ InUse(t) = InUse(s) /\ Retains(s, t, {})
  /\ OneBlockFiles(s) => OneBlockFiles(t)
  /\ OnePageDirs(s) => OnePageDirs(t)

\* A renaming keeps the file system as it is.
LEMMA RenamedKeeps ==
  ASSUME NEW s, Sound(s), Alone(s), NEW t, Renamed(s, t)
  PROVE  Tidy(s, t)
<1>0. /\ Formed(s) /\ Backed(s) /\ Owned(s) /\ Linked(s) /\ Parented(s) /\ Rooted(s) /\ Filled(s)
      /\ InUse(s) \subseteq Itab /\ Root \in InUse(s) /\ 1 \in 0 .. InodeBlocks /\ 0 \in 0 .. InodeBlocks
      /\ InodeBlocks \in 0 .. InodeBlocks
      /\ \A k \in 0 .. InodeBlocks - 1 : k \in 0 .. InodeBlocks /\ k + 1 \in 0 .. InodeBlocks
  BY StateType, Constants DEF Sound, Formed, InUse
<1>1. InUse(t) = InUse(s)
  BY DEF InUse, Renamed
<1>2. \A f \in InUse(s) : t.itab[f].type = s.itab[f].type /\ t.itab[f].size = s.itab[f].size
  BY <1>0 DEF Renamed
<1>3. FilesOf(t) = FilesOf(s) /\ DirsOf(t) = DirsOf(s)
  BY <1>1, <1>2 DEF FilesOf, DirsOf
<1>4. \A f \in InUse(s), k \in 0 .. InodeBlocks : t.itab[f].blocks[k] = NoBlk <=> s.itab[f].blocks[k] = NoBlk
  BY DEF Renamed
<1>5. \A f \in InUse(s), k \in 0 .. InodeBlocks, g \in InUse(s), j \in 0 .. InodeBlocks :
        t.itab[f].blocks[k] = t.itab[g].blocks[j] => s.itab[f].blocks[k] = s.itab[g].blocks[j]
  BY DEF Renamed
<1>6. \A f \in InUse(s) :
        Positions(t, f) = Positions(s, f) /\ \A i \in Positions(s, f) : Entry(t, f, i) = Entry(s, f, i)
  <2> SUFFICES ASSUME NEW f \in InUse(s)
               PROVE  Positions(t, f) = Positions(s, f) /\ \A i \in Positions(s, f) : Entry(t, f, i) = Entry(s, f, i)
    OBVIOUS
  <2>1. f \in Itab /\ t.itab[f].size = s.itab[f].size
    BY <1>0, <1>2
  <2>2. \A k \in 0 .. InodeBlocks : s.itab[f].blocks[k] # NoBlk =>
            t.store[t.itab[f].blocks[k]] = s.store[s.itab[f].blocks[k]]
    BY DEF Renamed
  <2> QED BY <1>0, <2>1, <2>2, EntryKept
<1>7. \A d \in DirsOf(s) :
        Positions(t, d) = Positions(s, d) /\ \A i \in Positions(s, d) : Entry(t, d, i) = Entry(s, d, i)
  BY <1>6 DEF DirsOf
<1>8. Formed(t)
  <2>1. {0, Root} \subseteq t.iused /\ NoBlk \in t.bused /\ t.itab[Root].type = DIR /\ t \in States
    BY <1>0, <1>2 DEF Formed, Renamed
  <2>2. \A f \in Itab \ InUse(t) : t.itab[f] = fsi_inode_init(FILE)
    BY <1>0, <1>1 DEF Formed, Renamed
  <2> QED BY <2>1, <2>2 DEF Formed
<1>9. Backed(t)
  <2> SUFFICES ASSUME NEW f \in Itab
               PROVE  /\ t.itab[f].blocks[InodeBlocks] = NoBlk
                      /\ \A k \in 0 .. InodeBlocks - 1 :
                           t.itab[f].blocks[k] = NoBlk => t.itab[f].blocks[k + 1] = NoBlk
                      /\ \A i \in Positions(t, f) : t.itab[f].blocks[PageOf(i)] # NoBlk
    BY DEF Backed
  <2>1. CASE f \in InUse(s)
    <3>1. t.itab[f].blocks[InodeBlocks] = NoBlk
      BY <2>1, <1>0, <1>4 DEF Backed
    <3>2. \A k \in 0 .. InodeBlocks - 1 : t.itab[f].blocks[k] = NoBlk => t.itab[f].blocks[k + 1] = NoBlk
      BY <2>1, <1>0, <1>4 DEF Backed
    <3>3. \A i \in Positions(t, f) : t.itab[f].blocks[PageOf(i)] # NoBlk
      <4> SUFFICES ASSUME NEW i \in Positions(t, f) PROVE t.itab[f].blocks[PageOf(i)] # NoBlk
        OBVIOUS
      <4>1. i \in Positions(s, f)
        BY <2>1, <1>6
      <4>2. PageOf(i) \in 0 .. InodeBlocks - 1 /\ s.itab[f].blocks[PageOf(i)] # NoBlk
        BY <4>1, <1>0, PositionIs
      <4> QED BY <4>2, <2>1, <1>0, <1>4
    <3> QED BY <3>1, <3>2, <3>3
  <2>2. CASE f \notin InUse(s)
    <3>1. t.itab[f] = s.itab[f]
      BY <2>2 DEF Renamed
    <3> QED BY <3>1, <1>0 DEF Backed, Positions
  <2> QED BY <2>1, <2>2
<1>10. Owned(t)
  <2> SUFFICES ASSUME NEW f \in InUse(s), NEW i \in 0 .. InodeBlocks
               PROVE  /\ t.itab[f].blocks[i] \in t.bused
                      /\ \A g \in InUse(s), j \in 0 .. InodeBlocks :
                           t.itab[f].blocks[i] # NoBlk /\ t.itab[f].blocks[i] = t.itab[g].blocks[j] =>
                             \/ f = g /\ i = j
                             \/ /\ i = 0 /\ j = 0 /\ f \in FilesOf(s) /\ g \in FilesOf(s)
                                /\ t.itab[f].blocks[1] = NoBlk /\ t.itab[g].blocks[1] = NoBlk
    BY <1>1, <1>3 DEF Owned
  <2>1. t.itab[f].blocks[i] \in t.bused
    BY DEF Renamed
  <2>2. ASSUME NEW g \in InUse(s), NEW j \in 0 .. InodeBlocks,
               t.itab[f].blocks[i] # NoBlk, t.itab[f].blocks[i] = t.itab[g].blocks[j]
        PROVE  \/ f = g /\ i = j
               \/ /\ i = 0 /\ j = 0 /\ f \in FilesOf(s) /\ g \in FilesOf(s)
                  /\ t.itab[f].blocks[1] = NoBlk /\ t.itab[g].blocks[1] = NoBlk
    <3>1. s.itab[f].blocks[i] # NoBlk /\ s.itab[f].blocks[i] = s.itab[g].blocks[j]
      BY <2>2, <1>4, <1>5
    <3>2. \/ f = g /\ i = j
          \/ /\ i = 0 /\ j = 0 /\ f \in FilesOf(s) /\ g \in FilesOf(s)
             /\ s.itab[f].blocks[1] = NoBlk /\ s.itab[g].blocks[1] = NoBlk
      BY <3>1, <1>0 DEF Owned
    <3> QED BY <3>2, <1>0, <1>4
  <2> QED BY <2>1, <2>2
<1>11. Linked(t)
  BY <1>0, <1>1, <1>3, <1>7 DEF Linked
<1>12. Parented(t)
  BY <1>0, <1>1, <1>3, <1>7 DEF Parented
<1>13. Rooted(t)
  <2> SUFFICES ASSUME NEW S \in SUBSET InUse(s), Root \in S, Closed(t, S) PROVE S = InUse(s)
    BY <1>1 DEF Rooted
  <2>1. Closed(s, S)
    BY <1>3, <1>7 DEF Closed
  <2> QED BY <2>1, <1>0 DEF Rooted
<1>14. Filled(t)
  BY <1>0, <1>3, <1>6 DEF Filled, FilesOf
<1>15. Sound(t)
  BY <1>8, <1>9, <1>10, <1>11, <1>12, <1>13, <1>14 DEF Sound
<1>16. Alone(t)
  <2> SUFFICES ASSUME NEW f \in InUse(s), NEW g \in InUse(s),
                      t.itab[f].blocks[0] # NoBlk, t.itab[f].blocks[0] = t.itab[g].blocks[0]
               PROVE  f = g
    BY <1>1 DEF Alone
  <2>1. s.itab[f].blocks[0] # NoBlk /\ s.itab[f].blocks[0] = s.itab[g].blocks[0]
    BY <1>0, <1>4, <1>5
  <2> QED BY <2>1 DEF Alone
<1>17. OneBlockFiles(s) => OneBlockFiles(t)
  BY <1>0, <1>3, <1>4 DEF OneBlockFiles, FilesOf
<1>18. OnePageDirs(s) => OnePageDirs(t)
  BY <1>0, <1>3, <1>4 DEF OnePageDirs, DirsOf
<1>19. Retains(s, t, {})
  <2>1. \A d \in DirsOf(s) : \A i \in Positions(s, d) : i \in Positions(t, d) /\ Entry(t, d, i) = Entry(s, d, i)
    BY <1>7
  <2>2. \A f \in FilesOf(s) \ {} :
          /\ t.itab[f].size = s.itab[f].size
          /\ \A i \in Positions(s, f) : Entry(t, f, i).name = Entry(s, f, i).name
    BY <1>2, <1>6 DEF FilesOf
  <2>3. InUse(s) \subseteq InUse(t) /\ \A f \in InUse(s) : t.itab[f].type = s.itab[f].type
    BY <1>1, <1>2
  <2> QED BY <1>0, <2>1, <2>2, <2>3, RetainsIf
<1> QED BY <1>1, <1>15, <1>16, <1>17, <1>18, <1>19 DEF Tidy

\* Nothing shares a block: a number is in one place.
LEMMA PlaceIs ==
  ASSUME NEW s, Sound(s), Alone(s)
  PROVE  /\ \A f \in Itab, k \in 0 .. InodeBlocks : s.itab[f].blocks[k] # NoBlk => f \in InUse(s)
         /\ \A f \in Itab, k \in 0 .. InodeBlocks, g \in Itab, j \in 0 .. InodeBlocks :
              s.itab[f].blocks[k] # NoBlk /\ s.itab[f].blocks[k] = s.itab[g].blocks[j] => f = g /\ k = j
<1>0. Formed(s) /\ Owned(s)
  BY DEF Sound
<1>1. ASSUME NEW f \in Itab, NEW k \in 0 .. InodeBlocks, s.itab[f].blocks[k] # NoBlk PROVE f \in InUse(s)
  <2> SUFFICES ASSUME f \notin InUse(s) PROVE FALSE
    OBVIOUS
  <2>1. s.itab[f] = fsi_inode_init(FILE)
    BY <1>0 DEF Formed
  <2>2. s.itab[f].blocks = [j \in 0 .. InodeBlocks |-> NoBlk]
    BY <2>1 DEF fsi_inode_init, NoBlocks
  <2> QED BY <2>2, <1>1
<1>2. ASSUME NEW f \in Itab, NEW k \in 0 .. InodeBlocks, NEW g \in Itab, NEW j \in 0 .. InodeBlocks,
             s.itab[f].blocks[k] # NoBlk, s.itab[f].blocks[k] = s.itab[g].blocks[j]
      PROVE  f = g /\ k = j
  <2>1. f \in InUse(s) /\ g \in InUse(s)
    BY <1>1, <1>2
  <2>2. (f = g /\ k = j) \/ (k = 0 /\ j = 0)
    BY <2>1, <1>0, <1>2 DEF Owned
  <2>3. CASE k = 0 /\ j = 0
    BY <2>1, <2>3, <1>2 DEF Alone
  <2> QED BY <2>2, <2>3
<1> QED BY <1>1, <1>2

-----------------------------------------------------------------------------
(* The exchange of two blocks.                                              *)

\* From s to t the blocks a and b change places in every blocks[].
Exchanged(s, t, a, b) ==
  /\ t \in States /\ t.iused = s.iused /\ NoBlk \in t.bused
  /\ \A f \in Itab :
       /\ t.itab[f].type = s.itab[f].type /\ t.itab[f].size = s.itab[f].size
       /\ \A k \in 0 .. InodeBlocks :
            /\ t.itab[f].blocks[k] = Exchange(a, b, s.itab[f].blocks[k])
            /\ t.itab[f].blocks[k] \in t.bused
            /\ s.itab[f].blocks[k] # NoBlk => t.store[t.itab[f].blocks[k]] = s.store[s.itab[f].blocks[k]]

\* An exchange of blocks is a renaming.
LEMMA ExchangedIsRenamed ==
  ASSUME NEW s, Sound(s), Alone(s), NEW a \in BlockNos \ {NoBlk}, NEW b \in BlockNos \ {NoBlk},
         NEW t, Exchanged(s, t, a, b)
  PROVE  Renamed(s, t)
<1>0. Formed(s) /\ s \in States /\ t \in States /\ InUse(s) \subseteq Itab
  BY StateType DEF Sound, Formed, Exchanged, InUse
<1>1. \A x, y : Exchange(a, b, x) = Exchange(a, b, y) => x = y
  BY DEF Exchange
<1>2. \A x : Exchange(a, b, x) = NoBlk <=> x = NoBlk
  BY DEF Exchange
<1>3. ASSUME NEW f \in Itab \ InUse(s) PROVE t.itab[f] = s.itab[f]
  <2>1. \A k \in 0 .. InodeBlocks : s.itab[f].blocks[k] = NoBlk
    BY <1>3, PlaceIs
  <2>2. \A k \in 0 .. InodeBlocks : t.itab[f].blocks[k] = NoBlk
    BY <2>1, <1>2 DEF Exchanged
  <2>3. s.itab[f].blocks \in [0 .. InodeBlocks -> BlockNos] /\ t.itab[f].blocks \in [0 .. InodeBlocks -> BlockNos]
    BY <1>0, StateType
  <2>4. t.itab[f].blocks = s.itab[f].blocks
    <3> DEFINE A == t.itab[f].blocks
               B == s.itab[f].blocks
    <3>1. /\ A \in [0 .. InodeBlocks -> BlockNos] /\ B \in [0 .. InodeBlocks -> BlockNos]
          /\ \A k \in 0 .. InodeBlocks : A[k] = B[k]
      BY <2>1, <2>2, <2>3
    <3> HIDE DEF A, B
    <3>2. A = [k \in 0 .. InodeBlocks |-> A[k]] /\ B = [k \in 0 .. InodeBlocks |-> B[k]]
      BY <3>1
    <3>3. A = B
      BY <3>1, <3>2, Zenon
    <3> QED BY <3>3 DEF A, B
  <2>5. /\ s.itab[f] = [type |-> s.itab[f].type, size |-> s.itab[f].size, blocks |-> s.itab[f].blocks]
        /\ t.itab[f] = [type |-> t.itab[f].type, size |-> t.itab[f].size, blocks |-> t.itab[f].blocks]
    BY <1>0, StateType
  <2>6. t.itab[f].type = s.itab[f].type /\ t.itab[f].size = s.itab[f].size
    BY DEF Exchanged
  <2> QED BY <2>4, <2>5, <2>6
<1>4. ASSUME NEW f \in InUse(s), NEW k \in 0 .. InodeBlocks
      PROVE  /\ t.itab[f].blocks[k] \in t.bused
             /\ t.itab[f].blocks[k] = NoBlk <=> s.itab[f].blocks[k] = NoBlk
             /\ \A g \in InUse(s), j \in 0 .. InodeBlocks :
                  t.itab[f].blocks[k] = t.itab[g].blocks[j] => s.itab[f].blocks[k] = s.itab[g].blocks[j]
             /\ s.itab[f].blocks[k] # NoBlk => t.store[t.itab[f].blocks[k]] = s.store[s.itab[f].blocks[k]]
  <2>1. \A g \in InUse(s), j \in 0 .. InodeBlocks : t.itab[g].blocks[j] = Exchange(a, b, s.itab[g].blocks[j])
    BY <1>0 DEF Exchanged
  <2>2. /\ t.itab[f].blocks[k] \in t.bused
        /\ s.itab[f].blocks[k] # NoBlk => t.store[t.itab[f].blocks[k]] = s.store[s.itab[f].blocks[k]]
    BY <1>0 DEF Exchanged
  <2> QED BY <2>1, <2>2, <1>1, <1>2
<1> QED BY <1>0, <1>3, <1>4 DEF Exchanged, Renamed

\* getOwner finds the one inode that has a block.
LEMMA OwnerIs ==
  ASSUME NEW s, Sound(s), Alone(s), NEW b \in BlockNos \ {NoBlk}
  PROVE  \/ /\ getOwner(s, b) = {}
            /\ \A f \in Itab, k \in 0 .. InodeBlocks : s.itab[f].blocks[k] # b
         \/ \E f \in InUse(s), k \in 0 .. InodeBlocks :
              getOwner(s, b) = {f} /\ s.itab[f].blocks[k] = b
<1> DEFINE Has(f) == \E k \in 0 .. ChainLength(s.itab[f].blocks) - 1 : s.itab[f].blocks[k] = b
           owners == {f \in Inodes : Has(f)}
<1>0. Formed(s) /\ Backed(s) /\ InUse(s) \subseteq Inodes /\ Inodes \subseteq Itab /\ Inodes \subseteq Nat
  BY StateType, Constants DEF Sound, Formed, InUse
<1>1. ASSUME NEW f \in Itab PROVE Has(f) <=> \E k \in 0 .. InodeBlocks : s.itab[f].blocks[k] = b
  <2> DEFINE n == ChainLength(s.itab[f].blocks)
  <2>1. n \in 0 .. InodeBlocks /\ \A k \in 0 .. InodeBlocks : s.itab[f].blocks[k] # NoBlk <=> k < n
    BY <1>0, <1>1, ChainIs
  <2> HIDE DEF n
  <2>2. InodeBlocks \in Nat
    BY Constants
  <2>3. \A k \in 0 .. InodeBlocks : s.itab[f].blocks[k] = b => k \in 0 .. n - 1
    BY <2>1, <2>2
  <2>4. \A k \in 0 .. n - 1 : k \in 0 .. InodeBlocks
    BY <2>1, <2>2
  <2> QED BY <2>3, <2>4 DEF n
<1> HIDE DEF Has
<1>2. CASE owners = {}
  <2>1. getOwner(s, b) = {}
    BY <1>2 DEF getOwner, Has
  <2>2. ASSUME NEW f \in Itab, NEW k \in 0 .. InodeBlocks, s.itab[f].blocks[k] = b PROVE FALSE
    <3>1. f \in InUse(s)
      BY <2>2, PlaceIs
    <3>2. f \in owners
      BY <3>1, <2>2, <1>0, <1>1
    <3> QED BY <3>2, <1>2
  <2> QED BY <2>1, <2>2
<1>3. CASE owners # {}
  <2> DEFINE f == LeastOf(owners)
  <2>1. owners \in SUBSET Nat
    BY <1>0
  <2>2. f \in owners
    BY <2>1, <1>3, LeastNumber
  <2>3. getOwner(s, b) = {f}
    BY <1>3 DEF getOwner, Has
  <2> HIDE DEF f
  <2>4. f \in Itab /\ Has(f)
    BY <2>2, <1>0
  <2>5. PICK k \in 0 .. InodeBlocks : s.itab[f].blocks[k] = b
    BY <2>4, <1>1
  <2>6. f \in InUse(s)
    BY <2>4, <2>5, PlaceIs
  <2> QED BY <2>3, <2>5, <2>6
<1> QED BY <1>2, <1>3

\* The position of a block in the blocks[] of its owner.
LEMMA IndexIs ==
  ASSUME NEW s, Sound(s), Alone(s), NEW f \in InUse(s), NEW k \in 0 .. InodeBlocks, s.itab[f].blocks[k] # NoBlk
  PROVE  IndexOf(s, f, s.itab[f].blocks[k]) = k
<1>0. InUse(s) \subseteq Itab /\ InodeBlocks \in Nat
  BY StateType, Constants DEF Sound, Formed, InUse
<1> DEFINE S == {j \in 0 .. InodeBlocks : s.itab[f].blocks[j] = s.itab[f].blocks[k]}
<1>1. S = {k}
  BY <1>0, PlaceIs
<1>2. S \in SUBSET Nat /\ S # {}
  BY <1>1
<1>3. LeastOf(S) \in S
  BY <1>2, LeastNumber
<1> QED BY <1>1, <1>3 DEF IndexOf

-----------------------------------------------------------------------------
(* swap, taken apart.                                                       *)

\* A move under way: a record of the state, the answer and sane.
Shape(s) == s = [fs |-> s.fs, ret |-> s.ret, sane |-> s.sane] /\ s.sane \in BOOLEAN

\* The parts of swap: where dst is put in the owner, where src is put instead,
\* and the inode table after both.
Placed(g, owner, src, dst) ==
  [g EXCEPT !.store[dst] = g.store[src], !.store[src] = g.store[dst],
            !.itab[owner].blocks[IndexOf(g, owner, src)] = dst]
Target(g, owner, dst) ==
  IF getOwner(g, dst) \in {{}, {owner}} THEN [ino |-> owner, entry |-> TRUE] ELSE Overrun(g, owner, dst)
PutBack(g, p, f, src, dst) == [p.itab EXCEPT ![f].blocks[IndexOf(g, f, dst)] = src]
Exchanges(g, p, table) == [[g EXCEPT !.store = p.store] EXCEPT !.itab = table]

\* What swap does: src goes to the free block dst; the check fails; or src and dst change places.
SwapDone(s, r, p, f, src, dst) ==
  \/ /\ getOwner(s.fs, dst) = {}
     /\ Shape(r) /\ r.fs = ToFree(p, src, dst) /\ r.sane = s.sane
  \/ Shape(r) /\ ~ r.sane
  \/ /\ getOwner(s.fs, dst) # {}
     /\ Shape(r) /\ r.fs = Exchanges(s.fs, p, PutBack(s.fs, p, f, src, dst))
     /\ r.sane => s.sane /\ {f} = getOwner(s.fs, dst)

\* swap frees, or spoils, or exchanges.
LEMMA SwapCases ==
  ASSUME NEW s, Shape(s), NEW owner, NEW src, NEW dst, NEW r, r = swap(s, owner, src, dst),
         NEW p, p = Placed(s.fs, owner, src, dst), NEW f, f = Target(s.fs, owner, dst).ino
  PROVE  SwapDone(s, r, p, f, src, dst)
<1> DEFINE d == getOwner(s.fs, dst)
           at == Target(s.fs, owner, dst)
           X == [[p EXCEPT !.itab[at.ino].size = src] EXCEPT !.ret = s.ret]
<1>1. r = IF d = {} THEN [s EXCEPT !.fs = ToFree(p, src, dst)]
          ELSE IF at.ino = 0 THEN [s EXCEPT !.fs = p, !.sane = FALSE]
          ELSE IF ~at.entry
          THEN [fs |-> [p EXCEPT !.itab[at.ino].size = src], sane |-> FALSE, ret |-> s.ret]
          ELSE [s EXCEPT !.fs.store = p.store,
                         !.fs.itab = [p.itab EXCEPT ![at.ino].blocks[IndexOf(s.fs, at.ino, dst)] = src],
                         !.sane = @ /\ {at.ino} = d]
  BY DEF swap, Placed, Target
<1>2. s = [fs |-> s.fs, ret |-> s.ret, sane |-> s.sane] /\ s.sane \in BOOLEAN
  BY DEF Shape
<1> HIDE DEF d, at
<1>3. CASE d = {}
  <2> DEFINE x == ToFree(p, src, dst)
  <2>1. r = [s EXCEPT !.fs = x]
    BY <1>1, <1>3
  <2> HIDE DEF x
  <2>2. r = [fs |-> x, ret |-> s.ret, sane |-> s.sane]
    BY <2>1, <1>2
  <2>3. Shape(r) /\ r.fs = x /\ r.sane = s.sane
    BY <2>2, <1>2 DEF Shape
  <2> QED BY <2>3, <1>3 DEF d, x, SwapDone
<1>4. CASE d # {} /\ at.ino = 0
  <2>1. r = [s EXCEPT !.fs = p, !.sane = FALSE]
    BY <1>1, <1>4
  <2>2. r = [fs |-> p, ret |-> s.ret, sane |-> FALSE]
    BY <2>1, <1>2
  <2>3. Shape(r) /\ ~ r.sane
    BY <2>2 DEF Shape
  <2> QED BY <2>3 DEF SwapDone
<1>5. CASE d # {} /\ at.ino # 0 /\ ~ at.entry
  <2> DEFINE x == [p EXCEPT !.itab[at.ino].size = src]
  <2>1. r = [fs |-> x, sane |-> FALSE, ret |-> s.ret]
    BY <1>1, <1>5
  <2> HIDE DEF x
  <2>2. Shape(r) /\ ~ r.sane
    BY <2>1 DEF Shape
  <2> QED BY <2>2 DEF SwapDone
<1>6. CASE d # {} /\ at.ino # 0 /\ at.entry
  <2> DEFINE A == p.store
             B == [p.itab EXCEPT ![at.ino].blocks[IndexOf(s.fs, at.ino, dst)] = src]
             v == {at.ino} = d
  <2>1. r = [s EXCEPT !.fs.store = A, !.fs.itab = B, !.sane = @ /\ v]
    BY <1>1, <1>6
  <2> HIDE DEF A, B, v
  <2> DEFINE y == [[s.fs EXCEPT !.store = A] EXCEPT !.itab = B]
             w == s.sane /\ v
  <2>2. w \in BOOLEAN
    OBVIOUS
  <2>3. r = [fs |-> y, ret |-> s.ret, sane |-> w]
    BY <2>1, <1>2
  <2>4. y = Exchanges(s.fs, p, PutBack(s.fs, p, f, src, dst)) /\ (w => s.sane /\ {f} = getOwner(s.fs, dst))
    BY DEF A, B, v, Exchanges, PutBack, at, d
  <2> HIDE DEF y, w
  <2>5. Shape(r) /\ r.fs = y /\ r.sane = w
    BY <2>2, <2>3 DEF Shape
  <2> QED BY <2>4, <2>5, <1>6 DEF d, SwapDone
<1> QED BY <1>3, <1>4, <1>5, <1>6

\* swap keeps the shape, and never restores sane.
LEMMA SwapShape ==
  ASSUME NEW s, Shape(s), NEW owner, NEW src, NEW dst, NEW r, r = swap(s, owner, src, dst)
  PROVE  Shape(r) /\ (r.sane => s.sane)
<1>1. SwapDone(s, r, Placed(s.fs, owner, src, dst), Target(s.fs, owner, dst).ino, src, dst)
  BY SwapCases
<1> QED BY <1>1 DEF SwapDone

\* In table J block k of f is b; everything else is as in table I.
Put(I, J, f, k, b) ==
  /\ J \in [Itab -> InodeRecords]
  /\ \A h \in Itab :
       /\ J[h].type = I[h].type /\ J[h].size = I[h].size
       /\ \A j \in 0 .. InodeBlocks : J[h].blocks[j] = IF h = f /\ j = k THEN b ELSE I[h].blocks[j]

\* An entry of blocks[] is replaced.
LEMMA PutIs ==
  ASSUME NEW I \in [Itab -> InodeRecords], NEW f \in Itab, NEW k \in 0 .. InodeBlocks, NEW b \in BlockNos,
         NEW J, J = [I EXCEPT ![f].blocks[k] = b]
  PROVE  Put(I, J, f, k, b)
<1> DEFINE B == I[f].blocks
           C == [B EXCEPT ![k] = b]
           R == [I[f] EXCEPT !.blocks = C]
<1>1. J = [I EXCEPT ![f] = R]
  OBVIOUS
<1>2. /\ I[f] = [type |-> I[f].type, size |-> I[f].size, blocks |-> B]
      /\ I[f].type \in {FILE, DIR} /\ I[f].size \in 0 .. InodeBlocks * PageSize /\ B \in [0 .. InodeBlocks -> BlockNos]
  <2> DEFINE x == I[f]
             M == InodeBlocks * PageSize
  <2>1. x \in [type : {FILE, DIR}, size : 0 .. M, blocks : [0 .. InodeBlocks -> BlockNos]]
    BY DEF InodeRecords
  <2> HIDE DEF x, M
  <2>2. /\ x = [type |-> x.type, size |-> x.size, blocks |-> x.blocks]
        /\ x.type \in {FILE, DIR} /\ x.size \in 0 .. M /\ x.blocks \in [0 .. InodeBlocks -> BlockNos]
    BY <2>1
  <2> QED BY <2>2 DEF x, M
<1>3. /\ C \in [0 .. InodeBlocks -> BlockNos]
      /\ \A j \in 0 .. InodeBlocks : C[j] = IF j = k THEN b ELSE B[j]
  BY <1>2
<1> HIDE DEF C
<1>4. R = [type |-> I[f].type, size |-> I[f].size, blocks |-> C]
  BY <1>2
<1>5. R \in InodeRecords
  BY <1>2, <1>3, <1>4 DEF InodeRecords
<1>6. R.type = I[f].type /\ R.size = I[f].size /\ R.blocks = C
  BY <1>4
<1> HIDE DEF R
<1>7. J \in [Itab -> InodeRecords] /\ \A h \in Itab : J[h] = IF h = f THEN R ELSE I[h]
  BY <1>1, <1>5
<1>8. ASSUME NEW h \in Itab
      PROVE  /\ J[h].type = I[h].type /\ J[h].size = I[h].size
             /\ \A j \in 0 .. InodeBlocks : J[h].blocks[j] = IF h = f /\ j = k THEN b ELSE I[h].blocks[j]
  <2>1. CASE h = f
    BY <2>1, <1>3, <1>6, <1>7
  <2>2. CASE h # f
    BY <2>2, <1>7
  <2> QED BY <2>1, <2>2
<1> QED BY <1>7, <1>8 DEF Put

\* In p the contents of two blocks have changed places.
Crossed(g, p, src, dst) ==
  /\ p.iused = g.iused /\ p.bused = g.bused
  /\ p = [iused |-> p.iused, bused |-> p.bused, itab |-> p.itab, store |-> p.store]
  /\ p.store \in [BlockNos -> Pages]
  /\ \A c \in BlockNos : p.store[Exchange(src, dst, c)] = g.store[c]

\* The first half of swap: the contents, and dst in the owner.
LEMMA PlacedIs ==
  ASSUME NEW g, Sound(g), Alone(g), NEW owner \in InUse(g), NEW k \in 0 .. InodeBlocks,
         NEW src, src = g.itab[owner].blocks[k], src # NoBlk, NEW dst \in BlockNos \ {NoBlk, src},
         NEW p, p = Placed(g, owner, src, dst)
  PROVE  Put(g.itab, p.itab, owner, k, dst) /\ Crossed(g, p, src, dst)
<1>0. /\ g \in States /\ owner \in Itab /\ g.itab \in [Itab -> InodeRecords] /\ g.store \in [BlockNos -> Pages]
      /\ src \in BlockNos /\ g = [iused |-> g.iused, bused |-> g.bused, itab |-> g.itab, store |-> g.store]
  <2>1. g \in States /\ owner \in Itab
    BY StateType DEF Sound, Formed, InUse
  <2> QED BY <2>1, StateType
<1> DEFINE W1 == [g.store EXCEPT ![dst] = g.store[src]]
           W == [W1 EXCEPT ![src] = g.store[dst]]
           J == [g.itab EXCEPT ![owner].blocks[k] = dst]
           p1 == [g EXCEPT !.store = W1]
           p2 == [p1 EXCEPT !.store = W]
           p3 == [p2 EXCEPT !.itab = J]
<1>1. IndexOf(g, owner, src) = k
  BY IndexIs
<1>2. p = [g EXCEPT !.store[dst] = g.store[src], !.store[src] = g.store[dst], !.itab[owner].blocks[k] = dst]
  BY <1>1 DEF Placed
<1>3. p = p3
  BY <1>2, <1>0
<1>4. W \in [BlockNos -> Pages] /\ \A c \in BlockNos : W[Exchange(src, dst, c)] = g.store[c]
  <2>1. W1 \in [BlockNos -> Pages] /\ W \in [BlockNos -> Pages]
    BY <1>0
  <2>2. W[dst] = g.store[src] /\ W[src] = g.store[dst] /\ \A c \in BlockNos \ {src, dst} : W[c] = g.store[c]
    BY <1>0
  <2> HIDE DEF W
  <2> QED BY <2>1, <2>2 DEF Exchange
<1>5. Put(g.itab, J, owner, k, dst)
  <2> HIDE DEF J
  <2> QED BY <1>0, PutIs DEF J
<1> HIDE DEF W1, W, J
<1>6. p3 = [iused |-> g.iused, bused |-> g.bused, itab |-> J, store |-> W]
  <2>1. p1 = [iused |-> g.iused, bused |-> g.bused, itab |-> g.itab, store |-> W1]
    BY <1>0
  <2> HIDE DEF p1
  <2>2. p2 = [iused |-> g.iused, bused |-> g.bused, itab |-> g.itab, store |-> W]
    BY <2>1
  <2> HIDE DEF p2
  <2> QED BY <2>2
<1> HIDE DEF p3
<1>7. /\ p.iused = g.iused /\ p.bused = g.bused /\ p.itab = J /\ p.store = W
      /\ p = [iused |-> p.iused, bused |-> p.bused, itab |-> p.itab, store |-> p.store]
  BY <1>3, <1>6
<1> QED BY <1>4, <1>5, <1>7 DEF Crossed

\* What is known of the blocks of a file system that shares none.
LEMMA BlockFacts ==
  ASSUME NEW g, Sound(g), Alone(g), NEW f \in Itab, NEW k \in 0 .. InodeBlocks
  PROVE  g.itab[f].blocks[k] \in g.bused /\ g.itab[f].blocks[k] \in BlockNos
<1>0. Formed(g) /\ Owned(g) /\ g \in States /\ NoBlk \in g.bused
  BY DEF Sound, Formed
<1>1. CASE g.itab[f].blocks[k] = NoBlk
  BY <1>0, <1>1, Constants
<1>2. CASE g.itab[f].blocks[k] # NoBlk
  <2>1. f \in InUse(g)
    BY <1>2, PlaceIs
  <2> QED BY <2>1, <1>0, StateType DEF Owned
<1> QED BY <1>1, <1>2

\* When nobody has dst, src is moved there.
LEMMA FreeIsExchanged ==
  ASSUME NEW g, Sound(g), Alone(g), NEW owner \in InUse(g), NEW k \in 0 .. InodeBlocks,
         NEW src, src = g.itab[owner].blocks[k], src # NoBlk, NEW dst \in BlockNos \ {NoBlk, src},
         \A f \in Itab, j \in 0 .. InodeBlocks : g.itab[f].blocks[j] # dst,
         NEW p, p = Placed(g, owner, src, dst), NEW t, t = ToFree(p, src, dst)
  PROVE  Exchanged(g, t, src, dst)
<1>0. /\ g \in States /\ owner \in Itab /\ src \in BlockNos /\ g.iused \subseteq Itab /\ g.bused \subseteq BlockNos
      /\ NoBlk \in g.bused
  <2>1. g \in States /\ owner \in Itab /\ NoBlk \in g.bused
    BY StateType DEF Sound, Formed, InUse
  <2> QED BY <2>1, StateType
<1>1. Put(g.itab, p.itab, owner, k, dst) /\ Crossed(g, p, src, dst)
  BY PlacedIs
<1> DEFINE W == [p.store EXCEPT ![src] = ZeroPage]
           B == (g.bused \ {src}) \cup {dst}
<1>2. /\ t.iused = g.iused /\ t.bused = B /\ t.itab = p.itab /\ t.store = W
      /\ t = [iused |-> t.iused, bused |-> t.bused, itab |-> t.itab, store |-> t.store]
  <2>1. t = [p EXCEPT !.store[src] = ZeroPage, !.bused = (@ \ {src}) \cup {dst}]
    BY DEF ToFree
  <2>2. /\ p = [iused |-> p.iused, bused |-> p.bused, itab |-> p.itab, store |-> p.store]
        /\ p.iused = g.iused /\ p.bused = g.bused
    BY <1>1 DEF Crossed
  <2>3. t = [[p EXCEPT !.store = W] EXCEPT !.bused = B]
    BY <2>1, <2>2
  <2> HIDE DEF W, B
  <2> DEFINE x == [p EXCEPT !.store = W]
  <2>4. x = [iused |-> g.iused, bused |-> g.bused, itab |-> p.itab, store |-> W]
    BY <2>2
  <2>5. t = [x EXCEPT !.bused = B]
    BY <2>3
  <2> HIDE DEF x
  <2>6. t = [iused |-> g.iused, bused |-> B, itab |-> p.itab, store |-> W]
    BY <2>4, <2>5
  <2> QED BY <2>6
<1>3. /\ W \in [BlockNos -> Pages] /\ W[src] = ZeroPage /\ \A c \in BlockNos \ {src} : W[c] = p.store[c]
  <2>1. ZeroPage \in Pages
    BY Constants DEF ZeroPage, ZeroCell, Pages, Cells
  <2> QED BY <2>1, <1>0, <1>1 DEF Crossed
<1>4. B \subseteq BlockNos /\ NoBlk \in B
  BY <1>0
<1> HIDE DEF W
<1>5. t \in States
  <2>1. p.itab \in [Itab -> InodeRecords]
    BY <1>1 DEF Put
  <2> HIDE DEF B
  <2>2. t.iused \in SUBSET Itab /\ t.bused \in SUBSET BlockNos /\ t.itab \in [Itab -> InodeRecords] /\ t.store \in [BlockNos -> Pages]
    BY <2>1, <1>0, <1>2, <1>3, <1>4
  <2> QED BY <2>2, <1>2 DEF States
<1>6. ASSUME NEW f \in Itab, NEW j \in 0 .. InodeBlocks
      PROVE  /\ t.itab[f].blocks[j] = Exchange(src, dst, g.itab[f].blocks[j])
             /\ t.itab[f].blocks[j] \in t.bused
             /\ g.itab[f].blocks[j] # NoBlk => t.store[t.itab[f].blocks[j]] = g.store[g.itab[f].blocks[j]]
  <2> DEFINE c == g.itab[f].blocks[j]
  <2>1. c \in g.bused /\ c \in BlockNos /\ c # dst
    BY BlockFacts
  <2>2. t.itab[f].blocks[j] = IF f = owner /\ j = k THEN dst ELSE c
    <3>1. p.itab[f].blocks[j] = IF f = owner /\ j = k THEN dst ELSE g.itab[f].blocks[j]
      BY <1>1 DEF Put
    <3>2. t.itab = p.itab
      BY <1>2
    <3> QED BY <3>1, <3>2
  <2>3. c = src <=> f = owner /\ j = k
    BY <1>0, PlaceIs
  <2> HIDE DEF c
  <2>4. t.itab[f].blocks[j] = Exchange(src, dst, c)
    BY <2>1, <2>2, <2>3 DEF Exchange
  <2>5. Exchange(src, dst, c) \in B
    BY <2>1 DEF Exchange
  <2>6. Exchange(src, dst, c) \in BlockNos \ {src} /\ p.store[Exchange(src, dst, c)] = g.store[c]
    <3>1. Exchange(src, dst, c) \in BlockNos \ {src}
      BY <2>1 DEF Exchange
    <3>2. p.store[Exchange(src, dst, c)] = g.store[c]
      BY <2>1, <1>1 DEF Crossed
    <3> QED BY <3>1, <3>2
  <2>7. t.store[t.itab[f].blocks[j]] = g.store[c]
    <3>1. t.store = W
      BY <1>2
    <3>2. W[Exchange(src, dst, c)] = p.store[Exchange(src, dst, c)]
      BY <2>6, <1>3
    <3> QED BY <3>1, <3>2, <2>4, <2>6
  <2> QED BY <2>4, <2>5, <2>7, <1>2 DEF c
<1>7. \A f \in Itab : t.itab[f].type = g.itab[f].type /\ t.itab[f].size = g.itab[f].size
  <2> SUFFICES ASSUME NEW f \in Itab PROVE t.itab[f].type = g.itab[f].type /\ t.itab[f].size = g.itab[f].size
    OBVIOUS
  <2> QED BY <1>1, <1>2, ZenonT(40) DEF Put
<1>8. t.iused = g.iused /\ NoBlk \in t.bused
  BY <1>2, <1>4
<1> QED BY <1>5, <1>6, <1>7, <1>8 DEF Exchanged

\* When an inode has dst, it gets src.
LEMMA OwnedIsExchanged ==
  ASSUME NEW g, Sound(g), Alone(g), NEW owner \in InUse(g), NEW k \in 0 .. InodeBlocks,
         NEW src, src = g.itab[owner].blocks[k], src # NoBlk, NEW dst \in BlockNos \ {NoBlk, src},
         NEW o \in InUse(g), NEW m \in 0 .. InodeBlocks, g.itab[o].blocks[m] = dst,
         NEW p, p = Placed(g, owner, src, dst), NEW t, t = Exchanges(g, p, PutBack(g, p, o, src, dst))
  PROVE  Exchanged(g, t, src, dst)
<1>0. /\ g \in States /\ owner \in Itab /\ o \in Itab /\ src \in BlockNos
      /\ g.iused \subseteq Itab /\ g.bused \subseteq BlockNos /\ NoBlk \in g.bused
      /\ g = [iused |-> g.iused, bused |-> g.bused, itab |-> g.itab, store |-> g.store]
  <2>1. g \in States /\ owner \in Itab /\ o \in Itab /\ NoBlk \in g.bused
    BY StateType DEF Sound, Formed, InUse
  <2> QED BY <2>1, StateType
<1>1. Put(g.itab, p.itab, owner, k, dst) /\ Crossed(g, p, src, dst)
  BY PlacedIs
<1> DEFINE Q == PutBack(g, p, o, src, dst)
           W == p.store
<1>2. Put(p.itab, Q, o, m, src)
  <2>1. IndexOf(g, o, dst) = m
    BY IndexIs
  <2>2. Q = [p.itab EXCEPT ![o].blocks[m] = src]
    BY <2>1 DEF PutBack
  <2>3. p.itab \in [Itab -> InodeRecords]
    BY <1>1 DEF Put
  <2> HIDE DEF Q
  <2> QED BY <2>2, <2>3, <1>0, PutIs
<1> HIDE DEF Q, W
<1>3. /\ t.iused = g.iused /\ t.bused = g.bused /\ t.itab = Q /\ t.store = W
      /\ t = [iused |-> t.iused, bused |-> t.bused, itab |-> t.itab, store |-> t.store]
  <2> DEFINE x == [g EXCEPT !.store = W]
  <2>1. t = [x EXCEPT !.itab = Q]
    BY DEF Exchanges, W, Q
  <2>2. x = [iused |-> g.iused, bused |-> g.bused, itab |-> g.itab, store |-> W]
    BY <1>0
  <2> HIDE DEF x
  <2>3. t = [iused |-> g.iused, bused |-> g.bused, itab |-> Q, store |-> W]
    BY <2>1, <2>2
  <2> QED BY <2>3
<1>4. t \in States
  <2>1. t.itab \in [Itab -> InodeRecords] /\ t.store \in [BlockNos -> Pages]
    BY <1>1, <1>2, <1>3 DEF Put, Crossed, W
  <2>2. t.iused \in SUBSET Itab /\ t.bused \in SUBSET BlockNos
    BY <1>0, <1>3
  <2> QED BY <2>1, <2>2, <1>3 DEF States
<1>5. ASSUME NEW f \in Itab, NEW j \in 0 .. InodeBlocks
      PROVE  /\ t.itab[f].blocks[j] = Exchange(src, dst, g.itab[f].blocks[j])
             /\ t.itab[f].blocks[j] \in t.bused
             /\ g.itab[f].blocks[j] # NoBlk => t.store[t.itab[f].blocks[j]] = g.store[g.itab[f].blocks[j]]
  <2> DEFINE c == g.itab[f].blocks[j]
  <2>1. c \in g.bused /\ c \in BlockNos /\ src \in g.bused /\ dst \in g.bused
    BY <1>0, BlockFacts
  <2>2. t.itab[f].blocks[j] = IF f = o /\ j = m THEN src ELSE p.itab[f].blocks[j]
    BY <1>2, <1>3 DEF Put
  <2>3. p.itab[f].blocks[j] = IF f = owner /\ j = k THEN dst ELSE c
    BY <1>1 DEF Put
  <2>4. (c = src <=> f = owner /\ j = k) /\ (c = dst <=> f = o /\ j = m)
    BY <1>0, PlaceIs
  <2> HIDE DEF c
  <2>5. t.itab[f].blocks[j] = Exchange(src, dst, c)
    BY <2>2, <2>3, <2>4 DEF Exchange
  <2>6. Exchange(src, dst, c) \in g.bused
    BY <2>1 DEF Exchange
  <2>7. W[Exchange(src, dst, c)] = g.store[c]
    BY <2>1, <1>1 DEF Crossed, W
  <2>8. t.store[t.itab[f].blocks[j]] = g.store[c]
    BY <2>5, <2>7, <1>3
  <2> QED BY <2>5, <2>6, <2>8, <1>3 DEF c
<1>6. \A f \in Itab : t.itab[f].type = g.itab[f].type /\ t.itab[f].size = g.itab[f].size
  <2> SUFFICES ASSUME NEW f \in Itab PROVE t.itab[f].type = g.itab[f].type /\ t.itab[f].size = g.itab[f].size
    OBVIOUS
  <2>1. Q[f].type = p.itab[f].type /\ Q[f].size = p.itab[f].size
    BY <1>2 DEF Put
  <2>2. p.itab[f].type = g.itab[f].type /\ p.itab[f].size = g.itab[f].size
    BY <1>1 DEF Put
  <2>3. t.itab = Q
    BY <1>3
  <2> QED BY <2>1, <2>2, <2>3
<1> QED BY <1>0, <1>3, <1>4, <1>5, <1>6, ZenonT(40) DEF Exchanged

\* The state t is g with src in the place dst, free in g or of another inode.
Swaps(g, t, owner, src, dst) ==
  \/ getOwner(g, dst) = {} /\ t = ToFree(Placed(g, owner, src, dst), src, dst)
  \/ \E f : /\ getOwner(g, dst) = {f}
           /\ t = Exchanges(g, Placed(g, owner, src, dst), PutBack(g, Placed(g, owner, src, dst), f, src, dst))

\* A swap that is sane is one of the two.
LEMMA SwapOfSane ==
  ASSUME NEW s, Shape(s), NEW owner, NEW src, NEW dst, NEW r, r = swap(s, owner, src, dst), r.sane
  PROVE  Swaps(s.fs, r.fs, owner, src, dst)
<1> DEFINE p == Placed(s.fs, owner, src, dst)
           f == Target(s.fs, owner, dst).ino
<1>1. SwapDone(s, r, p, f, src, dst)
  BY SwapCases
<1> HIDE DEF f
<1> QED BY <1>1 DEF SwapDone, Swaps

\* Both exchange the two blocks.
LEMMA SwapsExchange ==
  ASSUME NEW g, Sound(g), Alone(g), NEW owner \in InUse(g), NEW k \in 0 .. InodeBlocks,
         NEW src, src = g.itab[owner].blocks[k], src # NoBlk, NEW dst \in BlockNos \ {NoBlk, src},
         NEW t, Swaps(g, t, owner, src, dst)
  PROVE  Exchanged(g, t, src, dst)
<1>1. CASE getOwner(g, dst) = {}
  <2>1. \A h \in Itab, j \in 0 .. InodeBlocks : g.itab[h].blocks[j] # dst
    BY <1>1, OwnerIs
  <2>2. t = ToFree(Placed(g, owner, src, dst), src, dst)
    BY <1>1 DEF Swaps
  <2> QED BY <2>1, <2>2, FreeIsExchanged
<1>2. CASE getOwner(g, dst) # {}
  <2>1. PICK h \in InUse(g), j \in 0 .. InodeBlocks : getOwner(g, dst) = {h} /\ g.itab[h].blocks[j] = dst
    BY <1>2, OwnerIs
  <2>2. t = Exchanges(g, Placed(g, owner, src, dst), PutBack(g, Placed(g, owner, src, dst), h, src, dst))
    BY <1>2, <2>1 DEF Swaps
  <2> QED BY <2>1, <2>2, OwnedIsExchanged
<1> QED BY <1>1, <1>2

\* A swap that is sane exchanges the two blocks.
LEMMA SaneSwap ==
  ASSUME NEW s, Shape(s), Sound(s.fs), Alone(s.fs), NEW owner \in InUse(s.fs), NEW k \in 0 .. InodeBlocks,
         NEW src, src = s.fs.itab[owner].blocks[k], src # NoBlk, NEW dst \in BlockNos \ {NoBlk, src},
         NEW r, r = swap(s, owner, src, dst), r.sane
  PROVE  Exchanged(s.fs, r.fs, src, dst)
<1>1. Swaps(s.fs, r.fs, owner, src, dst)
  BY SwapOfSane
<1> QED BY <1>1, SwapsExchange

-----------------------------------------------------------------------------
(* What is below an inode.                                                  *)

\* The least closed set with an inode.
Below(s, f) == {g \in InUse(s) : \A S \in SUBSET InUse(s) : f \in S /\ Closed(s, S) => g \in S}

\* An entry of a directory in use.
Child(s, d, f) == d \in DirsOf(s) /\ \E i \in Positions(s, d) : Entry(s, d, i).ino = f

\* Children have one parent; a closed set has the children of its members.
LEMMA ChildIs ==
  ASSUME NEW s, Linked(s)
  PROVE  /\ \A d, f : Child(s, d, f) => d \in InUse(s) /\ f \in InUse(s) \ {Root}
         /\ \A d, e, f : Child(s, d, f) /\ Child(s, e, f) => d = e
         /\ \A S : Closed(s, S) <=> \A d \in S : \A f : Child(s, d, f) => f \in S
<1>1. \A d, f : Child(s, d, f) => d \in InUse(s) /\ f \in InUse(s) \ {Root}
  BY DEF Linked, Child, DirsOf
<1>2. \A d, e, f : Child(s, d, f) /\ Child(s, e, f) => d = e
  BY DEF Linked, Child
<1>3. \A S : Closed(s, S) <=> \A d \in S : \A f : Child(s, d, f) => f \in S
  BY DEF Closed, Child
<1> QED BY <1>1, <1>2, <1>3

\* What is below an inode is the least closed set with it, and has the parents of all but it.
LEMMA BelowIs ==
  ASSUME NEW s, Linked(s), NEW f \in InUse(s)
  PROVE  /\ f \in Below(s, f) /\ Below(s, f) \subseteq InUse(s) /\ Closed(s, Below(s, f))
         /\ \A S \in SUBSET InUse(s) : f \in S /\ Closed(s, S) => Below(s, f) \subseteq S
         /\ f # Root => Root \notin Below(s, f)
         /\ \A g \in Below(s, f) : \A d : Child(s, d, g) /\ g # f => d \in Below(s, f)
<1>1. f \in Below(s, f) /\ Below(s, f) \subseteq InUse(s)
  BY DEF Below
<1>2. \A S \in SUBSET InUse(s) : f \in S /\ Closed(s, S) => Below(s, f) \subseteq S
  BY DEF Below
<1>3. Closed(s, Below(s, f))
  <2> SUFFICES ASSUME NEW d \in Below(s, f), NEW g, Child(s, d, g) PROVE g \in Below(s, f)
    BY ChildIs
  <2>1. g \in InUse(s)
    BY ChildIs
  <2>2. ASSUME NEW S \in SUBSET InUse(s), f \in S, Closed(s, S) PROVE g \in S
    <3>1. d \in S
      BY <2>2 DEF Below
    <3> QED BY <3>1, <2>2, ChildIs
  <2> QED BY <2>1, <2>2 DEF Below
<1>4. f # Root => Root \notin Below(s, f)
  <2> SUFFICES ASSUME f # Root PROVE Root \notin Below(s, f)
    OBVIOUS
  <2> DEFINE S == InUse(s) \ {Root}
  <2>1. f \in S /\ S \in SUBSET InUse(s)
    OBVIOUS
  <2>2. Closed(s, S)
    BY ChildIs
  <2> QED BY <2>1, <2>2, <1>2
<1>5. ASSUME NEW g \in Below(s, f), NEW d, Child(s, d, g), g # f, d \notin Below(s, f) PROVE FALSE
  <2> DEFINE S == Below(s, f) \ {g}
  <2>1. f \in S /\ S \in SUBSET InUse(s)
    BY <1>1, <1>5
  <2>2. Closed(s, S)
    <3> SUFFICES ASSUME NEW e \in S, NEW h, Child(s, e, h) PROVE h \in S
      BY ChildIs
    <3>1. h \in Below(s, f)
      BY <1>3, ChildIs
    <3>2. h # g
      BY <1>5, ChildIs
    <3> QED BY <3>1, <3>2
  <2> QED BY <2>1, <2>2, <1>2
<1> QED BY <1>1, <1>2, <1>3, <1>4, <1>5

\* The directories form a tree.
LEMMA BelowChild ==
  ASSUME NEW s, Sound(s), NEW d, NEW c, Child(s, d, c)
  PROVE  /\ d \notin Below(s, c) /\ Below(s, c) \subseteq Below(s, d)
         /\ \A e : Child(s, d, e) /\ e # c => Below(s, c) \cap Below(s, e) = {}
<1>0. Linked(s) /\ Rooted(s) /\ Formed(s)
  BY DEF Sound
<1>1. d \in InUse(s) /\ c \in InUse(s) /\ c # Root
  BY <1>0, ChildIs
<1>2. ASSUME NEW x, Child(s, d, x) PROVE d \notin Below(s, x)
  <2>0. x \in InUse(s) /\ x # Root
    BY <1>0, <1>2, ChildIs
  <2> SUFFICES ASSUME d \in Below(s, x) PROVE FALSE
    OBVIOUS
  <2> DEFINE S == InUse(s) \ Below(s, x)
  <2>1. Root \in S
    <3>1. Root \in InUse(s)
      BY <1>0, Constants DEF Formed, InUse
    <3> QED BY <3>1, <2>0, <1>0, BelowIs
  <2>2. Closed(s, S)
    <3> SUFFICES ASSUME NEW g \in S, NEW h, Child(s, g, h) PROVE h \in S
      BY <1>0, ChildIs
    <3>1. h \in InUse(s)
      BY <1>0, ChildIs
    <3>2. h = x => g = d
      BY <1>0, <1>2, ChildIs
    <3>3. h \notin Below(s, x)
      <4>1. h # x
        BY <3>2
      <4> QED BY <4>1, <2>0, <1>0, BelowIs
    <3> QED BY <3>1, <3>3
  <2>3. S = InUse(s)
    BY <2>1, <2>2, <1>0 DEF Rooted
  <2>4. x \in Below(s, x)
    BY <2>0, <1>0, BelowIs
  <2> QED BY <2>0, <2>3, <2>4
<1>3. Below(s, c) \subseteq Below(s, d)
  <2>1. Below(s, d) \in SUBSET InUse(s) /\ Closed(s, Below(s, d)) /\ d \in Below(s, d)
    BY <1>0, <1>1, BelowIs
  <2>2. c \in Below(s, d)
    BY <2>1, <1>0, ChildIs
  <2> QED BY <2>1, <2>2, <1>0, <1>1, BelowIs
<1>4. ASSUME NEW e, Child(s, d, e), e # c PROVE Below(s, c) \cap Below(s, e) = {}
  <2>0. e \in InUse(s)
    BY <1>0, <1>4, ChildIs
  <2> DEFINE T == Below(s, c) \ Below(s, e)
  <2>1. T \in SUBSET InUse(s)
    BY <1>0, <1>1, BelowIs
  <2>2. c \in T
    <3>1. c \in Below(s, c)
      BY <1>0, <1>1, BelowIs
    <3>2. c \in Below(s, e) => d \in Below(s, e)
      BY <1>0, <1>4, <2>0, BelowIs
    <3> QED BY <3>1, <3>2, <1>2, <1>4
  <2>3. Closed(s, T)
    <3> SUFFICES ASSUME NEW g \in T, NEW h, Child(s, g, h) PROVE h \in T
      BY <1>0, ChildIs
    <3>1. h \in Below(s, c)
      BY <1>0, <1>1, BelowIs, ChildIs
    <3>2. h = e => g = d
      BY <1>0, <1>4, ChildIs
    <3>3. h # e
      BY <3>2, <1>2
    <3>4. h \notin Below(s, e)
      BY <3>3, <2>0, <1>0, BelowIs
    <3> QED BY <3>1, <3>4
  <2> QED BY <2>1, <2>2, <2>3, <1>0, <1>1, BelowIs
<1> QED BY <1>2, <1>3, <1>4

\* Below an inode are the inode and what is below its entries.
LEMMA BelowParts ==
  ASSUME NEW s, Linked(s), NEW f \in InUse(s)
  PROVE  Below(s, f) \subseteq {f} \cup UNION {Below(s, c) : c \in {x \in InUse(s) : Child(s, f, x)}}
<1> DEFINE S == {f} \cup UNION {Below(s, c) : c \in {x \in InUse(s) : Child(s, f, x)}}
<1>1. f \in S /\ S \in SUBSET InUse(s)
  BY BelowIs
<1>2. Closed(s, S)
  <2> SUFFICES ASSUME NEW d \in S, NEW g, Child(s, d, g) PROVE g \in S
    BY ChildIs
  <2>1. CASE d = f
    <3>1. g \in InUse(s)
      BY ChildIs
    <3>2. g \in Below(s, g)
      BY <3>1, BelowIs
    <3> QED BY <3>1, <3>2, <2>1
  <2>2. CASE d # f
    <3>1. PICK c \in InUse(s) : Child(s, f, c) /\ d \in Below(s, c)
      BY <2>2
    <3>2. g \in Below(s, c)
      BY <3>1, BelowIs, ChildIs
    <3> QED BY <3>1, <3>2
  <2> QED BY <2>1, <2>2
<1> HIDE DEF S
<1> QED BY <1>1, <1>2, BelowIs DEF S

\* There are at most as many inodes below another as there are inodes.
LEMMA BelowSize ==
  ASSUME NEW s, Formed(s), NEW S \in SUBSET InUse(s)
  PROVE  IsFiniteSet(S) /\ Cardinality(S) \in Nat /\ Cardinality(S) <= NumInodes
<1>1. S \subseteq 0 .. NumInodes - 1
  BY StateType, Constants DEF Formed, InUse
<1>2. NumInodes \in Nat /\ 0 \in Nat /\ 0 <= NumInodes /\ NumInodes - 0 = NumInodes
  BY Constants
<1>3. IsFiniteSet(0 .. NumInodes - 1) /\ Cardinality(0 .. NumInodes - 1) = NumInodes
  BY <1>2, IntervalSize
<1>4. IsFiniteSet(S) /\ Cardinality(S) <= Cardinality(0 .. NumInodes - 1)
  BY <1>1, <1>3, FS_Subset
<1> QED BY <1>3, <1>4, FS_CardinalityType

-----------------------------------------------------------------------------
(* The exchange of entries before a removal.                                *)

\* In a directory of one page, the entry at i and the last one change places.
Swapped(s, t, dir, i) ==
  LET b == s.itab[dir].blocks[0]
      n == s.itab[dir].size - 1
  IN  /\ t \in States /\ t.iused = s.iused /\ t.bused = s.bused /\ t.itab = s.itab
      /\ \A c \in BlockNos \ {b} : t.store[c] = s.store[c]
      /\ \A k \in 0 .. PageSize - 1 :
           t.store[b][k] = s.store[b][IF k = i THEN n ELSE IF k = n THEN i ELSE k]

\* In a directory of one page the position is the cell.
LEMMA OnePage ==
  ASSUME NEW s, Formed(s), Backed(s), NEW dir \in Itab, s.itab[dir].blocks[1] = NoBlk
  PROVE  /\ s.itab[dir].size \in Nat /\ s.itab[dir].size <= PageSize
         /\ \A i \in Positions(s, dir) :
              /\ i \in 0 .. PageSize - 1 /\ PageOf(i) = 0 /\ CellOf(i) = i
              /\ Entry(s, dir, i) = s.store[s.itab[dir].blocks[0]][i]
<1> DEFINE n == ChainLength(s.itab[dir].blocks)
           size == s.itab[dir].size
<1>1. n \in Nat /\ n <= 1
  <2>1. 1 \in 0 .. InodeBlocks
    BY Constants
  <2>2. n \in 0 .. InodeBlocks /\ \A k \in 0 .. InodeBlocks : s.itab[dir].blocks[k] # NoBlk <=> k < n
    BY ChainIs
  <2>3. ~ (1 < n)
    BY <2>1, <2>2
  <2> HIDE DEF n
  <2> QED BY <2>2, <2>3
<1>2. size <= PageSize * n /\ size \in Nat
  BY ChainIs, StateType DEF Formed
<1>3. size <= PageSize
  <2> HIDE DEF n, size
  <2>1. n = 0 \/ n = 1
    BY <1>1
  <2> QED BY <2>1, <1>2, Constants
<1>4. ASSUME NEW i \in Positions(s, dir)
      PROVE  /\ i \in 0 .. PageSize - 1 /\ PageOf(i) = 0 /\ CellOf(i) = i
  <2>1. i \in 0 .. PageSize - 1
    BY <1>2, <1>3, Constants DEF Positions
  <2>2. PageSize * 0 + i = i
    BY <2>1, Constants
  <2>3. PageOf(PageSize * 0 + i) = 0 /\ CellOf(PageSize * 0 + i) = i
    BY <2>1, DivisionUnique
  <2> QED BY <2>1, <2>2, <2>3
<1> QED BY <1>2, <1>3, <1>4 DEF Entry

\* The first scan of swap_entry finds the entry.
LEMMA FoundAtIs ==
  ASSUME NEW s, Sound(s), NEW dir \in DirsOf(s), s.itab[dir].blocks[1] = NoBlk,
         NEW i \in Positions(s, dir), NEW file, file = Entry(s, dir, i).ino
  PROVE  FoundAt(s, dir, file) = [b |-> 0, be |-> i]
<1>0. Formed(s) /\ Backed(s) /\ Linked(s) /\ dir \in Itab
  BY StateType DEF Sound, Formed, DirsOf, InUse
<1> DEFINE num == s.itab[dir].size
           hits0 == {k \in 0 .. MinOf(PageSize, num) - 1 : s.store[s.itab[dir].blocks[0]][k].ino = file}
           seen == IF hits0 # {} THEN LeastOf(hits0) ELSE MinOf(PageSize, num)
<1>1. num \in Nat /\ num <= PageSize
  BY <1>0, OnePage
<1>2. 0 .. MinOf(PageSize, num) - 1 = Positions(s, dir)
  <2>1. MinOf(PageSize, num) = num
    BY <1>1, Constants DEF MinOf
  <2> QED BY <2>1 DEF Positions
<1>3. hits0 = {i}
  <2>1. \A k \in Positions(s, dir) : s.store[s.itab[dir].blocks[0]][k] = Entry(s, dir, k)
    BY <1>0, OnePage
  <2>2. \A k \in Positions(s, dir) : Entry(s, dir, k).ino = file => k = i
    BY <1>0 DEF Linked
  <2>3. hits0 = {k \in Positions(s, dir) : s.store[s.itab[dir].blocks[0]][k].ino = file}
    BY <1>2
  <2> QED BY <2>1, <2>2, <2>3
<1>4. seen = i
  <2>1. {i} \in SUBSET Nat
    BY <1>1 DEF Positions
  <2>2. LeastOf({i}) \in {i}
    BY <2>1, LeastNumber
  <2> QED BY <2>2, <1>3
<1> DEFINE X == [b |-> 1, be |-> LeastOf({k \in 0 .. MinOf(PageSize, num - seen) - 1 :
                                   s.store[s.itab[dir].blocks[1]][k].ino = file})]
           C == s.itab[dir].blocks[1] # NoBlk /\ {k \in 0 .. MinOf(PageSize, num - seen) - 1 :
                   s.store[s.itab[dir].blocks[1]][k].ino = file} # {}
<1>5. FoundAt(s, dir, file) = IF C THEN X ELSE [b |-> 0, be |-> seen]
  BY DEF FoundAt
<1>6. ~ C
  OBVIOUS
<1> HIDE DEF C, X, seen
<1> QED BY <1>4, <1>5, <1>6

\* swap_entry exchanges an entry and the last one.
LEMMA SwapIs ==
  ASSUME NEW s, Sound(s), NEW dir \in DirsOf(s), s.itab[dir].blocks[1] = NoBlk,
         NEW i \in Positions(s, dir), NEW file, file = Entry(s, dir, i).ino,
         NEW t, t = swap_entry(s, dir, file)
  PROVE  Swapped(s, t, dir, i)
<1>0. Formed(s) /\ Backed(s) /\ Linked(s) /\ dir \in Itab /\ s \in States
  BY StateType DEF Sound, Formed, DirsOf, InUse
<1> DEFINE num == s.itab[dir].size
           n == num - 1
           b == s.itab[dir].blocks[0]
           P == s.store[b]
           P1 == [P EXCEPT ![i] = P[n]]
           P2 == [P1 EXCEPT ![n] = P[i]]
           W == s.store
           W1 == [W EXCEPT ![b] = P1]
           W2 == [W1 EXCEPT ![b] = P2]
           I == s.iused
           B == s.bused
           T == s.itab
<1>1. num \in Nat /\ num <= PageSize /\ i \in 0 .. PageSize - 1 /\ n \in 0 .. PageSize - 1 /\ num > 0
  <2>1. num \in Nat /\ num <= PageSize /\ i \in 0 .. PageSize - 1
    BY <1>0, OnePage
  <2>2. num > 0
    BY <2>1 DEF Positions
  <2> QED BY <2>1, <2>2, Constants, SMTT(30)
<1>2. b \in BlockNos /\ P \in Pages
  <2>1. 0 \in 0 .. InodeBlocks
    BY Constants
  <2> QED BY <1>0, <2>1, StateType
<1>3. swap_entry(s, dir, file) = [s EXCEPT !.store[b][i] = P[n], !.store[b][n] = P[i]]
  <2>1. FoundAt(s, dir, file) = [b |-> 0, be |-> i]
    BY FoundAtIs
  <2>2. ~ (num > PageSize)
    BY <1>1, Constants
  <2> DEFINE at == FoundAt(s, dir, file)
             last == IF num > PageSize THEN [b |-> 1, be |-> (num % PageSize) - 1] ELSE [b |-> 0, be |-> num - 1]
             cellA == s.store[s.itab[dir].blocks[at.b]][at.be]
             cellB == s.store[s.itab[dir].blocks[last.b]][last.be]
  <2>3. at.b = 0 /\ at.be = i
    BY <2>1
  <2>4. last.b = 0 /\ last.be = n
    <3>1. last = [b |-> 0, be |-> num - 1]
      BY <2>2
    <3> QED BY <3>1
  <2>5. swap_entry(s, dir, file) = [s EXCEPT !.store[s.itab[dir].blocks[at.b]][at.be] = cellB,
                                             !.store[s.itab[dir].blocks[last.b]][last.be] = cellA]
    BY DEF swap_entry
  <2>6. cellA = P[i] /\ cellB = P[n] /\ s.itab[dir].blocks[at.b] = b /\ s.itab[dir].blocks[last.b] = b
    <3> HIDE DEF at, last, n
    <3> QED BY <2>3, <2>4
  <2> HIDE DEF at, last, cellA, cellB, n, b, P
  <2> QED BY <2>3, <2>4, <2>5, <2>6
<1>4. s = [iused |-> I, bused |-> B, itab |-> T, store |-> W] /\ W \in [BlockNos -> Pages]
  BY <1>0, StateType
<1> DEFINE s1 == [iused |-> I, bused |-> B, itab |-> T, store |-> W1]
           s2 == [iused |-> I, bused |-> B, itab |-> T, store |-> W2]
<1>5. [s EXCEPT !.store[b][i] = P[n]] = s1
  <2>1. [s EXCEPT !.store = W1] = s1
    <3> HIDE DEF I, B, T, W, W1
    <3> QED BY <1>4
  <2>2. [s EXCEPT !.store[b][i] = P[n]] = [s EXCEPT !.store = [W EXCEPT ![b][i] = P[n]]]
    <3>1. s.store = W
      OBVIOUS
    <3> HIDE DEF W, b, P, n
    <3> QED BY <3>1
  <2>3. [W EXCEPT ![b][i] = P[n]] = W1
    <3>1. W[b] = P
      OBVIOUS
    <3> HIDE DEF W, b, P, n
    <3> QED BY <3>1
  <2> HIDE DEF W1, s1, P, W
  <2> QED BY <2>1, <2>2, <2>3
<1>6. [s1 EXCEPT !.store[b][n] = P[i]] = s2
  <2>1. [s1 EXCEPT !.store = W2] = s2
    <3> HIDE DEF I, B, T, W, W1, W2
    <3> QED OBVIOUS
  <2>2. [s1 EXCEPT !.store[b][n] = P[i]] = [s1 EXCEPT !.store = [W1 EXCEPT ![b][n] = P[i]]]
    <3>1. s1.store = W1
      OBVIOUS
    <3> HIDE DEF W1, b, P, n, s1
    <3> QED BY <3>1
  <2>3. [W1 EXCEPT ![b][n] = P[i]] = W2
    <3>1. W1[b] = P1
      <4> HIDE DEF W, b, P1
      <4> QED BY <1>2, <1>4
    <3> HIDE DEF W1, b, P, n, P1
    <3> QED BY <3>1
  <2> HIDE DEF W1, W2, s1, s2, P
  <2> QED BY <2>1, <2>2, <2>3
<1>7. t = s2
  <2>1. [s EXCEPT !.store[b][i] = P[n], !.store[b][n] = P[i]]
          = [[s EXCEPT !.store[b][i] = P[n]] EXCEPT !.store[b][n] = P[i]]
    <3> HIDE DEF b, P, n
    <3> QED OBVIOUS
  <2> HIDE DEF s1, s2, b, P, n
  <2> QED BY <1>3, <1>5, <1>6, <2>1
<1>8. P2 \in Pages /\ \A k \in 0 .. PageSize - 1 : P2[k] = P[IF k = i THEN n ELSE IF k = n THEN i ELSE k]
  <2> HIDE DEF P, n
  <2>1. P1 \in Pages /\ \A k \in 0 .. PageSize - 1 : P1[k] = IF k = i THEN P[n] ELSE P[k]
    BY <1>1, <1>2 DEF Pages
  <2> HIDE DEF P1
  <2>2. P2 \in Pages /\ \A k \in 0 .. PageSize - 1 : P2[k] = IF k = n THEN P[i] ELSE P1[k]
    BY <1>1, <1>2, <2>1 DEF Pages
  <2> HIDE DEF P2
  <2> QED BY <2>1, <2>2
<1>9. W2 \in [BlockNos -> Pages] /\ W2[b] = P2 /\ \A c \in BlockNos \ {b} : W2[c] = W[c]
  <2>1. P1 \in Pages
    <3> HIDE DEF P, n
    <3> QED BY <1>1, <1>2 DEF Pages
  <2> HIDE DEF P1, P2, W, b
  <2> QED BY <1>2, <1>4, <1>8, <2>1
<1> HIDE DEF W2, P2
<1>10. t \in States /\ t.iused = I /\ t.bused = B /\ t.itab = T /\ t.store = W2
  <2>1. I \subseteq Itab /\ B \subseteq BlockNos /\ T \in [Itab -> InodeRecords]
    BY <1>0, StateType
  <2> HIDE DEF I, B, T
  <2> QED BY <2>1, <1>7, <1>9 DEF States
<1> QED BY <1>8, <1>9, <1>10 DEF Swapped

\* The exchange keeps the file system sound and puts the entry last.
LEMMA SwapKeeps ==
  ASSUME NEW s, Sound(s), NEW dir \in DirsOf(s), s.itab[dir].blocks[1] = NoBlk,
         NEW i \in Positions(s, dir), NEW t, Swapped(s, t, dir, i)
  PROVE  /\ Sound(t) /\ t.itab = s.itab /\ t.iused = s.iused /\ Retains(s, t, {})
         /\ s.itab[dir].size - 1 \in Positions(t, dir)
         /\ Entry(t, dir, s.itab[dir].size - 1).ino = Entry(s, dir, i).ino
<1>0. /\ Formed(s) /\ Backed(s) /\ Owned(s) /\ Linked(s) /\ Parented(s) /\ Rooted(s) /\ Filled(s)
      /\ dir \in InUse(s) /\ InUse(s) \subseteq Itab /\ dir \in Itab /\ s \in States
  BY StateType DEF Sound, Formed, DirsOf, InUse
<1> SUFFICES ASSUME NEW b, b = s.itab[dir].blocks[0], NEW n, n = s.itab[dir].size - 1
             PROVE  /\ Sound(t) /\ t.itab = s.itab /\ t.iused = s.iused /\ Retains(s, t, {})
                    /\ n \in Positions(t, dir) /\ Entry(t, dir, n).ino = Entry(s, dir, i).ino
  OBVIOUS
<1>1. /\ t \in States /\ t.iused = s.iused /\ t.bused = s.bused /\ t.itab = s.itab
      /\ \A c \in BlockNos \ {b} : t.store[c] = s.store[c]
      /\ \A k \in 0 .. PageSize - 1 : t.store[b][k] = s.store[b][Exchange(i, n, k)]
  BY DEF Swapped, Exchange
<1>2. /\ InUse(t) = InUse(s) /\ DirsOf(t) = DirsOf(s) /\ FilesOf(t) = FilesOf(s)
      /\ \A f : Positions(t, f) = Positions(s, f)
  BY <1>1 DEF InUse, DirsOf, FilesOf, Positions
<1>3. /\ s.itab[dir].size \in Nat /\ n \in Positions(s, dir)
      /\ \A k \in Positions(s, dir) : /\ k \in 0 .. PageSize - 1
                                      /\ Entry(s, dir, k) = s.store[b][k] /\ PageOf(k) = 0 /\ CellOf(k) = k
  <2>1. /\ s.itab[dir].size \in Nat
        /\ \A k \in Positions(s, dir) : /\ k \in 0 .. PageSize - 1
                                        /\ Entry(s, dir, k) = s.store[b][k] /\ PageOf(k) = 0 /\ CellOf(k) = k
    BY <1>0, OnePage
  <2>2. n \in Positions(s, dir)
    BY <2>1 DEF Positions
  <2> QED BY <2>1, <2>2
<1>4. \A k \in Positions(s, dir) : /\ Exchange(i, n, k) \in Positions(s, dir)
                                   /\ Exchange(i, n, Exchange(i, n, k)) = k
  BY <1>3 DEF Exchange
<1>5. \A k \in Positions(s, dir) : Entry(t, dir, k) = Entry(s, dir, Exchange(i, n, k))
  <2> SUFFICES ASSUME NEW k \in Positions(s, dir), NEW j, j = Exchange(i, n, k)
               PROVE  Entry(t, dir, k) = Entry(s, dir, j)
    OBVIOUS
  <2>1. j \in Positions(s, dir) /\ k \in 0 .. PageSize - 1 /\ PageOf(k) = 0 /\ CellOf(k) = k
    BY <1>3, <1>4
  <2>2. Entry(s, dir, j) = s.store[b][j]
    BY <1>3, <2>1
  <2>3. Entry(t, dir, k) = t.store[b][k]
    BY <1>1, <2>1 DEF Entry
  <2> QED BY <1>1, <2>1, <2>2, <2>3
<1>6. ASSUME NEW f \in InUse(s), f # dir PROVE \A k \in Positions(s, f) : Entry(t, f, k) = Entry(s, f, k)
  <2>1. b # NoBlk /\ 0 \in 0 .. InodeBlocks
    <3>1. PageOf(i) = 0
      BY <1>3
    <3> QED BY <3>1, <1>0, Constants DEF Backed
  <2>2. \A k \in 0 .. InodeBlocks : s.itab[f].blocks[k] # b
    <3>1. dir \notin FilesOf(s)
      BY Constants DEF DirsOf, FilesOf
    <3> QED BY <3>1, <1>0, <1>6, <2>1 DEF Owned
  <2>3. \A k \in 0 .. InodeBlocks : s.itab[f].blocks[k] \in BlockNos
    BY <1>0, <1>6, StateType
  <2>4. \A k \in 0 .. InodeBlocks : t.store[t.itab[f].blocks[k]] = s.store[s.itab[f].blocks[k]]
    BY <1>1, <2>2, <2>3
  <2> QED BY <2>4, <1>0, <1>1, EntryKept
<1> DEFINE At(f, k) == IF f = dir THEN Exchange(i, n, k) ELSE k
<1>7. \A f \in InUse(s) : \A k \in Positions(s, f) :
        Entry(t, f, k) = Entry(s, f, At(f, k)) /\ At(f, k) \in Positions(s, f) /\ At(f, At(f, k)) = k
  BY <1>4, <1>5, <1>6
<1> HIDE DEF At
<1>8. Formed(t) /\ Backed(t) /\ Owned(t)
  <2>1. Formed(t)
    BY <1>0, <1>1, <1>2 DEF Formed
  <2>2. Backed(t)
    BY <1>0, <1>1, <1>2 DEF Backed
  <2>3. Owned(t)
    BY <1>0, <1>1, <1>2 DEF Owned
  <2> QED BY <2>1, <2>2, <2>3
<1>9. DirsOf(s) \subseteq InUse(s) /\ FilesOf(s) \subseteq InUse(s)
  BY DEF DirsOf, FilesOf
<1>10. Linked(t)
  <2> SUFFICES ASSUME NEW d \in DirsOf(s), NEW k \in Positions(s, d)
               PROVE  /\ Entry(t, d, k).ino \in InUse(s) \ {Root} /\ Entry(t, d, k).name \in Names
                      /\ \A j \in Positions(s, d) : Entry(t, d, k).name = Entry(t, d, j).name => k = j
                      /\ \A e \in DirsOf(s) : \A j \in Positions(s, e) :
                           Entry(t, d, k).ino = Entry(t, e, j).ino => d = e /\ k = j
    BY <1>2 DEF Linked
  <2>1. Entry(t, d, k) = Entry(s, d, At(d, k)) /\ At(d, k) \in Positions(s, d) /\ At(d, At(d, k)) = k
    BY <1>7, <1>9
  <2>2. Entry(t, d, k).ino \in InUse(s) \ {Root} /\ Entry(t, d, k).name \in Names
    BY <2>1, <1>0 DEF Linked
  <2>3. ASSUME NEW j \in Positions(s, d), Entry(t, d, k).name = Entry(t, d, j).name PROVE k = j
    <3>1. Entry(t, d, j) = Entry(s, d, At(d, j)) /\ At(d, j) \in Positions(s, d) /\ At(d, At(d, j)) = j
      BY <1>7, <1>9
    <3>2. At(d, k) = At(d, j)
      BY <2>1, <2>3, <3>1, <1>0 DEF Linked
    <3> QED BY <3>1, <3>2, <2>1
  <2>4. ASSUME NEW e \in DirsOf(s), NEW j \in Positions(s, e), Entry(t, d, k).ino = Entry(t, e, j).ino
        PROVE  d = e /\ k = j
    <3>1. Entry(t, e, j) = Entry(s, e, At(e, j)) /\ At(e, j) \in Positions(s, e) /\ At(e, At(e, j)) = j
      BY <1>7, <1>9
    <3>2. d = e /\ At(d, k) = At(e, j)
      BY <2>1, <2>4, <3>1, <1>0 DEF Linked
    <3> QED BY <3>1, <3>2, <2>1
  <2> QED BY <2>2, <2>3, <2>4
<1>11. \A d, f : Child(t, d, f) <=> Child(s, d, f)
  <2>1. ASSUME NEW d \in DirsOf(s), NEW k \in Positions(s, d)
        PROVE  /\ \E j \in Positions(s, d) : Entry(t, d, j) = Entry(s, d, k)
               /\ \E j \in Positions(s, d) : Entry(s, d, j) = Entry(t, d, k)
    BY <1>7, <1>9
  <2>2. ASSUME NEW d, NEW f, Child(t, d, f) PROVE Child(s, d, f)
    BY <2>1, <2>2, <1>2 DEF Child
  <2>3. ASSUME NEW d, NEW f, Child(s, d, f) PROVE Child(t, d, f)
    BY <2>1, <2>3, <1>2 DEF Child
  <2> QED BY <2>2, <2>3
<1>12. Parented(t)
  <2>1. Parented(s) <=> \A f \in InUse(s) \ {Root} : \E d : Child(s, d, f)
    BY DEF Parented, Child
  <2>2. Parented(t) <=> \A f \in InUse(t) \ {Root} : \E d : Child(t, d, f)
    BY DEF Parented, Child
  <2> QED BY <2>1, <2>2, <1>0, <1>2, <1>11
<1>13. Rooted(t)
  <2> SUFFICES ASSUME NEW S \in SUBSET InUse(s), Root \in S, Closed(t, S) PROVE S = InUse(s)
    BY <1>2 DEF Rooted
  <2>1. Closed(s, S)
    <3>1. \A d \in S : \A f : Child(t, d, f) => f \in S
      BY <1>10, ChildIs
    <3> QED BY <3>1, <1>0, <1>11, ChildIs
  <2> QED BY <2>1, <1>0 DEF Rooted
<1>14. Filled(t)
  <2> SUFFICES ASSUME NEW f \in FilesOf(s), NEW k \in Positions(s, f) PROVE Entry(t, f, k).name \in Data
    BY <1>2 DEF Filled
  <2>1. Entry(t, f, k) = Entry(s, f, At(f, k)) /\ At(f, k) \in Positions(s, f)
    BY <1>7, <1>9
  <2> QED BY <2>1, <1>0 DEF Filled
<1>15. n \in Positions(t, dir) /\ Entry(t, dir, n).ino = Entry(s, dir, i).ino
  <2>1. Exchange(i, n, n) = i
    BY DEF Exchange
  <2> QED BY <2>1, <1>2, <1>3, <1>5
<1>16. Retains(s, t, {})
  <2>1. ASSUME NEW d, NEW m, NEW e, HasEntry(s, d, m, e) PROVE HasEntry(t, d, m, e)
    <3>1. PICK k \in Positions(s, d) : d \in DirsOf(s) /\ Entry(s, d, k).name = m /\ Entry(s, d, k).ino = e
      BY <2>1 DEF HasEntry
    <3>2. \E j \in Positions(s, d) : Entry(t, d, j) = Entry(s, d, k)
      BY <3>1, <1>7, <1>9
    <3> QED BY <3>1, <3>2, <1>2 DEF HasEntry
  <2>2. ASSUME NEW f \in FilesOf(s) PROVE Content(t, f) = Content(s, f)
    <3>1. f \in InUse(s) /\ f # dir /\ s.itab[f].size \in Nat
      BY <1>0, <1>9, StateType, Constants DEF DirsOf, FilesOf
    <3>2. \A k \in Positions(s, f) : Entry(t, f, k).name = Entry(s, f, k).name
      BY <1>6, <3>1
    <3> QED BY <1>1, <3>1, <3>2, ContentKept
  <2> QED BY <1>1, <1>2, <2>1, <2>2 DEF Retains
<1> QED BY <1>1, <1>8, <1>10, <1>12, <1>13, <1>14, <1>15, <1>16 DEF Sound

-----------------------------------------------------------------------------
(* Removal.                                                                 *)

\* From s to t the inodes in G are released, and nothing that is left changes.
Removed(s, t, G) ==
  /\ t \in States /\ t.iused = s.iused \ G /\ NoBlk \in t.bused
  /\ \A f \in Itab \ G : t.itab[f] = s.itab[f]
  /\ \A f \in G : t.itab[f] = fsi_inode_init(FILE)
  /\ \A f \in InUse(s) \ G, k \in 0 .. InodeBlocks :
       s.itab[f].blocks[k] # NoBlk =>
         s.itab[f].blocks[k] \in t.bused /\ t.store[s.itab[f].blocks[k]] = s.store[s.itab[f].blocks[k]]

\* The blocks that the removal of a file frees.
Freed(s, file) ==
  IF Sharers(s, file) # {} THEN {}
  ELSE {s.itab[file].blocks[k] : k \in 0 .. ChainLength(s.itab[file].blocks) - 1}

\* An inode as fsi_inode_init leaves it.
LEMMA InitIs ==
  ASSUME NEW type \in {FILE, DIR}
  PROVE  /\ fsi_inode_init(type) \in InodeRecords
         /\ fsi_inode_init(type).type = type /\ fsi_inode_init(type).size = 0
         /\ \A k \in 0 .. InodeBlocks : fsi_inode_init(type).blocks[k] = NoBlk
<1> DEFINE m == InodeBlocks * PageSize
           n == fsi_inode_init(type)
<1>1. m \in Nat
  BY Constants
<1>2. NoBlocks \in [0 .. InodeBlocks -> BlockNos] /\ \A k \in 0 .. InodeBlocks : NoBlocks[k] = NoBlk
  BY Constants DEF NoBlocks
<1> HIDE DEF m
<1>3. n = [type |-> type, size |-> 0, blocks |-> NoBlocks] /\ 0 \in 0 .. m
  BY <1>1 DEF fsi_inode_init
<1> HIDE DEF n
<1>4. n \in [type : {FILE, DIR}, size : 0 .. m, blocks : [0 .. InodeBlocks -> BlockNos]]
  BY <1>2, <1>3
<1>5. n.type = type /\ n.size = 0 /\ n.blocks = NoBlocks
  BY <1>3
<1> QED BY <1>2, <1>4, <1>5 DEF InodeRecords, m, n

\* Release as one record.
LEMMA ReleaseIs ==
  ASSUME NEW s \in States, NEW file \in Itab, NEW stale, NEW t, t = Release(s, file, stale)
  PROVE  /\ t \in States /\ t.iused = s.iused \ {file} /\ t.bused = s.bused \ Freed(s, file)
         /\ \A f \in Itab \ {file} : t.itab[f] = s.itab[f]
         /\ t.itab[file] = fsi_inode_init(FILE)
         /\ \A b \in BlockNos : b \notin Freed(s, file) => t.store[b] = s.store[b]
<1> DEFINE I == s.iused
           B == s.bused
           T == s.itab
           W == s.store
           F == Freed(s, file)
           n == fsi_inode_init(FILE)
           W1 == [b \in BlockNos |-> IF b \in F \ stale THEN ZeroPage ELSE W[b]]
           B1 == B \ F
           I1 == I \ {file}
           T1 == [T EXCEPT ![file] = n]
<1>1. s = [iused |-> I, bused |-> B, itab |-> T, store |-> W]
      /\ I \subseteq Itab /\ B \subseteq BlockNos /\ T \in [Itab -> InodeRecords] /\ W \in [BlockNos -> Pages]
  BY StateType
<1>2. t = [s EXCEPT !.store = [b \in BlockNos |-> IF b \in F \ stale THEN ZeroPage ELSE @[b]],
                    !.bused = @ \ F, !.iused = @ \ {file}, !.itab[file] = n]
  BY DEF Release, Freed
<1>3. n \in InodeRecords
  BY InitIs
<1>4. ZeroPage \in Pages
  BY Constants DEF ZeroPage, ZeroCell, Pages, Cells
<1> HIDE DEF F, n
<1> DEFINE s1 == [iused |-> I, bused |-> B, itab |-> T, store |-> W1]
           s2 == [iused |-> I, bused |-> B1, itab |-> T, store |-> W1]
           s3 == [iused |-> I1, bused |-> B1, itab |-> T, store |-> W1]
           s4 == [iused |-> I1, bused |-> B1, itab |-> T1, store |-> W1]
<1>5. [s EXCEPT !.store = W1] = s1
  <2> HIDE DEF I, B, T, W, W1
  <2> QED BY <1>1
<1>6. [s1 EXCEPT !.bused = B1] = s2
  <2> HIDE DEF I, B, T, W1, B1
  <2> QED OBVIOUS
<1>7. [s2 EXCEPT !.iused = I1] = s3
  <2> HIDE DEF I, B1, T, W1, I1
  <2> QED OBVIOUS
<1>8. [s3 EXCEPT !.itab = T1] = s4
  <2> HIDE DEF I1, B1, T, W1, T1
  <2> QED OBVIOUS
<1>9. [s3 EXCEPT !.itab[file] = n] = s4
  <2>1. s3.itab = T
    OBVIOUS
  <2> HIDE DEF s3, s4, T
  <2> QED BY <2>1, <1>8
<1>10. t = s4
  <2>1. s.store = W /\ s1.bused = B /\ s2.iused = I
    OBVIOUS
  <2>2. t = [[[[s EXCEPT !.store = W1] EXCEPT !.bused = @ \ F] EXCEPT !.iused = @ \ {file}] EXCEPT !.itab[file] = n]
    BY <1>2
  <2> HIDE DEF s1, s2, s3, s4, W, W1
  <2>3. [s1 EXCEPT !.bused = @ \ F] = s2
    <3> HIDE DEF B
    <3> QED BY <2>1, <1>6 DEF B1
  <2>4. [s2 EXCEPT !.iused = @ \ {file}] = s3
    <3> HIDE DEF I
    <3> QED BY <2>1, <1>7 DEF I1
  <2> QED BY <2>2, <2>3, <2>4, <1>5, <1>9
<1>11. W1 \in [BlockNos -> Pages] /\ \A b \in BlockNos : b \notin F => W1[b] = W[b]
  <2> HIDE DEF W
  <2> QED BY <1>1, <1>4
<1>12. T1 \in [Itab -> InodeRecords] /\ T1[file] = n /\ \A f \in Itab \ {file} : T1[f] = T[f]
  <2> HIDE DEF T
  <2> QED BY <1>1, <1>3
<1> HIDE DEF W1, T1
<1>13. t \in States /\ t.iused = I1 /\ t.bused = B1 /\ t.itab = T1 /\ t.store = W1
  <2> HIDE DEF I, B
  <2>1. I1 \subseteq Itab /\ B1 \subseteq BlockNos
    BY <1>1
  <2> HIDE DEF I1, B1
  <2> QED BY <2>1, <1>10, <1>11, <1>12 DEF States
<1> QED BY <1>11, <1>12, <1>13 DEF F, n

\* Releasing one more inode.
LEMMA ReleaseRemoves ==
  ASSUME NEW s, Sound(s), NEW u, NEW G \in SUBSET InUse(s), Removed(s, u, G), NEW f \in InUse(s) \ G,
         NEW stale, NEW t, t = Release(u, f, stale)
  PROVE  Removed(s, t, G \cup {f})
<1>0. /\ Formed(s) /\ Backed(s) /\ Owned(s) /\ InUse(s) \subseteq Itab /\ f \in Itab /\ u \in States /\ s \in States
  BY StateType DEF Sound, Formed, InUse, Removed
<1>1. /\ t \in States /\ t.iused = u.iused \ {f} /\ t.bused = u.bused \ Freed(u, f)
      /\ \A g \in Itab \ {f} : t.itab[g] = u.itab[g]
      /\ t.itab[f] = fsi_inode_init(FILE)
      /\ \A b \in BlockNos : b \notin Freed(u, f) => t.store[b] = u.store[b]
  BY <1>0, ReleaseIs
<1>2. u.itab[f] = s.itab[f]
  BY <1>0 DEF Removed
<1>3. \A b \in Freed(u, f) : b # NoBlk /\ \E k \in 0 .. InodeBlocks : b = s.itab[f].blocks[k]
  <2> DEFINE n == ChainLength(s.itab[f].blocks)
  <2>1. n \in 0 .. InodeBlocks /\ \A k \in 0 .. InodeBlocks : s.itab[f].blocks[k] # NoBlk <=> k < n
    BY <1>0, ChainIs
  <2>2. \A k \in 0 .. n - 1 : k \in 0 .. InodeBlocks /\ s.itab[f].blocks[k] # NoBlk
    <3> HIDE DEF n
    <3>1. \A k \in 0 .. n - 1 : k \in 0 .. InodeBlocks /\ k < n
      BY <2>1, Constants
    <3> QED BY <2>1, <3>1
  <2> QED BY <2>2, <1>2 DEF Freed
<1>4. ASSUME NEW g \in InUse(s) \ (G \cup {f}), NEW k \in 0 .. InodeBlocks, s.itab[g].blocks[k] # NoBlk
      PROVE  s.itab[g].blocks[k] \notin Freed(u, f)
  <2> SUFFICES ASSUME s.itab[g].blocks[k] \in Freed(u, f) PROVE FALSE
    OBVIOUS
  <2>1. PICK j \in 0 .. InodeBlocks : s.itab[g].blocks[k] = s.itab[f].blocks[j]
    BY <1>3
  <2>2. j = 0 /\ k = 0
    BY <2>1, <1>0, <1>4 DEF Owned
  <2>3. g \in Inodes \ {f} /\ g \in u.iused /\ u.itab[g] = s.itab[g]
    BY <1>0, Constants DEF Removed, InUse, Itab, Inodes
  <2>4. g \in Sharers(u, f)
    BY <2>1, <2>2, <2>3, <1>2, <1>4 DEF Sharers
  <2> QED BY <2>4 DEF Freed
<1>5. NoBlk \in t.bused
  BY <1>1, <1>3 DEF Removed
<1>6. ASSUME NEW g \in InUse(s) \ (G \cup {f}), NEW k \in 0 .. InodeBlocks, s.itab[g].blocks[k] # NoBlk
      PROVE  s.itab[g].blocks[k] \in t.bused /\ t.store[s.itab[g].blocks[k]] = s.store[s.itab[g].blocks[k]]
  <2>1. s.itab[g].blocks[k] \in u.bused /\ u.store[s.itab[g].blocks[k]] = s.store[s.itab[g].blocks[k]]
    BY <1>6 DEF Removed
  <2>2. s.itab[g].blocks[k] \in BlockNos /\ s.itab[g].blocks[k] \notin Freed(u, f)
    BY <1>0, <1>4, <1>6, StateType
  <2> QED BY <2>1, <2>2, <1>1
<1>7. t.iused = s.iused \ (G \cup {f})
  BY <1>1 DEF Removed
<1>8. /\ \A g \in Itab \ (G \cup {f}) : t.itab[g] = s.itab[g]
      /\ \A g \in G \cup {f} : t.itab[g] = fsi_inode_init(FILE)
  BY <1>0, <1>1 DEF Removed
<1> QED BY <1>1, <1>5, <1>6, <1>7, <1>8 DEF Removed

\* The entries of what is left are as they were.
LEMMA RemovedEntry ==
  ASSUME NEW s, Sound(s), NEW t, NEW G, Removed(s, t, G), NEW f \in InUse(s) \ G
  PROVE  /\ t.itab[f] = s.itab[f] /\ Positions(t, f) = Positions(s, f)
         /\ \A i \in Positions(s, f) : Entry(t, f, i) = Entry(s, f, i)
<1>1. f \in Itab /\ Formed(s) /\ Backed(s)
  BY StateType DEF Sound, Formed, InUse
<1>2. t.itab[f] = s.itab[f]
  BY <1>1 DEF Removed
<1>3. \A k \in 0 .. InodeBlocks : s.itab[f].blocks[k] # NoBlk =>
         t.store[t.itab[f].blocks[k]] = s.store[s.itab[f].blocks[k]]
  BY <1>2 DEF Removed
<1> QED BY <1>1, <1>2, <1>3, EntryKept

-----------------------------------------------------------------------------
(* The recursion of a removal.                                              *)

\* The walk of a removal over the entries of a directory; the recursion, by depth.
WalkIs(w, g, s, f) ==
  w = [n \in 0 .. s.itab[f].size |->
        IF n = 0 THEN s ELSE LET t == w[n - 1] IN g[Entry(t, f, n - 1).ino][t]]

WalkOf(g, s, f) == (CHOOSE w : WalkIs(w, g, s, f))[s.itab[f].size]

GoneUpTo(h, stale) ==
  h = [d \in 0 .. Depth |->
        [f \in Itab |-> [s \in States |->
          IF d = 0 THEN s
          ELSE Release(IF s.itab[f].type = DIR THEN WalkOf(h[d - 1], s, f) ELSE s, f, stale)]]]

\* fs_remove_aux by its equation.
LEMMA GoneIs ==
  ASSUME NEW s, NEW file, NEW stale
  PROVE  \E h : GoneUpTo(h, stale) /\ fs_remove_aux(s, file, stale) = h[Depth][file][s]
<1> DEFINE None == [f \in Itab |-> [x \in States |-> x]]
           Step(g) == [f \in Itab |-> [x \in States |->
                        Release(IF x.itab[f].type = DIR THEN WalkOf(g, x, f) ELSE x, f, stale)]]
           Good(u, m) == /\ DOMAIN u = 0 .. Depth /\ u[0] = None
                         /\ \A n \in 1 .. m : u[n] = Step(u[n - 1])
           T == {m \in 0 .. Depth : \E u : Good(u, m)}
<1>0. Depth \in Nat
  BY Constants DEF Depth
<1> HIDE DEF None, Step
<1>1. 0 \in T
  <2>1. Good([n \in 0 .. Depth |-> None], 0)
    BY <1>0
  <2>2. \E x : Good(x, 0)
    BY <2>1
  <2>3. 0 \in 0 .. Depth
    BY <1>0
  <2> HIDE DEF Good
  <2> QED BY <2>2, <2>3
<1>2. \A m \in 1 .. Depth : m - 1 \in T => m \in T
  <2> SUFFICES ASSUME NEW m \in 1 .. Depth, m - 1 \in T PROVE m \in T
    OBVIOUS
  <2>0. m \in 0 .. Depth
    BY <1>0
  <2>1. PICK u : Good(u, m - 1)
    OBVIOUS
  <2> DEFINE v == Step(u[m - 1])
             w == [n \in 0 .. Depth |-> IF n = m THEN v ELSE u[n]]
  <2>2. Good(w, m)
    <3>1. DOMAIN w = 0 .. Depth /\ w[0] = None
      BY <1>0, <2>1
    <3>2. ASSUME NEW n \in 1 .. m PROVE w[n] = Step(w[n - 1])
      <4>1. n \in 0 .. Depth /\ n - 1 \in 0 .. Depth /\ n - 1 # m
        BY <1>0
      <4>2. CASE n = m
        <5>1. w[n] = v /\ w[n - 1] = u[n - 1]
          BY <4>1, <4>2
        <5> HIDE DEF w
        <5> QED BY <5>1, <4>2
      <4>3. CASE n # m
        <5>1. w[n] = u[n] /\ w[n - 1] = u[n - 1] /\ n \in 1 .. m - 1
          BY <4>1, <4>3
        <5> HIDE DEF w
        <5> QED BY <5>1, <2>1
      <4> QED BY <4>2, <4>3
    <3> QED BY <3>1, <3>2
  <2>3. \E x : Good(x, m)
    BY <2>2
  <2> HIDE DEF Good, w
  <2> QED BY <2>0, <2>3
<1>3. Depth \in T
  <2> HIDE DEF T
  <2>1. \A n \in 0 .. Depth : n \in T
    BY <1>0, <1>1, <1>2, BoundedInduction
  <2> QED BY <1>0, <2>1
<1>4. PICK u : Good(u, Depth)
  BY <1>3
<1> DEFINE w == [n \in 0 .. Depth |-> u[n]]
<1>5. GoneUpTo(w, stale)
  <2>1. ASSUME NEW n \in 0 .. Depth
        PROVE  w[n] = [f \in Itab |-> [x \in States |->
                  IF n = 0 THEN x ELSE Release(IF x.itab[f].type = DIR THEN WalkOf(w[n - 1], x, f) ELSE x, f, stale)]]
    <3>1. CASE n = 0
      <4>1. w[n] = None
        BY <3>1, <1>4
      <4>2. None = [f \in Itab |-> [x \in States |->
                  IF n = 0 THEN x ELSE Release(IF x.itab[f].type = DIR THEN WalkOf(w[n - 1], x, f) ELSE x, f, stale)]]
        BY <3>1 DEF None
      <4> QED BY <4>1, <4>2
    <3>2. CASE n # 0
      <4>1. n \in 1 .. Depth /\ n - 1 \in 0 .. Depth
        BY <3>2, <1>0
      <4>2. w[n] = Step(w[n - 1])
        BY <4>1, <1>4
      <4> HIDE DEF w
      <4>3. Step(w[n - 1]) = [f \in Itab |-> [x \in States |->
                  IF n = 0 THEN x ELSE Release(IF x.itab[f].type = DIR THEN WalkOf(w[n - 1], x, f) ELSE x, f, stale)]]
        BY <3>2 DEF Step
      <4> QED BY <4>2, <4>3
    <3> QED BY <3>1, <3>2
  <2>2. w = [n \in 0 .. Depth |-> w[n]]
    OBVIOUS
  <2> HIDE DEF w
  <2> QED BY <2>1, <2>2 DEF GoneUpTo
<1> DEFINE H == CHOOSE h : GoneUpTo(h, stale)
<1>6. GoneUpTo(H, stale)
  <2> HIDE DEF w
  <2> QED BY <1>5
<1>7. fs_remove_aux(s, file, stale) = H[Depth][file][s]
  BY DEF fs_remove_aux, GoneUpTo, WalkOf, WalkIs
<1> HIDE DEF H
<1> QED BY <1>6, <1>7

\* The walk over the entries of a directory ends in I[N] if it starts in I[0]
\* and every entry leads from I[n - 1] to I[n].
LEMMA WalkKeeps ==
  ASSUME NEW s, NEW f, NEW g, NEW N \in Nat, N = s.itab[f].size, NEW I,
         s \in I[0], \A n \in 0 .. N : I[n] \subseteq States,
         \A n \in 1 .. N : \A x \in I[n - 1] : g[Entry(x, f, n - 1).ino][x] \in I[n]
  PROVE  WalkOf(g, s, f) \in I[N]
<1> DEFINE F == [n \in 1 .. N |-> [x \in States |-> g[Entry(x, f, n - 1).ino][x]]]
<1>1. \A n \in 1 .. N : \A x \in I[n - 1] : F[n][x] = g[Entry(x, f, n - 1).ino][x] /\ F[n][x] \in I[n]
  OBVIOUS
<1> HIDE DEF F
<1>2. PICK u : Steps(u, N, s, F)
  BY StepsExist
<1>3. \A n \in 0 .. N : u[n] \in I[n]
  <2>1. \A n \in 1 .. N : \A x \in I[n - 1] : F[n][x] \in I[n]
    BY <1>1
  <2> QED BY <2>1, <1>2, StepsKeep
<1>4. WalkIs(u, g, s, f)
  <2>1. u = [n \in 0 .. N |-> IF n = 0 THEN s ELSE F[n][u[n - 1]]]
    BY <1>2 DEF Steps
  <2>2. \A n \in 0 .. N : (IF n = 0 THEN s ELSE F[n][u[n - 1]])
            = (IF n = 0 THEN s ELSE g[Entry(u[n - 1], f, n - 1).ino][u[n - 1]])
    <3> SUFFICES ASSUME NEW n \in 0 .. N, n # 0
                 PROVE  F[n][u[n - 1]] = g[Entry(u[n - 1], f, n - 1).ino][u[n - 1]]
      OBVIOUS
    <3>1. n \in 1 .. N /\ n - 1 \in 0 .. N
      OBVIOUS
    <3> QED BY <3>1, <1>1, <1>3
  <2>3. u = [n \in 0 .. N |-> IF n = 0 THEN s ELSE g[Entry(u[n - 1], f, n - 1).ino][u[n - 1]]]
    BY <2>1, <2>2
  <2> QED BY <2>3 DEF WalkIs
<1> DEFINE w == CHOOSE x : WalkIs(x, g, s, f)
<1>5. WalkIs(w, g, s, f)
  BY <1>4
<1>6. WalkOf(g, s, f) = w[N]
  BY DEF WalkOf
<1> HIDE DEF w
<1>7. w[0] = s /\ \A n \in 1 .. N : w[n] = g[Entry(w[n - 1], f, n - 1).ino][w[n - 1]]
  <2>1. w = [n \in 0 .. N |-> IF n = 0 THEN s ELSE g[Entry(w[n - 1], f, n - 1).ino][w[n - 1]]]
    BY <1>5 DEF WalkIs
  <2>2. \A n \in 0 .. N : w[n] = IF n = 0 THEN s ELSE g[Entry(w[n - 1], f, n - 1).ino][w[n - 1]]
    BY <2>1
  <2>3. w[0] = s
    BY <2>2
  <2>4. ASSUME NEW n \in 1 .. N PROVE w[n] = g[Entry(w[n - 1], f, n - 1).ino][w[n - 1]]
    <3>1. n \in 0 .. N /\ n # 0
      OBVIOUS
    <3> QED BY <3>1, <2>2
  <2> QED BY <2>3, <2>4
<1> DEFINE T == {n \in 0 .. N : w[n] \in I[n]}
<1>8. \A n \in 0 .. N : n \in T
  <2>1. 0 \in T
    BY <1>7
  <2>2. \A n \in 1 .. N : n - 1 \in T => n \in T
    <3> SUFFICES ASSUME NEW n \in 1 .. N, n - 1 \in T PROVE n \in T
      OBVIOUS
    <3>1. w[n] = g[Entry(w[n - 1], f, n - 1).ino][w[n - 1]] /\ n \in 0 .. N
      BY <1>7
    <3>2. w[n - 1] \in I[n - 1]
      OBVIOUS
    <3>3. w[n] \in I[n]
      BY <3>1, <3>2
    <3> QED BY <3>1, <3>3
  <2> HIDE DEF T
  <2> QED BY <2>1, <2>2, BoundedInduction
<1> QED BY <1>6, <1>8

\* What gone[d][f] promises: what is below f goes, if that is at most d inodes.
Goes(h, s, d) ==
  \A f \in InUse(s), G \in SUBSET InUse(s), u \in States :
    Removed(s, u, G) /\ Below(s, f) \cap G = {} /\ Cardinality(Below(s, f)) <= d =>
      Removed(s, h[d][f][u], G \cup Below(s, f))

\* What is gone when the first n entries of f are.
GoneBy(s, G, f, n) == G \cup UNION {Below(s, Entry(s, f, i).ino) : i \in 0 .. n - 1}

\* The walk over the entries of a directory removes what is below it.
LEMMA EntriesGo ==
  ASSUME NEW s, Sound(s), NEW h, NEW d \in Nat, Goes(h, s, d),
         NEW f \in DirsOf(s), NEW G \in SUBSET InUse(s), NEW u \in States,
         Removed(s, u, G), Below(s, f) \cap G = {}, Cardinality(Below(s, f)) <= d + 1
  PROVE  /\ Removed(s, WalkOf(h[d], u, f), GoneBy(s, G, f, s.itab[f].size))
         /\ GoneBy(s, G, f, s.itab[f].size) \subseteq InUse(s) \ {f}
         /\ GoneBy(s, G, f, s.itab[f].size) \cup {f} = G \cup Below(s, f)
<1> DEFINE N == s.itab[f].size
           c(i) == Entry(s, f, i).ino
           I == [n \in 0 .. N |-> {x \in States : Removed(s, x, GoneBy(s, G, f, n))}]
<1>0. /\ Formed(s) /\ Backed(s) /\ Linked(s) /\ f \in InUse(s) /\ f \in Itab /\ f \notin G
      /\ N \in Nat /\ Positions(s, f) = 0 .. N - 1
  <2>1. Formed(s) /\ Backed(s) /\ Linked(s) /\ f \in InUse(s) /\ f \in Itab
    BY StateType DEF Sound, Formed, DirsOf, InUse
  <2>2. N \in Nat
    BY <2>1, StateType DEF Formed
  <2>3. f \in Below(s, f)
    BY <2>1, BelowIs
  <2> QED BY <2>1, <2>2, <2>3 DEF Positions
<1> HIDE DEF N
<1>1. \A i \in 0 .. N - 1 : Child(s, f, c(i))
  BY <1>0 DEF Child
<1>2. \A i \in 0 .. N - 1 :
        /\ c(i) \in InUse(s) /\ f \notin Below(s, c(i)) /\ Below(s, c(i)) \subseteq Below(s, f)
        /\ Below(s, c(i)) \subseteq InUse(s)
        /\ \A j \in 0 .. N - 1 : i # j => Below(s, c(i)) \cap Below(s, c(j)) = {}
  <2> SUFFICES ASSUME NEW i \in 0 .. N - 1
               PROVE  /\ c(i) \in InUse(s) /\ f \notin Below(s, c(i)) /\ Below(s, c(i)) \subseteq Below(s, f)
                      /\ Below(s, c(i)) \subseteq InUse(s)
                      /\ \A j \in 0 .. N - 1 : i # j => Below(s, c(i)) \cap Below(s, c(j)) = {}
    OBVIOUS
  <2>1. Child(s, f, c(i))
    BY <1>1
  <2>2. c(i) \in InUse(s)
    BY <2>1, <1>0, ChildIs
  <2>3. /\ f \notin Below(s, c(i)) /\ Below(s, c(i)) \subseteq Below(s, f)
        /\ \A e : Child(s, f, e) /\ e # c(i) => Below(s, c(i)) \cap Below(s, e) = {}
    BY <2>1, BelowChild
  <2>4. Below(s, c(i)) \subseteq InUse(s)
    BY DEF Below
  <2>5. ASSUME NEW j \in 0 .. N - 1, i # j PROVE Below(s, c(i)) \cap Below(s, c(j)) = {}
    <3>1. c(i) # c(j)
      BY <1>0, <2>5 DEF Linked
    <3> QED BY <3>1, <1>1, <2>3
  <2> QED BY <2>2, <2>3, <2>4, <2>5
<1> DEFINE Gs(n) == GoneBy(s, G, f, n)
<1>3. \A n \in 0 .. N : Gs(n) \subseteq InUse(s) \ {f} /\ Gs(n) \subseteq G \cup Below(s, f)
  BY <1>0, <1>2 DEF GoneBy
<1>4. \A n \in 1 .. N : Gs(n) = Gs(n - 1) \cup Below(s, c(n - 1)) /\ Below(s, c(n - 1)) \cap Gs(n - 1) = {}
  <2> SUFFICES ASSUME NEW n \in 1 .. N
               PROVE  Gs(n) = Gs(n - 1) \cup Below(s, c(n - 1)) /\ Below(s, c(n - 1)) \cap Gs(n - 1) = {}
    OBVIOUS
  <2> DEFINE m == n - 1
  <2>1. m \in 0 .. N - 1 /\ 0 .. n - 1 = (0 .. m - 1) \cup {m}
    BY <1>0
  <2>2. Gs(n) = Gs(m) \cup Below(s, c(m))
    BY <2>1 DEF GoneBy
  <2>3. Below(s, c(m)) \cap Gs(m) = {}
    <3>1. Below(s, c(m)) \cap G = {}
      BY <2>1, <1>2
    <3>2. \A i \in 0 .. m - 1 : Below(s, c(i)) \cap Below(s, c(m)) = {}
      <4> SUFFICES ASSUME NEW i \in 0 .. m - 1 PROVE Below(s, c(i)) \cap Below(s, c(m)) = {}
        OBVIOUS
      <4>1. i \in 0 .. N - 1 /\ i # m
        BY <1>0
      <4> QED BY <4>1, <2>1, <1>2
    <3> QED BY <3>1, <3>2 DEF GoneBy
  <2> QED BY <2>2, <2>3
<1>5. \A i \in 0 .. N - 1 : Cardinality(Below(s, c(i))) <= d
  <2> SUFFICES ASSUME NEW i \in 0 .. N - 1 PROVE Cardinality(Below(s, c(i))) <= d
    OBVIOUS
  <2> DEFINE B == Below(s, f)
             C == Below(s, c(i))
  <2>1. /\ IsFiniteSet(B) /\ Cardinality(B) \in Nat /\ IsFiniteSet(C) /\ Cardinality(C) \in Nat
        /\ f \in B /\ f \notin C /\ C \subseteq B \ {f}
    BY <1>0, <1>2, BelowSize, BelowIs
  <2>2. IsFiniteSet(B \ {f}) /\ Cardinality(B \ {f}) = Cardinality(B) - 1
    BY <2>1, FS_RemoveElement
  <2>3. Cardinality(C) <= Cardinality(B \ {f})
    BY <2>1, <2>2, FS_Subset
  <2> HIDE DEF B, C
  <2>4. Cardinality(C) <= d
    BY <2>1, <2>2, <2>3 DEF B
  <2> QED BY <2>4 DEF C
<1>6. \A n \in 1 .. N : \A x \in I[n - 1] : h[d][Entry(x, f, n - 1).ino][x] \in I[n]
  <2> SUFFICES ASSUME NEW n \in 1 .. N, NEW x \in I[n - 1]
               PROVE  h[d][Entry(x, f, n - 1).ino][x] \in I[n]
    OBVIOUS
  <2> DEFINE m == n - 1
  <2>1. m \in 0 .. N - 1 /\ m \in 0 .. N /\ n \in 0 .. N /\ m \in Positions(s, f)
    BY <1>0
  <2>2. x \in States /\ Removed(s, x, Gs(m))
    BY <2>1
  <2>3. Gs(m) \in SUBSET InUse(s) /\ f \in InUse(s) \ Gs(m)
    BY <2>1, <1>0, <1>3
  <2> HIDE DEF m
  <2>4. Entry(x, f, m).ino = c(m)
    BY <2>1, <2>2, <2>3, RemovedEntry
  <2>5. Gs(n) = Gs(m) \cup Below(s, c(m)) /\ Below(s, c(m)) \cap Gs(m) = {}
    BY <1>4 DEF m
  <2>6. c(m) \in InUse(s) /\ Cardinality(Below(s, c(m))) <= d
    BY <2>1, <1>2, <1>5
  <2>7. Removed(s, h[d][c(m)][x], Gs(n))
    BY <2>2, <2>3, <2>5, <2>6 DEF Goes
  <2>8. h[d][c(m)][x] \in States
    BY <2>7 DEF Removed
  <2> QED BY <2>1, <2>4, <2>7, <2>8 DEF m
<1>7. Removed(s, WalkOf(h[d], u, f), Gs(N))
  <2>1. u \in I[0]
    <3>1. Gs(0) = G
      BY DEF GoneBy
    <3>2. 0 \in 0 .. N
      BY <1>0
    <3> QED BY <3>1, <3>2
  <2>2. N = u.itab[f].size
    BY <1>0 DEF Removed, N
  <2>3. \A n \in 0 .. N : I[n] \subseteq States
    OBVIOUS
  <2>4. I[N] = {x \in States : Removed(s, x, Gs(N))}
    BY <1>0
  <2> HIDE DEF I
  <2>5. WalkOf(h[d], u, f) \in I[N]
    BY <1>0, <1>6, <2>1, <2>2, <2>3, WalkKeeps
  <2> QED BY <2>4, <2>5
<1>8. Gs(N) \cup {f} = G \cup Below(s, f)
  <2>1. Gs(N) \cup {f} \subseteq G \cup Below(s, f)
    BY <1>0, <1>3, BelowIs
  <2>2. ASSUME NEW g \in Below(s, f), g # f PROVE g \in Gs(N)
    <3>1. PICK e \in InUse(s) : Child(s, f, e) /\ g \in Below(s, e)
      BY <1>0, <2>2, BelowParts
    <3>2. PICK i \in Positions(s, f) : c(i) = e
      BY <3>1 DEF Child
    <3>3. i \in 0 .. N - 1
      BY <1>0
    <3> QED BY <3>1, <3>2, <3>3 DEF GoneBy
  <2>3. G \subseteq Gs(N)
    BY DEF GoneBy
  <2> QED BY <2>1, <2>2, <2>3
<1>9. N \in 0 .. N
  BY <1>0
<1> QED BY <1>3, <1>7, <1>8, <1>9 DEF N

\* The removal of an inode, at every depth, removes what is below it.
LEMMA TreeGoes ==
  ASSUME NEW s, Sound(s), NEW stale, NEW h, GoneUpTo(h, stale)
  PROVE  \A d \in 0 .. Depth : Goes(h, s, d)
<1> DEFINE T == {d \in 0 .. Depth : Goes(h, s, d)}
<1>0. Formed(s) /\ Linked(s) /\ InUse(s) \subseteq Itab /\ Depth \in Nat
  BY StateType, Constants DEF Sound, Formed, InUse, Depth
<1>1. 0 \in T
  <2>1. ASSUME NEW f \in InUse(s), Cardinality(Below(s, f)) <= 0 PROVE FALSE
    <3>1. f \in Below(s, f) /\ Below(s, f) \subseteq InUse(s)
      BY <1>0, BelowIs
    <3>2. IsFiniteSet(Below(s, f)) /\ Cardinality(Below(s, f)) \in Nat
      BY <1>0, <3>1, BelowSize
    <3>3. Cardinality(Below(s, f)) = 0
      BY <3>2, <2>1
    <3> QED BY <3>1, <3>2, <3>3, FS_EmptySet
  <2>2. Goes(h, s, 0)
    BY <2>1 DEF Goes
  <2> QED BY <2>2, <1>0
<1>2. \A d \in 1 .. Depth : d - 1 \in T => d \in T
  <2> SUFFICES ASSUME NEW d \in 1 .. Depth, d - 1 \in T PROVE d \in T
    OBVIOUS
  <2>0. d \in 0 .. Depth /\ d - 1 \in Nat /\ d # 0 /\ Goes(h, s, d - 1)
    BY <1>0
  <2>1. ASSUME NEW f \in InUse(s), NEW G \in SUBSET InUse(s), NEW u \in States,
               Removed(s, u, G), Below(s, f) \cap G = {}, Cardinality(Below(s, f)) <= d
        PROVE  Removed(s, h[d][f][u], G \cup Below(s, f))
    <3> DEFINE x == IF u.itab[f].type = DIR THEN WalkOf(h[d - 1], u, f) ELSE u
               t == Release(x, f, stale)
    <3>1. h[d][f][u] = t
      <4>1. h[d] = [k \in Itab |-> [y \in States |->
                IF d = 0 THEN y
                ELSE Release(IF y.itab[k].type = DIR THEN WalkOf(h[d - 1], y, k) ELSE y, k, stale)]]
        BY <2>0 DEF GoneUpTo
      <4>2. h[d][f] = [y \in States |->
                IF d = 0 THEN y
                ELSE Release(IF y.itab[f].type = DIR THEN WalkOf(h[d - 1], y, f) ELSE y, f, stale)]
        BY <1>0, <4>1
      <4> QED BY <4>2, <2>0
    <3>2. f \in Below(s, f) /\ f \in Itab /\ f \notin G /\ u.itab[f] = s.itab[f]
      <4>1. f \in Below(s, f) /\ f \in Itab
        BY <1>0, BelowIs
      <4> QED BY <4>1, <2>1 DEF Removed
    <3>3. CASE s.itab[f].type = DIR
      <4> DEFINE H == GoneBy(s, G, f, s.itab[f].size)
      <4>1. f \in DirsOf(s)
        BY <3>3 DEF DirsOf
      <4>2. d - 1 + 1 = d
        BY <2>0
      <4>3. Removed(s, WalkOf(h[d - 1], u, f), H) /\ H \subseteq InUse(s) \ {f} /\ H \cup {f} = G \cup Below(s, f)
        BY <2>0, <2>1, <4>1, <4>2, EntriesGo
      <4>4. x = WalkOf(h[d - 1], u, f)
        BY <3>2, <3>3
      <4> HIDE DEF H, x
      <4>5. Removed(s, t, H \cup {f})
        BY <4>3, <4>4, ReleaseRemoves
      <4> QED BY <3>1, <4>3, <4>5
    <3>4. CASE s.itab[f].type # DIR
      <4>1. x = u
        BY <3>2, <3>4
      <4>2. Removed(s, t, G \cup {f})
        <5> HIDE DEF x
        <5> QED BY <2>1, <3>2, <4>1, ReleaseRemoves
      <4>3. Below(s, f) = {f}
        <5>1. Closed(s, {f}) /\ {f} \in SUBSET InUse(s)
          BY <3>4 DEF Closed, DirsOf
        <5> QED BY <5>1, <1>0, BelowIs
      <4> QED BY <3>1, <4>2, <4>3
    <3> QED BY <3>3, <3>4
  <2>2. Goes(h, s, d)
    BY <2>1 DEF Goes
  <2> QED BY <2>0, <2>2
<1>3. \A d \in 0 .. Depth : d \in T
  <2> HIDE DEF T
  <2> QED BY <1>0, <1>1, <1>2, BoundedInduction
<1> QED BY <1>3

\* fs_remove_aux removes exactly what is below an inode.
LEMMA RemoveAuxIs ==
  ASSUME NEW s, Sound(s), NEW file \in InUse(s), NEW stale
  PROVE  Removed(s, fs_remove_aux(s, file, stale), Below(s, file))
<1>1. PICK h : GoneUpTo(h, stale) /\ fs_remove_aux(s, file, stale) = h[Depth][file][s]
  BY GoneIs
<1>2. Depth \in 0 .. Depth
  BY Constants DEF Depth
<1>3. Goes(h, s, Depth)
  BY <1>1, <1>2, TreeGoes
<1>4. s \in States /\ Formed(s) /\ Below(s, file) \in SUBSET InUse(s)
  BY DEF Sound, Formed, Below
<1>5. Cardinality(Below(s, file)) <= Depth
  BY <1>4, BelowSize DEF Depth
<1>6. Removed(s, s, {})
  <2>1. \A f \in InUse(s), k \in 0 .. InodeBlocks : s.itab[f].blocks[k] \in s.bused
    BY DEF Sound, Owned
  <2> QED BY <1>4, <2>1 DEF Removed, Formed
<1> QED BY <1>1, <1>3, <1>4, <1>5, <1>6, SMTT(30) DEF Goes

\* The state t is s without the inodes in G and without the last entry of dir.
Cut(s, t, dir, G) ==
  /\ t \in States /\ t.iused = s.iused \ G /\ NoBlk \in t.bused
  /\ \A f \in Itab \ (G \cup {dir}) : t.itab[f] = s.itab[f]
  /\ \A f \in G : t.itab[f] = fsi_inode_init(FILE)
  /\ t.itab[dir].type = DIR /\ t.itab[dir].size = s.itab[dir].size - 1
  /\ t.itab[dir].blocks = s.itab[dir].blocks
  /\ \A f \in InUse(s) \ G, k \in 0 .. InodeBlocks :
       s.itab[f].blocks[k] # NoBlk =>
         s.itab[f].blocks[k] \in t.bused /\ t.store[s.itab[f].blocks[k]] = s.store[s.itab[f].blocks[k]]

\* After the removal of its last child a directory loses its last entry.
LEMMA CutIs ==
  ASSUME NEW s, Sound(s), NEW dir \in DirsOf(s), s.itab[dir].size > 0, NEW G \in SUBSET InUse(s), dir \notin G,
         NEW u, Removed(s, u, G), NEW t, t = [u EXCEPT !.itab[dir].size = @ - 1]
  PROVE  Cut(s, t, dir, G)
<1> DEFINE I == u.iused
           B == u.bused
           T == u.itab
           W == u.store
           z == s.itab[dir].size - 1
           r == [type |-> DIR, size |-> z, blocks |-> s.itab[dir].blocks]
           m == InodeBlocks * PageSize
<1>0. Formed(s) /\ dir \in Itab /\ u \in States /\ s.itab[dir].type = DIR /\ u.itab[dir] = s.itab[dir]
  BY StateType DEF Sound, Formed, DirsOf, InUse, Removed
<1>1. /\ s.itab[dir].size \in Nat /\ s.itab[dir].size <= m /\ m \in Nat
      /\ s.itab[dir] = [type |-> s.itab[dir].type, size |-> s.itab[dir].size, blocks |-> s.itab[dir].blocks]
      /\ s.itab[dir].blocks \in [0 .. InodeBlocks -> BlockNos]
  BY <1>0, StateType, Constants DEF Formed
<1>2. r \in InodeRecords
  <2>1. z \in 0 .. m
    <3> HIDE DEF m
    <3> QED BY <1>1
  <2> HIDE DEF z, m
  <2>2. r \in [type : {FILE, DIR}, size : 0 .. m, blocks : [0 .. InodeBlocks -> BlockNos]]
    BY <2>1, <1>1
  <2> QED BY <2>2 DEF InodeRecords, m
<1>3. /\ u = [iused |-> I, bused |-> B, itab |-> T, store |-> W]
      /\ I \subseteq Itab /\ B \subseteq BlockNos /\ T \in [Itab -> InodeRecords] /\ W \in [BlockNos -> Pages]
  BY <1>0, StateType
<1>4. t = [iused |-> I, bused |-> B, itab |-> [T EXCEPT ![dir].size = @ - 1], store |-> W]
  <2> HIDE DEF I, B, T, W
  <2> QED BY <1>3
<1>5. [T EXCEPT ![dir].size = @ - 1] = [T EXCEPT ![dir] = r]
  <2>1. T[dir] = [type |-> DIR, size |-> s.itab[dir].size, blocks |-> s.itab[dir].blocks]
    BY <1>0, <1>1
  <2> DEFINE v == s.itab[dir].size
             B1 == s.itab[dir].blocks
  <2>2. r = [type |-> DIR, size |-> v - 1, blocks |-> B1] /\ T[dir] = [type |-> DIR, size |-> v, blocks |-> B1]
    BY <2>1
  <2> HIDE DEF T, v, B1, r, z
  <2>3. [T[dir] EXCEPT !.size = @ - 1] = r
    BY <2>2
  <2>4. [T EXCEPT ![dir].size = @ - 1] = [T EXCEPT ![dir] = [T[dir] EXCEPT !.size = @ - 1]]
    BY <1>0, <1>3
  <2> QED BY <2>3, <2>4
<1> DEFINE T2 == [T EXCEPT ![dir] = r]
<1>6. /\ t.iused = I /\ t.bused = B /\ t.itab = T2 /\ t.store = W /\ t \in States
  <2>1. T2 \in [Itab -> InodeRecords]
    <3> HIDE DEF T, r
    <3> QED BY <1>0, <1>2, <1>3
  <2>2. t = [iused |-> I, bused |-> B, itab |-> T2, store |-> W]
    BY <1>4, <1>5
  <2> HIDE DEF I, B, T, W, T2
  <2>3. t \in States
    BY <1>3, <2>1, <2>2 DEF States
  <2> QED BY <2>2, <2>3
<1>7. T2[dir] = r /\ \A f \in Itab \ {dir} : T2[f] = T[f]
  <2> HIDE DEF T, r
  <2> QED BY <1>0, <1>3
<1>8. /\ t.itab[dir].type = DIR /\ t.itab[dir].size = s.itab[dir].size - 1
      /\ t.itab[dir].blocks = s.itab[dir].blocks
  BY <1>6, <1>7
<1>9. \A f \in Itab \ {dir} : t.itab[f] = u.itab[f]
  BY <1>6, <1>7
<1>10. \A f \in G : t.itab[f] = fsi_inode_init(FILE)
  BY <1>0, <1>9, StateType DEF Removed, Formed, InUse
<1>11. \A f \in Itab \ (G \cup {dir}) : t.itab[f] = s.itab[f]
  BY <1>9 DEF Removed
<1>12. t.iused = s.iused \ G /\ NoBlk \in t.bused /\ t.store = u.store /\ t.bused = u.bused /\ t \in States
  BY <1>6 DEF Removed
<1> HIDE DEF I, B, T, W, T2, r, z
<1>13. \A f \in InUse(s) \ G, k \in 0 .. InodeBlocks : s.itab[f].blocks[k] # NoBlk =>
         s.itab[f].blocks[k] \in t.bused /\ t.store[s.itab[f].blocks[k]] = s.store[s.itab[f].blocks[k]]
  BY <1>12 DEF Removed
<1> QED BY <1>8, <1>10, <1>11, <1>12, <1>13 DEF Cut

\* The directories and files of t are those of s outside G, dir without its last entry.
Pruned(s, t, dir, n, G) ==
  /\ InUse(t) = InUse(s) \ G /\ DirsOf(t) = DirsOf(s) \ G /\ FilesOf(t) = FilesOf(s) \ G
  /\ \A f \in InUse(t) : /\ t.itab[f].type = s.itab[f].type /\ t.itab[f].blocks = s.itab[f].blocks
                        /\ Positions(t, f) = Positions(s, f) \ (IF f = dir THEN {n} ELSE {})
                        /\ \A i \in Positions(t, f) : Entry(t, f, i) = Entry(s, f, i)

\* What is left of the directories and files.
LEMMA CutTables ==
  ASSUME NEW s, Sound(s), NEW dir \in DirsOf(s), NEW G \in SUBSET InUse(s), dir \notin G,
         NEW t, Cut(s, t, dir, G)
  PROVE  Pruned(s, t, dir, s.itab[dir].size - 1, G)
<1>0. Formed(s) /\ Backed(s) /\ InUse(s) \subseteq Itab /\ dir \in InUse(s) /\ s.itab[dir].type = DIR
  BY StateType DEF Sound, Formed, DirsOf, InUse
<1>1. InUse(t) = InUse(s) \ G
  BY DEF Cut, InUse
<1>2. \A f \in InUse(t) : t.itab[f].type = s.itab[f].type /\ t.itab[f].blocks = s.itab[f].blocks
  <2> SUFFICES ASSUME NEW f \in InUse(t)
               PROVE  t.itab[f].type = s.itab[f].type /\ t.itab[f].blocks = s.itab[f].blocks
    OBVIOUS
  <2>1. CASE f = dir
    BY <2>1, <1>0 DEF Cut
  <2>2. CASE f # dir
    BY <2>2, <1>0, <1>1 DEF Cut
  <2> QED BY <2>1, <2>2
<1>3. DirsOf(t) = DirsOf(s) \ G /\ FilesOf(t) = FilesOf(s) \ G
  BY <1>1, <1>2 DEF DirsOf, FilesOf
<1>4. ASSUME NEW f \in InUse(t)
      PROVE  /\ Positions(t, f) = Positions(s, f) \ (IF f = dir THEN {s.itab[dir].size - 1} ELSE {})
             /\ \A i \in Positions(t, f) : Entry(t, f, i) = Entry(s, f, i)
  <2>0. f \in InUse(s) \ G /\ f \in Itab
    BY <1>0, <1>1
  <2>1. s.itab[f].size \in Nat
    BY <1>0, <2>0, StateType DEF Formed
  <2>2. CASE f # dir
    <3>1. t.itab[f] = s.itab[f]
      BY <2>0, <2>2 DEF Cut
    <3>2. Positions(t, f) = Positions(s, f)
      BY <3>1 DEF Positions
    <3>3. ASSUME NEW i \in Positions(t, f) PROVE Entry(t, f, i) = Entry(s, f, i)
      <4>1. PageOf(i) \in 0 .. InodeBlocks /\ s.itab[f].blocks[PageOf(i)] # NoBlk
        BY <1>0, <2>0, <3>2, PositionIs, Constants
      <4> QED BY <4>1, <3>1, <2>0 DEF Entry, Cut
    <3> QED BY <3>2, <3>3, <2>2
  <2>3. CASE f = dir
    <3>1. t.itab[f].size = s.itab[f].size - 1 /\ t.itab[f].blocks = s.itab[f].blocks
      BY <2>3 DEF Cut
    <3>2. Positions(t, f) = Positions(s, f) \ {s.itab[dir].size - 1}
      BY <3>1, <2>1, <2>3 DEF Positions
    <3>3. ASSUME NEW i \in Positions(t, f) PROVE Entry(t, f, i) = Entry(s, f, i)
      <4>1. PageOf(i) \in 0 .. InodeBlocks /\ s.itab[f].blocks[PageOf(i)] # NoBlk
        BY <1>0, <2>0, <3>2, PositionIs, Constants
      <4> QED BY <4>1, <3>1, <2>0 DEF Entry, Cut
    <3> QED BY <3>2, <3>3, <2>3
  <2> QED BY <2>2, <2>3
<1> QED BY <1>1, <1>2, <1>3, <1>4 DEF Pruned

\* What is left was there before.
LEMMA CutRetains ==
  ASSUME NEW s, Sound(s), NEW dir \in DirsOf(s), NEW n, NEW G \in SUBSET InUse(s), dir \notin G,
         NEW t, Sound(t), Cut(s, t, dir, G), Pruned(s, t, dir, n, G)
  PROVE  Retains(t, s, {}) /\ InUse(t) = InUse(s) \ G
<1>0. Formed(t) /\ FILE # DIR /\ InUse(s) \subseteq Itab
  BY StateType, Constants DEF Sound, Formed, InUse
<1>1. /\ InUse(t) = InUse(s) \ G /\ DirsOf(t) = DirsOf(s) \ G /\ FilesOf(t) = FilesOf(s) \ G
      /\ \A f \in InUse(t) : /\ t.itab[f].type = s.itab[f].type
                            /\ Positions(t, f) \subseteq Positions(s, f)
                            /\ \A i \in Positions(t, f) : Entry(t, f, i) = Entry(s, f, i)
  BY DEF Pruned
<1>2. \A f \in InUse(t) : s.itab[f].type = t.itab[f].type
  BY <1>1
<1>3. \A d \in DirsOf(t) : \A i \in Positions(t, d) : i \in Positions(s, d) /\ Entry(s, d, i) = Entry(t, d, i)
  BY <1>1 DEF DirsOf
<1>4. \A f \in FilesOf(t) \ {} : /\ s.itab[f].size = t.itab[f].size
                                 /\ \A i \in Positions(t, f) : Entry(s, f, i).name = Entry(t, f, i).name
  <2> SUFFICES ASSUME NEW f \in FilesOf(t)
               PROVE  /\ s.itab[f].size = t.itab[f].size
                      /\ \A i \in Positions(t, f) : Entry(s, f, i).name = Entry(t, f, i).name
    OBVIOUS
  <2>1. f \in InUse(t) /\ f \in Itab \ (G \cup {dir})
    BY <1>0, <1>1 DEF FilesOf, DirsOf
  <2>2. t.itab[f] = s.itab[f]
    BY <2>1 DEF Cut
  <2> QED BY <1>1, <2>1, <2>2
<1> QED BY <1>0, <1>1, <1>2, <1>3, <1>4, RetainsIf

\* Without the last entry of dir and all that was below it.
LEMMA CutKeeps ==
  ASSUME NEW s, Sound(s), NEW dir \in DirsOf(s), NEW n, n = s.itab[dir].size - 1, n \in Positions(s, dir),
         NEW file, file = Entry(s, dir, n).ino, NEW G, G = Below(s, file), NEW t, Cut(s, t, dir, G)
  PROVE  /\ Sound(t) /\ InUse(t) \subseteq InUse(s)
         /\ \A f \in InUse(t) : t.itab[f].type = s.itab[f].type /\ t.itab[f].blocks = s.itab[f].blocks
<1>0. /\ Formed(s) /\ Backed(s) /\ Owned(s) /\ Linked(s) /\ Parented(s) /\ Rooted(s) /\ Filled(s)
      /\ InUse(s) \subseteq Itab /\ Root \in InUse(s) /\ s \in States
  BY StateType, Constants DEF Sound, Formed, InUse
<1>1. Child(s, dir, file) /\ file \in InUse(s) \ {Root}
  <2>1. Child(s, dir, file)
    BY DEF Child
  <2> QED BY <2>1, <1>0, ChildIs
<1>2. /\ file \in G /\ G \in SUBSET InUse(s) /\ Closed(s, G) /\ Root \notin G /\ dir \notin G
      /\ \A g \in G : \A d : Child(s, d, g) /\ g # file => d \in G
  BY <1>0, <1>1, BelowIs, BelowChild
<1>3. /\ InUse(t) = InUse(s) \ G /\ DirsOf(t) = DirsOf(s) \ G /\ FilesOf(t) = FilesOf(s) \ G
      /\ \A f \in InUse(t) : /\ t.itab[f].type = s.itab[f].type /\ t.itab[f].blocks = s.itab[f].blocks
                            /\ Positions(t, f) = Positions(s, f) \ (IF f = dir THEN {n} ELSE {})
                            /\ \A i \in Positions(t, f) : Entry(t, f, i) = Entry(s, f, i)
  <2>1. Pruned(s, t, dir, n, G)
    BY <1>2, CutTables
  <2> QED BY <2>1 DEF Pruned
<1>4. /\ t \in States /\ t.iused = s.iused \ G /\ NoBlk \in t.bused
      /\ \A f \in Itab \ (G \cup {dir}) : t.itab[f] = s.itab[f]
      /\ \A f \in G : t.itab[f] = fsi_inode_init(FILE)
      /\ \A f \in InUse(s) \ G, k \in 0 .. InodeBlocks :
           s.itab[f].blocks[k] # NoBlk => s.itab[f].blocks[k] \in t.bused
  BY DEF Cut
<1>5. Formed(t)
  <2>1. {0, Root} \subseteq t.iused
    BY <1>0, <1>2, <1>4 DEF Formed, InUse
  <2>2. Root \in InUse(t) /\ t.itab[Root].type = DIR
    BY <1>0, <1>2, <1>3 DEF Formed
  <2>3. ASSUME NEW f \in Itab \ InUse(t) PROVE t.itab[f] = fsi_inode_init(FILE)
    <3>1. CASE f \in G
      BY <3>1, <1>4
    <3>2. CASE f \notin G
      <4>1. f \notin InUse(s) /\ f # dir
        BY <3>2, <2>3, <1>3 DEF DirsOf
      <4> QED BY <4>1, <3>2, <1>4, <1>0 DEF Formed
    <3> QED BY <3>1, <3>2
  <2> QED BY <2>1, <2>2, <2>3, <1>4 DEF Formed
<1>6. Backed(t)
  <2> SUFFICES ASSUME NEW f \in Itab
               PROVE  /\ t.itab[f].blocks[InodeBlocks] = NoBlk
                      /\ \A k \in 0 .. InodeBlocks - 1 :
                           t.itab[f].blocks[k] = NoBlk => t.itab[f].blocks[k + 1] = NoBlk
                      /\ \A i \in Positions(t, f) : t.itab[f].blocks[PageOf(i)] # NoBlk
    BY DEF Backed
  <2>1. CASE f \in InUse(t)
    BY <2>1, <1>0, <1>3 DEF Backed
  <2>2. CASE f \notin InUse(t)
    <3>1. t.itab[f] = fsi_inode_init(FILE)
      BY <2>2, <1>5 DEF Formed
    <3>2. t.itab[f].size = 0 /\ \A k \in 0 .. InodeBlocks : t.itab[f].blocks[k] = NoBlk
      BY <3>1, InitIs
    <3>3. InodeBlocks \in 0 .. InodeBlocks /\ \A k \in 0 .. InodeBlocks - 1 : k + 1 \in 0 .. InodeBlocks
      BY Constants
    <3>4. Positions(t, f) = {}
      BY <3>2 DEF Positions
    <3> QED BY <3>2, <3>3, <3>4
  <2> QED BY <2>1, <2>2
<1>7. Owned(t)
  <2> SUFFICES ASSUME NEW f \in InUse(t), NEW i \in 0 .. InodeBlocks
               PROVE  /\ t.itab[f].blocks[i] \in t.bused
                      /\ \A g \in InUse(t), j \in 0 .. InodeBlocks :
                           t.itab[f].blocks[i] # NoBlk /\ t.itab[f].blocks[i] = t.itab[g].blocks[j] =>
                             \/ f = g /\ i = j
                             \/ /\ i = 0 /\ j = 0 /\ f \in FilesOf(t) /\ g \in FilesOf(t)
                                /\ t.itab[f].blocks[1] = NoBlk /\ t.itab[g].blocks[1] = NoBlk
    BY DEF Owned
  <2>1. f \in InUse(s) \ G
    BY <1>3
  <2>2. t.itab[f].blocks[i] \in t.bused
    BY <2>1, <1>3, <1>4, SMTT(40)
  <2>3. ASSUME NEW g \in InUse(t), NEW j \in 0 .. InodeBlocks,
               t.itab[f].blocks[i] # NoBlk, t.itab[f].blocks[i] = t.itab[g].blocks[j]
        PROVE  \/ f = g /\ i = j
               \/ /\ i = 0 /\ j = 0 /\ f \in FilesOf(t) /\ g \in FilesOf(t)
                  /\ t.itab[f].blocks[1] = NoBlk /\ t.itab[g].blocks[1] = NoBlk
    <3>1. g \in InUse(s) \ G /\ s.itab[f].blocks[i] # NoBlk /\ s.itab[f].blocks[i] = s.itab[g].blocks[j]
      BY <2>3, <1>3
    <3>2. \/ f = g /\ i = j
          \/ /\ i = 0 /\ j = 0 /\ f \in FilesOf(s) /\ g \in FilesOf(s)
             /\ s.itab[f].blocks[1] = NoBlk /\ s.itab[g].blocks[1] = NoBlk
      BY <3>1, <2>1, <1>0 DEF Owned
    <3> QED BY <3>1, <3>2, <2>1, <1>3
  <2> QED BY <2>2, <2>3
<1>8. ASSUME NEW d \in DirsOf(t), NEW i \in Positions(t, d)
      PROVE  /\ d \in DirsOf(s) /\ d \in InUse(t) /\ i \in Positions(s, d) /\ Entry(t, d, i) = Entry(s, d, i)
             /\ <<d, i>> # <<dir, n>>
  <2>1. d \in DirsOf(s) /\ d \in InUse(t)
    BY <1>3 DEF DirsOf
  <2>2. i \in Positions(s, d) /\ Entry(t, d, i) = Entry(s, d, i)
    BY <2>1, <1>3
  <2>3. d = dir => i # n
    BY <2>1, <1>3
  <2> QED BY <2>1, <2>2, <2>3
<1>9. Linked(t)
  <2> SUFFICES ASSUME NEW d \in DirsOf(t), NEW i \in Positions(t, d)
               PROVE  /\ Entry(t, d, i).ino \in InUse(t) \ {Root} /\ Entry(t, d, i).name \in Names
                      /\ \A j \in Positions(t, d) : Entry(t, d, i).name = Entry(t, d, j).name => i = j
                      /\ \A e \in DirsOf(t) : \A j \in Positions(t, e) :
                           Entry(t, d, i).ino = Entry(t, e, j).ino => d = e /\ i = j
    BY DEF Linked
  <2>1. d \in DirsOf(s) /\ i \in Positions(s, d) /\ Entry(t, d, i) = Entry(s, d, i) /\ d \notin G
    BY <1>3, <1>8
  <2>2. Entry(s, d, i).ino \in InUse(s) \ {Root} /\ Entry(s, d, i).name \in Names
    BY <2>1, <1>0 DEF Linked
  <2>3. Entry(s, d, i).ino \notin G
    <3>1. Child(s, d, Entry(s, d, i).ino)
      BY <2>1 DEF Child
    <3>2. Entry(s, d, i).ino # file
      BY <1>0, <1>8, <2>1 DEF Linked
    <3> QED BY <3>1, <3>2, <2>1, <1>2
  <2>4. \A j \in Positions(t, d) : Entry(t, d, i).name = Entry(t, d, j).name => i = j
    BY <2>1, <1>0, <1>8 DEF Linked
  <2>5. \A e \in DirsOf(t) : \A j \in Positions(t, e) :
           Entry(t, d, i).ino = Entry(t, e, j).ino => d = e /\ i = j
    BY <2>1, <1>0, <1>8 DEF Linked
  <2> QED BY <1>3, <2>1, <2>2, <2>3, <2>4, <2>5
<1>10. Parented(t)
  <2> SUFFICES ASSUME NEW f \in InUse(t) \ {Root}
               PROVE  \E d \in DirsOf(t) : \E i \in Positions(t, d) : Entry(t, d, i).ino = f
    BY DEF Parented
  <2>1. f \in InUse(s) \ {Root} /\ f \notin G /\ f # file
    BY <1>2, <1>3
  <2>2. PICK d \in DirsOf(s) : \E i \in Positions(s, d) : Entry(s, d, i).ino = f
    BY <2>1, <1>0 DEF Parented
  <2>3. PICK i \in Positions(s, d) : Entry(s, d, i).ino = f
    BY <2>2
  <2>4. d \notin G
    BY <2>1, <2>3, <1>2 DEF Closed
  <2>5. d \in DirsOf(t) /\ d \in InUse(t)
    BY <2>4, <1>3 DEF DirsOf
  <2>6. i \in Positions(t, d)
    BY <2>1, <2>3, <2>5, <1>3
  <2> QED BY <2>3, <2>5, <2>6, <1>3
<1>11. Rooted(t)
  <2> SUFFICES ASSUME NEW S \in SUBSET InUse(t), Root \in S, Closed(t, S) PROVE S = InUse(t)
    BY DEF Rooted
  <2>1. S \cup G \in SUBSET InUse(s) /\ Root \in S \cup G /\ S \cap G = {}
    BY <1>2, <1>3
  <2>2. Closed(s, S \cup G)
    <3> SUFFICES ASSUME NEW d \in (S \cup G) \cap DirsOf(s), NEW i \in Positions(s, d)
                 PROVE  Entry(s, d, i).ino \in S \cup G
      BY DEF Closed
    <3>1. CASE d \in G
      BY <3>1, <1>2 DEF Closed
    <3>2. CASE d \notin G /\ d = dir /\ i = n
      BY <3>2, <1>2
    <3>3. CASE d \notin G /\ ~ (d = dir /\ i = n)
      <4>1. d \in S /\ d \in DirsOf(t) /\ d \in InUse(t)
        BY <3>3, <1>3 DEF DirsOf
      <4>2. i \in Positions(t, d) /\ Entry(t, d, i) = Entry(s, d, i)
        BY <4>1, <3>3, <1>3
      <4> QED BY <4>1, <4>2 DEF Closed
    <3> QED BY <3>1, <3>2, <3>3
  <2>3. S \cup G = InUse(s)
    BY <2>1, <2>2, <1>0 DEF Rooted
  <2> QED BY <2>1, <2>3, <1>3
<1>12. Filled(t)
  <2> SUFFICES ASSUME NEW f \in FilesOf(t), NEW i \in Positions(t, f) PROVE Entry(t, f, i).name \in Data
    BY DEF Filled
  <2>1. f \in FilesOf(s) /\ f \in InUse(t)
    BY <1>3 DEF FilesOf
  <2>2. i \in Positions(s, f) /\ Entry(t, f, i) = Entry(s, f, i)
    BY <2>1, <1>3
  <2> QED BY <2>1, <2>2, <1>0 DEF Filled
<1>13. Sound(t)
  BY <1>5, <1>6, <1>7, <1>9, <1>10, <1>11, <1>12 DEF Sound
<1> QED BY <1>3, <1>13

\* From s to t all that was below an entry of a directory has gone, after a
\* change of places in x.
Removes(s, x, t, dir, name, file) ==
  /\ Sound(x) /\ Retains(s, x, {}) /\ InUse(x) = InUse(s) /\ HasEntry(x, dir, name, file)
  /\ Retains(t, x, {}) /\ InUse(t) = InUse(x) \ Below(x, file)

\* fs_remove.
LEMMA RemoveKeeps ==
  ASSUME NEW s, Sound(s), OnePageDirs(s), NEW dir \in Itab \ {0}, NEW name \in Names, NEW stale,
         NEW t, t = fs_remove(s, dir, name, stale).fs
  PROVE  /\ Sound(t) /\ OnePageDirs(t)
         /\ OneBlockFiles(s) => OneBlockFiles(t)
         /\ Alone(s) => Alone(t)
         /\ t = s \/ \E x, m, file : Removes(s, x, t, dir, m, file)
<1> DEFINE found == fsi_dir_search(s, dir, name)
           file == CHOOSE f \in found : TRUE
           s1 == swap_entry(s, dir, file)
           gone == fs_remove_aux(s1, file, stale)
           r == fs_remove(s, dir, name, stale)
<1>1. \/ r.fs = s
      \/ dir \in s.iused /\ found # {} /\ r.fs = [gone EXCEPT !.itab[dir].size = @ - 1]
  BY DEF fs_remove
<1> HIDE DEF r
<1>2. CASE r.fs = s
  BY <1>2 DEF r
<1>3. CASE dir \in s.iused /\ found # {} /\ r.fs = [gone EXCEPT !.itab[dir].size = @ - 1]
  <2>1. dir \in InUse(s)
    BY <1>3 DEF InUse
  <2>2. dir \in DirsOf(s) /\ \E i \in Positions(s, dir) : found = {Entry(s, dir, i).ino}
    BY <2>1, <1>3, SearchIs
  <2>3. PICK i \in Positions(s, dir) : found = {Entry(s, dir, i).ino}
    BY <2>2
  <2>4. file = Entry(s, dir, i).ino
    <3> HIDE DEF found
    <3> QED BY <2>3
  <2> HIDE DEF file, found
  <2>5. s.itab[dir].blocks[1] = NoBlk
    BY <2>2 DEF OnePageDirs
  <2>6. Swapped(s, s1, dir, i)
    BY <2>2, <2>4, <2>5, SwapIs
  <2> DEFINE n == s.itab[dir].size - 1
             G == Below(s1, file)
  <2>7. /\ Sound(s1) /\ s1.itab = s.itab /\ s1.iused = s.iused /\ Retains(s, s1, {})
        /\ n \in Positions(s1, dir) /\ Entry(s1, dir, n).ino = Entry(s, dir, i).ino
    BY <2>2, <2>5, <2>6, SwapKeeps
  <2> HIDE DEF s1
  <2>8. dir \in DirsOf(s1) /\ s1.itab[dir].size - 1 = n /\ Linked(s1) /\ Formed(s1)
    BY <2>2, <2>7 DEF DirsOf, InUse, Sound
  <2>9. Child(s1, dir, file)
    BY <2>4, <2>7, <2>8 DEF Child
  <2>10. file \in InUse(s1) /\ dir \notin G /\ G \in SUBSET InUse(s1)
    BY <2>7, <2>8, <2>9, ChildIs, BelowChild, BelowIs
  <2>11. Removed(s1, gone, G)
    BY <2>7, <2>10, RemoveAuxIs
  <2>12. s1.itab[dir].size > 0
    <3>1. s1.itab[dir].size \in Nat
      BY <2>8, StateType DEF Formed, DirsOf, InUse
    <3> QED BY <3>1, <2>7, <2>8 DEF Positions
  <2> HIDE DEF gone, G
  <2>13. Cut(s1, t, dir, G)
    BY <1>3, <2>7, <2>8, <2>10, <2>11, <2>12, CutIs DEF r
  <2>14. /\ Sound(t) /\ InUse(t) \subseteq InUse(s1)
         /\ \A f \in InUse(t) : t.itab[f].type = s1.itab[f].type /\ t.itab[f].blocks = s1.itab[f].blocks
    <3> HIDE DEF n
    <3> QED BY <2>4, <2>7, <2>8, <2>13, CutKeeps DEF G
  <2>15. InUse(t) \subseteq InUse(s) /\ \A f \in InUse(t) : t.itab[f].type = s.itab[f].type /\ t.itab[f].blocks = s.itab[f].blocks
    BY <2>7, <2>14 DEF InUse
  <2>16. DirsOf(t) \subseteq DirsOf(s) /\ FilesOf(t) \subseteq FilesOf(s)
    BY <2>15 DEF DirsOf, FilesOf
  <2>17. OneBlockFiles(s) => OneBlockFiles(t)
    BY <2>15, <2>16 DEF OneBlockFiles, FilesOf
  <2>18. Alone(s) => Alone(t)
    BY <2>15, SMTT(40) DEF Alone
  <2>19. \E x, m, f : Removes(s, x, t, dir, m, f)
    <3>1. InUse(s1) = InUse(s)
      BY <2>7 DEF InUse
    <3>2. HasEntry(s1, dir, Entry(s1, dir, n).name, file)
      BY <2>4, <2>7, <2>8 DEF HasEntry
    <3>3. Pruned(s1, t, dir, n, G)
      <4> HIDE DEF n
      <4> QED BY <2>7, <2>8, <2>10, <2>13, CutTables
    <3>4. Retains(t, s1, {}) /\ InUse(t) = InUse(s1) \ G
      <4> HIDE DEF n
      <4> QED BY <2>7, <2>8, <2>10, <2>13, <2>14, <3>3, CutRetains
    <3>5. Removes(s, s1, t, dir, Entry(s1, dir, n).name, file)
      BY <2>7, <3>1, <3>2, <3>4 DEF Removes, G
    <3> QED BY <3>5
  <2>20. OnePageDirs(t)
    BY <2>15, <2>16 DEF OnePageDirs, DirsOf
  <2> QED BY <2>14, <2>17, <2>18, <2>19, <2>20
<1> QED BY <1>1, <1>2, <1>3

-----------------------------------------------------------------------------
(* Looking up a path.                                                       *)

\* One step of fs_lookup, and its recursion.
LookupStep(s, path, n, w) ==
  LET dir   == IF n = 1 THEN Root ELSE CHOOSE f \in w.ino : TRUE
      found == fsi_dir_search(s, dir, path[n])
  IN  IF w.ret # 1 THEN w
      ELSE IF ~ IsDir(s, dir) THEN [ret |-> Fail, ino |-> {}]
      ELSE IF found = {} THEN [ret |-> 0, ino |-> {}]
      ELSE [ret |-> 1, ino |-> found]
LookupUpTo(u, s, path) ==
  u = [n \in 0 .. Len(path) |-> IF n = 0 THEN [ret |-> 1, ino |-> {}] ELSE LookupStep(s, path, n, u[n - 1])]

\* The answer w is right for the first n names of path.
Right(s, path, n, w) ==
  \/ n = 0 /\ w = [ret |-> 1, ino |-> {}]
  \/ n # 0 /\ \E h : Leads(s, Root, SubSeq(path, 1, n), h) /\ w = [ret |-> 1, ino |-> {h}]
  \/ n # 0 /\ (\A h : ~ Leads(s, Root, SubSeq(path, 1, n), h)) /\ w.ret # 1

\* A path ends in one way.
LEMMA OneEnd ==
  ASSUME NEW a \in Seq(Names), NEW m \in Names, NEW q \in Seq(Names), NEW x \in Names, Append(a, m) = Append(q, x)
  PROVE  a = q /\ m = x
BY AppendInjective

\* A path that goes one name further leads to what has that name where the path before leads.
LEMMA LeadsByOne ==
  ASSUME NEW s, Sound(s), NEW path \in Seq(Names), NEW n \in 1 .. Len(path), NEW h
  PROVE  /\ path[n] \in Names
         /\ Leads(s, Root, SubSeq(path, 1, n), h)
              <=> \E d : Leads(s, Root, SubSeq(path, 1, n - 1), d) /\ HasEntry(s, d, path[n], h)
<1> DEFINE q == SubSeq(path, 1, n - 1)
           r == SubSeq(path, 1, n)
           x == path[n]
<1>0. Len(path) \in Nat /\ x \in Names /\ \A i \in 1 .. Len(path) : path[i] \in Names
  BY LenProperties, ElementOfSeq
<1>1. n \in Int /\ n - 1 \in Int /\ 1 \in Int /\ 1 <= n
  BY <1>0
<1>2. q \in Seq(Names) /\ Len(q) = n - 1 /\ \A i \in 1 .. n - 1 : q[i] = path[i]
  <2>1. \A i \in 1 .. n - 1 : path[i] \in Names
    BY <1>0, <1>1
  <2> QED BY <1>1, <2>1, SubSeqProperties
<1>3. r \in Seq(Names) /\ Len(r) = n /\ \A i \in 1 .. n : r[i] = path[i]
  <2>1. \A i \in 1 .. n : path[i] \in Names
    BY <1>0, <1>1
  <2> QED BY <1>1, <2>1, SubSeqProperties
<1>4. r = Append(q, x)
  <2> DEFINE a == Append(q, x)
  <2>1. a \in Seq(Names) /\ Len(a) = n /\ a[n] = x /\ \A i \in 1 .. n - 1 : a[i] = q[i]
    <3> HIDE DEF q, x
    <3>1. /\ a \in Seq(Names) /\ Len(a) = Len(q) + 1 /\ a[Len(q) + 1] = x
          /\ \A i \in 1 .. Len(q) : a[i] = q[i]
      BY <1>0, <1>2, AppendProperties
    <3> HIDE DEF a
    <3> QED BY <3>1, <1>1, <1>2
  <2> HIDE DEF a, r, q
  <2>2. \A i \in 1 .. n : r[i] = a[i]
    <3> SUFFICES ASSUME NEW i \in 1 .. n PROVE r[i] = a[i]
      OBVIOUS
    <3>1. CASE i = n
      BY <3>1, <1>3, <2>1 DEF x
    <3>2. CASE i # n
      <4>1. i \in 1 .. n - 1
        BY <3>2, <1>1
      <4> QED BY <4>1, <1>2, <1>3, <2>1
    <3> QED BY <3>1, <3>2
  <2>3. r = a
    BY <1>3, <2>1, <2>2, SeqEqual
  <2> QED BY <2>3 DEF a
<1> HIDE DEF q, r, x
<1>5. ASSUME NEW d, Leads(s, Root, q, d), HasEntry(s, d, x, h) PROVE Leads(s, Root, r, h)
  BY <1>4, <1>5, LeadsOn
<1>6. ASSUME Leads(s, Root, r, h) PROVE \E d : Leads(s, Root, q, d) /\ HasEntry(s, d, x, h)
  <2>1. r # <<>>
    BY <1>3, <1>1, EmptySeq
  <2>2. PICK a \in Seq(Names), m \in Names : \E e : r = Append(a, m) /\ Leads(s, Root, a, e) /\ HasEntry(s, e, m, h)
    BY <1>6, <2>1, LeadsLast
  <2>3. PICK e : r = Append(a, m) /\ Leads(s, Root, a, e) /\ HasEntry(s, e, m, h)
    BY <2>2
  <2>4. a = q /\ m = x
    <3>1. Append(a, m) = Append(q, x)
      BY <1>4, <2>3
    <3> QED BY <3>1, <1>0, <1>2, <2>2, OneEnd
  <2> QED BY <2>3, <2>4
<1> QED BY <1>0, <1>5, <1>6 DEF q, r, x

\* A step of fs_lookup keeps the answer right.
LEMMA LookupStepRight ==
  ASSUME NEW s, Sound(s), NEW path \in Seq(Names), NEW n \in 1 .. Len(path), NEW w, Right(s, path, n - 1, w)
  PROVE  Right(s, path, n, LookupStep(s, path, n, w))
<1> DEFINE q == SubSeq(path, 1, n - 1)
           r == SubSeq(path, 1, n)
           x == path[n]
           To(d) == Leads(s, Root, q, d)
           End(h) == Leads(s, Root, r, h)
<1>0. n # 0 /\ n \in Nat /\ Len(path) \in Nat /\ Root \in InUse(s)
  BY LenProperties, Constants DEF Sound, Formed, InUse
<1>1. x \in Names /\ \A h : End(h) <=> \E d : To(d) /\ HasEntry(s, d, x, h)
  BY LeadsByOne
<1>2. \A d, e : To(d) /\ To(e) => d = e
  BY LeadsOneWay
<1>3. n = 1 => To(Root)
  <2> SUFFICES ASSUME n = 1 PROVE To(Root)
    OBVIOUS
  <2>1. q = <<>>
    BY SubSeqEmpty
  <2> QED BY <2>1, <1>0, LeadsNowhere
<1> DEFINE dir == IF n = 1 THEN Root ELSE CHOOSE f \in w.ino : TRUE
           found == fsi_dir_search(s, dir, x)
           z == LookupStep(s, path, n, w)
<1>4. z = IF w.ret # 1 THEN w
          ELSE IF ~ IsDir(s, dir) THEN [ret |-> Fail, ino |-> {}]
          ELSE IF found = {} THEN [ret |-> 0, ino |-> {}]
          ELSE [ret |-> 1, ino |-> found]
  BY DEF LookupStep
<1>5. \/ w.ret = 1 /\ To(dir)
      \/ w.ret # 1 /\ \A d : ~ To(d)
  <2>1. CASE n = 1
    BY <2>1, <1>3 DEF Right
  <2>2. CASE n # 1
    <3>1. n - 1 # 0
      BY <2>2, <1>0
    <3>2. CASE \E h : To(h) /\ w = [ret |-> 1, ino |-> {h}]
      BY <2>2, <3>2
    <3>3. CASE (\A h : ~ To(h)) /\ w.ret # 1
      BY <3>3
    <3> QED BY <3>1, <3>2, <3>3 DEF Right
  <2> QED BY <2>1, <2>2
<1>6. (\A h : ~ End(h)) /\ z.ret # 1 => Right(s, path, n, z)
  BY <1>0 DEF Right
<1>7. ASSUME NEW h, End(h), z = [ret |-> 1, ino |-> {h}] PROVE Right(s, path, n, z)
  BY <1>0, <1>7 DEF Right
<1> HIDE DEF dir, found, z, To, End, q, r, x
<1>8. CASE w.ret # 1 /\ \A d : ~ To(d)
  BY <1>1, <1>4, <1>6, <1>8 DEF z
<1>9. CASE w.ret = 1 /\ To(dir)
  <2>1. dir \in InUse(s)
    BY <1>9, LeadsType DEF To
  <2>2. CASE ~ IsDir(s, dir)
    <3>1. dir \notin DirsOf(s)
      BY <2>2 DEF IsDir, DirsOf, InUse
    <3>2. \A h : ~ End(h)
      BY <1>1, <1>2, <1>9, <3>1 DEF HasEntry
    <3>3. z.ret # 1
      BY <1>4, <1>9, <2>2 DEF Fail
    <3> QED BY <3>2, <3>3, <1>6 DEF z
  <2>3. CASE IsDir(s, dir) /\ found = {}
    <3>1. \A h : ~ HasEntry(s, dir, x, h)
      BY <2>3, SearchFails DEF HasEntry, found
    <3>2. \A h : ~ End(h)
      BY <1>1, <1>2, <1>9, <3>1
    <3>3. z.ret # 1
      BY <1>4, <1>9, <2>3
    <3> QED BY <3>2, <3>3, <1>6 DEF z
  <2>4. CASE IsDir(s, dir) /\ found # {}
    <3>1. PICK i \in Positions(s, dir) : Entry(s, dir, i).name = x /\ found = {Entry(s, dir, i).ino} /\ dir \in DirsOf(s)
      BY <2>1, <2>4, <1>1, SearchIs DEF found
    <3> DEFINE h == Entry(s, dir, i).ino
    <3>2. HasEntry(s, dir, x, h)
      BY <3>1 DEF HasEntry
    <3> HIDE DEF h
    <3>3. End(h)
      BY <3>2, <1>1, <1>9
    <3>4. z = [ret |-> 1, ino |-> {h}]
      BY <1>4, <1>9, <2>4, <3>1 DEF h
    <3> QED BY <3>3, <3>4, <1>7 DEF z
  <2> QED BY <2>2, <2>3, <2>4
<1> QED BY <1>5, <1>8, <1>9 DEF z

\* The recursion of fs_lookup has a solution.
LEMMA LookupHasSteps ==
  ASSUME NEW s, NEW path \in Seq(Names)
  PROVE  \E u : LookupUpTo(u, s, path) /\ fs_lookup(s, path) = u[Len(path)]
<1> DEFINE N == Len(path)
           a == [ret |-> 1, ino |-> {}]
           Good(u, m) == /\ DOMAIN u = 0 .. N /\ u[0] = a
                         /\ \A n \in 1 .. m : u[n] = LookupStep(s, path, n, u[n - 1])
           T == {m \in 0 .. N : \E u : Good(u, m)}
<1>0. N \in Nat
  BY LenProperties
<1>1. 0 \in T
  <2>1. Good([n \in 0 .. N |-> a], 0)
    BY <1>0
  <2>2. \E h : Good(h, 0)
    BY <2>1
  <2>3. 0 \in 0 .. N
    BY <1>0
  <2> HIDE DEF Good
  <2> QED BY <2>2, <2>3
<1> HIDE DEF N, a
<1>2. \A m \in 1 .. N : m - 1 \in T => m \in T
  <2> SUFFICES ASSUME NEW m \in 1 .. N, m - 1 \in T PROVE m \in T
    OBVIOUS
  <2>0. m \in 0 .. N
    BY <1>0
  <2>1. PICK u : Good(u, m - 1)
    OBVIOUS
  <2> DEFINE v == LookupStep(s, path, m, u[m - 1])
             w == [n \in 0 .. N |-> IF n = m THEN v ELSE u[n]]
  <2>2. Good(w, m)
    <3>1. DOMAIN w = 0 .. N /\ w[0] = a
      BY <2>1, <1>0
    <3>2. ASSUME NEW n \in 1 .. m PROVE w[n] = LookupStep(s, path, n, w[n - 1])
      <4>1. n \in 0 .. N /\ n - 1 \in 0 .. N /\ n - 1 # m
        BY <1>0
      <4>2. CASE n = m
        <5>1. w[n] = v /\ w[n - 1] = u[n - 1]
          BY <4>1, <4>2
        <5> HIDE DEF w
        <5> QED BY <5>1, <4>2
      <4>3. CASE n # m
        <5>1. w[n] = u[n] /\ w[n - 1] = u[n - 1] /\ n \in 1 .. m - 1
          BY <4>1, <4>3
        <5> HIDE DEF w
        <5> QED BY <5>1, <2>1
      <4> QED BY <4>2, <4>3
    <3> QED BY <3>1, <3>2
  <2>3. \E h : Good(h, m)
    BY <2>2
  <2> HIDE DEF Good, w
  <2> QED BY <2>0, <2>3
<1>3. \E u : Good(u, N)
  <2> HIDE DEF T
  <2>1. \A n \in 0 .. N : n \in T
    BY <1>0, <1>1, <1>2, BoundedInduction
  <2>2. N \in T
    BY <2>1, <1>0
  <2> QED BY <2>2 DEF T
<1>4. PICK u : Good(u, N)
  BY <1>3
<1> DEFINE w == [n \in 0 .. N |-> u[n]]
<1>5. LookupUpTo(w, s, path)
  <2>1. ASSUME NEW n \in 0 .. N
        PROVE  w[n] = IF n = 0 THEN a ELSE LookupStep(s, path, n, w[n - 1])
    <3>1. CASE n = 0
      BY <3>1, <1>4
    <3>2. CASE n # 0
      <4>1. n \in 1 .. N /\ n - 1 \in 0 .. N
        BY <3>2, <1>0
      <4>2. u[n] = LookupStep(s, path, n, u[n - 1])
        BY <4>1, <1>4
      <4> QED BY <4>1, <4>2, <3>2
    <3> QED BY <3>1, <3>2
  <2>2. w = [n \in 0 .. N |-> w[n]]
    OBVIOUS
  <2> HIDE DEF w
  <2> QED BY <2>1, <2>2 DEF LookupUpTo, N, a
<1> DEFINE U == CHOOSE h : LookupUpTo(h, s, path)
<1>6. LookupUpTo(U, s, path)
  <2> HIDE DEF w
  <2> QED BY <1>5
<1>7. fs_lookup(s, path) = U[Len(path)]
  BY DEF fs_lookup, LookupUpTo, LookupStep
<1> QED BY <1>6, <1>7

\* fs_lookup answers right.
LEMMA LookupIs ==
  ASSUME NEW s, Sound(s), NEW path \in Seq(Names)
  PROVE  Right(s, path, Len(path), fs_lookup(s, path))
<1>1. PICK u : LookupUpTo(u, s, path) /\ fs_lookup(s, path) = u[Len(path)]
  BY LookupHasSteps
<1> DEFINE N == Len(path)
           T == {n \in 0 .. N : Right(s, path, n, u[n])}
<1>2. N \in Nat
  BY LenProperties
<1>3. u[0] = [ret |-> 1, ino |-> {}] /\ \A n \in 1 .. N : u[n] = LookupStep(s, path, n, u[n - 1])
  <2> DEFINE A == [n \in 0 .. N |-> IF n = 0 THEN [ret |-> 1, ino |-> {}] ELSE LookupStep(s, path, n, u[n - 1])]
  <2>1. A[0] = [ret |-> 1, ino |-> {}] /\ \A n \in 1 .. N : A[n] = LookupStep(s, path, n, u[n - 1])
    BY <1>2
  <2>2. u = A
    BY <1>1 DEF LookupUpTo
  <2> HIDE DEF A
  <2> QED BY <2>1, <2>2
<1>4. 0 \in T
  BY <1>2, <1>3 DEF Right
<1>5. \A n \in 1 .. N : n - 1 \in T => n \in T
  <2> SUFFICES ASSUME NEW n \in 1 .. N, n - 1 \in T PROVE n \in T
    OBVIOUS
  <2>1. n \in 0 .. N /\ Right(s, path, n - 1, u[n - 1])
    BY <1>2
  <2>2. Right(s, path, n, u[n])
    BY <2>1, <1>3, LookupStepRight
  <2> QED BY <2>1, <2>2
<1> HIDE DEF T
<1>6. N \in T
  <2>1. \A n \in 0 .. N : n \in T
    BY <1>2, <1>4, <1>5, BoundedInduction
  <2> QED BY <2>1, <1>2
<1> QED BY <1>1, <1>6 DEF T

\* It finds what a path leads to, and nothing where none leads.
LEMMA LookupFinds ==
  ASSUME NEW s, Sound(s), NEW path \in Seq(Names), path # <<>>
  PROVE  /\ \A h : Leads(s, Root, path, h) => fs_lookup(s, path) = [ret |-> 1, ino |-> {h}]
         /\ (\A h : ~ Leads(s, Root, path, h)) => fs_lookup(s, path).ret # 1
<1> DEFINE w == fs_lookup(s, path)
           N == Len(path)
<1>1. N # 0 /\ SubSeq(path, 1, N) = path
  BY EmptySeq
<1>2. Right(s, path, N, w)
  BY LookupIs
<1> HIDE DEF w, N
<1>3. \/ \E h : Leads(s, Root, path, h) /\ w = [ret |-> 1, ino |-> {h}]
      \/ (\A h : ~ Leads(s, Root, path, h)) /\ w.ret # 1
  BY <1>1, <1>2 DEF Right
<1>4. \A h, f : Leads(s, Root, path, h) /\ Leads(s, Root, path, f) => h = f
  BY LeadsOneWay
<1> QED BY <1>3, <1>4 DEF w

-----------------------------------------------------------------------------
(* The file system at first.                                                *)

\* fs_format makes a sound file system.
LEMMA FormatIs ==
  ASSUME NEW s, s = fs_format
  PROVE  Sound(s) /\ OneBlockFiles(s) /\ Alone(s) /\ OnePageDirs(s)
<1>0. /\ Itab = 0 .. NumInodes - 1 /\ 0 \in Itab /\ Root \in Itab /\ Root # 0 /\ NoBlk \in BlockNos
      /\ 1 \in 0 .. InodeBlocks /\ InodeBlocks \in 0 .. InodeBlocks
      /\ \A k \in 0 .. InodeBlocks - 1 : k \in 0 .. InodeBlocks /\ k + 1 \in 0 .. InodeBlocks
  BY Constants DEF Itab
<1>1. /\ s.iused = {0, Root} /\ s.bused = {NoBlk}
      /\ s.itab = [f \in Itab |-> fsi_inode_init(IF f = Root THEN DIR ELSE FILE)]
      /\ s.store = [b \in BlockNos |-> ZeroPage]
      /\ s = [iused |-> s.iused, bused |-> s.bused, itab |-> s.itab, store |-> s.store]
  BY DEF fs_format
<1>2. InUse(s) = {Root}
  BY <1>0, <1>1 DEF InUse
<1>3. /\ s.itab[Root].type = DIR
      /\ \A f \in Itab \ {Root} : s.itab[f] = fsi_inode_init(FILE)
      /\ \A f \in Itab : /\ s.itab[f] \in InodeRecords /\ s.itab[f].size = 0
                         /\ \A k \in 0 .. InodeBlocks : s.itab[f].blocks[k] = NoBlk
  <2>1. s.itab[Root] = fsi_inode_init(DIR) /\ \A f \in Itab \ {Root} : s.itab[f] = fsi_inode_init(FILE)
    BY <1>0, <1>1
  <2>2. \A f \in Itab : s.itab[f] = fsi_inode_init(DIR) \/ s.itab[f] = fsi_inode_init(FILE)
    BY <2>1
  <2> QED BY <2>1, <2>2, InitIs
<1>4. s \in States
  <2>1. s.store \in [BlockNos -> Pages]
    <3>1. ZeroCell \in Cells
      BY <1>0 DEF ZeroCell, Cells
    <3>2. ZeroPage \in Pages
      BY <3>1 DEF ZeroPage, Pages
    <3> QED BY <1>1, <3>2
  <2>2. s.itab \in [Itab -> InodeRecords]
    <3>1. DOMAIN s.itab = Itab /\ s.itab = [f \in Itab |-> s.itab[f]]
      BY <1>1
    <3> QED BY <3>1, <1>3
  <2>3. s.iused \in SUBSET Itab /\ s.bused \in SUBSET BlockNos
    BY <1>0, <1>1
  <2> QED BY <1>1, <2>1, <2>2, <2>3 DEF States
<1>5. \A f \in Itab : Positions(s, f) = {}
  BY <1>3 DEF Positions
<1>6. DirsOf(s) = {Root} /\ FilesOf(s) = {}
  BY <1>2, <1>3, Constants DEF DirsOf, FilesOf
<1>7. Formed(s)
  BY <1>0, <1>1, <1>2, <1>3, <1>4 DEF Formed
<1>8. Backed(s)
  BY <1>0, <1>3, <1>5 DEF Backed
<1>9. Owned(s)
  BY <1>0, <1>1, <1>2, <1>3 DEF Owned
<1>10. Linked(s) /\ Parented(s) /\ Rooted(s) /\ Filled(s)
  BY <1>0, <1>2, <1>5, <1>6 DEF Linked, Parented, Rooted, Filled
<1>11. OneBlockFiles(s) /\ Alone(s) /\ OnePageDirs(s)
  BY <1>0, <1>2, <1>3, <1>6 DEF OneBlockFiles, Alone, OnePageDirs
<1> QED BY <1>7, <1>8, <1>9, <1>10, <1>11 DEF Sound

=============================================================================
