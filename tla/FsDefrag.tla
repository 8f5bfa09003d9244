------------------------------ MODULE FsDefrag ------------------------------
(***************************************************************************)
(* Defragmentation (snfs_server/fs.c, from getOwner to fs_defrag): the      *)
(* blocks of the inodes are moved together, behind the back of the cache    *)
(* (BlockCache: Move).                                                      *)
(***************************************************************************)
EXTENDS FsTree

CONSTANT MaxBlks   \* MAX_NUM_BLKS: blocks from here on are not looked at
ASSUME FsDefragAssumption == MaxBlks \in Nat

\* getOwner: the lowest inode that has the block, if there is one.
getOwner(fs, block) ==
  LET owners == {f \in Inodes : \E k \in 0 .. ChainLength(fs.itab[f].blocks) - 1 :
                                  fs.itab[f].blocks[k] = block}
  IN  IF owners = {} THEN {} ELSE {LeastOf(owners)}

\* The position of a block in blocks[] of an inode that has it.
IndexOf(fs, f, block) == LeastOf({k \in 0 .. InodeBlocks : fs.itab[f].blocks[k] = block})

\* Where the scan of inode f's blocks[] for a block ends that f does not have:
\* it runs on over the inodes after f, whose first words are type and size.
\* The inode of the word it stops at, and whether this is an entry of blocks[].
Overrun(fs, f, block) ==
  LET Hits(g) == \/ fs.itab[g].size = block
                 \/ \E k \in 0 .. InodeBlocks : fs.itab[g].blocks[k] = block
      hit == {g \in Inodes : g > f /\ Hits(g)}
  IN  IF hit = {} THEN [ino |-> 0, entry |-> FALSE]
      ELSE [ino |-> LeastOf(hit), entry |-> fs.itab[LeastOf(hit)].size # block]

\* Fault: the bitmap is left as it is.
ToFree_Unmarked(fs, src, dst) == [fs EXCEPT !.store[src] = ZeroPage]
\* What is done to the two blocks when dst was free.
ToFree(fs, src, dst) ==
  [fs EXCEPT !.store[src] = ZeroPage, !.bused = (@ \ {src}) \cup {dst}]

\* swap: the contents change places, and the numbers in the inodes with them.
\* With another owner of dst, the code looks for dst in the first owner's inode
\* (dInode is s_owner's, line 1341): s.sane says that it still ends at the entry.
swap(s, owner, src, dst) ==
  LET fs == s.fs
      d  == getOwner(fs, dst)
      at == IF d \in {{}, {owner}} THEN [ino |-> owner, entry |-> TRUE] ELSE Overrun(fs, owner, dst)
      placed == [fs EXCEPT !.store[dst] = fs.store[src], !.store[src] = fs.store[dst],
                           !.itab[owner].blocks[IndexOf(fs, owner, src)] = dst]
  IN  IF d = {} THEN [s EXCEPT !.fs = ToFree(placed, src, dst)]
      ELSE IF at.ino = 0 THEN [s EXCEPT !.fs = placed, !.sane = FALSE]
      ELSE IF ~at.entry
      THEN [fs |-> [placed EXCEPT !.itab[at.ino].size = src], sane |-> FALSE, ret |-> s.ret]
      ELSE [s EXCEPT !.fs.store = placed.store,
                     !.fs.itab = [placed.itab EXCEPT
                                   ![at.ino].blocks[IndexOf(fs, at.ino, dst)] = src],
                     !.sane = @ /\ {at.ino} = d]

\* The blocks of one owner, up to the end of its chain, go to j and after it.
Gather(s, owner, j) ==
  LET upTo[n \in 0 .. InodeBlocks] ==
        IF n = 0 THEN s
        ELSE LET t     == upTo[n - 1]
                 chain == t.fs.itab[owner].blocks
             IN  IF n > ChainLength(chain) \/ chain[n - 1] = j + n - 1 THEN t
                 ELSE swap(t, owner, chain[n - 1], j + n - 1)
  IN  upTo[InodeBlocks]

\* fs_defrag: i counts the blocks seen, and with them those moved, j is where
\* the next one goes.
fs_defrag(fs) ==
  LET end == MinOf(MaxBlks, NumBlocks)
      after[n \in 0 .. end] ==
        IF n = 0 THEN [s |-> [fs |-> fs, ret |-> OK, sane |-> TRUE], i |-> NoBlk + 1, j |-> NoBlk + 1]
        ELSE LET at    == after[n - 1]
                 owner == getOwner(at.s.fs, at.i)
                 o     == CHOOSE f \in owner : TRUE
                 len   == ChainLength(at.s.fs.itab[o].blocks)
             IN  IF at.i >= end \/ at.s.ret = Fail THEN at
                 ELSE IF at.i \notin at.s.fs.bused THEN [at EXCEPT !.i = @ + 1]
                 ELSE IF owner = {} THEN [at EXCEPT !.s.ret = Fail]
                 ELSE [s |-> Gather(at.s, o, at.j), i |-> at.i + len, j |-> at.j + len]
  IN  after[end].s
=============================================================================
