------------------------------- MODULE FsCore -------------------------------
(***************************************************************************)
(* The file system of the server as functions on its state: inode table,   *)
(* bitmaps, directory pages and the operations that do not recurse         *)
(* (snfs_server/fs.c).  An operation maps the state to the new state and   *)
(* its return value, OK (0) or Fail (-1).                                  *)
(*                                                                         *)
(* A state is a record                                                     *)
(*   iused  the inode bitmap          bused  the block bitmap              *)
(*   itab   the inode table           store  what the blocks contain       *)
(* A block is a page of PageSize cells.  A directory page holds one entry  *)
(* per cell; in a block of a file a cell holds one unit of data, under the *)
(* inode number 0 that no entry has.  Sizes and offsets count cells.       *)
(* Blocks are read and written through the cache, which is taken here for  *)
(* the store it should be; BlockCache models the cache itself.             *)
(***************************************************************************)
EXTENDS Integers, FiniteSets, Sequences

CONSTANTS
  NumInodes,    \* ITAB_SIZE
  NumBlocks,    \* block_num_blocks
  InodeBlocks,  \* INODE_NUM_BLKS
  PageSize,     \* DIR_PAGE_ENTRIES; BLOCK_SIZE / sizeof(fs_dentry_t)
  Names,        \* names a client may use
  Data,         \* units of data a client may write
  Empty         \* the name in a cell of zeros

ASSUME FsAssumption ==
  /\ NumInodes \in Nat /\ NumInodes > 2
  /\ NumBlocks \in Nat /\ NumBlocks > 1
  /\ InodeBlocks \in Nat /\ InodeBlocks > 1
  /\ PageSize \in Nat \ {0}
  /\ NumInodes - 2 < 2 * PageSize   \* no directory fills its second page
  /\ Empty \notin Names \cup Data
  /\ Names \cap Data = {}             \* what is written to a file is no entry

OK == 0
Fail == -1
FILE == "FS_FILE"
DIR == "FS_DIR"
Root == 1

Inodes == 1 .. NumInodes - 1
Itab == Inodes \cup {0}
BlockNos == 0 .. NumBlocks - 1
\* Block 0 stands for the metadata blocks 0 to 9; as an inode's entry, for none.
NoBlk == 0

ZeroCell == [name |-> Empty, ino |-> 0]
ZeroPage == [k \in 0 .. PageSize - 1 |-> ZeroCell]

\* Every loop over blocks[] stops at 0; the word after the array (reserved[0])
\* is 0 as well, and is kept here as the last element.
NoBlocks == [k \in 0 .. InodeBlocks |-> NoBlk]

\* What a state is made of.  No size is more than blocks[] has room for.
Cells == [name : Names \cup Data \cup {Empty}, ino : Itab]
Pages == [0 .. PageSize - 1 -> Cells]
InodeRecords == [type   : {FILE, DIR},
                 size   : 0 .. InodeBlocks * PageSize,
                 blocks : [0 .. InodeBlocks -> BlockNos]]
States == [iused : SUBSET Itab,
           bused : SUBSET BlockNos,
           itab  : [Itab -> InodeRecords],
           store : [BlockNos -> Pages]]

fsi_inode_init(type) == [type |-> type, size |-> 0, blocks |-> NoBlocks]

\* Fault: inode 0 is not reserved.
fs_format_NoReserve ==
  [iused |-> {Root},
   bused |-> {NoBlk},
   itab  |-> [f \in Itab |-> fsi_inode_init(IF f = Root THEN DIR ELSE FILE)],
   store |-> [b \in BlockNos |-> ZeroPage]]

\* fs_format: the root is inode 1, inode 0 is never used.
fs_format ==
  [iused |-> {0, Root},
   bused |-> {NoBlk},
   itab  |-> [f \in Itab |-> fsi_inode_init(IF f = Root THEN DIR ELSE FILE)],
   store |-> [b \in BlockNos |-> ZeroPage]]

-----------------------------------------------------------------------------
(* Bitmaps and block counts.                                                *)

\* Fault: the first is taken unseen.
MinOf_First(a, b) == a
MinOf(a, b) == IF a <= b THEN a ELSE b
MaxOf(a, b) == IF a >= b THEN a ELSE b
LeastOf(S) == CHOOSE x \in S : \A y \in S : x <= y

\* fsi_bmap_find_free: the lowest clear bit, if there is one.
FreeInodes(fs) == Itab \ fs.iused
FreeBlocks(fs) == BlockNos \ fs.bused

\* Position i of an inode, counted from 0, is a cell of one of its pages.
PageOf(i) == i \div PageSize
CellOf(i) == i % PageSize

\* OFFSET_TO_BLOCKS
BlocksFor(n) == PageOf(n) + (IF CellOf(n) > 0 THEN 1 ELSE 0)

\* The nonzero prefix of blocks[].
ChainLength(blocks) == LeastOf({k \in 0 .. InodeBlocks : blocks[k] = NoBlk})

-----------------------------------------------------------------------------
(* Directories.                                                             *)

\* The i-th entry of a directory, counted from 0.
Entry(fs, dir, i) ==
  fs.store[fs.itab[dir].blocks[PageOf(i)]][CellOf(i)]

\* The positions of the entries of a directory (or of any inode, unchecked).
Positions(fs, dir) == 0 .. fs.itab[dir].size - 1

\* fsi_dir_search: the inodes found under a name, at most one.
fsi_dir_search(fs, dir, name) ==
  LET found == {i \in Positions(fs, dir) : Entry(fs, dir, i).name = name}
  IN  IF found = {} THEN {} ELSE {Entry(fs, dir, LeastOf(found)).ino}

IsDir(fs, d) == d \in fs.iused /\ d # 0 /\ fs.itab[d].type = DIR
IsFile(fs, f) == f \in fs.iused /\ f # 0 /\ fs.itab[f].type = FILE

\* Fault: the directory does not grow.
AddEntry_NotGrown(fs, dir, block, entry) ==
  LET size == fs.itab[dir].size
  IN  [fs EXCEPT !.bused = @ \cup {block},
                 !.store[block][CellOf(size)] = entry,
                 !.itab[dir].blocks[PageOf(size)] = block]

\* An entry at the end of a directory, in the page block.
AddEntry(fs, dir, block, entry) ==
  LET size == fs.itab[dir].size
  IN  [fs EXCEPT !.bused = @ \cup {block},
                 !.store[block][CellOf(size)] = entry,
                 !.itab[dir].blocks[PageOf(size)] = block,
                 !.itab[dir].size = size + 1]

\* fs_create and fs_mkdir: one inode, one entry at the end of the directory,
\* and a new page whenever the last one is full (or there is none).
NewObject(fs, dir, name, type) ==
  LET size    == fs.itab[dir].size
      newPage == CellOf(size) = 0
      finode  == LeastOf(FreeInodes(fs))
      block   == IF newPage THEN LeastOf(FreeBlocks(fs))
                            ELSE fs.itab[dir].blocks[PageOf(size)]
      added   == AddEntry(fs, dir, block, [name |-> name, ino |-> finode])
      refused == [fs |-> fs, ret |-> Fail, ino |-> 0]
  IN  IF ~ IsDir(fs, dir) \/ fsi_dir_search(fs, dir, name) # {} THEN refused
      ELSE IF FreeInodes(fs) = {} THEN refused
      ELSE IF newPage /\ FreeBlocks(fs) = {} THEN refused
      ELSE [fs |-> [added EXCEPT !.iused = @ \cup {finode},
                                 !.itab[finode] = fsi_inode_init(type)],
            ret |-> OK, ino |-> finode]

fs_create(fs, dir, name) == NewObject(fs, dir, name, FILE)
fs_mkdir(fs, dir, name) == NewObject(fs, dir, name, DIR)

\* Fault: the scan stops at the first entry.
FoundAt_First(fs, dir, file) == [b |-> 0, be |-> 0]

\* swap_entry: where the two scans leave file_b and file_be.  Finding the file
\* on page 0 only leaves the inner loop: the scan goes on over page 1, whether
\* or not its cells are entries still.
FoundAt(fs, dir, file) ==
  LET num    == fs.itab[dir].size
      blocks == fs.itab[dir].blocks
      hits0  == {k \in 0 .. MinOf(PageSize, num) - 1 : fs.store[blocks[0]][k].ino = file}
      seen   == IF hits0 # {} THEN LeastOf(hits0) ELSE MinOf(PageSize, num)
      hits1  == {k \in 0 .. MinOf(PageSize, num - seen) - 1 :
                   fs.store[blocks[1]][k].ino = file}
  IN  IF blocks[1] # NoBlk /\ hits1 # {} THEN [b |-> 1, be |-> LeastOf(hits1)]
                                         ELSE [b |-> 0, be |-> seen]

\* Fault: the entries stay where they are.
swap_entry_None(fs, dir, file) == fs

\* The file's entry and the last one of the directory change places.
swap_entry(fs, dir, file) ==
  LET num    == fs.itab[dir].size
      blocks == fs.itab[dir].blocks
      at     == FoundAt(fs, dir, file)
      last   == IF num > PageSize THEN [b |-> 1, be |-> (num % PageSize) - 1]
                                  ELSE [b |-> 0, be |-> num - 1]
      cellA  == fs.store[blocks[at.b]][at.be]
      cellB  == fs.store[blocks[last.b]][last.be]
  IN  [fs EXCEPT !.store[blocks[at.b]][at.be] = cellB,
                 !.store[blocks[last.b]][last.be] = cellA]

-----------------------------------------------------------------------------
(* Files, and the sharing of blocks between copies.                         *)

\* Fault: only the inodes after the file are searched.
Sharers_After(fs, file) ==
  {f \in Inodes : f > file /\ f \in fs.iused
                  /\ fs.itab[f].blocks[0] = fs.itab[file].blocks[0]
                  /\ fs.itab[file].blocks[0] # NoBlk}

\* inode_search: the other used inodes whose first block is the same; the code
\* returns the lowest of them.
Sharers(fs, file) ==
  {f \in Inodes \ {file} :
     /\ f \in fs.iused
     /\ fs.itab[f].blocks[0] = fs.itab[file].blocks[0]
     /\ fs.itab[file].blocks[0] # NoBlk}

\* Fault: the block is not marked in the bitmap.
Allocate_Unmarked(s, file, k) ==
  LET b == LeastOf(FreeBlocks(s.fs))
  IN  IF s.ret = Fail \/ FreeBlocks(s.fs) = {} THEN [s EXCEPT !.ret = Fail]
      ELSE [s EXCEPT !.fs.itab[file].blocks[k] = b]

\* Put the lowest free block at position k of blocks[]; once this has failed the
\* loop around it is over.
Allocate(s, file, k) ==
  LET b == LeastOf(FreeBlocks(s.fs))
  IN  IF s.ret = Fail \/ FreeBlocks(s.fs) = {} THEN [s EXCEPT !.ret = Fail]
      ELSE [s EXCEPT !.fs.bused = @ \cup {b}, !.fs.itab[file].blocks[k] = b]

\* Blocks for the positions from .. to - 1 of a file.
AllocateFrom(fs, file, from, to) ==
  LET upTo[n \in from .. to] == IF n = from THEN [fs |-> fs, ret |-> OK]
                                           ELSE Allocate(upTo[n - 1], file, n - 1)
  IN  upTo[to]

\* Fault: the new blocks are not filled.
copy_inode_write_Empty(fs, dest, file) ==
  AllocateFrom(fs, dest, 0, ChainLength(fs.itab[file].blocks))

\* copy_inode_write: blocks of its own for dest, each a copy of the block of
\* file at the same position.  A failure leaves dest with the blocks it has got
\* so far, and the shared ones after them.
copy_inode_write(fs, dest, file) ==
  LET chain == fs.itab[file].blocks
      upTo[n \in 0 .. ChainLength(chain)] ==
        IF n = 0 THEN [fs |-> fs, ret |-> OK]
        ELSE LET s == Allocate(upTo[n - 1], dest, n - 1)
             IN  IF s.ret = Fail THEN s
                 ELSE [s EXCEPT !.fs.store[s.fs.itab[dest].blocks[n - 1]] =
                                  s.fs.store[chain[n - 1]]]
  IN  upTo[ChainLength(chain)]

\* copy_inode: dest gets the blocks and the size of file; what dest had in
\* further positions of blocks[] stays.
copy_inode(fs, dest, file) ==
  LET from == fs.itab[file]
      len  == ChainLength(from.blocks)
  IN  [fs EXCEPT
        !.itab[dest].blocks = [k \in 0 .. InodeBlocks |->
                                IF k < len THEN from.blocks[k] ELSE @[k]],
        !.itab[dest].size = from.size]

\* fs_read from offset 0 to the end: the content of a file.
Content(fs, file) ==
  [i \in 1 .. fs.itab[file].size |-> Entry(fs, file, i - 1).name]

\* fs_write.  A file that shares its first block gets blocks of its own first;
\* when that fails the failure is only logged.
fs_write(fs, file, offset, data) ==
  LET own   == IF Sharers(fs, file) = {} THEN fs
               ELSE copy_inode_write(fs, file, LeastOf(Sharers(fs, file))).fs
      count == Len(data)
      size  == own.itab[file].size
      off   == MinOf(offset, size)
      used  == BlocksFor(size)
      req   == MaxOf(BlocksFor(off + count), used) - used
      got   == AllocateFrom(own, file, used, used + req)
      blk   == got.fs.itab[file].blocks
      \* The positions the loops write, and the last of them that block b has.
      span  == PageOf(off) .. BlocksFor(off + count) - 1
      Pos(b) == CHOOSE p \in span : blk[p] = b /\ \A q \in span : blk[q] = b => q <= p
      \* A page read back or, at a new position, a buffer; no read looks at the
      \* cells of the buffer past the end of the data.
      Page(p) == [k \in 0 .. PageSize - 1 |->
                   LET i == p * PageSize + k - off
                   IN  IF i \in 0 .. count - 1 THEN [name |-> data[i + 1], ino |-> 0]
                       ELSE IF p < used THEN got.fs.store[blk[p]][k] ELSE ZeroCell]
  IN  IF ~ IsFile(fs, file) THEN [fs |-> fs, ret |-> Fail]
      ELSE IF req > InodeBlocks - used THEN [fs |-> own, ret |-> Fail]
      ELSE IF got.ret = Fail THEN got
      ELSE [fs |-> [got.fs EXCEPT
                     !.store = [b \in BlockNos |->
                                 IF count > 0 /\ \E p \in span : blk[p] = b
                                 THEN Page(Pos(b)) ELSE @[b]],
                     !.itab[file].size = MaxOf(off + count, size)],
            ret |-> OK]

\* fs_append: the whole content of one file written at the end of the other;
\* both are looked up by name in the directories given.
fs_append(fs, dest, destName, dir, name) ==
  LET src == fsi_dir_search(fs, dir, name)
      dst == fsi_dir_search(fs, dest, destName)
      s   == CHOOSE f \in src : TRUE
      d   == CHOOSE f \in dst : TRUE
  IN  IF ~ IsDir(fs, dir) \/ ~ IsDir(fs, dest) \/ src = {} \/ dst = {}
      THEN [fs |-> fs, ret |-> Fail]
      ELSE IF fs.itab[d].type # FILE \/ ~ IsFile(fs, s)
      THEN [fs |-> fs, ret |-> Fail]
      ELSE fs_write(fs, d, fs.itab[d].size, Content(fs, s))

\* fs_lookup: resolve a path from the root, one directory a component.  The
\* answer is 1 when all of it was found, 0 when a component was not, -1 when
\* one that is not a directory in use was to be searched.
fs_lookup(fs, path) ==
  LET walk[n \in 0 .. Len(path)] ==
        IF n = 0 THEN [ret |-> 1, ino |-> {}]
        ELSE LET w     == walk[n - 1]
                 dir   == IF n = 1 THEN Root ELSE CHOOSE f \in w.ino : TRUE
                 found == fsi_dir_search(fs, dir, path[n])
             IN  IF w.ret # 1 THEN w
                 ELSE IF ~ IsDir(fs, dir) THEN [ret |-> Fail, ino |-> {}]
                 ELSE IF found = {} THEN [ret |-> 0, ino |-> {}]
                 ELSE [ret |-> 1, ino |-> found]
  IN  walk[Len(path)]
=============================================================================
