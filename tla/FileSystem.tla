----------------------------- MODULE FileSystem -----------------------------
(***************************************************************************)
(* The file system under any sequence of the calls that change it, one     *)
(* request at a time (the handlers of snfs_server/snfs.c for create, mkdir,*)
(* write, remove, copy and append).  A call is given any inode number: the *)
(* handle of a client may be one of an object that has been removed since. *)
(***************************************************************************)
EXTENDS FsPaths

CONSTANTS
  Offsets,    \* offsets a client writes at
  Writes,     \* what a client may write at once
  Lingering,  \* the sets of freed blocks the cache may still answer for
  Reserve,    \* bound: files are written and copied with this many free blocks
  Kinds,      \* the operations of this instance
  Directory   \* stands for a directory in the tree of names

ASSUME FileSystemAssumption ==
  /\ Offsets \subseteq Nat
  /\ Writes \subseteq Seq(Data) /\ Directory \notin Seq(Data)
  /\ Lingering \subseteq SUBSET BlockNos
  /\ Reserve \in Nat
  /\ Kinds \subseteq {"create", "mkdir", "write", "remove", "copy", "append", "defrag"}

VARIABLE fs   \* the inode table, the bitmaps and the blocks

Room == Cardinality(FreeBlocks(fs)) >= Reserve

-----------------------------------------------------------------------------

Init == fs = fs_format

Create == "create" \in Kinds /\
  \E dir \in Inodes, name \in Names : fs' = fs_create(fs, dir, name).fs

Mkdir == "mkdir" \in Kinds /\
  \E dir \in Inodes, name \in Names : fs' = fs_mkdir(fs, dir, name).fs

Write == "write" \in Kinds /\ Room /\
  \E file \in Inodes, offset \in Offsets, data \in Writes :
    fs' = fs_write(fs, file, offset, data).fs

Remove == "remove" \in Kinds /\
  \E dir \in Inodes, name \in Names, stale \in Lingering :
    fs' = fs_remove(fs, dir, name, stale).fs

Copy == "copy" \in Kinds /\ Room /\
  \E dir, dest \in Inodes, name, destName \in Names :
    fs' = fs_copy(fs, dir, name, dest, destName).fs

AppendFile == "append" \in Kinds /\ Room /\
  \E dir, dest \in Inodes, name, destName \in Names :
    fs' = fs_append(fs, dest, destName, dir, name).fs

\* snfs_defrag.  Bounds: no block is shared (getOwner sees one of the sharers
\* only), and no exchange of blocks spoils an inode (see swap).
Unshared == \A f \in Inodes : Sharers(fs, f) = {}
Defrag == "defrag" \in Kinds /\ Unshared /\
  LET s == fs_defrag(fs) IN s.sane /\ fs' = s.fs

Next == Defrag \/ Create \/ Mkdir \/ Write \/ Remove \/ Copy \/ AppendFile

Spec == Init /\ [][Next]_fs

-----------------------------------------------------------------------------
(* What is live: the objects reached from the root, and their blocks.       *)

Used == fs.iused \ {0}

Dirs == {d \in Used : fs.itab[d].type = DIR}

Chain(f) == {fs.itab[f].blocks[k] : k \in 0 .. ChainLength(fs.itab[f].blocks) - 1}

\* The entries of all directories, as triples of directory, position, entry.
Links == UNION {{<<d, i, Entry(fs, d, i)>> : i \in Positions(fs, d)} : d \in Dirs}

\* The objects below an inode, itself included, each with the path that leads
\* from it to the object.
Objects(f) ==
  LET below[d \in 0 .. Depth] ==
        [g \in Itab |->
          {<<<< >>, g>>} \cup
          IF d = 0 \/ fs.itab[g].type = FILE THEN {}
          ELSE UNION {{<<<<Entry(fs, g, i).name>> \o o[1], o[2]>> :
                          o \in below[d - 1][Entry(fs, g, i).ino]} :
                      i \in Positions(fs, g)}]
  IN  below[Depth][f]

\* The tree of names: what a client sees that walks it from the root.
Tree ==
  LET all == Objects(Root)
      At(p) == (CHOOSE o \in all : o[1] = p)[2]
  IN  [p \in {o[1] : o \in all} |->
        IF fs.itab[At(p)].type = DIR THEN Directory ELSE Content(fs, At(p))]

-----------------------------------------------------------------------------
(* Properties.                                                              *)

\* The state is an inode table, two bitmaps and pages of cells; sizes stay
\* within what blocks[] can hold, and inode 0, the root and block 0 are taken.
TypeOK ==
  /\ fs.iused \subseteq Itab /\ {0, Root} \subseteq fs.iused
  /\ fs.bused \subseteq BlockNos /\ NoBlk \in fs.bused
  /\ \A f \in Itab :
       /\ fs.itab[f].type \in {FILE, DIR}
       /\ fs.itab[f].size \in 0 .. InodeBlocks * PageSize
       /\ \A k \in 0 .. InodeBlocks : fs.itab[f].blocks[k] \in BlockNos
       /\ fs.itab[f].blocks[InodeBlocks] = NoBlk
  /\ \A b \in BlockNos, k \in 0 .. PageSize - 1 :
       fs.store[b][k] \in [name : Names \cup Data \cup {Empty}, ino : Itab]

\* The directories form a tree over exactly the inodes in use: every one but
\* the root is the entry of one directory, once, and hangs below the root; the
\* names of a directory are distinct.  The inode bitmap and the entries are
\* kept by different statements of create, remove and copy.
TreeShape ==
  LET links == Links
  IN  /\ \A l \in links : l[3].ino \in Used \ {Root}
      /\ \A f \in Used \ {Root} : Cardinality({l \in links : l[3].ino = f}) = 1
      /\ \A l, m \in links : l[1] = m[1] /\ l[3].name = m[3].name => l = m
      /\ \A S \in SUBSET Used :
           Root \in S /\ (\A l \in links : l[1] \in S => l[3].ino \in S) => S = Used

\* Three walks of the tree agree: fs_lookup resolves the paths that exist to
\* the objects they lead to, and no others (fs.c:294-340); the path the disk
\* usage report makes for an inode leads to it (fs.c:830-910); and the report
\* gives a block the files a client would read it in, whatever shares it
\* (fs.c:1263-1289).
WalksAgree ==
  LET objects == Objects(Root)
      paths   == {o[1] : o \in objects}
      usage   == fs_diskusage(fs)
  IN  /\ \A o \in objects :
           /\ o[1] # << >> => fs_lookup(fs, o[1]) = [ret |-> 1, ino |-> {o[2]}]
           /\ fsi_get_path_name(fs, o[2]) = {o[1]}
      /\ \A p \in paths, n \in Names :
           Append(p, n) \notin paths => fs_lookup(fs, Append(p, n)).ret # 1
      /\ usage.ret = OK
      /\ \A b \in DOMAIN usage.files :
           usage.files[b] = {o[1] : o \in {o \in objects : b \in Chain(o[2])}}

\* The pages of an object hold all of it: size never runs ahead of blocks[].
PagesSuffice ==
  \A f \in Used : fs.itab[f].size <= ChainLength(fs.itab[f].blocks) * PageSize

\* A block in use by an inode is not marked free, and a block is in use by
\* one inode only, unless these are files that share it as copies do, at the
\* same position: so freeing what is not shared never frees what is in use.
\* And no object is larger than the blocks it has, however a write ended.
BlocksOwned ==
  /\ PagesSuffice
  /\ \A f \in Used : Chain(f) \subseteq fs.bused \ {NoBlk}
  /\ \A f, g \in Used, i, j \in 0 .. InodeBlocks - 1 :
       LET b == fs.itab[f].blocks[i]
       IN  b # NoBlk /\ b = fs.itab[g].blocks[j] /\ <<f, i>> # <<g, j>>
           => /\ i = j
              /\ fs.itab[f].type = FILE /\ fs.itab[g].type = FILE
              /\ fs.itab[f].blocks[0] = fs.itab[g].blocks[0]

\* To a client that walks it, the file system is a tree of names in which every
\* file has its own content: no operation on one object changes another, and
\* a copy is a value, whatever blocks it shares.
NameTree == INSTANCE Namespace WITH tree <- Tree
Implements == NameTree!Spec

=============================================================================
