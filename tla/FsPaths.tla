------------------------------ MODULE FsPaths ------------------------------
(***************************************************************************)
(* The disk usage report (snfs_server/fs.c, fsi_get_path_name to            *)
(* fs_diskusage): which files have each block, by the paths found in a walk *)
(* of the tree.                                                             *)
(***************************************************************************)
EXTENDS FsDefrag

\* Fault: the names of the directories on the way are left out.
Joined_Last(name, below) == below
\* The path of what is found below an entry.
Joined(name, below) == <<name>> \o below

\* fsi_dir_get_path_name: the path from a directory to an inode, by the first
\* entry that is the inode or has it below; none if there is no such entry.
fsi_dir_get_path_name(fs, dir, file) ==
  LET path[d \in 0 .. Depth] ==
        [m \in Itab |->
          LET Way(i) ==
                LET e == Entry(fs, m, i)
                IN  IF e.ino = file THEN {<<e.name>>}
                    ELSE IF d = 0 \/ ~ IsDir(fs, e.ino) THEN {}
                    ELSE {Joined(e.name, p) : p \in path[d - 1][e.ino]}
              found == {i \in Positions(fs, m) : Way(i) # {}}
          IN  IF found = {} THEN {} ELSE Way(LeastOf(found))]
  IN  path[Depth][dir]

\* fsi_get_path_name: the path of an inode in use, from the root.
fsi_get_path_name(fs, file) ==
  IF file \notin fs.iused THEN {}
  ELSE IF file = Root THEN {<< >>}
  ELSE fsi_dir_get_path_name(fs, Root, file)

\* fsi_num_blocks_used, less the metadata blocks.
fsi_num_blocks_used(fs) == Cardinality(fs.bused \ {NoBlk})

\* The inodes, in use or not, with a block in blocks[].
Holders(fs, b) ==
  {f \in Inodes : \E k \in 0 .. InodeBlocks - 1 : fs.itab[f].blocks[k] = b}

\* fs_diskusage: the paths of the holders of each block, up to the block after
\* the one that would be last if those in use had no gaps.  It fails, with part
\* of the report made, at a holder that has no path.
fs_diskusage(fs) ==
  LET listed == {b \in fs.bused \ {NoBlk} : b <= fsi_num_blocks_used(fs) + 1}
  IN  [ret   |-> IF \E b \in listed, f \in Inodes :
                      f \in Holders(fs, b) /\ fsi_get_path_name(fs, f) = {}
                 THEN Fail ELSE OK,
       files |-> [b \in listed |-> UNION {fsi_get_path_name(fs, f) : f \in Holders(fs, b)}]]
=============================================================================
