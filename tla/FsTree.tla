------------------------------- MODULE FsTree -------------------------------
(***************************************************************************)
(* The operations of snfs_server/fs.c that walk a directory tree: removal  *)
(* and copying.  What calls itself there is a function of the depth that is *)
(* left to go; Depth is more than any tree has, having an inode at each     *)
(* level.                                                                   *)
(***************************************************************************)
EXTENDS FsCore

Depth == NumInodes

\* The end of fs_remove_aux: free an inode, and its blocks unless another file
\* still shares them.  A freed block is zeroed behind the back of the cache, and
\* its slot is only marked invalid, a mark no lookup tests: the blocks in stale
\* are those the cache still answers for.
Release(fs, file, stale) ==
  LET chain == fs.itab[file].blocks
      freed == IF Sharers(fs, file) # {} THEN {}
               ELSE {chain[k] : k \in 0 .. ChainLength(chain) - 1}
  IN  [fs EXCEPT !.store = [b \in BlockNos |->
                             IF b \in freed \ stale THEN ZeroPage ELSE @[b]],
                 !.bused = @ \ freed,
                 !.iused = @ \ {file},
                 !.itab[file] = fsi_inode_init(FILE)]

\* fs_remove_aux: everything below an inode, then the inode itself.
fs_remove_aux(fs, file, stale) ==
  LET gone[d \in 0 .. Depth] ==
        [f \in Itab |-> [s \in States |->
          LET below[n \in 0 .. s.itab[f].size] ==
                IF n = 0 THEN s
                ELSE LET t == below[n - 1] IN gone[d - 1][Entry(t, f, n - 1).ino][t]
          IN  IF d = 0 THEN s
              ELSE Release(IF s.itab[f].type = DIR THEN below[s.itab[f].size] ELSE s, f, stale)]]
  IN  gone[Depth][file][fs]

\* fs_remove: the entry goes to the end of the directory and is cut off there.
\* Nothing is asked of the type of dir, but data is no name.
fs_remove(fs, dir, name, stale) ==
  LET found == fsi_dir_search(fs, dir, name)
      file  == CHOOSE f \in found : TRUE
      gone  == fs_remove_aux(swap_entry(fs, dir, file), file, stale)
  IN  IF dir \notin fs.iused \/ found = {} THEN [fs |-> fs, ret |-> Fail]
      ELSE [fs |-> [gone EXCEPT !.itab[dir].size = @ - 1], ret |-> OK]

-----------------------------------------------------------------------------

\* Fault: the test for a copy into the copied directory is left out.
descendsFrom_Never(fs, des, parent) == FALSE

\* descendsFrom: is there a directory des properly below parent?
descendsFrom(fs, des, parent) ==
  LET found[d \in 0 .. Depth] ==
        [p \in Itab |->
          d # 0 /\ \E i \in Positions(fs, p) :
            LET e == Entry(fs, p, i).ino
            IN  fs.itab[e].type = DIR /\ (e = des \/ found[d - 1][e])]
  IN  found[Depth][parent]

\* countcopies: the files and directories of a tree, its root included.
countcopies(fs, file) ==
  LET count[d \in 0 .. Depth] ==
        [f \in Itab |->
          LET upTo[n \in 0 .. fs.itab[f].size] ==
                IF n = 0 THEN 1 ELSE upTo[n - 1] + count[d - 1][Entry(fs, f, n - 1).ino]
          IN  IF d = 0 \/ fs.itab[f].type = FILE THEN 1 ELSE upTo[fs.itab[f].size]]
  IN  count[Depth][file]

\* get_name: the name a file has in a directory; none if it is not there.
get_name(fs, mother, file) ==
  LET at == {i \in Positions(fs, mother) : Entry(fs, mother, i).ino = file}
  IN  IF fs.itab[mother].type # DIR \/ at = {} THEN {}
      ELSE {Entry(fs, mother, LeastOf(at)).name}

\* A copy under way: the state, what has been answered, and what is left of the
\* count.  Every file costs one of it, and an entry of a subdirectory one more;
\* once it is below 0 nothing is copied, and nothing is reported.
Copies == [fs : States, ret : {OK, Fail}, count : Int]

\* fs_copy_aux: copy file (an entry of mother) into the directory dest.
fs_copy_aux(copy, file, dest, mother) ==
  LET copied[d \in 0 .. Depth] ==
        [args \in Itab \X Itab \X Itab |-> [s \in Copies |->
          LET f    == args[1]
              name == get_name(s.fs, args[3], f)
              type == s.fs.itab[f].type
              made == NewObject(s.fs, args[2], CHOOSE n \in name : TRUE, type)
              new  == [s EXCEPT !.fs = made.fs]
              upTo[n \in 0 .. made.fs.itab[f].size] ==
                IF n = 0 THEN new
                ELSE LET t == upTo[n - 1]
                     IN  IF t.ret = Fail THEN t
                         ELSE copied[d - 1][<<Entry(t.fs, f, n - 1).ino, made.ino, f>>]
                                           [[t EXCEPT !.count = @ - 1]]
          IN  IF d = 0 \/ s.count < 0 THEN s
              ELSE IF name = {} \/ made.ret = Fail THEN [s EXCEPT !.ret = Fail]
              ELSE IF type = FILE
              THEN [new EXCEPT !.fs = copy_inode(made.fs, made.ino, f), !.count = @ - 1]
              ELSE upTo[made.fs.itab[f].size]]]
  IN  copied[Depth][<<file, dest, mother>>][copy]

\* fs_copy_first: the object copied itself, then what it contains.
fs_copy_first(s, file, dest, mother) ==
  LET upTo[n \in 0 .. s.fs.itab[file].size] ==
        IF n = 0 THEN s
        ELSE LET t == upTo[n - 1]
             IN  IF t.ret = Fail THEN t
                 ELSE fs_copy_aux(t, Entry(t.fs, file, n - 1).ino, dest, mother)
  IN  IF s.fs.itab[file].type = FILE
      THEN [s EXCEPT !.fs = copy_inode(s.fs, dest, file)]
      ELSE upTo[s.fs.itab[file].size]

\* fs_copy: the object called name in dir to destName in dest.  For a name that
\* exists already the files below are looked up in dest, not in the source.
fs_copy(fs, dir, name, dest, destName) ==
  LET found   == fsi_dir_search(fs, dir, name)
      src     == CHOOSE f \in found : TRUE
      type    == fs.itab[src].type
      there   == fsi_dir_search(fs, dest, destName)
      dst     == CHOOSE f \in there : TRUE
      made    == NewObject(fs, dest, destName, type)
      refused == [fs |-> fs, ret |-> Fail]
      start   == [fs |-> fs, ret |-> OK, count |-> countcopies(fs, src) - 1]
      Answer(s) == [fs |-> s.fs, ret |-> s.ret]
  IN  IF ~ IsDir(fs, dir) \/ ~ IsDir(fs, dest) \/ found = {} THEN refused
      ELSE IF dir = dest /\ name = destName THEN refused
      ELSE IF type = DIR /\ descendsFrom(fs, dest, dir) THEN refused
      ELSE IF there # {}
      THEN IF fs.itab[dst].type # type THEN refused
           ELSE Answer(fs_copy_first(start, src, dst, dest))
      ELSE IF made.ret = Fail THEN refused
      ELSE Answer(fs_copy_first([start EXCEPT !.fs = made.fs], src, made.ino, src))
=============================================================================
