---------------------------- MODULE KnownDefects ----------------------------
(***************************************************************************)
(* What the code does where it disagrees with its own comments, as facts    *)
(* about the operators of the models, at fixed small instances.  They are   *)
(* assumptions, so that TLC evaluates each of them whenever it runs a       *)
(* module that extends this one (MCBlockCache does).  The models that       *)
(* contain the defects are bounded to stay clear of them; the bound is      *)
(* named at each fact.                                                      *)
(***************************************************************************)
LOCAL INSTANCE Integers
LOCAL INSTANCE Sequences
LOCAL INSTANCE SequencesExt

-----------------------------------------------------------------------------
(* redblacktree.c, beyond the bound NilIsBlack of RunTree.                  *)

RT == INSTANCE RunTree WITH
        Thread <- 1..5, Key <- 0..2, Nodes <- 11..15, First <- 1, Nil <- 0,
        NoThread <- 0, Null <- -1, tree <- 0, vruntime <- 0, active <- 0

\* A history is a sequence of insertions <<v>> of a new thread with key v and
\* of removals <<>>; out collects what the removals returned.
Taking == <<>>
TreeStep(s, op) ==
  IF op = Taking
  THEN [s EXCEPT !.t = RT!treeRemove(@), !.out = Append(@, RT!Taken(s.t))]
  ELSE LET vr == [s.vr EXCEPT ![s.n] = op[1]]
       IN [s EXCEPT !.t = RT!rbTreeInsert(@, vr, s.n), !.vr = vr, !.n = @ + 1]
TreeAfter(history) ==
  FoldLeft(TreeStep, [t |-> RT!rbCreate, vr |-> [th \in 1..5 |-> 0], n |-> 1, out |-> <<>>], history)

\* Removing the only thread paints Nil red.
EmptyingPaintsNil == ~RT!NilIsBlack(TreeAfter(<< <<0>>, Taking >>).t)
ASSUME EmptyingPaintsNil

\* After that a removal takes a thread of key 2 while one of key 1 waits.
NotTheLeftmost ==
  LET s == TreeAfter(<< <<0>>, Taking, <<0>>, <<2>>, <<1>>, Taking, Taking >>)
  IN /\ s.vr[Last(s.out)] = 2
     /\ \E th \in ToSet(RT!Threads(s.t)) : s.vr[th] = 1
ASSUME NotTheLeftmost

\* And a removal finds no thread although one is runnable.
NoThreadIsTaken ==
  LET s == TreeAfter(<< <<0>>, Taking, <<0>>, <<1>>, <<1>>, Taking, Taking >>)
  IN ~RT!emptyTree(s.t) /\ RT!Taken(s.t) = 0
ASSUME NoThreadIsTaken

\* A thread with the virtual run time of another one is inserted to its left
\* and looked for on its right: SearchFinds asks for unique times.
EqualKeysHide ==
  LET s == TreeAfter(<< <<1>>, <<1>> >>)
  IN \E th \in ToSet(RT!Threads(s.t)) : RT!rbSearch(s.t, s.vr, RT!Root(s.t), th) = 0
ASSUME EqualKeysHide

-----------------------------------------------------------------------------
(* sthread_user.c of the FIFO scheduler, beyond OnlyZombie of UserThreads.  *)

UT == INSTANCE UserThreads WITH
        Thread <- {1, 2, 3}, Main <- 1, NoThread <- 0, Ticks <- {1}, Watched <- {},
        exe <- 0, sleep <- 0, join <- 0, zombie <- 0, dead <- 0, active <- 0, wake <- 0,
        target <- 0, l <- 0, thr <- 0, mutexQ <- 0, monQ <- 0, pc <- 0, op <- 0,
        inside <- 0, ran <- 0

\* Joining 3 while 2 is a zombie: 2 is on no list any more, and 3, which runs,
\* is listed as a zombie, so that the next join of 3 returns at once.
JoinSwapsTheZombie == UT!Unzombied(<<2>>, 3) = <<3>>
ASSUME JoinSwapsTheZombie

-----------------------------------------------------------------------------
(* sthread_user.c of the fair scheduler, beyond the premise of FairThreads'  *)
(* NoStarvation.                                                            *)

FT == INSTANCE FairThreads WITH
        Thread <- {1, 2, 3}, Main <- 1, NoThread <- 0, Priorities <- {0}, Nices <- {},
        Ticks <- {1}, MinDelay <- 1, Limit <- 9, Watched <- {}, Users <- {}, Low <- 9,
        queue <- 0, active <- 0, vruntime <- 0, priority <- 0, nice <- 0, sleep <- 0, join <- 0,
        zombie <- 0, dead <- 0, wake <- 0, target <- 0, thr <- 0, mutexQ <- 0, monQ <- 0,
        gap <- 0, delay <- 0, steady <- 0

\* Thread 2 was created with a priority that is too low, is not nice, and has the
\* least virtual run time.  A tick costs it nothing, and it still deserves the
\* processor: the next tick finds the same, and 3 and 1 never run.
FreeThreadStays ==
  LET before == <<1, 0, 1>>
      after  == [before EXCEPT ![2] = @ + FT!Clamped(0) + FT!NiceOf(0)]
  IN after = before /\ FT!Deserves(2, after, <<3, 1>>)
ASSUME FreeThreadStays

-----------------------------------------------------------------------------
(* queue.c.  UserThreads takes an operation on a queue for one step; these    *)
(* are the facts that make it one, and what an interrupt inside it does.     *)

LQ == INSTANCE LinkedQueue WITH Element <- 1..8, Queue <- {"q", "r"}, NULL <- 0

\* As long as operations do not overlap, the linked lists are queues.
ListsAreQueues == LQ!ThreadListsAreQueues(6) /\ LQ!OpenFilesAreAList(7, 3)
ASSUME ListsAreQueues

OneWaits == LQ!queue_insert(LQ!Blank, "q", 1)

\* mutex_unlock inserts thread 2, which it has just linked, when the dispatcher
\* puts the running thread 3 and switches to 1; then the insertion ends.  Thread
\* 2 is on no list, and neither is whatever is inserted next.
InterruptedInsertLosesThreads ==
  LET e == LQ!Source(OneWaits)
      linked == LQ!Linked(LQ!Filled(LQ!Without(OneWaits), e, 2), "q", e)
      other  == LQ!queue_remove(LQ!queue_insert(linked, "q", 3), "q")
      after  == LQ!queue_insert(LQ!MadeLast(other, "q", e), "q", 4)
  IN LQ!Items(after, "q") = <<3>>
ASSUME InterruptedInsertLosesThreads

\* The same between the test of empty_element_ptr and its reset (queue.c:35-39):
\* both insertions use the element kept, and thread 3 is gone.
InterruptedInsertSharesAnElement ==
  LET kept == LQ!queue_remove(LQ!queue_insert(OneWaits, "r", 9), "r")
      e == LQ!Source(kept)
      other == LQ!queue_insert(kept, "q", 3)
      after == LQ!Linked(LQ!Filled([other EXCEPT !.empty = 0], e, 2), "r", e)
  IN e = kept.empty /\ LQ!Items(after, "q") = <<1, 2>> /\ LQ!Items(after, "r") = <<2>>
ASSUME InterruptedInsertSharesAnElement

-----------------------------------------------------------------------------
(* fs.c.  Disk(i, b, p) has inodes 0..i-1, blocks 0..b-1, and p cells a page. *)

Disk(i, b, p) == INSTANCE FsTree WITH
        NumInodes <- i, NumBlocks <- b, InodeBlocks <- 2, PageSize <- p,
        Names <- {"a", "b", "c"}, Data <- {"x", "y"}, Empty <- ""
RootDir == 1

\* Calls on a disk of 2 cells a page, one after the other.
DiskStep(i, b, fs, c) ==
  CASE c[1] = "create" -> Disk(i, b, 2)!fs_create(fs, RootDir, c[2]).fs
    [] c[1] = "remove" -> Disk(i, b, 2)!fs_remove(fs, RootDir, c[2], {}).fs
    [] c[1] = "copy"   -> Disk(i, b, 2)!fs_copy(fs, RootDir, c[2], RootDir, c[3]).fs
    [] c[1] = "write"  -> Disk(i, b, 2)!fs_write(fs, c[2], 0, c[3]).fs
DiskAfter(i, b, calls) ==
  FoldLeft(LAMBDA fs, c : DiskStep(i, b, fs, c), Disk(i, b, 2)!fs_format, calls)
DirOf(fs, n) == {Disk(5, 9, 2)!Entry(fs, RootDir, k).name : k \in 0 .. n - 1}

\* b is a copy of a, the disk is full; a write to b changes a.  (Reserve)
WriteReachesTheCopy ==
  LET fs == DiskAfter(5, 4, << <<"create", "a">>, <<"write", 2, <<"x">> >>, <<"copy", "a", "b">>,
                               <<"create", "c">>, <<"write", 4, <<"x">> >>, <<"write", 3, <<"y">> >> >>)
  IN Disk(5, 4, 2)!Content(fs, 2) = <<"y">>
ASSUME WriteReachesTheCopy

\* Three files are removed, two created; removing the first of them leaves its
\* entry, under an inode that is free, and cuts the other off: the second page
\* still has a cell with that inode number.  (NumInodes, PageSize)
WrongEntryGoes ==
  LET fs == DiskAfter(5, 9, << <<"create", "a">>, <<"create", "b">>, <<"create", "c">>,
                               <<"remove", "a">>, <<"remove", "b">>, <<"remove", "c">>,
                               <<"create", "a">>, <<"create", "b">>, <<"remove", "a">> >>)
  IN DirOf(fs, fs.itab[RootDir].size) = {"a"} /\ fs.iused = {0, RootDir, 3}
ASSUME WrongEntryGoes

\* A short file is copied over a longer one and the result copied; the copy is
\* written, and removed: a block the other file still names is free.  (Kinds)
TailIsFreed ==
  LET fs == DiskAfter(5, 9, << <<"create", "a">>, <<"create", "b">>,
                               <<"write", 2, <<"x">> >>, <<"write", 3, <<"x", "x", "x">> >>,
                               <<"copy", "a", "b">>, <<"copy", "b", "c">>,
                               <<"write", 3, <<"y">> >>, <<"remove", "b">> >>)
  IN fs.itab[4].blocks[1] \notin fs.bused \cup {0}
ASSUME TailIsFreed

\* A directory with a directory of three files is copied, and the copy of the
\* inner one has two.  (Names)
CopyLosesAFile ==
  LET nested == Disk(12, 7, 6)!fs_mkdir(Disk(12, 7, 6)!fs_mkdir(
                  Disk(12, 7, 6)!fs_format, RootDir, "a").fs, 2, "a").fs
      filled == FoldLeft(LAMBDA fs, n : Disk(12, 7, 6)!fs_create(fs, 3, n).fs, nested, <<"a", "b", "c">>)
      copied == Disk(12, 7, 6)!fs_copy(filled, RootDir, "a", RootDir, "b")
      inner  == Disk(12, 7, 6)!Entry(copied.fs, 7, 0).ino
  IN copied.ret = 0 /\ filled.itab[3].size = 3 /\ copied.fs.itab[inner].size = 2
ASSUME CopyLosesAFile

\* Files a in directory 2 and b in directory 3, each one's only entry: neither
\* can be appended to the other.  (The exemption of append in ClientLibrary's
\* Outcome)
Hd == INSTANCE Handlers WITH
        NumInodes <- 8, NumBlocks <- 9, InodeBlocks <- 2, PageSize <- 4,
        Names <- {"a", "b"}, Data <- {"x"}, Empty <- "", MaxBlks <- 9, MaxData <- 1, MaxEntries <- 2
AppendLooksElsewhere ==
  LET dirs  == Hd!fs_mkdir(Hd!fs_mkdir(Hd!fs_format, RootDir, "a").fs, RootDir, "b").fs
      files == Hd!fs_create(Hd!fs_create(dirs, 2, "a").fs, 3, "b").fs
  IN /\ Hd!snfs_append(files, 2, "a", 3, "b").status = Hd!RES_ERROR
     /\ Hd!snfs_append(files, 3, "b", 2, "a").status = Hd!RES_ERROR
ASSUME AppendLooksElsewhere

\* A file in blocks 2 and 5, another one of size 3 from block 3 on: the exchange
\* of 5 and 3 takes the other one's size for the number of its block.  (sane)
Dg == INSTANCE FsDefrag WITH
        NumInodes <- 5, NumBlocks <- 9, InodeBlocks <- 2, PageSize <- 2,
        Names <- {"a", "b"}, Data <- {"x", "y"}, Empty <- "", MaxBlks <- 9
DefragChangesASize ==
  LET fs == DiskAfter(5, 9, << <<"create", "a">>, <<"create", "b">>, <<"write", 2, <<"x">> >> >>)
      full == Dg!fs_write(Dg!fs_write(fs, 3, 0, <<"y", "y", "y">>).fs, 2, 0, <<"x", "x", "x">>).fs
      after == Dg!fs_defrag(full)
  IN full.itab[3].size = 3 /\ after.fs.itab[3].size = 5
ASSUME DefragChangesASize

\* a goes, and c becomes a copy of b under its inode number: the block they
\* share moves for c, and b keeps the number of a block that is zeroed and
\* free.  (Unshared)
DefragLosesACopy ==
  LET fs == DiskAfter(5, 9, << <<"create", "a">>, <<"create", "b">>, <<"write", 2, <<"x">> >>,
                               <<"write", 3, <<"y">> >>, <<"remove", "a">>, <<"copy", "b", "c">> >>)
      after == Dg!fs_defrag(fs)
  IN /\ after.ret = 0
     /\ Dg!Content(fs, 3) = <<"y">> /\ Dg!Content(after.fs, 3) # <<"y">>
     /\ after.fs.itab[3].blocks[0] \notin after.fs.bused
ASSUME DefragLosesACopy

\* Three files, the first two go: the block of the third is not in the report
\* of disk usage, which stops two blocks early.
Pa == INSTANCE FsPaths WITH
        NumInodes <- 6, NumBlocks <- 9, InodeBlocks <- 2, PageSize <- 2,
        Names <- {"a", "b", "c"}, Data <- {"x", "y"}, Empty <- "", MaxBlks <- 9
UsageStopsEarly ==
  LET fs == DiskAfter(6, 9, << <<"create", "a">>, <<"write", 2, <<"x">> >>,
                               <<"create", "b">>, <<"write", 3, <<"x">> >>,
                               <<"create", "c">>, <<"write", 4, <<"y">> >>,
                               <<"remove", "a">>, <<"remove", "b">> >>)
      usage == Pa!fs_diskusage(fs)
  IN usage.ret = 0 /\ fs.itab[4].blocks[0] \in fs.bused \ DOMAIN usage.files
ASSUME UsageStopsEarly
=============================================================================
