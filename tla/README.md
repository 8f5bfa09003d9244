# Simple_FileSystem in TLA+

A verification project for SNFS, a small network file system: a server with a
file system in a simulated disk, a client library that calls it over a Unix
datagram socket, and a threads library underneath.

The repository holds two copies of the program. `snfs_without sthread(fast)` and
`snfs_with_sthreads(slow)` have byte for byte the same `snfs_server/`, `snfs_lib/` and
`include/`; they differ in `sthread_lib/`, where the "slow" copy has a fair
scheduler with a red-black tree. What is the same in both is modelled once, and the
map in `PROJECT.json` names the lines of one copy or of the other; paths
below are relative to `snfs+sthreads/`. `include/config.h:92` selects the pthread
build of the threads library for the server, so its threads are preemptive; the user-level
libraries are the alternative it can be built with.

## 1. The system

| Part | Code | State | Operations |
|---|---|---|---|
| Request pipeline | `snfs_server/server.c`, `sthread_lib/sthread_pthread.c` | ring of 10 slots, two positions, `available_reqs`, one monitor | one producer (`thread_producer`), five consumers (`thread_consumer`) |
| Handlers | `snfs_server/snfs.c` | none | one `snfs_*` per request type around one `fs_*` call |
| File system | `snfs_server/fs.c` | inode table (64), two bitmaps, directory pages | format, lookup, read, write, create, mkdir, readdir, remove, copy, append, defrag, diskusage |
| Block cache | `snfs_server/fs.c` (`CACHE`) | 8 slots with V, R, M, block number, bytes, age counter | `readFrom_cache`, `writeIn_cache`, `cache_excg`, `cache_clean`, `cache_flush`, the ageing thread |
| Disk | `snfs_server/block.c`, `io_delay.c` | 512-byte blocks in memory, behind a delay | `block_read`, `block_write` |
| Client stub | `snfs_lib/snfs_api.c` | a datagram socket | `remote_call` around each request |
| Client files | `snfs_lib/myfs.c` | list of open files with cached size and offset | open, read, write, close, list, copy, remove ... |
| User threads (fast) | `sthread_lib/sthread_user.c`, `queue.c` | run, sleep, zombie queues, mutexes, monitors | create, exit, join, yield, sleep, lock, monitor |
| User threads (slow) | the other copy's `sthread_user.c`, `redblacktree.c` | run queue as a tree ordered by virtual run time | the same, with nice |
| Front end | `sthread_lib/sthread.c` | none | picks the implementation |
| Context switch | `sthread_ctx.c`, `sthread_time_slice.c`, assembly | stacks, timer | switch, preempt |

How they interact. A client sends one datagram and waits for the next one to
arrive. The producer takes datagrams from the socket into the ring; a consumer
takes one out, calls its handler and answers. The handler calls the file system,
which reads and writes blocks through the cache; every transfer to the disk may
sleep. Nothing but the ring has a lock: five handlers may be inside the file
system and the cache at once, and so may the ageing thread.

What is hard here: one condition variable for two predicates; room tested in
one critical section and used in another; an unlocked write-back cache that
keeps answering for blocks it has invalidated; blocks shared between copies of
a file, with the sharing inferred from the first block; operations that fail
half way for lack of inodes or blocks; recursive removal and copying; directory
entries swapped across two pages. Nothing survives a restart (the disk is memory), so
there is no recovery to model.

What makes each part correct:

- pipeline: no slot overwritten, no wakeup lost, every request served by one
  consumer, in order, and answered;
- cache: transparent, i.e. a read returns the last value written; a block in one
  slot at most; operations end;
- file system: the directories are a tree over the inodes in use; blocks in use
  are not free and not shared, but for copies; a client sees a tree of names in
  which each object changes only by operations on it;
- client stub: an answer belongs to its request; client files: what is read is
  what the server has;
- threads: a thread is in one queue, a lock has one owner, join returns once per
  thread; run queue: the least virtual run time runs next.

`PROJECT.json` lists the hazards line by line with the properties that cover them, and says of each that
a bound keeps out where it is shown instead.

## 2. The modules

    RequestService <--implements-- RequestRing          (proofs: RequestRingProofs)
    BlockStore     <--implements-- BlockCache           (proofs: BlockCacheProofs)
    Namespace      <--implements-- FileSystem = FsCore < FsTree < FsDefrag < FsPaths
                                        |               (proofs: FsLemmas, FileSystemProofs)
                                        |  Handlers = FsPaths + snfs.c
                                   ClientLibrary        (clients over Handlers; proofs: ClientLibraryProofs
                                                         over FsLemmas)
    RunQueue       <--implements-- RunTree
        ^-- used by --  FairThreads                     (proofs: FairThreadsProofs)
    UserThreads                                         (proofs: UserThreadsProofs)
    ThreadQueues   (queues of threads, for both schedulers; proofs: ThreadQueueLemmas)
    LinkedQueue    (lists in memory)
    KnownDefects   (facts about operators of RunTree, FairThreads, UserThreads, LinkedQueue, Fs*, Handlers)

The `MC*` modules only instantiate for TLC: symmetry sets, views and the values of
constants that are sets of sequences. Definitions under a comment `Fault:` are not used by
the models: each is a plausible mistake in the definition that follows it, and is
swapped in to see that a property notices.

### RequestRing, RequestService

`RequestRing` has one action per stretch of `thread_producer` and `thread_consumer`
between two points where another thread can matter: entering the monitor,
testing and waiting, waking up (with the mutex taken again), receiving, storing,
signalling, leaving. `ring`, `putPos`, `getPos`, `available` are `ring[]`, the two
static `pos` and `available_reqs`; `holder` and `waitSet` are the mutex and the
condition; `hand` is each thread's `req_d`. A slot is not cleared by `get_req`, as in
the code. Requests are numbered in their order in the socket. A datagram of
length zero makes the producer start over; `pthread_cond_wait` may return
without a signal. Serving is one step that changes nothing here.

`RequestService` is what the pipeline promises: requests accepted in order, a
FIFO queue of bounded length, a pool of workers each with one request,
and the set of answers. The mapping takes `Queue` (the window of the ring from
`getPos`) for the queue and `hand` of the consumers for the workers.

### BlockCache, BlockStore

`slot[i]` is `cache[i]`; `disk` is `blocks[]` of `block.c`; `op[w]` is where a worker is in
an operation, with the locals that live across a transfer (the slot chosen, the
block number read before the write-back); `age` is the same for the ageing thread.
Each `block_read` and `block_write` is a step of its own because of the delay. `Hits`
ignores V as `cache_read` and `cache_write` do. An operation of kind "free" is `Erase`, the
zeroing `block_write` of `fs_remove_aux`, then `Clean`; kind "swap" is the
flush of `fs_defrag` slot by slot and one `swap`, whose transfers are one step. `stored`,
`unreliable` and `result` are history variables.

`BlockStore` is an array of blocks; a worker asks for something, and only the answer to a
write changes a block. Blocks that were freed while cached, or moved, may hold anything in it:
for these the code does not keep the promise, which the run `cache_freed` shows.

### FsCore, FsTree, FsDefrag, FsPaths, FileSystem, Namespace

`FsCore` writes each operation as a function from a state record (bitmaps, inode
table, contents of blocks) to the state after it and the return value. A block is
a page of `PageSize` cells; a cell is a directory entry or one unit of file data.
`blocks[]` keeps the zero word that follows it, at which loops stop. Failures keep
what the code had changed by then. Copy-on-write (`copy_inode_write`, `inode_search`),
`swap_entry` with its two scans, and the partial allocation of `fs_write` are there as
in the code.

`FsTree` adds the operations that recurse (removal and copying of directories). What calls itself
in the code is a function of the depth that is left: `Depth` is the number of inodes, and no tree
is deeper. `FsDefrag` is
`getOwner`, `swap` and the loop of `fs_defrag`: `Overrun` is where the search for a block runs
past `blocks[]`, and `sane` says that it still ended at the entry it was meant for. `FsPaths` is
the walk from an inode to its path, and `fs_diskusage`.

`FileSystem` has the state as its one variable and one action per changing call; a call is
issued for any inode number and any name, with stale handles therefore included, and a
refused call leaves the state alone.

`Namespace` knows paths, directories and contents only. `FileSystem` maps to it by
walking from the root (`Tree`). Three of its choices say what the code is not held to: a
directory copy may be partial, the failure answer is not related to the change,
and space is unlimited in it (a concrete failure is a stutter). Defragmentation is a stutter
of it: a move of blocks that a client could see would be a step that `Namespace` does not have.

Abstractions: file content is a sequence of one-cell units, and sizes count cells; names
are compared only; the cache is replaced by the store it should be, except that
`fs_remove` takes a set `Lingering` of blocks whose zeroing a stale slot hides; handlers run
one at a time; the metadata blocks 0 to 9 are block 0.

### Handlers, ClientLibrary

`Handlers` is one operator per `snfs_*` handler: its tests, the call of `fs_*`, and the
response, whose body stays 0 where the handler sets nothing.

`ClientLibrary` composes clients with the handlers and the whole file system. A function of
`myfs.c` is a sequence of remote calls. `call[c]` holds where client `c` is (`pc`: which remote
call comes next) and the locals that live across remote calls: handles, sizes, what is left to
read or write. `Request` is what it sends; `Continue` runs the handler and does with the
response what the function does. A remote call is one step: the client is blocked in it, and
`RequestRing` shows that a request is served once. Between two of its remote calls the other
clients go on, so that a handle looked up may lead elsewhere when it is used. `list` and
`Open_files` are the open files with the size and the offsets the client believes in.

### RunTree, RunQueue, FairThreads

`RunTree` is `redblacktree.c` of the slow copy over an explicit memory: links, colours, the
sentinels `First` and `Nil`, and `prioritary`, the cached first node. Its actions are the three
things the scheduler does with it: a thread becomes runnable, the active one yields, the active
one stops. `RunQueue` is a sequence of threads ordered by virtual run time, in which a thread goes
before its equals; `RunTree` maps to it by its inorder walk.

`FairThreads` is `sthread_user.c` of the slow copy on top of `RunQueue` (which `RunTree` implements until
`Nil` is first painted red): create, exit, join,
sleep, nice, yield, the dispatcher with its delay and the treatment of an overflow
(`treatOverflow`), and one monitor over one mutex. `gap` is the set of threads that are queued
for the mutex or the monitor and have not left the processor. `steady` is a history variable.
The registry of blocked threads is in a file `aux.c` that the repository lacks; it is modelled
as `sthread_user.c` uses it.

### UserThreads, LinkedQueue

`UserThreads` is `sthread_user.c` of the fast copy, where the order is FIFO. Here the question is
preemption: the timer may come wherever interrupts are on (`Interruptible`; a thread that comes back
from a switch finishes its call first; a thread may also yield by itself, `YieldCall`), so the parts of lock, unlock, wait and
signal are steps: the spin (`TestAndSet`), the section under the spin lock (`Take`, `Queue`,
`Unlock`, `Signal`), the way off the processor (`LeaveProcessor`). An operation of `queue.c` is
one step.

`LinkedQueue` is the linked list of `sthread_lib/queue.c`, with the one removed element that
all lists share, of the slow copy's doubly linked variant, and of `snfs_lib/queue.c`, as operators on a
memory. It is where "one step" is justified: operations that do not overlap make the lists
queues. It has no state machine.

### KnownDefects

Where the code disagrees with its comments and a model is bounded to stay clear of that, the
disagreement is an `ASSUME` about the very operators of the model, at a fixed small instance;
TLC evaluates all of them in the runs of `MCBlockCache`, which extends this module.

## 3. The runs

All runs but `cache_freed` must pass. Every property of a passing run
has a mutant in `PROJECT.json`: a definition is swapped for its `Fault:` version, and
the property fails.

| Run | Bounds | Shows |
|---|---|---|
| `ring` | 2 consumers, 2 slots, 5 requests, 1 empty datagram, 1 spurious wakeup | types; monitor discipline; no overwrite; no lost wakeup; each request with one consumer; implements `RequestService`; every request is answered |
| `cache_sequential` | 1 worker, 3 blocks, 2 slots, 2 values; read, write, free, move | a block in one slot only; clean slots match the disk; implements `BlockStore` |
| `cache_ends` | 2 workers, 2 blocks, 1 slot, ageing at any time | every operation ends |
| `fs_tree` | create, mkdir, remove; 3 objects, 2 names, 4 blocks, 2 cells a page | the directories are a tree over the inodes in use; implements `Namespace` |
| `fs_tree_copy` | create, mkdir, write, copy; 4 objects, 2 names, 6 blocks | the same with copies of trees that may run out of inodes, and up to four files on one block; `fs_lookup`, the path finder and the disk usage report walk the same tree |
| `fs_files` | create, write, remove, copy; 2 names, 5 blocks, offsets 0 and 1, stale pages | blocks in use are not free, and shared by copies only; implements `Namespace` |
| `fs_pages` | create, write, remove, append, defrag; 2 files of up to 2 pages, 5 blocks | blocks owned; pages suffice for the size; implements `Namespace` on a disk that fills up and is defragmented |
| `run_tree` | 7 threads, keys 0..2, 6 nodes | red-black tree; `prioritary` is the leftmost node; searches find; implements `RunQueue` |
| `fair_threads` | main and 2 workers of priority 0, nice values 0 and 1, overflow at 2, one delay tick | the queue stays in order and no thread is lost; the virtual run times of runnable threads stay within a bound; overflow keeps distances; joins; no starvation while ticks are paid for |
| `user_threads` | main and 3 workers, sleeps of 1 or 2 ticks | a thread is in one place; the monitor excludes; joins; the queue of the mutex, sleepers and joiners go on while ticks keep coming |
| `client` | a user (5 calls) and an administrator (3 calls), 3 paths, 2 objects | a call does to the tree what it says, or fails without effect; cached sizes; calls end |
| `cache_freed` | 1 worker, 3 blocks, 2 slots | violated: a write is lost |

### Why the bounds are enough to be interesting

Ring: 2 slots and 5 requests let the
positions wrap twice; with two consumers one can signal while the other and the producer
want to sleep, the case in which a signal could be stolen; the theorems cover every
other number.

Cache: three blocks over two slots force replacement with every combination of
V, R and M. The thresholds of the ageing thread are 1, 2 and 2 in place of 4, 10 and 20, so
clearing R, writing back and starting over all occur, between any two operations. Cached blocks
have a zero and a nonzero value, which tells stale from fresh.

File system: pages of two or three
cells make a file cross a page within a few operations; two names give sharing in one
directory, and directories in directories give more; the disks fill up and the inodes run out.
In the program no directory reaches 64 entries (62 inodes can be
used), and `FsAssumption` keeps the same relation between inodes and entries per page.

Run tree: six nodes reach every case of the repair after an insertion and after a removal, on both
sides, and three keys give equal ones. Seven threads, because six are in the tree when one runs.
`UpToNames` identifies states that differ in which of the idle threads is which.

Threads: with two workers and main one thread can hold the mutex, one wait for it, and the
timer preempt either; the third worker of `user_threads` waits in the monitor meanwhile, or joins.
`Limit = 2` in `fair_threads` makes the virtual run times overflow every few ticks. There a tick costs
main 1, its priority, and a worker 0 or 1, what it asked for with `sthread_nice` last: the threads that pay
and those that do not meet in every combination. The bound of `FairShare` is reached: with one less it fails.

Client: `MaxData` of one cell makes a buffer of two take two remote calls, `PageSize` of 4 lets a
write and an append fit a page; paths are a directory, a file in the root with the other name, and
a file in the directory; the administrator may remove, create anew, or overwrite by a copy each of
them between any two remote calls of the user.

### What the bounds leave out

| Bound | Run | What it keeps out |
|---|---|---|
| `Reserve` | `fs_files`, `fs_tree_copy` | a copy-on-write that finds no free block: `WriteReachesTheCopy` |
| directories of one page | `fs_tree`, `fs_files`, `fs_pages`, `client` | removal from a directory of two pages: `WrongEntryGoes` |
| `Names`, two of them | `fs_tree_copy` | copies of three files below two directories: `CopyLosesAFile` |
| `Kinds`: copies with files of one page | `fs_files`, `fs_pages` | a short file copied over a long one: `TailIsFreed` |
| `Unshared`, `sane` | `fs_pages`, `client` | defragmentation with shared blocks, and with an exchange that runs past `blocks[]`: `DefragLosesACopy`, `DefragChangesASize` |
| no removals | `fs_tree_copy` | gaps between used blocks: `UsageStopsEarly` |
| `NilIsBlack` | `run_tree`; `fair_threads`, whose run queue is `RunQueue` and never gives the wrong thread | what follows the first time `Nil` is painted red, in particular emptying the tree: `EmptyingPaintsNil`, `NotTheLeftmost`, `NoThreadIsTaken` |
| unique times in `SearchFinds` | `run_tree` | `EqualKeysHide` |
| `OnlyZombie` | `user_threads` | a join while another thread is a zombie: `JoinSwapsTheZombie` |
| `Low`, hence `Far` | `fair_threads` | a thread that falls behind by more than `Low`; states only, the time would go down without end |
| `Twice` | `fair_threads` | a tick that would charge or shift a thread queued in two places |
| paid ticks, in `NoStarvation` | `fair_threads` | a thread that pays nothing and keeps the processor for ever: `FreeThreadStays` |
| ticks again and again, in `Progress` | `user_threads` | a timer whose signals all come with interrupts off or inside the switch |
| fewer than 54 blocks | all of the file system | what `MAX_NUM_BLKS`, 54 in place of 630, keeps `fs_defrag` from looking at |
| main always runnable | `user_threads`, `fair_threads` | `sleep` and `join` with an empty run queue, a null pointer read |
| a slice lasts a step (`ran`) | `user_threads` | ticks so frequent that nothing runs between two of them |
| `Depth`, the number of inodes | all of the file system | a recursion that does not end, for which there would have to be a cycle of directories: `TreeShape` excludes it |
| `Budget`, `MaxOffset`, `MaxOpen` | `client` | longer histories |
| `Small`, `Pairs` | `client` | appends that cross a page (they are in `fs_pages`), appends across directories: `AppendLooksElsewhere` |
| non-root paths, no final "/" | `client` | the strings `myparse` refuses or trims |
| a lookup of "/" fails | `client` | an answer made of an uninitialised inode number (`snfs.c:78`), or the end of the server (`fs.c:286`); remove, copy and append of an object in the root ask for it, and use inode 1 whatever is answered |
| `Astray`, no free block | `client`, in `CallsDoWhatTheySay` | the two conditions under which a call may do something else: the directory looked up is not there any more, and copy-on-write without space |

`Word = 16` is the range of an unsigned in `client`, in place of 2^32: enough for the difference of
two offsets that is negative to be a large number.

### Symmetry, views, deadlock

Symmetry is used for safety only: names and data are
only compared, and so are the blocks and the nonzero values of the cache. `cache_sequential`
identifies states that differ in `stored` alone (`VIEW`): no guard and no other variable
depends on this history, and no property of that run mentions it. The view of `client` drops the
return values, which no guard reads.

Deadlock is checked, and means something: an idle producer polls, a file system call can always be made,
main can always run. It is not checked in three runs whose bounds stop them: `client` (`Budget` used up),
`run_tree` (`NilIsBlack` fails) and `fair_threads` (`Beyond`).

### Fairness

`ring` assumes that a thread that can run does run (weak fairness of the
producer and of each consumer): the kernel schedules the pthreads. Nothing is assumed about
the order in which the mutex is granted, and spurious wakeups are finitely many.
Clients are not assumed to send anything.

`cache_ends` assumes weak fairness of a worker inside
an operation, since handlers run in those threads; starting an operation is not fair.

`user_threads` assumes that the timer ticks, that a thread inside a call goes on when it has the
processor (weak), and that who is in the monitor leaves it if it can again and again (strong:
it is preempted in between). The first two are the timer and the processor; the third is a premise on
the caller that every lock needs. Weak fairness of the tick does not make it happen: a signal that comes during
`splx(HIGH)` or inside `sthread_switch` is dropped, and threads that do nothing but yield to each other may be there each
time. Without the premise of `Progress`, that ticks keep coming, TLC finds a sleeper that is never woken.

`fair_threads` assumes the tick, and that a thread that has queued itself goes on to the switch; both are weak.
It does not assume that any thread yields. `NoStarvation` has a premise: again and again a tick comes for which the
running thread has something to pay. The code does not see to it. `sthread_user_create` stores 0 for a priority
below 1, a new thread has nice value 0, and such a thread pays nothing; once it has the least virtual run time, each tick
finds it still the least. Without the premise TLC finds `NoStarvation` violated in the same configuration.

`client` assumes that a client inside a function makes its next remote call and gets the answer, which
`ring` shows (`EveryRequestAnswered`). The condition is weak fairness of `Continue` with its
`ENABLED` worked out: a client in a call can always go on, and that changes its state unless
it is `Starved`. TLC would otherwise evaluate `ENABLED` over whole file systems.

### The run that shows a disagreement, and the facts

`cache_freed` checks the comment of `fs.h:211`, "Writes the block with block_number in the cache": a
write hits a slot invalidated by a free, and is lost when the slot is replaced. `cache_sequential` has
one worker and ageing between operations only, and exempts freed and
moved blocks from the promise of `BlockStore`. These are premises of the cache, which
nothing in the code enforces: the configuration of `cache_freed` with `Kinds = {"read", "write"}`
also violates `WriteIsKept` with two workers, or with one and `AgerPreempts = TRUE`.

The other disagreements are facts of `KnownDefects`, evaluated and found true by TLC:

| Fact | Text | What the code does |
|---|---|---|
| `WriteReachesTheCopy` | `fs.h:108` | copy-on-write fails for lack of a block, and the write goes to the shared block |
| `WrongEntryGoes` | `fs.h:160` | a stale cell on a second page diverts the removal to another entry |
| `CopyLosesAFile` | `fs.h:166` | a copy of a directory leaves out entries and answers success |
| `TailIsFreed` | `fs.c:66` | blocks left behind by a shorter copy are shared, then freed while in use |
| `DefragChangesASize` | `fs.c:1341` | the search for a block to exchange runs over the size of another inode |
| `DefragLosesACopy` | `fs.c:1323` | a block that two copies share is moved for one of them only |
| `UsageStopsEarly` | `fs.c:1270` | the report leaves out blocks beyond a gap, with answer 0 |
| `AppendLooksElsewhere` | `snfs_api.h:139` | names and directories are crossed: an append across directories fails |
| `EmptyingPaintsNil`, `NotTheLeftmost`, `NoThreadIsTaken` | `redblacktree.c:305` | after the tree was empty once, a removal takes the wrong thread, or none |
| `EqualKeysHide` | slow `sthread_user.c:351` | a thread with another's virtual run time is not found, and joining it fails |
| `FreeThreadStays` | slow `sthread_user.c:115` ("value used: 1") | a priority below 1 is stored as 0: ticks cost the thread nothing, and it may keep the processor for ever |
| `JoinSwapsTheZombie` | `sthread_user.c:206` | a join turns other zombies into the thread it was asked for |
| `InterruptedInsertLosesThreads`, `InterruptedInsertSharesAnElement` | `queue.h` | an insertion interrupted by the timer loses threads |

`ListsAreQueues` in that module is not a defect: it is the fact on `LinkedQueue` that makes queue
operations steps. Two disagreements have no fact: `my_read` that asks for ever at an end of file it
does not know of is the exemption `WantsMore` of `CallsEnd`, and the value of a join is stored where no
reader looks (`sthread_user.c:293`), which the models leave out.

Smaller things met while modelling: `fs_lookup` answers 1, 0 and -1 where `fs.h:78`
promises 0 and -1; a failing `fs_write` keeps the blocks it took, although `fs.h:114` calls it atomic; an
emptied directory takes a new page at the next create and loses the old one (`fs.c:545`), until in
`fs_tree` no block is left; `descendsFrom` (`fs.c:1043`) reads past its page for a directory of
more than 32 entries; `MAX_NUM_BLKS` (`fs.c:1353`) is 54 for want of parentheses.

## 4. The proofs

`RequestRingProofs` proves, for every ring size, every set of consumers and every value of
the bounds:

- `TypeCorrect`, `DisciplineKept`, `SlotsAreSafe`, `OneConditionSuffices`, `ServedExactlyOnce`:
  the invariants `TypeOK`, `MonitorDiscipline`, `NoOverwrite`, `NoLostWakeup`, `ExactlyOnce`;
- `Refinement`: `Spec => Implements`, that the ring implements `RequestService`.

Assumptions: the producer is not a consumer, `NoThread` is no thread, the ring has a slot,
the bounds are natural numbers.

The argument. `TypeOK` is inductive. `Mutex`, on top of it, says the holder alone is
between enter and exit. With one thread in the monitor, the room the producer saw cannot
shrink while it is outside, because only it stores: that is `NoOverwrite`, whose part on
`putPos` needs two lemmas on positions modulo the ring size (`WindowGrows`,
`WindowShrinks`). `NoLostWakeup` is inductive with these: its third part, that only the producer
sleeps while a consumer is about to signal, is what makes one signal enough. It holds because the consumer has just found
a request, so no broadcast is outstanding and no other consumer sleeps. `InOrder` says which
requests the window of the ring holds (the received ones not yet taken, in order) and
`HandsMatch` what each thread has in hand; with them each step of the ring is a
step of the queue or a stutter: storing is accepting, taking is taking the head.

`BlockCacheProofs` proves, for every set of blocks and values, every number of slots and every
threshold of the ageing thread:

- `CacheTypes`: `TypeOK`, for any number of workers;
- `OneSlotPerBlock`: `UniqueSlot`, for one worker, with the ageing thread at any time;
- `CleanSlots` and `Transparency`: `CleanMatchesDisk` and `Spec => Implements`, for one worker, with
  the ageing thread between operations only.

Assumptions: `CacheAssumption` of `BlockCache`, and where a theorem says so the premises
`OneWorker` and `AgerWaits`. The code enforces neither: with two workers or an ageing thread
inside an operation the promise is broken, as section 3 says under `cache_freed`.

The argument. `Typed` adds to `TypeOK` that an operation under way is about a block of the disk, since
a transfer is refused for any other number. A slot takes a number only when it is claimed, and `Apart`
says that from the miss to the claim no slot has that number: so there is never a second one. `Sync`
makes `CleanMatchesDisk` inductive. What `cache_excg` knew when it chose its victim is still so when it
writes it back, fills and claims it (`Excg`: its old number, whether it was valid, that it is clean and then
equal to the disk); a valid slot has a block; the ageing thread is inside a write-back only when nobody
works, under the number the slot still has (`TakesTurns`); and the flush leaves no valid slot behind
(`Flushed`). For the refinement, `Forsaken` says that the number on an invalid slot is that of an
unreliable block, so that filling the slot changes the content of no other, and that the slot just filled is
there for the second scan. `Content` chooses among slots; `Holds` says the same without a choice,
and each step is shown to keep it for every block but the one it writes. Misses, evictions, fills
and ageing are then steps of `BlockStore` that change nothing but unreliable blocks.

`ThreadQueueLemmas` says what the operators of `ThreadQueues` return for every queue: how often a
thread stands in a queue after an insertion, a removal, a split or a concatenation, and that an
insertion by virtual run time keeps the order. `Kept` and `InsertedAll` are recursive functions; that
their recursion has one solution, and what it computes, is proved by induction over a set of
queues (`QueueInduction`, from `LeastNumber`), because a theorem with an operator as its parameter
cannot be used.

`UserThreadsProofs` proves `TypesHold`, `OnePlaceHolds`, `ExclusionHolds` and `JoinAfterExitHolds`
(the invariants `TypeOK`, `OnePlace`, `Exclusion`, `JoinAfterExit` of `user_threads`) for every set of
threads and every sleeping time. The argument counts: `Placed` says in how many queues a thread stands,
from where it is in its call (`Stands`). `Guarded` ties the spin lock, the owner and the two
queues to the places of the threads, with the part that makes it inductive: the queue of the mutex is empty unless
the mutex has an owner. `Awaited` says that the target of a waiting join has not exited, and
that one who was taken out of the join queue has a target that has.

`FairThreadsProofs` proves, for every set of threads, every priority, nice value, limit and `MIN_DELAY`:

- `QueueInOrderHolds`, `FairShareHolds`: the invariants `QueueInOrder` and `FairShare`;
- `DistancesHold`, `JoinAfterExitHolds`: the action properties `DistancesKept` and `JoinAfterExit`.

The argument. `Placed` counts the places of a thread (`Standing`): one in the gap stands in two. `InOrder`
is the order of the run queue; an overflow keeps it because it takes the same from each, which needs
`Placed`, or one would be charged twice. `FairShare` is not inductive: between two looks at the
queue the active thread runs ahead by what `delay` ticks cost (`Lead`), a tick costs no more than
`HighestCost` (`Pays`), and a thread that gets the processor is the least of the queue
(`InOrder`); together they are `Fair`. `Awaited` is the state part of `JoinAfterExit`.
The theorems are about the model with its bounds `Low` and `Twice`.

`FileSystemProofs`, with the lemmas of `FsLemmas`, proves `TypesHold`, `TreeShapeHolds`,
`BlocksOwnedHolds` and `WalksAgreeHolds`: the invariants `TypeOK`, `TreeShape`, `BlocksOwned` and `WalksAgree` of
`FileSystem`, for every number of inodes, blocks and cells, any names and data, any offsets and contents that are
written and any set of stale blocks, under `FsAssumption`, `FileSystemAssumption` and `Limits`. Under the same
premises it proves `FileSystemImplementsTree`, that is `Spec => Implements`: the file system
implements `Namespace`.

`Limits` asks two things, and all four runs of `FileSystem` meet them. If anything is ever removed, a directory has one
page (`FewNames`); without that, TLC finds `TreeShape` violated with three names and
two cells a page (`WrongEntryGoes`). If anything is ever copied, files have one block, nothing is
appended, and a write finds a free block (`Reserve`); without that, `BlocksOwned` fails (`TailIsFreed`,
`WriteReachesTheCopy`). Two assumptions are weaker than they look: `NumInodes - 2 < 2 * PageSize` is the
relation of 64 inodes and 32 entries, and `Names \cap Data = {}` says that what is written to a file is
not taken for an entry, which matters only to calls with a file in the place of a directory. A third,
`Directory \notin Seq(Data)`, only says that the tree tells a directory from a file.

The argument. `Sound` is the invariant, in parts that need each other: `Formed` (types, what is
always taken, unused inodes are blank), `Backed` (the blocks of an inode come without a gap and
suffice for its size), `Owned` (used blocks are marked, and shared as first blocks of one-block
files only), `Linked` (an entry leads to an inode in use, no two to the same), `Parented` (each but the root has
an entry), `Rooted` (a set that has the root and the children of its members has all inodes in use: the form
of "no cycle" that is inductive), `Filled` (what files hold is data). To these come
`OnePageDirs` and `OneBlockFiles`, where `Limits` asks for them, and `Alone` (nothing is shared) where nothing is copied.

For each operation a relation says what it changes, and each relation is shown to keep `Sound`: `Made` (a new
object), `FileChange` and `Took` (a write, which may end after any number of the blocks it wanted), `Swapped`,
`Removed` and `Cut` (a removal), `Follows` (a copy, which may end anywhere). A write by
`WriteIs` is copy-on-write, allocation, the bytes, and the answer, one after the other. What recurses is taken
apart by its own equation at each depth, and `BoundedInduction` goes up from depth 0; the loops are sequences
of steps (`StepsExist`, `StepsKeep`). That a removal ends with all that was below the entry released, and
nothing else, is shown with the least closed set below an inode (`BelowIs`) and the number of its members
(`BelowSize`), because of which `Depth` is enough. Defragmentation is a renaming of blocks (`Renamed`): each swap
that is `sane` exchanges two numbers together with the contents behind them (`Exchanged`). What had to be found is why `j` never
runs past the last block: the inodes done with keep to the blocks below `j` (`Packed`), the blocks of the next one are
all at or after it, and these are different blocks, so that there is room for as many (`OwnerFits`).

`WalksAgree` follows from `Sound` alone. `Leads` says without recursion that a path leads from one inode to another:
there is a sequence of inodes with an entry at each step. To every inode in use leads one path from the root
(`PathExists`, from `Rooted`; `OnePath`, by induction on the length), and it has fewer names than there
are inodes (`PathIsShort`: the inodes on it are different), so that `Depth` cuts no walk short. Then each
walk of the code is shown to compute `Leads`: the enumeration of objects (`ObjectsAre`), the search for the
path of an inode, which takes the first entry that has it below (`PathNameIs`), the loop of `fs_lookup`
(`LookupFinds`), and the report, where an inode not in use holds no block (`HoldersAre`).

For the refinement, `Presents` says that a tree has for its paths those that lead from the root to an inode, each
with what is seen of the inode: the whole refinement mapping, without its recursion. What an operation leaves alone
is one relation, `Retains` (`FsLemmas`): the entries and the content of the inodes outside a set. With it the tree
after an operation has the paths of the tree before, and new paths to new inodes (`Spread`), and each operation is
one change (`NewObjectRefines`, `WriteRefines`, `AppendRefines`, `RemoveRefines`, `DefragRefines`). That a write
to one of two copies is not seen in the other is `WriteKeeps`: the block that is written belongs to nobody else by then.
A copy is the hard one. It fails anywhere, its recursion passes a state and a count along, and while it runs
the destination grows inside the tree that is copied from. `Twin` says of a new inode that it is one of the source,
type and content, and that what it contains are twins of what that contains under the same names; `CopiesWell`
is kept from depth to depth (`LevelsCopyWell`, by `BoundedInduction`) whatever the copy could not finish. It needs that
the destination is not below the source (`Apart`), which is what the refusal in `fs_copy` is for: `FoundBelow` shows
that the table of `descendsFrom` has everything below the source, at every depth. `TreeCopied` turns the
twins into the partial copy that `Namespace` allows.

`ClientLibraryProofs`, with the same `FsLemmas`, is about any number of clients of one server, whatever functions they
call on whatever paths, buffers and counts, under `ClientAssumption` (a count fits an `unsigned`) and its own `Limits`:

- `ServerStaysSound`: `Sound` and `Alone`, for the file system of the server;
- `ClientTypesHold` and `SizesStay`: the invariant `TypeOK` and the action property `SizesHold`.

`Limits` here says that no client copies or defragments, and that a directory has one page if any client removes. A
client that copies can leave the server without a block for the copy-on-write of another client's write, and
`fs_defrag` may spoil an inode (`sane` in `FileSystem` is a bound on the calls that are made, which the handler does not
test): neither can be excluded by what one client does. What the proof says of the clients alone does not need
`Limits`: `ProperWhileSound` and `SizesWhileSound` state it for all functions, as long as the server is sound. In the
run `client`, which copies and defragments, TLC checks both properties without that premise.

The argument. Each handler, on a state that is `Served` and with a request that is `Asked`, leaves it `Served`
(`RequestServed`): an operation of `fs.c` keeps `Sound` for every handle, also one that is 0 because the lookup that
gave it was not tested, one of a file where a directory is meant, or one of an inode that was released meanwhile. So
what a client has looked up need not be true when it uses it, only of its type, and that is `Proper`: the locals of
a call have the types of the code, a call on a path has a path, a file that is read or written is in the list of open
files, and a call of `my_open` has room for a descriptor, because the count is tested when it starts and no
other call of the same client runs before it ends. Each step of a client is then one record (`StepOf`), with the
relation `Founded` between the old list and the new one: a descriptor is an old one with another offset,
or knows a size that the server has confirmed in this very step, or comes from a creation after a lookup that left
a size behind. `SizesHold` follows from `Founded` for the client that moves, and for the others from what the server
did to the file. `ReadAnswers` (no answer is longer than what was asked for) keeps the difference `num - nread` of
`my_read` from wrapping round, `WantedIs` that of `size - read_offset`, which does wrap, within an `unsigned`.

Only model-checked: liveness (fairness and ENABLED are out of the prover's reach); `RunTree`, `LinkedQueue` and
`KnownDefects`, which use RECURSIVE operators; and `CallsDoWhatTheySay` of `ClientLibrary`, which would need the lemmas
of the refinement for a handle that leads elsewhere.

## 5. Not modelled, and the plan

Not modelled:

- the front end `sthread.c` (a dispatch without state) and `sthread_pthread.c` beyond the monitor;
- the context switch: assembly and stacks;
- handlers that interleave inside one `fs_*` call: `FileSystem` runs one call at a time. The
  cache below it is modelled with concurrent workers, the ring above it too;
- datagrams without a correlation (`snfs_api.c:64`), a lost answer, a client that restarts under one name:
  `ClientLibrary` takes a remote call for one step;
- run, wait and sleep times of the slow copy, which are only counted for a dump;
- `block_load`, `block_store`, which nothing calls; `snfs_ping`, which the client library does not use;
- formatting of messages, `fs_dump`, `fs_dumpcache` and other printing;
- the writing of the metadata to blocks 0 to 9, which nothing reads back; allocation of memory.

Next, in this order:

1. A refinement of `Namespace` for what a client calls: `CallsDoWhatTheySay` from the lemmas of
   `FileSystemImplementsTree`, under the premise that a copy-on-write finds a block.
2. `ServerStaysSound` with clients that copy, for states in which a block stays free.
3. Concurrent handlers: calls that are interleaved at their block transfers (two creates that take one
   inode, a removal whose entry moves).
4. `RemoteCall`: requests and answers as datagrams, restarts under one name, answers that are lost.
5. `RunTree` with recursive functions in place of RECURSIVE operators, and the order of the tree as a theorem.
