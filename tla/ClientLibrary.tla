--------------------------- MODULE ClientLibrary ---------------------------
(***************************************************************************)
(* The client side: the file interface of snfs_lib/myfs.c over the calls   *)
(* of snfs_lib/snfs_api.c, for several client processes and one server.    *)
(*                                                                         *)
(* A my_* function is a sequence of remote calls, and other clients run    *)
(* between two of them.  A remote call (remote_call: send the request,     *)
(* wait for the answer) is one step, in which the handler runs: its client *)
(* is blocked, and RequestRing shows that a request is answered once.      *)
(* Which call comes next is the pc of the client; Request is what it sends, *)
(* and the actions of Continue are what it does with the response.         *)
(* Between the steps a client holds inode numbers, offsets and sizes that  *)
(* the server does not know of.                                            *)
(*                                                                         *)
(* Bounds: a path is a sequence of one or more names, without the final    *)
(* "/" that myparse lets pass; the lengths it refuses do not occur.        *)
(***************************************************************************)
EXTENDS Handlers, SequencesExt

CONSTANTS
  Clients,   \* client processes
  Does,      \* the functions each of them calls
  Paths,     \* paths they name
  Pairs,     \* pairs of paths they copy or append
  Buffers,   \* what they write
  Counts,    \* how much they read
  MaxOpen,   \* MAX_OPEN_FILES
  MaxOffset, \* bound: how far they write
  Budget,    \* bound: how many functions each client calls
  Word,      \* 2^32, the range of an unsigned
  Directory  \* stands for a directory in the tree of names

ASSUME ClientAssumption ==
  /\ Does \in [Clients -> SUBSET {"open", "read", "write", "close", "listdir", "mkdir",
                                  "remove", "copy", "append",
                                  "defrag", "diskusage", "dumpcache"}]
  /\ Paths \subseteq Seq(Names) \ {<< >>}
  /\ Pairs \subseteq Paths \X Paths
  /\ Buffers \subseteq Seq(Data) \ {<< >>}
  /\ Counts \subseteq 1 .. Word - 1
  /\ MaxOpen \in Nat /\ MaxOffset \in Nat /\ Word \in Nat \ {0}
  /\ Budget \in [Clients -> Nat]

VARIABLES
  fs,         \* the file system of the server
  list,       \* Open_files_list of each client, oldest first
  Open_files, \* the count kept beside it
  call,       \* the function each client is in, and its local variables
  ret,        \* what the last one returned: OK (0 or more) or Fail (-1)
  begun       \* how many it has begun

vars == <<fs, list, Open_files, call, ret, begun>>

Server == INSTANCE FileSystem
            WITH Offsets <- {}, Writes <- {}, Lingering <- {}, Reserve <- 0,
                 Kinds <- {}

\* Locals: the paths, the handles and the size the lookups gave, the file and
\* what is still to be read or written.
NoCall == [fn |-> "none", pc |-> "none", create |-> FALSE, path |-> << >>, to |-> << >>,
           dir |-> 0, dir2 |-> 0, fsize |-> 0, file |-> 0, num |-> 0, data |-> << >>]

Init ==
  /\ fs = fs_format
  /\ list = [c \in Clients |-> << >>]
  /\ Open_files = [c \in Clients |-> 0]
  /\ call = [c \in Clients |-> NoCall]
  /\ ret = [c \in Clients |-> OK]
  /\ begun = [c \in Clients |-> 0]

-----------------------------------------------------------------------------
(* The open files (snfs_lib/queue.c).                                       *)

\* queue_node_get, queue_node_remove: the first descriptor of a file.
Slots(c, file) == {i \in DOMAIN list[c] : list[c][i].fileId = file}
IsOpen(c, file) == Slots(c, file) # {}
First(c, file) == LeastOf(Slots(c, file))
Fdesc(c, file) == list[c][First(c, file)]

-----------------------------------------------------------------------------
(* Remote calls.                                                            *)

At(c, fn, pc) == call[c].fn = fn /\ call[c].pc = pc

\* Fault: the path of the object itself is looked up.
DirectoryOf_Whole(fn, path) == path
\* The directory part of a path, looked up before a call on the object.  A file
\* to be created in the root has its own path looked up again.
DirectoryOf(fn, path) == IF fn = "open" /\ Len(path) = 1 THEN path ELSE Front(path)

\* What a client sends at its pc (the functions of snfs_api.c).
LookupRequest(path) == [type |-> "LOOKUP", pname |-> path]
DataRequest(c, k) ==
  LET Chunk == MinOf(MaxData, IF k.fn = "read" THEN k.num ELSE Len(k.data))
  IN  IF k.fn = "read"
      THEN [type |-> "READ", fhandle |-> k.file, count |-> Chunk,
            offset |-> Fdesc(c, k.file).read_offset]
      ELSE [type |-> "WRITE", fhandle |-> k.file, offset |-> Fdesc(c, k.file).write_offset,
            data |-> SubSeq(k.data, 1, Chunk)]
NameRequest(type, k) == [type |-> type, dir |-> k.dir, name |-> Last(k.path)]
PairRequest(type, k) ==
  [type |-> type, dir1 |-> k.dir, name1 |-> Last(k.path), dir2 |-> k.dir2, name2 |-> Last(k.to)]

ControlRequest(fn) ==
  [type |-> CASE fn = "defrag" -> "DEFRAG" [] fn = "diskusage" -> "DISKUSAGE"
              [] fn = "dumpcache" -> "DUMPCACHE"]

Request(c) ==
  LET k == call[c]
  IN CASE k.pc = "lookup"  -> LookupRequest(k.path)
       [] k.pc = "lookup2" -> LookupRequest(k.to)
       [] k.pc = "parent"  -> LookupRequest(DirectoryOf(k.fn, k.path))
       [] k.pc = "parent2" -> LookupRequest(DirectoryOf(k.fn, k.to))
       [] k.pc \in {"read", "write"} -> DataRequest(c, k)
       [] k.pc = "create"  -> NameRequest("CREATE", k)
       [] k.pc = "mkdir"   -> NameRequest("MKDIR", k)
       [] k.pc = "remove"  -> NameRequest("REMOVE", k)
       [] k.pc = "readdir" -> [type |-> "READDIR", dir |-> k.dir, cmax |-> MaxEntries]
       [] k.pc = "copy"    -> PairRequest("COPY", k)
       [] k.pc = "append"  -> PairRequest("APPEND", k)
       [] k.pc = "control" -> ControlRequest(k.fn)

Failed(res) == res.status # RES_OK

-----------------------------------------------------------------------------
(* Calling, going on and returning.                                         *)

Files == <<list, Open_files>>

Return(c, r) == call' = [call EXCEPT ![c] = NoCall] /\ ret' = [ret EXCEPT ![c] = r]
Enter(c, k) == call' = [call EXCEPT ![c] = k] /\ UNCHANGED ret

\* A client calls the function fn, with arguments k.
Calls(c, fn) ==
  /\ call[c] = NoCall /\ fn \in Does[c]
  /\ begun[c] < Budget[c] /\ begun' = [begun EXCEPT ![c] = @ + 1]
  /\ UNCHANGED fs
Begin(c, k) == Enter(c, k) /\ UNCHANGED Files

\* After a response: go on with the locals k, or return Fail.
GoOn(c, res, k) ==
  /\ IF Failed(res) THEN Return(c, Fail) ELSE Enter(c, k)
  /\ UNCHANGED Files
\* Return what the last remote call says.
Finish(c, res) ==
  /\ Return(c, IF Failed(res) THEN Fail ELSE OK)
  /\ UNCHANGED Files

-----------------------------------------------------------------------------
(* Opening and closing.                                                     *)

\* Fault: the table of open files has no limit.
my_open_NoLimit(c) ==
  /\ Calls(c, "open")
  /\ \E path \in Paths, create \in BOOLEAN :
       Begin(c, [NoCall EXCEPT !.fn = "open", !.pc = "lookup", !.path = path, !.create = create])

my_open(c) ==
  /\ Calls(c, "open")
  /\ \E path \in Paths, create \in BOOLEAN :
       IF Open_files[c] >= MaxOpen THEN Return(c, Fail) /\ UNCHANGED Files
       ELSE Begin(c, [NoCall EXCEPT !.fn = "open", !.pc = "lookup",
                                    !.path = path, !.create = create])

\* The end of my_open: a new descriptor, with the size fsize.
Opened(c, file, fsize) ==
  /\ list' = [list EXCEPT ![c] = Append(@, [fileId |-> file, size |-> fsize,
                                            read_offset |-> 0, write_offset |-> 0])]
  /\ Open_files' = [Open_files EXCEPT ![c] = @ + 1]
  /\ Return(c, OK)

OpenLookup(c, res) ==
  /\ At(c, "open", "lookup")
  /\ IF Failed(res) THEN Begin(c, [call[c] EXCEPT !.pc = "parent"])
     ELSE Opened(c, res.file, res.fsize)

\* The directory is looked up even if nothing will be created, and whether that
\* succeeds is not tested.  Its size goes to fsize, and stays there.
OpenParent(c, res) ==
  /\ At(c, "open", "parent")
  /\ IF call[c].create
     THEN Begin(c, [call[c] EXCEPT !.pc = "create", !.fsize = res.fsize,
                                   !.dir = IF Len(call[c].path) = 1 THEN Root ELSE res.file])
     ELSE Return(c, Fail) /\ UNCHANGED Files

\* Fault: a create that fails is tried again from the start.
OpenCreate_Retry(c, res) ==
  /\ At(c, "open", "create")
  /\ IF Failed(res) THEN Begin(c, [call[c] EXCEPT !.pc = "lookup"])
     ELSE Opened(c, res.file, call[c].fsize)

OpenCreate(c, res) ==
  /\ At(c, "open", "create")
  /\ IF Failed(res) THEN Finish(c, res) ELSE Opened(c, res.file, call[c].fsize)

my_close(c) ==
  /\ Calls(c, "close")
  /\ \E file \in Inodes :
       IF IsOpen(c, file)
       THEN /\ list' = [list EXCEPT ![c] = RemoveAt(@, First(c, file))]
            /\ Open_files' = [Open_files EXCEPT ![c] = @ - 1]
            /\ Return(c, OK)
       ELSE Return(c, Fail) /\ UNCHANGED Files

-----------------------------------------------------------------------------
(* Reading and writing through a descriptor, MaxData cells a call.          *)

\* What my_read asks for is cut to the size it knows of.  Where that is below
\* its offset, the difference is unsigned.
Wanted(d, count) ==
  IF d.size < d.read_offset + count THEN (d.size - d.read_offset) % Word ELSE count

my_read(c) ==
  /\ Calls(c, "read")
  /\ UNCHANGED Files
  /\ \E file \in Inodes, count \in Counts :
       IF ~IsOpen(c, file) THEN Return(c, Fail)
       ELSE IF Fdesc(c, file).read_offset = Fdesc(c, file).size THEN Return(c, OK)
       ELSE Enter(c, [NoCall EXCEPT !.fn = "read", !.pc = "read", !.file = file,
                                    !.num = Wanted(Fdesc(c, file), count)])

\* When the server has nothing at that offset, nread is 0 and nothing changes.
ReadChunk(c, res) ==
  /\ At(c, "read", "read")
  /\ IF Failed(res) THEN Return(c, Fail)
     ELSE IF res.nread = call[c].num THEN Return(c, OK)
     ELSE Enter(c, [call[c] EXCEPT !.num = @ - res.nread])
  /\ list' = [list EXCEPT ![c][First(c, call[c].file)].read_offset = @ + res.nread]
  /\ UNCHANGED Open_files

my_write(c) ==
  /\ Calls(c, "write")
  /\ UNCHANGED Files
  /\ \E file \in Inodes, data \in Buffers :
       IF ~IsOpen(c, file) THEN Return(c, Fail)
       ELSE /\ Fdesc(c, file).write_offset + Len(data) <= MaxOffset
            /\ Enter(c, [NoCall EXCEPT !.fn = "write", !.pc = "write",
                                       !.file = file, !.data = data])

\* Fault: what was written is added to the size.
SizeAfter_Added(d, w, res) == d.size + w
\* The size of the descriptor after a write of w cells: what the server says.
SizeAfter(d, w, res) == res.fsize

WriteChunk(c, res) ==
  /\ At(c, "write", "write")
  /\ LET k == call[c]
         i == First(c, k.file)
         w == MinOf(Len(k.data), MaxData)
     IN IF Failed(res) THEN Finish(c, res)
        ELSE /\ list' = [list EXCEPT ![c][i].size = SizeAfter(list[c][i], w, res),
                                     ![c][i].write_offset = @ + w]
             /\ IF w = Len(k.data) THEN Return(c, OK)
                ELSE Enter(c, [k EXCEPT !.data = SubSeq(@, w + 1, Len(@))])
             /\ UNCHANGED Open_files

-----------------------------------------------------------------------------
(* Directories.                                                             *)

my_listdir(c) ==
  /\ Calls(c, "listdir")
  /\ \E path \in Paths \cup {<< >>} :
       Begin(c, [NoCall EXCEPT !.fn = "listdir", !.path = path,
                               !.pc = IF path = << >> THEN "readdir" ELSE "lookup",
                               !.dir = IF path = << >> THEN Root ELSE 0])

ListLookup(c, res) ==
  /\ At(c, "listdir", "lookup")
  /\ GoOn(c, res, [call[c] EXCEPT !.pc = "readdir", !.dir = res.file])

ListRead(c, res) == At(c, "listdir", "readdir") /\ Finish(c, res)

my_mkdir(c) ==
  /\ Calls(c, "mkdir")
  /\ \E path \in Paths :
       Begin(c, [NoCall EXCEPT !.fn = "mkdir", !.pc = "lookup", !.path = path])

MkdirLookup(c, res) ==
  /\ At(c, "mkdir", "lookup")
  /\ UNCHANGED Files
  /\ IF ~Failed(res) THEN Return(c, Fail)
     ELSE IF Len(call[c].path) = 1
     THEN Enter(c, [call[c] EXCEPT !.pc = "mkdir", !.dir = Root])
     ELSE Enter(c, [call[c] EXCEPT !.pc = "parent"])

MkdirParent(c, res) ==
  /\ At(c, "mkdir", "parent")
  /\ GoOn(c, res, [call[c] EXCEPT !.pc = "mkdir", !.dir = res.file])

MkdirMake(c, res) == At(c, "mkdir", "mkdir") /\ Finish(c, res)

my_remove(c) ==
  /\ Calls(c, "remove")
  /\ \E path \in Paths :
       Begin(c, [NoCall EXCEPT !.fn = "remove", !.pc = "lookup", !.path = path])

RemoveLookup(c, res) ==
  /\ At(c, "remove", "lookup")
  /\ GoOn(c, res, [call[c] EXCEPT !.pc = "parent"])

\* The handle a lookup of a directory gave, 0 if it failed: that is not tested.
\* For the root it is replaced by 1.
DirHandle(path, res) == IF Len(path) = 1 THEN Root ELSE res.file

RemoveParent(c, res) ==
  /\ At(c, "remove", "parent")
  /\ Begin(c, [call[c] EXCEPT !.pc = "remove", !.dir = DirHandle(call[c].path, res)])

RemoveIt(c, res) == At(c, "remove", "remove") /\ Finish(c, res)

-----------------------------------------------------------------------------
(* Two paths: my_copy and my_append look up the first, and my_append the    *)
(* second too, then both directories.                                       *)

my_copy(c) ==
  /\ Calls(c, "copy")
  /\ \E pair \in Pairs :
       Begin(c, [NoCall EXCEPT !.fn = "copy", !.pc = "lookup",
                               !.path = pair[1], !.to = pair[2]])

\* Bound for append: both files hold at most half a page, so that the result
\* fits one.
Small(path) ==
  \A f \in fs_lookup(fs, path).ino : fs.itab[f].size * 2 <= PageSize

my_append(c) ==
  /\ Calls(c, "append")
  /\ \E pair \in Pairs :
       /\ Small(pair[1]) /\ Small(pair[2])
       /\ Begin(c, [NoCall EXCEPT !.fn = "append", !.pc = "lookup",
                                  !.path = pair[1], !.to = pair[2]])

PairLookup(c, res) ==
  /\ call[c].fn \in {"copy", "append"} /\ call[c].pc = "lookup"
  /\ GoOn(c, res, [call[c] EXCEPT !.pc = IF call[c].fn = "append" THEN "lookup2" ELSE "parent"])

AppendLookup2(c, res) ==
  /\ At(c, "append", "lookup2")
  /\ GoOn(c, res, [call[c] EXCEPT !.pc = "parent"])

PairParent(c, res) ==
  /\ call[c].fn \in {"copy", "append"} /\ call[c].pc = "parent"
  /\ Begin(c, [call[c] EXCEPT !.pc = "parent2", !.dir = DirHandle(call[c].path, res)])

PairParent2(c, res) ==
  /\ call[c].pc = "parent2"
  /\ Begin(c, [call[c] EXCEPT !.pc = call[c].fn, !.dir2 = DirHandle(call[c].to, res)])

PairIt(c, res) ==
  /\ At(c, "copy", "copy") \/ At(c, "append", "append")
  /\ Finish(c, res)

-----------------------------------------------------------------------------

\* my_defrag, my_diskusage and my_dumpcache: one call without arguments.  Bound:
\* copies have been written when the disk is defragmented (FileSystem: Defrag).
my_control(c) ==
  \E fn \in {"defrag", "diskusage", "dumpcache"} :
    (fn = "defrag" => Server!Unshared) /\ Calls(c, fn) /\ Begin(c, [NoCall EXCEPT !.fn = fn, !.pc = "control"])

ControlDone(c, res) == call[c].pc = "control" /\ Finish(c, res)

-----------------------------------------------------------------------------

\* It goes on with the function it is in, by the next remote call.
Continue(c) ==
  /\ call[c] # NoCall
  /\ UNCHANGED begun
  /\ \E res \in {Serve(fs, Request(c))} :
       /\ fs' = res.fs
       /\ \/ OpenLookup(c, res) \/ OpenParent(c, res) \/ OpenCreate(c, res)
          \/ ReadChunk(c, res) \/ WriteChunk(c, res)
          \/ ListLookup(c, res) \/ ListRead(c, res)
          \/ MkdirLookup(c, res) \/ MkdirParent(c, res) \/ MkdirMake(c, res)
          \/ RemoveLookup(c, res) \/ RemoveParent(c, res) \/ RemoveIt(c, res)
          \/ PairLookup(c, res) \/ AppendLookup2(c, res) \/ PairParent(c, res)
          \/ PairParent2(c, res) \/ PairIt(c, res)
          \/ ControlDone(c, res)

\* A client calls a function as it likes, or goes on with the one it is in.
Next == \E c \in Clients :
  \/ my_open(c) \/ my_close(c) \/ my_read(c) \/ my_write(c) \/ my_listdir(c)
  \/ my_mkdir(c) \/ my_remove(c) \/ my_copy(c) \/ my_append(c)
  \/ my_control(c)
  \/ Continue(c)

Spec == Init /\ [][Next]_vars

\* A read at the end of its file, or after it, and not at its own idea of the
\* end: the server answers with no bytes, and nothing changes.
Starved(c) ==
  /\ call[c].fn = "read" /\ IsFile(fs, call[c].file)
  /\ Fdesc(c, call[c].file).read_offset >= fs.itab[call[c].file].size

\* The step of a client that is in a call.
Moves(c) == call[c] # NoCall /\ call'[c] # call[c]

\* Every remote call is answered (RequestRing: EveryRequestAnswered), so a call
\* goes on.  This is WF_vars(Continue(c)) with its ENABLED worked out: a client
\* in a call can always go on, and that changes its state unless it is Starved.
FairSpec ==
  Spec /\ \A c \in Clients : []<>(call[c] = NoCall \/ Starved(c)) \/ []<><<Moves(c)>>_vars

-----------------------------------------------------------------------------
(* Properties.                                                              *)

\* Types of the client's state; the count of open files is the length of the
\* list, and within its limit (myfs.c:58, 120-121, 224-225).
TypeOK ==
  \A c \in Clients :
    /\ list[c] \in Seq([fileId : Inodes, size : Nat, read_offset : Nat, write_offset : Nat])
    /\ Open_files[c] = Len(list[c]) /\ Open_files[c] <= MaxOpen
    /\ call[c].fn \in Does[c] \cup {"none"}
    /\ call[c].dir \in Itab /\ call[c].dir2 \in Itab /\ call[c].num \in 0 .. Word - 1
    /\ ret[c] \in {OK, Fail}

NameTree == INSTANCE Namespace
            WITH tree <- Server!Tree, Offsets <- {}, Writes <- {}

\* The object a path leads to.
LeadsTo(path) == IF path = << >> THEN {Root} ELSE fs_lookup(fs, path).ino

\* What c has looked up, or is still to look up, is not where the path leads.
Astray(c) ==
  \/ call[c].path # << >> /\ call[c].dir \notin LeadsTo(Front(call[c].path))
  \/ call[c].to # << >> /\ call[c].dir2 \notin LeadsTo(Front(call[c].to))

\* An empty directory copied over a directory.
NothingToCopy(t, from, to) ==
  NameTree!IsDirectory(t, to) /\ NameTree!Under(t, from) = {from}

\* What the step of c that finishes a call, with the answer r, does to the tree.
Outcome(c, t, u, r) ==
  LET k == call[c]
  IN CASE r = OK /\ k.pc = "create" -> NameTree!Create(t, u, k.path)
       [] r = OK /\ k.pc = "mkdir"  -> NameTree!Mkdir(t, u, k.path)
       [] r = OK /\ k.pc = "remove" -> NameTree!Unlink(t, u, k.path)
       [] r = OK /\ k.pc = "copy"   -> \/ NameTree!CopyFile(t, u, k.path, k.to)
                                       \/ NameTree!CopyDirectory(t, u, k.path, k.to)
                                       \/ u = t /\ NothingToCopy(t, k.path, k.to)
       [] r = Fail /\ k.pc = "copy" -> u = t \/ NameTree!CopyDirectory(t, u, k.path, k.to)
       [] r = OK /\ k.pc = "append" /\ Front(k.path) = Front(k.to)
                                    -> NameTree!AppendTo(t, u, k.path, k.to)
       [] k.pc = "append" /\ Front(k.path) # Front(k.to) -> TRUE
       [] r = Fail /\ k.pc \in {"create", "mkdir"} ->
            u = t /\ (NameTree!Vacant(t, k.path) => FreeInodes(fs) = {})
       [] r = Fail /\ k.pc = "remove" -> u = t /\ k.path \notin DOMAIN t
       [] OTHER -> u = t

\* What a chunk of a write does to it: at most the file it is for changes.
ChunkWritten(c, t, u) ==
  \A p \in DOMAIN t : LeadsTo(p) = {call[c].file} \/ u[p] = t[p]

\* A step of c that takes a directory handle takes the one its path leads to,
\* or 0 if there is none.
Looked(c) ==
  LET k == call[c]
      n == call'[c]
  IN  n # NoCall =>
        /\ k.pc = "parent"  => LeadsTo(Front(k.path)) = {n.dir} \ {0}
        /\ k.pc = "parent2" => LeadsTo(Front(k.to)) = {n.dir2} \ {0}

\* A call does to the tree of names what it says, to the path it was given, in
\* the step of its last remote call, and answers OK only if that was done; to
\* create or remove fails only if it cannot be done, and nothing else changes
\* the tree.  This holds however the calls of the clients
\* interleave, as long as the directory a call has looked up stays where it
\* was then, and a block is free for a copy-on-write.
CallsDoWhatTheySay ==
  [][LET t == Server!Tree
         u == (Server!Tree)'
     IN /\ (\A c \in Clients : ~Moves(c)) => u = t
        /\ \A c \in Clients : Moves(c) => Looked(c)
        /\ \A c \in Clients :
             Moves(c) /\ ~Astray(c) /\ FreeBlocks(fs) # {} =>
               IF call[c].fn = "write" THEN ChunkWritten(c, t, u) ELSE Outcome(c, t, u, ret'[c])]_vars

\* What the server holds of a file.
Held(file) == IF file \in fs.iused THEN fs.itab[file].size ELSE 0
Overrated(c, file) == \E i \in Slots(c, file) : list[c][i].size > Held(file)

\* A client comes to believe that a file is longer than it is only when the
\* file is removed, or shortened by a copy, or when the client has just created
\* it after a lookup that left the size of another object (myfs.c:100): of the
\* directory, or of what had its path for a moment.
SizesHold ==
  [][\A c \in Clients, file \in Inodes :
       Overrated(c, file)' =>
         \/ Overrated(c, file)
         \/ Held(file)' < Held(file)
         \/ At(c, "open", "create") /\ call[c].fsize > 0]_vars

\* A read wants more than the file has.
WantsMore(c) ==
  call[c].fn = "read" /\ Fdesc(c, call[c].file).read_offset + call[c].num > Held(call[c].file)

\* Every call ends, but a read that wants more than there is: that one asks for
\* ever (myfs.c:156-167, where nread is 0).
CallsEnd ==
  \A c \in Clients : call[c] # NoCall ~> call[c] = NoCall \/ WantsMore(c)
=============================================================================
