------------------------ MODULE ClientLibraryProofs ------------------------
(***************************************************************************)
(* Proofs about ClientLibrary: the handlers keep the invariant of the file  *)
(* system (FsLemmas) whatever handles and offsets the clients send, and the *)
(* lists of open files, the locals of a call and the sizes a client holds   *)
(* are right as long as the file system of the server is sound.             *)
(***************************************************************************)
EXTENDS ClientLibrary, FsLemmas

-----------------------------------------------------------------------------
(* Sequences.                                                               *)

\* A nonempty path has a front and a last name.
LEMMA PathParts ==
  ASSUME NEW path \in Seq(Names)
  PROVE  /\ Front(path) \in Seq(Names)
         /\ path # << >> => Last(path) \in Names
  BY DEF Front, Last

\* What is left of a sequence without one of its elements.
LEMMA RemovedAt ==
  ASSUME NEW S, NEW s \in Seq(S), NEW i \in DOMAIN s
  PROVE  /\ RemoveAt(s, i) \in Seq(S) /\ Len(RemoveAt(s, i)) = Len(s) - 1
         /\ \A j \in DOMAIN RemoveAt(s, i) : \E k \in DOMAIN s : RemoveAt(s, i)[j] = s[k]
<1> DEFINE a == SubSeq(s, 1, i - 1)
           b == SubSeq(s, i + 1, Len(s))
<1>1. i \in 1 .. Len(s) /\ Len(s) \in Nat
  OBVIOUS
<1>2. a \in Seq(S) /\ Len(a) = i - 1 /\ \A j \in 1 .. i - 1 : a[j] = s[j]
  BY <1>1
<1>3. b \in Seq(S) /\ Len(b) = Len(s) - i /\ \A j \in 1 .. Len(s) - i : b[j] = s[i + j]
  BY <1>1
<1> HIDE DEF a, b
<1>4. a \o b \in Seq(S) /\ Len(a \o b) = Len(s) - 1
  BY <1>1, <1>2, <1>3
<1>5. ASSUME NEW j \in DOMAIN (a \o b) PROVE \E k \in DOMAIN s : (a \o b)[j] = s[k]
  <2>1. j \in 1 .. Len(s) - 1
    BY <1>1, <1>4
  <2>2. CASE j <= i - 1
    <3>1. (a \o b)[j] = s[j] /\ j \in DOMAIN s
      BY <1>1, <1>2, <1>3, <2>1, <2>2
    <3> QED BY <3>1
  <2>3. CASE ~ j <= i - 1
    <3>1. (a \o b)[j] = b[j - (i - 1)] /\ j - (i - 1) \in 1 .. Len(s) - i
      BY <1>1, <1>2, <1>3, <2>1, <2>3
    <3>2. (a \o b)[j] = s[j + 1] /\ j + 1 \in DOMAIN s
      BY <1>1, <1>3, <2>1, <3>1
    <3> QED BY <3>2
  <2> QED BY <2>2, <2>3
<1>6. RemoveAt(s, i) = a \o b
  BY DEF RemoveAt, a, b
<1> QED BY <1>4, <1>5, <1>6

\* A sequence with one of its elements replaced.
LEMMA ReplacedAt ==
  ASSUME NEW S, NEW s \in Seq(S), NEW i \in DOMAIN s, NEW v \in S
  PROVE  [s EXCEPT ![i] = v] \in Seq(S) /\ Len([s EXCEPT ![i] = v]) = Len(s)
<1>1. Len(s) \in Nat /\ s \in [1 .. Len(s) -> S] /\ i \in 1 .. Len(s)
  OBVIOUS
<1> DEFINE t == [s EXCEPT ![i] = v]
<1>2. t \in [1 .. Len(s) -> S]
  BY <1>1
<1> HIDE DEF t
<1>3. t \in Seq(S) /\ Len(t) = Len(s)
  BY <1>1, <1>2
<1> QED BY <1>3 DEF t

-----------------------------------------------------------------------------
(* The handlers.                                                            *)

\* Serve calls the handler of the type.
LEMMA ServeIs ==
  ASSUME NEW s, NEW q
  PROVE  /\ q.type = "LOOKUP" => Serve(s, q) = snfs_lookup(s, q.pname)
         /\ q.type = "READ" => Serve(s, q) = snfs_read(s, q.fhandle, q.offset, q.count)
         /\ q.type = "WRITE" => Serve(s, q) = snfs_write(s, q.fhandle, q.offset, q.data)
         /\ q.type = "CREATE" => Serve(s, q) = snfs_create(s, q.dir, q.name)
         /\ q.type = "MKDIR" => Serve(s, q) = snfs_mkdir(s, q.dir, q.name)
         /\ q.type = "READDIR" => Serve(s, q) = snfs_readdir(s, q.dir, q.cmax)
         /\ q.type = "REMOVE" => Serve(s, q) = snfs_remove(s, q.dir, q.name)
         /\ q.type = "APPEND" => Serve(s, q) = snfs_append(s, q.dir1, q.name1, q.dir2, q.name2)
         /\ q.type = "DISKUSAGE" => Serve(s, q) = snfs_diskusage(s)
         /\ q.type = "DUMPCACHE" => Serve(s, q) = snfs_dumpcache(s)
<1>1. q.type = "LOOKUP" => Serve(s, q) = snfs_lookup(s, q.pname)
  BY Zenon DEF Serve
<1>2. q.type = "READ" => Serve(s, q) = snfs_read(s, q.fhandle, q.offset, q.count)
  BY Zenon DEF Serve
<1>3. q.type = "WRITE" => Serve(s, q) = snfs_write(s, q.fhandle, q.offset, q.data)
  BY Zenon DEF Serve
<1>4. q.type = "CREATE" => Serve(s, q) = snfs_create(s, q.dir, q.name)
  BY Zenon DEF Serve
<1>5. q.type = "MKDIR" => Serve(s, q) = snfs_mkdir(s, q.dir, q.name)
  BY Zenon DEF Serve
<1>6. q.type = "READDIR" => Serve(s, q) = snfs_readdir(s, q.dir, q.cmax)
  BY Zenon DEF Serve
<1>7. q.type = "REMOVE" => Serve(s, q) = snfs_remove(s, q.dir, q.name)
  BY Zenon DEF Serve
<1>8. q.type = "APPEND" => Serve(s, q) = snfs_append(s, q.dir1, q.name1, q.dir2, q.name2)
  BY Zenon DEF Serve
<1>9. q.type = "DISKUSAGE" => Serve(s, q) = snfs_diskusage(s)
  BY Zenon DEF Serve
<1>10. q.type = "DUMPCACHE" => Serve(s, q) = snfs_dumpcache(s)
  BY Zenon DEF Serve
<1> QED BY <1>1, <1>2, <1>3, <1>4, <1>5, <1>6, <1>7, <1>8, <1>9, <1>10

\* What the size of an inode is answered to be.
LEMMA AttrsAre ==
  ASSUME NEW s, NEW file
  PROVE  /\ fs_get_attrs(s, file) # {} <=> file \in s.iused
         /\ file \in s.iused => SizeOf(s, file) = s.itab[file].size
  BY DEF fs_get_attrs, SizeOf

\* A lookup answers with an inode in use, and its size.
LEMMA LookupAnswers ==
  ASSUME NEW s, Sound(s), NEW path \in Seq(Names), NEW r, r = snfs_lookup(s, path)
  PROVE  /\ r.fs = s /\ r.file \in Itab /\ r.fsize \in Nat
         /\ ~ Failed(r) => r.file \in Inodes /\ r.file \in s.iused /\ r.fsize = s.itab[r.file].size
<1> DEFINE w == fs_lookup(s, path)
           f == CHOOSE i \in w.ino : TRUE
<1>0. Itab = Inodes \cup {0} /\ s \in States /\ InUse(s) \subseteq Inodes
  BY StateType DEF Itab, Sound, Formed, InUse
<1>1. CASE path # << >> /\ w.ret = 1 /\ fs_get_attrs(s, f) # {}
  <2>1. r = [fs |-> s, status |-> RES_OK, file |-> f, fsize |-> SizeOf(s, f)]
    BY <1>1 DEF snfs_lookup
  <2>2. r.fs = s /\ r.file = f /\ r.fsize = SizeOf(s, f)
    BY <2>1
  <2>3. f \in s.iused /\ SizeOf(s, f) = s.itab[f].size
    <3> HIDE DEF f
    <3> QED BY <1>1, AttrsAre
  <2>4. \E h : Leads(s, Root, path, h)
    BY <1>1, LookupFinds
  <2>5. PICK h : Leads(s, Root, path, h)
    BY <2>4
  <2>6. w = [ret |-> 1, ino |-> {h}] /\ h \in InUse(s)
    BY <1>1, <2>5, LookupFinds, LeadsType
  <2>7. f = h
    BY <2>6
  <2> HIDE DEF f
  <2>8. s.itab[f].size \in Nat
    BY <1>0, <2>6, <2>7, StateType
  <2> QED BY <1>0, <2>2, <2>3, <2>6, <2>7, <2>8
<1>2. CASE ~ (path # << >> /\ w.ret = 1 /\ fs_get_attrs(s, f) # {})
  <2>1. r = [fs |-> s, status |-> RES_ERROR, file |-> 0, fsize |-> 0]
    BY <1>2 DEF snfs_lookup
  <2> QED BY <1>0, <2>1 DEF Failed, RES_OK, RES_ERROR
<1> QED BY <1>1, <1>2

\* A read answers with no more than it was asked for.
LEMMA ReadAnswers ==
  ASSUME NEW s, Sound(s), NEW file \in Inodes, NEW offset \in Nat, NEW count \in Nat,
         NEW r, r = snfs_read(s, file, offset, count)
  PROVE  r.fs = s /\ r.nread \in 0 .. count
<1> DEFINE size == s.itab[file].size
           m == MinOf(offset + count, size)
<1>1. CASE r = [fs |-> s, status |-> RES_ERROR, nread |-> 0]
  BY <1>1
<1>2. CASE r = [fs |-> s, status |-> RES_OK, nread |-> Len(fs_read(s, file, offset, count))] /\ IsFile(s, file)
  <2>1. r.fs = s /\ r.nread = Len(fs_read(s, file, offset, count))
    BY <1>2
  <2>2. file \in FilesOf(s)
    BY <1>2 DEF IsFile, FilesOf, InUse
  <2>3. Content(s, file) \in Seq(Data) /\ Len(Content(s, file)) = size /\ size \in Nat
    <3>1. Content(s, file) \in Seq(Data)
      BY <2>2, ContentIs
    <3>2. size \in Nat
      BY StateType DEF Sound, Formed, Itab
    <3> HIDE DEF size
    <3>3. Len([i \in 1 .. size |-> Entry(s, file, i - 1).name]) = size
      BY <3>2
    <3> QED BY <3>1, <3>2, <3>3 DEF Content, size
  <2>4. CASE offset >= size
    <3>1. fs_read(s, file, offset, count) = << >>
      BY <2>4 DEF fs_read
    <3> QED BY <2>1, <3>1
  <2>5. CASE ~ offset >= size
    <3>1. fs_read(s, file, offset, count) = SubSeq(Content(s, file), offset + 1, m)
      BY <2>5 DEF fs_read
    <3>2. m \in Nat /\ m <= size /\ m <= offset + count /\ m >= offset
      BY <2>3, <2>5 DEF MinOf
    <3> HIDE DEF m, size
    <3>3. Len(SubSeq(Content(s, file), offset + 1, m)) = m - offset
      BY <2>3, <3>2
    <3> QED BY <2>1, <3>1, <3>2, <3>3
  <2> QED BY <2>4, <2>5
<1> QED BY <1>1, <1>2 DEF snfs_read

\* A write that succeeds answers with the size of the file.
LEMMA WriteAnswers ==
  ASSUME NEW s, NEW file \in Inodes, NEW offset, NEW data,
         NEW r, r = snfs_write(s, file, offset, data), Sound(r.fs), ~ Failed(r)
  PROVE  file \in r.fs.iused /\ r.fsize = r.fs.itab[file].size /\ r.fsize \in Nat
<1> DEFINE w == fs_write(s, file, offset, data)
<1>1. fs_get_attrs(w.fs, file) # {} /\ r = [fs |-> w.fs, status |-> RES_OK, fsize |-> SizeOf(w.fs, file)]
  <2> HIDE DEF w
  <2> QED BY DEF snfs_write, Failed, RES_OK, RES_ERROR, w
<1> HIDE DEF w
<1>2. r.fs = w.fs /\ r.fsize = SizeOf(w.fs, file)
  BY <1>1
<1>3. file \in r.fs.iused /\ r.fsize = r.fs.itab[file].size
  BY <1>1, <1>2, AttrsAre
<1>4. r.fs.itab[file].size \in Nat
  BY StateType DEF Sound, Formed, Itab
<1> QED BY <1>3, <1>4

\* A creation that succeeds answers with an inode.
LEMMA CreateAnswers ==
  ASSUME NEW s, Sound(s), NEW dir \in Itab, NEW name \in Names,
         NEW r, r = snfs_create(s, dir, name), ~ Failed(r)
  PROVE  r.file \in Inodes
<1> DEFINE w == fs_create(s, dir, name)
<1>1. w.ret = OK /\ r.file = w.ino
  <2> HIDE DEF w
  <2> QED BY DEF snfs_create, Response, Failed, RES_OK, RES_ERROR, w
<1>2. w = NewObject(s, dir, name, FILE)
  BY DEF fs_create
<1> HIDE DEF w
<1> QED BY <1>1, <1>2, NewObjectKeeps

-----------------------------------------------------------------------------
(* What the requests of the clients do to the server.                       *)

\* A client removes files.
Removing == \E c \in Clients : "remove" \in Does[c]

\* No client copies, so that no write needs blocks for a copy-on-write, and no
\* client defragments; and if one removes, no directory outgrows a page.
Limits ==
  /\ \A c \in Clients : Does[c] \cap {"copy", "defrag"} = {}
  /\ Removing => FewNames

\* The invariant of the server.
Served(s) == Sound(s) /\ Alone(s) /\ (Removing => OnePageDirs(s))

\* The requests the clients may send within Limits.
Asked(q) ==
  \/ q.type = "LOOKUP" /\ q.pname \in Seq(Names)
  \/ q.type = "READ" /\ q.fhandle \in Inodes /\ q.offset \in Nat /\ q.count \in Nat
  \/ q.type = "WRITE" /\ q.fhandle \in Inodes /\ q.offset \in Nat /\ q.data \in Seq(Data)
  \/ q.type \in {"CREATE", "MKDIR"} /\ q.dir \in Itab /\ q.name \in Names
  \/ q.type = "REMOVE" /\ q.dir \in Itab /\ q.name \in Names /\ Removing
  \/ /\ q.type = "APPEND" /\ q.dir1 \in Itab /\ q.dir2 \in Itab
     /\ q.name1 \in Names /\ q.name2 \in Names
  \/ q.type \in {"READDIR", "DISKUSAGE", "DUMPCACHE"}

\* A removal, from any directory.
LEMMA RemovalServed ==
  ASSUME NEW s, Served(s), Removing, NEW dir \in Itab, NEW name \in Names
  PROVE  Served(snfs_remove(s, dir, name).fs)
<1> DEFINE w == fs_remove(s, dir, name, {})
<1>1. snfs_remove(s, dir, name).fs = w.fs
  <2> HIDE DEF w
  <2> QED BY DEF snfs_remove, Response, w
<1>2. CASE dir = 0
  <2>1. s.itab[0] = fsi_inode_init(FILE)
    BY DEF Served, Sound, Formed, Itab, InUse
  <2>2. Positions(s, 0) = {}
    BY <2>1 DEF Positions, fsi_inode_init
  <2>3. fsi_dir_search(s, dir, name) = {}
    BY <1>2, <2>2 DEF fsi_dir_search
  <2>4. w.fs = s
    BY <2>3 DEF fs_remove
  <2> HIDE DEF w
  <2> QED BY <1>1, <2>4
<1>3. CASE dir # 0
  <2> DEFINE t == w.fs
  <2>1. Sound(t) /\ OnePageDirs(t) /\ Alone(t)
    <3>1. Sound(s) /\ OnePageDirs(s) /\ Alone(s) /\ dir \in Itab \ {0}
      BY <1>3 DEF Served
    <3>2. t = fs_remove(s, dir, name, {}).fs
      OBVIOUS
    <3> HIDE DEF t
    <3> QED BY <3>1, <3>2, RemoveKeeps
  <2> HIDE DEF w
  <2> QED BY <1>1, <2>1 DEF Served
<1> QED BY <1>2, <1>3

\* A new object, in any directory.
LEMMA CreationServed ==
  ASSUME NEW s, Served(s), Limits, NEW dir \in Itab, NEW name \in Names, NEW type \in {FILE, DIR}
  PROVE  Served(NewObject(s, dir, name, type).fs)
<1> DEFINE r == NewObject(s, dir, name, type)
<1>0. Sound(s) /\ Alone(s)
  BY DEF Served
<1>1. Keeps(s, r.fs) /\ (Alone(s) => Alone(r.fs))
  <2> HIDE DEF r
  <2> QED BY <1>0, NewObjectKeeps DEF r
<1> HIDE DEF r
<1> QED BY <1>0, <1>1 DEF Keeps, Served, Limits, r

\* A write, at any offset.
LEMMA WriteServed ==
  ASSUME NEW s, Served(s), Limits, NEW file \in Inodes, NEW offset \in Nat, NEW data \in Seq(Data)
  PROVE  Served(snfs_write(s, file, offset, data).fs)
<1> DEFINE w == fs_write(s, file, offset, data)
           r == snfs_write(s, file, offset, data)
<1>1. r.fs = s \/ r.fs = w.fs
  <2> HIDE DEF w
  <2> QED BY DEF snfs_write, w
<1>2. Sound(s) /\ Alone(s) /\ file \in Itab
  BY DEF Served, Itab
<1>3. Sound(w.fs) /\ Alone(w.fs) /\ (FewNames /\ OnePageDirs(s) => OnePageDirs(w.fs))
  <2> HIDE DEF w
  <2> QED BY <1>2, WriteKeeps DEF w
<1> HIDE DEF w, r
<1> QED BY <1>1, <1>3 DEF Served, Limits, r

\* An append, of any two names.
LEMMA AppendServed ==
  ASSUME NEW s, Served(s), Limits, NEW dir1 \in Itab, NEW dir2 \in Itab, NEW name1 \in Names, NEW name2 \in Names
  PROVE  Served(snfs_append(s, dir1, name1, dir2, name2).fs)
<1> DEFINE w == fs_append(s, dir2, name1, dir1, name2)
           r == snfs_append(s, dir1, name1, dir2, name2)
<1>1. r.fs = w.fs
  <2> HIDE DEF w
  <2> QED BY DEF snfs_append, Response, w
<1>2. Sound(s) /\ Alone(s)
  BY DEF Served
<1>3. Sound(w.fs) /\ Alone(w.fs) /\ (FewNames /\ OnePageDirs(s) => OnePageDirs(w.fs))
  <2> HIDE DEF w
  <2> QED BY <1>2, AppendKeeps DEF w
<1> HIDE DEF w, r
<1> QED BY <1>1, <1>3 DEF Served, Limits, r

\* Every request keeps the invariant.
LEMMA RequestServed ==
  ASSUME NEW s, Served(s), Limits, NEW q, Asked(q)
  PROVE  Served(Serve(s, q).fs)
<1>0. Sound(s)
  BY DEF Served
<1>1. CASE q.type = "LOOKUP" /\ q.pname \in Seq(Names)
  <2>1. snfs_lookup(s, q.pname).fs = s
    BY DEF snfs_lookup
  <2> QED BY <1>1, <2>1, ServeIs
<1>2. CASE q.type = "READ"
  <2>1. snfs_read(s, q.fhandle, q.offset, q.count).fs = s
    BY DEF snfs_read
  <2> QED BY <1>2, <2>1, ServeIs
<1>3. CASE q.type = "WRITE" /\ q.fhandle \in Inodes /\ q.offset \in Nat /\ q.data \in Seq(Data)
  <2>1. Served(snfs_write(s, q.fhandle, q.offset, q.data).fs)
    BY <1>3, WriteServed
  <2> QED BY <1>3, <2>1, ServeIs
<1>4. CASE q.type = "CREATE" /\ q.dir \in Itab /\ q.name \in Names
  <2> DEFINE w == NewObject(s, q.dir, q.name, FILE)
  <2>1. Served(w.fs)
    BY <1>4, CreationServed
  <2>2. snfs_create(s, q.dir, q.name).fs = w.fs
    <3> HIDE DEF w
    <3> QED BY DEF snfs_create, fs_create, w
  <2> HIDE DEF w
  <2> QED BY <1>4, <2>1, <2>2, ServeIs
<1>5. CASE q.type = "MKDIR" /\ q.dir \in Itab /\ q.name \in Names
  <2> DEFINE w == NewObject(s, q.dir, q.name, DIR)
  <2>1. Served(w.fs)
    BY <1>5, CreationServed
  <2>2. snfs_mkdir(s, q.dir, q.name).fs = w.fs
    <3> HIDE DEF w
    <3> QED BY DEF snfs_mkdir, fs_mkdir, Response, w
  <2> HIDE DEF w
  <2> QED BY <1>5, <2>1, <2>2, ServeIs
<1>6. CASE q.type = "REMOVE" /\ q.dir \in Itab /\ q.name \in Names /\ Removing
  <2>1. Served(snfs_remove(s, q.dir, q.name).fs)
    BY <1>6, RemovalServed
  <2> QED BY <1>6, <2>1, ServeIs
<1>7. CASE /\ q.type = "APPEND" /\ q.dir1 \in Itab /\ q.dir2 \in Itab
           /\ q.name1 \in Names /\ q.name2 \in Names
  <2>1. Served(snfs_append(s, q.dir1, q.name1, q.dir2, q.name2).fs)
    BY <1>7, AppendServed
  <2> QED BY <1>7, <2>1, ServeIs
<1>8. CASE q.type = "READDIR"
  <2>1. snfs_readdir(s, q.dir, q.cmax).fs = s
    BY DEF snfs_readdir
  <2> QED BY <1>8, <2>1, ServeIs
<1>9. CASE q.type = "DISKUSAGE"
  <2>1. snfs_diskusage(s).fs = s
    BY DEF snfs_diskusage, Response
  <2> QED BY <1>9, <2>1, ServeIs
<1>10. CASE q.type = "DUMPCACHE"
  <2>1. snfs_dumpcache(s).fs = s
    BY DEF snfs_dumpcache, Response
  <2> QED BY <1>10, <2>1, ServeIs
<1> QED BY <1>1, <1>2, <1>3, <1>4, <1>5, <1>6, <1>7, <1>8, <1>9, <1>10 DEF Asked

-----------------------------------------------------------------------------
(* The state of a client.                                                   *)

Functions == {"open", "read", "write", "close", "listdir", "mkdir", "remove", "copy", "append",
              "defrag", "diskusage", "dumpcache", "none"}
Places == {"none", "lookup", "lookup2", "parent", "parent2", "read", "write", "create", "mkdir",
           "remove", "readdir", "copy", "append", "control"} \cup Functions
Locals == [fn : Functions, pc : Places, create : BOOLEAN, path : Seq(Names), to : Seq(Names),
           dir : Itab, dir2 : Itab, fsize : Nat, file : Itab, num : 0 .. Word - 1, data : Seq(Data)]
Descriptors == [fileId : Inodes, size : Nat, read_offset : Nat, write_offset : Nat]

\* The locals k of a client with the open files l, n of them, that calls the
\* functions does: the paths it needs are there, a file it reads or writes is
\* open, and there is room for one it opens.
Proper(k, l, n, does) ==
  /\ k \in Locals /\ k.fn \in does \cup {"none"}
  /\ k.fn \in {"open", "mkdir", "remove", "copy", "append"} => k.path # << >>
  /\ k.fn \in {"copy", "append"} => k.to # << >>
  /\ k.fn = "open" => n < MaxOpen
  /\ k.fn \in {"read", "write"} => k.file \in Inodes /\ \E i \in DOMAIN l : l[i].fileId = k.file
  /\ k.pc = "control" => k.fn \in {"defrag", "diskusage", "dumpcache"}

ClientsProper ==
  /\ list \in [Clients -> Seq(Descriptors)] /\ Open_files \in [Clients -> Nat]
  /\ call \in [Clients -> Locals] /\ ret \in [Clients -> {OK, Fail}]
  /\ \A c \in Clients :
       /\ Open_files[c] = Len(list[c]) /\ Open_files[c] <= MaxOpen
       /\ Proper(call[c], list[c], Open_files[c], Does[c])

\* The size of a file in the state s.
SizeIn(s, file) == IF file \in s.iused THEN s.itab[file].size ELSE 0

\* A descriptor of l is one of m with another offset, or it knows the size, or
\* it is that of a file just created, with the size of another object.
Founded(l, m, s, k) ==
  \A j \in DOMAIN l :
    \/ \E i \in DOMAIN m : l[j].fileId = m[i].fileId /\ l[j].size = m[i].size
    \/ l[j].size <= SizeIn(s, l[j].fileId)
    \/ k.fn = "open" /\ k.pc = "create" /\ k.fsize > 0

\* What a step of c does to the clients.
StepOf(c, k, l, n, r) ==
  /\ call' = [call EXCEPT ![c] = k] /\ list' = [list EXCEPT ![c] = l]
  /\ Open_files' = [Open_files EXCEPT ![c] = n] /\ ret' = [ret EXCEPT ![c] = r]
  /\ l \in Seq(Descriptors) /\ n = Len(l) /\ n <= MaxOpen /\ r \in {OK, Fail}
  /\ Proper(k, l, n, Does[c])
  /\ Founded(l, list[c], fs', call[c])
Stepped(c) == \E k, l, n, r : StepOf(c, k, l, n, r)

\* Such a step keeps the clients proper.
LEMMA SteppedKeeps ==
  ASSUME ClientsProper, NEW c \in Clients, Stepped(c)
  PROVE  ClientsProper'
<1>1. PICK k, l, n, r : StepOf(c, k, l, n, r)
  BY DEF Stepped
<1>2. k \in Locals /\ n \in Nat /\ n = Len(l) /\ l \in Seq(Descriptors) /\ r \in {OK, Fail} /\ n <= MaxOpen
      /\ Proper(k, l, n, Does[c])
  BY <1>1 DEF StepOf, Proper
<1>3. /\ list' \in [Clients -> Seq(Descriptors)] /\ Open_files' \in [Clients -> Nat]
      /\ call' \in [Clients -> Locals] /\ ret' \in [Clients -> {OK, Fail}]
  BY <1>1, <1>2 DEF StepOf, ClientsProper
<1>4. /\ call'[c] = k /\ list'[c] = l /\ Open_files'[c] = n
      /\ \A b \in Clients \ {c} : call'[b] = call[b] /\ list'[b] = list[b] /\ Open_files'[b] = Open_files[b]
  BY <1>1 DEF StepOf, ClientsProper
<1>5. ASSUME NEW b \in Clients
      PROVE  /\ Open_files'[b] = Len(list'[b]) /\ Open_files'[b] <= MaxOpen
             /\ Proper(call'[b], list'[b], Open_files'[b], Does[b])
  <2>1. CASE b = c
    BY <1>2, <1>4, <2>1
  <2>2. CASE b # c
    BY <1>4, <2>2 DEF ClientsProper
  <2> QED BY <2>1, <2>2
<1> QED BY <1>3, <1>5 DEF ClientsProper

\* A step that leaves the open files alone.
LEMMA FilesKept ==
  ASSUME ClientsProper, NEW c \in Clients, NEW k, NEW r, UNCHANGED Files,
         call' = [call EXCEPT ![c] = k], ret' = [ret EXCEPT ![c] = r], r \in {OK, Fail},
         Proper(k, list[c], Open_files[c], Does[c])
  PROVE  Stepped(c)
<1>1. list' = [list EXCEPT ![c] = list[c]] /\ Open_files' = [Open_files EXCEPT ![c] = Open_files[c]]
  BY DEF Files, ClientsProper
<1>2. list[c] \in Seq(Descriptors) /\ Open_files[c] = Len(list[c]) /\ Open_files[c] <= MaxOpen
  BY DEF ClientsProper
<1>3. Founded(list[c], list[c], fs', call[c])
  BY DEF Founded
<1>4. StepOf(c, k, list[c], Open_files[c], r)
  BY <1>1, <1>2, <1>3 DEF StepOf
<1> QED BY <1>4 DEF Stepped

\* Not to be in a call.
LEMMA NoCallProper ==
  ASSUME ClientsProper, NEW c \in Clients
  PROVE  /\ NoCall \in Locals
         /\ \A l, n : Proper(NoCall, l, n, Does[c])
<1>1. NoCall \in Locals
  <2>1. << >> \in Seq(Names) /\ << >> \in Seq(Data) /\ 0 \in Itab /\ 0 \in 0 .. Word - 1
    BY ClientAssumption DEF Itab
  <2> QED BY <2>1 DEF NoCall, Locals, Places, Functions
<1> QED BY <1>1 DEF NoCall, Proper

\* Calling, returning, and going on.
LEMMA EnterKeeps ==
  ASSUME ClientsProper, NEW c \in Clients, NEW k, Enter(c, k), UNCHANGED Files,
         Proper(k, list[c], Open_files[c], Does[c])
  PROVE  Stepped(c)
<1>1. ret' = [ret EXCEPT ![c] = ret[c]] /\ ret[c] \in {OK, Fail}
  BY DEF Enter, ClientsProper
<1> QED BY <1>1, FilesKept DEF Enter

LEMMA ReturnKeeps ==
  ASSUME ClientsProper, NEW c \in Clients, NEW r \in {OK, Fail}, Return(c, r), UNCHANGED Files
  PROVE  Stepped(c)
  BY FilesKept, NoCallProper DEF Return

-----------------------------------------------------------------------------
(* The calls of the library, up to the first remote call.                   *)

\* The functions a client calls.
LEMMA CalledIs ==
  ASSUME NEW c \in Clients, NEW fn, Calls(c, fn)
  PROVE  fn \in Does[c] /\ fn \in Functions
  BY ClientAssumption DEF Calls, Functions

\* A function is called, with locals that are proper.
LEMMA BeginKeeps ==
  ASSUME ClientsProper, NEW c \in Clients, NEW k \in Locals, Begin(c, k), k.fn \in Does[c], k.pc # "control",
         k.fn \in {"open", "mkdir", "remove", "copy", "append"} => k.path # << >>,
         k.fn \in {"copy", "append"} => k.to # << >>, k.fn = "open" => Open_files[c] < MaxOpen,
         k.fn \notin {"read", "write"}
  PROVE  Stepped(c)
<1>1. Proper(k, list[c], Open_files[c], Does[c])
  BY DEF Proper
<1> QED BY <1>1, EnterKeeps DEF Begin

LEMMA OpenStarts ==
  ASSUME ClientsProper, NEW c \in Clients, my_open(c)
  PROVE  Stepped(c)
<1>1. PICK path \in Paths, create \in BOOLEAN :
        IF Open_files[c] >= MaxOpen THEN Return(c, Fail) /\ UNCHANGED Files
        ELSE Begin(c, [NoCall EXCEPT !.fn = "open", !.pc = "lookup", !.path = path, !.create = create])
  BY DEF my_open
<1>2. CASE Open_files[c] >= MaxOpen
  BY <1>1, <1>2, ReturnKeeps
<1>3. CASE ~ Open_files[c] >= MaxOpen
  <2> DEFINE k == [NoCall EXCEPT !.fn = "open", !.pc = "lookup", !.path = path, !.create = create]
  <2>1. path \in Seq(Names) /\ path # << >> /\ NoCall \in Locals /\ "open" \in Does[c]
    BY CalledIs, ClientAssumption, NoCallProper DEF my_open
  <2>2. k \in Locals /\ k.fn = "open" /\ k.pc = "lookup" /\ k.path = path
    BY <2>1 DEF Locals, Functions, Places
  <2>3. Open_files[c] < MaxOpen
    BY <1>3, ClientAssumption DEF ClientsProper
  <2>4. Begin(c, k)
    BY <1>1, <1>3
  <2> HIDE DEF k
  <2> QED BY <2>1, <2>2, <2>3, <2>4, BeginKeeps
<1> QED BY <1>2, <1>3

LEMMA ListdirStarts ==
  ASSUME ClientsProper, NEW c \in Clients, my_listdir(c)
  PROVE  Stepped(c)
<1>1. PICK path \in Paths \cup {<< >>} :
        Begin(c, [NoCall EXCEPT !.fn = "listdir", !.path = path,
                                !.pc = IF path = << >> THEN "readdir" ELSE "lookup",
                                !.dir = IF path = << >> THEN Root ELSE 0])
  BY DEF my_listdir
<1> DEFINE pc == IF path = << >> THEN "readdir" ELSE "lookup"
           dir == IF path = << >> THEN Root ELSE 0
           k == [NoCall EXCEPT !.fn = "listdir", !.path = path, !.pc = pc, !.dir = dir]
<1>2. path \in Seq(Names) /\ NoCall \in Locals /\ "listdir" \in Does[c]
  <2>1. path \in Seq(Names)
    <3>1. << >> \in Seq(Names)
      OBVIOUS
    <3>2. CASE path \in Paths
      BY <3>2, ClientAssumption
    <3> HIDE DEF pc, dir, k
    <3> QED BY <3>1, <3>2
  <2>2. "listdir" \in Does[c] /\ NoCall \in Locals
    BY CalledIs, NoCallProper DEF my_listdir
  <2> QED BY <2>1, <2>2
<1>3. pc \in {"readdir", "lookup"} /\ dir \in Itab
  <2>1. Root \in Itab /\ 0 \in Itab
    BY Constants DEF Itab, Inodes, Root
  <2>2. pc \in {"readdir", "lookup"}
    OBVIOUS
  <2> QED BY <2>1, <2>2
<1>4. Begin(c, k)
  BY <1>1
<1> HIDE DEF pc, dir
<1>5. k \in Locals /\ k.fn = "listdir" /\ k.pc # "control"
  BY <1>2, <1>3 DEF Locals, Functions, Places
<1> HIDE DEF k
<1> QED BY <1>2, <1>4, <1>5, BeginKeeps

LEMMA MkdirStarts ==
  ASSUME ClientsProper, NEW c \in Clients, my_mkdir(c)
  PROVE  Stepped(c)
<1>1. PICK path \in Paths :
        Begin(c, [NoCall EXCEPT !.fn = "mkdir", !.pc = "lookup", !.path = path])
  BY DEF my_mkdir
<1> DEFINE k == [NoCall EXCEPT !.fn = "mkdir", !.pc = "lookup", !.path = path]
<1>2. path \in Seq(Names) /\ path # << >> /\ NoCall \in Locals /\ "mkdir" \in Does[c]
  BY CalledIs, ClientAssumption, NoCallProper DEF my_mkdir
<1>3. k \in Locals /\ k.fn = "mkdir" /\ k.pc = "lookup" /\ k.path = path
  BY <1>2 DEF Locals, Functions, Places
<1> HIDE DEF k
<1> QED BY <1>1, <1>2, <1>3, BeginKeeps DEF k

LEMMA RemoveStarts ==
  ASSUME ClientsProper, NEW c \in Clients, my_remove(c)
  PROVE  Stepped(c)
<1>1. PICK path \in Paths :
        Begin(c, [NoCall EXCEPT !.fn = "remove", !.pc = "lookup", !.path = path])
  BY DEF my_remove
<1> DEFINE k == [NoCall EXCEPT !.fn = "remove", !.pc = "lookup", !.path = path]
<1>2. path \in Seq(Names) /\ path # << >> /\ NoCall \in Locals /\ "remove" \in Does[c]
  BY CalledIs, ClientAssumption, NoCallProper DEF my_remove
<1>3. k \in Locals /\ k.fn = "remove" /\ k.pc = "lookup" /\ k.path = path
  BY <1>2 DEF Locals, Functions, Places
<1> HIDE DEF k
<1> QED BY <1>1, <1>2, <1>3, BeginKeeps DEF k

\* A function of two paths.
LEMMA PairCall ==
  ASSUME ClientsProper, NEW c \in Clients, NEW fn \in {"copy", "append"}, fn \in Does[c], NEW pair \in Pairs,
         Begin(c, [NoCall EXCEPT !.fn = fn, !.pc = "lookup", !.path = pair[1], !.to = pair[2]])
  PROVE  Stepped(c)
<1> DEFINE k == [NoCall EXCEPT !.fn = fn, !.pc = "lookup", !.path = pair[1], !.to = pair[2]]
<1>1. NoCall \in Locals
  BY NoCallProper
<1>2. pair[1] \in Seq(Names) /\ pair[1] # << >> /\ pair[2] \in Seq(Names) /\ pair[2] # << >>
  BY ClientAssumption
<1>3. k \in Locals /\ k.fn = fn /\ k.pc = "lookup" /\ k.path = pair[1] /\ k.to = pair[2]
  BY <1>1, <1>2 DEF Locals, Functions, Places
<1>4. Begin(c, k)
  OBVIOUS
<1> HIDE DEF k
<1> QED BY <1>2, <1>3, <1>4, BeginKeeps

LEMMA PairStarts ==
  ASSUME ClientsProper, NEW c \in Clients, my_copy(c) \/ my_append(c)
  PROVE  Stepped(c)
<1>1. CASE my_copy(c)
  <2>1. "copy" \in Does[c] /\ \E pair \in Pairs :
          Begin(c, [NoCall EXCEPT !.fn = "copy", !.pc = "lookup", !.path = pair[1], !.to = pair[2]])
    BY <1>1, CalledIs DEF my_copy
  <2> QED BY <2>1, PairCall
<1>2. CASE my_append(c)
  <2>1. "append" \in Does[c] /\ \E pair \in Pairs :
          Begin(c, [NoCall EXCEPT !.fn = "append", !.pc = "lookup", !.path = pair[1], !.to = pair[2]])
    BY <1>2, CalledIs DEF my_append
  <2> QED BY <2>1, PairCall
<1> QED BY <1>1, <1>2

LEMMA ControlStarts ==
  ASSUME ClientsProper, NEW c \in Clients, my_control(c)
  PROVE  Stepped(c)
<1>1. PICK fn \in {"defrag", "diskusage", "dumpcache"} :
        Calls(c, fn) /\ Begin(c, [NoCall EXCEPT !.fn = fn, !.pc = "control"])
  BY DEF my_control
<1> DEFINE k == [NoCall EXCEPT !.fn = fn, !.pc = "control"]
<1>2. NoCall \in Locals
  BY NoCallProper
<1>3. k \in Locals /\ k.fn = fn /\ fn \in Does[c]
  BY <1>1, <1>2, CalledIs DEF Locals, Functions, Places
<1>4. Enter(c, k) /\ UNCHANGED Files
  BY <1>1 DEF Begin
<1> HIDE DEF k
<1>5. Proper(k, list[c], Open_files[c], Does[c])
  BY <1>3 DEF Proper
<1> QED BY <1>4, <1>5, EnterKeeps

\* The first descriptor of an open file.
LEMMA FirstIs ==
  ASSUME ClientsProper, NEW c \in Clients, NEW file, IsOpen(c, file)
  PROVE  /\ First(c, file) \in DOMAIN list[c] /\ list[c][First(c, file)].fileId = file
         /\ list[c] \in Seq(Descriptors) /\ Fdesc(c, file) = list[c][First(c, file)] /\ Fdesc(c, file) \in Descriptors
<1>1. list[c] \in Seq(Descriptors)
  BY DEF ClientsProper
<1>2. Slots(c, file) \subseteq Nat /\ Slots(c, file) # {} /\ Slots(c, file) \subseteq DOMAIN list[c]
  BY <1>1 DEF Slots, IsOpen
<1>3. First(c, file) \in Slots(c, file)
  BY <1>2, LeastNumber DEF First
<1>4. First(c, file) \in DOMAIN list[c] /\ list[c][First(c, file)].fileId = file
  BY <1>3 DEF Slots
<1> QED BY <1>1, <1>4 DEF Fdesc

LEMMA CloseKeeps ==
  ASSUME ClientsProper, NEW c \in Clients, my_close(c)
  PROVE  Stepped(c)
<1>1. PICK file \in Inodes :
        IF IsOpen(c, file)
        THEN /\ list' = [list EXCEPT ![c] = RemoveAt(@, First(c, file))]
             /\ Open_files' = [Open_files EXCEPT ![c] = @ - 1]
             /\ Return(c, OK)
        ELSE Return(c, Fail) /\ UNCHANGED Files
  BY DEF my_close
<1>2. CASE ~ IsOpen(c, file)
  BY <1>1, <1>2, ReturnKeeps
<1>3. CASE IsOpen(c, file)
  <2> DEFINE i == First(c, file)
             l == RemoveAt(list[c], i)
             n == Open_files[c] - 1
  <2>1. list[c] \in Seq(Descriptors) /\ i \in DOMAIN list[c]
    BY <1>3, FirstIs
  <2>2. Open_files[c] = Len(list[c]) /\ Open_files[c] <= MaxOpen /\ Open_files[c] \in Nat
    BY DEF ClientsProper
  <2>3. /\ list' = [list EXCEPT ![c] = l] /\ Open_files' = [Open_files EXCEPT ![c] = n]
        /\ call' = [call EXCEPT ![c] = NoCall] /\ ret' = [ret EXCEPT ![c] = OK]
    BY <1>1, <1>3 DEF Return
  <2> HIDE DEF i
  <2>4. /\ l \in Seq(Descriptors) /\ Len(l) = Len(list[c]) - 1
        /\ \A j \in DOMAIN l : \E m \in DOMAIN list[c] : l[j] = list[c][m]
    BY <2>1, RemovedAt
  <2>5. Founded(l, list[c], fs', call[c])
    <3> HIDE DEF l
    <3> QED BY <2>4 DEF Founded
  <2> HIDE DEF l, n
  <2>6. n = Len(l) /\ n <= MaxOpen
    BY <2>2, <2>4, ClientAssumption DEF n
  <2>7. Proper(NoCall, l, n, Does[c])
    BY NoCallProper
  <2>8. StepOf(c, NoCall, l, n, OK)
    BY <2>3, <2>4, <2>5, <2>6, <2>7 DEF StepOf
  <2> QED BY <2>8 DEF Stepped
<1> QED BY <1>2, <1>3

\* What is asked for fits an unsigned.
LEMMA WantedIs ==
  ASSUME NEW d \in Descriptors, NEW count \in Counts
  PROVE  Wanted(d, count) \in 0 .. Word - 1
<1>1. Word \in Nat /\ Word > 0 /\ count \in 1 .. Word - 1
  BY ClientAssumption
<1>2. d.size \in Nat /\ d.read_offset \in Nat
  BY DEF Descriptors
<1> DEFINE x == d.size - d.read_offset
<1>3. x \in Int
  BY <1>2
<1> HIDE DEF x
<1>4. x % Word \in 0 .. Word - 1
  BY <1>1, <1>3
<1> QED BY <1>1, <1>4 DEF Wanted, x

\* The file of a read or a write is open.
LEMMA FileCall ==
  ASSUME ClientsProper, NEW c \in Clients, NEW k \in Locals, k.fn \in {"read", "write"}, k.fn \in Does[c],
         k.pc # "control", k.file \in Inodes, IsOpen(c, k.file), Enter(c, k), UNCHANGED Files
  PROVE  Stepped(c)
<1>1. \E i \in DOMAIN list[c] : list[c][i].fileId = k.file
  BY DEF IsOpen, Slots
<1>2. Proper(k, list[c], Open_files[c], Does[c])
  BY <1>1 DEF Proper
<1> QED BY <1>2, EnterKeeps

LEMMA ReadStarts ==
  ASSUME ClientsProper, NEW c \in Clients, my_read(c)
  PROVE  Stepped(c)
<1>1. PICK file \in Inodes, count \in Counts :
        IF ~IsOpen(c, file) THEN Return(c, Fail)
        ELSE IF Fdesc(c, file).read_offset = Fdesc(c, file).size THEN Return(c, OK)
        ELSE Enter(c, [NoCall EXCEPT !.fn = "read", !.pc = "read", !.file = file,
                                     !.num = Wanted(Fdesc(c, file), count)])
  BY DEF my_read
<1>2. UNCHANGED Files /\ "read" \in Does[c]
  BY CalledIs DEF my_read
<1>3. CASE \E r \in {OK, Fail} : Return(c, r)
  BY <1>2, <1>3, ReturnKeeps
<1>4. CASE IsOpen(c, file) /\ Enter(c, [NoCall EXCEPT !.fn = "read", !.pc = "read", !.file = file,
                                                      !.num = Wanted(Fdesc(c, file), count)])
  <2> DEFINE w == Wanted(Fdesc(c, file), count)
             k == [NoCall EXCEPT !.fn = "read", !.pc = "read", !.file = file, !.num = w]
  <2>1. w \in 0 .. Word - 1
    BY <1>4, FirstIs, WantedIs
  <2>2. Enter(c, k)
    BY <1>4
  <2> HIDE DEF w
  <2>3. NoCall \in Locals /\ file \in Itab
    BY NoCallProper DEF Itab
  <2>4. k \in Locals /\ k.fn = "read" /\ k.pc = "read" /\ k.file = file
    BY <2>1, <2>3 DEF Locals, Functions, Places
  <2> HIDE DEF k
  <2> QED BY <1>2, <1>4, <2>2, <2>4, FileCall
<1> QED BY <1>1, <1>3, <1>4

LEMMA WriteStarts ==
  ASSUME ClientsProper, NEW c \in Clients, my_write(c)
  PROVE  Stepped(c)
<1>1. PICK file \in Inodes, data \in Buffers :
        IF ~IsOpen(c, file) THEN Return(c, Fail)
        ELSE Enter(c, [NoCall EXCEPT !.fn = "write", !.pc = "write", !.file = file, !.data = data])
  BY DEF my_write
<1>2. UNCHANGED Files /\ "write" \in Does[c]
  BY CalledIs DEF my_write
<1>3. CASE Return(c, Fail)
  BY <1>2, <1>3, ReturnKeeps
<1>4. CASE IsOpen(c, file) /\ Enter(c, [NoCall EXCEPT !.fn = "write", !.pc = "write", !.file = file, !.data = data])
  <2> DEFINE k == [NoCall EXCEPT !.fn = "write", !.pc = "write", !.file = file, !.data = data]
  <2>1. NoCall \in Locals /\ file \in Itab /\ data \in Seq(Data)
    BY NoCallProper, ClientAssumption DEF Itab
  <2>2. k \in Locals /\ k.fn = "write" /\ k.pc = "write" /\ k.file = file
    BY <2>1 DEF Locals, Functions, Places
  <2>3. Enter(c, k)
    BY <1>4
  <2> HIDE DEF k
  <2> QED BY <1>2, <1>4, <2>2, <2>3, FileCall
<1> QED BY <1>1, <1>3, <1>4

-----------------------------------------------------------------------------
(* What a client does with a response.                                      *)

\* What is sent at a pc.
LEMMA RequestIs ==
  ASSUME NEW c \in Clients
  PROVE  /\ call[c].pc = "lookup" => Request(c) = LookupRequest(call[c].path)
         /\ call[c].pc = "lookup2" => Request(c) = LookupRequest(call[c].to)
         /\ call[c].pc = "parent" => Request(c) = LookupRequest(DirectoryOf(call[c].fn, call[c].path))
         /\ call[c].pc = "parent2" => Request(c) = LookupRequest(DirectoryOf(call[c].fn, call[c].to))
         /\ call[c].pc \in {"read", "write"} => Request(c) = DataRequest(c, call[c])
         /\ call[c].pc = "create" => Request(c) = NameRequest("CREATE", call[c])
         /\ call[c].pc = "mkdir" => Request(c) = NameRequest("MKDIR", call[c])
         /\ call[c].pc = "remove" => Request(c) = NameRequest("REMOVE", call[c])
         /\ call[c].pc = "append" => Request(c) = PairRequest("APPEND", call[c])
         /\ call[c].pc = "control" => Request(c) = ControlRequest(call[c].fn)
         /\ call[c].pc = "readdir" => Request(c).type = "READDIR"
<1>1. call[c].pc = "lookup" => Request(c) = LookupRequest(call[c].path)
  BY Zenon DEF Request
<1>2. call[c].pc = "lookup2" => Request(c) = LookupRequest(call[c].to)
  BY Zenon DEF Request
<1>3. call[c].pc = "parent" => Request(c) = LookupRequest(DirectoryOf(call[c].fn, call[c].path))
  BY Zenon DEF Request
<1>4. call[c].pc = "parent2" => Request(c) = LookupRequest(DirectoryOf(call[c].fn, call[c].to))
  BY Zenon DEF Request
<1>5. call[c].pc = "read" => Request(c) = DataRequest(c, call[c])
  BY Zenon DEF Request
<1>6. call[c].pc = "write" => Request(c) = DataRequest(c, call[c])
  BY Zenon DEF Request
<1>7. call[c].pc = "create" => Request(c) = NameRequest("CREATE", call[c])
  BY Zenon DEF Request
<1>8. call[c].pc = "mkdir" => Request(c) = NameRequest("MKDIR", call[c])
  BY Zenon DEF Request
<1>9. call[c].pc = "remove" => Request(c) = NameRequest("REMOVE", call[c])
  BY Zenon DEF Request
<1>10. call[c].pc = "append" => Request(c) = PairRequest("APPEND", call[c])
  BY Zenon DEF Request
<1>11. call[c].pc = "control" => Request(c) = ControlRequest(call[c].fn)
  BY Zenon DEF Request
<1>12. call[c].pc = "readdir" =>
         Request(c) = [type |-> "READDIR", dir |-> call[c].dir, cmax |-> MaxEntries]
  BY Zenon DEF Request
<1> QED BY <1>1, <1>2, <1>3, <1>4, <1>5, <1>6, <1>7, <1>8, <1>9, <1>10, <1>11, <1>12

\* A path that is looked up is one of names.
LEMMA PathSent ==
  ASSUME ClientsProper, NEW c \in Clients, call[c].pc \in {"lookup", "lookup2", "parent", "parent2"}
  PROVE  Request(c).type = "LOOKUP" /\ Request(c).pname \in Seq(Names)
<1>1. call[c].path \in Seq(Names) /\ call[c].to \in Seq(Names)
  BY DEF ClientsProper, Locals
<1>2. \A p \in Seq(Names) : DirectoryOf(call[c].fn, p) \in Seq(Names)
  BY PathParts DEF DirectoryOf
<1>3. \E p \in Seq(Names) : Request(c) = LookupRequest(p)
  BY <1>1, <1>2, RequestIs
<1> QED BY <1>3 DEF LookupRequest

\* The answer to a lookup.
LEMMA LookupReply ==
  ASSUME ClientsProper, Sound(fs), NEW c \in Clients, NEW res, res = Serve(fs, Request(c)),
         call[c].pc \in {"lookup", "lookup2", "parent", "parent2"}
  PROVE  /\ res.fs = fs /\ res.file \in Itab /\ res.fsize \in Nat
         /\ ~ Failed(res) => res.file \in Inodes /\ res.fsize = SizeIn(fs, res.file)
<1>1. Request(c).type = "LOOKUP" /\ Request(c).pname \in Seq(Names)
  BY PathSent
<1>2. res = snfs_lookup(fs, Request(c).pname)
  BY <1>1, ServeIs
<1> QED BY <1>1, <1>2, LookupAnswers DEF SizeIn

\* A client that goes on stays in its function.
LEMMA SameCall ==
  ASSUME ClientsProper, NEW c \in Clients, NEW k \in Locals, k.fn = call[c].fn, k.path = call[c].path,
         k.to = call[c].to, k.file = call[c].file, k.pc # "control"
  PROVE  Proper(k, list[c], Open_files[c], Does[c])
  BY DEF ClientsProper, Proper

LEMMA GoOnKeeps ==
  ASSUME ClientsProper, NEW c \in Clients, NEW k, NEW res, GoOn(c, res, k),
         Proper(k, list[c], Open_files[c], Does[c])
  PROVE  Stepped(c)
<1>1. CASE Failed(res)
  BY <1>1, ReturnKeeps DEF GoOn
<1>2. CASE ~ Failed(res)
  BY <1>2, EnterKeeps DEF GoOn
<1> QED BY <1>1, <1>2

LEMMA FinishKeeps ==
  ASSUME ClientsProper, NEW c \in Clients, NEW res, Finish(c, res)
  PROVE  Stepped(c)
<1>1. (IF Failed(res) THEN Fail ELSE OK) \in {OK, Fail}
  OBVIOUS
<1> QED BY <1>1, ReturnKeeps DEF Finish

\* A call goes on at another pc, with other handles.
LEMMA WithHandles ==
  ASSUME ClientsProper, NEW c \in Clients, NEW pc \in Places \ {"control"}, NEW dir \in Itab, NEW fsize \in Nat
  PROVE  /\ Proper([call[c] EXCEPT !.pc = pc], list[c], Open_files[c], Does[c])
         /\ Proper([call[c] EXCEPT !.pc = pc, !.dir = dir], list[c], Open_files[c], Does[c])
         /\ Proper([call[c] EXCEPT !.pc = pc, !.dir2 = dir], list[c], Open_files[c], Does[c])
         /\ Proper([call[c] EXCEPT !.pc = pc, !.fsize = fsize, !.dir = dir], list[c], Open_files[c], Does[c])
<1>0. call[c] \in Locals
  BY DEF ClientsProper
<1>1. Proper([call[c] EXCEPT !.pc = pc], list[c], Open_files[c], Does[c])
  <2> DEFINE k == [call[c] EXCEPT !.pc = pc]
  <2>1. k \in Locals /\ k.fn = call[c].fn /\ k.path = call[c].path /\ k.to = call[c].to /\ k.file = call[c].file /\ k.pc = pc
    BY <1>0 DEF Locals
  <2> HIDE DEF k
  <2>2. Proper(k, list[c], Open_files[c], Does[c])
    BY <2>1, SameCall
  <2> QED BY <2>2 DEF k
<1>2. Proper([call[c] EXCEPT !.pc = pc, !.dir = dir], list[c], Open_files[c], Does[c])
  <2> DEFINE k == [call[c] EXCEPT !.pc = pc, !.dir = dir]
  <2>1. k \in Locals /\ k.fn = call[c].fn /\ k.path = call[c].path /\ k.to = call[c].to /\ k.file = call[c].file /\ k.pc = pc
    BY <1>0 DEF Locals
  <2> HIDE DEF k
  <2>2. Proper(k, list[c], Open_files[c], Does[c])
    BY <2>1, SameCall
  <2> QED BY <2>2 DEF k
<1>3. Proper([call[c] EXCEPT !.pc = pc, !.dir2 = dir], list[c], Open_files[c], Does[c])
  <2> DEFINE k == [call[c] EXCEPT !.pc = pc, !.dir2 = dir]
  <2>1. k \in Locals /\ k.fn = call[c].fn /\ k.path = call[c].path /\ k.to = call[c].to /\ k.file = call[c].file /\ k.pc = pc
    BY <1>0 DEF Locals
  <2> HIDE DEF k
  <2>2. Proper(k, list[c], Open_files[c], Does[c])
    BY <2>1, SameCall
  <2> QED BY <2>2 DEF k
<1>4. Proper([call[c] EXCEPT !.pc = pc, !.fsize = fsize, !.dir = dir], list[c], Open_files[c], Does[c])
  <2> DEFINE k == [call[c] EXCEPT !.pc = pc, !.fsize = fsize, !.dir = dir]
  <2>1. k \in Locals /\ k.fn = call[c].fn /\ k.path = call[c].path /\ k.to = call[c].to /\ k.file = call[c].file /\ k.pc = pc
    BY <1>0 DEF Locals
  <2> HIDE DEF k
  <2>2. Proper(k, list[c], Open_files[c], Does[c])
    BY <2>1, SameCall
  <2> QED BY <2>2 DEF k
<1> QED BY <1>1, <1>2, <1>3, <1>4

\* Sizes are natural numbers.
LEMMA SizeIsNat ==
  ASSUME NEW s, Sound(s), NEW file \in Inodes
  PROVE  SizeIn(s, file) \in Nat
<1>1. s.itab[file].size \in Nat
  BY StateType DEF Sound, Formed, Itab
<1> QED BY <1>1 DEF SizeIn

\* The end of my_open.
LEMMA OpenedKeeps ==
  ASSUME ClientsProper, Sound(fs'), NEW c \in Clients, NEW file \in Inodes, NEW fsize \in Nat,
         Opened(c, file, fsize), call[c].fn = "open",
         fsize <= SizeIn(fs', file) \/ (call[c].pc = "create" /\ fsize = call[c].fsize)
  PROVE  Stepped(c)
<1> DEFINE e == [fileId |-> file, size |-> fsize, read_offset |-> 0, write_offset |-> 0]
           l == Append(list[c], e)
           n == Open_files[c] + 1
<1>1. list[c] \in Seq(Descriptors) /\ Open_files[c] = Len(list[c]) /\ Open_files[c] < MaxOpen /\ Open_files[c] \in Nat
      /\ call[c].fsize \in Nat
  BY DEF ClientsProper, Proper, Locals
<1>2. e \in Descriptors /\ e.fileId = file /\ e.size = fsize
  BY DEF Descriptors
<1>3. /\ list' = [list EXCEPT ![c] = l] /\ Open_files' = [Open_files EXCEPT ![c] = n]
      /\ call' = [call EXCEPT ![c] = NoCall] /\ ret' = [ret EXCEPT ![c] = OK]
  BY DEF Opened, Return
<1> HIDE DEF e
<1>4. /\ l \in Seq(Descriptors) /\ Len(l) = Len(list[c]) + 1
      /\ \A j \in DOMAIN list[c] : l[j] = list[c][j]
      /\ l[Len(list[c]) + 1] = e
      /\ \A j \in DOMAIN l : j \in DOMAIN list[c] \/ j = Len(list[c]) + 1
  BY <1>1, <1>2
<1> HIDE DEF l, n
<1>5. Founded(l, list[c], fs', call[c])
  <2>1. ASSUME NEW j \in DOMAIN l, j \in DOMAIN list[c]
        PROVE  l[j].fileId = list[c][j].fileId /\ l[j].size = list[c][j].size
    BY <1>4, <2>1
  <2>2. ASSUME NEW j \in DOMAIN l, j = Len(list[c]) + 1
        PROVE  \/ l[j].size <= SizeIn(fs', l[j].fileId)
               \/ call[c].fn = "open" /\ call[c].pc = "create" /\ call[c].fsize > 0
    <3>1. l[j].fileId = file /\ l[j].size = fsize
      BY <1>2, <1>4, <2>2
    <3>2. SizeIn(fs', file) \in Nat
      BY SizeIsNat
    <3>3. CASE fsize <= SizeIn(fs', file)
      BY <3>1, <3>3
    <3>4. CASE call[c].pc = "create" /\ fsize = call[c].fsize
      <4>1. fsize = 0 \/ fsize > 0
        OBVIOUS
      <4>2. CASE fsize = 0
        BY <3>1, <3>2, <4>2
      <4>3. CASE fsize > 0
        BY <3>4, <4>3
      <4> QED BY <4>1, <4>2, <4>3
    <3> QED BY <3>3, <3>4
  <2> QED BY <1>4, <2>1, <2>2 DEF Founded
<1>6. n = Len(l) /\ n <= MaxOpen
  BY <1>1, <1>4, ClientAssumption DEF n
<1>7. Proper(NoCall, l, n, Does[c])
  BY NoCallProper
<1>8. StepOf(c, NoCall, l, n, OK)
  BY <1>3, <1>4, <1>5, <1>6, <1>7 DEF StepOf
<1> QED BY <1>8 DEF Stepped

\* What is sent for a file to be created or removed.
LEMMA NameSent ==
  ASSUME ClientsProper, NEW c \in Clients, NEW type, call[c].path # << >>
  PROVE  /\ NameRequest(type, call[c]).type = type
         /\ NameRequest(type, call[c]).dir \in Itab /\ NameRequest(type, call[c]).name \in Names
<1>1. call[c].path \in Seq(Names) /\ call[c].dir \in Itab
  BY DEF ClientsProper, Locals
<1>2. Last(call[c].path) \in Names
  BY <1>1, PathParts
<1> QED BY <1>1, <1>2 DEF NameRequest

LEMMA OpenKeeps ==
  ASSUME ClientsProper, Sound(fs), Sound(fs'), NEW c \in Clients, NEW res, res = Serve(fs, Request(c)), fs' = res.fs,
         OpenLookup(c, res) \/ OpenParent(c, res) \/ OpenCreate(c, res)
  PROVE  Stepped(c)
<1>1. CASE OpenLookup(c, res)
  <2>1. call[c].fn = "open" /\ call[c].pc = "lookup"
    BY <1>1 DEF OpenLookup, At
  <2>2. /\ res.fs = fs /\ res.fsize \in Nat
        /\ ~ Failed(res) => res.file \in Inodes /\ res.fsize = SizeIn(fs, res.file)
    BY <2>1, LookupReply
  <2>3. CASE Failed(res)
    <3>1. Enter(c, [call[c] EXCEPT !.pc = "parent"]) /\ UNCHANGED Files
      BY <1>1, <2>3 DEF OpenLookup, Begin
    <3>2. "parent" \in Places \ {"control"}
      BY DEF Places
    <3>3. 0 \in Itab /\ 0 \in Nat
      BY DEF Itab
    <3> QED BY <3>1, <3>2, <3>3, WithHandles, EnterKeeps
  <2>4. CASE ~ Failed(res)
    <3>1. Opened(c, res.file, res.fsize)
      BY <1>1, <2>4 DEF OpenLookup
    <3>2. fs' = fs /\ res.fsize <= SizeIn(fs', res.file)
      BY <2>2, <2>4
    <3> QED BY <2>1, <2>2, <2>4, <3>1, <3>2, OpenedKeeps
  <2> QED BY <2>3, <2>4
<1>2. CASE OpenParent(c, res)
  <2>1. call[c].fn = "open" /\ call[c].pc = "parent"
    BY <1>2 DEF OpenParent, At
  <2>2. res.file \in Itab /\ res.fsize \in Nat
    BY <2>1, LookupReply
  <2>3. CASE call[c].create
    <3> DEFINE dir == IF Len(call[c].path) = 1 THEN Root ELSE res.file
    <3>1. Enter(c, [call[c] EXCEPT !.pc = "create", !.fsize = res.fsize, !.dir = dir]) /\ UNCHANGED Files
      BY <1>2, <2>3 DEF OpenParent, Begin
    <3>2. dir \in Itab
      BY <2>2, Constants DEF Itab, Inodes, Root
    <3>3. "create" \in Places \ {"control"}
      BY DEF Places
    <3> HIDE DEF dir
    <3> QED BY <2>2, <3>1, <3>2, <3>3, WithHandles, EnterKeeps
  <2>4. CASE ~ call[c].create
    BY <1>2, <2>4, ReturnKeeps DEF OpenParent
  <2> QED BY <2>3, <2>4
<1>3. CASE OpenCreate(c, res)
  <2>1. call[c].fn = "open" /\ call[c].pc = "create"
    BY <1>3 DEF OpenCreate, At
  <2>2. CASE Failed(res)
    BY <1>3, <2>2, FinishKeeps DEF OpenCreate
  <2>3. CASE ~ Failed(res)
    <3>1. Opened(c, res.file, call[c].fsize)
      BY <1>3, <2>3 DEF OpenCreate
    <3>2. call[c].path # << >> /\ call[c].fsize \in Nat
      BY <2>1 DEF ClientsProper, Proper, Locals
    <3> DEFINE q == NameRequest("CREATE", call[c])
    <3>3. Request(c) = q
      BY <2>1, RequestIs
    <3>4. q.type = "CREATE" /\ q.dir \in Itab /\ q.name \in Names
      BY <3>2, NameSent
    <3> HIDE DEF q
    <3>5. res = snfs_create(fs, q.dir, q.name)
      BY <3>3, <3>4, ServeIs
    <3>6. res.file \in Inodes
      BY <2>3, <3>4, <3>5, CreateAnswers
    <3> QED BY <2>1, <3>1, <3>2, <3>6, OpenedKeeps
  <2> QED BY <2>2, <2>3
<1> QED BY <1>1, <1>2, <1>3

\* The file a client reads or writes is open.
LEMMA FileUsed ==
  ASSUME ClientsProper, NEW c \in Clients, call[c].fn \in {"read", "write"}
  PROVE  call[c].file \in Inodes /\ IsOpen(c, call[c].file)
<1>1. call[c].file \in Inodes /\ \E i \in DOMAIN list[c] : list[c][i].fileId = call[c].file
  BY DEF ClientsProper, Proper
<1> QED BY <1>1 DEF IsOpen, Slots

\* What is sent for a chunk.
LEMMA ReadSent ==
  ASSUME ClientsProper, NEW c \in Clients, NEW k, k = call[c], k.fn = "read"
  PROVE  /\ DataRequest(c, k).type = "READ" /\ DataRequest(c, k).fhandle = k.file
         /\ DataRequest(c, k).offset \in Nat /\ DataRequest(c, k).count \in Nat /\ DataRequest(c, k).count <= k.num
<1> DEFINE m == MinOf(MaxData, k.num)
           d == Fdesc(c, k.file)
<1>1. k.num \in Nat
  BY ClientAssumption DEF ClientsProper, Locals
<1>2. d.read_offset \in Nat
  BY FileUsed, FirstIs DEF Descriptors
<1>3. m \in Nat /\ m <= k.num
  BY <1>1, HandlersAssumption DEF MinOf
<1>4. DataRequest(c, k) = [type |-> "READ", fhandle |-> k.file, count |-> m, offset |-> d.read_offset]
  BY DEF DataRequest
<1> HIDE DEF m, d
<1> QED BY <1>2, <1>3, <1>4

LEMMA WriteSent ==
  ASSUME ClientsProper, NEW c \in Clients, NEW k, k = call[c], k.fn = "write"
  PROVE  /\ DataRequest(c, k).type = "WRITE" /\ DataRequest(c, k).fhandle = k.file
         /\ DataRequest(c, k).offset \in Nat /\ DataRequest(c, k).data \in Seq(Data)
<1> DEFINE m == MinOf(MaxData, Len(k.data))
           d == Fdesc(c, k.file)
           b == SubSeq(k.data, 1, m)
<1>1. k.data \in Seq(Data)
  BY DEF ClientsProper, Locals
<1>2. d.write_offset \in Nat
  BY FileUsed, FirstIs DEF Descriptors
<1>3. m \in Nat /\ m <= Len(k.data)
  BY <1>1, HandlersAssumption DEF MinOf
<1>4. DataRequest(c, k) = [type |-> "WRITE", fhandle |-> k.file, offset |-> d.write_offset, data |-> b]
  BY DEF DataRequest
<1> HIDE DEF m, d
<1>5. b \in Seq(Data)
  BY <1>1, <1>3
<1> HIDE DEF b
<1> QED BY <1>2, <1>4, <1>5

\* A step that puts another descriptor of the file for its first one.
LEMMA DescriptorKept ==
  ASSUME ClientsProper, NEW c \in Clients, call[c].fn \in {"read", "write"}, NEW e \in Descriptors,
         NEW i, i = First(c, call[c].file), e.fileId = call[c].file,
         e.size = list[c][i].size \/ e.size <= SizeIn(fs', e.fileId),
         NEW k, NEW r \in {OK, Fail},
         k = NoCall \/ (k \in Locals /\ k.fn = call[c].fn /\ k.file = call[c].file /\ k.pc = call[c].pc),
         call' = [call EXCEPT ![c] = k], ret' = [ret EXCEPT ![c] = r],
         list' = [list EXCEPT ![c] = [list[c] EXCEPT ![i] = e]], UNCHANGED Open_files
  PROVE  Stepped(c)
<1> DEFINE l == [list[c] EXCEPT ![i] = e]
           n == Open_files[c]
<1>1. /\ list[c] \in Seq(Descriptors) /\ i \in DOMAIN list[c] /\ list[c][i].fileId = call[c].file
      /\ call[c].file \in Inodes
  BY FileUsed, FirstIs
<1>2. l \in Seq(Descriptors) /\ Len(l) = Len(list[c])
  BY <1>1, ReplacedAt
<1>3. l[i] = e /\ DOMAIN l = DOMAIN list[c] /\ \A j \in DOMAIN list[c] \ {i} : l[j] = list[c][j]
  BY <1>1
<1>4. list' = [list EXCEPT ![c] = l] /\ Open_files' = [Open_files EXCEPT ![c] = n]
  BY DEF ClientsProper
<1> HIDE DEF l
<1>5. n = Len(l) /\ n <= MaxOpen
  BY <1>2 DEF ClientsProper
<1>6. Founded(l, list[c], fs', call[c])
  <2>1. ASSUME NEW j \in DOMAIN l
        PROVE  \/ \E m \in DOMAIN list[c] : l[j].fileId = list[c][m].fileId /\ l[j].size = list[c][m].size
               \/ l[j].size <= SizeIn(fs', l[j].fileId)
    <3>1. CASE j # i
      BY <1>3, <3>1
    <3>2. CASE j = i
      BY <1>1, <1>3, <3>2
    <3> QED BY <3>1, <3>2
  <2> QED BY <2>1 DEF Founded
<1>7. Proper(k, l, n, Does[c])
  <2>1. CASE k = NoCall
    BY <2>1, NoCallProper
  <2>2. CASE k \in Locals /\ k.fn = call[c].fn /\ k.file = call[c].file /\ k.pc = call[c].pc
    <3>1. \E j \in DOMAIN l : l[j].fileId = call[c].file
      BY <1>1, <1>3
    <3>2. call[c].fn \in Does[c] \cup {"none"} /\ (call[c].pc = "control" => call[c].fn \in {"defrag", "diskusage", "dumpcache"})
      BY DEF ClientsProper, Proper
    <3> QED BY <1>1, <2>2, <3>1, <3>2 DEF Proper
  <2> QED BY <2>1, <2>2
<1>8. StepOf(c, k, l, n, r)
  BY <1>2, <1>4, <1>5, <1>6, <1>7 DEF StepOf
<1> QED BY <1>8 DEF Stepped

LEMMA ReadKeeps ==
  ASSUME ClientsProper, Sound(fs), NEW c \in Clients, NEW res, res = Serve(fs, Request(c)), ReadChunk(c, res)
  PROVE  Stepped(c)
<1> DEFINE k == call[c]
           q == DataRequest(c, k)
           i == First(c, k.file)
           d == list[c][i]
           e == [d EXCEPT !.read_offset = @ + res.nread]
<1>1. k.fn = "read" /\ k.pc = "read" /\ k \in Locals /\ k.num \in 0 .. Word - 1
  BY DEF ReadChunk, At, ClientsProper, Locals
<1>2. k.file \in Inodes /\ IsOpen(c, k.file)
  BY <1>1, FileUsed
<1>3. d \in Descriptors /\ d.fileId = k.file /\ i \in DOMAIN list[c]
  BY <1>2, FirstIs
<1>4. res.nread \in 0 .. k.num
  <2>1. Request(c) = q
    BY <1>1, RequestIs
  <2>2. q.type = "READ" /\ q.fhandle = k.file /\ q.offset \in Nat /\ q.count \in Nat /\ q.count <= k.num
    BY <1>1, ReadSent
  <2> HIDE DEF q, k
  <2>3. res = snfs_read(fs, q.fhandle, q.offset, q.count)
    BY <2>1, <2>2, ServeIs
  <2>4. res.nread \in 0 .. q.count
    BY <1>2, <2>2, <2>3, ReadAnswers
  <2> QED BY <1>1, <2>2, <2>4
<1>5. list' = [list EXCEPT ![c] = [list[c] EXCEPT ![i] = e]] /\ UNCHANGED Open_files
  BY DEF ReadChunk
<1> HIDE DEF i, d
<1>6. e \in Descriptors /\ e.fileId = k.file /\ e.size = d.size
  BY <1>3, <1>4 DEF Descriptors
<1> HIDE DEF e
<1> DEFINE m == [k EXCEPT !.num = @ - res.nread]
<1>7. CASE Return(c, Fail) \/ Return(c, OK)
  BY <1>1, <1>5, <1>6, <1>7, DescriptorKept DEF Return, i, d
<1>8. CASE Enter(c, m)
  <2>1. k.num - res.nread \in 0 .. Word - 1
    BY <1>1, <1>4, ClientAssumption
  <2>2. m \in Locals /\ m.fn = k.fn /\ m.file = k.file /\ m.pc = k.pc
    BY <1>1, <2>1 DEF Locals
  <2>3. ret' = [ret EXCEPT ![c] = ret[c]] /\ ret[c] \in {OK, Fail} /\ call' = [call EXCEPT ![c] = m]
    BY <1>8 DEF Enter, ClientsProper
  <2> HIDE DEF m
  <2> QED BY <1>1, <1>5, <1>6, <2>2, <2>3, DescriptorKept DEF i, d
<1>9. Return(c, Fail) \/ Return(c, OK) \/ Enter(c, m)
  BY DEF ReadChunk
<1> QED BY <1>7, <1>8, <1>9

LEMMA WriteKeepsClients ==
  ASSUME ClientsProper, Sound(fs'), NEW c \in Clients, NEW res, res = Serve(fs, Request(c)), fs' = res.fs,
         WriteChunk(c, res)
  PROVE  Stepped(c)
<1> DEFINE k == call[c]
           q == DataRequest(c, k)
           i == First(c, k.file)
           d == list[c][i]
           w == MinOf(Len(k.data), MaxData)
           e == [d EXCEPT !.size = res.fsize, !.write_offset = @ + w]
<1>1. k.fn = "write" /\ k.pc = "write" /\ k \in Locals /\ k.data \in Seq(Data)
  BY DEF WriteChunk, At, ClientsProper, Locals
<1>2. k.file \in Inodes /\ IsOpen(c, k.file)
  BY <1>1, FileUsed
<1>3. d \in Descriptors /\ d.fileId = k.file /\ i \in DOMAIN list[c] /\ list[c] \in Seq(Descriptors)
  BY <1>2, FirstIs
<1>4. w \in Nat /\ w <= Len(k.data) /\ Len(k.data) \in Nat
  BY <1>1, HandlersAssumption DEF MinOf
<1>5. CASE Failed(res)
  BY <1>5, FinishKeeps DEF WriteChunk
<1>6. CASE ~ Failed(res)
  <2>1. res.fsize = SizeIn(fs', k.file) /\ res.fsize \in Nat
    <3>1. Request(c) = q
      BY <1>1, RequestIs
    <3>2. q.type = "WRITE" /\ q.fhandle = k.file
      BY <1>1, WriteSent
    <3> HIDE DEF q, k
    <3>3. res = snfs_write(fs, k.file, q.offset, q.data)
      BY <3>1, <3>2, ServeIs
    <3>4. k.file \in res.fs.iused /\ res.fsize = res.fs.itab[k.file].size /\ res.fsize \in Nat
      BY <1>2, <1>6, <3>3, WriteAnswers
    <3> QED BY <3>4 DEF SizeIn
  <2>2. list' = [list EXCEPT ![c] = [list[c] EXCEPT ![i] = e]] /\ UNCHANGED Open_files
    <3> DEFINE d1 == [d EXCEPT !.size = res.fsize]
               l1 == [list[c] EXCEPT ![i] = d1]
               L1 == [list EXCEPT ![c] = l1]
    <3>1. /\ list' = [L1 EXCEPT ![c] = [L1[c] EXCEPT ![i] = [L1[c][i] EXCEPT !.write_offset = @ + w]]]
          /\ UNCHANGED Open_files
      BY <1>6 DEF WriteChunk, SizeAfter
    <3>2. list \in [Clients -> Seq(Descriptors)]
      BY DEF ClientsProper
    <3> HIDE DEF i, d, w
    <3>3. [d1 EXCEPT !.write_offset = @ + w] = e
      BY <1>3 DEF Descriptors
    <3> HIDE DEF d1, e
    <3>4. L1[c] = l1 /\ l1[i] = d1
      BY <1>3, <3>2
    <3>5. list' = [L1 EXCEPT ![c] = [l1 EXCEPT ![i] = e]]
      BY <3>1, <3>3, <3>4
    <3>6. [l1 EXCEPT ![i] = e] = [list[c] EXCEPT ![i] = e]
      BY <1>3
    <3> DEFINE l2 == [list[c] EXCEPT ![i] = e]
    <3> HIDE DEF l1, l2
    <3>7. [L1 EXCEPT ![c] = l2] = [list EXCEPT ![c] = l2]
      BY <3>2
    <3> HIDE DEF L1
    <3> QED BY <3>1, <3>5, <3>6, <3>7 DEF l2
  <2> HIDE DEF i, d, w
  <2>3. e \in Descriptors /\ e.fileId = k.file /\ e.size = res.fsize
    <3> DEFINE v == d.write_offset + w
    <3> HIDE DEF k
    <3>1. v \in Nat
      BY <1>3, <1>4 DEF Descriptors
    <3>2. e = [d EXCEPT !.size = res.fsize, !.write_offset = v]
      OBVIOUS
    <3> HIDE DEF v, e
    <3>3. /\ d = [fileId |-> d.fileId, size |-> d.size, read_offset |-> d.read_offset, write_offset |-> d.write_offset]
          /\ d.fileId \in Inodes /\ d.read_offset \in Nat
      BY <1>3 DEF Descriptors
    <3>4. e = [fileId |-> d.fileId, size |-> res.fsize, read_offset |-> d.read_offset, write_offset |-> v]
      BY <3>2, <3>3
    <3> QED BY <1>3, <2>1, <3>1, <3>3, <3>4 DEF Descriptors
  <2> HIDE DEF e
  <2>4. e.size <= SizeIn(fs', e.fileId)
    BY <2>1, <2>3
  <2> DEFINE m == [k EXCEPT !.data = SubSeq(@, w + 1, Len(@))]
  <2>5. CASE Return(c, OK)
    BY <1>1, <2>2, <2>3, <2>4, <2>5, DescriptorKept DEF Return, i
  <2>6. CASE Enter(c, m)
    <3>1. SubSeq(k.data, w + 1, Len(k.data)) \in Seq(Data)
      BY <1>1, <1>4
    <3>2. m \in Locals /\ m.fn = k.fn /\ m.file = k.file /\ m.pc = k.pc
      BY <1>1, <3>1 DEF Locals
    <3>3. ret' = [ret EXCEPT ![c] = ret[c]] /\ ret[c] \in {OK, Fail} /\ call' = [call EXCEPT ![c] = m]
      BY <2>6 DEF Enter, ClientsProper
    <3> HIDE DEF m
    <3> QED BY <1>1, <2>2, <2>3, <2>4, <3>2, <3>3, DescriptorKept DEF i
  <2>7. Return(c, OK) \/ Enter(c, m)
    BY <1>6 DEF WriteChunk, w
  <2> QED BY <2>5, <2>6, <2>7
<1> QED BY <1>5, <1>6

\* Directories.
LEMMA DirectoriesKeep ==
  ASSUME ClientsProper, Sound(fs), NEW c \in Clients, NEW res, res = Serve(fs, Request(c)),
         \/ ListLookup(c, res) \/ ListRead(c, res)
         \/ MkdirLookup(c, res) \/ MkdirParent(c, res) \/ MkdirMake(c, res)
         \/ RemoveLookup(c, res) \/ RemoveParent(c, res) \/ RemoveIt(c, res)
  PROVE  Stepped(c)
<1>0. /\ "readdir" \in Places \ {"control"} /\ "mkdir" \in Places \ {"control"}
      /\ "parent" \in Places \ {"control"} /\ "remove" \in Places \ {"control"}
      /\ Root \in Itab /\ 0 \in Itab /\ 0 \in Nat
  BY Constants DEF Places, Itab, Inodes, Root
<1>1. call[c].pc \in {"lookup", "parent"} => res.file \in Itab
  BY LookupReply
<1>2. CASE ListLookup(c, res)
  <2>1. res.file \in Itab /\ GoOn(c, res, [call[c] EXCEPT !.pc = "readdir", !.dir = res.file])
    BY <1>1, <1>2 DEF ListLookup, At
  <2> QED BY <1>0, <2>1, WithHandles, GoOnKeeps
<1>3. CASE ListRead(c, res) \/ MkdirMake(c, res) \/ RemoveIt(c, res)
  BY <1>3, FinishKeeps DEF ListRead, MkdirMake, RemoveIt
<1>4. CASE MkdirLookup(c, res)
  <2>1. UNCHANGED Files
    BY <1>4 DEF MkdirLookup
  <2>2. CASE Return(c, Fail)
    BY <2>1, <2>2, ReturnKeeps
  <2>3. CASE Enter(c, [call[c] EXCEPT !.pc = "mkdir", !.dir = Root])
    BY <1>0, <2>1, <2>3, WithHandles, EnterKeeps
  <2>4. CASE Enter(c, [call[c] EXCEPT !.pc = "parent"])
    BY <1>0, <2>1, <2>4, WithHandles, EnterKeeps
  <2> QED BY <1>4, <2>2, <2>3, <2>4 DEF MkdirLookup
<1>5. CASE MkdirParent(c, res)
  <2>1. res.file \in Itab /\ GoOn(c, res, [call[c] EXCEPT !.pc = "mkdir", !.dir = res.file])
    BY <1>1, <1>5 DEF MkdirParent, At
  <2> QED BY <1>0, <2>1, WithHandles, GoOnKeeps
<1>6. CASE RemoveLookup(c, res)
  <2>1. GoOn(c, res, [call[c] EXCEPT !.pc = "parent"])
    BY <1>6 DEF RemoveLookup
  <2> QED BY <1>0, <2>1, WithHandles, GoOnKeeps
<1>7. CASE RemoveParent(c, res)
  <2> DEFINE h == DirHandle(call[c].path, res)
  <2>1. h \in Itab
    BY <1>0, <1>1, <1>7 DEF RemoveParent, At, DirHandle
  <2>2. Enter(c, [call[c] EXCEPT !.pc = "remove", !.dir = h]) /\ UNCHANGED Files
    BY <1>7 DEF RemoveParent, Begin
  <2> HIDE DEF h
  <2> QED BY <1>0, <2>1, <2>2, WithHandles, EnterKeeps
<1> QED BY <1>2, <1>3, <1>4, <1>5, <1>6, <1>7

\* Two paths, and the calls without arguments.
LEMMA PairsKeep ==
  ASSUME ClientsProper, Sound(fs), NEW c \in Clients, NEW res, res = Serve(fs, Request(c)),
         \/ PairLookup(c, res) \/ AppendLookup2(c, res) \/ PairParent(c, res)
         \/ PairParent2(c, res) \/ PairIt(c, res) \/ ControlDone(c, res)
  PROVE  Stepped(c)
<1>0. /\ "lookup2" \in Places \ {"control"} /\ "parent" \in Places \ {"control"}
      /\ "parent2" \in Places \ {"control"} /\ Functions \subseteq Places \ {"control"}
      /\ Root \in Itab /\ 0 \in Itab /\ 0 \in Nat
  BY Constants DEF Functions, Places, Itab, Inodes, Root
<1>1. call[c].pc \in {"parent", "parent2"} => res.file \in Itab
  BY LookupReply
<1>2. CASE PairLookup(c, res)
  <2> DEFINE pc == IF call[c].fn = "append" THEN "lookup2" ELSE "parent"
  <2>1. pc \in Places \ {"control"}
    BY <1>0
  <2>2. GoOn(c, res, [call[c] EXCEPT !.pc = pc])
    BY <1>2 DEF PairLookup
  <2> HIDE DEF pc
  <2> QED BY <1>0, <2>1, <2>2, WithHandles, GoOnKeeps
<1>3. CASE AppendLookup2(c, res)
  <2>1. GoOn(c, res, [call[c] EXCEPT !.pc = "parent"])
    BY <1>3 DEF AppendLookup2
  <2> QED BY <1>0, <2>1, WithHandles, GoOnKeeps
<1>4. CASE PairParent(c, res)
  <2> DEFINE h == DirHandle(call[c].path, res)
  <2>1. h \in Itab
    BY <1>0, <1>1, <1>4 DEF PairParent, DirHandle
  <2>2. Enter(c, [call[c] EXCEPT !.pc = "parent2", !.dir = h]) /\ UNCHANGED Files
    BY <1>4 DEF PairParent, Begin
  <2> HIDE DEF h
  <2> QED BY <1>0, <2>1, <2>2, WithHandles, EnterKeeps
<1>5. CASE PairParent2(c, res)
  <2> DEFINE h == DirHandle(call[c].to, res)
             fn == call[c].fn
  <2>1. h \in Itab /\ fn \in Places \ {"control"}
    BY <1>0, <1>1, <1>5 DEF PairParent2, DirHandle, ClientsProper, Locals
  <2>2. Enter(c, [call[c] EXCEPT !.pc = fn, !.dir2 = h]) /\ UNCHANGED Files
    BY <1>5 DEF PairParent2, Begin
  <2> HIDE DEF h, fn
  <2> QED BY <1>0, <2>1, <2>2, WithHandles, EnterKeeps
<1>6. CASE PairIt(c, res) \/ ControlDone(c, res)
  BY <1>6, FinishKeeps DEF PairIt, ControlDone
<1> QED BY <1>2, <1>3, <1>4, <1>5, <1>6

\* A call goes on.
LEMMA ContinueKeeps ==
  ASSUME ClientsProper, Sound(fs), Sound(fs'), NEW c \in Clients, Continue(c)
  PROVE  Stepped(c)
<1>1. PICK res : res = Serve(fs, Request(c)) /\ fs' = res.fs /\
        \/ OpenLookup(c, res) \/ OpenParent(c, res) \/ OpenCreate(c, res)
        \/ ReadChunk(c, res) \/ WriteChunk(c, res)
        \/ ListLookup(c, res) \/ ListRead(c, res)
        \/ MkdirLookup(c, res) \/ MkdirParent(c, res) \/ MkdirMake(c, res)
        \/ RemoveLookup(c, res) \/ RemoveParent(c, res) \/ RemoveIt(c, res)
        \/ PairLookup(c, res) \/ AppendLookup2(c, res) \/ PairParent(c, res)
        \/ PairParent2(c, res) \/ PairIt(c, res) \/ ControlDone(c, res)
  BY DEF Continue
<1>2. CASE OpenLookup(c, res) \/ OpenParent(c, res) \/ OpenCreate(c, res)
  BY <1>1, <1>2, OpenKeeps
<1>3. CASE ReadChunk(c, res)
  BY <1>1, <1>3, ReadKeeps
<1>4. CASE WriteChunk(c, res)
  BY <1>1, <1>4, WriteKeepsClients
<1>5. CASE \/ ListLookup(c, res) \/ ListRead(c, res)
           \/ MkdirLookup(c, res) \/ MkdirParent(c, res) \/ MkdirMake(c, res)
           \/ RemoveLookup(c, res) \/ RemoveParent(c, res) \/ RemoveIt(c, res)
  BY <1>1, <1>5, DirectoriesKeep
<1>6. CASE \/ PairLookup(c, res) \/ AppendLookup2(c, res) \/ PairParent(c, res)
           \/ PairParent2(c, res) \/ PairIt(c, res) \/ ControlDone(c, res)
  BY <1>1, <1>6, PairsKeep
<1> QED BY <1>1, <1>2, <1>3, <1>4, <1>5, <1>6

\* Every step of the clients.
LEMMA StepsAre ==
  ASSUME ClientsProper, Sound(fs), Sound(fs'), Next
  PROVE  \E c \in Clients : Stepped(c)
<1>1. PICK c \in Clients :
        \/ my_open(c) \/ my_close(c) \/ my_read(c) \/ my_write(c) \/ my_listdir(c)
        \/ my_mkdir(c) \/ my_remove(c) \/ my_copy(c) \/ my_append(c)
        \/ my_control(c) \/ Continue(c)
  BY DEF Next
<1>2. CASE my_open(c) \/ my_close(c) \/ my_read(c) \/ my_write(c)
  BY <1>2, OpenStarts, CloseKeeps, ReadStarts, WriteStarts
<1>3. CASE my_listdir(c) \/ my_mkdir(c) \/ my_remove(c)
  BY <1>3, ListdirStarts, MkdirStarts, RemoveStarts
<1>4. CASE my_copy(c) \/ my_append(c) \/ my_control(c)
  BY <1>4, PairStarts, ControlStarts
<1>5. CASE Continue(c)
  BY <1>5, ContinueKeeps
<1> QED BY <1>1, <1>2, <1>3, <1>4, <1>5

\* The clients start proper, and stay so.
LEMMA ClientsStart ==
  ASSUME Init PROVE ClientsProper
<1>1. NoCall \in Locals /\ \A c \in Clients : Proper(NoCall, << >>, 0, Does[c])
  <2>1. << >> \in Seq(Names) /\ << >> \in Seq(Data) /\ 0 \in Itab /\ 0 \in 0 .. Word - 1
    BY ClientAssumption DEF Itab
  <2>2. NoCall \in Locals
    BY <2>1 DEF NoCall, Locals, Places, Functions
  <2> QED BY <2>2 DEF NoCall, Proper
<1>2. /\ list = [c \in Clients |-> << >>] /\ Open_files = [c \in Clients |-> 0]
      /\ call = [c \in Clients |-> NoCall] /\ ret = [c \in Clients |-> OK]
  BY DEF Init
<1> HIDE DEF NoCall
<1>3. << >> \in Seq(Descriptors) /\ Len(<< >>) = 0 /\ 0 <= MaxOpen /\ 0 \in Nat
  BY ClientAssumption
<1>4. /\ list \in [Clients -> Seq(Descriptors)] /\ Open_files \in [Clients -> Nat]
      /\ call \in [Clients -> Locals] /\ ret \in [Clients -> {OK, Fail}]
  BY <1>1, <1>2, <1>3
<1> QED BY <1>1, <1>2, <1>3, <1>4 DEF ClientsProper

LEMMA ClientsKept ==
  ASSUME ClientsProper, Sound(fs), Sound(fs'), [Next]_vars
  PROVE  ClientsProper'
<1>1. CASE Next
  <2>1. PICK c \in Clients : Stepped(c)
    BY <1>1, StepsAre
  <2> QED BY <2>1, SteppedKeeps
<1>2. CASE UNCHANGED vars
  BY <1>2 DEF vars, ClientsProper, Proper
<1> QED BY <1>1, <1>2

-----------------------------------------------------------------------------
(* The server under its clients.                                            *)

\* What is sent for two files.
LEMMA PairSent ==
  ASSUME ClientsProper, NEW c \in Clients, NEW type, call[c].fn \in {"copy", "append"}, NEW q,
         q = PairRequest(type, call[c])
  PROVE  q.type = type /\ q.dir1 \in Itab /\ q.dir2 \in Itab /\ q.name1 \in Names /\ q.name2 \in Names
<1>1. /\ call[c].path \in Seq(Names) /\ call[c].path # << >>
      /\ call[c].to \in Seq(Names) /\ call[c].to # << >>
      /\ call[c].dir \in Itab /\ call[c].dir2 \in Itab
  BY DEF ClientsProper, Proper, Locals
<1>2. Last(call[c].path) \in Names /\ Last(call[c].to) \in Names
  BY <1>1, PathParts
<1> QED BY <1>1, <1>2 DEF PairRequest

\* What is sent for the disk usage or the cache.
LEMMA ControlSent ==
  ASSUME NEW fn \in {"diskusage", "dumpcache"}
  PROVE  ControlRequest(fn).type \in {"DISKUSAGE", "DUMPCACHE"}
<1> DEFINE t == CASE fn = "defrag" -> "DEFRAG" [] fn = "diskusage" -> "DISKUSAGE"
                  [] fn = "dumpcache" -> "DUMPCACHE"
<1>1. fn = "diskusage" => t = "DISKUSAGE"
  BY Zenon
<1>2. fn = "dumpcache" => t = "DUMPCACHE"
  BY Zenon
<1> HIDE DEF t
<1>3. ControlRequest(fn) = [type |-> t]
  BY DEF ControlRequest, t
<1> QED BY <1>1, <1>2, <1>3

\* The clients ask for what keeps the server sound.
LEMMA AskedIs ==
  ASSUME ClientsProper, Limits, NEW c \in Clients, Continue(c)
  PROVE  Asked(Request(c))
<1> DEFINE k == call[c]
           q == Request(c)
<1>0. k.fn \in Does[c] \cup {"none"} /\ k \in Locals
  BY DEF ClientsProper, Proper
<1>1. CASE k.pc \in {"lookup", "lookup2", "parent", "parent2"}
  BY <1>1, PathSent DEF Asked
<1>2. CASE k.fn = "read" /\ k.pc = "read"
  <2>1. q = DataRequest(c, k)
    BY <1>2, RequestIs
  <2>2. k.file \in Inodes
    BY <1>2, FileUsed
  <2> HIDE DEF q, k
  <2>3. q.type = "READ" /\ q.fhandle \in Inodes /\ q.offset \in Nat /\ q.count \in Nat
    BY <1>2, <2>1, <2>2, ReadSent DEF k
  <2> QED BY <2>3 DEF Asked, q
<1>3. CASE k.fn = "write" /\ k.pc = "write"
  <2>1. q = DataRequest(c, k)
    BY <1>3, RequestIs
  <2>2. k.file \in Inodes
    BY <1>3, FileUsed
  <2> HIDE DEF q, k
  <2>3. q.type = "WRITE" /\ q.fhandle \in Inodes /\ q.offset \in Nat /\ q.data \in Seq(Data)
    BY <1>3, <2>1, <2>2, WriteSent DEF k
  <2> QED BY <2>3 DEF Asked, q
<1>4. CASE k.fn = "open" /\ k.pc = "create"
  <2>1. q = NameRequest("CREATE", k) /\ k.path # << >>
    BY <1>4, RequestIs DEF ClientsProper, Proper
  <2>2. q.type = "CREATE" /\ q.dir \in Itab /\ q.name \in Names
    BY <2>1, NameSent
  <2> QED BY <2>2 DEF Asked
<1>5. CASE k.fn = "mkdir" /\ k.pc = "mkdir"
  <2>1. q = NameRequest("MKDIR", k) /\ k.path # << >>
    BY <1>5, RequestIs DEF ClientsProper, Proper
  <2>2. q.type = "MKDIR" /\ q.dir \in Itab /\ q.name \in Names
    BY <2>1, NameSent
  <2> QED BY <2>2 DEF Asked
<1>6. CASE k.fn = "remove" /\ k.pc = "remove"
  <2>1. q = NameRequest("REMOVE", k) /\ k.path # << >>
    BY <1>6, RequestIs DEF ClientsProper, Proper
  <2>2. q.type = "REMOVE" /\ q.dir \in Itab /\ q.name \in Names
    BY <2>1, NameSent
  <2>3. Removing
    BY <1>0, <1>6 DEF Removing
  <2> QED BY <2>2, <2>3 DEF Asked
<1>7. CASE k.fn = "append" /\ k.pc = "append"
  <2>1. q = PairRequest("APPEND", k)
    BY <1>7, RequestIs
  <2> HIDE DEF q
  <2>2. q.type = "APPEND" /\ q.dir1 \in Itab /\ q.dir2 \in Itab /\ q.name1 \in Names /\ q.name2 \in Names
    BY <1>7, <2>1, PairSent
  <2> QED BY <2>2 DEF Asked, q
<1>8. CASE k.pc = "readdir"
  BY <1>8, RequestIs DEF Asked
<1>9. CASE k.pc = "control"
  <2>1. k.fn \in {"diskusage", "dumpcache"}
    BY <1>0, <1>9 DEF ClientsProper, Proper, Limits
  <2>2. q = ControlRequest(k.fn)
    BY <1>9, RequestIs
  <2> HIDE DEF q, k
  <2>3. q.type \in {"DISKUSAGE", "DUMPCACHE"}
    BY <2>1, <2>2, ControlSent
  <2> QED BY <2>3 DEF Asked, q
<1>10. k.fn # "copy"
  BY <1>0 DEF Limits
<1>11. PICK res : \/ OpenLookup(c, res) \/ OpenParent(c, res) \/ OpenCreate(c, res)
                  \/ ReadChunk(c, res) \/ WriteChunk(c, res)
                  \/ ListLookup(c, res) \/ ListRead(c, res)
                  \/ MkdirLookup(c, res) \/ MkdirParent(c, res) \/ MkdirMake(c, res)
                  \/ RemoveLookup(c, res) \/ RemoveParent(c, res) \/ RemoveIt(c, res)
                  \/ PairLookup(c, res) \/ AppendLookup2(c, res) \/ PairParent(c, res)
                  \/ PairParent2(c, res) \/ PairIt(c, res) \/ ControlDone(c, res)
  BY DEF Continue
<1> HIDE DEF q
<1>12. CASE OpenLookup(c, res) \/ OpenParent(c, res) \/ OpenCreate(c, res)
  BY <1>1, <1>4, <1>12 DEF OpenLookup, OpenParent, OpenCreate, At, q
<1>13. CASE ReadChunk(c, res) \/ WriteChunk(c, res)
  BY <1>2, <1>3, <1>13 DEF ReadChunk, WriteChunk, At, q
<1>14. CASE ListLookup(c, res) \/ ListRead(c, res)
  BY <1>1, <1>8, <1>14 DEF ListLookup, ListRead, At, q
<1>15. CASE MkdirLookup(c, res) \/ MkdirParent(c, res) \/ MkdirMake(c, res)
  BY <1>1, <1>5, <1>15 DEF MkdirLookup, MkdirParent, MkdirMake, At, q
<1>16. CASE RemoveLookup(c, res) \/ RemoveParent(c, res) \/ RemoveIt(c, res)
  BY <1>1, <1>6, <1>16 DEF RemoveLookup, RemoveParent, RemoveIt, At, q
<1>17. CASE PairLookup(c, res) \/ AppendLookup2(c, res) \/ PairParent(c, res) \/ PairParent2(c, res)
  BY <1>1, <1>17 DEF PairLookup, AppendLookup2, PairParent, PairParent2, At, q
<1>18. CASE PairIt(c, res) \/ ControlDone(c, res)
  BY <1>7, <1>9, <1>10, <1>18 DEF PairIt, ControlDone, At, q
<1> QED BY <1>11, <1>12, <1>13, <1>14, <1>15, <1>16, <1>17, <1>18

\* A client that calls a function sends nothing yet.
LEMMA StartsAlone ==
  ASSUME NEW c \in Clients,
         \/ my_open(c) \/ my_close(c) \/ my_read(c) \/ my_write(c) \/ my_listdir(c)
         \/ my_mkdir(c) \/ my_remove(c) \/ my_copy(c) \/ my_append(c) \/ my_control(c)
  PROVE  fs' = fs
<1>1. \E fn : Calls(c, fn)
  BY DEF my_open, my_close, my_read, my_write, my_listdir, my_mkdir, my_remove, my_copy, my_append, my_control
<1> QED BY <1>1 DEF Calls

LEMMA ServedKept ==
  ASSUME ClientsProper, Limits, Served(fs), [Next]_vars
  PROVE  Served(fs')
<1>1. CASE UNCHANGED vars
  BY <1>1 DEF vars
<1>2. CASE Next
  <2>1. fs' = fs \/ \E c \in Clients : Continue(c)
    BY <1>2, StartsAlone DEF Next
  <2>2. ASSUME NEW c \in Clients, Continue(c) PROVE Served(fs')
    <3>1. Asked(Request(c)) /\ fs' = Serve(fs, Request(c)).fs
      BY <2>2, AskedIs DEF Continue
    <3> QED BY <3>1, RequestServed
  <2> QED BY <2>1, <2>2
<1> QED BY <1>1, <1>2

\* The inductive invariant, of the server and of its clients.
Invariant == Served(fs) /\ ClientsProper

LEMMA InvariantHolds == Limits => (Spec => []Invariant)
<1> SUFFICES ASSUME Limits PROVE Spec => []Invariant
  OBVIOUS
<1>1. Init => Invariant
  <2> SUFFICES ASSUME Init PROVE Invariant
    OBVIOUS
  <2>1. Served(fs)
    BY FormatIs DEF Init, Served
  <2> QED BY <2>1, ClientsStart DEF Invariant
<1>2. Invariant /\ [Next]_vars => Invariant'
  <2> SUFFICES ASSUME Invariant, [Next]_vars PROVE Invariant'
    OBVIOUS
  <2>1. Served(fs')
    BY ServedKept DEF Invariant
  <2>2. Sound(fs) /\ Sound(fs')
    BY <2>1 DEF Invariant, Served
  <2>3. ClientsProper'
    BY <2>2, ClientsKept DEF Invariant
  <2> QED BY <2>1, <2>3 DEF Invariant, Served
<1> QED BY <1>1, <1>2, PTL DEF Spec

\* As long as the server is sound, whatever keeps it so, the clients are proper.
LEMMA ProperWhileSound == Spec /\ []Sound(fs) => []ClientsProper
<1>1. Init => ClientsProper
  BY ClientsStart
<1>2. ClientsProper /\ Sound(fs) /\ Sound(fs)' /\ [Next]_vars => ClientsProper'
  <2> SUFFICES ASSUME ClientsProper, Sound(fs), Sound(fs)', [Next]_vars PROVE ClientsProper'
    OBVIOUS
  <2>1. Sound(fs')
    BY DEF Sound, Formed
  <2> QED BY <2>1, ClientsKept
<1> QED BY <1>1, <1>2, PTL DEF Spec

\* The clients that are proper have the types of TypeOK.
LEMMA ProperTypes ==
  ASSUME ClientsProper PROVE TypeOK
<1> SUFFICES ASSUME NEW c \in Clients
             PROVE  /\ list[c] \in Seq(Descriptors)
                    /\ Open_files[c] = Len(list[c]) /\ Open_files[c] <= MaxOpen
                    /\ call[c].fn \in Does[c] \cup {"none"}
                    /\ call[c].dir \in Itab /\ call[c].dir2 \in Itab /\ call[c].num \in 0 .. Word - 1
                    /\ ret[c] \in {OK, Fail}
  BY DEF TypeOK, Descriptors
<1> QED BY DEF ClientsProper, Proper, Locals

\* The sizes of descriptors.
LEMMA DescriptorSize ==
  ASSUME NEW l \in Seq(Descriptors), NEW i \in DOMAIN l
  PROVE  l[i].size \in Nat
<1>1. l[i] \in Descriptors
  OBVIOUS
<1> QED BY <1>1 DEF Descriptors

\* A client comes to believe that a file is longer than it is only as SizesHold
\* says.
LEMMA SizesStep ==
  ASSUME ClientsProper, Sound(fs), Sound(fs'), [Next]_vars, NEW c \in Clients, NEW file \in Inodes,
         Overrated(c, file)'
  PROVE  \/ Overrated(c, file)
         \/ Held(file)' < Held(file)
         \/ At(c, "open", "create") /\ call[c].fsize > 0
<1>1. Held(file)' = SizeIn(fs', file) /\ Held(file) = SizeIn(fs, file)
  BY DEF Held, SizeIn
<1>2. SizeIn(fs', file) \in Nat /\ SizeIn(fs, file) \in Nat
  BY SizeIsNat
<1>3. PICK i \in DOMAIN list'[c] : list'[c][i].fileId = file /\ list'[c][i].size > SizeIn(fs', file)
  BY <1>1 DEF Overrated, Slots
<1>4. CASE \E m \in DOMAIN list[c] : list[c][m].fileId = file /\ list[c][m].size = list'[c][i].size
  <2>1. PICK m \in DOMAIN list[c] : list[c][m].fileId = file /\ list[c][m].size = list'[c][i].size
    BY <1>4
  <2>2. list[c][m].size \in Nat
    BY DescriptorSize DEF ClientsProper
  <2>3. list[c][m].size > SizeIn(fs, file) \/ SizeIn(fs', file) < SizeIn(fs, file)
    BY <1>2, <1>3, <2>1, <2>2
  <2> QED BY <1>1, <2>1, <2>3 DEF Overrated, Slots
<1>5. CASE UNCHANGED vars
  BY <1>3, <1>4, <1>5 DEF vars
<1>6. CASE Next
  <2>1. PICK b \in Clients : Stepped(b)
    BY <1>6, StepsAre
  <2>2. PICK k, l, n, r : StepOf(b, k, l, n, r)
    BY <2>1 DEF Stepped
  <2>3. list' = [list EXCEPT ![b] = l] /\ l \in Seq(Descriptors) /\ Founded(l, list[b], fs', call[b])
    BY <2>2 DEF StepOf
  <2>4. CASE b # c
    <3>1. list'[c] = list[c]
      BY <2>3, <2>4 DEF ClientsProper
    <3> QED BY <1>3, <1>4, <3>1
  <2>5. CASE b = c
    <3>1. list'[c] = l
      BY <2>3, <2>5 DEF ClientsProper
    <3>2. i \in DOMAIN l /\ l[i].fileId = file /\ l[i].size \in Nat
      BY <1>3, <2>3, <3>1, DescriptorSize
    <3>3. ~ (l[i].size <= SizeIn(fs', file))
      BY <1>2, <1>3, <3>1, <3>2
    <3>4. \/ \E m \in DOMAIN list[c] : l[i].fileId = list[c][m].fileId /\ l[i].size = list[c][m].size
          \/ call[c].fn = "open" /\ call[c].pc = "create" /\ call[c].fsize > 0
      BY <2>3, <2>5, <3>2, <3>3 DEF Founded
    <3> QED BY <1>4, <3>1, <3>2, <3>4 DEF At
  <2> QED BY <2>4, <2>5
<1> QED BY <1>5, <1>6

\* The sizes, as long as the server is sound.
LEMMA SizesWhileSound == Spec /\ []Sound(fs) => SizesHold
<1> DEFINE P == \A c \in Clients, file \in Inodes :
                  Overrated(c, file)' =>
                    \/ Overrated(c, file)
                    \/ Held(file)' < Held(file)
                    \/ At(c, "open", "create") /\ call[c].fsize > 0
<1>1. ClientsProper /\ Sound(fs) /\ Sound(fs)' /\ [Next]_vars => P
  <2> SUFFICES ASSUME ClientsProper, Sound(fs), Sound(fs)', [Next]_vars PROVE P
    OBVIOUS
  <2>1. Sound(fs')
    BY DEF Sound, Formed
  <2> QED BY <2>1, SizesStep
<1> HIDE DEF P
<1>2. Spec /\ []Sound(fs) => [][P]_vars
  BY <1>1, ProperWhileSound, PTL DEF Spec
<1> QED BY <1>2 DEF SizesHold, P

-----------------------------------------------------------------------------
(* Theorems.                                                                *)

\* Whatever the clients ask, with whatever handles and offsets they hold from
\* before, and however their calls interleave, the tables of the server stay
\* sound: its directories form a tree over the inodes in use, and no two
\* inodes share a block (snfs.c over fs.c, called by snfs_api.c).
THEOREM ServerStaysSound == Limits => (Spec => [](Sound(fs) /\ Alone(fs)))
<1>1. Invariant => Sound(fs) /\ Alone(fs)
  BY DEF Invariant, Served
<1> QED BY <1>1, InvariantHolds, PTL

\* The lists of open files and the counts beside them agree and stay within the
\* limit, through every way out of my_open and my_close, and what is left to be
\* read stays within an unsigned (myfs.c).
THEOREM ClientTypesHold == Limits => (Spec => []TypeOK)
<1>1. Invariant => TypeOK
  BY ProperTypes DEF Invariant
<1> QED BY <1>1, InvariantHolds, PTL

\* A client believes a file longer than it is only after a step that shortens
\* the file, or after my_open took the size of another object for it (myfs.c:
\* my_open, my_write).
THEOREM SizesStay == Limits => (Spec => SizesHold)
<1>1. Invariant => Sound(fs)
  BY DEF Invariant, Served
<1>2. Limits => (Spec => []Sound(fs))
  BY <1>1, InvariantHolds, PTL
<1> QED BY <1>2, SizesWhileSound, PTL

=============================================================================
