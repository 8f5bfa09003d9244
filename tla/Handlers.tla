------------------------------ MODULE Handlers ------------------------------
(***************************************************************************)
(* The request handlers of the server (snfs_server/snfs.c): what each does *)
(* to the file system fs, and the response it fills in.  A response is a   *)
(* record: fs the state after the call, status RES_OK or RES_ERROR, and    *)
(* the fields of its body, which are 0 where the handler sets none (the    *)
(* consumer clears every response, server.c:204).                           *)
(***************************************************************************)
EXTENDS FsPaths

CONSTANTS
  MaxData,     \* MAX_READ_DATA and MAX_WRITE_DATA, in cells
  MaxEntries   \* MAX_READDIR_ENTRIES

ASSUME HandlersAssumption == MaxData \in Nat \ {0} /\ MaxEntries \in Nat

RES_OK == "RES_OK"
RES_ERROR == "RES_ERROR"

\* The response to a call that returned r: its new state, and whether it is 0.
Response(r) == [fs |-> r.fs, status |-> IF r.ret = OK THEN RES_OK ELSE RES_ERROR]

\* fs_get_attrs, of an inode in use; the callers look at the size.
fs_get_attrs(fs, file) == IF file \in fs.iused THEN {fs.itab[file].size} ELSE {}
SizeOf(fs, file) == CHOOSE n \in fs_get_attrs(fs, file) : TRUE

\* snfs_lookup.  For "/" fs_lookup succeeds without setting fileid (snfs.c:78,
\* fs.c:294-340).  What is answered then depends on what was in it: an error, as
\* here, or RES_OK with any inode in use; or fs_get_attrs ends the server
\* (fs.c:286).  The calls that look up "/" use inode 1 whatever is answered.
snfs_lookup(fs, path) ==
  LET w == fs_lookup(fs, path)
      f == CHOOSE i \in w.ino : TRUE
  IN  IF path # << >> /\ w.ret = 1 /\ fs_get_attrs(fs, f) # {}
      THEN [fs |-> fs, status |-> RES_OK, file |-> f, fsize |-> SizeOf(fs, f)]
      ELSE [fs |-> fs, status |-> RES_ERROR, file |-> 0, fsize |-> 0]

\* fs_read: nothing at the end of the file or after it, else what there is.
fs_read(fs, file, offset, count) ==
  LET size == fs.itab[file].size
  IN  IF offset >= size THEN << >>
      ELSE SubSeq(Content(fs, file), offset + 1, MinOf(offset + count, size))

snfs_read(fs, file, offset, count) ==
  IF count <= MaxData /\ IsFile(fs, file)
  THEN [fs |-> fs, status |-> RES_OK, nread |-> Len(fs_read(fs, file, offset, count))]
  ELSE [fs |-> fs, status |-> RES_ERROR, nread |-> 0]

snfs_write(fs, file, offset, data) ==
  LET r == fs_write(fs, file, offset, data)
  IN  IF Len(data) <= MaxData /\ r.ret = OK /\ fs_get_attrs(r.fs, file) # {}
      THEN [fs |-> r.fs, status |-> RES_OK, fsize |-> SizeOf(r.fs, file)]
      ELSE [fs |-> IF Len(data) <= MaxData THEN r.fs ELSE fs,
            status |-> RES_ERROR, fsize |-> 0]

snfs_create(fs, dir, name) ==
  LET r == fs_create(fs, dir, name)
  IN  [fs |-> r.fs, status |-> Response(r).status, file |-> r.ino]

snfs_mkdir(fs, dir, name) == Response(fs_mkdir(fs, dir, name))

\* fs_readdir: the names of the first entries, in the order of the pages.
fs_readdir(fs, dir, maxentries) ==
  [i \in 1 .. MinOf(fs.itab[dir].size, maxentries) |-> Entry(fs, dir, i - 1).name]

snfs_readdir(fs, dir, cmax) ==
  IF IsDir(fs, dir)
  THEN [fs |-> fs, status |-> RES_OK, list |-> fs_readdir(fs, dir, cmax)]
  ELSE [fs |-> fs, status |-> RES_ERROR, list |-> << >>]

\* The cache is transparent here: no freed block is answered for.
snfs_remove(fs, dir, name) == Response(fs_remove(fs, dir, name, {}))

snfs_copy(fs, src, srcName, dst, dstName) ==
  Response(fs_copy(fs, src, srcName, dst, dstName))

\* snfs_append: the first name is looked up in the second directory, and the
\* second name in the first (line 278); what is asked for its size afterwards
\* is a directory.
snfs_append(fs, dir1, name1, dir2, name2) ==
  LET r == fs_append(fs, dir2, name1, dir1, name2)
  IN  IF fs_get_attrs(r.fs, dir1) # {} THEN Response(r) ELSE [fs |-> r.fs, status |-> RES_ERROR]

snfs_defrag(fs) == Response(fs_defrag(fs))
\* The report goes to the server's terminal.
snfs_diskusage(fs) == Response([fs |-> fs, ret |-> fs_diskusage(fs).ret])
\* fs_dumpcache prints the slots of the cache.
snfs_dumpcache(fs) == Response([fs |-> fs, ret |-> OK])

\* Service: the handler of a request, by its type.
Serve(fs, req) ==
  CASE req.type = "LOOKUP"  -> snfs_lookup(fs, req.pname)
    [] req.type = "READ"    -> snfs_read(fs, req.fhandle, req.offset, req.count)
    [] req.type = "WRITE"   -> snfs_write(fs, req.fhandle, req.offset, req.data)
    [] req.type = "CREATE"  -> snfs_create(fs, req.dir, req.name)
    [] req.type = "MKDIR"   -> snfs_mkdir(fs, req.dir, req.name)
    [] req.type = "READDIR" -> snfs_readdir(fs, req.dir, req.cmax)
    [] req.type = "REMOVE"  -> snfs_remove(fs, req.dir, req.name)
    [] req.type = "COPY"    -> snfs_copy(fs, req.dir1, req.name1, req.dir2, req.name2)
    [] req.type = "APPEND"  -> snfs_append(fs, req.dir1, req.name1, req.dir2, req.name2)
    [] req.type = "DEFRAG"    -> snfs_defrag(fs)
    [] req.type = "DISKUSAGE" -> snfs_diskusage(fs)
    [] req.type = "DUMPCACHE" -> snfs_dumpcache(fs)
=============================================================================
