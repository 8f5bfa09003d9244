----------------------------- MODULE Namespace ------------------------------
(***************************************************************************)
(* What the file system promises to its clients: a tree of named objects,  *)
(* each a directory or a file with its own content.  There are no inodes   *)
(* and no blocks; a copy has nothing in common with its original.          *)
(***************************************************************************)
EXTENDS Integers, Sequences, SequencesExt

CONSTANTS
  Names,      \* names of objects
  Directory,  \* what a path to a directory leads to
  Offsets,    \* offsets a client writes at
  Writes      \* what a client writes at once

VARIABLE tree \* a path (a sequence of names) to Directory or to the content

\* An operation relates the tree t before it and the tree u after it.
IsDirectory(t, p) == p \in DOMAIN t /\ t[p] = Directory
IsRegular(t, p) == p \in DOMAIN t /\ t[p] # Directory

\* The paths of t whose first part is p: p itself and all below it.
Under(t, p) == {q \in DOMAIN t : IsPrefix(p, q)}

\* The paths that can be given to a new object.
NewPaths(t) == {Append(d, n) : d \in {p \in DOMAIN t : IsDirectory(t, p)}, n \in Names}
Vacant(t, p) == p \in NewPaths(t) \ DOMAIN t

\* The tree t with other objects at the paths of f.
With(t, f) == [q \in DOMAIN t \cup DOMAIN f |-> IF q \in DOMAIN f THEN f[q] ELSE t[q]]

\* What is written replaces what was there and reaches past the end; an offset
\* past the end is the end.
Spliced(content, offset, data) ==
  LET off == IF offset > Len(content) THEN Len(content) ELSE offset
      len == IF off + Len(data) > Len(content) THEN off + Len(data) ELSE Len(content)
  IN  [i \in 1 .. len |-> IF i - off \in 1 .. Len(data) THEN data[i - off] ELSE content[i]]

Create(t, u, p) == Vacant(t, p) /\ u = With(t, [q \in {p} |-> << >>])

Mkdir(t, u, p) == Vacant(t, p) /\ u = With(t, [q \in {p} |-> Directory])

Write(t, u, p, offset, data) ==
  /\ IsRegular(t, p)
  /\ u = With(t, [q \in {p} |-> Spliced(t[p], offset, data)])

AppendTo(t, u, p, from) ==
  /\ IsRegular(t, p) /\ IsRegular(t, from)
  /\ u = With(t, [q \in {p} |-> t[p] \o t[from]])

Unlink(t, u, p) == p # << >> /\ u = [q \in DOMAIN t \ Under(t, p) |-> t[q]]

CopyFile(t, u, from, to) ==
  /\ IsRegular(t, from)
  /\ Vacant(t, to) \/ IsRegular(t, to)
  /\ u = With(t, [q \in {to} |-> t[from]])

\* A directory may be copied in part, when the copy fails half way: what is new
\* is the copy of the directory itself, and of some of what is below.
CopyDirectory(t, u, from, to) ==
  LET new == DOMAIN u \ DOMAIN t
      Source(c) == from \o SubSeq(c, Len(to) + 1, Len(c))
  IN  /\ IsDirectory(t, from) /\ Vacant(t, to)
      /\ to \in new
      /\ \A c \in new : IsPrefix(to, c) /\ (c = to \/ Front(c) \in new)
      /\ \A c \in new : Source(c) \in DOMAIN t
      /\ u = With(t, [c \in new |-> t[Source(c)]])

Step(t, u) ==
  \/ \E p \in NewPaths(t) : Create(t, u, p) \/ Mkdir(t, u, p)
  \/ \E p \in DOMAIN t :
       \/ Unlink(t, u, p)
       \/ \E o \in Offsets, d \in Writes : Write(t, u, p, o, d)
       \/ \E q \in DOMAIN t : AppendTo(t, u, p, q)
       \/ \E q \in DOMAIN t \cup NewPaths(t) : CopyFile(t, u, p, q)
       \/ \E q \in NewPaths(t) : CopyDirectory(t, u, p, q)

Init == tree = [p \in {<< >>} |-> Directory]

Next == \E t \in {tree}, u \in {tree'} : t # u /\ Step(t, u)

Spec == Init /\ [][Next]_tree
=============================================================================
