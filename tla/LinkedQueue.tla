----------------------------- MODULE LinkedQueue -----------------------------
(***************************************************************************)
(* The linked lists behind every queue of the system: sthread_lib/queue.c   *)
(* (lists of threads, one removed element kept for the next insertion and   *)
(* shared by all the lists; the fair build links them backwards as well)    *)
(* and snfs_lib/queue.c (the open files of a client).  A memory is a record; *)
(* the operators say what each function does to it.  RECURSIVE operators,   *)
(* for TLC only: KnownDefects evaluates the facts at the end.               *)
(***************************************************************************)
LOCAL INSTANCE Integers
LOCAL INSTANCE Sequences
LOCAL INSTANCE FiniteSets
LOCAL INSTANCE SequencesExt
LOCAL INSTANCE FiniteSetsExt

CONSTANTS
  Element, \* addresses of queue_element_t, numbers
  Queue,   \* addresses of queue_t
  NULL     \* a number that is no element

\* No queue exists; empty is empty_element_ptr, free what malloc may return.
Blank == [item  |-> [e \in Element |-> NULL], next |-> [e \in Element |-> NULL],
          prev  |-> [e \in Element |-> NULL],
          first |-> [q \in Queue |-> NULL],   last |-> [q \in Queue |-> NULL],
          empty |-> NULL, free |-> Element]

\* create_queue: the element kept, if there is one, is forgotten.
create_queue(m, q) == [m EXCEPT !.first[q] = NULL, !.last[q] = NULL, !.empty = NULL]

queue_is_empty(m, q) == m.first[q] = NULL
queue_first(m, q) == m.item[m.first[q]]

\* The element an insertion uses, and the memory without it.
Source(m) == IF m.empty = NULL THEN Min(m.free) ELSE m.empty
Without(m) == IF m.empty = NULL THEN [m EXCEPT !.free = @ \ {Source(m)}] ELSE [m EXCEPT !.empty = NULL]
\* The element is filled in; it is linked; it is made the last one.
Filled(m, e, x) == [m EXCEPT !.item[e] = x, !.next[e] = NULL, !.prev[e] = NULL]
Linked(m, q, e) ==
  IF queue_is_empty(m, q) THEN [m EXCEPT !.first[q] = e]
  ELSE [m EXCEPT !.next[m.last[q]] = e, !.prev[e] = m.last[q]]
MadeLast(m, q, e) == [m EXCEPT !.last[q] = e]
queue_insert(m, q, x) ==
  LET e == Source(m) IN MadeLast(Linked(Filled(Without(m), e, x), q, e), q, e)

\* queue_remove, of a queue that is not empty; last is left as it is.
queue_remove(m, q) ==
  LET e == m.first[q]
      f == m.next[e]
      out == [m EXCEPT !.first[q] = f, !.item[e] = NULL, !.next[e] = NULL,
                       !.prev = IF f = NULL THEN @ ELSE [@ EXCEPT ![f] = NULL]]
  IN  IF m.empty = NULL THEN [out EXCEPT !.empty = e] ELSE [out EXCEPT !.free = @ \cup {e}]

\* The client's list: no element is kept, and the last removal resets last.
queue_enqueue(m, q, x) ==
  LET e == Min(m.free)
  IN  MadeLast(Linked(Filled([m EXCEPT !.free = @ \ {e}], e, x), q, e), q, e)
queue_dequeue(m, q) ==
  LET e == m.first[q]
  IN  IF queue_is_empty(m, q) THEN m
      ELSE IF e = m.last[q]
      THEN [m EXCEPT !.first[q] = NULL, !.last[q] = NULL, !.free = @ \cup {e}]
      ELSE [m EXCEPT !.first[q] = m.next[e], !.free = @ \cup {e}]

\* The elements from e on.
RECURSIVE From(_, _)
From(m, e) == IF e = NULL THEN <<>> ELSE <<e>> \o From(m, m.next[e])
Elements(m, q) == From(m, m.first[q])
Items(m, q) == [i \in 1 .. Len(Elements(m, q)) |-> m.item[Elements(m, q)[i]]]

\* queue_node_search, queue_node_get, queue_node_remove: the first element of
\* the file; the one before it is linked to the one after it.
queue_node_search(m, q, file) == Contains(Items(m, q), file)
queue_node_get(m, q, file) == IF queue_node_search(m, q, file) THEN file ELSE NULL
queue_node_remove(m, q, file) ==
  LET es == Elements(m, q)
      i  == SelectInSeq(es, LAMBDA e : m.item[e] = file)
  IN  IF i = 0 THEN m
      ELSE IF i = 1 THEN queue_dequeue(m, q)
      ELSE [m EXCEPT !.last[q] = IF @ = es[i] THEN es[i - 1] ELSE @,
                     !.next[es[i - 1]] = m.next[es[i]], !.free = @ \cup {es[i]}]
queue_destroy(m, q) == IF queue_is_empty(m, q) THEN 0 ELSE -1
-----------------------------------------------------------------------------
\* What a step <<"insert", q>>, <<"remove", q>> or <<"create", q>> does to a
\* memory and to the queues as sequences; the n-th step inserts n.
Both(s, op) ==
  LET q == op[2] n == s.n + 1 IN
  CASE op[1] = "insert" ->
         [n |-> n, m |-> queue_insert(s.m, q, n), seq |-> [s.seq EXCEPT ![q] = Append(@, n)], ok |-> s.ok]
    [] op[1] = "remove" /\ s.seq[q] # <<>> ->
         [n |-> n, m |-> queue_remove(s.m, q), seq |-> [s.seq EXCEPT ![q] = Tail(@)],
          ok |-> s.ok /\ ~queue_is_empty(s.m, q) /\ queue_first(s.m, q) = Head(s.seq[q])]
    [] op[1] = "remove" -> [s EXCEPT !.n = n, !.ok = @ /\ queue_is_empty(s.m, q)]
    [] op[1] = "create" ->
         [n |-> n, m |-> create_queue(s.m, q), seq |-> [s.seq EXCEPT ![q] = <<>>], ok |-> s.ok]

Linking(m, q) ==
  LET es == Elements(m, q)
  IN  /\ \A i \in 1 .. Len(es) : m.prev[es[i]] = IF i = 1 THEN NULL ELSE es[i - 1]
      /\ es # <<>> => m.last[q] = Last(es)

\* After every history of length n the lists of threads are the sequences, linked
\* both ways, no element is in two of them, and the element kept, which all
\* lists share, is in none.
ThreadListsAreQueues(n) ==
  \A h \in [1 .. n -> {"insert", "remove", "create"} \X Queue] :
    LET s == FoldLeft(Both, [n |-> 0, m |-> Blank, seq |-> [q \in Queue |-> <<>>], ok |-> TRUE], h)
        In(q) == ToSet(Elements(s.m, q))
    IN  /\ s.ok
        /\ \A q \in Queue : Items(s.m, q) = s.seq[q] /\ Linking(s.m, q)
        /\ \A q, r \in Queue : q # r => In(q) \cap In(r) = {}
        /\ \A q \in Queue : In(q) \cap (s.m.free \cup {s.m.empty}) = {}

\* The client's list: 0 takes the first file off, a file that is open is closed,
\* another one is opened.
Files(s, op) ==
  LET q == CHOOSE r \in Queue : TRUE IN
  IF op = 0 THEN [m |-> queue_dequeue(s.m, q), seq |-> IF s.seq = <<>> THEN <<>> ELSE Tail(s.seq)]
  ELSE IF queue_node_search(s.m, q, op)
  THEN [m |-> queue_node_remove(s.m, q, op), seq |-> SelectSeq(s.seq, LAMBDA f : f # op)]
  ELSE [m |-> queue_enqueue(s.m, q, op), seq |-> Append(s.seq, op)]

\* After every history of length n over files 1..f the client's list has the
\* open files, in the order they were opened in, and loses no element.
OpenFilesAreAList(n, f) ==
  \A h \in [1 .. n -> 0 .. f] :
    LET q == CHOOSE r \in Queue : TRUE
        s == FoldLeft(Files, [m |-> Blank, seq |-> <<>>], h)
    IN  /\ Items(s.m, q) = s.seq
        /\ s.seq # <<>> => s.m.last[q] = Last(Elements(s.m, q))
        /\ queue_destroy(s.m, q) = IF s.seq = <<>> THEN 0 ELSE -1
        /\ \A x \in 1 .. f : queue_node_get(s.m, q, x) = IF Contains(s.seq, x) THEN x ELSE NULL
        /\ s.m.free = Element \ ToSet(Elements(s.m, q))
=============================================================================
