---------------------------- MODULE ThreadQueues ----------------------------
(***************************************************************************)
(* Operators on queues of threads, as sequences, that the two user-level    *)
(* schedulers share.                                                        *)
(***************************************************************************)
EXTENDS Naturals, FiniteSets, Sequences

\* How often t stands in q.
Times(q, t) == Cardinality({i \in DOMAIN q : q[i] = t})

\* The threads of q that are in S, in their order: a loop over a queue that
\* takes out some of its threads.  (A recursive function rather than SelectSeq,
\* of which the proofs could say nothing.)
Kept(q, S) ==
  LET kept[n \in 0 .. Len(q)] ==
        IF n = 0 THEN <<>> ELSE IF q[n] \in S THEN Append(kept[n - 1], q[n]) ELSE kept[n - 1]
  IN  kept[Len(q)]

\* q with t put in front of the first thread of q that has no less virtual run
\* time: its place in a queue in the order of virtual run times.
Before(q, t, vr) == Cardinality({i \in DOMAIN q : vr[q[i]] < vr[t]})
Inserted(q, t, vr) ==
  LET n == Before(q, t, vr) IN SubSeq(q, 1, n) \o <<t>> \o SubSeq(q, n + 1, Len(q))

\* q with the threads of ts put in, one after the other.
InsertedAll(q, ts, vr) ==
  LET all[n \in 0 .. Len(ts)] == IF n = 0 THEN q ELSE Inserted(all[n - 1], ts[n], vr)
  IN  all[Len(ts)]
=============================================================================
