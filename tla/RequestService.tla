--------------------------- MODULE RequestService ---------------------------
(***************************************************************************)
(* What the request pipeline of the server promises, without threads,      *)
(* monitor or slots: a bounded FIFO queue in front of a pool of workers.   *)
(* Requests are accepted in the order of arrival, each is taken by exactly *)
(* one idle worker in the order of acceptance, and every accepted request  *)
(* is answered.  RequestRing implements this specification.                *)
(***************************************************************************)
EXTENDS Integers, Sequences

CONSTANTS Workers, Capacity, MaxRequests

Idle == 0

VARIABLES arrived, accepted, queue, busy, answered
vars == <<arrived, accepted, queue, busy, answered>>

Init ==
  /\ arrived = 0 /\ accepted = 0
  /\ queue = <<>>
  /\ busy = [w \in Workers |-> Idle]
  /\ answered = {}

\* A client's datagram reaches the server's socket.
Submit ==
  /\ arrived < MaxRequests
  /\ arrived' = arrived + 1
  /\ UNCHANGED <<accepted, queue, busy, answered>>

\* The oldest datagram enters the queue, when the queue has room.
Accept ==
  /\ accepted < arrived
  /\ Len(queue) < Capacity
  /\ accepted' = accepted + 1
  /\ queue' = Append(queue, accepted + 1)
  /\ UNCHANGED <<arrived, busy, answered>>

\* An idle worker takes the oldest accepted request.
Take(w) ==
  /\ busy[w] = Idle
  /\ queue # <<>>
  /\ busy' = [busy EXCEPT ![w] = Head(queue)]
  /\ queue' = Tail(queue)
  /\ UNCHANGED <<arrived, accepted, answered>>

\* The worker sends the response of the request it took.
Answer(w) ==
  /\ busy[w] # Idle
  /\ answered' = answered \cup {busy[w]}
  /\ busy' = [busy EXCEPT ![w] = Idle]
  /\ UNCHANGED <<arrived, accepted, queue>>

Next ==
  \/ Submit
  \/ Accept
  \/ \E w \in Workers : Take(w) \/ Answer(w)

Spec == Init /\ [][Next]_vars

-----------------------------------------------------------------------------
\* Requests that left the queue.
Taken == accepted - Len(queue)

(* The queue holds the consecutive requests after those already taken: none *)
(* is skipped, none is overtaken, none is repeated.                         *)
QueueInOrder == queue = [i \in 1 .. accepted - Taken |-> Taken + i]

(* Every request that left the queue is with exactly one worker or has been *)
(* answered, and never both; nothing else is with a worker.                 *)
ExactlyOnce ==
  /\ {busy[w] : w \in Workers} \ {Idle} = 1 .. Taken \ answered
  /\ answered \subseteq 1 .. Taken
  /\ \A v, w \in Workers : busy[v] = busy[w] /\ busy[v] # Idle => v = w
=============================================================================
