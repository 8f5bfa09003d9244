---------------------------- MODULE RequestRing ----------------------------
(***************************************************************************)
(* The request pipeline of the SNFS server (snfs_server/server.c).         *)
(*                                                                         *)
(* One producer thread polls the datagram socket and stores every request  *)
(* in a ring of RingSize slots; a fixed set of consumer threads takes the  *)
(* requests out, runs the handler and sends the response.  Producer and    *)
(* consumers share ONE monitor with ONE condition: consumers wait on it    *)
(* while the ring is empty, the producer waits on it while the ring is     *)
(* full.  The producer broadcasts, a consumer signals a single waiter.     *)
(*                                                                         *)
(* A request is the number of its datagram in the order in which datagrams *)
(* reached the socket.  What a handler does is modelled by FileSystem.     *)
(***************************************************************************)
EXTENDS Integers, FiniteSets, Sequences

CONSTANTS
  Consumers,      \* the NUM_TC threads running thread_consumer
  Producer,       \* the thread running thread_producer
  NoThread,       \* "nobody holds the monitor"
  RingSize,       \* RING_SIZE
  MaxRequests,    \* bound: requests the clients send
  MaxZero,        \* bound: zero-length datagrams the clients send
  MaxSpurious     \* bound: spurious returns of pthread_cond_wait

Threads == Consumers \cup {Producer}

ASSUME ThreadAssumption ==
  /\ Producer \notin Consumers
  /\ NoThread \notin Threads

ASSUME SizeAssumption ==
  /\ RingSize \in Nat \ {0}
  /\ MaxRequests \in Nat
  /\ MaxZero \in Nat
  /\ MaxSpurious \in Nat

NoReq == 0

VARIABLES
  arrived,    \* requests that reached the socket so far
  received,   \* requests the producer has taken from the socket so far
  zero,       \* zero-length datagrams waiting in the socket
  zeroSent,   \* zero-length datagrams sent so far (bounded by MaxZero)
  ring,       \* ring[]: the slots; a slot keeps its old pointer after get_req
  putPos,     \* static pos of put_req
  getPos,     \* static pos of get_req
  available,  \* available_reqs
  holder,     \* thread inside the monitor
  waitSet,    \* threads blocked on the condition of the monitor
  spurious,   \* spurious wakeups so far (bounded by MaxSpurious)
  pc,         \* control point of each thread
  hand,       \* req_d of each thread
  answered    \* history: the requests whose response was handed to sendto

socketVars  == <<arrived, received, zero, zeroSent>>
ringVars    == <<ring, putPos, getPos, available>>
monitorVars == <<holder, waitSet, spurious>>
vars == <<socketVars, ringVars, monitorVars, pc, hand, answered>>

ProducerPoints ==
  {"enter", "test", "waiting", "recv", "reenter", "put", "signalall", "exit"}
ConsumerPoints == {"enter", "test", "waiting", "signal", "exit", "serve", "send"}

Slots == 0 .. RingSize - 1

TypeOK ==
  /\ arrived \in Nat /\ received \in Nat
  /\ zero \in Nat /\ zeroSent \in Nat /\ spurious \in Nat
  /\ ring \in [Slots -> Nat]
  /\ putPos \in Slots /\ getPos \in Slots
  /\ available \in Nat
  /\ holder \in Threads \cup {NoThread}
  /\ waitSet \subseteq Threads
  /\ pc \in [Threads -> ProducerPoints \cup ConsumerPoints]
  /\ pc[Producer] \in ProducerPoints
  /\ \A c \in Consumers : pc[c] \in ConsumerPoints
  /\ hand \in [Threads -> Nat]
  /\ answered \in SUBSET Nat

Init ==
  /\ arrived = 0 /\ received = 0 /\ zero = 0 /\ zeroSent = 0
  /\ ring = [s \in Slots |-> NoReq]
  /\ putPos = 0 /\ getPos = 0 /\ available = 0
  /\ holder = NoThread /\ waitSet = {} /\ spurious = 0
  /\ pc = [t \in Threads |-> "enter"]
  /\ hand = [t \in Threads |-> NoReq]
  /\ answered = {}

-----------------------------------------------------------------------------
(* Control points and the monitor (sthread_monitor_*, pthread build).       *)

\* A step of t from one control point to another.
Goto(t, from, to) ==
  /\ pc[t] = from
  /\ pc' = [pc EXCEPT ![t] = to]

\* sthread_monitor_enter: pthread_mutex_lock.
MonitorEnter(t) ==
  /\ holder = NoThread
  /\ holder' = t
  /\ UNCHANGED <<waitSet, spurious>>

\* sthread_monitor_exit: pthread_mutex_unlock.
MonitorExit ==
  /\ holder' = NoThread
  /\ UNCHANGED <<waitSet, spurious>>

\* sthread_monitor_wait: release the monitor and block on its condition.
MonitorWait(t) ==
  /\ holder' = NoThread
  /\ waitSet' = waitSet \cup {t}
  /\ UNCHANGED spurious

\* sthread_monitor_signal: wake one waiter, any of them, if there is one.
MonitorSignal ==
  /\ \/ waitSet = {} /\ waitSet' = {}
     \/ \E t \in waitSet : waitSet' = waitSet \ {t}
  /\ UNCHANGED <<holder, spurious>>

\* sthread_monitor_signalall: wake every waiter.
MonitorSignalAll ==
  /\ waitSet' = {}
  /\ UNCHANGED <<holder, spurious>>

\* pthread_cond_wait may return although nobody signalled.
SpuriousWakeup(t) ==
  /\ t \in waitSet
  /\ spurious < MaxSpurious
  /\ spurious' = spurious + 1
  /\ waitSet' = waitSet \ {t}
  /\ UNCHANGED <<socketVars, ringVars, holder, pc, hand, answered>>

-----------------------------------------------------------------------------
\* Fault: the position is not wrapped.
Succ_NoWrap(pos) == pos + 1

(* The ring.                                                                *)

Succ(pos) == (pos + 1) % RingSize

\* put_req: store in the next slot, whatever the slot holds.
put_req(r) ==
  /\ ring' = [ring EXCEPT ![putPos] = r]
  /\ putPos' = Succ(putPos)
  /\ UNCHANGED getPos

\* get_req: read the next slot; the slot is not cleared.
get_req(t) ==
  /\ hand' = [hand EXCEPT ![t] = ring[getPos]]
  /\ getPos' = Succ(getPos)
  /\ UNCHANGED <<ring, putPos>>

\* The slot of the i-th stored request, counted from the next one to be taken.
SlotOf(i) == (getPos + i - 1) % RingSize

\* The stored requests, oldest first.
Queue == [i \in 1 .. available |-> ring[SlotOf(i)]]

-----------------------------------------------------------------------------
(* The socket.                                                              *)

Arrive ==
  /\ arrived < MaxRequests
  /\ arrived' = arrived + 1
  /\ UNCHANGED <<received, zero, zeroSent, ringVars, monitorVars, pc, hand, answered>>

ArriveZero ==
  /\ zeroSent < MaxZero
  /\ zeroSent' = zeroSent + 1
  /\ zero' = zero + 1
  /\ UNCHANGED <<arrived, received, ringVars, monitorVars, pc, hand, answered>>

-----------------------------------------------------------------------------
(* thread_producer.                                                         *)

PEnter ==
  /\ Goto(Producer, "enter", "test")
  /\ MonitorEnter(Producer)
  /\ UNCHANGED <<socketVars, ringVars, hand, answered>>

\* while (available_reqs == RING_SIZE) sthread_monitor_wait(mon);
PWait ==
  /\ Goto(Producer, "test", "waiting")
  /\ available = RingSize
  /\ MonitorWait(Producer)
  /\ UNCHANGED <<socketVars, ringVars, hand, answered>>

\* Back from the wait with the monitor re-acquired: test again.
PWake ==
  /\ Goto(Producer, "waiting", "test")
  /\ Producer \notin waitSet
  /\ MonitorEnter(Producer)
  /\ UNCHANGED <<socketVars, ringVars, hand, answered>>

\* Fault: the producer does not wait for room.
PRoom_NoTest ==
  /\ Goto(Producer, "test", "recv")
  /\ MonitorExit
  /\ UNCHANGED <<socketVars, ringVars, hand, answered>>

\* There is room: leave the monitor and go to the socket.
PRoom ==
  /\ Goto(Producer, "test", "recv")
  /\ available # RingSize
  /\ MonitorExit
  /\ UNCHANGED <<socketVars, ringVars, hand, answered>>

\* my_recvfrom: yield and poll again while the socket is empty (EAGAIN).
PPoll ==
  /\ pc[Producer] = "recv"
  /\ received = arrived /\ zero = 0
  /\ UNCHANGED vars

\* Fault: EAGAIN is taken for a received datagram.
PRecv_NoPoll ==
  /\ Goto(Producer, "recv", "reenter")
  /\ received < MaxRequests
  /\ received' = received + 1
  /\ hand' = [hand EXCEPT ![Producer] = received + 1]
  /\ UNCHANGED <<arrived, zero, zeroSent, ringVars, monitorVars, answered>>

PRecv ==
  /\ Goto(Producer, "recv", "reenter")
  /\ received < arrived
  /\ received' = received + 1
  /\ hand' = [hand EXCEPT ![Producer] = received + 1]
  /\ UNCHANGED <<arrived, zero, zeroSent, ringVars, monitorVars, answered>>

\* A zero-length datagram: continue, from the top of the loop.
PRecvZero ==
  /\ Goto(Producer, "recv", "enter")
  /\ zero > 0
  /\ zero' = zero - 1
  /\ UNCHANGED <<arrived, received, zeroSent, ringVars, monitorVars, hand, answered>>

\* Fault: the store is not protected by the monitor.
PReenter_NoLock ==
  /\ Goto(Producer, "reenter", "put")
  /\ UNCHANGED <<socketVars, ringVars, monitorVars, hand, answered>>

PReenter ==
  /\ Goto(Producer, "reenter", "put")
  /\ MonitorEnter(Producer)
  /\ UNCHANGED <<socketVars, ringVars, hand, answered>>

\* put_req(req_d); available_reqs++; the room was seen before the receive.
PPut ==
  /\ Goto(Producer, "put", "signalall")
  /\ put_req(hand[Producer])
  /\ available' = available + 1
  /\ hand' = [hand EXCEPT ![Producer] = NoReq]
  /\ UNCHANGED <<socketVars, monitorVars, answered>>

\* Fault: the producer wakes one waiter only.
PSignalAll_One ==
  /\ Goto(Producer, "signalall", "exit")
  /\ MonitorSignal
  /\ UNCHANGED <<socketVars, ringVars, hand, answered>>

PSignalAll ==
  /\ Goto(Producer, "signalall", "exit")
  /\ MonitorSignalAll
  /\ UNCHANGED <<socketVars, ringVars, hand, answered>>

PExit ==
  /\ Goto(Producer, "exit", "enter")
  /\ MonitorExit
  /\ UNCHANGED <<socketVars, ringVars, hand, answered>>

ProducerStep ==
  \/ PEnter \/ PWait \/ PWake \/ PRoom \/ PPoll \/ PRecv \/ PRecvZero
  \/ PReenter \/ PPut \/ PSignalAll \/ PExit

-----------------------------------------------------------------------------
(* thread_consumer.                                                         *)

CEnter(c) ==
  /\ Goto(c, "enter", "test")
  /\ MonitorEnter(c)
  /\ UNCHANGED <<socketVars, ringVars, hand, answered>>

\* while (!available_reqs) sthread_monitor_wait(mon);
CWait(c) ==
  /\ Goto(c, "test", "waiting")
  /\ available = 0
  /\ MonitorWait(c)
  /\ UNCHANGED <<socketVars, ringVars, hand, answered>>

CWake(c) ==
  /\ Goto(c, "waiting", "test")
  /\ c \notin waitSet
  /\ MonitorEnter(c)
  /\ UNCHANGED <<socketVars, ringVars, hand, answered>>

\* req_d = get_req(); available_reqs--;
CGet(c) ==
  /\ Goto(c, "test", "signal")
  /\ available # 0
  /\ get_req(c)
  /\ available' = available - 1
  /\ UNCHANGED <<socketVars, monitorVars, answered>>

\* Fault: the consumer does not signal that a slot is free.
CSignal_None(c) ==
  /\ Goto(c, "signal", "exit")
  /\ UNCHANGED <<socketVars, ringVars, monitorVars, hand, answered>>

CSignal(c) ==
  /\ Goto(c, "signal", "exit")
  /\ MonitorSignal
  /\ UNCHANGED <<socketVars, ringVars, hand, answered>>

CExit(c) ==
  /\ Goto(c, "exit", "serve")
  /\ MonitorExit
  /\ UNCHANGED <<socketVars, ringVars, hand, answered>>

\* Service[req_i].handler, or RES_UNKNOWN when no service has the type: either
\* way there is a response.
CServe(c) ==
  /\ Goto(c, "serve", "send")
  /\ UNCHANGED <<socketVars, ringVars, monitorVars, hand, answered>>

\* Fault: the request is freed without a response.
CSend_NoResponse(c) ==
  /\ Goto(c, "send", "enter")
  /\ hand' = [hand EXCEPT ![c] = NoReq]
  /\ UNCHANGED <<socketVars, ringVars, monitorVars, answered>>

\* srv_send_response (a failing sendto is only printed), then free(req_d).
CSend(c) ==
  /\ Goto(c, "send", "enter")
  /\ answered' = answered \cup {hand[c]}
  /\ hand' = [hand EXCEPT ![c] = NoReq]
  /\ UNCHANGED <<socketVars, ringVars, monitorVars>>

ConsumerStep(c) ==
  \/ CEnter(c) \/ CWait(c) \/ CWake(c) \/ CGet(c)
  \/ CSignal(c) \/ CExit(c) \/ CServe(c) \/ CSend(c)

Next ==
  \/ Arrive
  \/ ArriveZero
  \/ ProducerStep
  \/ \E c \in Consumers : ConsumerStep(c)
  \/ \E t \in Threads : SpuriousWakeup(t)

Spec == Init /\ [][Next]_vars

\* The kernel runs every runnable thread; nothing is assumed of the order in
\* which it grants the mutex, and spurious wakeups are finitely many.
Fairness ==
  /\ WF_vars(ProducerStep)
  /\ \A c \in Consumers : WF_vars(ConsumerStep(c))

FairSpec == Spec /\ Fairness
-----------------------------------------------------------------------------
(* Properties.                                                              *)

InMonitor(t) ==
  IF t = Producer THEN pc[t] \in {"test", "put", "signalall", "exit"}
                  ELSE pc[t] \in {"test", "signal", "exit"}

(* One thread at a time is between enter and exit, a thread that waits is   *)
(* outside, and a thread holds a request exactly between taking it (from    *)
(* the socket or the ring) and passing it on (server.c:193-201, 246-263).   *)
MonitorDiscipline ==
  /\ \A t \in Threads : InMonitor(t) <=> holder = t
  /\ \A t \in waitSet : pc[t] = "waiting"
  /\ hand[Producer] = IF pc[Producer] \in {"reenter", "put"} THEN received ELSE NoReq
  /\ \A c \in Consumers :
       hand[c] # NoReq <=> pc[c] \in {"signal", "exit", "serve", "send"}

(* A full ring is never written and an empty one never read, although the   *)
(* producer tests for room in one critical section and stores in another,   *)
(* after an unbounded wait on the socket (server.c:246-260): no slot is     *)
(* overwritten before a consumer has taken its request.                     *)
NoOverwrite ==
  /\ available <= RingSize
  /\ pc[Producer] \in {"recv", "reenter", "put"} => available < RingSize
  /\ putPos = (getPos + available) % RingSize

(* No wakeup is lost on the single condition that both conditions share: a  *)
(* consumer sleeps only while the ring is empty or the broadcast that wakes *)
(* it is still to come, and the producer sleeps only while the ring is full *)
(* or a consumer is still to signal.  When a consumer signals, only the     *)
(* producer can be asleep, so that no consumer swallows a signal meant for  *)
(* the producer (server.c:195-200, 248, 262).                               *)
NoLostWakeup ==
  /\ \A c \in Consumers \cap waitSet : available = 0 \/ pc[Producer] = "signalall"
  /\ Producer \in waitSet =>
       available = RingSize \/ \E c \in Consumers : pc[c] = "signal"
  /\ (\E c \in Consumers : pc[c] = "signal") => waitSet \subseteq {Producer}

\* Requests stored in the ring so far, and taken out of it so far.
Stored == IF hand[Producer] = NoReq THEN received ELSE received - 1
TakenOut == Stored - available

(* The pipeline implements a bounded FIFO queue in front of a pool of       *)
(* workers: requests are stored and taken in the order of arrival, each by  *)
(* one consumer, and answered once (server.c:90-106, 187-266).              *)
Service == INSTANCE RequestService WITH
  Workers  <- Consumers,
  Capacity <- RingSize,
  accepted <- Stored,
  queue    <- Queue,
  busy     <- [c \in Consumers |-> hand[c]]

Implements == Service!Spec

(* Each request taken out of the ring is with exactly one consumer or has   *)
(* been answered, never both, and no consumer works on anything else, such  *)
(* as the stale pointer that get_req leaves in its slot.                    *)
ExactlyOnce == Service!ExactlyOnce

(* Every request that reaches the socket is eventually answered, under any  *)
(* order in which the mutex is granted.                                     *)
EveryRequestAnswered ==
  \A r \in 1 .. MaxRequests : (arrived >= r) ~> (r \in answered)
=============================================================================
