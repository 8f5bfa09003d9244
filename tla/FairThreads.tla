----------------------------- MODULE FairThreads ----------------------------
(***************************************************************************)
(* The fair scheduler of the slow build (its sthread_lib/sthread_user.c):   *)
(* a thread pays priority + nice of virtual run time for each tick it runs, *)
(* and the dispatcher preempts it when another runnable thread has less.    *)
(* Threads are created, exit, join, sleep, yield and change their nice      *)
(* value; one monitor over one mutex blocks them outside of the run queue.  *)
(* The run queue is what RunQueue says.  RunTree implements it until its    *)
(* sentinel Nil is first painted red (its bound NilIsBlack); after that the *)
(* tree may give the wrong thread or none, which the queue here never does  *)
(* (KnownDefects: NotTheLeftmost, NoThreadIsTaken).                         *)
(*                                                                         *)
(* The sections of the mutex under its spin lock are one step here: what    *)
(* preemption does inside of them is looked at in UserThreads.              *)
(***************************************************************************)
EXTENDS Integers, ThreadQueues, SequencesExt

CONSTANTS
  Thread, NoThread,
  Main,        \* the main thread: it creates threads and keeps the processor busy
  Priorities, Nices,  \* arguments of sthread_create and sthread_nice
  Ticks,       \* num_ticks a thread may sleep for
  MinDelay,    \* MIN_DELAY
  Limit,       \* INT_MAX - MAX_INC
  Watched,     \* the threads whose progress is checked
  Users,       \* the threads that use the monitor
  Low          \* bound: no tick once a thread is further than this below 0

ASSUME FairThreadsAssumption ==
  /\ Main \in Thread /\ NoThread \notin Thread /\ Watched \subseteq Thread
  /\ Users \subseteq Thread \ {Main}
  /\ Priorities \subseteq Int /\ Nices \subseteq Int /\ Ticks \subseteq Nat \ {0}
  /\ MinDelay \in Nat /\ Limit \in Nat /\ Low \in Nat

VARIABLES
  queue,     \* exe_thr_tree: the runnable threads, by vruntime
  active,    \* active_thr
  vruntime, priority, nice,
  sleep, join, zombie, dead,  \* sleep_thr_list and the other lists
  wake,      \* wake_time - Clock of a thread in sleep
  target,    \* join_tid
  thr, mutexQ, monQ,  \* the mutex: owner and queue; the monitor's queue
  gap,       \* threads queued for the mutex or the monitor, but still running
  delay,     \* static int delay of the dispatcher, which it compares with MIN_DELAY
  steady     \* history: threads that have always been runnable and not yielded
monitor == <<thr, mutexQ, monQ>>
vars == <<queue, active, vruntime, priority, nice, sleep, join, zombie, dead, wake,
          target, monitor, gap, delay, steady>>

\* rbTreeInsert, as in RunQueue.
Insert(q, t, vr) == Inserted(q, t, vr)
\* Fault: they are put at the end.
InsertAll_Last(q, ts, vr) == q \o ts
\* rbTreeInsert of several threads, one after the other.
InsertAll(q, ts, vr) == InsertedAll(q, ts, vr)

Blocked == ToSet(sleep) \cup ToSet(join) \cup ToSet(mutexQ) \cup ToSet(monQ)
Live == ToSet(queue) \cup Blocked \cup {active}
Over == ToSet(zombie) \cup ToSet(dead)

MinOf(a, b) == IF a <= b THEN a ELSE b
MaxOf(a, b) == IF a >= b THEN a ELSE b

\* The priority sthread_user_create stores: one too high is 10, one too low is
\* 0, although the message says 1.
Clamped(p) == IF p > 10 THEN 10 ELSE IF p < 1 THEN 0 ELSE p
\* The value sthread_nice stores.
NiceOf(n) == MaxOf(0, MinOf(10, n))

\* sthread_user_mutex_init; and sthread_user_monitor_init, which makes a mutex.
MutexInit == thr = NoThread /\ mutexQ = <<>>
MonitorInit == MutexInit /\ monQ = <<>> /\ gap = {}

Init ==
  /\ queue = <<>> /\ active = Main
  /\ vruntime = [t \in Thread |-> 0]
  /\ priority = [t \in Thread |-> IF t = Main THEN 1 ELSE 0]
  /\ nice = [t \in Thread |-> 0]
  /\ sleep = <<>> /\ join = <<>> /\ zombie = <<>> /\ dead = <<>>
  /\ wake = [t \in Thread |-> 0] /\ target = [t \in Thread |-> NoThread]
  /\ MonitorInit
  /\ delay = 0
  /\ steady = {Main}
-----------------------------------------------------------------------------
\* The active thread is in its own code.
Works == active # Main /\ active \notin gap

\* sthread_user_create: the new thread starts with the least virtual run time of
\* those that wait, and with 0 when none does.
Create(t, p) ==
  /\ active = Main /\ t \notin Live \cup Over
  /\ priority' = [priority EXCEPT ![t] = Clamped(p)]
  /\ vruntime' = [vruntime EXCEPT ![t] = IF queue = <<>> THEN 0 ELSE vruntime[Head(queue)]]
  /\ queue' = Insert(queue, t, vruntime')
  /\ steady' = IF (IF queue = <<>> THEN vruntime[Main] = 0 ELSE Head(queue) \in steady)
               THEN steady \cup {t} ELSE steady
  /\ UNCHANGED <<active, nice, sleep, join, zombie, dead, wake, target, monitor, gap, delay>>

\* sthread_nice, of the active thread.
Nice(n) ==
  /\ Works
  /\ nice' = [nice EXCEPT ![active] = NiceOf(n)]
  /\ UNCHANGED <<queue, active, vruntime, priority, sleep, join, zombie, dead, wake,
                 target, monitor, gap, delay, steady>>

\* treeRemove for the next active thread; the old one is not runnable any more.
\* Bound: the tree is one whose Nil is black, and gives the leftmost.
NextOf(q) == q # <<>> /\ active' = Head(q) /\ queue' = Tail(q) /\ steady' = steady \ {active}

\* Fault: the thread a thread waits for is not asked.
Joins_Any(u, t) == TRUE
Joins(u, t) == target[u] = t

\* sthread_user_exit.  Nothing reads the times of a thread that is over, nor
\* join_tid of one that is back: they are cleared here.
Exit ==
  LET mine == Kept(join, {u \in Thread : Joins(u, active)})
  IN /\ Works /\ thr # active
     /\ join' = Kept(join, {u \in Thread : ~Joins(u, active)})
     /\ IF mine = <<>> THEN zombie' = Append(zombie, active) /\ UNCHANGED dead
                       ELSE dead' = Append(dead, active) /\ UNCHANGED zombie
     /\ NextOf(InsertAll(queue, mine, vruntime))
     /\ vruntime' = [vruntime EXCEPT ![active] = 0]
     /\ nice' = [nice EXCEPT ![active] = 0]
     /\ target' = [t \in Thread |-> IF Contains(mine, t) THEN NoThread ELSE target[t]]
     /\ UNCHANGED <<priority, sleep, wake, monitor, gap, delay>>

\* sthread_user_sleep, for at least one tick.
Sleep(n) ==
  /\ Works
  /\ sleep' = Append(sleep, active)
  /\ wake' = [wake EXCEPT ![active] = n]
  /\ NextOf(queue)
  /\ UNCHANGED <<vruntime, priority, nice, join, zombie, dead, target, monitor, gap, delay>>

\* sthread_user_join of a zombie.
JoinZombie(u) ==
  /\ Works /\ thr # active /\ Contains(zombie, u)
  /\ zombie' = Kept(zombie, Thread \ {u})
  /\ dead' = Append(dead, u)
  /\ UNCHANGED <<queue, active, vruntime, priority, nice, sleep, join, wake, target,
                 monitor, gap, delay, steady>>

\* sthread_user_join of a thread that is found.  rbSearch may miss a runnable
\* one that shares its virtual run time; the call then fails and changes nothing.
Join(u) ==
  /\ Works /\ thr # active /\ u \in {active} \cup ToSet(queue) \cup ToSet(sleep) \cup ToSet(join)
  /\ target' = [target EXCEPT ![active] = u]
  /\ join' = Append(join, active)
  /\ NextOf(queue)
  /\ UNCHANGED <<vruntime, priority, nice, sleep, zombie, dead, wake, monitor, gap, delay>>

\* sthread_user_yield, called by the active thread.
Yield ==
  /\ active \notin gap /\ queue # <<>>
  /\ active' = Head(queue)
  /\ queue' = Insert(Tail(queue), active, vruntime)
  /\ steady' = steady \ {active}
  /\ UNCHANGED <<vruntime, priority, nice, sleep, join, zombie, dead, wake, target, monitor, gap, delay>>
-----------------------------------------------------------------------------
\* Which of queue, mutex and monitor a call of the active thread leaves alone.
Stays == UNCHANGED <<active, vruntime, priority, nice, sleep, join, zombie, dead, wake,
                     target, delay, steady>>

\* sthread_user_mutex_lock, by one that does not own the mutex: when it is free
\* and when it is not.
Enter ==
  /\ active \in Users /\ Works /\ thr # active
  /\ IF thr = NoThread
     THEN thr' = active /\ UNCHANGED <<mutexQ, gap>>
     ELSE mutexQ' = Append(mutexQ, active) /\ gap' = gap \cup {active} /\ UNCHANGED thr
  /\ UNCHANGED <<queue, monQ>> /\ Stays

\* sthread_user_mutex_unlock: the first one of the queue gets the mutex.
HandOver ==
  IF mutexQ = <<>> THEN thr' = NoThread /\ UNCHANGED <<queue, mutexQ>>
  ELSE /\ thr' = Head(mutexQ) /\ mutexQ' = Tail(mutexQ)
       /\ queue' = Insert(queue, Head(mutexQ), vruntime)

Leave ==
  /\ thr = active /\ Works
  /\ HandOver
  /\ UNCHANGED <<monQ, gap>> /\ Stays

\* sthread_user_monitor_wait.
Wait ==
  /\ thr = active /\ Works
  /\ monQ' = Append(monQ, active) /\ gap' = gap \cup {active}
  /\ HandOver /\ Stays

\* sthread_user_monitor_signal and _signalall.
Signal(n) ==
  /\ thr = active /\ Works /\ monQ # <<>>
  /\ mutexQ' = mutexQ \o SubSeq(monQ, 1, n)
  /\ monQ' = SubSeq(monQ, n + 1, Len(monQ))
  /\ UNCHANGED <<queue, thr, gap>> /\ Stays

\* splx(HIGH) and the switch at the end of lock and wait.
LeaveProcessor ==
  /\ active \in gap
  /\ gap' = gap \ {active}
  /\ NextOf(queue)
  /\ UNCHANGED <<vruntime, priority, nice, sleep, join, zombie, dead, wake, target,
                 monitor, delay>>
-----------------------------------------------------------------------------
Due(t) == wake[t] = 1

\* Fault: the threads that join are left out.
Shifted_NotJoin == queue \o sleep \o mutexQ \o monQ
\* The threads decTree, decQueue and decBlocked go through; the last is in aux.c,
\* which the repository lacks: it has the queues registered with addMutex and
\* addMonitor.
Shifted == queue \o sleep \o join \o mutexQ \o monQ

\* treatOverflow: the virtual run time of the active thread becomes 0.
treatOverflow(vr) ==
  IF vr[active] < Limit THEN vr
  ELSE [t \in Thread |-> IF t = active THEN 0
                         ELSE vr[t] - vr[active] * Times(Shifted, t)]

\* Fault: only the nice value is paid.
Cost_Nice(t) == nice[t]
\* UpdtVruntime: what a tick costs a thread.
Cost(t) == priority[t] + nice[t]

\* Fault: the comparison is turned round.
Deserves_More(t, vr, q) == vr[t] > vr[Head(q)]
\* Whether t, the active thread, has less virtual run time than all that wait.
Deserves(t, vr, q) == vr[t] < vr[Head(q)]

\* Bound: a thread that joins or yields for long falls behind without end.
Far == \E t \in Live : vruntime[t] < -Low

\* Bound: a thread that is queued for the monitor and in the run queue too is
\* not charged, nor its virtual run time shifted, twice for it.
Twice == \E t \in gap : Contains(queue, t) /\ (t = active \/ vruntime[active] >= Limit)
Beyond == Far \/ Twice

\* sthread_user_dispatcher.  A tick before any thread was ever created is left
\* out: prioritary is NULL then, and the sixth of them reads through it.
Tick ==
  LET up == Kept(sleep, {t \in Thread : Due(t)})
      q  == InsertAll(queue, up, vruntime)
      v  == treatOverflow(vruntime)
      vr == [v EXCEPT ![active] = @ + Cost(active)]
  IN
  /\ ~Beyond /\ Live \cup Over # {Main}
  /\ sleep' = Kept(sleep, {t \in Thread : ~Due(t)})
  /\ wake' = [t \in Thread |-> MaxOf(wake[t] - 1, 0)]
  /\ vruntime' = vr
  /\ IF delay < MinDelay
     THEN delay' = delay + 1 /\ queue' = q /\ UNCHANGED active
     ELSE IF q = <<>> \/ Deserves(active, vr, q)
     THEN queue' = q /\ UNCHANGED <<active, delay>>
     ELSE delay' = 0 /\ active' = Head(q) /\ queue' = Insert(Tail(q), active, vr)
  /\ UNCHANGED <<priority, nice, join, zombie, dead, target, monitor, gap, steady>>

Next ==
  \/ \E t \in Thread, p \in Priorities : Create(t, p)
  \/ \E n \in Nices : Nice(n)
  \/ \E n \in Ticks : Sleep(n)
  \/ \E u \in Thread : JoinZombie(u) \/ Join(u)
  \/ Enter \/ Leave \/ Wait \/ (Signal(1) \/ Signal(Len(monQ))) \/ LeaveProcessor
  \/ Exit \/ Yield \/ Tick
Spec == Init /\ [][Next]_vars
FairSpec == Spec /\ WF_vars(Tick) /\ WF_vars(LeaveProcessor)
-----------------------------------------------------------------------------
TypeOK ==
  /\ \A q \in {queue, sleep, join, zombie, dead, mutexQ, monQ} : q \in Seq(Thread)
  /\ active \in Thread /\ steady \subseteq Live
  /\ vruntime \in [Thread -> Int]
  /\ priority \in [Thread -> 0..10] /\ nice \in [Thread -> 0..10]
  /\ wake \in [Thread -> Nat] /\ target \in [Thread -> Thread \cup {NoThread}]
  /\ delay \in 0..MinDelay

\* The queue stays in order, although the virtual run times of the threads in
\* it change when they overflow; and a thread stands in one place at a time, or
\* in two while it is queued for the monitor and still runs or may run.
QueueInOrder ==
  /\ TypeOK
  /\ \A i, j \in DOMAIN queue : i < j => vruntime[queue[i]] <= vruntime[queue[j]]
  /\ \A t \in Live : Times(<<active>> \o Shifted, t) = IF t \in gap THEN 2 ELSE 1
  /\ Live \cap Over = {}

\* The most a tick can cost: 1 for the main thread, which is never nice.
Costs == {1} \cup {Clamped(p) + NiceOf(n) : p \in Priorities \cup {0}, n \in Nices \cup {0}}
HighestCost == CHOOSE c \in Costs : \A d \in Costs : d <= c

\* Fairness: of two threads that have wanted the processor all the time, none is
\* ahead of the other by more than what it can pay in the ticks between two
\* looks at the queue, however the others slept, woke, came and went.
FairShare ==
  \A t, u \in steady :
    vruntime[t] - vruntime[u] <= (MinDelay + 1) * HighestCost

\* A tick, and the overflow it may treat, keeps the distance between any two
\* threads that do not run, wherever they wait.
DistancesKept ==
  [][\A t, u \in Live \ (gap \cup {active}) :
       vruntime'[t] - vruntime'[u] = vruntime[t] - vruntime[u]]_vars

\* A thread that joins another comes back when that one is over, and does come
\* back: none joins a thread that is over already (sthread_user.c:351-363).
JoinAfterExit ==
  /\ [][\A t \in ToSet(join) \ ToSet(join') : target[t] \in ToSet(dead')]_vars
  /\ [][\A t \in ToSet(join') : target'[t] \notin ToSet(zombie' \o dead')]_vars

\* A tick for which a thread that has something to pay is running.
PaidTick == Tick /\ priority[active] + nice[active] > 0

\* A runnable thread gets the processor, unless one of them has fallen behind by
\* more than the bound: as long as ticks that cost something keep coming.  A
\* thread of priority 0 (sthread_user.c:114-116) and nice value 0 pays nothing;
\* one that has the least virtual run time of all and does not give the processor
\* away keeps it for ever (KnownDefects: FreeThreadStays).
NoStarvation ==
  []<><<PaidTick>>_vars =>
    \A t \in Watched : Contains(queue, t) ~> (active = t \/ Beyond)
=============================================================================
