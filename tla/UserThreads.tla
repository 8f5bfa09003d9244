----------------------------- MODULE UserThreads ----------------------------
(***************************************************************************)
(* The user-level threads of the server (sthread_lib/sthread_user.c) with   *)
(* their FIFO scheduler: create, exit, join, sleep, yield, the timer's      *)
(* dispatcher, and one monitor over one mutex.  One thread is active; the   *)
(* others are in the queue of executable threads, asleep, joining, or in    *)
(* the queue of the mutex or of the monitor.  The timer may preempt the     *)
(* active thread wherever interrupts are on (splx(LOW)).                    *)
(*                                                                         *)
(* An operation of queue.c is one step here, although most callers leave    *)
(* interrupts on.  A queue is a sequence of threads; the same thread may    *)
(* stand in two of them, and this matters: see OnePlace.                    *)
(***************************************************************************)
EXTENDS ThreadQueues, SequencesExt

CONSTANTS
  Thread,  \* thread descriptors
  Main,    \* the main thread: it creates threads and keeps the processor busy
  Ticks,   \* num_ticks a thread may sleep for
  Watched, \* the threads whose progress is checked; one is as good as another
  NoThread \* a null pointer to a thread

ASSUME UserThreadsAssumption ==
  Main \in Thread /\ NoThread \notin Thread /\ Ticks \subseteq Nat \ {0} /\ Watched \subseteq Thread

VARIABLES
  exe, sleep, join, zombie, dead,  \* exe_thr_list and the other lists
  active,      \* active_thr
  wake,        \* wake_time - Clock of a thread in sleep
  target,      \* join_tid
  l, thr, mutexQ, monQ,  \* the mutex: spin lock, owner and queue; the monitor's queue
  pc,          \* where each thread is: see Places
  op,          \* the call it is in
  inside,      \* threads in the monitor: enter or wait has returned
  ran          \* the active thread has done something since it was switched in
lists == <<exe, sleep, join, zombie, dead>>
monitor == <<l, thr, mutexQ, monQ>>
vars == <<lists, active, wake, target, monitor, pc, op, inside, ran>>

Places == {"new", "run",  \* not created; in its own code
           "spin",        \* before atomic_test_and_set
           "locked",      \* between that and atomic_clear
           "gap",         \* queued for the mutex or the monitor, but still running
           "away",        \* in sthread_switch, or just back from it
           "exited"}
Calls == {"none", "lock", "unlock", "wait", "signal", "signalall", "join", "sleep"}

\* sthread_user_mutex_init; and sthread_user_monitor_init, which makes a mutex.
MutexInit == l = FALSE /\ thr = NoThread /\ mutexQ = <<>>
MonitorInit == MutexInit /\ monQ = <<>>

Init ==
  /\ exe = <<>> /\ sleep = <<>> /\ join = <<>> /\ zombie = <<>> /\ dead = <<>>
  /\ active = Main
  /\ wake = [t \in Thread |-> 0] /\ target = [t \in Thread |-> NoThread]
  /\ MonitorInit
  /\ pc = [t \in Thread |-> IF t = Main THEN "run" ELSE "new"]
  /\ op = [t \in Thread |-> "none"]
  /\ inside = {} /\ ran = FALSE

\* A worker in its own code.
Works(t) == t = active /\ t # Main /\ pc[t] = "run"

\* Fault: the processor goes to the owner of the mutex.
SwitchTo_Owner(q) == q # <<>> /\ active' = thr /\ exe' = Tail(q) /\ ran' = FALSE
\* sthread_switch to the first executable thread of q; t leaves the processor.
SwitchTo(q) == q # <<>> /\ active' = Head(q) /\ exe' = Tail(q) /\ ran' = FALSE
-----------------------------------------------------------------------------
\* sthread_user_create.
Create(t) ==
  /\ active = Main /\ pc[t] = "new"
  /\ exe' = Append(exe, t)
  /\ pc' = [pc EXCEPT ![t] = "run"]
  /\ ran' = TRUE
  /\ UNCHANGED <<sleep, join, zombie, dead, active, wake, target, monitor, op, inside>>

\* Fault: the thread a thread waits for is not asked.
Joins_Any(u, t) == TRUE
Joins(u, t) == target[u] = t

\* sthread_user_exit: whoever joins the thread becomes executable.
Exit(t) ==
  LET mine  == Kept(join, {u \in Thread : Joins(u, t)})
      other == Kept(join, {u \in Thread : ~Joins(u, t)})
  IN
  /\ Works(t) /\ t \notin inside
  /\ join' = other
  /\ IF mine = <<>> THEN zombie' = Append(zombie, t) /\ UNCHANGED dead
                    ELSE dead' = Append(dead, t) /\ UNCHANGED zombie
  /\ SwitchTo(exe \o mine)
  /\ pc' = [pc EXCEPT ![t] = "exited"]
  /\ UNCHANGED <<sleep, wake, target, monitor, op, inside>>

\* sthread_user_yield: the active thread goes to the end of the queue.
Yield(q) == SwitchTo(Append(q, active))

\* sthread_user_yield, called by a thread; the main thread calls it too.
YieldCall(t) ==
  /\ t = active /\ pc[t] = "run"
  /\ Yield(exe)
  /\ UNCHANGED <<sleep, join, zombie, dead, wake, target, monitor, pc, op, inside>>

\* Fault: wake_time is compared with the tick after this one.
Due_Next(t) == wake[t] = 2
\* wake_time == Clock, after Clock++.
Due(t) == wake[t] = 1

\* clock_tick runs the dispatcher only outside of sthread_switch, and splx(HIGH)
\* is in force until a thread is out of it.  A slice is long enough for a step.
Interruptible == pc[active] # "away" /\ (ran \/ pc[active] = "run")

\* The timer signal: sthread_user_dispatcher.
Tick ==
  /\ Interruptible
  /\ LET up == Kept(sleep, {t \in Thread : Due(t)})
     IN /\ sleep' = Kept(sleep, {t \in Thread : ~Due(t)})
        /\ wake' = [t \in Thread |-> IF wake[t] > 0 THEN wake[t] - 1 ELSE 0]
        /\ Yield(exe \o up)
  /\ UNCHANGED <<join, zombie, dead, target, monitor, pc, op, inside>>

\* sthread_user_sleep, for at least one tick.
Sleep(t, n) ==
  /\ Works(t)
  /\ wake' = [wake EXCEPT ![t] = n]
  /\ sleep' = Append(sleep, t)
  /\ SwitchTo(exe)
  /\ pc' = [pc EXCEPT ![t] = "away"] /\ op' = [op EXCEPT ![t] = "sleep"]
  /\ UNCHANGED <<join, zombie, dead, target, monitor, inside>>
-----------------------------------------------------------------------------
\* The scan of the zombies in sthread_user_join for thread u.  What does not
\* match is put back, but as u, not as what it was.
Unzombied(q, u) == [i \in 1..Len(Kept(q, Thread \ {u})) |-> u]

\* Bound: u is joined while no other thread is a zombie (Unzombied loses it).
OnlyZombie(u) == ToSet(zombie) \subseteq {u}

\* Join of a zombie: it is dead, and the call returns at once.
JoinZombie(t, u) ==
  /\ Works(t) /\ t \notin inside /\ OnlyZombie(u) /\ Contains(zombie, u)
  /\ zombie' = Unzombied(zombie, u)
  /\ dead' = Append(dead, u)
  /\ ran' = TRUE
  /\ UNCHANGED <<exe, sleep, join, active, wake, target, monitor, pc, op, inside>>

\* Where a thread to join is looked for: not in the queues of mutex and monitor.
Found(t, u) == u \in {t} \cup ToSet(exe) \cup ToSet(sleep) \cup ToSet(join)

\* Join of a thread that lives: wait for its exit.
Join(t, u) ==
  /\ Works(t) /\ t \notin inside /\ OnlyZombie(u) /\ ~Contains(zombie, u)
  /\ Found(t, u)
  /\ target' = [target EXCEPT ![t] = u]
  /\ join' = Append(join, t)
  /\ SwitchTo(exe)
  /\ pc' = [pc EXCEPT ![t] = "away"] /\ op' = [op EXCEPT ![t] = "join"]
  /\ zombie' = Unzombied(zombie, u)
  /\ UNCHANGED <<sleep, dead, wake, monitor, inside>>
-----------------------------------------------------------------------------
\* The calls on the monitor.  The thread must own the mutex for all but enter,
\* or nothing happens; wait queues the thread before it unlocks.
Call(t, c) ==
  /\ Works(t)
  /\ IF c = "lock" THEN t \notin inside ELSE thr = t /\ t \in inside
  /\ pc' = [pc EXCEPT ![t] = "spin"] /\ op' = [op EXCEPT ![t] = c]
  /\ monQ' = IF c = "wait" THEN Append(monQ, t) ELSE monQ
  /\ inside' = IF c \in {"unlock", "wait"} THEN inside \ {t} ELSE inside
  /\ ran' = TRUE
  /\ UNCHANGED <<lists, active, wake, target, l, thr, mutexQ>>

\* while (atomic_test_and_set(&lock->l)) {}
TestAndSet(t) ==
  /\ t = active /\ pc[t] = "spin"
  /\ l' = TRUE
  /\ pc' = [pc EXCEPT ![t] = IF l THEN "spin" ELSE "locked"]
  /\ ran' = TRUE
  /\ UNCHANGED <<lists, active, wake, target, thr, mutexQ, monQ, op, inside>>

\* The end of a section that begins with TestAndSet: the thread goes on at p.
Clear(t, p) ==
  /\ t = active /\ pc[t] = "locked"
  /\ l' = FALSE /\ ran' = TRUE
  /\ pc' = [pc EXCEPT ![t] = p]
  /\ op' = [op EXCEPT ![t] = IF p = "run" THEN "none" ELSE @]
  /\ UNCHANGED <<sleep, join, zombie, dead, active, wake, target>>

\* Fault: the owner is not tested.
Take_NoTest(t) ==
  /\ op[t] = "lock"
  /\ thr' = t
  /\ inside' = inside \cup {t}
  /\ Clear(t, "run")
  /\ UNCHANGED <<exe, mutexQ, monQ>>
\* sthread_user_mutex_lock, when the mutex is free and when it is not.
Take(t) ==
  /\ op[t] = "lock" /\ thr = NoThread
  /\ thr' = t
  /\ inside' = inside \cup {t}
  /\ Clear(t, "run")
  /\ UNCHANGED <<exe, mutexQ, monQ>>

Queue(t) ==
  /\ op[t] = "lock" /\ thr # NoThread
  /\ mutexQ' = Append(mutexQ, t)
  /\ Clear(t, "gap")
  /\ UNCHANGED <<exe, thr, monQ, inside>>

\* Fault: the first one of the queue gets the mutex but is not made executable.
HandOver_Asleep == thr' = Head(mutexQ) /\ mutexQ' = Tail(mutexQ) /\ UNCHANGED exe
\* The first one of the queue gets the mutex and is executable.
HandOver == thr' = Head(mutexQ) /\ mutexQ' = Tail(mutexQ) /\ exe' = Append(exe, Head(mutexQ))

\* sthread_user_mutex_unlock, on its own and in sthread_user_monitor_wait.
Unlock(t) ==
  /\ op[t] \in {"unlock", "wait"}
  /\ IF mutexQ = <<>> THEN thr' = NoThread /\ UNCHANGED <<exe, mutexQ>> ELSE HandOver
  /\ Clear(t, IF op[t] = "wait" THEN "gap" ELSE "run")
  /\ UNCHANGED <<monQ, inside>>

\* sthread_user_monitor_signal and _signalall: from the queue of the monitor to
\* that of the mutex.
Signal(t) ==
  /\ op[t] \in {"signal", "signalall"}
  /\ LET n == IF op[t] = "signalall" THEN Len(monQ) ELSE IF monQ = <<>> THEN 0 ELSE 1
     IN /\ mutexQ' = mutexQ \o SubSeq(monQ, 1, n)
        /\ monQ' = SubSeq(monQ, n + 1, Len(monQ))
  /\ Clear(t, "run")
  /\ UNCHANGED <<exe, thr, inside>>

\* splx(HIGH) and the switch at the end of lock and wait.
LeaveProcessor(t) ==
  /\ t = active /\ pc[t] = "gap"
  /\ SwitchTo(exe)
  /\ pc' = [pc EXCEPT ![t] = "away"]
  /\ UNCHANGED <<sleep, join, zombie, dead, wake, target, monitor, op, inside>>

\* A thread is back from sthread_switch, and its call returns.
Return(t) ==
  /\ t = active /\ pc[t] = "away"
  /\ pc' = [pc EXCEPT ![t] = "run"] /\ op' = [op EXCEPT ![t] = "none"]
  /\ inside' = IF op[t] \in {"lock", "wait"} THEN inside \cup {t} ELSE inside
  /\ ran' = TRUE
  /\ UNCHANGED <<lists, active, wake, target, monitor>>
-----------------------------------------------------------------------------
\* What a thread chooses to do, and what follows from it.
Choice(t) ==
  \/ Create(t) \/ Exit(t) \/ YieldCall(t)
  \/ \E n \in Ticks : Sleep(t, n)
  \/ \E u \in Thread \ {Main} : JoinZombie(t, u) \/ Join(t, u)
  \/ \E c \in Calls \ {"none", "join", "sleep"} : Call(t, c)
Continue(t) ==
  TestAndSet(t) \/ Take(t) \/ Queue(t) \/ Unlock(t) \/ Signal(t) \/ LeaveProcessor(t) \/ Return(t)

Next == Tick \/ \E t \in Thread : Choice(t) \/ Continue(t)
Spec == Init /\ [][Next]_vars

\* The timer ticks, a thread in a call goes on, and who is in the monitor leaves
\* it if it is given the processor often enough.
Fairness == /\ WF_vars(Tick)
            /\ \A t \in Thread : WF_vars(Continue(t)) /\ SF_vars(Call(t, "unlock"))
FairSpec == Spec /\ Fairness
-----------------------------------------------------------------------------
TypeOK ==
  /\ \A q \in {exe, sleep, join, zombie, dead, mutexQ, monQ} : q \in Seq(Thread)
  /\ active \in Thread /\ thr \in Thread \cup {NoThread}
  /\ wake \in [Thread -> Nat] /\ target \in [Thread -> Thread \cup {NoThread}]
  /\ l \in BOOLEAN /\ ran \in BOOLEAN /\ inside \subseteq Thread
  /\ pc \in [Thread -> Places] /\ op \in [Thread -> Calls]

\* How often t stands in one of the places a thread waits or runs in.
Count(t) == Times(exe, t) + Times(sleep, t) + Times(join, t) + Times(mutexQ, t) + Times(monQ, t)
              + (IF active = t THEN 1 ELSE 0)

\* A thread stands in one place, except while it is queued for the mutex or the
\* monitor and has not left the processor yet (sthread_user.c:370-378, 454-463):
\* then in two, even if it was preempted or woken in between, and one of them is
\* the processor or the queue for it.  So no thread is lost, none runs twice
\* for one wakeup, and one that has exited stands nowhere.
OnePlace ==
  \A t \in Thread :
    Count(t) = IF pc[t] \in {"new", "exited"} THEN 0
               ELSE IF pc[t] = "gap" \/ (op[t] = "wait" /\ pc[t] # "away") THEN 2 ELSE 1

\* The monitor excludes: who came back from lock or wait owns the mutex, also
\* when it was handed over while the new owner had not left the processor, and
\* a queue at the mutex has an owner to wait for.
Exclusion ==
  /\ \A t \in inside : thr = t
  /\ mutexQ # <<>> => thr # NoThread
  /\ thr # NoThread => thr \in inside \/ op[thr] \in {"lock", "wait", "unlock"}

\* A join that is over is of a thread that is over (sthread_user.c:206-216),
\* and every thread that is over is listed once, as a zombie or as dead.
JoinAfterExit ==
  /\ \A t \in Thread : op[t] = "join" /\ ~Contains(join, t) => pc[target[t]] = "exited"
  /\ \A t \in Thread : Times(zombie, t) + Times(dead, t) = IF pc[t] = "exited" THEN 1 ELSE 0
  /\ \A t \in ToSet(join) : pc[target[t]] # "exited"

\* Who is queued at the mutex gets it, who sleeps wakes, who joins a thread
\* that exits goes on: as long as ticks keep coming.  One that comes during splx(HIGH)
\* or sthread_switch is dropped (sthread_time_slice.c:70-72, 82, 98): all of them
\* are if threads that yield in turn keep in step with the timer.
Progress ==
  []<><<Tick>>_vars => \A t \in Watched :
    /\ Contains(mutexQ, t) ~> t \in inside
    /\ op[t] = "sleep" ~> op[t] = "none"
    /\ (op[t] = "join" /\ pc[target[t]] = "exited") ~> op[t] = "none"
=============================================================================
