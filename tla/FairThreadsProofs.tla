------------------------- MODULE FairThreadsProofs --------------------------
(***************************************************************************)
(* Theorems about FairThreads, for every set of threads, every priority and *)
(* nice value and every MIN_DELAY: the run queue stays in order and holds a *)
(* thread once, threads that always want the processor share it, a tick     *)
(* keeps the distances between threads that wait, and a join is over after  *)
(* an exit.  The invariants build on each other in this order:              *)
(*   Placed, Awaited, InOrder, Charged, Fair.                               *)
(***************************************************************************)
EXTENDS FairThreads, ThreadQueueLemmas

USE FairThreadsAssumption

-----------------------------------------------------------------------------
Queues ==
  /\ queue \in Seq(Thread) /\ sleep \in Seq(Thread) /\ join \in Seq(Thread)
  /\ zombie \in Seq(Thread) /\ dead \in Seq(Thread)
  /\ mutexQ \in Seq(Thread) /\ monQ \in Seq(Thread)
Typed ==
  /\ Queues
  /\ active \in Thread /\ steady \subseteq Thread /\ gap \subseteq Thread
  /\ vruntime \in [Thread -> Int]
  /\ priority \in [Thread -> 0..10] /\ nice \in [Thread -> 0..10]
  /\ wake \in [Thread -> Nat] /\ target \in [Thread -> Thread \cup {NoThread}]
  /\ delay \in 0..MinDelay

\* How often a thread that is not over stands anywhere, and one that is.
Tally(t) ==
  Times(queue, t) + Times(sleep, t) + Times(join, t) + Times(mutexQ, t) + Times(monQ, t)
    + One(active, t)
Past(t) == Times(zombie, t) + Times(dead, t)

\* Where t may stand.  One in the gap stands in the queue of the mutex or of the
\* monitor, and runs or has been put back into the run queue before it stopped.
Standing(t) ==
  /\ t \in gap => Tally(t) = 2 /\ Times(sleep, t) = 0 /\ Times(join, t) = 0
  /\ t \notin gap => Tally(t) \in {0, 1}
  /\ Past(t) # 0 => Tally(t) = 0
  /\ t \in steady => Times(queue, t) + One(active, t) # 0
Placed == Typed /\ \A t \in Thread : Standing(t)

\* What the sums of a thread are made of, before and after a step.
SumsOf(t) ==
  /\ Times(queue, t) \in Nat /\ Times(sleep, t) \in Nat /\ Times(join, t) \in Nat
  /\ Times(mutexQ, t) \in Nat /\ Times(monQ, t) \in Nat
  /\ Times(zombie, t) \in Nat /\ Times(dead, t) \in Nat
  /\ One(active, t) = IF t = active THEN 1 ELSE 0
  /\ Tally(t) = Times(queue, t) + Times(sleep, t) + Times(join, t) + Times(mutexQ, t)
                  + Times(monQ, t) + One(active, t)
  /\ Tally(t)' = Times(queue', t) + Times(sleep', t) + Times(join', t) + Times(mutexQ', t)
                  + Times(monQ', t) + One(active', t)
  /\ Past(t) = Times(zombie, t) + Times(dead, t)
  /\ Past(t)' = Times(zombie', t) + Times(dead', t)
  /\ Standing(t)

LEMMA Sums == ASSUME Placed, NEW t \in Thread PROVE SumsOf(t)
<1>1. One(active, t) = IF t = active THEN 1 ELSE 0
  BY DEF One
<1>2. /\ Times(queue, t) \in Nat /\ Times(sleep, t) \in Nat /\ Times(join, t) \in Nat
      /\ Times(mutexQ, t) \in Nat /\ Times(monQ, t) \in Nat
      /\ Times(zombie, t) \in Nat /\ Times(dead, t) \in Nat
  BY TimesType DEF Placed, Typed, Queues
<1> QED BY <1>1, <1>2 DEF SumsOf, Placed, Tally, Past

\* The processor after a switch.
LEMMA SwitchedTo ==
  ASSUME NEW q \in Seq(Thread), NextOf(q)
  PROVE  /\ queue' \in Seq(Thread) /\ active' \in Thread /\ steady' = steady \ {active}
         /\ \A t : Times(queue', t) \in Nat /\ One(active', t) \in Nat
         /\ \A t : Times(queue', t) + One(active', t) = Times(q, t)
<1>1. q # <<>> /\ active' = Head(q) /\ queue' = Tail(q) /\ steady' = steady \ {active}
  BY DEF NextOf
<1>2. /\ Head(q) \in Thread /\ Tail(q) \in Seq(Thread)
      /\ \A t : Times(q, t) = Times(Tail(q), t) + One(Head(q), t)
  BY <1>1, Headed
<1>3. \A t : Times(Tail(q), t) \in Nat /\ One(Head(q), t) \in Nat
  BY <1>2, TimesType, OneType
<1> QED BY <1>1, <1>2, <1>3

LEMMA PlacedInit == Init => Placed
<1> SUFFICES ASSUME Init PROVE Placed
  OBVIOUS
<1>1. <<>> \in Seq(Thread)
  BY EmptySeq
<1>2. Queues
  BY <1>1 DEF Init, Queues, MonitorInit, MutexInit
<1>3. 1 \in 0..10 /\ 0 \in 0..10 /\ 0 \in 0..MinDelay
  OBVIOUS
<1>4. Typed
  BY <1>2, <1>3 DEF Init, Typed, MonitorInit, MutexInit
<1>5. ASSUME NEW t \in Thread PROVE Standing(t)
  <2>1. Times(<<>>, t) = 0 /\ One(Main, t) \in {0, 1} /\ One(Main, Main) = 1
    BY TimesEmpty DEF One
  <2>2. Tally(t) = One(Main, t) /\ Past(t) = 0
    BY <2>1 DEF Init, MonitorInit, MutexInit, Tally, Past
  <2>3. t \in steady => t = Main
    BY DEF Init
  <2> QED BY <2>1, <2>2, <2>3 DEF Init, MonitorInit, MutexInit, Standing
<1> QED BY <1>4, <1>5 DEF Placed

LEMMA PlacedCreate ==
  ASSUME Placed, NEW t \in Thread, NEW p \in Priorities, Create(t, p)
  PROVE  Placed'
<1>1. /\ t \notin Live \cup Over /\ queue' = Inserted(queue, t, vruntime')
      /\ priority' = [priority EXCEPT ![t] = Clamped(p)]
      /\ vruntime' = [vruntime EXCEPT ![t] = IF queue = <<>> THEN 0 ELSE vruntime[Head(queue)]]
      /\ steady' \in {steady, steady \cup {t}}
      /\ UNCHANGED <<active, nice, sleep, join, zombie, dead, wake, target, mutexQ, monQ, gap, delay>>
  BY DEF Create, Insert, monitor
<1>q. Queues
  BY DEF Placed, Typed
<1>2. queue' \in Seq(Thread) /\ \A u : Times(queue', u) = Times(queue, u) + One(t, u)
  BY <1>1, <1>q, InsertedTimes DEF Queues
<1>3. Clamped(p) \in 0..10
  BY DEF Clamped
<1>4. queue # <<>> => Head(queue) \in Thread
  BY <1>q, Headed DEF Queues
<1>5. vruntime' \in [Thread -> Int]
  BY <1>1, <1>4 DEF Placed, Typed
<1>6. Typed'
  BY <1>1, <1>2, <1>3, <1>5 DEF Placed, Typed, Queues
<1>7. Tally(t) = 0 /\ Past(t) = 0
  <2>1. /\ t \notin ToSet(queue) /\ t \notin ToSet(sleep) /\ t \notin ToSet(join) /\ t # active
        /\ t \notin ToSet(mutexQ) /\ t \notin ToSet(monQ)
        /\ t \notin ToSet(zombie) /\ t \notin ToSet(dead)
    BY <1>1 DEF Live, Blocked, Over
  <2>2. /\ Times(queue, t) = 0 /\ Times(sleep, t) = 0 /\ Times(join, t) = 0
        /\ Times(mutexQ, t) = 0 /\ Times(monQ, t) = 0
        /\ Times(zombie, t) = 0 /\ Times(dead, t) = 0
    BY <1>q, <2>1, Absent DEF Queues
  <2>3. One(active, t) = 0
    BY <2>1 DEF One
  <2> QED BY <2>2, <2>3 DEF Tally, Past
<1>8. ASSUME NEW u \in Thread PROVE Standing(u)'
  <2>1. SumsOf(u)
    BY Sums
  <2>2. Times(queue', u) = Times(queue, u) + One(t, u) /\ One(t, u) = IF u = t THEN 1 ELSE 0
    BY <1>2 DEF One
  <2>3. UNCHANGED <<active, sleep, join, zombie, dead, mutexQ, monQ, gap>>
    BY <1>1
  <2>4. u \in steady' => u \in steady \/ u = t
    BY <1>1
  <2> QED BY <1>7, <2>1, <2>2, <2>3, <2>4 DEF SumsOf, Standing
<1> QED BY <1>6, <1>8 DEF Placed

LEMMA PlacedExit == ASSUME Placed, Exit PROVE Placed'
<1> DEFINE mine == Kept(join, {u \in Thread : Joins(u, active)})
           other == Kept(join, {u \in Thread : ~Joins(u, active)})
           q == InsertedAll(queue, mine, vruntime)
<1>q. Queues /\ active \in Thread
  BY DEF Placed, Typed
<1>1. /\ active \notin gap /\ join' = other /\ NextOf(q)
      /\ \/ zombie' = Append(zombie, active) /\ dead' = dead
         \/ dead' = Append(dead, active) /\ zombie' = zombie
      /\ vruntime' = [vruntime EXCEPT ![active] = 0]
      /\ nice' = [nice EXCEPT ![active] = 0]
      /\ target' = [t \in Thread |-> IF Contains(mine, t) THEN NoThread ELSE target[t]]
      /\ UNCHANGED <<priority, sleep, wake, mutexQ, monQ, gap, delay>>
  BY DEF Exit, InsertAll, Works, monitor
<1>2. /\ mine \in Seq(Thread) /\ other \in Seq(Thread)
      /\ \A u \in Thread : Times(mine, u) + Times(other, u) = Times(join, u)
  <2>1. join \in Seq(Thread)
    BY <1>q DEF Queues
  <2>2. /\ mine \in Seq(Thread) /\ other \in Seq(Thread)
        /\ \A u : Times(mine, u) = IF u \in {v \in Thread : Joins(v, active)} THEN Times(join, u) ELSE 0
        /\ \A u : Times(other, u) = IF u \in {v \in Thread : ~Joins(v, active)} THEN Times(join, u) ELSE 0
    BY <2>1, Split
  <2>3. \A u : Times(join, u) \in Nat
    BY <2>1, TimesType
  <2> HIDE DEF mine, other
  <2> QED BY <2>2, <2>3
<1> HIDE DEF mine, other
<1>3. q \in Seq(Thread) /\ \A u : Times(q, u) = Times(queue, u) + Times(mine, u)
  BY <1>2, <1>q, AllInserted DEF Queues
<1> HIDE DEF q
<1>4. /\ queue' \in Seq(Thread) /\ active' \in Thread /\ steady' = steady \ {active}
      /\ \A t : Times(queue', t) \in Nat /\ One(active', t) \in Nat
      /\ \A t : Times(queue', t) + One(active', t) = Times(q, t)
  BY <1>1, <1>3, SwitchedTo
<1>5. /\ zombie' \in Seq(Thread) /\ dead' \in Seq(Thread)
      /\ \A u : Times(zombie', u) + Times(dead', u) = Times(zombie, u) + Times(dead, u) + One(active, u)
  <2>1. /\ Append(zombie, active) \in Seq(Thread)
        /\ \A t : Times(Append(zombie, active), t) = Times(zombie, t) + One(active, t)
    BY <1>q, Appended DEF Queues
  <2>2. /\ Append(dead, active) \in Seq(Thread)
        /\ \A t : Times(Append(dead, active), t) = Times(dead, t) + One(active, t)
    BY <1>q, Appended DEF Queues
  <2>3. \A u : Times(zombie, u) \in Nat /\ Times(dead, u) \in Nat /\ One(active, u) \in Nat
    BY <1>q, TimesType, OneType DEF Queues
  <2>4. zombie \in Seq(Thread) /\ dead \in Seq(Thread)
    BY <1>q DEF Queues
  <2>5. CASE zombie' = Append(zombie, active) /\ dead' = dead
    BY <2>1, <2>3, <2>4, <2>5
  <2>6. CASE dead' = Append(dead, active) /\ zombie' = zombie
    BY <2>2, <2>3, <2>4, <2>6
  <2> QED BY <1>1, <2>5, <2>6
<1>6. Typed'
  <2>1. vruntime' \in [Thread -> Int] /\ nice' \in [Thread -> 0..10]
    BY <1>1 DEF Placed, Typed
  <2>2. target' \in [Thread -> Thread \cup {NoThread}]
    BY <1>1 DEF Placed, Typed
  <2>3. UNCHANGED <<priority, sleep, wake, mutexQ, monQ, gap, delay>> /\ join' = other
    BY <1>1
  <2> QED BY <1>2, <1>4, <1>5, <2>1, <2>2, <2>3 DEF Placed, Typed, Queues
<1>7. ASSUME NEW u \in Thread PROVE Standing(u)'
  <2>1. SumsOf(u)
    BY Sums
  <2>2. /\ Times(mine, u) + Times(join', u) = Times(join, u) /\ Times(mine, u) \in Nat /\ Times(join', u) \in Nat
        /\ Times(q, u) = Times(queue, u) + Times(mine, u)
        /\ Times(queue', u) \in Nat /\ One(active', u) \in Nat
        /\ Times(queue', u) + One(active', u) = Times(q, u)
        /\ Times(zombie', u) + Times(dead', u) = Times(zombie, u) + Times(dead, u) + One(active, u)
    BY <1>1, <1>2, <1>3, <1>4, <1>5, TimesType
  <2>3. /\ UNCHANGED <<sleep, mutexQ, monQ, gap>> /\ active \notin gap
        /\ steady' = steady \ {active}
    BY <1>1, <1>4
  <2>4. Times(sleep', u) = Times(sleep, u) /\ Times(mutexQ', u) = Times(mutexQ, u) /\ Times(monQ', u) = Times(monQ, u)
    BY <2>3
  <2>5. Tally(u)' = Tally(u) - One(active, u) /\ Past(u)' = Past(u) + One(active, u)
    BY <2>1, <2>2, <2>4 DEF SumsOf
  <2> QED BY <2>1, <2>2, <2>3, <2>4, <2>5 DEF SumsOf, Standing
<1> QED BY <1>6, <1>7 DEF Placed

LEMMA PlacedSleep == ASSUME Placed, NEW n \in Ticks, Sleep(n) PROVE Placed'
<1>q. Queues /\ active \in Thread
  BY DEF Placed, Typed
<1>1. /\ active \notin gap /\ sleep' = Append(sleep, active) /\ NextOf(queue)
      /\ wake' = [wake EXCEPT ![active] = n]
      /\ UNCHANGED <<vruntime, priority, nice, join, zombie, dead, target, mutexQ, monQ, gap, delay>>
  BY DEF Sleep, Works, monitor
<1>2. sleep' \in Seq(Thread) /\ \A u : Times(sleep', u) = Times(sleep, u) + One(active, u)
  BY <1>q, <1>1, Appended DEF Queues
<1>3. /\ queue' \in Seq(Thread) /\ active' \in Thread /\ steady' = steady \ {active}
      /\ \A t : Times(queue', t) \in Nat /\ One(active', t) \in Nat
      /\ \A t : Times(queue', t) + One(active', t) = Times(queue, t)
  BY <1>q, <1>1, SwitchedTo DEF Queues
<1>4. n \in Nat
  OBVIOUS
<1>5. Typed'
  BY <1>1, <1>2, <1>3, <1>4 DEF Placed, Typed, Queues
<1>6. ASSUME NEW u \in Thread PROVE Standing(u)'
  <2>1. SumsOf(u)
    BY Sums
  <2>2. /\ Times(sleep', u) = Times(sleep, u) + One(active, u)
        /\ Times(queue', u) \in Nat /\ One(active', u) \in Nat
        /\ Times(queue', u) + One(active', u) = Times(queue, u)
    BY <1>2, <1>3
  <2>3. UNCHANGED <<join, zombie, dead, mutexQ, monQ, gap>> /\ active \notin gap
        /\ steady' = steady \ {active}
    BY <1>1, <1>3
  <2> QED BY <2>1, <2>2, <2>3 DEF SumsOf, Standing
<1> QED BY <1>5, <1>6 DEF Placed

LEMMA PlacedJoin == ASSUME Placed, NEW v \in Thread, Join(v) PROVE Placed'
<1>q. Queues /\ active \in Thread
  BY DEF Placed, Typed
<1>1. /\ active \notin gap /\ join' = Append(join, active) /\ NextOf(queue)
      /\ target' = [target EXCEPT ![active] = v]
      /\ UNCHANGED <<vruntime, priority, nice, sleep, zombie, dead, wake, mutexQ, monQ, gap, delay>>
  BY DEF Join, Works, monitor
<1>2. join' \in Seq(Thread) /\ \A u : Times(join', u) = Times(join, u) + One(active, u)
  BY <1>q, <1>1, Appended DEF Queues
<1>3. /\ queue' \in Seq(Thread) /\ active' \in Thread /\ steady' = steady \ {active}
      /\ \A t : Times(queue', t) \in Nat /\ One(active', t) \in Nat
      /\ \A t : Times(queue', t) + One(active', t) = Times(queue, t)
  BY <1>q, <1>1, SwitchedTo DEF Queues
<1>4. Typed'
  BY <1>1, <1>2, <1>3 DEF Placed, Typed, Queues
<1>5. ASSUME NEW u \in Thread PROVE Standing(u)'
  <2>1. SumsOf(u)
    BY Sums
  <2>2. /\ Times(join', u) = Times(join, u) + One(active, u)
        /\ Times(queue', u) \in Nat /\ One(active', u) \in Nat
        /\ Times(queue', u) + One(active', u) = Times(queue, u)
    BY <1>2, <1>3
  <2>3. UNCHANGED <<sleep, zombie, dead, mutexQ, monQ, gap>> /\ active \notin gap
        /\ steady' = steady \ {active}
    BY <1>1, <1>3
  <2> QED BY <2>1, <2>2, <2>3 DEF SumsOf, Standing
<1> QED BY <1>4, <1>5 DEF Placed

\* The calls that move no thread.
LEMMA PlacedStill ==
  ASSUME Placed, (\E n \in Nices : Nice(n)) \/ (\E v \in Thread : JoinZombie(v))
  PROVE  Placed'
<1>q. Queues /\ active \in Thread
  BY DEF Placed, Typed
<1>1. /\ UNCHANGED <<queue, active, vruntime, priority, sleep, join, wake, target, mutexQ, monQ,
                     gap, delay, steady>>
      /\ nice' \in [Thread -> 0..10]
  <2>1. ASSUME NEW n \in Nices, Nice(n) PROVE nice' \in [Thread -> 0..10]
    <3>1. n \in Int
      OBVIOUS
    <3>2. NiceOf(n) \in 0..10
      BY <3>1 DEF NiceOf, MaxOf, MinOf
    <3> QED BY <2>1, <3>2 DEF Nice, Placed, Typed
  <2> QED BY <2>1 DEF Nice, JoinZombie, monitor, Placed, Typed
<1>2. /\ zombie' \in Seq(Thread) /\ dead' \in Seq(Thread)
      /\ \A u \in Thread : Past(u)' # 0 => Past(u) # 0
  <2>0. \A u : Times(zombie, u) \in Nat /\ Times(dead, u) \in Nat
    BY <1>q, TimesType DEF Queues
  <2>1. ASSUME NEW v \in Thread, JoinZombie(v)
        PROVE  /\ zombie' \in Seq(Thread) /\ dead' \in Seq(Thread)
               /\ \A u \in Thread : Past(u)' # 0 => Past(u) # 0
    <3>1. zombie' = Kept(zombie, Thread \ {v}) /\ dead' = Append(dead, v) /\ Times(zombie, v) # 0
      BY <1>q, <2>1, Absent DEF JoinZombie, Queues
    <3>2. zombie' \in Seq(Thread) /\ \A u : Times(zombie', u) = IF u \in Thread \ {v} THEN Times(zombie, u) ELSE 0
      BY <1>q, <3>1, Split DEF Queues
    <3>3. dead' \in Seq(Thread) /\ \A u : Times(dead', u) = Times(dead, u) + One(v, u)
      BY <1>q, <3>1, Appended DEF Queues
    <3>4. \A u : One(v, u) = IF u = v THEN 1 ELSE 0
      BY DEF One
    <3>5. ASSUME NEW u \in Thread, Past(u)' # 0 PROVE Past(u) # 0
      <4>1. /\ Times(zombie, u) \in Nat /\ Times(dead, u) \in Nat
            /\ Times(zombie', u) = IF u \in Thread \ {v} THEN Times(zombie, u) ELSE 0
            /\ Times(dead', u) = Times(dead, u) + One(v, u)
            /\ One(v, u) = IF u = v THEN 1 ELSE 0
        BY <2>0, <3>2, <3>3, <3>4
      <4>2. Past(u) = Times(zombie, u) + Times(dead, u) /\ Past(u)' = Times(zombie', u) + Times(dead', u)
        BY DEF Past
      <4>3. CASE u = v
        BY <3>1, <4>1, <4>2, <4>3
      <4>4. CASE u # v
        BY <3>5, <4>1, <4>2, <4>4
      <4> QED BY <4>3, <4>4
    <3> QED BY <3>2, <3>3, <3>5
  <2>2. ASSUME NEW n \in Nices, Nice(n)
        PROVE  /\ zombie' \in Seq(Thread) /\ dead' \in Seq(Thread)
               /\ \A u \in Thread : Past(u)' # 0 => Past(u) # 0
    BY <1>q, <2>2 DEF Nice, Past, Queues
  <2> QED BY <2>1, <2>2
<1>3. Typed'
  BY <1>1, <1>2 DEF Placed, Typed, Queues
<1>4. ASSUME NEW u \in Thread PROVE Standing(u)'
  <2>1. Standing(u) /\ Tally(u)' = Tally(u) /\ (Past(u)' # 0 => Past(u) # 0)
    BY <1>1, <1>2 DEF Placed, Tally
  <2> QED BY <1>1, <2>1 DEF Standing
<1> QED BY <1>3, <1>4 DEF Placed

LEMMA PlacedYield == ASSUME Placed, Yield PROVE Placed'
<1>q. queue \in Seq(Thread) /\ active \in Thread
  BY DEF Placed, Typed, Queues
<1>1. /\ active \notin gap /\ queue # <<>> /\ active' = Head(queue)
      /\ queue' = Inserted(Tail(queue), active, vruntime)
      /\ steady' = steady \ {active}
      /\ UNCHANGED <<vruntime, priority, nice, sleep, join, zombie, dead, wake, target, mutexQ, monQ,
                     gap, delay>>
  BY DEF Yield, Insert, monitor
<1>2. /\ Head(queue) \in Thread /\ Tail(queue) \in Seq(Thread)
      /\ \A t : Times(queue, t) = Times(Tail(queue), t) + One(Head(queue), t)
  BY <1>q, <1>1, Headed
<1>3. /\ queue' \in Seq(Thread)
      /\ \A u : Times(queue', u) = Times(Tail(queue), u) + One(active, u)
  <2> DEFINE rest == Tail(queue)
  <2>1. rest \in Seq(Thread) /\ queue' = Inserted(rest, active, vruntime)
    BY <1>1, <1>2
  <2> HIDE DEF rest
  <2>2. /\ Inserted(rest, active, vruntime) \in Seq(Thread)
        /\ \A u : Times(Inserted(rest, active, vruntime), u) = Times(rest, u) + One(active, u)
    BY <1>q, <2>1, InsertedTimes
  <2> QED BY <2>1, <2>2 DEF rest
<1>4. Typed'
  BY <1>1, <1>2, <1>3 DEF Placed, Typed, Queues
<1>5. ASSUME NEW u \in Thread PROVE Standing(u)'
  <2>1. SumsOf(u)
    BY Sums
  <2>2. /\ Times(queue, u) = Times(Tail(queue), u) + One(active', u)
        /\ Times(queue', u) = Times(Tail(queue), u) + One(active, u)
        /\ Times(Tail(queue), u) \in Nat /\ One(active', u) \in Nat
    BY <1>1, <1>2, <1>3, TimesType, OneType
  <2>3. UNCHANGED <<sleep, join, zombie, dead, mutexQ, monQ, gap>> /\ steady' = steady \ {active}
    BY <1>1
  <2> QED BY <2>1, <2>2, <2>3 DEF SumsOf, Standing
<1> QED BY <1>4, <1>5 DEF Placed

LEMMA PlacedEnter == ASSUME Placed, Enter PROVE Placed'
<1>q. mutexQ \in Seq(Thread) /\ active \in Thread
  BY DEF Placed, Typed, Queues
<1>1. /\ active \notin gap
      /\ UNCHANGED <<queue, active, vruntime, priority, nice, sleep, join, zombie, dead, wake,
                     target, delay, steady, monQ>>
      /\ \/ UNCHANGED <<mutexQ, gap>>
         \/ mutexQ' = Append(mutexQ, active) /\ gap' = gap \cup {active}
  BY DEF Enter, Works, Stays
<1>2. CASE UNCHANGED <<mutexQ, gap>>
  <2>1. Typed'
    BY <1>1, <1>2 DEF Placed, Typed, Queues
  <2>2. ASSUME NEW u \in Thread PROVE Standing(u)'
    <3>1. Standing(u) /\ Tally(u)' = Tally(u) /\ Past(u)' = Past(u)
      BY <1>1, <1>2 DEF Placed, Tally, Past
    <3> QED BY <1>1, <1>2, <3>1 DEF Standing
  <2> QED BY <2>1, <2>2 DEF Placed
<1>3. CASE mutexQ' = Append(mutexQ, active) /\ gap' = gap \cup {active}
  <2>1. mutexQ' \in Seq(Thread) /\ \A u : Times(mutexQ', u) = Times(mutexQ, u) + One(active, u)
    BY <1>q, <1>3, Appended
  <2>2. Typed'
    BY <1>q, <1>1, <1>3, <2>1 DEF Placed, Typed, Queues
  <2>3. ASSUME NEW u \in Thread PROVE Standing(u)'
    <3>1. SumsOf(u)
      BY Sums
    <3>2. Times(mutexQ', u) = Times(mutexQ, u) + One(active, u)
      BY <2>1
    <3>3. /\ UNCHANGED <<queue, active, sleep, join, zombie, dead, monQ, steady>>
          /\ active \notin gap /\ gap' = gap \cup {active}
      BY <1>1, <1>3
    <3> QED BY <3>1, <3>2, <3>3 DEF SumsOf, Standing
  <2> QED BY <2>2, <2>3 DEF Placed
<1> QED BY <1>1, <1>2, <1>3

LEMMA HandedOver ==
  ASSUME Placed, HandOver
  PROVE  /\ queue' \in Seq(Thread) /\ mutexQ' \in Seq(Thread)
         /\ \A u : /\ Times(queue', u) \in Nat /\ Times(mutexQ', u) \in Nat
                   /\ Times(queue, u) <= Times(queue', u)
                   /\ Times(queue', u) + Times(mutexQ', u) = Times(queue, u) + Times(mutexQ, u)
<1>q. queue \in Seq(Thread) /\ mutexQ \in Seq(Thread)
  BY DEF Placed, Typed, Queues
<1>0. \A u : Times(queue, u) \in Nat /\ Times(mutexQ, u) \in Nat
  BY <1>q, TimesType
<1>1. CASE mutexQ = <<>>
  <2>1. queue' = queue /\ mutexQ' = mutexQ
    BY <1>1 DEF HandOver
  <2> QED BY <1>q, <1>0, <2>1
<1>2. CASE mutexQ # <<>>
  <2>1. mutexQ' = Tail(mutexQ) /\ queue' = Inserted(queue, Head(mutexQ), vruntime)
    BY <1>2 DEF HandOver, Insert
  <2>2. /\ Head(mutexQ) \in Thread /\ Tail(mutexQ) \in Seq(Thread)
        /\ \A u : Times(mutexQ, u) = Times(Tail(mutexQ), u) + One(Head(mutexQ), u)
    BY <1>q, <1>2, Headed
  <2>3. /\ queue' \in Seq(Thread)
        /\ \A u : Times(queue', u) = Times(queue, u) + One(Head(mutexQ), u)
    BY <1>q, <2>1, <2>2, InsertedTimes
  <2>4. \A u : Times(Tail(mutexQ), u) \in Nat /\ One(Head(mutexQ), u) \in Nat
    BY <2>2, TimesType, OneType
  <2> QED BY <1>0, <2>1, <2>2, <2>3, <2>4
<1> QED BY <1>1, <1>2

LEMMA PlacedLeave == ASSUME Placed, Leave \/ Wait PROVE Placed'
<1>q. monQ \in Seq(Thread) /\ active \in Thread
  BY DEF Placed, Typed, Queues
<1>1. /\ active \notin gap /\ HandOver
      /\ UNCHANGED <<active, vruntime, priority, nice, sleep, join, zombie, dead, wake,
                     target, delay, steady>>
      /\ \/ UNCHANGED <<monQ, gap>>
         \/ monQ' = Append(monQ, active) /\ gap' = gap \cup {active}
  BY DEF Leave, Wait, Works, Stays
<1>2. /\ queue' \in Seq(Thread) /\ mutexQ' \in Seq(Thread)
      /\ \A u : /\ Times(queue', u) \in Nat /\ Times(mutexQ', u) \in Nat
                /\ Times(queue, u) <= Times(queue', u)
                /\ Times(queue', u) + Times(mutexQ', u) = Times(queue, u) + Times(mutexQ, u)
  BY <1>1, HandedOver
<1>3. CASE UNCHANGED <<monQ, gap>>
  <2>1. Typed'
    BY <1>1, <1>2, <1>3 DEF Placed, Typed, Queues
  <2>2. ASSUME NEW u \in Thread PROVE Standing(u)'
    <3>1. SumsOf(u)
      BY Sums
    <3>2. UNCHANGED <<active, sleep, join, zombie, dead, monQ, gap, steady>>
      BY <1>1, <1>3
    <3>3. /\ Times(queue', u) \in Nat /\ Times(mutexQ', u) \in Nat
          /\ Times(queue, u) <= Times(queue', u)
          /\ Times(queue', u) + Times(mutexQ', u) = Times(queue, u) + Times(mutexQ, u)
      BY <1>2
    <3> QED BY <3>1, <3>2, <3>3 DEF SumsOf, Standing
  <2> QED BY <2>1, <2>2 DEF Placed
<1>4. CASE monQ' = Append(monQ, active) /\ gap' = gap \cup {active}
  <2>1. monQ' \in Seq(Thread) /\ \A u : Times(monQ', u) = Times(monQ, u) + One(active, u)
    BY <1>q, <1>4, Appended
  <2>2. Typed'
    BY <1>q, <1>1, <1>2, <1>4, <2>1 DEF Placed, Typed, Queues
  <2>3. ASSUME NEW u \in Thread PROVE Standing(u)'
    <3>1. SumsOf(u)
      BY Sums
    <3>2. /\ UNCHANGED <<active, sleep, join, zombie, dead, steady>>
          /\ active \notin gap /\ gap' = gap \cup {active}
      BY <1>1, <1>4
    <3>3. /\ Times(queue', u) \in Nat /\ Times(mutexQ', u) \in Nat
          /\ Times(queue, u) <= Times(queue', u)
          /\ Times(queue', u) + Times(mutexQ', u) = Times(queue, u) + Times(mutexQ, u)
          /\ Times(monQ', u) = Times(monQ, u) + One(active, u)
      BY <1>2, <2>1
    <3> QED BY <3>1, <3>2, <3>3 DEF SumsOf, Standing
  <2> QED BY <2>2, <2>3 DEF Placed
<1> QED BY <1>1, <1>3, <1>4

LEMMA PlacedSignal == ASSUME Placed, Signal(1) \/ Signal(Len(monQ)) PROVE Placed'
<1>q. mutexQ \in Seq(Thread) /\ monQ \in Seq(Thread) /\ Len(monQ) \in Nat /\ (monQ # <<>> => Len(monQ) # 0)
  BY LenProperties, EmptySeq DEF Placed, Typed, Queues
<1>1. PICK n \in 0 .. Len(monQ) : Signal(n)
  <2>1. monQ # <<>>
    BY DEF Signal
  <2>2. 1 \in 0 .. Len(monQ) /\ Len(monQ) \in 0 .. Len(monQ)
    BY <1>q, <2>1
  <2> QED BY <2>2
<1> DEFINE first == SubSeq(monQ, 1, n)
<1>2. /\ mutexQ' = mutexQ \o first
      /\ monQ' = SubSeq(monQ, n + 1, Len(monQ))
      /\ UNCHANGED <<queue, active, vruntime, priority, nice, sleep, join, zombie, dead, wake,
                     target, delay, steady, gap>>
  BY <1>1 DEF Signal, Stays
<1>3. /\ first \in Seq(Thread) /\ monQ' \in Seq(Thread)
      /\ \A u : Times(first, u) + Times(monQ', u) = Times(monQ, u)
  BY <1>q, <1>2, Parted
<1> HIDE DEF first
<1>4. /\ mutexQ' \in Seq(Thread)
      /\ \A u : Times(mutexQ', u) = Times(mutexQ, u) + Times(first, u)
  BY <1>q, <1>2, <1>3, Joined
<1>5. Typed'
  BY <1>2, <1>3, <1>4 DEF Placed, Typed, Queues
<1>6. ASSUME NEW u \in Thread PROVE Standing(u)'
  <2>1. SumsOf(u)
    BY Sums
  <2>2. /\ Times(first, u) + Times(monQ', u) = Times(monQ, u)
        /\ Times(mutexQ', u) = Times(mutexQ, u) + Times(first, u)
        /\ Times(first, u) \in Nat /\ Times(monQ', u) \in Nat
    BY <1>3, <1>4, TimesType
  <2>3. UNCHANGED <<queue, active, sleep, join, zombie, dead, gap, steady>>
    BY <1>2
  <2>4. Tally(u)' = Tally(u) /\ Past(u)' = Past(u)
    BY <2>1, <2>2, <2>3 DEF SumsOf
  <2> QED BY <2>1, <2>3, <2>4 DEF SumsOf, Standing
<1> QED BY <1>5, <1>6 DEF Placed

LEMMA PlacedLeaveProcessor == ASSUME Placed, LeaveProcessor PROVE Placed'
<1>q. queue \in Seq(Thread) /\ active \in Thread
  BY DEF Placed, Typed, Queues
<1>1. /\ active \in gap /\ gap' = gap \ {active} /\ NextOf(queue)
      /\ UNCHANGED <<vruntime, priority, nice, sleep, join, zombie, dead, wake, target, mutexQ, monQ,
                     delay>>
  BY DEF LeaveProcessor, monitor
<1>2. /\ queue' \in Seq(Thread) /\ active' \in Thread /\ steady' = steady \ {active}
      /\ \A t : Times(queue', t) \in Nat /\ One(active', t) \in Nat
      /\ \A t : Times(queue', t) + One(active', t) = Times(queue, t)
  BY <1>q, <1>1, SwitchedTo
<1>3. Typed'
  BY <1>1, <1>2 DEF Placed, Typed, Queues
<1>4. ASSUME NEW u \in Thread PROVE Standing(u)'
  <2>1. SumsOf(u)
    BY Sums
  <2>2. /\ Times(queue', u) \in Nat /\ One(active', u) \in Nat
        /\ Times(queue', u) + One(active', u) = Times(queue, u)
    BY <1>2
  <2>3. UNCHANGED <<sleep, join, zombie, dead, mutexQ, monQ>> /\ active \in gap /\ gap' = gap \ {active}
        /\ steady' = steady \ {active}
    BY <1>1, <1>2
  <2> QED BY <2>1, <2>2, <2>3 DEF SumsOf, Standing
<1> QED BY <1>3, <1>4 DEF Placed

\* The threads a tick wakes, and the run queue with them.
Up == Kept(sleep, {t \in Thread : Due(t)})
Ready == InsertedAll(queue, Up, vruntime)

LEMMA Woken ==
  ASSUME Placed
  PROVE  /\ Ready \in Seq(Thread) /\ Kept(sleep, {t \in Thread : ~Due(t)}) \in Seq(Thread)
         /\ \A t \in Thread : \E n \in Nat :
              /\ Times(Ready, t) = Times(queue, t) + n
              /\ Times(sleep, t) = Times(Kept(sleep, {u \in Thread : ~Due(u)}), t) + n
              /\ Times(Kept(sleep, {u \in Thread : ~Due(u)}), t) \in Nat
<1> DEFINE rest == Kept(sleep, {t \in Thread : ~Due(t)})
<1>q. queue \in Seq(Thread) /\ sleep \in Seq(Thread)
  BY DEF Placed, Typed, Queues
<1>1. /\ Up \in Seq(Thread) /\ rest \in Seq(Thread)
      /\ \A u : Times(Up, u) = IF u \in {v \in Thread : Due(v)} THEN Times(sleep, u) ELSE 0
      /\ \A u : Times(rest, u) = IF u \in {v \in Thread : ~Due(v)} THEN Times(sleep, u) ELSE 0
  BY <1>q, Split DEF Up
<1>2. Ready \in Seq(Thread) /\ \A u : Times(Ready, u) = Times(queue, u) + Times(Up, u)
  BY <1>q, <1>1, AllInserted DEF Ready
<1> HIDE DEF rest
<1>3. ASSUME NEW t \in Thread
      PROVE  \E n \in Nat : /\ Times(Ready, t) = Times(queue, t) + n
                            /\ Times(sleep, t) = Times(rest, t) + n
                            /\ Times(rest, t) \in Nat
  <2>1. Times(sleep, t) \in Nat /\ Times(Up, t) \in Nat /\ Times(rest, t) \in Nat
    BY <1>q, <1>1, TimesType
  <2>2. Times(sleep, t) = Times(rest, t) + Times(Up, t)
    BY <1>1, <2>1
  <2>3. Times(Ready, t) = Times(queue, t) + Times(Up, t)
    BY <1>2
  <2> QED BY <2>1, <2>2, <2>3
<1> QED BY <1>1, <1>2, <1>3 DEF rest

\* What a tick does to the run queue.
Charges == [treatOverflow(vruntime) EXCEPT ![active] = @ + Cost(active)]
LEMMA Ticked ==
  ASSUME Tick
  PROVE  /\ ~Twice /\ sleep' = Kept(sleep, {t \in Thread : ~Due(t)}) /\ vruntime' = Charges
         /\ wake' = [t \in Thread |-> MaxOf(wake[t] - 1, 0)]
         /\ UNCHANGED <<priority, nice, join, zombie, dead, target, mutexQ, monQ, gap, steady>>
         /\ \/ delay < MinDelay /\ delay' = delay + 1 /\ queue' = Ready /\ active' = active
            \/ /\ ~ (delay < MinDelay) /\ queue' = Ready /\ UNCHANGED <<active, delay>>
               /\ Ready = <<>> \/ vruntime'[active] < vruntime'[Head(Ready)]
            \/ /\ ~ (delay < MinDelay) /\ delay' = 0 /\ Ready # <<>> /\ active' = Head(Ready)
               /\ queue' = Inserted(Tail(Ready), active, vruntime')
               /\ ~ (vruntime'[active] < vruntime'[Head(Ready)])
BY DEF Tick, Ready, Up, Charges, InsertAll, Insert, Deserves, Beyond, monitor

LEMMA ChargesType == ASSUME Placed PROVE Charges \in [Thread -> Int]
<1>1. /\ vruntime \in [Thread -> Int] /\ active \in Thread
      /\ priority \in [Thread -> 0..10] /\ nice \in [Thread -> 0..10]
      /\ queue \in Seq(Thread) /\ sleep \in Seq(Thread) /\ join \in Seq(Thread)
      /\ mutexQ \in Seq(Thread) /\ monQ \in Seq(Thread)
  BY DEF Placed, Typed, Queues
<1>2. Shifted \in Seq(Thread)
  BY <1>1 DEF Shifted
<1>3. \A t \in Thread : Times(Shifted, t) \in Nat
  BY <1>2, TimesType
<1>4. \A t \in Thread : vruntime[active] * Times(Shifted, t) \in Int
  BY <1>1, <1>3
<1>5. treatOverflow(vruntime) \in [Thread -> Int]
  BY <1>1, <1>4 DEF treatOverflow
<1>6. Cost(active) \in Int
  <2>1. priority[active] \in 0..10 /\ nice[active] \in 0..10
    BY <1>1
  <2> QED BY <2>1 DEF Cost
<1> QED BY <1>1, <1>5, <1>6 DEF Charges

LEMMA PlacedTick == ASSUME Placed, Tick PROVE Placed'
<1> DEFINE rest == Kept(sleep, {t \in Thread : ~Due(t)})
<1>q. Queues /\ active \in Thread /\ MinDelay \in Nat /\ delay \in 0..MinDelay /\ wake \in [Thread -> Nat]
  BY DEF Placed, Typed
<1>1. /\ sleep' = rest
      /\ UNCHANGED <<priority, nice, join, zombie, dead, target, mutexQ, monQ, gap, steady>>
  BY Ticked
<1>2. /\ Ready \in Seq(Thread) /\ rest \in Seq(Thread)
      /\ \A t \in Thread : \E n \in Nat : /\ Times(Ready, t) = Times(queue, t) + n
                                          /\ Times(sleep, t) = Times(rest, t) + n
                                          /\ Times(rest, t) \in Nat
  BY Woken
<1> HIDE DEF rest
<1>3. vruntime' \in [Thread -> Int]
  BY Ticked, ChargesType
<1>4. wake' \in [Thread -> Nat]
  <2>1. wake' = [t \in Thread |-> MaxOf(wake[t] - 1, 0)]
    BY Ticked
  <2>2. \A t \in Thread : MaxOf(wake[t] - 1, 0) \in Nat
    BY <1>q DEF MaxOf
  <2> QED BY <2>1, <2>2
<1>5. /\ queue' \in Seq(Thread) /\ active' \in Thread /\ delay' \in 0..MinDelay
      /\ \A t : /\ Times(queue', t) \in Nat /\ One(active', t) \in Nat /\ One(active, t) \in Nat
                /\ Times(queue', t) + One(active', t) = Times(Ready, t) + One(active, t)
  <2>0. \A t : Times(Ready, t) \in Nat /\ One(active, t) \in Nat
    BY <1>2, TimesType, OneType
  <2>1. CASE queue' = Ready /\ active' = active
    <3>1. delay' \in 0..MinDelay
      BY <1>q, Ticked
    <3> QED BY <1>q, <1>2, <2>0, <2>1, <3>1
  <2>2. CASE /\ delay' = 0 /\ Ready # <<>> /\ active' = Head(Ready)
             /\ queue' = Inserted(Tail(Ready), active, vruntime')
    <3> DEFINE last == Tail(Ready)
    <3>1. /\ Head(Ready) \in Thread /\ last \in Seq(Thread)
          /\ \A t : Times(Ready, t) = Times(last, t) + One(Head(Ready), t)
      BY <1>2, <2>2, Headed
    <3>2. queue' = Inserted(last, active, vruntime')
      BY <2>2
    <3> HIDE DEF last
    <3>3. /\ queue' \in Seq(Thread)
          /\ \A t : Times(queue', t) = Times(last, t) + One(active, t)
      <4>1. ASSUME NEW w
            PROVE  /\ Inserted(last, active, w) \in Seq(Thread)
                   /\ \A t : Times(Inserted(last, active, w), t) = Times(last, t) + One(active, t)
        BY <1>q, <3>1, InsertedTimes
      <4> QED BY <3>2, <4>1
    <3>4. \A t : Times(last, t) \in Nat /\ One(Head(Ready), t) \in Nat
      BY <3>1, TimesType, OneType
    <3>5. ASSUME NEW t
          PROVE  /\ Times(queue', t) \in Nat /\ One(active', t) \in Nat /\ One(active, t) \in Nat
                 /\ Times(queue', t) + One(active', t) = Times(Ready, t) + One(active, t)
      <4>1. active' = Head(Ready)
        BY <2>2
      <4>2. /\ Times(queue', t) = Times(last, t) + One(active, t)
            /\ Times(Ready, t) = Times(last, t) + One(active', t)
            /\ Times(last, t) \in Nat /\ One(active', t) \in Nat /\ One(active, t) \in Nat
        BY <2>0, <3>1, <3>3, <3>4, <4>1
      <4> QED BY <4>2
    <3> QED BY <1>q, <2>2, <3>1, <3>3, <3>5
  <2> QED BY <2>1, <2>2, Ticked
<1>6. Typed'
  BY <1>q, <1>1, <1>2, <1>3, <1>4, <1>5 DEF Placed, Typed, Queues
<1>7. ASSUME NEW u \in Thread PROVE Standing(u)'
  <2>1. SumsOf(u)
    BY Sums
  <2>2. PICK n \in Nat : /\ Times(Ready, u) = Times(queue, u) + n
                         /\ Times(sleep, u) = Times(sleep', u) + n
                         /\ Times(sleep', u) \in Nat
    BY <1>1, <1>2
  <2>3. /\ Times(queue', u) \in Nat /\ One(active', u) \in Nat /\ One(active, u) \in Nat
        /\ Times(queue', u) + One(active', u) = Times(Ready, u) + One(active, u)
    BY <1>5
  <2>4. UNCHANGED <<join, zombie, dead, mutexQ, monQ, gap, steady>>
    BY <1>1
  <2>5. Tally(u)' = Tally(u) /\ Past(u)' = Past(u)
    BY <2>1, <2>2, <2>3, <2>4 DEF SumsOf
  <2> QED BY <2>1, <2>2, <2>3, <2>4, <2>5 DEF SumsOf, Standing
<1> QED BY <1>6, <1>7 DEF Placed

LEMMA PlacedNext == ASSUME Placed, [Next]_vars PROVE Placed'
<1>1. CASE UNCHANGED vars
  <2>1. Typed'
    BY <1>1 DEF vars, monitor, Placed, Typed, Queues
  <2>2. \A t \in Thread : Standing(t)'
    BY <1>1 DEF vars, monitor, Placed, Standing, Tally, Past
  <2> QED BY <2>1, <2>2 DEF Placed
<1>2. CASE Next
  BY <1>2, PlacedCreate, PlacedExit, PlacedSleep, PlacedJoin, PlacedStill, PlacedYield, PlacedEnter,
     PlacedLeave, PlacedSignal, PlacedLeaveProcessor, PlacedTick DEF Next
<1> QED BY <1>1, <1>2

LEMMA PlacedHolds == Spec => []Placed
<1>1. Placed /\ [Next]_vars => Placed'
  BY PlacedNext
<1> QED BY <1>1, PlacedInit, PTL DEF Spec

-----------------------------------------------------------------------------
\* The run queue in order.
InOrder == Sorted(queue, vruntime)

\* The processor after a switch goes to the one with the least virtual run time.
LEMMA SwitchedInOrder ==
  ASSUME NEW q \in Seq(Thread), NEW vr \in [Thread -> Int], Sorted(q, vr), q # <<>>,
         active' = Head(q)
  PROVE  \A t \in Thread : Times(q, t) # 0 => vr[active'] <= vr[t]
<1>1. \A t \in ToSet(q) : vr[Head(q)] <= vr[t]
  BY SortedHead
<1> QED BY <1>1, Absent

\* A queue in order stays so when its threads keep their virtual run times.
LEMMA SortedSame ==
  ASSUME NEW q \in Seq(Thread), NEW vr \in [Thread -> Int], NEW wr \in [Thread -> Int], Sorted(q, vr),
         \A t \in Thread : Times(q, t) # 0 => wr[t] = vr[t]
  PROVE  Sorted(q, wr)
<1>1. ToSet(q) \subseteq Thread
  BY ElementOfSeq, LenProperties DEF ToSet
<1>2. ASSUME NEW t \in ToSet(q) PROVE wr[t] = vr[t] - 0
  <2>1. t \in Thread /\ Times(q, t) # 0
    BY <1>1, Absent
  <2>2. vr[t] \in Int
    BY <2>1
  <2> QED BY <2>1, <2>2
<1>3. 0 \in Int /\ \A t \in ToSet(q) : wr[t] = vr[t] - 0
  BY <1>2
<1> QED
  <2> DEFINE d == 0
  <2>1. d \in Int /\ \A t \in ToSet(q) : wr[t] = vr[t] - d
    BY <1>3
  <2> HIDE DEF d
  <2> QED BY <2>1, SortedShift

\* The threads that wait: in all queues together a thread stands as often as it
\* stands anywhere, but for the processor.
LEMMA ShiftedIs ==
  ASSUME Placed, NEW t \in Thread
  PROVE  /\ Shifted \in Seq(Thread) /\ Times(Shifted, t) \in Nat
         /\ Tally(t) = Times(Shifted, t) + One(active, t)
<1> DEFINE a == queue \o sleep
           b == a \o join
           c == b \o mutexQ
           d == c \o monQ
<1>q. /\ queue \in Seq(Thread) /\ sleep \in Seq(Thread) /\ join \in Seq(Thread)
      /\ mutexQ \in Seq(Thread) /\ monQ \in Seq(Thread)
  BY DEF Placed, Typed, Queues
<1>0. Shifted = d
  BY DEF Shifted
<1>1. a \in Seq(Thread) /\ Times(a, t) = Times(queue, t) + Times(sleep, t)
  BY <1>q, Joined
<1> HIDE DEF a
<1>2. b \in Seq(Thread) /\ Times(b, t) = Times(a, t) + Times(join, t)
  BY <1>q, <1>1, Joined
<1> HIDE DEF b
<1>3. c \in Seq(Thread) /\ Times(c, t) = Times(b, t) + Times(mutexQ, t)
  BY <1>q, <1>2, Joined
<1> HIDE DEF c
<1>4. d \in Seq(Thread) /\ Times(d, t) = Times(c, t) + Times(monQ, t)
  BY <1>q, <1>3, Joined
<1> HIDE DEF d
<1>5. SumsOf(t)
  BY Sums
<1> QED BY <1>0, <1>1, <1>2, <1>3, <1>4, <1>5, TimesType DEF SumsOf

\* What a tick does to the virtual run time of a thread in the queue: the
\* overflow takes the same from all of them.
LEMMA Charged ==
  ASSUME Placed, ~Twice
  PROVE  /\ \E d \in Int : /\ \A t \in Thread : Times(Ready, t) # 0 => t # active /\ Charges[t] = vruntime[t] - d
                           /\ Charges[active] = vruntime[active] - d + Cost(active)
         /\ Charges \in [Thread -> Int]
<1> DEFINE d == IF vruntime[active] < Limit THEN 0 ELSE vruntime[active]
<1>q. /\ vruntime \in [Thread -> Int] /\ active \in Thread /\ Limit \in Int /\ queue \in Seq(Thread)
      /\ sleep \in Seq(Thread) /\ join \in Seq(Thread) /\ mutexQ \in Seq(Thread) /\ monQ \in Seq(Thread)
  BY DEF Placed, Typed, Queues
<1>0. d \in Int /\ vruntime[active] \in Int /\ Charges \in [Thread -> Int]
  BY <1>q, ChargesType
<1>1. ASSUME NEW t \in Thread, Times(Ready, t) # 0
      PROVE  t # active /\ Charges[t] = vruntime[t] - d
  <2>1. SumsOf(t)
    BY Sums
  <2>2. \E n \in Nat : Times(Ready, t) = Times(queue, t) + n /\ Times(sleep, t) >= n
    <3>1. PICK n \in Nat : /\ Times(Ready, t) = Times(queue, t) + n
                           /\ Times(sleep, t) = Times(Kept(sleep, {u \in Thread : ~Due(u)}), t) + n
                           /\ Times(Kept(sleep, {u \in Thread : ~Due(u)}), t) \in Nat
      BY Woken
    <3> QED BY <3>1
  <2>3. Times(queue, t) # 0 \/ Times(sleep, t) # 0
    BY <1>1, <2>1, <2>2 DEF SumsOf
  <2>4. t \in gap => Times(queue, t) # 0 /\ Times(sleep, t) = 0
    BY <2>1, <2>3 DEF SumsOf, Standing
  <2>5. t \in gap => Contains(queue, t)
    BY <1>q, <2>4, Absent
  <2>6. t # active
    <3>1. SUFFICES ASSUME t = active PROVE FALSE
      OBVIOUS
    <3>2. t \in gap
      BY <2>1, <2>3, <3>1 DEF SumsOf, Standing
    <3> QED BY <2>5, <3>1, <3>2 DEF Twice
  <2>7. CASE vruntime[active] < Limit
    <3>1. Charges[t] = vruntime[t]
      BY <1>q, <2>6, <2>7 DEF Charges, treatOverflow
    <3>2. vruntime[t] \in Int
      BY <1>q
    <3> QED BY <2>6, <2>7, <3>1, <3>2
  <2>8. CASE ~ (vruntime[active] < Limit)
    <3>1. t \notin gap
      BY <1>0, <1>q, <2>5, <2>8 DEF Twice
    <3>2. Tally(t) = 1 /\ One(active, t) = 0
      BY <2>1, <2>3, <2>6, <3>1 DEF SumsOf, Standing
    <3>4. Times(Shifted, t) = 1
      BY <3>2, ShiftedIs
    <3>5. Charges[t] = vruntime[t] - vruntime[active] * Times(Shifted, t)
      BY <1>q, <2>6, <2>8 DEF Charges, treatOverflow
    <3>6. vruntime[active] * 1 = vruntime[active] /\ vruntime[t] \in Int
      BY <1>0, <1>q
    <3> QED BY <2>6, <2>8, <3>4, <3>5, <3>6
  <2> QED BY <2>7, <2>8
<1>2. Charges[active] = vruntime[active] - d + Cost(active)
  <2>1. CASE vruntime[active] < Limit
    <3>1. Charges[active] = vruntime[active] + Cost(active)
      BY <1>q, <2>1 DEF Charges, treatOverflow
    <3> QED BY <1>0, <2>1, <3>1
  <2>2. CASE ~ (vruntime[active] < Limit)
    <3>1. Charges[active] = 0 + Cost(active)
      BY <1>q, <2>2 DEF Charges, treatOverflow
    <3> QED BY <1>0, <2>2, <3>1
  <2> QED BY <2>1, <2>2
<1> QED BY <1>0, <1>1, <1>2

\* The calls that give the processor away: to the first of q, a queue in order
\* that holds all that stay runnable.
GivesTo(q) ==
  /\ q \in Seq(Thread) /\ Sorted(q, vruntime) /\ q # <<>>
  /\ active' = Head(q) /\ steady' = steady \ {active} /\ delay' = delay
  /\ \A t \in steady \ {active} : Times(q, t) # 0
  /\ \/ vruntime' = vruntime /\ queue' \in {Tail(q), Inserted(Tail(q), active, vruntime)}
     \/ /\ vruntime' = [vruntime EXCEPT ![active] = 0] /\ queue' = Tail(q)
        /\ Times(q, active) = 0
Switches ==
  Exit \/ (\E n \in Ticks : Sleep(n)) \/ (\E v \in Thread : Join(v)) \/ Yield \/ LeaveProcessor

LEMMA SwitchesGive == ASSUME Placed, InOrder, Switches PROVE \E q : GivesTo(q)
<1>q. Queues /\ active \in Thread /\ vruntime \in [Thread -> Int] /\ steady \subseteq Thread
  BY DEF Placed, Typed
<1>0. ASSUME NEW t \in steady \ {active} PROVE Times(queue, t) # 0
  <2>1. SumsOf(t) /\ t \in steady
    BY <1>q, Sums
  <2>2. Times(queue, t) + One(active, t) # 0
    BY <2>1 DEF SumsOf, Standing
  <2>3. One(active, t) = 0 /\ Times(queue, t) \in Nat
    BY <2>1 DEF SumsOf
  <2> QED BY <2>2, <2>3
<1>1. ASSUME NextOf(queue), UNCHANGED <<vruntime, delay>> PROVE GivesTo(queue)
  BY <1>0, <1>1, <1>q DEF GivesTo, NextOf, InOrder, Queues
<1>2. CASE Yield
  <2>1. GivesTo(queue)
    BY <1>0, <1>2, <1>q DEF GivesTo, Yield, Insert, InOrder, Queues
  <2> QED BY <2>1
<1>3. CASE (\E n \in Ticks : Sleep(n)) \/ (\E v \in Thread : Join(v)) \/ LeaveProcessor
  <2>1. NextOf(queue) /\ UNCHANGED <<vruntime, delay>>
    BY <1>3 DEF Sleep, Join, LeaveProcessor
  <2> QED BY <1>1, <2>1
<1>4. CASE Exit
  <2> DEFINE mine == Kept(join, {u \in Thread : Joins(u, active)})
             q == InsertedAll(queue, mine, vruntime)
  <2>1. /\ active \notin gap /\ NextOf(q) /\ delay' = delay
        /\ vruntime' = [vruntime EXCEPT ![active] = 0]
    BY <1>4 DEF Exit, InsertAll, Works
  <2>2. mine \in Seq(Thread) /\ \A u : Times(mine, u) \in {0, Times(join, u)}
    <3>1. join \in Seq(Thread)
      BY <1>q DEF Queues
    <3>2. /\ mine \in Seq(Thread)
          /\ \A u : Times(mine, u) = IF u \in {v \in Thread : Joins(v, active)} THEN Times(join, u) ELSE 0
      BY <3>1, Split
    <3> HIDE DEF mine
    <3> QED BY <3>2
  <2> HIDE DEF mine
  <2>3. q \in Seq(Thread) /\ \A u : Times(q, u) = Times(queue, u) + Times(mine, u)
    BY <1>q, <2>2, AllInserted DEF Queues
  <2>4. Sorted(q, vruntime)
    BY <1>q, <2>2, AllSorted DEF Queues, InOrder
  <2> HIDE DEF q
  <2>5. Times(q, active) = 0
    <3>1. SumsOf(active)
      BY <1>q, Sums
    <3>2. Times(queue, active) = 0 /\ Times(join, active) = 0
      BY <2>1, <3>1 DEF SumsOf, Standing
    <3> QED BY <2>2, <2>3, <3>2
  <2>6. ASSUME NEW t \in steady \ {active} PROVE Times(q, t) # 0
    <3>1. Times(queue, t) # 0
      BY <1>0
    <3>2. Times(queue, t) \in Nat /\ Times(mine, t) \in Nat
      BY <1>q, <2>2, TimesType DEF Queues
    <3> QED BY <2>3, <3>1, <3>2
  <2>7. GivesTo(q)
    BY <2>1, <2>3, <2>4, <2>5, <2>6 DEF GivesTo, NextOf
  <2> QED BY <2>7
<1> QED BY <1>2, <1>3, <1>4 DEF Switches

LEMMA OrderInit == Init => InOrder
BY DEF Init, InOrder, Sorted

LEMMA OrderSwitches == ASSUME Placed, InOrder, Switches PROVE InOrder'
<1>q. vruntime \in [Thread -> Int] /\ active \in Thread
  BY DEF Placed, Typed
<1>1. PICK q : GivesTo(q)
  BY SwitchesGive
<1> DEFINE rest == Tail(q)
<1>2. /\ rest \in Seq(Thread) /\ Sorted(rest, vruntime)
      /\ Times(q, active) = 0 => Times(rest, active) = 0
  <2>1. q \in Seq(Thread) /\ q # <<>> /\ Sorted(q, vruntime)
    BY <1>1 DEF GivesTo
  <2>2. rest \in Seq(Thread) /\ Sorted(rest, vruntime)
    BY <1>q, <2>1, SortedHead, HeadTailProperties
  <2>3. Times(q, active) = Times(rest, active) + One(Head(q), active)
    BY <2>1, Headed
  <2>4. Times(rest, active) \in Nat /\ One(Head(q), active) \in Nat
    BY <2>2, TimesType, OneType
  <2> QED BY <2>2, <2>3, <2>4
<1>3. CASE vruntime' = vruntime /\ queue' = rest
  BY <1>2, <1>3 DEF InOrder
<1>4. CASE vruntime' = vruntime /\ queue' = Inserted(rest, active, vruntime)
  <2> HIDE DEF rest
  <2>1. Sorted(Inserted(rest, active, vruntime), vruntime)
    BY <1>q, <1>2, InsertedSorted
  <2> QED BY <1>4, <2>1 DEF InOrder
<1>5. CASE vruntime' = [vruntime EXCEPT ![active] = 0] /\ queue' = rest /\ Times(q, active) = 0
  <2> DEFINE wr == [vruntime EXCEPT ![active] = 0]
  <2>1. wr \in [Thread -> Int] /\ \A t \in Thread : t # active => wr[t] = vruntime[t]
    BY <1>q
  <2>2. \A t \in Thread : Times(rest, t) # 0 => wr[t] = vruntime[t]
    BY <1>2, <1>5, <2>1
  <2> HIDE DEF wr, rest
  <2>3. Sorted(rest, wr)
    BY <1>q, <1>2, <2>1, <2>2, SortedSame
  <2> QED BY <1>5, <2>3 DEF InOrder, wr
<1> QED BY <1>1, <1>3, <1>4, <1>5 DEF GivesTo

LEMMA ReadyInOrder == ASSUME Placed, InOrder, ~Twice PROVE Sorted(Ready, Charges)
<1>q. Queues /\ vruntime \in [Thread -> Int]
  BY DEF Placed, Typed
<1>1. Up \in Seq(Thread) /\ Ready \in Seq(Thread)
  BY <1>q, Split, Woken DEF Up, Queues
<1>2. Sorted(Ready, vruntime)
  BY <1>q, <1>1, AllSorted DEF Queues, InOrder, Ready
<1>3. PICK d \in Int : \A t \in Thread : Times(Ready, t) # 0 => t # active /\ Charges[t] = vruntime[t] - d
  BY Charged
<1>4. ASSUME NEW t \in ToSet(Ready) PROVE Charges[t] = vruntime[t] - d
  <2>1. t \in Thread /\ Times(Ready, t) # 0
    BY <1>1, <1>4, Absent, ElementOfSeq, LenProperties DEF ToSet
  <2> QED BY <1>3, <2>1
<1> QED BY <1>q, <1>1, <1>2, <1>4, ChargesType, SortedShift

LEMMA OrderTick == ASSUME Placed, InOrder, Tick PROVE InOrder'
<1>q. active \in Thread
  BY DEF Placed, Typed
<1>1. /\ Ready \in Seq(Thread) /\ Sorted(Ready, Charges)
      /\ Charges \in [Thread -> Int] /\ vruntime' = Charges
  BY Woken, Ticked, ReadyInOrder, ChargesType
<1>2. CASE queue' = Ready
  BY <1>1, <1>2 DEF InOrder
<1>3. CASE Ready # <<>> /\ queue' = Inserted(Tail(Ready), active, vruntime')
  <2> DEFINE last == Tail(Ready)
  <2>1. last \in Seq(Thread) /\ Sorted(last, Charges)
    BY <1>1, <1>3, SortedHead, HeadTailProperties
  <2>2. queue' = Inserted(last, active, Charges)
    BY <1>1, <1>3
  <2> HIDE DEF last
  <2>3. Sorted(Inserted(last, active, Charges), Charges)
    BY <1>q, <1>1, <2>1, InsertedSorted
  <2> QED BY <1>1, <2>2, <2>3 DEF InOrder
<1> QED BY <1>2, <1>3, Ticked

LEMMA CreateIs ==
  ASSUME Placed, NEW t \in Thread, NEW p \in Priorities, Create(t, p)
  PROVE  /\ t \notin steady /\ Times(queue, t) = 0 /\ t # active /\ Tally(t) = 0
         /\ vruntime' \in [Thread -> Int]
         /\ \A u \in Thread \ {t} : vruntime'[u] = vruntime[u]
         /\ vruntime'[t] = IF queue = <<>> THEN 0 ELSE vruntime[Head(queue)]
<1>1. /\ t \notin Live \cup Over
      /\ vruntime' = [vruntime EXCEPT ![t] = IF queue = <<>> THEN 0 ELSE vruntime[Head(queue)]]
  BY DEF Create
<1>q. Queues /\ vruntime \in [Thread -> Int]
  BY DEF Placed, Typed
<1>2. queue # <<>> => Head(queue) \in Thread
  BY <1>q, Headed DEF Queues
<1>3. /\ t \notin ToSet(queue) /\ t \notin ToSet(sleep) /\ t \notin ToSet(join)
      /\ t \notin ToSet(mutexQ) /\ t \notin ToSet(monQ) /\ t # active
  BY <1>1 DEF Live, Blocked
<1>4. /\ Times(queue, t) = 0 /\ Times(sleep, t) = 0 /\ Times(join, t) = 0
      /\ Times(mutexQ, t) = 0 /\ Times(monQ, t) = 0
  BY <1>3, <1>q, Absent DEF Queues
<1>5. SumsOf(t)
  BY Sums
<1>6. t \notin steady /\ Tally(t) = 0
  BY <1>3, <1>4, <1>5 DEF SumsOf, Standing
<1> QED BY <1>q, <1>1, <1>2, <1>3, <1>4, <1>6

LEMMA OrderNext == ASSUME Placed, InOrder, [Next]_vars PROVE InOrder'
<1>q. Queues /\ vruntime \in [Thread -> Int]
  BY DEF Placed, Typed
<1>1. ASSUME UNCHANGED <<queue, vruntime>> PROVE InOrder'
  BY <1>1 DEF InOrder
<1>2. ASSUME NEW t \in Thread, NEW p \in Priorities, Create(t, p) PROVE InOrder'
  <2>1. queue' = Inserted(queue, t, vruntime')
    BY <1>2 DEF Create, Insert
  <2>2. /\ vruntime' \in [Thread -> Int]
        /\ \A u \in Thread : Times(queue, u) # 0 => vruntime'[u] = vruntime[u]
    BY <1>2, CreateIs
  <2>3. PICK wr : wr = vruntime'
    OBVIOUS
  <2>4. Sorted(queue, wr)
    BY <1>q, <2>2, <2>3, SortedSame DEF Queues, InOrder
  <2>5. Sorted(Inserted(queue, t, wr), wr)
    BY <1>q, <2>2, <2>3, <2>4, InsertedSorted DEF Queues
  <2> QED BY <2>1, <2>3, <2>5 DEF InOrder
<1>3. CASE Leave \/ Wait
  <2>1. HandOver /\ vruntime' = vruntime
    BY <1>3 DEF Leave, Wait, Stays
  <2>2. CASE mutexQ = <<>>
    BY <1>1, <2>1, <2>2 DEF HandOver
  <2>3. CASE mutexQ # <<>>
    <3>1. queue' = Inserted(queue, Head(mutexQ), vruntime) /\ Head(mutexQ) \in Thread
      BY <1>q, <2>1, <2>3, Headed DEF HandOver, Insert, Queues
    <3>2. Sorted(Inserted(queue, Head(mutexQ), vruntime), vruntime)
      BY <1>q, <3>1, InsertedSorted DEF Queues, InOrder
    <3> QED BY <2>1, <3>1, <3>2 DEF InOrder
  <2> QED BY <2>2, <2>3
<1>4. CASE Enter \/ Signal(1) \/ Signal(Len(monQ)) \/ (\E n \in Nices : Nice(n)) \/ \E v \in Thread : JoinZombie(v)
  BY <1>1, <1>4 DEF Enter, Signal, Nice, JoinZombie, Stays
<1>5. CASE UNCHANGED vars
  BY <1>1, <1>5 DEF vars
<1> QED BY <1>2, <1>3, <1>4, <1>5, OrderSwitches, OrderTick DEF Next, Switches

LEMMA OrderHolds == Spec => []InOrder
<1>1. Placed /\ InOrder /\ [Next]_vars => InOrder'
  BY OrderNext
<1> QED BY <1>1, OrderInit, PlacedHolds, PTL DEF Spec

LEMMA PlacedShows == Placed /\ InOrder => QueueInOrder
<1> SUFFICES ASSUME Placed, InOrder PROVE QueueInOrder
  OBVIOUS
<1>q. Queues
  BY DEF Placed, Typed
<1>1. ASSUME NEW t \in Thread
      PROVE  /\ t \in Live <=> Tally(t) # 0
             /\ t \in Over <=> Past(t) # 0
  <2>1. SumsOf(t)
    BY Sums
  <2>2. /\ t \in ToSet(queue) <=> Times(queue, t) # 0
        /\ t \in ToSet(sleep) <=> Times(sleep, t) # 0
        /\ t \in ToSet(join) <=> Times(join, t) # 0
        /\ t \in ToSet(mutexQ) <=> Times(mutexQ, t) # 0
        /\ t \in ToSet(monQ) <=> Times(monQ, t) # 0
        /\ t \in ToSet(zombie) <=> Times(zombie, t) # 0
        /\ t \in ToSet(dead) <=> Times(dead, t) # 0
    BY <1>q, Absent DEF Queues
  <2>3. /\ t \in Live <=> \/ t \in ToSet(queue) \/ t \in ToSet(sleep) \/ t \in ToSet(join)
                          \/ t \in ToSet(mutexQ) \/ t \in ToSet(monQ) \/ t = active
        /\ t \in Over <=> t \in ToSet(zombie) \/ t \in ToSet(dead)
    BY DEF Live, Blocked, Over
  <2>4. Tally(t) # 0 <=> \/ Times(queue, t) # 0 \/ Times(sleep, t) # 0 \/ Times(join, t) # 0
                         \/ Times(mutexQ, t) # 0 \/ Times(monQ, t) # 0 \/ t = active
    BY <2>1 DEF SumsOf
  <2>5. Past(t) # 0 <=> Times(zombie, t) # 0 \/ Times(dead, t) # 0
    BY <2>1 DEF SumsOf
  <2> QED BY <2>2, <2>3, <2>4, <2>5
<1>2. Live \subseteq Thread
  <2>1. ASSUME NEW q \in Seq(Thread) PROVE ToSet(q) \subseteq Thread
    BY ElementOfSeq, LenProperties DEF ToSet
  <2> QED BY <1>q, <2>1 DEF Live, Blocked, Queues, Placed, Typed
<1>3. steady \subseteq Live
  <2>1. ASSUME NEW t \in steady PROVE t \in Live
    <3>1. t \in Thread /\ SumsOf(t)
      BY Sums DEF Placed, Typed
    <3>2. Tally(t) # 0
      BY <3>1 DEF SumsOf, Standing
    <3> QED BY <1>1, <3>1, <3>2
  <2> QED BY <2>1
<1>4. TypeOK
  BY <1>q, <1>3 DEF TypeOK, Placed, Typed, Queues
<1>5. ASSUME NEW t \in Live PROVE Times(<<active>> \o Shifted, t) = IF t \in gap THEN 2 ELSE 1
  <2>1. t \in Thread /\ Tally(t) # 0 /\ Standing(t)
    BY <1>1, <1>2 DEF Placed
  <2>2. <<active>> \in Seq(Thread) /\ Times(<<active>>, t) = One(active, t)
    BY TimesOne DEF One, Placed, Typed
  <2>3. /\ Shifted \in Seq(Thread) /\ Times(Shifted, t) \in Nat
        /\ Tally(t) = Times(Shifted, t) + One(active, t)
    BY <2>1, ShiftedIs
  <2>4. Times(<<active>> \o Shifted, t) = Times(<<active>>, t) + Times(Shifted, t)
    BY <2>2, <2>3, TimesConcat
  <2>5. Times(<<active>> \o Shifted, t) = Tally(t)
    BY <2>2, <2>3, <2>4, OneType
  <2> QED BY <2>1, <2>5 DEF Standing
<1>6. Live \cap Over = {}
  <2>1. ASSUME NEW t \in Live \cap Over PROVE FALSE
    BY <1>1, <1>2 DEF Placed, Standing
  <2> QED BY <2>1
<1> QED BY <1>4, <1>5, <1>6 DEF QueueInOrder, InOrder, Sorted

\* The run queue of the fair scheduler is in the order of virtual run times in
\* every state, whatever sthread_user_create, exit, the mutex and the dispatcher
\* put into it and however treatOverflow moves them; and each thread that is not
\* over is in one place, or in two from the moment it is queued for the mutex or
\* the monitor until it leaves the processor.
THEOREM QueueInOrderHolds == Spec => []QueueInOrder
BY PlacedHolds, OrderHolds, PlacedShows, PTL

-----------------------------------------------------------------------------
\* What a thread pays for a tick: a priority of 0 is also that of a thread which
\* does not exist yet, and only the main thread has one that no call gave it.
Pays ==
  /\ nice[Main] = 0
  /\ \A t \in Thread : /\ nice[t] \in {NiceOf(n) : n \in Nices \cup {0}}
                       /\ \/ t = Main /\ priority[t] = 1
                          \/ priority[t] \in {Clamped(p) : p \in Priorities \cup {0}}

\* Between two looks at the queue, the active thread runs ahead by what delay
\* ticks cost.
Lead == active \in steady => \A u \in steady : vruntime[active] - vruntime[u] <= delay * HighestCost
Fair == Pays /\ Lead /\ FairShare

LEMMA Multiples ==
  \A h \in Nat : \A d, m \in Nat :
    /\ d * h \in Nat /\ 0 * h = 0 /\ (d + 1) * h = d * h + h
    /\ d <= m => d * h <= m * h
<1> SUFFICES ASSUME NEW h \in Nat, NEW d \in Nat, NEW m \in Nat
             PROVE  /\ d * h \in Nat /\ 0 * h = 0 /\ (d + 1) * h = d * h + h
                    /\ d <= m => d * h <= m * h
  OBVIOUS
<1>1. d * h \in Nat /\ 0 * h = 0 /\ (d + 1) * h = d * h + h
  OBVIOUS
<1>2. ASSUME d <= m PROVE d * h <= m * h
  <2>1. m - d \in Nat
    BY <1>2
  <2>2. (m - d) * h \in Nat
    BY <2>1
  <2>3. m * h = d * h + (m - d) * h
    OBVIOUS
  <2> QED BY <1>1, <2>2, <2>3
<1> QED BY <1>1, <1>2

LEMMA HighestIs == HighestCost \in Nat /\ \A c \in Costs : c \in Nat /\ c <= HighestCost
<1>1. \A p \in Priorities \cup {0} : Clamped(p) \in 0..10
  BY DEF Clamped
<1>2. \A n \in Nices \cup {0} : NiceOf(n) \in 0..10
  BY DEF NiceOf, MaxOf, MinOf
<1>3. Costs \subseteq 0..20
  <2>1. ASSUME NEW p \in Priorities \cup {0}, NEW n \in Nices \cup {0} PROVE Clamped(p) + NiceOf(n) \in 0..20
    BY <1>1, <1>2
  <2> QED BY <2>1 DEF Costs
<1>4. 1 \in Costs
  BY DEF Costs
<1> DEFINE T == {20 - c : c \in Costs}
<1>5. T \in SUBSET Nat /\ T # {}
  <2>1. PICK e : e \in Costs
    BY <1>4
  <2>2. 20 - e \in T
    BY <2>1
  <2>3. \A c \in Costs : 20 - c \in Nat
    BY <1>3
  <2> QED BY <2>2, <2>3
<1>6. PICK m \in T : \A k \in T : m <= k
  <2> HIDE DEF T
  <2> QED BY <1>5, LeastNumber
<1>7. PICK c \in Costs : m = 20 - c
  BY <1>6
<1>8. \A e \in Costs : e <= c
  <2> SUFFICES ASSUME NEW e \in Costs PROVE e <= c
    OBVIOUS
  <2>1. 20 - c <= 20 - e
    BY <1>6, <1>7
  <2> QED BY <1>3, <2>1
<1>9. HighestCost \in Costs /\ \A e \in Costs : e <= HighestCost
  BY <1>8 DEF HighestCost
<1> QED BY <1>3, <1>9

LEMMA CostIs == ASSUME Placed, Pays PROVE Cost(active) \in Nat /\ Cost(active) <= HighestCost
<1>1. active \in Thread
  BY DEF Placed, Typed
<1>2. PICK n \in Nices \cup {0} : nice[active] = NiceOf(n)
  BY <1>1 DEF Pays
<1>3. CASE active = Main /\ priority[active] = 1
  <2>1. Cost(active) = 1
    BY <1>3 DEF Cost, Pays
  <2>2. Cost(active) \in Costs
    BY <2>1 DEF Costs
  <2> QED BY <2>2, HighestIs
<1>4. CASE \E p \in Priorities \cup {0} : priority[active] = Clamped(p)
  <2>1. Cost(active) \in Costs
    BY <1>2, <1>4 DEF Cost, Costs
  <2> QED BY <2>1, HighestIs
<1> QED BY <1>1, <1>3, <1>4 DEF Pays

LEMMA FairInit == Init => Fair
<1> SUFFICES ASSUME Init PROVE Fair
  OBVIOUS
<1>1. NiceOf(0) = 0 /\ Clamped(0) = 0
  BY DEF NiceOf, MaxOf, MinOf, Clamped
<1>2. Pays
  BY <1>1, FairThreadsAssumption DEF Init, Pays
<1>3. \A t, u \in steady : vruntime[t] - vruntime[u] = 0
  BY DEF Init
<1>4. /\ 0 <= delay * HighestCost
      /\ 0 <= (MinDelay + 1) * HighestCost
  <2>1. HighestCost \in Nat /\ delay \in Nat /\ MinDelay + 1 \in Nat
    BY HighestIs DEF Init
  <2>2. delay * HighestCost \in Nat /\ (MinDelay + 1) * HighestCost \in Nat
    BY <2>1, Multiples
  <2> QED BY <2>2
<1>5. Lead /\ FairShare
  BY <1>3, <1>4 DEF Lead, FairShare, Init
<1> QED BY <1>2, <1>5 DEF Fair

LEMMA PaysNext == ASSUME Placed, Pays, [Next]_vars PROVE Pays'
<1>q. priority \in [Thread -> 0..10] /\ nice \in [Thread -> 0..10]
  BY DEF Placed, Typed
<1>0. NiceOf(0) = 0
  BY DEF NiceOf, MaxOf, MinOf
<1>1. ASSUME NEW t \in Thread, NEW p \in Priorities, Create(t, p) PROVE Pays'
  BY <1>1, <1>q DEF Create, Pays
<1>2. ASSUME NEW n \in Nices, Nice(n) PROVE Pays'
  BY <1>2, <1>q DEF Nice, Works, Pays
<1>3. CASE Exit
  BY <1>0, <1>3, <1>q DEF Exit, Works, Pays
<1>4. ASSUME UNCHANGED <<priority, nice>> PROVE Pays'
  BY <1>4 DEF Pays
<1>5. CASE \/ \E n \in Ticks : Sleep(n)
           \/ \E u \in Thread : JoinZombie(u) \/ Join(u)
           \/ Enter \/ Leave \/ Wait \/ Signal(1) \/ Signal(Len(monQ)) \/ LeaveProcessor
           \/ Yield \/ Tick \/ UNCHANGED vars
  <2>1. UNCHANGED <<priority, nice>>
    BY <1>5 DEF Sleep, JoinZombie, Join, Enter, Leave, Wait, Signal, LeaveProcessor, Yield, Tick,
                Stays, vars
  <2> QED BY <1>4, <2>1
<1> QED BY <1>1, <1>2, <1>3, <1>5 DEF Next

\* Who gets the processor has the least virtual run time.
LEMMA FairSwitches == ASSUME Placed, InOrder, Lead, FairShare, Switches PROVE Lead' /\ FairShare'
<1>q. vruntime \in [Thread -> Int] /\ active \in Thread /\ steady \subseteq Thread /\ delay \in Nat
  BY DEF Placed, Typed
<1>1. PICK q : GivesTo(q)
  BY SwitchesGive
<1>2. /\ q \in Seq(Thread) /\ Sorted(q, vruntime) /\ q # <<>>
      /\ active' = Head(q) /\ steady' = steady \ {active} /\ delay' = delay
      /\ \A t \in steady \ {active} : Times(q, t) # 0
  BY <1>1 DEF GivesTo
<1>3. \A t \in steady' : t \in Thread /\ t \in steady /\ vruntime'[t] = vruntime[t] /\ vruntime[t] \in Int
  BY <1>q, <1>1, <1>2 DEF GivesTo
<1>4. FairShare'
  BY <1>3 DEF FairShare
<1>5. \A t \in Thread : Times(q, t) # 0 => vruntime[active'] <= vruntime[t]
  BY <1>q, <1>2, SwitchedInOrder
<1>6. 0 <= delay' * HighestCost
  <2>1. delay' * HighestCost \in Nat
    BY <1>q, <1>2, HighestIs, Multiples
  <2> QED BY <2>1
<1>7. ASSUME active' \in steady', NEW u \in steady' PROVE vruntime'[active'] - vruntime'[u] <= delay' * HighestCost
  <2>1. vruntime[active'] <= vruntime[u]
    BY <1>2, <1>3, <1>5, <1>7
  <2>2. /\ vruntime'[active'] = vruntime[active'] /\ vruntime'[u] = vruntime[u]
        /\ vruntime[active'] \in Int /\ vruntime[u] \in Int
    BY <1>3, <1>7
  <2>3. delay' * HighestCost \in Nat
    BY <1>q, <1>2, HighestIs, Multiples
  <2> QED BY <2>1, <2>2, <2>3
<1> QED BY <1>4, <1>7 DEF Lead

LEMMA FairCreate ==
  ASSUME Placed, Lead, FairShare, NEW t \in Thread, NEW p \in Priorities, Create(t, p)
  PROVE  Lead' /\ FairShare'
<1>q. Queues /\ vruntime \in [Thread -> Int] /\ active \in Thread /\ steady \subseteq Thread /\ delay \in Nat
  BY DEF Placed, Typed
<1>0. /\ active = Main /\ UNCHANGED <<active, delay>>
      /\ steady' = IF (IF queue = <<>> THEN vruntime[Main] = 0 ELSE Head(queue) \in steady)
                   THEN steady \cup {t} ELSE steady
  BY DEF Create
<1>1. /\ t \notin steady /\ t # active
      /\ \A u \in steady : vruntime'[u] = vruntime[u] /\ vruntime[u] \in Int
      /\ vruntime'[t] = IF queue = <<>> THEN 0 ELSE vruntime[Head(queue)]
  BY <1>q, CreateIs
<1>2. HighestCost \in Nat /\ delay * HighestCost \in Nat /\ (MinDelay + 1) * HighestCost \in Nat
  BY <1>q, HighestIs, Multiples
\* A steady thread, if t is one of them, has the virtual run time that t gets.
<1>3. ASSUME t \in steady', steady # {}
      PROVE  \E h \in steady : vruntime[h] = vruntime'[t]
  <2>1. CASE queue = <<>>
    <3>1. ASSUME NEW u \in steady PROVE u = Main
      <4>1. SumsOf(u)
        BY <1>q, Sums
      <4>2. Times(queue, u) = 0
        BY <2>1, TimesEmpty
      <4> QED BY <1>0, <4>1, <4>2 DEF SumsOf, Standing
    <3>2. vruntime[Main] = 0
      BY <1>0, <1>1, <1>3, <2>1
    <3> QED BY <1>1, <1>3, <2>1, <3>1, <3>2
  <2>2. CASE queue # <<>>
    BY <1>0, <1>1, <1>3, <2>2
  <2> QED BY <2>1, <2>2
<1>4. ASSUME NEW u \in steady' PROVE u = t \/ u \in steady
  BY <1>0, <1>4
<1>5. \A u \in steady' : \E h \in steady \cup {t} :
        /\ vruntime'[u] = vruntime'[h]
        /\ steady # {} => h \in steady /\ vruntime'[h] = vruntime[h] /\ vruntime[h] \in Int
  <2> SUFFICES ASSUME NEW u \in steady'
               PROVE  \E h \in steady \cup {t} :
                        /\ vruntime'[u] = vruntime'[h]
                        /\ steady # {} => h \in steady /\ vruntime'[h] = vruntime[h] /\ vruntime[h] \in Int
    OBVIOUS
  <2>1. CASE u \in steady
    BY <1>1, <2>1
  <2>2. CASE u = t /\ steady # {}
    BY <1>1, <1>3, <2>2
  <2>3. CASE u = t /\ steady = {}
    BY <2>3
  <2> QED BY <1>4, <2>1, <2>2, <2>3
<1>6. ASSUME NEW u \in steady', NEW v \in steady' PROVE vruntime'[u] - vruntime'[v] <= (MinDelay + 1) * HighestCost
  <2>1. CASE steady = {}
    <3>1. u = t /\ v = t
      BY <1>4, <2>1
    <3>2. vruntime'[t] \in Int
      BY CreateIs
    <3> QED BY <1>2, <3>1, <3>2
  <2>2. CASE steady # {}
    <3>1. PICK h \in steady : vruntime'[u] = vruntime[h]
      BY <1>5, <2>2
    <3>2. PICK k \in steady : vruntime'[v] = vruntime[k]
      BY <1>5, <2>2
    <3> QED BY <3>1, <3>2 DEF FairShare
  <2> QED BY <2>1, <2>2
<1>7. ASSUME active' \in steady', NEW u \in steady' PROVE vruntime'[active'] - vruntime'[u] <= delay' * HighestCost
  <2>1. active \in steady /\ active' = active /\ delay' = delay
    BY <1>0, <1>1, <1>4, <1>7
  <2>2. PICK h \in steady : vruntime'[u] = vruntime[h]
    BY <1>5, <2>1
  <2> QED BY <1>1, <2>1, <2>2 DEF Lead
<1> QED BY <1>6, <1>7 DEF Lead, FairShare

\* What a tick does to those that always want the processor.
LEMMA SteadyCharged ==
  ASSUME Placed, Pays, Tick
  PROVE  \E d \in Int, c \in Nat :
           /\ c <= HighestCost
           /\ \A u \in steady : /\ vruntime[u] \in Int
                                /\ vruntime'[u] = vruntime[u] - d + (IF u = active THEN c ELSE 0)
                                /\ u # active => Times(Ready, u) # 0
<1>q. vruntime \in [Thread -> Int] /\ active \in Thread /\ steady \subseteq Thread
  BY DEF Placed, Typed
<1>1. PICK d \in Int :
        /\ \A t \in Thread : Times(Ready, t) # 0 => t # active /\ Charges[t] = vruntime[t] - d
        /\ Charges[active] = vruntime[active] - d + Cost(active)
  BY Ticked, Charged
<1>2. PICK c \in Nat : c = Cost(active) /\ c <= HighestCost
  BY CostIs
<1>3. vruntime' = Charges
  BY Ticked
<1>4. ASSUME NEW u \in steady
      PROVE  /\ vruntime[u] \in Int
             /\ vruntime'[u] = vruntime[u] - d + (IF u = active THEN c ELSE 0)
             /\ u # active => Times(Ready, u) # 0
  <2>1. u \in Thread /\ SumsOf(u)
    BY <1>q, Sums
  <2>2. PICK n \in Nat : Times(Ready, u) = Times(queue, u) + n
    BY <2>1, Woken
  <2>3. u # active => Times(Ready, u) # 0
    BY <2>1, <2>2 DEF SumsOf, Standing
  <2>4. vruntime[u] \in Int
    BY <1>q, <2>1
  <2>5. CASE u = active
    BY <1>1, <1>2, <1>3, <2>4, <2>5
  <2>6. CASE u # active
    <3>1. vruntime'[u] = vruntime[u] - d
      BY <1>1, <1>3, <2>1, <2>3, <2>6
    <3> QED BY <2>3, <2>4, <2>6, <3>1
  <2> QED BY <2>5, <2>6
<1> QED BY <1>2, <1>4

LEMMA FairTick == ASSUME Placed, InOrder, Fair, Tick PROVE Lead' /\ FairShare'
<1>q. active \in Thread /\ steady \subseteq Thread /\ delay \in Nat /\ delay <= MinDelay
  BY DEF Placed, Typed
<1> DEFINE H == HighestCost
<1>0. H \in Nat
  BY HighestIs
<1>1. PICK d \in Int, c \in Nat :
        /\ c <= H
        /\ \A u \in steady : /\ vruntime[u] \in Int
                             /\ vruntime'[u] = vruntime[u] - d + (IF u = active THEN c ELSE 0)
                             /\ u # active => Times(Ready, u) # 0
  BY SteadyCharged DEF Fair
<1>2. steady' = steady /\ vruntime' = Charges
  BY Ticked
<1>3. \A u, v \in steady : vruntime[u] - vruntime[v] <= (MinDelay + 1) * H
  BY DEF Fair, FairShare
<1>4. active \in steady => \A u \in steady : vruntime[active] - vruntime[u] <= delay * H
  BY DEF Fair, Lead
<1> HIDE DEF H
<1>5. /\ delay * H \in Nat /\ (delay + 1) * H = delay * H + H
      /\ (delay + 1) * H \in Nat /\ (MinDelay + 1) * H \in Nat
      /\ (delay + 1) * H <= (MinDelay + 1) * H
  <2>1. delay + 1 \in Nat /\ MinDelay + 1 \in Nat /\ delay + 1 <= MinDelay + 1
    BY <1>q
  <2> QED BY <1>q, <1>0, <2>1, Multiples
<1>6. ASSUME NEW u \in steady, active \in steady
      PROVE  vruntime'[active] - vruntime'[u] <= (delay + 1) * H
  <2>1. CASE u = active
    <3>1. vruntime'[u] \in Int
      BY <1>1
    <3> QED BY <1>5, <2>1, <3>1
  <2>2. CASE u # active
    <3>1. /\ vruntime'[active] = vruntime[active] - d + c /\ vruntime'[u] = vruntime[u] - d + 0
          /\ vruntime[active] \in Int /\ vruntime[u] \in Int /\ c <= H
      BY <1>1, <1>6, <2>2
    <3>2. vruntime[active] - vruntime[u] <= delay * H
      BY <1>4, <1>6
    <3> QED BY <1>0, <1>5, <3>1, <3>2
  <2> QED BY <2>1, <2>2
<1>7. ASSUME NEW u \in steady, NEW v \in steady
      PROVE  vruntime'[u] - vruntime'[v] <= (MinDelay + 1) * H
  <2>1. CASE u = active
    <3>1. vruntime'[active] - vruntime'[v] <= (delay + 1) * H
      BY <1>6, <2>1
    <3>2. vruntime'[active] \in Int /\ vruntime'[v] \in Int
      BY <1>1, <2>1
    <3> QED BY <1>5, <2>1, <3>1, <3>2
  <2>2. CASE u # active
    <3>1. /\ vruntime'[u] = vruntime[u] - d + 0
          /\ vruntime'[v] = vruntime[v] - d + (IF v = active THEN c ELSE 0)
          /\ vruntime[u] \in Int /\ vruntime[v] \in Int
      BY <1>1, <2>2
    <3>2. vruntime[u] - vruntime[v] <= (MinDelay + 1) * H
      BY <1>3
    <3> QED BY <1>5, <3>1, <3>2
  <2> QED BY <2>1, <2>2
<1>8. FairShare'
  BY <1>2, <1>7 DEF FairShare, H
\* The first thread of the queue has the least virtual run time.
<1>9. ASSUME Ready # <<>>, NEW u \in steady, u # active
      PROVE  vruntime'[Head(Ready)] <= vruntime'[u]
  <2>1. Ready \in Seq(Thread) /\ Charges \in [Thread -> Int]
    BY Woken, ChargesType
  <2>2. Sorted(Ready, Charges)
    BY ReadyInOrder, Ticked
  <2>3. u \in ToSet(Ready)
    BY <1>q, <1>1, <1>9, <2>1, Absent
  <2>4. Charges[Head(Ready)] <= Charges[u]
    BY <1>9, <2>1, <2>2, <2>3, SortedHead
  <2> QED BY <1>2, <2>4
<1>10. Ready # <<>> => vruntime'[Head(Ready)] \in Int
  <2>1. Ready \in Seq(Thread) /\ Charges \in [Thread -> Int]
    BY Woken, ChargesType
  <2> QED BY <1>2, <2>1, Headed
<1>11. ASSUME active' \in steady', NEW u \in steady'
       PROVE  vruntime'[active'] - vruntime'[u] <= delay' * H
  <2>u. u \in steady /\ vruntime'[u] \in Int
    BY <1>1, <1>2, <1>11
  <2>1. CASE delay' = delay + 1 /\ active' = active
    BY <1>2, <1>6, <1>11, <2>1
  <2>2. CASE /\ UNCHANGED <<active, delay>>
             /\ Ready = <<>> \/ vruntime'[active] < vruntime'[Head(Ready)]
    <3>1. active \in steady /\ vruntime'[active] \in Int
      BY <1>1, <1>2, <1>11, <2>2
    <3>2. CASE u = active
      BY <1>5, <2>2, <3>1, <3>2
    <3>3. CASE u # active
      <4>1. Ready # <<>>
        <5>1. Times(Ready, u) # 0
          BY <1>1, <2>u, <3>3
        <5> QED BY <5>1, TimesEmpty
      <4>2. vruntime'[active] < vruntime'[Head(Ready)] /\ vruntime'[Head(Ready)] <= vruntime'[u]
        BY <1>9, <2>2, <2>u, <3>3, <4>1
      <4> QED BY <1>5, <1>10, <2>2, <2>u, <3>1, <4>1, <4>2
    <3> QED BY <3>2, <3>3
  <2>3. CASE /\ delay' = 0 /\ Ready # <<>> /\ active' = Head(Ready)
             /\ ~ (vruntime'[active] < vruntime'[Head(Ready)])
    <3>1. vruntime'[Head(Ready)] <= vruntime'[u]
      <4>1. CASE u = active
        BY <1>10, <2>3, <2>u, <4>1
      <4>2. CASE u # active
        BY <1>9, <2>3, <2>u, <4>2
      <4> QED BY <4>1, <4>2
    <3>2. delay' * H = 0
      BY <1>0, <2>3, Multiples
    <3>3. vruntime'[active'] = vruntime'[Head(Ready)]
      BY <2>3
    <3> QED BY <1>10, <2>3, <2>u, <3>1, <3>2, <3>3
  <2> QED BY <2>1, <2>2, <2>3, Ticked
<1> QED BY <1>8, <1>11 DEF Lead, H

LEMMA FairNext == ASSUME Placed, InOrder, Fair, [Next]_vars PROVE Fair'
<1>1. Pays'
  BY PaysNext DEF Fair
<1>2. Lead' /\ FairShare'
  <2>1. ASSUME UNCHANGED <<active, vruntime, delay, steady>> PROVE Lead' /\ FairShare'
    BY <2>1 DEF Fair, Lead, FairShare
  <2>2. CASE \/ \E n \in Nices : Nice(n)
             \/ \E u \in Thread : JoinZombie(u)
             \/ Enter \/ Leave \/ Wait \/ Signal(1) \/ Signal(Len(monQ)) \/ UNCHANGED vars
    <3>1. UNCHANGED <<active, vruntime, delay, steady>>
      BY <2>2 DEF Nice, JoinZombie, Enter, Leave, Wait, Signal, Stays, vars
    <3> QED BY <2>1, <3>1
  <2>3. CASE Switches
    BY <2>3, FairSwitches DEF Fair
  <2>4. CASE Tick
    BY <2>4, FairTick
  <2>5. ASSUME NEW t \in Thread, NEW p \in Priorities, Create(t, p) PROVE Lead' /\ FairShare'
    BY <2>5, FairCreate DEF Fair
  <2> QED BY <2>2, <2>3, <2>4, <2>5 DEF Next, Switches
<1> QED BY <1>1, <1>2 DEF Fair

LEMMA FairHolds == Spec => []Fair
<1>1. Placed /\ InOrder /\ Fair /\ [Next]_vars => Fair'
  BY FairNext
<1> QED BY <1>1, FairInit, PlacedHolds, OrderHolds, PTL DEF Spec

\* Of two threads that have always been runnable and have not yielded, none has
\* been given more than the other by more than it can pay in MIN_DELAY + 1 ticks:
\* whatever threads the dispatcher wakes, sthread_user_create starts, or join and
\* the monitor take away and bring back, and whether or not treatOverflow runs.
THEOREM FairShareHolds == Spec => []FairShare
<1>1. Fair => FairShare
  BY DEF Fair
<1> QED BY <1>1, FairHolds, PTL

-----------------------------------------------------------------------------
LEMMA LiveIs ==
  ASSUME Placed, NEW t \in Live
  PROVE  t \in Thread /\ Tally(t) # 0
<1>q. Queues /\ active \in Thread
  BY DEF Placed, Typed
<1>1. \/ t \in ToSet(queue) \/ t \in ToSet(sleep) \/ t \in ToSet(join)
      \/ t \in ToSet(mutexQ) \/ t \in ToSet(monQ) \/ t = active
  BY DEF Live, Blocked
<1>2. t \in Thread
  BY <1>q, <1>1, ElementOfSeq, LenProperties DEF ToSet, Queues
<1>3. \/ Times(queue, t) # 0 \/ Times(sleep, t) # 0 \/ Times(join, t) # 0
      \/ Times(mutexQ, t) # 0 \/ Times(monQ, t) # 0 \/ t = active
  BY <1>q, <1>1, Absent DEF Queues
<1>4. SumsOf(t)
  BY <1>2, Sums
<1> QED BY <1>2, <1>3, <1>4 DEF SumsOf

\* The threads whose distances a step may not change.
Waits(t) == t \in Live \ (gap \cup {active})

LEMMA TickShifts ==
  ASSUME Placed, Tick
  PROVE  \E d \in Int : \A t : Waits(t) => vruntime[t] \in Int /\ vruntime'[t] = vruntime[t] - d
<1> DEFINE d == IF vruntime[active] < Limit THEN 0 ELSE vruntime[active]
<1>q. vruntime \in [Thread -> Int] /\ active \in Thread
  BY DEF Placed, Typed
<1>0. d \in Int
  BY <1>q
<1>1. ASSUME NEW t, Waits(t) PROVE vruntime[t] \in Int /\ vruntime'[t] = vruntime[t] - d
  <2>1. t \in Thread /\ Tally(t) # 0 /\ t \notin gap /\ t # active
    BY <1>1, LiveIs DEF Waits
  <2>2. Tally(t) = 1 /\ One(active, t) = 0
    BY <2>1 DEF Placed, Standing, One
  <2>3. Times(Shifted, t) = 1
    BY <2>1, <2>2, ShiftedIs
  <2>4. vruntime[t] \in Int /\ vruntime[active] \in Int /\ vruntime[active] * 1 = vruntime[active]
    BY <1>q, <2>1
  <2>5. vruntime' = Charges
    BY Ticked
  <2>6. CASE vruntime[active] < Limit
    <3>1. Charges[t] = vruntime[t]
      BY <1>q, <2>1, <2>6 DEF Charges, treatOverflow
    <3> QED BY <2>4, <2>5, <2>6, <3>1
  <2>7. CASE ~ (vruntime[active] < Limit)
    <3>1. Charges[t] = vruntime[t] - vruntime[active] * Times(Shifted, t)
      BY <1>q, <2>1, <2>7 DEF Charges, treatOverflow
    <3> QED BY <2>3, <2>4, <2>5, <2>7, <3>1
  <2> QED BY <2>6, <2>7
<1> QED BY <1>0, <1>1

\* A tick keeps the distances between the virtual run times of all threads that
\* wait, in the run queue or blocked: treatOverflow (decTree, decQueue,
\* decBlocked) takes the same from each of them, exactly once.  So does every
\* other call.
THEOREM DistancesHold == Spec => DistancesKept
<1> DEFINE Step == \A t, u \in Live \ (gap \cup {active}) :
                     vruntime'[t] - vruntime'[u] = vruntime[t] - vruntime[u]
<1>1. Placed /\ [Next]_vars => [Step]_vars
  <2> SUFFICES ASSUME Placed, [Next]_vars PROVE Step
    OBVIOUS
  <2>1. ASSUME \A t : Waits(t) => vruntime'[t] = vruntime[t] PROVE Step
    BY <2>1 DEF Waits
  <2>2. CASE Tick
    <3>1. PICK d \in Int : \A t : Waits(t) => vruntime[t] \in Int /\ vruntime'[t] = vruntime[t] - d
      BY <2>2, TickShifts
    <3>2. ASSUME NEW t, NEW u, Waits(t), Waits(u)
          PROVE  vruntime'[t] - vruntime'[u] = vruntime[t] - vruntime[u]
      BY <3>1, <3>2
    <3> QED BY <3>2 DEF Waits
  <2>3. ASSUME NEW t \in Thread, NEW p \in Priorities, Create(t, p) PROVE Step
    <3>1. \A u : Waits(u) => vruntime'[u] = vruntime[u]
      BY <2>3, CreateIs, LiveIs DEF Waits
    <3> QED BY <2>1, <3>1
  <2>4. CASE Exit
    <3>1. vruntime' = [vruntime EXCEPT ![active] = 0] /\ vruntime \in [Thread -> Int]
      BY <2>4 DEF Exit, Placed, Typed
    <3>2. \A u : Waits(u) => vruntime'[u] = vruntime[u]
      BY <3>1, LiveIs DEF Waits
    <3> QED BY <2>1, <3>2
  <2>5. CASE UNCHANGED vruntime
    BY <2>1, <2>5
  <2>6. CASE \/ \E n \in Nices : Nice(n)
             \/ \E n \in Ticks : Sleep(n)
             \/ \E u \in Thread : JoinZombie(u) \/ Join(u)
             \/ Enter \/ Leave \/ Wait \/ Signal(1) \/ Signal(Len(monQ)) \/ LeaveProcessor
             \/ Yield \/ UNCHANGED vars
    <3>1. UNCHANGED vruntime
      BY <2>6 DEF Nice, Sleep, JoinZombie, Join, Enter, Leave, Wait, Signal, LeaveProcessor, Yield,
                  Stays, vars
    <3> QED BY <2>5, <3>1
  <2> QED BY <2>2, <2>3, <2>4, <2>6 DEF Next
<1> QED BY <1>1, PlacedHolds, PTL DEF Spec, DistancesKept

-----------------------------------------------------------------------------
\* The threads that wait in join wait for one that is not over.
Awaited == \A t \in Thread : Times(join, t) # 0 => target[t] \in Thread /\ Past(target[t]) = 0

LEMMA AwaitedInit == Init => Awaited
BY TimesEmpty DEF Init, Awaited

\* What an exit does to those that wait for it, and to those that do not.
LEMMA ExitIs ==
  ASSUME Placed, Exit
  PROVE  /\ \A t \in Thread : Times(join, t) # 0 =>
              IF target[t] = active
              THEN Times(join', t) = 0 /\ active \in ToSet(dead')
              ELSE Times(join', t) # 0 /\ target'[t] = target[t]
         /\ \A t \in Thread : Times(join', t) # 0 => Times(join, t) # 0
         /\ \A t : Past(t)' = Past(t) + One(active, t)
<1> DEFINE K == {u \in Thread : Joins(u, active)}
           L == {u \in Thread : ~Joins(u, active)}
           mine == Kept(join, K)
<1>q. /\ join \in Seq(Thread) /\ zombie \in Seq(Thread) /\ dead \in Seq(Thread) /\ active \in Thread
  BY DEF Placed, Typed, Queues
<1>1. /\ join' = Kept(join, L)
      /\ IF mine = <<>> THEN zombie' = Append(zombie, active) /\ dead' = dead
                        ELSE dead' = Append(dead, active) /\ zombie' = zombie
      /\ target' = [t \in Thread |-> IF Contains(mine, t) THEN NoThread ELSE target[t]]
  BY DEF Exit
<1>2. \A u \in Thread : (u \in K <=> target[u] = active) /\ (u \in L <=> target[u] # active)
  BY DEF Joins
<1> HIDE DEF K, L
<1>3. /\ mine \in Seq(Thread) /\ join' \in Seq(Thread)
      /\ \A u : Times(mine, u) = IF u \in K THEN Times(join, u) ELSE 0
      /\ \A u : Times(join', u) = IF u \in L THEN Times(join, u) ELSE 0
  BY <1>q, <1>1, Split
<1> HIDE DEF mine
<1>4. \A u : Contains(mine, u) <=> Times(mine, u) # 0
  BY <1>3, Absent
<1>5. /\ Append(zombie, active) \in Seq(Thread) /\ Append(dead, active) \in Seq(Thread)
      /\ \A u : Times(Append(zombie, active), u) = Times(zombie, u) + One(active, u)
      /\ \A u : Times(Append(dead, active), u) = Times(dead, u) + One(active, u)
  BY <1>q, Appended
<1>6. \A u : Times(zombie, u) \in Nat /\ Times(dead, u) \in Nat /\ One(active, u) \in Nat
  BY <1>q, TimesType, OneType
<1>7. ASSUME NEW u PROVE Past(u)' = Past(u) + One(active, u)
  <2>1. Past(u) = Times(zombie, u) + Times(dead, u) /\ Past(u)' = Times(zombie', u) + Times(dead', u)
    BY DEF Past
  <2>2. CASE mine = <<>>
    <3>1. Times(zombie', u) = Times(zombie, u) + One(active, u) /\ Times(dead', u) = Times(dead, u)
      BY <1>1, <1>5, <2>2
    <3> QED BY <1>6, <2>1, <3>1
  <2>3. CASE mine # <<>>
    <3>1. Times(dead', u) = Times(dead, u) + One(active, u) /\ Times(zombie', u) = Times(zombie, u)
      BY <1>1, <1>5, <2>3
    <3> QED BY <1>6, <2>1, <3>1
  <2> QED BY <2>2, <2>3
<1>8. mine # <<>> => active \in ToSet(dead')
  <2> SUFFICES ASSUME mine # <<>> PROVE active \in ToSet(dead')
    OBVIOUS
  <2>1. dead' = Append(dead, active) /\ Times(dead, active) + One(active, active) # 0
    BY <1>1, <1>6, OneType
  <2>2. PICK e : e = Append(dead, active)
    OBVIOUS
  <2>3. e \in Seq(Thread) /\ Times(e, active) # 0
    BY <1>5, <2>1, <2>2
  <2> QED BY <2>1, <2>2, <2>3, Absent
<1>9. ASSUME NEW t \in Thread, Times(join, t) # 0
      PROVE  IF target[t] = active
             THEN Times(join', t) = 0 /\ active \in ToSet(dead')
             ELSE Times(join', t) # 0 /\ target'[t] = target[t]
  <2>1. CASE target[t] = active
    <3>1. t \in K /\ t \notin L
      BY <1>2, <2>1
    <3>2. Times(mine, t) # 0
      BY <1>3, <1>9, <3>1
    <3>3. mine # <<>>
      BY <3>2, TimesEmpty
    <3> QED BY <1>3, <1>8, <2>1, <3>1, <3>3
  <2>2. CASE target[t] # active
    <3>1. t \notin K /\ t \in L
      BY <1>2, <2>2
    <3>2. ~Contains(mine, t)
      BY <1>3, <1>4, <3>1
    <3> QED BY <1>1, <1>3, <1>9, <2>2, <3>1, <3>2
  <2> QED BY <2>1, <2>2
<1>10. \A t \in Thread : Times(join', t) # 0 => Times(join, t) # 0
  BY <1>3
<1> QED BY <1>7, <1>9, <1>10

LEMMA AwaitedNext == ASSUME Placed, Awaited, [Next]_vars PROVE Awaited'
<1>q. Queues /\ active \in Thread /\ target \in [Thread -> Thread \cup {NoThread}]
  BY DEF Placed, Typed
<1>0. ASSUME \A t \in Thread : Times(join', t) # 0 => \E u \in Thread : target'[t] = u /\ Past(u)' = 0
      PROVE  Awaited'
  BY <1>0 DEF Awaited, Past
<1>1. CASE Exit
  <2>1. ASSUME NEW t \in Thread, Times(join', t) # 0
        PROVE  \E u \in Thread : target'[t] = u /\ Past(u)' = 0
    <3>1. /\ Times(join, t) # 0 /\ target[t] # active /\ target'[t] = target[t]
      BY <1>1, <2>1, ExitIs
    <3>2. target[t] \in Thread /\ Past(target[t]) = 0
      BY <3>1 DEF Awaited
    <3>3. PICK v : v = target[t]
      OBVIOUS
    <3>4. Past(v)' = Past(v) + One(active, v) /\ One(active, v) = 0
      BY <1>1, <3>1, <3>3, ExitIs, OneType
    <3>5. Past(v)' = 0
      BY <3>2, <3>3, <3>4
    <3> QED BY <3>1, <3>2, <3>3, <3>5
  <2> QED BY <1>0, <2>1
<1>2. ASSUME NEW v \in Thread, Join(v) PROVE Awaited'
  <2>1. /\ join' = Append(join, active) /\ target' = [target EXCEPT ![active] = v]
        /\ v \in {active} \cup ToSet(queue) \cup ToSet(sleep) \cup ToSet(join)
        /\ UNCHANGED <<zombie, dead>>
    BY <1>2 DEF Join
  <2>2. \A t : Times(join', t) = Times(join, t) + One(active, t)
    BY <1>q, <2>1, Appended DEF Queues
  <2>3. Past(v) = 0
    <3>1. v \in Live
      BY <2>1 DEF Live, Blocked
    <3>2. Tally(v) # 0
      BY <3>1, LiveIs
    <3> QED BY <3>2 DEF Placed, Standing
  <2>4. ASSUME NEW t \in Thread, Times(join', t) # 0
        PROVE  \E u \in Thread : target'[t] = u /\ Past(u)' = 0
    <3>1. CASE t = active
      <4>1. target'[t] = v
        BY <1>q, <2>1, <3>1
      <4>2. Past(v)' = 0
        BY <2>1, <2>3 DEF Past
      <4> QED BY <4>1, <4>2
    <3>2. CASE t # active
      <4>1. target'[t] = target[t] /\ Times(join, t) # 0
        <5>1. One(active, t) = 0 /\ Times(join, t) \in Nat
          BY <1>q, <3>2, OneType, TimesType DEF Queues
        <5> QED BY <1>q, <2>1, <2>2, <2>4, <3>2, <5>1
      <4>2. PICK u \in Thread : u = target[t] /\ Past(u) = 0
        BY <4>1 DEF Awaited
      <4>3. Past(u)' = 0
        BY <2>1, <4>2 DEF Past
      <4> QED BY <4>1, <4>2, <4>3
    <3> QED BY <3>1, <3>2
  <2> QED BY <1>0, <2>4
<1>3. ASSUME NEW v \in Thread, JoinZombie(v) PROVE Awaited'
  <2>1. zombie' = Kept(zombie, Thread \ {v}) /\ dead' = Append(dead, v) /\ Contains(zombie, v)
        /\ UNCHANGED <<join, target>>
    BY <1>3 DEF JoinZombie
  <2>2. Times(zombie, v) # 0
    BY <1>q, <2>1, Absent DEF Queues
  <2>3. ASSUME NEW u \in Thread, Past(u) = 0 PROVE Past(u)' = 0
    <3>1. Times(zombie, u) \in Nat /\ Times(dead, u) \in Nat
      BY <1>q, TimesType DEF Queues
    <3>2. Times(zombie, u) = 0 /\ Times(dead, u) = 0 /\ u # v
      BY <2>2, <2>3, <3>1 DEF Past
    <3>3. Times(zombie', u) = 0
      BY <1>q, <2>1, <3>2, Split DEF Queues
    <3>4. Times(dead', u) = Times(dead, u) + One(v, u) /\ One(v, u) = 0
      BY <1>q, <2>1, <3>2, Appended, OneType DEF Queues
    <3> QED BY <3>2, <3>3, <3>4 DEF Past
  <2>4. ASSUME NEW t \in Thread, Times(join', t) # 0
        PROVE  \E u \in Thread : target'[t] = u /\ Past(u)' = 0
    <3>1. PICK u \in Thread : u = target[t] /\ Past(u) = 0
      BY <2>1, <2>4 DEF Awaited
    <3>2. Past(u)' = 0 /\ target'[t] = u
      BY <2>1, <2>3, <3>1
    <3> QED BY <3>2
  <2> QED BY <1>0, <2>4
<1>4. CASE \/ \E t \in Thread, p \in Priorities : Create(t, p)
           \/ \E n \in Nices : Nice(n)
           \/ \E n \in Ticks : Sleep(n)
           \/ Enter \/ Leave \/ Wait \/ Signal(1) \/ Signal(Len(monQ)) \/ LeaveProcessor
           \/ Yield \/ Tick \/ UNCHANGED vars
  <2>1. UNCHANGED <<join, zombie, dead, target>>
    BY <1>4 DEF Create, Nice, Sleep, Enter, Leave, Wait, Signal, LeaveProcessor, Yield, Tick, Stays, vars
  <2> QED BY <2>1 DEF Awaited, Past
<1> QED BY <1>1, <1>2, <1>3, <1>4 DEF Next

\* sthread_join is over after sthread_exit: a thread leaves join_thr_list only
\* when the one it waits for goes to dead_thr_list in the same call, and none is
\* put there, or stays there, to wait for a thread that is over already.
THEOREM JoinAfterExitHolds == Spec => JoinAfterExit
<1> DEFINE Back == \A t \in ToSet(join) \ ToSet(join') : target[t] \in ToSet(dead')
           Stay == \A t \in ToSet(join') : target'[t] \notin ToSet(zombie' \o dead')
<1>1. Spec => []Awaited
  <2>1. Placed /\ Awaited /\ [Next]_vars => Awaited'
    BY AwaitedNext
  <2> QED BY <2>1, AwaitedInit, PlacedHolds, PTL DEF Spec
<1>2. Placed /\ [Next]_vars => [Back]_vars
  <2> SUFFICES ASSUME Placed, [Next]_vars PROVE Back
    OBVIOUS
  <2> SUFFICES ASSUME NEW t \in ToSet(join) \ ToSet(join') PROVE target[t] \in ToSet(dead')
    OBVIOUS
  <2>q. join \in Seq(Thread) /\ join' \in Seq(Thread)
    BY PlacedNext DEF Placed, Typed, Queues
  <2>1. t \in Thread /\ Times(join, t) # 0
    <3>1. t \in Thread
      BY <2>q, ElementOfSeq, LenProperties DEF ToSet
    <3> QED BY <2>q, <3>1, Absent
  <2>2. Times(join', t) = 0
    BY <2>q, Absent
  <2>3. CASE Exit
    BY <2>1, <2>2, <2>3, ExitIs
  <2>4. ASSUME NEW v \in Thread, Join(v) PROVE FALSE
    <3>1. Times(join', t) = Times(join, t) + One(active, t)
      <4>1. join' = Append(join, active) /\ active \in Thread
        BY <2>4 DEF Join, Placed, Typed
      <4> QED BY <2>q, <4>1, Appended
    <3>2. One(active, t) \in Nat /\ Times(join, t) \in Nat
      BY <2>q, OneType, TimesType
    <3> QED BY <2>1, <2>2, <3>1, <3>2
  <2>5. CASE UNCHANGED join
    BY <2>5
  <2>6. CASE \/ \E u \in Thread, p \in Priorities : Create(u, p)
             \/ \E n \in Nices : Nice(n)
             \/ \E n \in Ticks : Sleep(n)
             \/ \E u \in Thread : JoinZombie(u)
             \/ Enter \/ Leave \/ Wait \/ Signal(1) \/ Signal(Len(monQ)) \/ LeaveProcessor
             \/ Yield \/ Tick \/ UNCHANGED vars
    <3>1. UNCHANGED join
      BY <2>6 DEF Create, Nice, Sleep, JoinZombie, Enter, Leave, Wait, Signal, LeaveProcessor, Yield,
                  Tick, Stays, vars
    <3> QED BY <2>5, <3>1
  <2> QED BY <2>3, <2>4, <2>6 DEF Next
\* In every state none waits for a thread that is over; so it is after a step.
<1> DEFINE Good == \A t \in ToSet(join) : target[t] \notin ToSet(zombie \o dead)
<1>3. Placed /\ Awaited => Good
  <2> SUFFICES ASSUME Placed, Awaited, NEW t \in ToSet(join) PROVE target[t] \notin ToSet(zombie \o dead)
    OBVIOUS
  <2>q. join \in Seq(Thread) /\ zombie \in Seq(Thread) /\ dead \in Seq(Thread)
    BY DEF Placed, Typed, Queues
  <2>1. t \in Thread /\ Times(join, t) # 0
    <3>1. t \in Thread
      BY <2>q, ElementOfSeq, LenProperties DEF ToSet
    <3> QED BY <2>q, <3>1, Absent
  <2>2. Past(target[t]) = 0
    BY <2>1 DEF Awaited
  <2>3. zombie \o dead \in Seq(Thread) /\ \A u : Times(zombie \o dead, u) = Times(zombie, u) + Times(dead, u)
    BY <2>q, Joined
  <2>4. Times(zombie \o dead, target[t]) = 0
    BY <2>2, <2>3 DEF Past
  <2> QED BY <2>3, <2>4, Absent
<1>4. Good' => [Stay]_vars
  OBVIOUS
<1> HIDE DEF Good
<1>5. Spec => [][Back]_vars /\ [][Stay]_vars
  BY <1>1, <1>2, <1>3, <1>4, PlacedHolds, PTL DEF Spec
<1> QED BY <1>5, PTL DEF JoinAfterExit
=============================================================================
