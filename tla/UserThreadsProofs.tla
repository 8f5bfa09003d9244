------------------------- MODULE UserThreadsProofs --------------------------
(***************************************************************************)
(* Theorems about UserThreads, for every set of threads: each stands in one *)
(* place, the monitor excludes, and a join is over after an exit.  The      *)
(* invariants build on each other in this order:                            *)
(*   TypeOK, Placed (with OnePlace), Guarded (with Exclusion),              *)
(*   JoinAfterExit.                                                         *)
(***************************************************************************)
EXTENDS UserThreads, ThreadQueueLemmas

USE UserThreadsAssumption

-----------------------------------------------------------------------------
\* The queues, and the processor after a switch.
Queues ==
  /\ exe \in Seq(Thread) /\ sleep \in Seq(Thread) /\ join \in Seq(Thread)
  /\ zombie \in Seq(Thread) /\ dead \in Seq(Thread)
  /\ mutexQ \in Seq(Thread) /\ monQ \in Seq(Thread)

LEMMA TypedQueues == TypeOK => Queues
BY DEF TypeOK, Queues

LEMMA SwitchedTo ==
  ASSUME NEW q \in Seq(Thread), SwitchTo(q)
  PROVE  /\ exe' \in Seq(Thread) /\ active' \in Thread /\ ran' \in BOOLEAN
         /\ \A t : Times(exe', t) + One(active', t) = Times(q, t)
<1>1. q # <<>> /\ active' = Head(q) /\ exe' = Tail(q) /\ ran' = FALSE
  BY DEF SwitchTo
<1>2. /\ Head(q) \in Thread /\ Tail(q) \in Seq(Thread)
      /\ \A t : Times(q, t) = Times(Tail(q), t) + One(Head(q), t)
  BY <1>1, Headed
<1> QED BY <1>1, <1>2

LEMMA Signalled ==
  ASSUME Queues, NEW t \in Thread, Signal(t)
  PROVE  /\ mutexQ' \in Seq(Thread) /\ monQ' \in Seq(Thread)
         /\ \A u : /\ Times(mutexQ', u) \in Nat /\ Times(monQ', u) \in Nat
                  /\ Times(mutexQ', u) + Times(monQ', u) = Times(mutexQ, u) + Times(monQ, u)
                  /\ Times(monQ', u) <= Times(monQ, u)
<1>1. Len(monQ) \in Nat /\ (monQ # <<>> => Len(monQ) # 0)
  BY LenProperties, EmptySeq DEF Queues
<1>2. PICK n \in 0 .. Len(monQ) : /\ mutexQ' = mutexQ \o SubSeq(monQ, 1, n)
                                  /\ monQ' = SubSeq(monQ, n + 1, Len(monQ))
  <2> DEFINE n == IF op[t] = "signalall" THEN Len(monQ) ELSE IF monQ = <<>> THEN 0 ELSE 1
  <2>1. n \in 0 .. Len(monQ)
    BY <1>1
  <2>2. mutexQ' = mutexQ \o SubSeq(monQ, 1, n) /\ monQ' = SubSeq(monQ, n + 1, Len(monQ))
    BY DEF Signal
  <2> QED BY <2>1, <2>2
<1>3. /\ SubSeq(monQ, 1, n) \in Seq(Thread) /\ monQ' \in Seq(Thread)
      /\ \A u : Times(SubSeq(monQ, 1, n), u) + Times(monQ', u) = Times(monQ, u)
  BY <1>2, Parted DEF Queues
<1>4. /\ mutexQ' \in Seq(Thread)
      /\ \A u : Times(mutexQ', u) = Times(mutexQ, u) + Times(SubSeq(monQ, 1, n), u)
  <2>1. mutexQ \in Seq(Thread) /\ SubSeq(monQ, 1, n) \in Seq(Thread)
    BY <1>3 DEF Queues
  <2>2. /\ mutexQ \o SubSeq(monQ, 1, n) \in Seq(Thread)
        /\ \A u : Times(mutexQ \o SubSeq(monQ, 1, n), u) = Times(mutexQ, u) + Times(SubSeq(monQ, 1, n), u)
    BY <2>1, Joined
  <2> QED BY <1>2, <2>2
<1>5. ASSUME NEW u
      PROVE  /\ Times(mutexQ', u) \in Nat /\ Times(monQ', u) \in Nat
             /\ Times(SubSeq(monQ, 1, n), u) \in Nat /\ Times(mutexQ, u) \in Nat
  BY <1>3, <1>4, TimesType DEF Queues
<1>6. ASSUME NEW u
      PROVE  /\ Times(mutexQ', u) + Times(monQ', u) = Times(mutexQ, u) + Times(monQ, u)
             /\ Times(monQ', u) <= Times(monQ, u)
  BY <1>3, <1>4, <1>5
<1> QED BY <1>3, <1>4, <1>5, <1>6

-----------------------------------------------------------------------------
LEMMA TypeInit == Init => TypeOK
<1> SUFFICES ASSUME Init PROVE TypeOK
  OBVIOUS
<1>1. <<>> \in Seq(Thread)
  BY EmptySeq
<1>2. pc \in [Thread -> Places]
  BY DEF Init, Places
<1>3. op \in [Thread -> Calls]
  BY DEF Init, Calls
<1>4. wake \in [Thread -> Nat] /\ target \in [Thread -> Thread \cup {NoThread}]
  BY DEF Init
<1>5. Queues
  BY <1>1 DEF Init, Queues, MonitorInit, MutexInit
<1>6. active \in Thread /\ thr = NoThread /\ l = FALSE /\ ran = FALSE /\ inside = {}
  BY DEF Init, MonitorInit, MutexInit
<1> QED BY <1>2, <1>3, <1>4, <1>5, <1>6 DEF TypeOK, Queues

LEMMA TypeChoice ==
  ASSUME TypeOK, NEW t \in Thread, Choice(t)
  PROVE  TypeOK'
<1> USE DEF TypeOK, lists, monitor
<1>q. Queues
  BY TypedQueues
<1>1. CASE Create(t)
  <2>1. Append(exe, t) \in Seq(Thread)
    BY <1>q, Appended DEF Queues
  <2> QED BY <1>1, <2>1 DEF Create, Places
<1>2. CASE Exit(t)
  <2> DEFINE mine == Kept(join, {u \in Thread : Joins(u, t)})
             other == Kept(join, {u \in Thread : ~Joins(u, t)})
  <2>1. mine \in Seq(Thread) /\ other \in Seq(Thread)
    BY <1>q, Split DEF Queues
  <2> HIDE DEF mine, other
  <2>2. /\ Append(zombie, t) \in Seq(Thread) /\ Append(dead, t) \in Seq(Thread)
        /\ exe \o mine \in Seq(Thread)
    BY <1>q, <2>1, Appended, Joined DEF Queues
  <2>3. /\ SwitchTo(exe \o mine) /\ join' = other
        /\ zombie' \in {zombie, Append(zombie, t)} /\ dead' \in {dead, Append(dead, t)}
        /\ pc' = [pc EXCEPT ![t] = "exited"]
        /\ UNCHANGED <<sleep, wake, target, monitor, op, inside>>
    BY <1>2 DEF Exit, mine, other
  <2>4. exe' \in Seq(Thread) /\ active' \in Thread /\ ran' \in BOOLEAN
    BY <2>2, <2>3, SwitchedTo
  <2> QED BY <2>1, <2>2, <2>3, <2>4 DEF Places
<1>3. ASSUME NEW n \in Ticks, Sleep(t, n) PROVE TypeOK'
  <2>1. Append(sleep, t) \in Seq(Thread)
    BY <1>q, Appended DEF Queues
  <2>2. exe' \in Seq(Thread) /\ active' \in Thread /\ ran' \in BOOLEAN
    BY <1>q, <1>3, SwitchedTo DEF Sleep, Queues
  <2>3. n \in Nat
    OBVIOUS
  <2> QED BY <1>3, <2>1, <2>2, <2>3 DEF Sleep, Places, Calls
<1>4. ASSUME NEW u \in Thread \ {Main} PROVE Unzombied(zombie, u) \in Seq(Thread)
  <2>1. Kept(zombie, Thread \ {u}) \in Seq(Thread)
    BY <1>q, Split DEF Queues
  <2>2. Len(Kept(zombie, Thread \ {u})) \in Nat
    BY <2>1, LenProperties
  <2> QED BY <2>2, IsASeq DEF Unzombied
<1>5. ASSUME NEW u \in Thread \ {Main}, JoinZombie(t, u) PROVE TypeOK'
  <2>1. Append(dead, u) \in Seq(Thread)
    BY <1>q, Appended DEF Queues
  <2> QED BY <1>4, <1>5, <2>1 DEF JoinZombie
<1>6. ASSUME NEW u \in Thread \ {Main}, Join(t, u) PROVE TypeOK'
  <2>1. Append(join, t) \in Seq(Thread)
    BY <1>q, Appended DEF Queues
  <2>2. exe' \in Seq(Thread) /\ active' \in Thread /\ ran' \in BOOLEAN
    BY <1>q, <1>6, SwitchedTo DEF Join, Queues
  <2> QED BY <1>4, <1>6, <2>1, <2>2 DEF Join, Places, Calls
<1>7. ASSUME NEW c \in Calls \ {"none", "join", "sleep"}, Call(t, c) PROVE TypeOK'
  <2>1. Append(monQ, t) \in Seq(Thread)
    BY <1>q, Appended DEF Queues
  <2> QED BY <1>7, <2>1 DEF Call, Places, Calls
<1>8. CASE YieldCall(t)
  <2>1. Append(exe, active) \in Seq(Thread)
    BY <1>q, Appended DEF Queues
  <2>2. exe' \in Seq(Thread) /\ active' \in Thread /\ ran' \in BOOLEAN
    BY <1>8, <2>1, SwitchedTo DEF YieldCall, Yield
  <2> QED BY <1>8, <2>2 DEF YieldCall
<1> QED BY <1>1, <1>2, <1>3, <1>5, <1>6, <1>7, <1>8 DEF Choice

LEMMA TypeContinue ==
  ASSUME TypeOK, NEW t \in Thread, Continue(t)
  PROVE  TypeOK'
<1> USE DEF TypeOK, lists, monitor
<1>q. Queues
  BY TypedQueues
<1>1. CASE TestAndSet(t)
  BY <1>1 DEF TestAndSet, Places
<1>2. CASE Take(t)
  BY <1>2 DEF Take, Clear, Places, Calls
<1>3. CASE Queue(t)
  <2>1. Append(mutexQ, t) \in Seq(Thread)
    BY <1>q, Appended DEF Queues
  <2> QED BY <1>3, <2>1 DEF Queue, Clear, Places, Calls
<1>4. CASE Unlock(t)
  <2>1. CASE mutexQ = <<>>
    BY <1>4, <2>1 DEF Unlock, Clear, Places, Calls
  <2>2. CASE mutexQ # <<>>
    <3>1. Head(mutexQ) \in Thread /\ Tail(mutexQ) \in Seq(Thread)
      BY <1>q, <2>2, Headed DEF Queues
    <3>2. Append(exe, Head(mutexQ)) \in Seq(Thread)
      BY <1>q, <3>1, Appended DEF Queues
    <3> QED BY <1>4, <2>2, <3>1, <3>2 DEF Unlock, HandOver, Clear, Places, Calls
  <2> QED BY <2>1, <2>2
<1>5. CASE Signal(t)
  <2>1. mutexQ' \in Seq(Thread) /\ monQ' \in Seq(Thread)
    BY <1>q, <1>5, Signalled
  <2> QED BY <1>5, <2>1 DEF Signal, Clear, Places, Calls
<1>6. CASE LeaveProcessor(t)
  <2>1. exe' \in Seq(Thread) /\ active' \in Thread /\ ran' \in BOOLEAN
    BY <1>q, <1>6, SwitchedTo DEF LeaveProcessor, Queues
  <2> QED BY <1>6, <2>1 DEF LeaveProcessor, Places
<1>7. CASE Return(t)
  BY <1>7 DEF Return, Places, Calls
<1> QED BY <1>1, <1>2, <1>3, <1>4, <1>5, <1>6, <1>7 DEF Continue

LEMMA TypeTick ==
  ASSUME TypeOK, Tick
  PROVE  TypeOK'
<1> USE DEF TypeOK, lists, monitor
<1> DEFINE up == Kept(sleep, {t \in Thread : Due(t)})
           rest == Kept(sleep, {t \in Thread : ~Due(t)})
<1>q. Queues
  BY TypedQueues
<1>1. up \in Seq(Thread) /\ rest \in Seq(Thread)
  BY <1>q, Split DEF Queues
<1>2. /\ sleep' = rest /\ SwitchTo(Append(exe \o up, active))
      /\ wake' = [t \in Thread |-> IF wake[t] > 0 THEN wake[t] - 1 ELSE 0]
      /\ UNCHANGED <<join, zombie, dead, target, monitor, pc, op, inside>>
  BY DEF Tick, Yield
<1> HIDE DEF up, rest
<1>3. exe \o up \in Seq(Thread)
  BY <1>q, <1>1, Joined DEF Queues
<1>4. Append(exe \o up, active) \in Seq(Thread)
  BY <1>3, Appended
<1>5. exe' \in Seq(Thread) /\ active' \in Thread /\ ran' \in BOOLEAN
  BY <1>2, <1>4, SwitchedTo
<1> QED BY <1>1, <1>2, <1>5

\* The variables of the FIFO scheduler keep their types: what exit, join, the
\* dispatcher, the mutex and the monitor put in a list is a thread.
THEOREM TypesHold == Spec => []TypeOK
<1>1. TypeOK /\ [Next]_vars => TypeOK'
  <2> SUFFICES ASSUME TypeOK, [Next]_vars PROVE TypeOK'
    OBVIOUS
  <2>1. CASE Next
    BY <2>1, TypeChoice, TypeContinue, TypeTick DEF Next
  <2>2. CASE UNCHANGED vars
    BY <2>2 DEF vars, lists, monitor, TypeOK
  <2> QED BY <2>1, <2>2
<1> QED BY <1>1, TypeInit, PTL DEF Spec

-----------------------------------------------------------------------------
\* The calls a thread may be in at place p, and in how many places it stands
\* then: the right-hand side of OnePlace.
Fits(p, c) ==
  /\ p \in {"new", "run", "exited"} => c = "none"
  /\ p \in {"spin", "locked"} => c \in {"lock", "unlock", "wait", "signal", "signalall"}
  /\ p = "gap" => c \in {"lock", "wait"}
  /\ p = "away" => c \in {"lock", "wait", "join", "sleep"}
Stands(p, c) ==
  IF p \in {"new", "exited"} THEN 0 ELSE IF p = "gap" \/ (c = "wait" /\ p # "away") THEN 2 ELSE 1

OpAt == \A t \in Thread : Fits(pc[t], op[t])
Placed == OpAt /\ \A t \in Thread : Count(t) = Stands(pc[t], op[t])

LEMMA PlacedIs == Placed => OnePlace
BY DEF Placed, OnePlace, Stands

LEMMA CountIs ==
  \A t :
    /\ Count(t) = Times(exe, t) + Times(sleep, t) + Times(join, t) + Times(mutexQ, t)
                    + Times(monQ, t) + One(active, t)
    /\ Count(t)' = Times(exe', t) + Times(sleep', t) + Times(join', t) + Times(mutexQ', t)
                    + Times(monQ', t) + One(active', t)
BY DEF Count, One

LEMMA Counted ==
  ASSUME Queues, NEW t
  PROVE  /\ Times(exe, t) \in Nat /\ Times(sleep, t) \in Nat /\ Times(join, t) \in Nat
         /\ Times(mutexQ, t) \in Nat /\ Times(monQ, t) \in Nat
         /\ Times(zombie, t) \in Nat /\ Times(dead, t) \in Nat
         /\ One(active, t) \in Nat
BY TimesType, OneType DEF Queues

\* A thread moves, and no other.
LEMMA Moves ==
  ASSUME TypeOK, Placed, NEW t \in Thread, NEW p \in Places, NEW c \in Calls,
         pc' = [pc EXCEPT ![t] = p], op' = [op EXCEPT ![t] = c],
         Fits(p, c),
         \A u \in Thread : Count(u)' = IF u = t THEN Stands(p, c) ELSE Count(u)
  PROVE  Placed'
<1>1. pc \in [Thread -> Places] /\ op \in [Thread -> Calls]
  BY DEF TypeOK
<1>2. ASSUME NEW u \in Thread
      PROVE  Fits(pc'[u], op'[u]) /\ Count(u)' = Stands(pc'[u], op'[u])
  <2>1. CASE u = t
    <3>1. pc'[u] = p /\ op'[u] = c
      BY <1>1, <2>1
    <3> QED BY <2>1, <3>1
  <2>2. CASE u # t
    <3>1. pc'[u] = pc[u] /\ op'[u] = op[u]
      BY <1>1, <2>2
    <3> QED BY <2>2, <3>1 DEF Placed, OpAt
  <2> QED BY <2>1, <2>2
<1> QED BY <1>2 DEF Placed, OpAt

\* Where u stands before and after a step, next to t, one added or taken.
SumsOf(t, u) ==
  /\ Times(exe, u) \in Nat /\ Times(sleep, u) \in Nat /\ Times(join, u) \in Nat
  /\ Times(mutexQ, u) \in Nat /\ Times(monQ, u) \in Nat
  /\ One(active, u) \in Nat /\ One(t, u) = IF u = t THEN 1 ELSE 0
  /\ Count(u) = Times(exe, u) + Times(sleep, u) + Times(join, u) + Times(mutexQ, u)
                  + Times(monQ, u) + One(active, u)
  /\ Count(u)' = Times(exe', u) + Times(sleep', u) + Times(join', u) + Times(mutexQ', u)
                  + Times(monQ', u) + One(active', u)
  /\ Count(u) = Stands(pc[u], op[u])

LEMMA Sums ==
  ASSUME TypeOK, Placed, NEW t, NEW u \in Thread
  PROVE  SumsOf(t, u)
<1>1. Queues
  BY TypedQueues
<1>2. One(t, u) = IF u = t THEN 1 ELSE 0
  BY DEF One
<1> QED BY <1>1, <1>2, Counted, CountIs DEF Placed, SumsOf

LEMMA PlacedInit == Init => Placed
<1> SUFFICES ASSUME Init PROVE Placed
  OBVIOUS
<1>1. active = Main /\ \A t \in Thread : op[t] = "none" /\ pc[t] = IF t = Main THEN "run" ELSE "new"
  BY DEF Init
<1>2. ASSUME NEW t \in Thread PROVE Count(t) = One(Main, t)
  BY CountIs, TimesEmpty, OneType DEF Init, MonitorInit, MutexInit
<1>3. ASSUME NEW t \in Thread PROVE Count(t) = Stands(pc[t], op[t]) /\ Fits(pc[t], op[t])
  BY <1>1, <1>2, OneType DEF Stands, Fits
<1> QED BY <1>3 DEF Placed, OpAt

LEMMA PlacedChoice ==
  ASSUME TypeOK, Placed, NEW t \in Thread, Choice(t)
  PROVE  Placed'
<1>q. Queues
  BY TypedQueues
<1>f. pc[t] \in Places /\ op[t] \in Calls /\ Fits(pc[t], op[t])
  BY DEF TypeOK, Placed, OpAt
<1>p. "run" \in Places /\ "spin" \in Places /\ "away" \in Places /\ "exited" \in Places
  BY DEF Places
<1>o. "none" \in Calls /\ "sleep" \in Calls /\ "join" \in Calls
  BY DEF Calls
<1>w. Works(t) => op[t] = "none" /\ Stands(pc[t], op[t]) = 1 /\ active = t /\ pc[t] = "run"
  BY <1>f DEF Fits, Stands, Works
<1>e. op' = op /\ op[t] = "none" => op' = [op EXCEPT ![t] = "none"]
  BY DEF TypeOK
<1>1. CASE Create(t)
  <2>1. /\ pc[t] = "new" /\ exe' = Append(exe, t)
        /\ pc' = [pc EXCEPT ![t] = "run"] /\ op' = op
        /\ UNCHANGED <<sleep, join, active, mutexQ, monQ>>
    BY <1>1 DEF Create, monitor
  <2>2. op[t] = "none" /\ Fits("run", "none") /\ Stands("run", "none") = 1 /\ Stands("new", "none") = 0
    BY <1>f, <2>1 DEF Fits, Stands
  <2>3. ASSUME NEW u \in Thread PROVE Count(u)' = IF u = t THEN Stands("run", "none") ELSE Count(u)
    <3>1. Times(exe', u) = Times(exe, u) + One(t, u)
      BY <1>q, <2>1, Appended DEF Queues
    <3>2. SumsOf(t, u)
      BY Sums
    <3>3. u = t => Count(u) = 0
      BY <2>1, <2>2, <3>2 DEF SumsOf
    <3> QED BY <2>1, <2>2, <3>1, <3>2, <3>3 DEF SumsOf
  <2>4. op' = [op EXCEPT ![t] = "none"]
    BY <1>e, <2>1, <2>2
  <2> QED BY <1>p, <1>o, <2>1, <2>2, <2>3, <2>4, Moves
<1>2. CASE Exit(t)
  <2> DEFINE K == {u \in Thread : Joins(u, t)}
             L == {u \in Thread : ~Joins(u, t)}
  <2>1. /\ Works(t) /\ SwitchTo(exe \o Kept(join, K)) /\ join' = Kept(join, L)
        /\ pc' = [pc EXCEPT ![t] = "exited"] /\ op' = op
        /\ UNCHANGED <<sleep, mutexQ, monQ>>
    BY <1>2 DEF Exit, monitor
  <2>2. op[t] = "none" /\ Fits("exited", "none") /\ Stands("exited", "none") = 0
    BY <1>w, <2>1 DEF Fits, Stands
  <2>3. ASSUME NEW u \in Thread PROVE Count(u)' = IF u = t THEN Stands("exited", "none") ELSE Count(u)
    <3>1. /\ Kept(join, K) \in Seq(Thread)
          /\ Times(Kept(join, K), u) = IF u \in K THEN Times(join, u) ELSE 0
          /\ Times(join', u) = IF u \in L THEN Times(join, u) ELSE 0
      BY <1>q, <2>1, Split DEF Queues
    <3>2. u \in K <=> u \notin L
      OBVIOUS
    <3> HIDE DEF K, L
    <3>3. /\ exe \o Kept(join, K) \in Seq(Thread)
          /\ Times(exe \o Kept(join, K), u) = Times(exe, u) + Times(Kept(join, K), u)
      BY <1>q, <3>1, Joined DEF Queues
    <3>4. Times(exe', u) + One(active', u) = Times(exe \o Kept(join, K), u)
      BY <2>1, <3>3, SwitchedTo
    <3>5. active = t /\ Stands(pc[t], op[t]) = 1
      BY <1>w, <2>1
    <3>6. SumsOf(t, u)
      BY Sums
    <3>7. Times(Kept(join, K), u) + Times(join', u) = Times(join, u)
      BY <3>1, <3>2, <3>6 DEF SumsOf
    <3>8. /\ Times(exe', u) \in Nat /\ One(active', u) \in Nat /\ Times(join', u) \in Nat
          /\ Times(Kept(join, K), u) \in Nat
      <4>1. exe' \in Seq(Thread) /\ join' \in Seq(Thread)
        BY <1>q, <2>1, <3>3, SwitchedTo, Split DEF Queues
      <4> QED BY <3>1, <4>1, TimesType, OneType
    <3>9. Times(exe', u) + One(active', u) + Times(join', u) = Times(exe, u) + Times(join, u)
      BY <3>3, <3>4, <3>6, <3>7, <3>8 DEF SumsOf
    <3> QED BY <2>1, <2>2, <3>5, <3>6, <3>8, <3>9 DEF SumsOf
  <2>4. op' = [op EXCEPT ![t] = "none"]
    BY <1>e, <2>1, <2>2
  <2> QED BY <1>p, <1>o, <2>1, <2>2, <2>3, <2>4, Moves
<1>3. ASSUME NEW n \in Ticks, Sleep(t, n) PROVE Placed'
  <2>1. /\ Works(t) /\ SwitchTo(exe) /\ sleep' = Append(sleep, t)
        /\ pc' = [pc EXCEPT ![t] = "away"] /\ op' = [op EXCEPT ![t] = "sleep"]
        /\ UNCHANGED <<join, mutexQ, monQ>>
    BY <1>3 DEF Sleep, monitor
  <2>2. Fits("away", "sleep") /\ Stands("away", "sleep") = 1
    BY DEF Fits, Stands
  <2>3. ASSUME NEW u \in Thread PROVE Count(u)' = IF u = t THEN Stands("away", "sleep") ELSE Count(u)
    <3>1. /\ Times(exe', u) + One(active', u) = Times(exe, u)
          /\ Times(sleep', u) = Times(sleep, u) + One(t, u)
      BY <1>q, <2>1, Appended, SwitchedTo DEF Queues
    <3>2. exe' \in Seq(Thread)
      BY <1>q, <2>1, SwitchedTo DEF Queues
    <3>3. Times(exe', u) \in Nat /\ One(active', u) \in Nat
      BY <3>2, TimesType, OneType
    <3>4. active = t /\ Stands(pc[t], op[t]) = 1
      BY <1>w, <2>1
    <3>5. SumsOf(t, u)
      BY Sums
    <3>6. UNCHANGED <<join, mutexQ, monQ>>
      BY <2>1
    <3> QED BY <2>2, <3>1, <3>3, <3>4, <3>5, <3>6 DEF SumsOf
  <2> QED BY <1>p, <1>o, <2>1, <2>2, <2>3, Moves
<1>4. ASSUME NEW u \in Thread \ {Main}, JoinZombie(t, u) PROVE Placed'
  <2>1. UNCHANGED <<exe, sleep, join, mutexQ, monQ, active, pc, op>>
    BY <1>4 DEF JoinZombie, monitor
  <2> QED BY <2>1 DEF Placed, OpAt, Count
<1>5. ASSUME NEW v \in Thread \ {Main}, Join(t, v) PROVE Placed'
  <2>1. /\ Works(t) /\ SwitchTo(exe) /\ join' = Append(join, t)
        /\ pc' = [pc EXCEPT ![t] = "away"] /\ op' = [op EXCEPT ![t] = "join"]
        /\ UNCHANGED <<sleep, mutexQ, monQ>>
    BY <1>5 DEF Join, monitor
  <2>2. Fits("away", "join") /\ Stands("away", "join") = 1
    BY DEF Fits, Stands
  <2>3. ASSUME NEW u \in Thread PROVE Count(u)' = IF u = t THEN Stands("away", "join") ELSE Count(u)
    <3>1. /\ Times(exe', u) + One(active', u) = Times(exe, u)
          /\ Times(join', u) = Times(join, u) + One(t, u)
      BY <1>q, <2>1, Appended, SwitchedTo DEF Queues
    <3>2. exe' \in Seq(Thread)
      BY <1>q, <2>1, SwitchedTo DEF Queues
    <3>3. Times(exe', u) \in Nat /\ One(active', u) \in Nat
      BY <3>2, TimesType, OneType
    <3>4. active = t /\ Stands(pc[t], op[t]) = 1
      BY <1>w, <2>1
    <3>5. SumsOf(t, u)
      BY Sums
    <3>6. UNCHANGED <<sleep, mutexQ, monQ>>
      BY <2>1
    <3> QED BY <2>2, <3>1, <3>3, <3>4, <3>5, <3>6 DEF SumsOf
  <2> QED BY <1>p, <1>o, <2>1, <2>2, <2>3, Moves
<1>6. ASSUME NEW c \in Calls \ {"none", "join", "sleep"}, Call(t, c) PROVE Placed'
  <2>1. /\ Works(t) /\ pc' = [pc EXCEPT ![t] = "spin"] /\ op' = [op EXCEPT ![t] = c]
        /\ monQ' = IF c = "wait" THEN Append(monQ, t) ELSE monQ
        /\ UNCHANGED <<exe, sleep, join, mutexQ, active>>
    BY <1>6 DEF Call, lists
  <2>2. Fits("spin", c) /\ Stands("spin", c) = IF c = "wait" THEN 2 ELSE 1
    BY DEF Fits, Stands, Calls
  <2>3. ASSUME NEW u \in Thread PROVE Count(u)' = IF u = t THEN Stands("spin", c) ELSE Count(u)
    <3>1. Times(monQ', u) = IF c = "wait" THEN Times(monQ, u) + One(t, u) ELSE Times(monQ, u)
      BY <1>q, <2>1, Appended DEF Queues
    <3>2. Stands(pc[t], op[t]) = 1
      BY <1>w, <2>1
    <3>3. SumsOf(t, u)
      BY Sums
    <3> QED BY <2>1, <2>2, <3>1, <3>2, <3>3 DEF SumsOf
  <2> QED BY <1>p, <1>o, <2>1, <2>2, <2>3, Moves
<1>7. CASE YieldCall(t)
  <2>1. SwitchTo(Append(exe, active)) /\ UNCHANGED <<sleep, join, mutexQ, monQ, pc, op>>
    BY <1>7 DEF YieldCall, Yield, monitor
  <2>2. ASSUME NEW u \in Thread PROVE Count(u)' = Count(u)
    <3>1. /\ Append(exe, active) \in Seq(Thread)
          /\ Times(Append(exe, active), u) = Times(exe, u) + One(active, u)
      BY <1>q, Appended DEF Queues, TypeOK
    <3>2. exe' \in Seq(Thread) /\ Times(exe', u) + One(active', u) = Times(Append(exe, active), u)
      BY <2>1, <3>1, SwitchedTo
    <3>3. Times(exe', u) \in Nat /\ One(active', u) \in Nat
      BY <3>2, TimesType, OneType
    <3>4. SumsOf(t, u)
      BY Sums
    <3>5. UNCHANGED <<sleep, join, mutexQ, monQ>>
      BY <2>1
    <3>6. Times(exe', u) + One(active', u) = Times(exe, u) + One(active, u)
      BY <3>1, <3>2
    <3> QED BY <3>3, <3>4, <3>5, <3>6 DEF SumsOf
  <2> QED BY <2>1, <2>2 DEF Placed, OpAt
<1> QED BY <1>1, <1>2, <1>3, <1>4, <1>5, <1>6, <1>7 DEF Choice

LEMMA PlacedContinue ==
  ASSUME TypeOK, Placed, NEW t \in Thread, Continue(t)
  PROVE  Placed'
<1>q. Queues
  BY TypedQueues
<1>f. pc[t] \in Places /\ op[t] \in Calls /\ Fits(pc[t], op[t])
  BY DEF TypeOK, Placed, OpAt
<1>p. {"run", "locked", "spin", "gap", "away"} \subseteq Places /\ "none" \in Calls
  BY DEF Places, Calls
<1>e. op' = op => op' = [op EXCEPT ![t] = op[t]]
  BY DEF TypeOK
<1>s. ASSUME NEW u \in Thread PROVE SumsOf(t, u)
  BY Sums
<1>1. CASE TestAndSet(t)
  <2> DEFINE p == IF l THEN "spin" ELSE "locked"
  <2>1. /\ pc[t] = "spin" /\ pc' = [pc EXCEPT ![t] = p]
        /\ UNCHANGED <<exe, sleep, join, mutexQ, monQ, active, op>>
    BY <1>1 DEF TestAndSet, lists
  <2>2. p \in Places /\ Fits(p, op[t]) /\ Stands(p, op[t]) = Stands(pc[t], op[t])
    BY <1>f, <1>p, <2>1 DEF Fits, Stands
  <2>3. ASSUME NEW u \in Thread PROVE Count(u)' = IF u = t THEN Stands(p, op[t]) ELSE Count(u)
    <3>1. SumsOf(t, u)
      BY Sums
    <3> QED BY <2>1, <2>2, <3>1 DEF SumsOf
  <2> HIDE DEF p
  <2> QED BY <1>f, <1>e, <2>1, <2>2, <2>3, Moves
<1>2. CASE Take(t)
  <2>1. /\ pc[t] = "locked" /\ op[t] = "lock"
        /\ pc' = [pc EXCEPT ![t] = "run"] /\ op' = [op EXCEPT ![t] = "none"]
        /\ UNCHANGED <<exe, sleep, join, mutexQ, monQ, active>>
    BY <1>2 DEF Take, Clear
  <2>2. Fits("run", "none") /\ Stands("run", "none") = 1 /\ Stands("locked", "lock") = 1
    BY DEF Fits, Stands
  <2>3. ASSUME NEW u \in Thread PROVE Count(u)' = IF u = t THEN Stands("run", "none") ELSE Count(u)
    <3>1. SumsOf(t, u)
      BY Sums
    <3> QED BY <2>1, <2>2, <3>1 DEF SumsOf
  <2> QED BY <1>p, <2>1, <2>2, <2>3, Moves
<1>3. CASE Queue(t)
  <2>1. /\ pc[t] = "locked" /\ op[t] = "lock" /\ mutexQ' = Append(mutexQ, t)
        /\ pc' = [pc EXCEPT ![t] = "gap"]
        /\ UNCHANGED <<exe, sleep, join, monQ, active>>
    BY <1>3 DEF Queue, Clear
  <2>2. op' = [op EXCEPT ![t] = "lock"]
    BY <1>3, <2>1 DEF Queue, Clear
  <2>3. Fits("gap", "lock") /\ Stands("gap", "lock") = 2 /\ Stands("locked", "lock") = 1
    BY DEF Fits, Stands
  <2>4. ASSUME NEW u \in Thread PROVE Count(u)' = IF u = t THEN Stands("gap", "lock") ELSE Count(u)
    <3>1. SumsOf(t, u)
      BY Sums
    <3>2. Times(mutexQ', u) = Times(mutexQ, u) + One(t, u)
      BY <1>q, <2>1, Appended DEF Queues
    <3>3. UNCHANGED <<exe, sleep, join, monQ, active>> /\ pc[t] = "locked" /\ op[t] = "lock"
      BY <2>1
    <3> QED BY <2>3, <3>1, <3>2, <3>3 DEF SumsOf
  <2>5. "gap" \in Places /\ "lock" \in Calls
    BY DEF Places, Calls
  <2> QED BY <2>1, <2>2, <2>3, <2>4, <2>5, Moves
<1>4. CASE Unlock(t)
  <2> DEFINE p == IF op[t] = "wait" THEN "gap" ELSE "run"
             c == IF op[t] = "wait" THEN "wait" ELSE "none"
  <2>1. /\ pc[t] = "locked" /\ op[t] \in {"unlock", "wait"}
        /\ pc' = [pc EXCEPT ![t] = p] /\ op' = [op EXCEPT ![t] = c]
        /\ UNCHANGED <<sleep, join, monQ, active>>
    BY <1>4 DEF Unlock, Clear
  <2>2. IF mutexQ = <<>> THEN UNCHANGED <<exe, mutexQ>> ELSE HandOver
    BY <1>4 DEF Unlock
  <2>3. p \in Places /\ c \in Calls /\ Fits(p, c) /\ Stands(p, c) = Stands(pc[t], op[t])
    BY <1>f, <1>p, <2>1 DEF Fits, Stands
  <2>4. ASSUME NEW u \in Thread PROVE Count(u)' = IF u = t THEN Stands(p, c) ELSE Count(u)
    <3>1. SumsOf(t, u)
      BY Sums
    <3>2. CASE mutexQ = <<>>
      BY <2>1, <2>2, <2>3, <3>1, <3>2 DEF SumsOf
    <3>3. CASE mutexQ # <<>>
      <4>1. mutexQ' = Tail(mutexQ) /\ exe' = Append(exe, Head(mutexQ))
        BY <2>2, <3>3 DEF HandOver
      <4>2. /\ Head(mutexQ) \in Thread /\ Tail(mutexQ) \in Seq(Thread)
            /\ Times(mutexQ, u) = Times(Tail(mutexQ), u) + One(Head(mutexQ), u)
        BY <1>q, <3>3, Headed DEF Queues
      <4>3. Times(exe', u) = Times(exe, u) + One(Head(mutexQ), u)
        BY <1>q, <4>1, <4>2, Appended DEF Queues
      <4>4. One(Head(mutexQ), u) \in Nat /\ Times(Tail(mutexQ), u) \in Nat
        BY <4>2, OneType, TimesType
      <4>5. Times(mutexQ', u) + Times(exe', u) = Times(mutexQ, u) + Times(exe, u)
        BY <3>1, <4>1, <4>2, <4>3, <4>4 DEF SumsOf
      <4>6. Times(mutexQ', u) \in Nat /\ Times(exe', u) \in Nat
        BY <3>1, <4>1, <4>3, <4>4 DEF SumsOf
      <4>7. UNCHANGED <<sleep, join, monQ, active>>
        BY <2>1
      <4> HIDE DEF p, c
      <4> QED BY <2>3, <3>1, <4>5, <4>6, <4>7 DEF SumsOf
    <3> QED BY <3>2, <3>3
  <2> HIDE DEF p, c
  <2> QED BY <2>1, <2>3, <2>4, Moves
<1>5. CASE Signal(t)
  <2>1. /\ pc[t] = "locked" /\ op[t] \in {"signal", "signalall"}
        /\ pc' = [pc EXCEPT ![t] = "run"] /\ op' = [op EXCEPT ![t] = "none"]
        /\ UNCHANGED <<exe, sleep, join, active>>
    BY <1>5 DEF Signal, Clear
  <2>2. Fits("run", "none") /\ Stands("run", "none") = 1 /\ Stands(pc[t], op[t]) = 1
    BY <2>1 DEF Fits, Stands
  <2>3. ASSUME NEW u \in Thread PROVE Count(u)' = IF u = t THEN Stands("run", "none") ELSE Count(u)
    <3>1. SumsOf(t, u)
      BY Sums
    <3>2. Times(mutexQ', u) + Times(monQ', u) = Times(mutexQ, u) + Times(monQ, u)
      BY <1>q, <1>5, Signalled
    <3>3. Times(mutexQ', u) \in Nat /\ Times(monQ', u) \in Nat
      BY <1>q, <1>5, Signalled
    <3> QED BY <2>1, <2>2, <3>1, <3>2, <3>3 DEF SumsOf
  <2> QED BY <1>p, <2>1, <2>2, <2>3, Moves
<1>6. CASE LeaveProcessor(t)
  <2> PICK c \in Calls : c = op[t]
    BY <1>f
  <2>1. /\ t = active /\ pc[t] = "gap" /\ SwitchTo(exe)
        /\ pc' = [pc EXCEPT ![t] = "away"] /\ op' = op
        /\ UNCHANGED <<sleep, join, mutexQ, monQ>>
    BY <1>6 DEF LeaveProcessor, monitor
  <2>2. Fits("away", c) /\ Stands("away", c) = 1 /\ Stands(pc[t], op[t]) = 2
    BY <1>f, <2>1 DEF Fits, Stands
  <2>3. ASSUME NEW u \in Thread PROVE Count(u)' = IF u = t THEN Stands("away", c) ELSE Count(u)
    <3>1. Times(exe', u) + One(active', u) = Times(exe, u)
      BY <1>q, <2>1, SwitchedTo DEF Queues
    <3>2. exe' \in Seq(Thread)
      BY <1>q, <2>1, SwitchedTo DEF Queues
    <3>3. Times(exe', u) \in Nat /\ One(active', u) \in Nat
      BY <3>2, TimesType, OneType
    <3>4. SumsOf(t, u)
      BY Sums
    <3> QED BY <2>1, <2>2, <3>1, <3>3, <3>4 DEF SumsOf
  <2>4. op' = [op EXCEPT ![t] = c]
    BY <1>e, <2>1
  <2>5. pc' = [pc EXCEPT ![t] = "away"] /\ "away" \in Places /\ Fits("away", c)
    BY <1>p, <2>1, <2>2
  <2> QED BY <2>3, <2>4, <2>5, Moves
<1>7. CASE Return(t)
  <2>1. /\ pc[t] = "away" /\ pc' = [pc EXCEPT ![t] = "run"] /\ op' = [op EXCEPT ![t] = "none"]
        /\ UNCHANGED <<exe, sleep, join, mutexQ, monQ, active>>
    BY <1>7 DEF Return, lists, monitor
  <2>2. Fits("run", "none") /\ Stands("run", "none") = 1 /\ Stands(pc[t], op[t]) = 1
    BY <2>1 DEF Fits, Stands
  <2>3. ASSUME NEW u \in Thread PROVE Count(u)' = IF u = t THEN Stands("run", "none") ELSE Count(u)
    <3>1. SumsOf(t, u)
      BY Sums
    <3> QED BY <2>1, <2>2, <3>1 DEF SumsOf
  <2> QED BY <1>p, <2>1, <2>2, <2>3, Moves
<1> QED BY <1>1, <1>2, <1>3, <1>4, <1>5, <1>6, <1>7 DEF Continue

LEMMA PlacedTick ==
  ASSUME TypeOK, Placed, Tick
  PROVE  Placed'
<1> DEFINE K == {u \in Thread : Due(u)}
           L == {u \in Thread : ~Due(u)}
           q == exe \o Kept(sleep, K)
<1>q. Queues /\ active \in Thread
  BY TypedQueues DEF TypeOK
<1>1. /\ sleep' = Kept(sleep, L) /\ SwitchTo(Append(q, active))
      /\ UNCHANGED <<join, mutexQ, monQ, pc, op>>
  BY DEF Tick, Yield, monitor
<1>2. ASSUME NEW u \in Thread PROVE Count(u)' = Count(u)
  <2>1. /\ Kept(sleep, K) \in Seq(Thread) /\ sleep' \in Seq(Thread)
        /\ Times(Kept(sleep, K), u) = IF u \in K THEN Times(sleep, u) ELSE 0
        /\ Times(sleep', u) = IF u \in L THEN Times(sleep, u) ELSE 0
    BY <1>q, <1>1, Split DEF Queues
  <2>2. u \in K <=> u \notin L
    OBVIOUS
  <2> HIDE DEF K, L
  <2>3. q \in Seq(Thread) /\ Times(q, u) = Times(exe, u) + Times(Kept(sleep, K), u)
    BY <1>q, <2>1, Joined DEF Queues
  <2> HIDE DEF q
  <2>4. Append(q, active) \in Seq(Thread) /\ Times(Append(q, active), u) = Times(q, u) + One(active, u)
    BY <1>q, <2>3, Appended
  <2>5. exe' \in Seq(Thread) /\ Times(exe', u) + One(active', u) = Times(Append(q, active), u)
    BY <1>1, <2>4, SwitchedTo
  <2>6. SumsOf(active, u)
    BY Sums
  <2>7. /\ Times(exe', u) \in Nat /\ One(active', u) \in Nat /\ Times(sleep', u) \in Nat
        /\ Times(Kept(sleep, K), u) \in Nat
    BY <2>1, <2>5, TimesType, OneType
  <2>8. Times(Kept(sleep, K), u) + Times(sleep', u) = Times(sleep, u)
    BY <2>1, <2>2, <2>6 DEF SumsOf
  <2>9. UNCHANGED <<join, mutexQ, monQ>>
    BY <1>1
  <2>10. Times(exe, u) \in Nat /\ Times(sleep, u) \in Nat /\ One(active, u) \in Nat
    BY <2>6 DEF SumsOf
  <2>11. Times(exe', u) + One(active', u) = Times(exe, u) + Times(Kept(sleep, K), u) + One(active, u)
    BY <2>3, <2>4, <2>5
  <2>12. Times(exe', u) + Times(sleep', u) + One(active', u)
           = Times(exe, u) + Times(sleep, u) + One(active, u)
    BY <2>7, <2>8, <2>10, <2>11
  <2> QED BY <2>6, <2>7, <2>9, <2>10, <2>12 DEF SumsOf
<1> QED BY <1>1, <1>2 DEF Placed, OpAt

LEMMA PlacedHolds == Spec => []Placed
<1>1. TypeOK /\ Placed /\ [Next]_vars => Placed'
  <2> SUFFICES ASSUME TypeOK, Placed, [Next]_vars PROVE Placed'
    OBVIOUS
  <2>1. CASE Next
    BY <2>1, PlacedChoice, PlacedContinue, PlacedTick DEF Next
  <2>2. CASE UNCHANGED vars
    BY <2>2 DEF vars, lists, monitor, Placed, OpAt, Count
  <2> QED BY <2>1, <2>2
<1> QED BY <1>1, PlacedInit, TypesHold, PTL DEF Spec

\* No thread is lost and none is doubled: each is active or in one list, in two
\* while mutex_lock or monitor_wait has queued it and it has not reached
\* sthread_switch, and in none once it exited.  Whichever thread the timer lets
\* run in between, and whoever wakes it there.
THEOREM OnePlaceHolds == Spec => []OnePlace
BY PlacedHolds, PlacedIs, PTL

-----------------------------------------------------------------------------
\* What the mutex and the queues say of a thread.  A thread in a queue is in
\* the call that put it there; one that works on the mutex owns it, and so does
\* one in lock or wait that is queued no more: it was granted the mutex while
\* it slept.  Who is in the monitor owns the mutex, and is in no call but one
\* it stays in the monitor for.
Guard(t) ==
  /\ Times(mutexQ, t) # 0 => op[t] \in {"lock", "wait"}
  /\ Times(monQ, t) # 0 => op[t] = "wait"
  /\ op[t] = "wait" /\ pc[t] \in {"spin", "locked"} => Times(monQ, t) # 0
  /\ Times(join, t) # 0 => op[t] = "join"
  /\ op[t] \in {"unlock", "wait", "signal", "signalall"} /\ pc[t] \in {"spin", "locked"} => thr = t
  /\ op[t] \in {"lock", "wait"} /\ pc[t] \in {"gap", "away"}
       /\ Times(mutexQ, t) = 0 /\ Times(monQ, t) = 0 => thr = t
  /\ t \in inside => thr = t /\ op[t] \notin {"lock", "unlock", "wait", "join"}
  /\ thr = t => t \in inside \/ op[t] \in {"lock", "wait", "unlock"}

Guarded == (\A t \in Thread : Guard(t)) /\ (mutexQ # <<>> => thr # NoThread)

LEMMA GuardedExcludes == TypeOK /\ Guarded => Exclusion
BY DEF TypeOK, Guarded, Guard, Exclusion

LEMMA GuardedInit == Init => Guarded
<1> SUFFICES ASSUME Init PROVE Guarded
  OBVIOUS
<1>1. ASSUME NEW t \in Thread PROVE Guard(t)
  <2>1. thr = NoThread /\ t # NoThread /\ op[t] = "none" /\ inside = {}
    BY DEF Init, MonitorInit, MutexInit
  <2>2. Times(mutexQ, t) = 0 /\ Times(monQ, t) = 0 /\ Times(join, t) = 0
    BY TimesEmpty DEF Init, MonitorInit, MutexInit
  <2> QED BY <2>1, <2>2 DEF Guard
<1> QED BY <1>1 DEF Guarded, Init, MonitorInit, MutexInit

\* A thread that has one place, and runs, is in no queue.
LEMMA RunsAlone ==
  ASSUME TypeOK, Placed, NEW t \in Thread, t = active, Stands(pc[t], op[t]) = 1
  PROVE  Times(mutexQ, t) = 0 /\ Times(monQ, t) = 0 /\ Times(join, t) = 0
<1>1. SumsOf(t, t)
  BY Sums
<1> QED BY <1>1 DEF SumsOf

\* What a step leaves alone of a thread keeps its guard.
Untouched(t) ==
  /\ pc'[t] = pc[t] /\ op'[t] = op[t] /\ (thr' = t <=> thr = t) /\ (t \in inside' <=> t \in inside)
  /\ Times(mutexQ', t) = Times(mutexQ, t) /\ Times(monQ', t) = Times(monQ, t)
  /\ Times(join', t) # 0 => Times(join, t) # 0

LEMMA StaysGuarded == ASSUME NEW t, Guard(t), Untouched(t) PROVE Guard(t)'
BY DEF Guard, Untouched

\* Steps that change neither the mutex nor its queue nor that of the monitor.
LEMMA GuardedOutside ==
  ASSUME TypeOK, Guarded, NEW t \in Thread, Guard(t)',
         NEW p, NEW c, pc' = [pc EXCEPT ![t] = p], op' = [op EXCEPT ![t] = c],
         UNCHANGED <<thr, mutexQ>>,
         \A u \in Thread \ {t} : /\ u \in inside' <=> u \in inside
                                 /\ Times(monQ', u) = Times(monQ, u)
                                 /\ Times(join', u) # 0 => Times(join, u) # 0
  PROVE  Guarded'
<1>1. ASSUME NEW u \in Thread \ {t} PROVE Guard(u)'
  <2>1. pc'[u] = pc[u] /\ op'[u] = op[u]
    BY DEF TypeOK
  <2>2. Guard(u)
    BY DEF Guarded
  <2> QED BY <2>1, <2>2, StaysGuarded DEF Untouched
<1> QED BY <1>1 DEF Guarded

LEMMA GuardedChoice ==
  ASSUME TypeOK, Placed, Guarded, NEW t \in Thread, Choice(t)
  PROVE  Guarded'
<1>q. Queues
  BY TypedQueues
<1>f. pc \in [Thread -> Places] /\ op \in [Thread -> Calls] /\ Fits(pc[t], op[t])
  BY DEF TypeOK, Placed, OpAt
<1>w. Works(t) => op[t] = "none" /\ pc[t] = "run"
  BY <1>f DEF Fits, Works
<1>e. op' = op /\ op[t] = "none" => op' = [op EXCEPT ![t] = "none"]
  BY DEF TypeOK
<1>g. Guard(t)
  BY DEF Guarded
<1>1. CASE Create(t)
  <2>1. /\ pc[t] = "new" /\ pc' = [pc EXCEPT ![t] = "run"] /\ op' = op
        /\ UNCHANGED <<join, mutexQ, monQ, thr, inside>>
    BY <1>1 DEF Create, monitor
  <2>2. op[t] = "none" /\ op' = [op EXCEPT ![t] = "none"] /\ pc'[t] = "run" /\ op'[t] = "none"
    BY <1>f, <1>e, <2>1 DEF Fits
  <2>3. Guard(t)'
    BY <1>g, <2>1, <2>2 DEF Guard
  <2> QED BY <2>1, <2>2, <2>3, GuardedOutside
<1>2. CASE Exit(t)
  <2> DEFINE L == {u \in Thread : ~Joins(u, t)}
  <2>1. /\ Works(t) /\ join' = Kept(join, L) /\ pc' = [pc EXCEPT ![t] = "exited"] /\ op' = op
        /\ UNCHANGED <<mutexQ, monQ, thr, inside>>
    BY <1>2 DEF Exit, monitor
  <2>2. op[t] = "none" /\ op' = [op EXCEPT ![t] = "none"] /\ pc'[t] = "exited" /\ op'[t] = "none"
    BY <1>f, <1>w, <1>e, <2>1
  <2>3. \A u : Times(join', u) # 0 => Times(join, u) # 0
    BY <1>q, <2>1, Split DEF Queues
  <2>4. Guard(t)'
    BY <1>g, <2>1, <2>2, <2>3 DEF Guard
  <2> QED BY <2>1, <2>2, <2>3, <2>4, GuardedOutside
<1>3. ASSUME NEW n \in Ticks, Sleep(t, n) PROVE Guarded'
  <2>1. /\ Works(t) /\ pc' = [pc EXCEPT ![t] = "away"] /\ op' = [op EXCEPT ![t] = "sleep"]
        /\ UNCHANGED <<join, mutexQ, monQ, thr, inside>>
    BY <1>3 DEF Sleep, monitor
  <2>2. op[t] = "none" /\ pc'[t] = "away" /\ op'[t] = "sleep"
    BY <1>f, <1>w, <2>1
  <2>3. Guard(t)'
    BY <1>g, <2>1, <2>2 DEF Guard
  <2> QED BY <2>1, <2>3, GuardedOutside
<1>4. ASSUME NEW u \in Thread \ {Main}, JoinZombie(t, u) PROVE Guarded'
  <2>1. UNCHANGED <<join, mutexQ, monQ, thr, inside, pc, op>>
    BY <1>4 DEF JoinZombie, monitor
  <2> QED BY <2>1 DEF Guarded, Guard
<1>5. ASSUME NEW v \in Thread \ {Main}, Join(t, v) PROVE Guarded'
  <2>1. /\ Works(t) /\ t \notin inside /\ join' = Append(join, t)
        /\ pc' = [pc EXCEPT ![t] = "away"] /\ op' = [op EXCEPT ![t] = "join"]
        /\ UNCHANGED <<mutexQ, monQ, thr, inside>>
    BY <1>5 DEF Join, monitor
  <2>2. op[t] = "none" /\ pc'[t] = "away" /\ op'[t] = "join"
    BY <1>f, <1>w, <2>1
  <2>3. Guard(t)'
    BY <1>g, <2>1, <2>2 DEF Guard
  <2>4. ASSUME NEW u \in Thread \ {t} PROVE Times(join', u) = Times(join, u)
    <3>1. Times(join', u) = Times(join, u) + One(t, u)
      BY <1>q, <2>1, Appended DEF Queues
    <3>2. One(t, u) = 0 /\ Times(join, u) \in Nat
      BY <1>q, OneType, TimesType DEF Queues
    <3> QED BY <3>1, <3>2
  <2> QED BY <2>1, <2>3, <2>4, GuardedOutside
<1>6. ASSUME NEW c \in Calls \ {"none", "join", "sleep"}, Call(t, c) PROVE Guarded'
  <2>1. /\ Works(t) /\ pc' = [pc EXCEPT ![t] = "spin"] /\ op' = [op EXCEPT ![t] = c]
        /\ IF c = "lock" THEN t \notin inside ELSE thr = t /\ t \in inside
        /\ monQ' = IF c = "wait" THEN Append(monQ, t) ELSE monQ
        /\ inside' = IF c \in {"unlock", "wait"} THEN inside \ {t} ELSE inside
        /\ UNCHANGED <<join, mutexQ, thr>>
    BY <1>6 DEF Call, lists
  <2>2. /\ op[t] = "none" /\ pc'[t] = "spin" /\ op'[t] = c
        /\ c \in {"lock", "unlock", "wait", "signal", "signalall"}
    BY <1>f, <1>w, <2>1 DEF Calls
  <2>3. /\ Times(monQ, t) = 0
        /\ Times(monQ', t) = IF c = "wait" THEN 1 ELSE 0
    <3>1. Times(monQ, t) = 0
      BY <1>g, <2>2, <2>1 DEF Guard
    <3>2. c = "wait" => Times(monQ', t) = Times(monQ, t) + One(t, t)
      BY <1>q, <2>1, Appended DEF Queues
    <3> QED BY <2>1, <3>1, <3>2, OneType
  <2>4. Guard(t)'
    BY <1>g, <2>1, <2>2, <2>3 DEF Guard
  <2>5. ASSUME NEW u \in Thread \ {t} PROVE Times(monQ', u) = Times(monQ, u)
    <3>1. c = "wait" => Times(monQ', u) = Times(monQ, u) + One(t, u)
      BY <1>q, <2>1, Appended DEF Queues
    <3>2. One(t, u) = 0 /\ Times(monQ, u) \in Nat
      BY <1>q, OneType, TimesType DEF Queues
    <3> QED BY <2>1, <3>1, <3>2
  <2> QED BY <2>1, <2>4, <2>5, GuardedOutside
<1>7. CASE YieldCall(t)
  <2>1. UNCHANGED <<join, mutexQ, monQ, thr, inside, pc, op>>
    BY <1>7 DEF YieldCall, monitor
  <2> QED BY <2>1 DEF Guarded, Guard
<1> QED BY <1>1, <1>2, <1>3, <1>4, <1>5, <1>6, <1>7 DEF Choice

LEMMA GuardedContinue ==
  ASSUME TypeOK, Placed, Guarded, NEW t \in Thread, Continue(t)
  PROVE  Guarded'
<1>q. Queues
  BY TypedQueues
<1>f. pc \in [Thread -> Places] /\ op \in [Thread -> Calls] /\ Fits(pc[t], op[t])
  BY DEF TypeOK, Placed, OpAt
<1>e. op' = op => op' = [op EXCEPT ![t] = op[t]]
  BY DEF TypeOK
<1>g. Guard(t)
  BY DEF Guarded
<1>m. t # NoThread
  OBVIOUS
<1>1. CASE TestAndSet(t)
  <2>1. /\ pc[t] = "spin" /\ pc' = [pc EXCEPT ![t] = IF l THEN "spin" ELSE "locked"]
        /\ UNCHANGED <<join, mutexQ, monQ, op, thr, inside>>
    BY <1>1 DEF TestAndSet, lists
  <2>2. pc'[t] \in {"spin", "locked"} /\ \A u \in Thread \ {t} : pc'[u] = pc[u]
    BY <1>f, <2>1
  <2>3. Guard(t)'
    BY <1>g, <2>1, <2>2 DEF Guard
  <2>4. ASSUME NEW u \in Thread \ {t} PROVE Guard(u)'
    BY <2>1, <2>2, StaysGuarded DEF Guarded, Untouched
  <2> QED BY <2>1, <2>3, <2>4 DEF Guarded
<1>2. CASE Take(t)
  <2>1. /\ t = active /\ pc[t] = "locked" /\ op[t] = "lock" /\ thr = NoThread /\ thr' = t
        /\ inside' = inside \cup {t}
        /\ pc' = [pc EXCEPT ![t] = "run"] /\ op' = [op EXCEPT ![t] = "none"]
        /\ UNCHANGED <<join, mutexQ, monQ>>
    BY <1>2 DEF Take, Clear
  <2>2. /\ pc'[t] = "run" /\ op'[t] = "none"
        /\ \A u \in Thread \ {t} : pc'[u] = pc[u] /\ op'[u] = op[u]
    BY <1>f, <2>1
  <2>3. Times(mutexQ, t) = 0 /\ Times(monQ, t) = 0 /\ Times(join, t) = 0
    BY <2>1, RunsAlone DEF Stands
  <2>4. Guard(t)'
    BY <2>1, <2>2, <2>3 DEF Guard
  <2>5. ASSUME NEW u \in Thread \ {t} PROVE Guard(u)'
    BY <2>1, <2>2, StaysGuarded DEF Guarded, Untouched
  <2> QED BY <1>m, <2>1, <2>4, <2>5 DEF Guarded
<1>3. CASE Queue(t)
  <2>1. /\ pc[t] = "locked" /\ op[t] = "lock" /\ thr # NoThread /\ mutexQ' = Append(mutexQ, t)
        /\ pc' = [pc EXCEPT ![t] = "gap"]
        /\ UNCHANGED <<join, monQ, thr, inside>>
    BY <1>3 DEF Queue, Clear
  <2>2. op' = [op EXCEPT ![t] = op[t]]
    BY <1>3 DEF Queue, Clear
  <2>3. /\ pc'[t] = "gap" /\ op'[t] = "lock"
        /\ \A u \in Thread \ {t} : pc'[u] = pc[u] /\ op'[u] = op[u]
    BY <1>f, <2>1, <2>2
  <2>4. \A u : Times(mutexQ', u) = Times(mutexQ, u) + One(t, u) /\ Times(mutexQ, u) \in Nat
    BY <1>q, <2>1, Appended, TimesType DEF Queues
  <2>5. Times(mutexQ', t) # 0 /\ \A u \in Thread \ {t} : Times(mutexQ', u) = Times(mutexQ, u)
    BY <2>4, OneType
  <2>6. Guard(t)'
    BY <1>g, <2>1, <2>3, <2>5 DEF Guard
  <2>7. ASSUME NEW u \in Thread \ {t} PROVE Guard(u)'
    BY <2>1, <2>3, <2>5, StaysGuarded DEF Guarded, Untouched
  <2> QED BY <2>1, <2>6, <2>7 DEF Guarded
<1>4. CASE Unlock(t)
  <2>1. /\ t = active /\ pc[t] = "locked" /\ op[t] \in {"unlock", "wait"}
        /\ pc' = [pc EXCEPT ![t] = IF op[t] = "wait" THEN "gap" ELSE "run"]
        /\ op' = [op EXCEPT ![t] = IF op[t] = "wait" THEN "wait" ELSE "none"]
        /\ UNCHANGED <<join, monQ, inside>>
    BY <1>4 DEF Unlock, Clear
  <2>2. IF mutexQ = <<>> THEN thr' = NoThread /\ UNCHANGED mutexQ ELSE HandOver
    BY <1>4 DEF Unlock
  <2>3. /\ pc'[t] = (IF op[t] = "wait" THEN "gap" ELSE "run")
        /\ op'[t] = (IF op[t] = "wait" THEN "wait" ELSE "none")
        /\ \A u \in Thread \ {t} : pc'[u] = pc[u] /\ op'[u] = op[u]
    BY <1>f, <2>1
  <2>4. thr = t /\ t \notin inside /\ (op[t] = "wait" => Times(monQ, t) # 0)
    BY <1>g, <2>1 DEF Guard
  <2>5. Times(mutexQ, t) = 0 /\ Times(join, t) = 0
    <3>1. SumsOf(t, t)
      BY Sums
    <3>2. Stands(pc[t], op[t]) = IF op[t] = "wait" THEN 2 ELSE 1
      BY <2>1 DEF Stands
    <3> QED BY <2>1, <2>4, <3>1, <3>2 DEF SumsOf
  <2>6. CASE mutexQ = <<>>
    <3>1. Guard(t)'
      BY <1>g, <1>m, <2>1, <2>2, <2>3, <2>4, <2>5, <2>6 DEF Guard
    <3>2. ASSUME NEW u \in Thread \ {t} PROVE Guard(u)'
      BY <2>1, <2>2, <2>3, <2>4, <2>6, StaysGuarded DEF Guarded, Untouched
    <3> QED BY <2>2, <2>6, <3>1, <3>2 DEF Guarded
  <2>7. CASE mutexQ # <<>>
    <3> PICK h \in Thread : h = Head(mutexQ)
      BY <1>q, <2>7, Headed DEF Queues
    <3>1. thr' = h /\ mutexQ' = Tail(mutexQ)
      BY <2>2, <2>7 DEF HandOver
    <3>2. /\ Tail(mutexQ) \in Seq(Thread)
          /\ \A u : Times(mutexQ, u) = Times(Tail(mutexQ), u) + One(h, u)
      BY <1>q, <2>7, Headed DEF Queues
    <3>3. \A u : Times(Tail(mutexQ), u) \in Nat /\ One(h, u) \in Nat
      BY <3>2, TimesType, OneType
    <3>4. h # t /\ Times(mutexQ, h) # 0 /\ Times(mutexQ', t) = 0
      BY <2>5, <3>1, <3>2, <3>3, OneType
    <3>5. Guard(t)'
      BY <1>g, <2>1, <2>3, <2>4, <2>5, <3>1, <3>4 DEF Guard
    <3>6. ASSUME NEW u \in Thread \ {t, h} PROVE Guard(u)'
      <4>1. Times(mutexQ', u) = Times(mutexQ, u)
        BY <3>1, <3>2, <3>3, OneType
      <4> QED BY <2>1, <2>3, <2>4, <3>1, <4>1, StaysGuarded DEF Guarded, Untouched
    <3>7. Guard(h)'
      <4>1. Guard(h) /\ op[h] \in {"lock", "wait"} /\ h \notin inside
        BY <2>4, <3>4 DEF Guarded, Guard
      <4>2. op'[h] = op[h] /\ pc'[h] = pc[h]
        BY <2>3, <3>4
      <4> QED BY <2>1, <3>1, <4>1, <4>2 DEF Guard
    <3>8. thr' # NoThread
      BY <3>1
    <3> QED BY <3>5, <3>6, <3>7, <3>8 DEF Guarded
  <2> QED BY <2>6, <2>7
<1>5. CASE Signal(t)
  <2>1. /\ pc[t] = "locked" /\ op[t] \in {"signal", "signalall"}
        /\ pc' = [pc EXCEPT ![t] = "run"] /\ op' = [op EXCEPT ![t] = "none"]
        /\ UNCHANGED <<join, thr, inside>>
    BY <1>5 DEF Signal, Clear
  <2>2. /\ pc'[t] = "run" /\ op'[t] = "none"
        /\ \A u \in Thread \ {t} : pc'[u] = pc[u] /\ op'[u] = op[u]
    BY <1>f, <2>1
  <2>3. thr = t
    BY <1>g, <2>1 DEF Guard
  <2>4. ASSUME NEW u
        PROVE  /\ Times(mutexQ', u) = 0 /\ Times(monQ', u) = 0
                    <=> Times(mutexQ, u) = 0 /\ Times(monQ, u) = 0
               /\ Times(monQ', u) # 0 => Times(monQ, u) # 0
    <3>1. /\ Times(mutexQ', u) \in Nat /\ Times(monQ', u) \in Nat
          /\ Times(mutexQ', u) + Times(monQ', u) = Times(mutexQ, u) + Times(monQ, u)
          /\ Times(monQ', u) <= Times(monQ, u)
      BY <1>q, <1>5, Signalled
    <3>2. Times(mutexQ, u) \in Nat /\ Times(monQ, u) \in Nat
      BY <1>q, TimesType DEF Queues
    <3> QED BY <3>1, <3>2
  <2>5. Guard(t)'
    BY <1>g, <2>1, <2>2, <2>3, <2>4 DEF Guard
  <2>6. ASSUME NEW u \in Thread \ {t} PROVE Guard(u)'
    <3>1. Guard(u)
      BY DEF Guarded
    <3> QED BY <2>1, <2>2, <2>3, <2>4, <3>1 DEF Guard
  <2> QED BY <1>m, <2>1, <2>3, <2>5, <2>6 DEF Guarded
<1>6. CASE LeaveProcessor(t)
  <2>1. /\ pc[t] = "gap" /\ pc' = [pc EXCEPT ![t] = "away"]
        /\ UNCHANGED <<join, mutexQ, monQ, op, thr, inside>>
    BY <1>6 DEF LeaveProcessor, monitor
  <2>2. pc'[t] = "away" /\ \A u \in Thread \ {t} : pc'[u] = pc[u]
    BY <1>f, <2>1
  <2>3. Guard(t)'
    BY <1>g, <2>1, <2>2 DEF Guard
  <2>4. ASSUME NEW u \in Thread \ {t} PROVE Guard(u)'
    BY <2>1, <2>2, StaysGuarded DEF Guarded, Untouched
  <2> QED BY <2>1, <2>3, <2>4 DEF Guarded
<1>7. CASE Return(t)
  <2>1. /\ t = active /\ pc[t] = "away"
        /\ pc' = [pc EXCEPT ![t] = "run"] /\ op' = [op EXCEPT ![t] = "none"]
        /\ inside' = IF op[t] \in {"lock", "wait"} THEN inside \cup {t} ELSE inside
        /\ UNCHANGED <<join, mutexQ, monQ, thr>>
    BY <1>7 DEF Return, lists, monitor
  <2>2. pc'[t] = "run" /\ op'[t] = "none" /\ op[t] \in {"lock", "wait", "join", "sleep"}
    BY <1>f, <2>1 DEF Fits
  <2>3. Times(mutexQ, t) = 0 /\ Times(monQ, t) = 0 /\ Times(join, t) = 0
    BY <2>1, RunsAlone DEF Stands
  <2>4. Guard(t)'
    BY <1>g, <2>1, <2>2, <2>3 DEF Guard
  <2>5. \A u \in Thread \ {t} : /\ u \in inside' <=> u \in inside
                                /\ Times(monQ', u) = Times(monQ, u)
                                /\ Times(join', u) # 0 => Times(join, u) # 0
    BY <2>1
  <2> QED BY <2>1, <2>4, <2>5, GuardedOutside
<1> QED BY <1>1, <1>2, <1>3, <1>4, <1>5, <1>6, <1>7 DEF Continue

LEMMA GuardedHolds == Spec => []Guarded
<1>1. TypeOK /\ Placed /\ Guarded /\ [Next]_vars => Guarded'
  <2> SUFFICES ASSUME TypeOK, Placed, Guarded, [Next]_vars PROVE Guarded'
    OBVIOUS
  <2>1. CASE Tick
    <3>1. UNCHANGED <<join, mutexQ, monQ, thr, pc, op, inside>>
      BY <2>1 DEF Tick, monitor
    <3> QED BY <3>1 DEF Guarded, Guard
  <2>2. CASE UNCHANGED vars
    BY <2>2 DEF vars, lists, monitor, Guarded, Guard
  <2> QED BY <2>1, <2>2, GuardedChoice, GuardedContinue DEF Next
<1> QED BY <1>1, GuardedInit, TypesHold, PlacedHolds, PTL DEF Spec

\* The monitor excludes, for any number of threads: the spin lock, the owner and
\* the two queues of sthread_user_mutex_lock, _unlock and the monitor let one
\* thread in at a time, though the timer preempts them anywhere.
THEOREM ExclusionHolds == Spec => []Exclusion
BY GuardedHolds, TypesHold, GuardedExcludes, PTL

-----------------------------------------------------------------------------
\* A thread in join waits for a thread, which is over when the wait is; and
\* who is over is a zombie or dead, once.
Awaits(t) ==
  /\ op[t] = "join" => target[t] \in Thread
  /\ op[t] = "join" /\ Times(join, t) = 0 => pc[target[t]] = "exited"
  /\ Times(join, t) # 0 => pc[target[t]] # "exited"
  /\ Times(zombie, t) + Times(dead, t) = IF pc[t] = "exited" THEN 1 ELSE 0

Awaited == \A t \in Thread : Awaits(t)

LEMMA AwaitedIs == TypeOK /\ Awaited => JoinAfterExit
<1> SUFFICES ASSUME TypeOK, Awaited PROVE JoinAfterExit
  OBVIOUS
<1>1. Queues
  BY TypedQueues
<1>2. \A t : /\ t \in ToSet(join) <=> Times(join, t) # 0
            /\ Contains(join, t) <=> Times(join, t) # 0
  BY <1>1, Absent DEF Queues
<1>3. ToSet(join) \subseteq Thread
  BY <1>1, LenProperties DEF ToSet, Queues
<1>4. ASSUME NEW t \in Thread PROVE Awaits(t)
  BY DEF Awaited
<1>5. ASSUME NEW t \in Thread, op[t] = "join", ~Contains(join, t) PROVE pc[target[t]] = "exited"
  BY <1>2, <1>4, <1>5 DEF Awaits
<1>6. ASSUME NEW t \in Thread
      PROVE  Times(zombie, t) + Times(dead, t) = IF pc[t] = "exited" THEN 1 ELSE 0
  BY <1>4 DEF Awaits
<1>7. ASSUME NEW t, t \in ToSet(join) PROVE pc[target[t]] # "exited"
  <2>1. t \in Thread /\ Times(join, t) # 0
    <3>1. t \in Thread
      BY <1>3, <1>7
    <3>2. Times(join, t) # 0
      BY <1>1, <1>7, Absent DEF Queues
    <3> QED BY <3>1, <3>2
  <2> QED BY <1>4, <2>1 DEF Awaits
<1> QED BY <1>5, <1>6, <1>7 DEF JoinAfterExit

LEMMA AwaitedInit == Init => Awaited
<1> SUFFICES ASSUME Init, NEW t \in Thread PROVE Awaits(t)
  BY DEF Awaited
<1>1. op[t] = "none" /\ pc[t] # "exited"
  BY DEF Init
<1>2. Times(join, t) = 0 /\ Times(zombie, t) = 0 /\ Times(dead, t) = 0
  BY TimesEmpty DEF Init
<1> QED BY <1>1, <1>2 DEF Awaits

\* Steps of a thread that neither exits nor joins.
LEMMA AwaitedElse ==
  ASSUME TypeOK, Guarded, Awaited, NEW t \in Thread,
         pc[t] # "exited", pc'[t] # "exited", op'[t] # "join",
         \A u \in Thread \ {t} : pc'[u] = pc[u] /\ op'[u] = op[u],
         UNCHANGED <<join, zombie, dead, target>>
  PROVE  Awaited'
<1> SUFFICES ASSUME NEW u \in Thread PROVE Awaits(u)'
  BY DEF Awaited
<1>1. Awaits(u) /\ Guard(u)
  BY DEF Awaited, Guarded
<1>2. \A v \in Thread : pc'[v] = "exited" <=> pc[v] = "exited"
  OBVIOUS
<1>3. op'[u] = "join" => op[u] = "join"
  OBVIOUS
<1>4. Times(join, u) # 0 => op[u] = "join"
  BY <1>1 DEF Guard
<1> QED BY <1>1, <1>2, <1>3, <1>4 DEF Awaits

\* The scan of the zombies leaves none, as there is none but the one it is for.
LEMMA ScannedEmpty ==
  ASSUME Queues, NEW u \in Thread, OnlyZombie(u)
  PROVE  /\ Unzombied(zombie, u) = <<>>
         /\ \A t \in Thread \ {u} : Times(zombie, t) = 0
<1>1. \A t \in Thread \ {u} : Times(zombie, t) = 0
  <2> SUFFICES ASSUME NEW t \in Thread \ {u} PROVE Times(zombie, t) = 0
    OBVIOUS
  <2>1. t \notin ToSet(zombie)
    BY DEF OnlyZombie
  <2> QED BY <2>1, Absent DEF Queues
<1>2. /\ Kept(zombie, Thread \ {u}) \in Seq(Thread)
      /\ \A t \in Thread : Times(Kept(zombie, Thread \ {u}), t) = 0
  BY <1>1, Split DEF Queues
<1>3. Kept(zombie, Thread \ {u}) = <<>>
  BY <1>2, Nobody
<1>4. Unzombied(zombie, u) = [i \in 1 .. 0 |-> u]
  BY <1>3, EmptySeq DEF Unzombied
<1>5. Unzombied(zombie, u) = <<>>
  BY <1>4
<1> QED BY <1>1, <1>5

LEMMA AwaitedExit ==
  ASSUME TypeOK, Placed, Guarded, Awaited, NEW t \in Thread, Exit(t)
  PROVE  Awaited'
<1> DEFINE K == {u \in Thread : Joins(u, t)}
           L == {u \in Thread : ~Joins(u, t)}
<1>q. Queues
  BY TypedQueues
<1>1. /\ pc[t] = "run" /\ join' = Kept(join, L)
      /\ pc' = [pc EXCEPT ![t] = "exited"] /\ UNCHANGED <<op, target>>
      /\ \/ zombie' = Append(zombie, t) /\ dead' = dead
         \/ zombie' = zombie /\ dead' = Append(dead, t)
  BY DEF Exit, Works
<1>2. pc'[t] = "exited" /\ \A u \in Thread \ {t} : pc'[u] = pc[u]
  BY <1>1 DEF TypeOK
<1>3. ASSUME NEW u \in Thread
      PROVE  Times(zombie', u) + Times(dead', u) = IF pc'[u] = "exited" THEN 1 ELSE 0
  <2>1. Times(zombie', u) + Times(dead', u) = Times(zombie, u) + Times(dead, u) + One(t, u)
    <3>1. Times(zombie, u) \in Nat /\ Times(dead, u) \in Nat /\ One(t, u) \in Nat
      BY <1>q, Counted, OneType
    <3>2. CASE zombie' = Append(zombie, t) /\ dead' = dead
      <4>1. Times(zombie', u) = Times(zombie, u) + One(t, u)
        BY <1>q, <3>2, Appended DEF Queues
      <4> QED BY <3>1, <3>2, <4>1
    <3>3. CASE zombie' = zombie /\ dead' = Append(dead, t)
      <4>1. Times(dead', u) = Times(dead, u) + One(t, u)
        BY <1>q, <3>3, Appended DEF Queues
      <4> QED BY <3>1, <3>3, <4>1
    <3> QED BY <1>1, <3>2, <3>3
  <2>2. Times(zombie, u) + Times(dead, u) = IF pc[u] = "exited" THEN 1 ELSE 0
    BY DEF Awaited, Awaits
  <2> QED BY <1>1, <1>2, <2>1, <2>2, OneType
<1>4. ASSUME NEW u \in Thread PROVE Awaits(u)'
  <2>1. Times(join', u) = IF u \in L THEN Times(join, u) ELSE 0
    BY <1>q, <1>1, Split DEF Queues
  <2>2. u \in L <=> target[u] # t
    BY DEF Joins
  <2> HIDE DEF K, L
  <2>3. Awaits(u) /\ Guard(u)
    BY DEF Awaited, Guarded
  <2>4. Times(join, u) # 0 => op[u] = "join"
    BY <2>3 DEF Guard
  <2> QED BY <1>1, <1>2, <1>3, <2>1, <2>2, <2>3, <2>4 DEF Awaits
<1> QED BY <1>4 DEF Awaited

LEMMA AwaitedJoinZombie ==
  ASSUME TypeOK, Awaited, NEW t \in Thread, NEW u \in Thread, JoinZombie(t, u)
  PROVE  Awaited'
<1>q. Queues
  BY TypedQueues
<1>1. /\ Times(zombie, u) # 0 /\ zombie' = <<>> /\ dead' = Append(dead, u)
      /\ \A v \in Thread \ {u} : Times(zombie, v) = 0
      /\ UNCHANGED <<join, target, pc, op>>
  BY <1>q, ScannedEmpty, Absent DEF JoinZombie, Queues
<1>2. ASSUME NEW v \in Thread PROVE Awaits(v)'
  <2>1. Times(zombie', v) = 0 /\ Times(dead', v) = Times(dead, v) + One(u, v)
    BY <1>q, <1>1, TimesEmpty, Appended DEF Queues
  <2>2. Times(zombie, v) \in Nat /\ Times(dead, v) \in Nat
    BY <1>q, Counted
  <2>3. Awaits(v)
    BY DEF Awaited
  <2>4. Times(zombie', v) + Times(dead', v) = Times(zombie, v) + Times(dead, v)
    BY <1>1, <2>1, <2>2, <2>3, OneType DEF Awaits
  <2> QED BY <1>1, <2>3, <2>4 DEF Awaits
<1> QED BY <1>2 DEF Awaited

LEMMA AwaitedJoin ==
  ASSUME TypeOK, Placed, Guarded, Awaited, NEW t \in Thread, NEW v \in Thread, Join(t, v)
  PROVE  Awaited'
<1>q. Queues
  BY TypedQueues
<1>1. /\ pc[t] = "run" /\ active = t /\ Found(t, v) /\ OnlyZombie(v) /\ ~Contains(zombie, v)
      /\ target' = [target EXCEPT ![t] = v] /\ join' = Append(join, t)
      /\ pc' = [pc EXCEPT ![t] = "away"] /\ op' = [op EXCEPT ![t] = "join"]
      /\ zombie' = Unzombied(zombie, v) /\ dead' = dead
  BY DEF Join, Works
<1>2. /\ pc'[t] = "away" /\ op'[t] = "join" /\ target'[t] = v
      /\ \A u \in Thread \ {t} : pc'[u] = pc[u] /\ op'[u] = op[u] /\ target'[u] = target[u]
  BY <1>1 DEF TypeOK
<1>3. zombie' = zombie
  <2>1. zombie' = <<>> /\ \A u \in Thread \ {v} : Times(zombie, u) = 0
    BY <1>q, <1>1, ScannedEmpty
  <2>2. Times(zombie, v) = 0
    BY <1>q, <1>1, Absent DEF Queues
  <2>3. zombie = <<>>
    BY <1>q, <2>1, <2>2, Nobody DEF Queues
  <2> QED BY <2>1, <2>3
<1>4. pc[v] # "exited"
  <2>1. CASE v = t
    BY <1>1, <2>1
  <2>2. CASE v # t
    <3>1. Times(exe, v) # 0 \/ Times(sleep, v) # 0 \/ Times(join, v) # 0
      BY <1>q, <1>1, <2>2, Absent DEF Found, Queues
    <3>2. SumsOf(t, v)
      BY Sums
    <3> QED BY <3>1, <3>2 DEF SumsOf, Stands
  <2> QED BY <2>1, <2>2
<1>5. /\ Times(join', t) # 0
      /\ \A u \in Thread \ {t} : Times(join', u) = Times(join, u)
  <2>1. \A u : Times(join', u) = Times(join, u) + One(t, u)
    BY <1>q, <1>1, Appended DEF Queues
  <2>2. \A u : Times(join, u) \in Nat
    BY <1>q, Counted
  <2> QED BY <2>1, <2>2, OneType
<1>6. \A u \in Thread : pc'[u] = "exited" <=> pc[u] = "exited"
  BY <1>1, <1>2
<1>7. ASSUME NEW u \in Thread PROVE Awaits(u)'
  <2>1. Awaits(u) /\ Guard(u)
    BY DEF Awaited, Guarded
  <2>2. Times(join, u) # 0 => op[u] = "join"
    BY <2>1 DEF Guard
  <2>3. CASE u = t
    BY <1>1, <1>2, <1>3, <1>4, <1>5, <1>6, <2>1, <2>3 DEF Awaits
  <2>4. CASE u # t
    BY <1>1, <1>2, <1>3, <1>5, <1>6, <2>1, <2>2, <2>4 DEF Awaits
  <2> QED BY <2>3, <2>4
<1> QED BY <1>7 DEF Awaited

LEMMA AwaitedNext ==
  ASSUME TypeOK, Placed, Guarded, Awaited, [Next]_vars
  PROVE  Awaited'
<1>f. pc \in [Thread -> Places] /\ op \in [Thread -> Calls]
  BY DEF TypeOK
<1>1. CASE Tick
  <2>1. UNCHANGED <<join, zombie, dead, target, pc, op>>
    BY <1>1 DEF Tick
  <2> QED BY <2>1 DEF Awaited, Awaits
<1>2. ASSUME NEW t \in Thread, Choice(t) PROVE Awaited'
  <2>w. Works(t) => pc[t] = "run"
    BY DEF Works
  <2>1. CASE Create(t)
    <3>1. /\ pc[t] = "new" /\ pc' = [pc EXCEPT ![t] = "run"] /\ op' = op
          /\ UNCHANGED <<join, zombie, dead, target>>
      BY <2>1 DEF Create
    <3>2. op[t] = "none"
      BY <3>1 DEF Placed, OpAt, Fits
    <3> QED BY <1>f, <3>1, <3>2, AwaitedElse
  <2>2. CASE Exit(t)
    BY <2>2, AwaitedExit
  <2>3. ASSUME NEW n \in Ticks, Sleep(t, n) PROVE Awaited'
    <3>1. /\ pc[t] = "run" /\ pc' = [pc EXCEPT ![t] = "away"] /\ op' = [op EXCEPT ![t] = "sleep"]
          /\ UNCHANGED <<join, zombie, dead, target>>
      BY <2>3, <2>w DEF Sleep
    <3> QED BY <1>f, <3>1, AwaitedElse
  <2>4. ASSUME NEW u \in Thread \ {Main}, JoinZombie(t, u) PROVE Awaited'
    BY <2>4, AwaitedJoinZombie
  <2>5. ASSUME NEW u \in Thread \ {Main}, Join(t, u) PROVE Awaited'
    BY <2>5, AwaitedJoin
  <2>6. ASSUME NEW c \in Calls \ {"none", "join", "sleep"}, Call(t, c) PROVE Awaited'
    <3>1. /\ pc[t] = "run" /\ pc' = [pc EXCEPT ![t] = "spin"] /\ op' = [op EXCEPT ![t] = c]
          /\ UNCHANGED <<join, zombie, dead, target>>
      BY <2>6, <2>w DEF Call, lists
    <3> QED BY <1>f, <3>1, AwaitedElse
  <2>7. CASE YieldCall(t)
    <3>1. UNCHANGED <<join, zombie, dead, target, pc, op>>
      BY <2>7 DEF YieldCall
    <3> QED BY <3>1 DEF Awaited, Awaits
  <2> QED BY <1>2, <2>1, <2>2, <2>3, <2>4, <2>5, <2>6, <2>7 DEF Choice
<1>3. ASSUME NEW t \in Thread, Continue(t) PROVE Awaited'
  <2>1. UNCHANGED <<join, zombie, dead, target>>
    BY <1>3 DEF Continue, TestAndSet, Take, Queue, Unlock, Signal, LeaveProcessor, Return, Clear, lists
  <2>2. pc[t] \in {"spin", "locked", "gap", "away"}
    BY <1>3 DEF Continue, TestAndSet, Take, Queue, Unlock, Signal, LeaveProcessor, Return, Clear
  <2>3. PICK p \in {"spin", "locked", "run", "gap", "away"} : pc' = [pc EXCEPT ![t] = p]
    BY <1>3 DEF Continue, TestAndSet, Take, Queue, Unlock, Signal, LeaveProcessor, Return, Clear
  <2>4. \A u \in Thread : op'[u] = op[u] \/ (u = t /\ op'[u] = "none")
    <3>1. CASE TestAndSet(t) \/ LeaveProcessor(t)
      BY <3>1 DEF TestAndSet, LeaveProcessor
    <3>2. CASE Return(t)
      BY <1>f, <3>2 DEF Return
    <3>3. ASSUME NEW c, Clear(t, c)
          PROVE  \A u \in Thread : op'[u] = op[u] \/ (u = t /\ op'[u] = "none")
      BY <1>f, <3>3 DEF Clear
    <3> QED BY <1>3, <3>1, <3>2, <3>3 DEF Continue, Take, Queue, Unlock, Signal
  <2>5. pc[t] # "away" => op[t] # "join"
    BY <1>f, <2>2 DEF Placed, OpAt, Fits
  <2>6. op'[t] # "join" /\ \A u \in Thread \ {t} : op'[u] = op[u]
    <3>1. pc[t] = "away" => op'[t] = "none"
      BY <1>f, <1>3 DEF Continue, TestAndSet, Take, Queue, Unlock, Signal, LeaveProcessor, Return, Clear
    <3> QED BY <2>4, <2>5, <3>1
  <2>7. pc[t] # "exited" /\ pc'[t] # "exited" /\ \A u \in Thread \ {t} : pc'[u] = pc[u]
    BY <1>f, <2>2, <2>3
  <2> QED BY <2>1, <2>6, <2>7, AwaitedElse
<1>4. CASE UNCHANGED vars
  <2>1. UNCHANGED <<join, zombie, dead, target, pc, op>>
    BY <1>4 DEF vars, lists
  <2> QED BY <2>1 DEF Awaited, Awaits
<1> QED BY <1>1, <1>2, <1>3, <1>4 DEF Next

\* A thread that waits in sthread_user_join waits for one that has not exited,
\* and is not waiting any more once that one has.
THEOREM JoinAfterExitHolds == Spec => []JoinAfterExit
<1>1. TypeOK /\ Placed /\ Guarded /\ Awaited /\ [Next]_vars => Awaited'
  BY AwaitedNext
<1>2. Spec => []Awaited
  BY <1>1, AwaitedInit, TypesHold, PlacedHolds, GuardedHolds, PTL DEF Spec
<1> QED BY <1>2, TypesHold, AwaitedIs, PTL
=============================================================================
