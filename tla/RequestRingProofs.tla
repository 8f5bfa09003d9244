------------------------- MODULE RequestRingProofs -------------------------
(***************************************************************************)
(* Theorems about RequestRing, for every ring size and every set of        *)
(* consumers.  The invariants build on each other in this order:           *)
(*   TypeOK, Mutex, HandsMatch, NoOverwrite, NoLostWakeup, InOrder.        *)
(***************************************************************************)
EXTENDS RequestRing, SequenceTheorems, TLAPS

(* Positions never run more than one lap ahead, where % is a subtraction.   *)
Lap(n) == IF n < RingSize THEN n ELSE n - RingSize

LEMMA Wrap ==
  ASSUME NEW n \in 0 .. (2 * RingSize - 1)
  PROVE  n % RingSize = Lap(n) /\ Lap(n) \in Slots
<1>1. RingSize \in Nat \ {0}
  BY SizeAssumption
<1>2. CASE n < RingSize
  BY <1>1, <1>2, SMT DEF Lap, Slots
<1>3. CASE n >= RingSize
  BY <1>1, <1>3, SMT DEF Lap, Slots
<1> QED BY <1>1, <1>2, <1>3

LEMMA SuccType == ASSUME NEW a \in Slots PROVE Succ(a) \in Slots
<1>1. a + 1 \in 0 .. (2 * RingSize - 1)
  BY SizeAssumption DEF Slots
<1> QED BY <1>1, Wrap DEF Succ

(* Storing one more moves the end of the window one slot on.                *)
LEMMA WindowGrows ==
  ASSUME NEW a \in Slots, NEW b \in 0 .. RingSize - 1
  PROVE  Succ((a + b) % RingSize) = (a + (b + 1)) % RingSize
<1>1. a + b \in 0 .. (2 * RingSize - 1) /\ a + (b + 1) \in 0 .. (2 * RingSize - 1)
  BY SizeAssumption DEF Slots
<1>2. (a + b) % RingSize = Lap(a + b) /\ Lap(a + b) \in Slots
  BY <1>1, Wrap
<1>3. (a + (b + 1)) % RingSize = Lap(a + (b + 1))
  BY <1>1, Wrap
<1>4. Lap(a + b) + 1 \in 0 .. (2 * RingSize - 1)
  BY <1>2, SizeAssumption DEF Slots
<1>5. Succ(Lap(a + b)) = Lap(Lap(a + b) + 1)
  BY <1>4, Wrap DEF Succ
<1>6. Lap(Lap(a + b) + 1) = Lap(a + (b + 1))
  BY SizeAssumption DEF Lap, Slots
<1> QED BY <1>2, <1>3, <1>5, <1>6

(* Taking one moves the start of the window and leaves its end.             *)
LEMMA WindowShrinks ==
  ASSUME NEW a \in Slots, NEW b \in 1 .. RingSize
  PROVE  (Succ(a) + (b - 1)) % RingSize = (a + b) % RingSize
<1>1. a + b \in 0 .. (2 * RingSize - 1) /\ a + 1 \in 0 .. (2 * RingSize - 1)
  BY SizeAssumption DEF Slots
<1>2. (a + b) % RingSize = Lap(a + b)
  BY <1>1, Wrap
<1>3. Succ(a) = Lap(a + 1) /\ Lap(a + 1) \in Slots
  BY <1>1, Wrap DEF Succ
<1>4. Lap(a + 1) + (b - 1) \in 0 .. (2 * RingSize - 1)
  BY <1>3, SizeAssumption DEF Slots
<1>5. (Lap(a + 1) + (b - 1)) % RingSize = Lap(Lap(a + 1) + (b - 1))
  BY <1>4, Wrap
<1>6. Lap(Lap(a + 1) + (b - 1)) = Lap(a + b)
  BY SizeAssumption DEF Lap, Slots
<1> QED BY <1>2, <1>3, <1>5, <1>6

-----------------------------------------------------------------------------
(* Type correctness: every variable keeps its type, positions stay inside   *)
(* the ring for every ring size, and each kind of thread stays at its own   *)
(* control points (the state kept by server.c:62-65, 90-106, 187-266).      *)
THEOREM TypeCorrect == Spec => []TypeOK
<1>1. Init => TypeOK
  BY SizeAssumption, ThreadAssumption
  DEF Init, TypeOK, Threads, Slots, NoReq, ProducerPoints, ConsumerPoints
<1>2. TypeOK /\ [Next]_vars => TypeOK'
  <2> SUFFICES ASSUME TypeOK, [Next]_vars PROVE TypeOK'
    OBVIOUS
  <2> USE SizeAssumption, ThreadAssumption
      DEF TypeOK, Threads, NoReq, ProducerPoints, ConsumerPoints, Goto,
          MonitorEnter, MonitorExit, MonitorWait, socketVars, ringVars, monitorVars
  <2>1. CASE UNCHANGED vars
    BY <2>1 DEF vars
  <2>2. CASE Arrive
    BY <2>2 DEF Arrive
  <2>3. CASE ArriveZero
    BY <2>3 DEF ArriveZero
  <2>4. CASE PEnter
    BY <2>4 DEF PEnter
  <2>5. CASE PWait
    BY <2>5 DEF PWait
  <2>6. CASE PWake
    BY <2>6 DEF PWake
  <2>7. CASE PRoom
    BY <2>7 DEF PRoom
  <2>8. CASE PPoll
    BY <2>8 DEF PPoll, vars
  <2>9. CASE PRecv
    BY <2>9 DEF PRecv
  <2>10. CASE PRecvZero
    BY <2>10 DEF PRecvZero
  <2>11. CASE PReenter
    BY <2>11 DEF PReenter
  <2>12. CASE PPut
    BY <2>12, SuccType DEF PPut, put_req
  <2>13. CASE PSignalAll
    BY <2>13 DEF PSignalAll, MonitorSignalAll
  <2>14. CASE PExit
    BY <2>14 DEF PExit
  <2>15. ASSUME NEW c \in Consumers, ConsumerStep(c) PROVE TypeOK'
    <3>1. CASE CEnter(c)
      BY <3>1 DEF CEnter
    <3>2. CASE CWait(c)
      BY <3>2 DEF CWait
    <3>3. CASE CWake(c)
      BY <3>3 DEF CWake
    <3>4. CASE CGet(c)
      <4>1. getPos' \in Slots /\ available' \in Nat
        BY <3>4, SuccType DEF CGet, get_req
      <4> QED BY <3>4, <4>1 DEF CGet, get_req
    <3>5. CASE CSignal(c)
      BY <3>5 DEF CSignal, MonitorSignal
    <3>6. CASE CExit(c)
      BY <3>6 DEF CExit
    <3>7. CASE CServe(c)
      BY <3>7 DEF CServe
    <3>8. CASE CSend(c)
      BY <3>8 DEF CSend
    <3> QED
      BY <2>15, <3>1, <3>2, <3>3, <3>4, <3>5, <3>6, <3>7, <3>8 DEF ConsumerStep
  <2>16. ASSUME NEW t \in Threads, SpuriousWakeup(t) PROVE TypeOK'
    BY <2>16 DEF SpuriousWakeup
  <2> QED
    BY <2>1, <2>2, <2>3, <2>4, <2>5, <2>6, <2>7, <2>8, <2>9, <2>10, <2>11, <2>12,
       <2>13, <2>14, <2>15, <2>16 DEF Next, ProducerStep
<1> QED
  BY <1>1, <1>2, PTL DEF Spec

-----------------------------------------------------------------------------
(* The monitor excludes: of all threads, the holder alone is between its    *)
(* enter and its exit, and sleepers are outside (server.c:193-201, 246-263). *)
Mutex ==
  /\ \A t \in Threads : InMonitor(t) <=> holder = t
  /\ \A t \in waitSet : pc[t] = "waiting"

LEMMA MutexInvariant == Spec => []Mutex
<1>1. Init => Mutex
  BY ThreadAssumption DEF Init, Mutex, InMonitor, Threads
<1>2. TypeOK /\ Mutex /\ [Next]_vars => Mutex'
  <2> SUFFICES ASSUME TypeOK, Mutex, [Next]_vars PROVE Mutex'
    OBVIOUS
  <2> USE ThreadAssumption
      DEF TypeOK, Mutex, InMonitor, Threads, Goto,
          MonitorEnter, MonitorExit, MonitorWait, socketVars, ringVars, monitorVars
  <2>1. CASE UNCHANGED vars
    BY <2>1 DEF vars
  <2>2. CASE Arrive
    BY <2>2 DEF Arrive
  <2>3. CASE ArriveZero
    BY <2>3 DEF ArriveZero
  <2>4. CASE PEnter
    BY <2>4 DEF PEnter
  <2>5. CASE PWait
    BY <2>5 DEF PWait
  <2>6. CASE PWake
    BY <2>6 DEF PWake
  <2>7. CASE PRoom
    BY <2>7 DEF PRoom
  <2>8. CASE PPoll
    BY <2>8 DEF PPoll, vars
  <2>9. CASE PRecv
    BY <2>9 DEF PRecv
  <2>10. CASE PRecvZero
    BY <2>10 DEF PRecvZero
  <2>11. CASE PReenter
    BY <2>11 DEF PReenter
  <2>12. CASE PPut
    BY <2>12 DEF PPut
  <2>13. CASE PSignalAll
    BY <2>13 DEF PSignalAll, MonitorSignalAll
  <2>14. CASE PExit
    BY <2>14 DEF PExit
  <2>15. ASSUME NEW c \in Consumers, ConsumerStep(c) PROVE Mutex'
    <3>1. CASE CEnter(c)
      BY <3>1 DEF CEnter
    <3>2. CASE CWait(c)
      BY <3>2 DEF CWait
    <3>3. CASE CWake(c)
      BY <3>3 DEF CWake
    <3>4. CASE CGet(c)
      BY <3>4 DEF CGet
    <3>5. CASE CSignal(c)
      BY <3>5 DEF CSignal, MonitorSignal
    <3>6. CASE CExit(c)
      BY <3>6 DEF CExit
    <3>7. CASE CServe(c)
      BY <3>7 DEF CServe
    <3>8. CASE CSend(c)
      BY <3>8 DEF CSend
    <3> QED
      BY <2>15, <3>1, <3>2, <3>3, <3>4, <3>5, <3>6, <3>7, <3>8 DEF ConsumerStep
  <2>16. ASSUME NEW t \in Threads, SpuriousWakeup(t) PROVE Mutex'
    BY <2>16 DEF SpuriousWakeup
  <2> QED
    BY <2>1, <2>2, <2>3, <2>4, <2>5, <2>6, <2>7, <2>8, <2>9, <2>10, <2>11, <2>12,
       <2>13, <2>14, <2>15, <2>16 DEF Next, ProducerStep
<1> QED
  BY <1>1, <1>2, TypeCorrect, PTL DEF Spec

-----------------------------------------------------------------------------
(* The slots are safe: the room that the producer saw before its receive is *)
(* still there when it stores, and the two positions stay available slots   *)
(* apart, for every ring size (server.c:90-106, 246-260).                   *)
THEOREM SlotsAreSafe == Spec => []NoOverwrite
<1>1. Init => NoOverwrite
  <2>1. 0 % RingSize = 0
    BY SizeAssumption, Wrap DEF Lap
  <2> QED BY <2>1, SizeAssumption, ThreadAssumption DEF Init, NoOverwrite, Threads
<1>2. TypeOK /\ Mutex /\ NoOverwrite /\ [Next]_vars => NoOverwrite'
  <2> SUFFICES ASSUME TypeOK, Mutex, NoOverwrite, [Next]_vars PROVE NoOverwrite'
    OBVIOUS
  <2> USE SizeAssumption, ThreadAssumption
      DEF TypeOK, NoOverwrite, Threads, Goto, socketVars, ringVars
  <2>1. CASE UNCHANGED vars
    BY <2>1 DEF vars
  <2>2. CASE Arrive \/ ArriveZero
    BY <2>2 DEF Arrive, ArriveZero
  <2>3. CASE PEnter \/ PWait \/ PWake
    BY <2>3 DEF PEnter, PWait, PWake
  <2>4. CASE PRoom
    BY <2>4 DEF PRoom
  <2>5. CASE PPoll \/ PRecv \/ PRecvZero
    BY <2>5 DEF PPoll, PRecv, PRecvZero, vars
  <2>6. CASE PReenter
    BY <2>6 DEF PReenter
  <2>7. CASE PPut
    <3>1. available < RingSize /\ available' = available + 1 /\ getPos' = getPos
      BY <2>7 DEF PPut, put_req
    <3>2. putPos' = Succ(putPos)
      BY <2>7 DEF PPut, put_req
    <3>3. Succ(putPos) = (getPos + (available + 1)) % RingSize
      <4>1. available \in 0 .. RingSize - 1 /\ getPos \in Slots
        BY <3>1
      <4> QED BY <4>1, WindowGrows
    <3>4. pc'[Producer] = "signalall"
      BY <2>7 DEF PPut
    <3> QED BY <3>1, <3>2, <3>3, <3>4
  <2>8. CASE PSignalAll \/ PExit
    BY <2>8 DEF PSignalAll, PExit
  <2>9. ASSUME NEW c \in Consumers, ConsumerStep(c) PROVE NoOverwrite'
    <3>1. CASE CEnter(c) \/ CWait(c) \/ CWake(c)
      BY <3>1 DEF CEnter, CWait, CWake
    <3>2. CASE CGet(c)
      <4>1. available > 0 /\ available' = available - 1 /\ putPos' = putPos
        BY <3>2 DEF CGet, get_req
      <4>2. getPos' = Succ(getPos)
        BY <3>2 DEF CGet, get_req
      <4>3. (Succ(getPos) + (available - 1)) % RingSize = (getPos + available) % RingSize
        BY <4>1, WindowShrinks
      <4>4. pc'[Producer] = pc[Producer]
        BY <3>2 DEF CGet
      <4> QED BY <4>1, <4>2, <4>3, <4>4
    <3>3. CASE CSignal(c) \/ CExit(c) \/ CServe(c) \/ CSend(c)
      BY <3>3 DEF CSignal, CExit, CServe, CSend
    <3> QED BY <2>9, <3>1, <3>2, <3>3 DEF ConsumerStep
  <2>10. ASSUME NEW t \in Threads, SpuriousWakeup(t) PROVE NoOverwrite'
    BY <2>10 DEF SpuriousWakeup
  <2> QED
    BY <2>1, <2>2, <2>3, <2>4, <2>5, <2>6, <2>7, <2>8, <2>9, <2>10
    DEF Next, ProducerStep
<1> QED
  BY <1>1, <1>2, TypeCorrect, MutexInvariant, PTL DEF Spec

-----------------------------------------------------------------------------
(* One condition is enough: whoever sleeps has a reason to, or its wakeup   *)
(* is still to come, for every number of consumers (server.c:195-200, 248,  *)
(* 262).  Mutex is needed because the reason must not change between a test *)
(* and the wait, nor between a change of available_reqs and its signal.     *)
THEOREM OneConditionSuffices == Spec => []NoLostWakeup
<1>1. Init => NoLostWakeup
  BY DEF Init, NoLostWakeup
<1>2. TypeOK /\ Mutex /\ NoOverwrite /\ NoLostWakeup /\ [Next]_vars => NoLostWakeup'
  <2> SUFFICES ASSUME TypeOK, Mutex, NoOverwrite, NoLostWakeup, [Next]_vars
               PROVE  NoLostWakeup'
    OBVIOUS
  <2> USE SizeAssumption, ThreadAssumption
      DEF TypeOK, NoLostWakeup, Threads, Goto, socketVars, ringVars, monitorVars
  <2>1. CASE UNCHANGED vars
    BY <2>1 DEF vars
  <2>2. CASE Arrive \/ ArriveZero
    BY <2>2 DEF Arrive, ArriveZero
  <2>3. CASE PEnter \/ PWake
    BY <2>3 DEF PEnter, PWake, MonitorEnter
  <2>4. CASE PWait
    BY <2>4 DEF PWait, MonitorWait
  <2>5. CASE PRoom
    BY <2>5 DEF PRoom, MonitorExit
  <2>6. CASE PPoll \/ PRecv \/ PRecvZero
    BY <2>6 DEF PPoll, PRecv, PRecvZero, vars
  <2>7. CASE PReenter
    BY <2>7 DEF PReenter, MonitorEnter
  <2>8. CASE PPut
    <3>1. pc[Producer] = "put" /\ pc'[Producer] = "signalall" /\ waitSet' = waitSet
      BY <2>8 DEF PPut
    <3>2. Producer \notin waitSet
      BY <3>1 DEF Mutex
    <3>3. \A d \in Consumers : pc'[d] = pc[d]
      BY <2>8 DEF PPut
    <3> QED BY <3>1, <3>2, <3>3
  <2>9. CASE PSignalAll
    BY <2>9 DEF PSignalAll, MonitorSignalAll
  <2>10. CASE PExit
    BY <2>10 DEF PExit, MonitorExit
  <2>11. ASSUME NEW c \in Consumers, ConsumerStep(c) PROVE NoLostWakeup'
    <3>1. CASE CEnter(c) \/ CWake(c)
      BY <3>1 DEF CEnter, CWake, MonitorEnter
    <3>2. CASE CWait(c)
      <4>1. pc[c] = "test" /\ \A d \in Consumers : pc[d] # "signal"
        BY <3>2 DEF CWait, Mutex, InMonitor
      <4> QED BY <3>2, <4>1 DEF CWait, MonitorWait
    <3>3. CASE CGet(c)
      \* A consumer is in the monitor, so the producer is not at signalall:
      \* whoever sleeps while the ring is not empty is the producer.
      <4>1. /\ pc[c] = "test" /\ pc'[c] = "signal" /\ waitSet' = waitSet
            /\ available # 0
        BY <3>3 DEF CGet
      <4>2. holder = c /\ pc[Producer] # "signalall"
        BY <4>1 DEF Mutex, InMonitor
      <4>3. Consumers \cap waitSet = {}
        BY <4>1, <4>2
      <4>4. waitSet \subseteq {Producer}
        BY <4>3
      <4>5. Producer \in waitSet' => \E d \in Consumers : pc'[d] = "signal"
        BY <4>1
      <4> QED BY <4>1, <4>3, <4>4, <4>5
    <3>4. CASE CSignal(c)
      <4>1. /\ pc[c] = "signal" /\ available' = available
            /\ pc' = [pc EXCEPT ![c] = "exit"]
            /\ waitSet' \subseteq waitSet
        BY <3>4 DEF CSignal, MonitorSignal
      <4>2. /\ pc[Producer] # "signalall"
            /\ \A d \in Consumers : pc[d] = "signal" => d = c
        BY <4>1 DEF Mutex, InMonitor
      <4>3. \A d \in Consumers \cap waitSet' : available' = 0
        BY <4>1, <4>2
      <4>4. Producer \notin waitSet'
        <5>1. waitSet \subseteq {Producer}
          BY <4>1
        <5>2. CASE waitSet = {}
          BY <5>2, <4>1
        <5>3. CASE \E t \in waitSet : waitSet' = waitSet \ {t}
          BY <5>1, <5>3
        <5> QED BY <3>4, <5>2, <5>3 DEF CSignal, MonitorSignal
      <4>5. \A d \in Consumers : pc'[d] # "signal"
        BY <4>1, <4>2
      <4> QED BY <4>1, <4>3, <4>4, <4>5
    <3>5. CASE CExit(c)
      BY <3>5 DEF CExit, MonitorExit
    <3>6. CASE CServe(c) \/ CSend(c)
      BY <3>6 DEF CServe, CSend
    <3> QED
      BY <2>11, <3>1, <3>2, <3>3, <3>4, <3>5, <3>6 DEF ConsumerStep
  <2>12. ASSUME NEW t \in Threads, SpuriousWakeup(t) PROVE NoLostWakeup'
    BY <2>12 DEF SpuriousWakeup
  <2> QED
    BY <2>1, <2>2, <2>3, <2>4, <2>5, <2>6, <2>7, <2>8, <2>9, <2>10, <2>11, <2>12
    DEF Next, ProducerStep
<1> QED
  BY <1>1, <1>2, TypeCorrect, MutexInvariant, SlotsAreSafe, PTL DEF Spec

-----------------------------------------------------------------------------
(* The window holds the consecutive requests after those already taken, in  *)
(* the order of arrival, and a thread holds a request exactly between       *)
(* taking it and passing it on (server.c:90-106, 193-227, 246-263).         *)
InOrder ==
  /\ received <= arrived
  /\ TakenOut \in Nat
  /\ \A i \in 1 .. available : ring[SlotOf(i)] = TakenOut + i

HandsMatch ==
  /\ hand[Producer] = IF pc[Producer] \in {"reenter", "put"} THEN received ELSE NoReq
  /\ pc[Producer] \in {"reenter", "put"} => received > 0
  /\ \A c \in Consumers :
       hand[c] # NoReq <=> pc[c] \in {"signal", "exit", "serve", "send"}

(* Different offsets within one lap are different slots.                    *)
LEMMA SlotsDiffer ==
  ASSUME NEW a \in Slots, NEW b \in 0 .. RingSize - 1, NEW d \in 0 .. RingSize - 1,
         b # d
  PROVE  (a + b) % RingSize # (a + d) % RingSize
<1>1. a + b \in 0 .. (2 * RingSize - 1) /\ a + d \in 0 .. (2 * RingSize - 1)
  BY SizeAssumption DEF Slots
<1>2. (a + b) % RingSize = Lap(a + b) /\ (a + d) % RingSize = Lap(a + d)
  BY <1>1, Wrap
<1>3. Lap(a + b) # Lap(a + d)
  BY SizeAssumption DEF Lap, Slots
<1> QED BY <1>2, <1>3

(* The first slot of the window is the one get_req reads.                   *)
LEMMA FirstSlot == ASSUME TypeOK PROVE SlotOf(1) = getPos
<1>1. getPos \in Slots /\ getPos \in 0 .. (2 * RingSize - 1) /\ getPos + 1 - 1 = getPos
  BY SizeAssumption DEF TypeOK, Slots
<1>2. getPos % RingSize = Lap(getPos)
  BY <1>1, Wrap
<1>3. Lap(getPos) = getPos
  BY <1>1, SizeAssumption DEF Lap, Slots
<1> QED BY <1>1, <1>2, <1>3 DEF SlotOf

LEMMA OrderInvariant == Spec => [](InOrder /\ HandsMatch)
<1>1. Init => InOrder /\ HandsMatch
  BY ThreadAssumption
  DEF Init, InOrder, HandsMatch, TakenOut, Stored, Threads, NoReq
<1>2. /\ TypeOK /\ Mutex /\ NoOverwrite /\ InOrder /\ HandsMatch /\ [Next]_vars
      => InOrder' /\ HandsMatch'
  <2> SUFFICES ASSUME TypeOK, Mutex, NoOverwrite, InOrder, HandsMatch, [Next]_vars
               PROVE  InOrder' /\ HandsMatch'
    OBVIOUS
  <2> USE SizeAssumption, ThreadAssumption
      DEF TypeOK, Threads, Goto, socketVars, ringVars, NoReq
  <2>1. ASSUME UNCHANGED <<ringVars, arrived, received, pc, hand>> PROVE InOrder' /\ HandsMatch'
    BY <2>1 DEF InOrder, HandsMatch, TakenOut, Stored, SlotOf
  <2>2. ASSUME UNCHANGED <<ringVars, arrived, received, hand>>, pc'[Producer] # "put",
               pc[Producer] \notin {"reenter", "put"}, pc'[Producer] # "reenter",
               \A c \in Consumers : pc'[c] = pc[c]
        PROVE InOrder' /\ HandsMatch'
    BY <2>2 DEF InOrder, HandsMatch, TakenOut, Stored, SlotOf
  <2>3. CASE UNCHANGED vars \/ ArriveZero \/ PPoll
    BY <2>1, <2>3 DEF vars, ArriveZero, PPoll
  <2>10. CASE Arrive
    BY <2>10 DEF Arrive, InOrder, HandsMatch, TakenOut, Stored, SlotOf
  <2>4. CASE PEnter \/ PWait \/ PWake \/ PRoom \/ PRecvZero \/ PSignalAll \/ PExit
    BY <2>2, <2>4 DEF PEnter, PWait, PWake, PRoom, PRecvZero, PSignalAll, PExit
  <2>5. CASE PRecv
    <3>1. Stored = received /\ Stored' = received
      BY <2>5 DEF PRecv, HandsMatch, Stored
    <3>2. InOrder'
      BY <2>5, <3>1 DEF PRecv, InOrder, TakenOut, SlotOf
    <3>3. HandsMatch'
      BY <2>5 DEF PRecv, HandsMatch
    <3> QED BY <3>2, <3>3
  <2>6. CASE PReenter
    BY <2>6 DEF PReenter, InOrder, HandsMatch, TakenOut, Stored, SlotOf
  <2>7. CASE PPut
    <3>1. /\ hand[Producer] = received /\ received > 0 /\ available' = available + 1
          /\ ring' = [ring EXCEPT ![putPos] = received] /\ getPos' = getPos
          /\ received' = received /\ hand'[Producer] = 0
      BY <2>7 DEF PPut, put_req, HandsMatch
    <3>2. TakenOut' = TakenOut
      BY <3>1 DEF TakenOut, Stored
    <3>3. available \in 0 .. RingSize - 1 /\ putPos = SlotOf(available + 1)
      BY <2>7 DEF PPut, NoOverwrite, SlotOf
    <3>4. ASSUME NEW i \in 1 .. available PROVE ring'[SlotOf(i)] = TakenOut + i
      <4>1. /\ i - 1 \in 0 .. RingSize - 1 /\ i - 1 # available
            /\ getPos + i - 1 = getPos + (i - 1)
            /\ getPos + (available + 1) - 1 = getPos + available
        BY <3>3
      <4>2. SlotOf(i) # putPos
        BY <3>3, <4>1, SlotsDiffer DEF SlotOf
      <4>3. SlotOf(i) \in Slots
        <5>1. getPos + (i - 1) \in 0 .. (2 * RingSize - 1)
          BY <4>1 DEF Slots
        <5>2. (getPos + (i - 1)) % RingSize \in Slots
          BY <5>1, Wrap
        <5> QED BY <4>1, <5>2 DEF SlotOf
      <4> QED BY <3>1, <4>2, <4>3 DEF InOrder
    <3>5. ring'[SlotOf(available + 1)] = TakenOut + (available + 1)
      <4>1. TakenOut = received - 1 - available
        BY <3>1 DEF TakenOut, Stored
      <4> QED BY <3>1, <3>3, <4>1
    <3>6. \A i \in 1 .. available' : ring'[SlotOf(i)'] = TakenOut' + i
      <4>1. \A i : SlotOf(i)' = SlotOf(i)
        BY <3>1 DEF SlotOf
      <4>2. \A i \in 1 .. available' : i \in 1 .. available \/ i = available + 1
        BY <3>1
      <4> QED BY <3>2, <3>4, <3>5, <4>1, <4>2
    <3>7. HandsMatch'
      BY <2>7 DEF PPut, HandsMatch
    <3>8. received' <= arrived'
      BY <2>7 DEF PPut, InOrder
    <3> QED BY <3>2, <3>6, <3>7, <3>8 DEF InOrder
  <2>8. ASSUME NEW c \in Consumers, ConsumerStep(c) PROVE InOrder' /\ HandsMatch'
    <3>1. CASE CEnter(c) \/ CWait(c) \/ CWake(c) \/ CSignal(c) \/ CExit(c) \/ CServe(c)
      <4>1. InOrder'
        BY <3>1 DEF CEnter, CWait, CWake, CSignal, CExit, CServe,
                    InOrder, TakenOut, Stored, SlotOf
      <4>2. HandsMatch'
        BY <3>1 DEF CEnter, CWait, CWake, CSignal, CExit, CServe, HandsMatch
      <4> QED BY <4>1, <4>2
    <3>2. CASE CGet(c)
      <4>1. /\ available \in 1 .. RingSize /\ available' = available - 1
            /\ ring' = ring /\ getPos' = Succ(getPos) /\ received' = received
            /\ hand' = [hand EXCEPT ![c] = ring[getPos]]
        BY <3>2 DEF CGet, get_req, NoOverwrite
      <4>2. TakenOut' = TakenOut + 1
        BY <4>1 DEF TakenOut, Stored
      <4>3. ASSUME NEW i \in 1 .. available - 1 PROVE SlotOf(i)' = SlotOf(i + 1)
        <5>1. /\ i \in 1 .. RingSize
              /\ getPos' + i - 1 = Succ(getPos) + (i - 1)
              /\ getPos + (i + 1) - 1 = getPos + i
          BY <4>1, SuccType DEF Slots
        <5> QED BY <5>1, WindowShrinks DEF SlotOf
      <4>4. InOrder'
        <5>1. received' <= arrived'
          BY <3>2, <4>1 DEF CGet, InOrder
        <5> QED BY <4>1, <4>2, <4>3, <5>1 DEF InOrder
      <4>5. ring[getPos] = TakenOut + 1
        BY <4>1, FirstSlot DEF InOrder
      <4>6. HandsMatch'
        BY <3>2, <4>1, <4>5 DEF CGet, HandsMatch, InOrder
      <4> QED BY <4>4, <4>6
    <3>3. CASE CSend(c)
      BY <3>3 DEF CSend, InOrder, HandsMatch, TakenOut, Stored, SlotOf
    <3> QED BY <2>8, <3>1, <3>2, <3>3 DEF ConsumerStep
  <2>9. ASSUME NEW t \in Threads, SpuriousWakeup(t) PROVE InOrder' /\ HandsMatch'
    BY <2>9, <2>1 DEF SpuriousWakeup
  <2> QED
    BY <2>3, <2>4, <2>5, <2>6, <2>7, <2>8, <2>9, <2>10 DEF Next, ProducerStep
<1> QED
  BY <1>1, <1>2, TypeCorrect, MutexInvariant, SlotsAreSafe, PTL DEF Spec

(* The discipline of the monitor and of the requests in hand is kept by     *)
(* every thread in every run (server.c:193-227, 246-263).                   *)
THEOREM DisciplineKept == Spec => []MonitorDiscipline
<1>1. Mutex /\ HandsMatch => MonitorDiscipline
  BY DEF Mutex, HandsMatch, MonitorDiscipline
<1> QED BY <1>1, MutexInvariant, OrderInvariant, PTL

-----------------------------------------------------------------------------
(* The queue of the abstract specification, as the ring stores it.          *)
LEMMA QueueType ==
  ASSUME TypeOK
  PROVE  Queue \in Seq(Nat) /\ Len(Queue) = available /\ DOMAIN Queue = 1 .. available
<1>1. ASSUME NEW i \in 1 .. available PROVE SlotOf(i) \in Slots
  BY SizeAssumption DEF SlotOf, TypeOK, Slots
<1> QED BY <1>1 DEF Queue, TypeOK

\* The window invariant says what the queue is.
LEMMA QueueValue ==
  ASSUME TypeOK, InOrder
  PROVE  Queue = [i \in 1 .. available |-> TakenOut + i]
BY DEF Queue, InOrder

(* The threads, the monitor and the ring implement a bounded FIFO queue in  *)
(* front of a pool of workers: every step of the code either stutters or is *)
(* one of Submit, Accept, Take and Answer (server.c:90-106, 187-266).       *)
THEOREM Refinement == Spec => Implements
<1>1. Init => Service!Init
  <2> SUFFICES ASSUME Init PROVE Service!Init
    OBVIOUS
  <2>1. Queue = <<>>
    BY DEF Init, Queue
  <2> QED BY <2>1 DEF Init, Service!Init, Service!Idle, Stored, Threads, NoReq
<1>2. /\ TypeOK /\ TypeOK' /\ Mutex /\ NoOverwrite
      /\ InOrder /\ HandsMatch /\ InOrder' /\ HandsMatch' /\ [Next]_vars
      => [Service!Next]_Service!vars
  <2> SUFFICES ASSUME TypeOK, TypeOK', Mutex, NoOverwrite, InOrder, HandsMatch,
                      InOrder', HandsMatch', [Next]_vars
               PROVE  [Service!Next]_Service!vars
    OBVIOUS
  <2> USE SizeAssumption, ThreadAssumption
      DEF Threads, Goto, socketVars, ringVars, NoReq, Service!Idle
  <2>1. ASSUME UNCHANGED <<ringVars, arrived, received, hand, answered>>
        PROVE  UNCHANGED Service!vars
    BY <2>1 DEF Service!vars, Queue, SlotOf, Stored
  <2>2. CASE UNCHANGED vars \/ ArriveZero \/ PPoll
    BY <2>1, <2>2 DEF vars, ArriveZero, PPoll
  <2>3. CASE Arrive
    <3>1. Queue' = Queue /\ Stored' = Stored
      BY <2>3 DEF Arrive, Queue, SlotOf, Stored
    <3>2. Service!Submit
      BY <2>3, <3>1 DEF Arrive, Service!Submit
    <3> QED BY <3>2 DEF Service!Next
  <2>4. CASE PEnter \/ PWait \/ PWake \/ PRoom \/ PRecvZero \/ PReenter \/ PSignalAll \/ PExit
    BY <2>1, <2>4
    DEF PEnter, PWait, PWake, PRoom, PRecvZero, PReenter, PSignalAll, PExit
  <2>5. CASE PRecv
    <3>1. Queue' = Queue /\ [c \in Consumers |-> hand[c]]' = [c \in Consumers |-> hand[c]]
      BY <2>5 DEF PRecv, Queue, SlotOf, TypeOK
    <3>2. Stored' = Stored
      BY <2>5 DEF PRecv, HandsMatch, Stored, TypeOK
    <3> QED BY <2>5, <3>1, <3>2 DEF PRecv, Service!vars
  <2>6. CASE PPut
    <3>1. /\ hand[Producer] = received /\ received > 0 /\ available' = available + 1
          /\ received' = received /\ hand'[Producer] = 0 /\ available < RingSize
          /\ hand' = [hand EXCEPT ![Producer] = 0]
      BY <2>6 DEF PPut, put_req, HandsMatch, NoOverwrite, TypeOK
    <3>2. Stored = received - 1 /\ Stored' = Stored + 1 /\ TakenOut' = TakenOut
      BY <3>1 DEF Stored, TakenOut, TypeOK
    <3>3. Queue' = Append(Queue, Stored + 1)
      <4>1. Queue = [i \in 1 .. available |-> TakenOut + i]
        BY QueueValue
      <4>2. Queue' = [i \in 1 .. available + 1 |-> TakenOut + i]
        BY <3>1, <3>2 DEF Queue, InOrder
      <4>3. /\ Len(Queue) = available /\ available \in Nat
            /\ Queue \in Seq(Nat)
            /\ Stored + 1 = TakenOut + (available + 1) /\ Stored + 1 \in Nat
        BY <3>1, <3>2, QueueType DEF TakenOut, TypeOK
      <4> HIDE DEF Queue
      <4> QED BY <4>1, <4>2, <4>3
    <3>4. Service!Accept
      <4>1. Stored < arrived
        BY <3>1, <3>2 DEF TypeOK, InOrder
      <4>2. Len(Queue) < RingSize
        BY <3>1, QueueType
      <4>3. [c \in Consumers |-> hand[c]]' = [c \in Consumers |-> hand[c]]
        BY <3>1 DEF TypeOK
      <4> QED BY <2>6, <3>2, <3>3, <4>1, <4>2, <4>3 DEF PPut, Service!Accept
    <3> QED BY <3>4 DEF Service!Next
  <2>7. ASSUME NEW c \in Consumers, ConsumerStep(c)
        PROVE  [Service!Next]_Service!vars
    <3>1. CASE CEnter(c) \/ CWait(c) \/ CWake(c) \/ CSignal(c) \/ CExit(c) \/ CServe(c)
      BY <2>1, <3>1 DEF CEnter, CWait, CWake, CSignal, CExit, CServe
    <3>2. CASE CGet(c)
      <4>1. /\ available \in 1 .. RingSize /\ available' = available - 1
            /\ received' = received /\ hand[c] = 0
            /\ hand' = [hand EXCEPT ![c] = ring[getPos]]
        BY <3>2 DEF CGet, get_req, NoOverwrite, HandsMatch, TypeOK
      <4>2. Stored' = Stored /\ TakenOut' = TakenOut + 1
        BY <4>1 DEF TakenOut, Stored, TypeOK
      <4>3. Queue = [i \in 1 .. available |-> TakenOut + i]
        BY QueueValue
      <4>4. Queue' = [i \in 1 .. available - 1 |-> TakenOut + 1 + i]
        BY <4>1, <4>2 DEF Queue, InOrder
      <4>5. Len(Queue) = available /\ Queue \in Seq(Nat) /\ TakenOut \in Nat
        BY QueueType DEF InOrder
      <4>6. Queue # <<>> /\ Queue' = Tail(Queue) /\ Head(Queue) = TakenOut + 1
        <5> HIDE DEF Queue
        <5>1. Queue # <<>> /\ Head(Queue) = TakenOut + 1
          BY <4>1, <4>3, <4>5
        <5>2. Tail(Queue) = Queue'
          <6>1. Len(Tail(Queue)) = available - 1 /\ Tail(Queue) \in Seq(Nat)
            BY <4>1, <4>5, <5>1
          <6>2. ASSUME NEW i \in 1 .. available - 1
                PROVE  Tail(Queue)[i] = TakenOut + 1 + i
            BY <4>1, <4>3, <4>5, <5>1
          <6>3. Len(Queue') = available - 1 /\ Queue' \in Seq(Nat)
            BY <4>1, <4>4, <4>5
          <6>4. \A i \in 1 .. available - 1 : Tail(Queue)[i] = Queue'[i]
            BY <6>2, <4>4
          <6> HIDE DEF Queue
          <6> QED BY <6>1, <6>3, <6>4, SeqEqual
        <5> QED BY <5>1, <5>2
      <4>7. ring[getPos] = Head(Queue)
        BY <4>1, <4>6, FirstSlot DEF InOrder
      <4>8. [d \in Consumers |-> hand[d]]'
              = [[d \in Consumers |-> hand[d]] EXCEPT ![c] = Head(Queue)]
        BY <4>1, <4>7 DEF TypeOK
      <4>9. Service!Take(c)
        BY <3>2, <4>1, <4>2, <4>6, <4>8 DEF CGet, Service!Take
      <4> QED BY <4>9 DEF Service!Next
    <3>3. CASE CSend(c)
      <4>1. Queue' = Queue /\ Stored' = Stored /\ hand[c] # 0
        BY <3>3 DEF CSend, Queue, SlotOf, Stored, HandsMatch, TypeOK
      <4>2. [d \in Consumers |-> hand[d]]' = [[d \in Consumers |-> hand[d]] EXCEPT ![c] = 0]
        BY <3>3 DEF CSend, TypeOK
      <4>3. Service!Answer(c)
        BY <3>3, <4>1, <4>2 DEF CSend, Service!Answer
      <4> QED BY <4>3 DEF Service!Next
    <3> QED BY <2>7, <3>1, <3>2, <3>3 DEF ConsumerStep
  <2>8. ASSUME NEW t \in Threads, SpuriousWakeup(t) PROVE UNCHANGED Service!vars
    BY <2>8, <2>1 DEF SpuriousWakeup
  <2> QED
    BY <2>2, <2>3, <2>4, <2>5, <2>6, <2>7, <2>8 DEF Next, ProducerStep
<1> QED
  BY <1>1, <1>2, TypeCorrect, MutexInvariant, SlotsAreSafe, OrderInvariant, PTL
  DEF Spec, Implements, Service!Spec

-----------------------------------------------------------------------------
\* ExactlyOnce, request by request.
OnceOnly ==
  /\ answered \subseteq 1 .. TakenOut
  /\ \A r \in 1 .. TakenOut : r \notin answered => \E c \in Consumers : hand[c] = r
  /\ \A c \in Consumers : hand[c] # NoReq => hand[c] \in 1 .. TakenOut \ answered
  /\ \A c, d \in Consumers : hand[c] = hand[d] /\ hand[c] # NoReq => c = d

(* No request is served twice and none is dropped between the ring and its  *)
(* response: a request taken out is with exactly one consumer or answered,  *)
(* and never both (server.c:90-97, 193-227).                                *)
THEOREM ServedExactlyOnce == Spec => []ExactlyOnce
<1>1. Init => OnceOnly
  BY DEF Init, OnceOnly, TakenOut, Stored, Threads, NoReq
<1>2. /\ TypeOK /\ NoOverwrite /\ InOrder /\ HandsMatch /\ OnceOnly /\ [Next]_vars
      => OnceOnly'
  <2> SUFFICES ASSUME TypeOK, NoOverwrite, InOrder, HandsMatch, OnceOnly, [Next]_vars
               PROVE  OnceOnly'
    OBVIOUS
  <2> USE SizeAssumption, ThreadAssumption
      DEF TypeOK, Threads, Goto, socketVars, ringVars, NoReq
  <2>1. ASSUME TakenOut' = TakenOut, answered' = answered,
               \A c \in Consumers : hand'[c] = hand[c]
        PROVE  OnceOnly'
    BY <2>1 DEF OnceOnly
  <2>2. ASSUME UNCHANGED <<ringVars, received, hand, answered>> PROVE OnceOnly'
    BY <2>1, <2>2 DEF TakenOut, Stored
  <2>3. CASE UNCHANGED vars \/ Arrive \/ ArriveZero \/ PPoll
    BY <2>2, <2>3 DEF vars, Arrive, ArriveZero, PPoll
  <2>4. CASE PEnter \/ PWait \/ PWake \/ PRoom \/ PRecvZero \/ PReenter \/ PSignalAll \/ PExit
    BY <2>2, <2>4
    DEF PEnter, PWait, PWake, PRoom, PRecvZero, PReenter, PSignalAll, PExit
  <2>5. CASE PRecv
    <3>1. TakenOut' = TakenOut
      BY <2>5 DEF PRecv, HandsMatch, TakenOut, Stored
    <3> QED BY <2>1, <2>5, <3>1 DEF PRecv
  <2>6. CASE PPut
    <3>1. TakenOut' = TakenOut
      BY <2>6 DEF PPut, put_req, HandsMatch, TakenOut, Stored
    <3> QED BY <2>1, <2>6, <3>1 DEF PPut
  <2>7. ASSUME NEW c \in Consumers, ConsumerStep(c) PROVE OnceOnly'
    <3>1. CASE CEnter(c) \/ CWait(c) \/ CWake(c) \/ CSignal(c) \/ CExit(c) \/ CServe(c)
      BY <2>2, <3>1 DEF CEnter, CWait, CWake, CSignal, CExit, CServe
    <3>2. CASE CGet(c)
      <4>1. /\ available \in 1 .. RingSize /\ hand[c] = 0 /\ answered' = answered
            /\ hand' = [hand EXCEPT ![c] = ring[getPos]]
        BY <3>2 DEF CGet, get_req, NoOverwrite, HandsMatch
      <4>2. TakenOut' = TakenOut + 1
        BY <3>2 DEF CGet, get_req, TakenOut, Stored
      <4>3. ring[getPos] = TakenOut + 1 /\ TakenOut \in Nat
        BY <4>1, FirstSlot DEF InOrder
      <4>4. /\ hand'[c] = TakenOut + 1
            /\ \A d \in Consumers : d # c => hand'[d] = hand[d]
        BY <4>1, <4>3
      <4> QED BY <4>1, <4>2, <4>3, <4>4 DEF OnceOnly
    <3>3. CASE CSend(c)
      <4>1. TakenOut' = TakenOut
        BY <3>3 DEF CSend, TakenOut, Stored
      <4>2. /\ hand[c] # 0 /\ hand'[c] = 0 /\ answered' = answered \cup {hand[c]}
            /\ \A d \in Consumers : d # c => hand'[d] = hand[d]
        BY <3>3 DEF CSend, HandsMatch
      <4>3. answered' \subseteq 1 .. TakenOut
        BY <4>2 DEF OnceOnly
      <4>4. ASSUME NEW r \in 1 .. TakenOut, r \notin answered'
            PROVE  \E d \in Consumers : hand'[d] = r
        <5>1. PICK d \in Consumers : hand[d] = r
          BY <4>2, <4>4 DEF OnceOnly
        <5>2. d # c
          BY <4>2, <4>4, <5>1
        <5> QED BY <4>2, <5>1, <5>2
      <4>5. \A d \in Consumers : hand'[d] # 0 => hand'[d] \in 1 .. TakenOut \ answered'
        BY <4>2 DEF OnceOnly
      <4>6. \A d, e \in Consumers : hand'[d] = hand'[e] /\ hand'[d] # 0 => d = e
        BY <4>2 DEF OnceOnly
      <4> QED BY <4>1, <4>3, <4>4, <4>5, <4>6 DEF OnceOnly
    <3> QED BY <2>7, <3>1, <3>2, <3>3 DEF ConsumerStep
  <2>8. ASSUME NEW t \in Threads, SpuriousWakeup(t) PROVE OnceOnly'
    BY <2>8, <2>2 DEF SpuriousWakeup
  <2> QED
    BY <2>3, <2>4, <2>5, <2>6, <2>7, <2>8 DEF Next, ProducerStep
<1>3. TypeOK /\ InOrder /\ OnceOnly => ExactlyOnce
  <2> SUFFICES ASSUME TypeOK, InOrder, OnceOnly PROVE ExactlyOnce
    OBVIOUS
  <2>1. Service!Taken = TakenOut
    BY QueueType DEF Service!Taken, TakenOut
  <2>2. {hand[c] : c \in Consumers} \ {0} = 1 .. TakenOut \ answered
    BY DEF OnceOnly, InOrder, NoReq
  <2> QED BY <2>1, <2>2 DEF ExactlyOnce, Service!ExactlyOnce, Service!Idle, OnceOnly, NoReq
<1> QED
  BY <1>1, <1>2, <1>3, TypeCorrect, SlotsAreSafe, OrderInvariant, PTL DEF Spec
=============================================================================
