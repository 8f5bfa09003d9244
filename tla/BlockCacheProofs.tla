-------------------------- MODULE BlockCacheProofs --------------------------
(***************************************************************************)
(* Theorems about BlockCache, for every number of blocks and slots, every  *)
(* set of values and every threshold of the ageing thread.  Types hold for *)
(* any number of workers; a block is in one slot if there is one worker,   *)
(* whenever the ageing thread runs; and the cache is the store it should   *)
(* be if that thread also keeps out of its operations.                     *)
(***************************************************************************)
EXTENDS BlockCache, TLAPS

(* The premises of the cache, which the code does not enforce.              *)
OneWorker == \A v, w \in Workers : v = w
AgerWaits == AgerPreempts = FALSE

(* Slots are numbered from 0, and the scans find some of them.              *)
LEMMA SlotFacts ==
  /\ 0 \in Slots /\ Slots \subseteq Int
  /\ \A i \in Slots : NextSlot(i) \in Slots
BY CacheAssumption DEF Slots, NextSlot

LEMMA Found == ASSUME NEW b PROVE First(Hits(b)) \subseteq {i \in Slots : slot[i].blk = b}
BY DEF First, Hits

LEMMA Chosen == First(Candidates) \subseteq Slots
<1>1. Candidates \subseteq Slots
  BY SlotFacts DEF Candidates
<1> QED BY <1>1 DEF First

(* A field of a slot, or of an operation, is set to a value of its type.    *)
LEMMA SetField ==
  ASSUME NEW s \in SlotType
  PROVE  /\ s.blk \in Blocks \cup {NoBlock} /\ s.data \in Values /\ s.counter \in 0 .. AgeReset - 1
         /\ s.V \in {0, 1} /\ s.M \in {0, 1} /\ s.R \in {0, 1}
         /\ \A x \in {0, 1} : /\ [s EXCEPT !.V = x] \in SlotType
                              /\ [s EXCEPT !.R = x] \in SlotType
                              /\ [s EXCEPT !.M = x] \in SlotType
         /\ \A d \in Values : [s EXCEPT !.data = d] \in SlotType
         /\ \A b \in Blocks : [s EXCEPT !.blk = b] \in SlotType
         /\ \A n \in 0 .. AgeReset - 1 : [s EXCEPT !.counter = n] \in SlotType
BY DEF SlotType

LEMMA SetLocal ==
  ASSUME NEW o \in OpType
  PROVE  /\ o.blk \in Blocks \cup {NoBlock} /\ o.to \in Blocks \cup {NoBlock}
         /\ o.old \in Blocks \cup {NoBlock} /\ o.val \in Values /\ o.slot \in Slots /\ o.pc \in Points
         /\ \A p \in Points : [o EXCEPT !.pc = p] \in OpType
         /\ \A i \in Slots : [o EXCEPT !.slot = i] \in OpType
         /\ \A b \in Blocks \cup {NoBlock} : [o EXCEPT !.old = b] \in OpType
BY DEF OpType

LEMMA Idle == IdleOp \in OpType
BY SlotFacts, CacheAssumption DEF IdleOp, OpType, Points

-----------------------------------------------------------------------------
(* An operation under way is about a block of the disk.                     *)
Busy == \A w \in Workers : op[w].pc # "idle" => op[w].blk \in Blocks /\ op[w].to \in Blocks

(* What a step of an operation does to the locals of its thread.            *)
LEMMA Goes ==
  ASSUME TypeOK, NEW w \in Workers, NEW p \in Points, Goto(w, p), Busy, op[w].pc # "idle"
  PROVE  op' \in [Workers -> OpType] /\ Busy'
<1>1. op' = [op EXCEPT ![w] = [op[w] EXCEPT !.pc = p]] /\ op[w] \in OpType
  BY DEF Goto, TypeOK
<1>2. [op[w] EXCEPT !.pc = p].blk = op[w].blk /\ [op[w] EXCEPT !.pc = p].to = op[w].to
  BY <1>1 DEF OpType
<1> QED BY <1>1, <1>2, SetLocal DEF TypeOK, Busy

LEMMA Ends ==
  ASSUME TypeOK, NEW w \in Workers, Finish(w), Busy
  PROVE  op' \in [Workers -> OpType] /\ Busy'
<1>1. IdleOp.pc = "idle"
  BY DEF IdleOp
<1> QED BY <1>1, Idle DEF TypeOK, Finish, Busy

Typed == TypeOK /\ Busy

(* The step that ends a read or a write.                                    *)
LEMMA AccessTyped ==
  ASSUME Typed, NEW w \in Workers, NEW i \in Slots, Access(w, i)
  PROVE  Typed'
<1> DEFINE s == [[[slot[i] EXCEPT !.data = op[w].val] EXCEPT !.R = 1] EXCEPT !.M = 1]
<1>1. slot[i] \in SlotType /\ op[w] \in OpType
  BY DEF Typed, TypeOK
<1>2. slot' = slot \/ slot' = [slot EXCEPT ![i] = s]
  BY DEF Access
<1>3. [slot[i] EXCEPT !.data = op[w].val] \in SlotType
  BY <1>1, SetField, SetLocal
<1>4. [[slot[i] EXCEPT !.data = op[w].val] EXCEPT !.R = 1] \in SlotType
  BY <1>3, SetField
<1>5. s \in SlotType
  BY <1>4, SetField
<1>6. slot' \in [Slots -> SlotType]
  BY <1>2, <1>5 DEF Typed, TypeOK
<1>7. slot[i].data \in Values /\ op[w].val \in Values
  BY <1>1, SetField, SetLocal
<1>8. stored' \in [Blocks -> Values \cup {Unset}] /\ result' \in [Workers -> Values]
  BY <1>7 DEF Access, Typed, TypeOK
<1> QED BY <1>6, <1>8, Ends DEF Access, Typed, TypeOK

LEMMA DiskTyped ==
  ASSUME TypeOK, NEW b, NEW v \in Values, block_write(b, v)
  PROVE  disk' \in [Blocks -> Values]
BY DEF TypeOK, block_write

(* Type correctness is inductive with Busy, on which the transfers rely.    *)
LEMMA TypedInvariant == Spec => []Typed
<1>1. Init => Typed
  <2> SUFFICES ASSUME Init PROVE Typed
    OBVIOUS
  <2>1. slot \in [Slots -> SlotType]
    BY CacheAssumption DEF Init, SlotType
  <2>2. op \in [Workers -> OpType] /\ Busy
    BY Idle DEF Init, Busy, IdleOp
  <2>3. age \in AgeType
    BY SlotFacts DEF Init, AgeType
  <2> QED BY <2>1, <2>2, <2>3, CacheAssumption DEF Init, Typed, TypeOK
<1>2. Typed /\ [Next]_vars => Typed'
  <2> SUFFICES ASSUME Typed, [Next]_vars PROVE Typed'
    OBVIOUS
  <2> USE DEF Typed
  <2>1. CASE UNCHANGED vars
    BY <2>1 DEF vars, TypeOK, Busy
  <2>2. ASSUME NEW w \in Workers, WorkerStep(w) PROVE Typed'
    <3> DEFINE i == op[w].slot
    <3>0. /\ op[w] \in OpType /\ i \in Slots /\ slot[i] \in SlotType
          /\ slot[i].data \in Values /\ slot[i].blk \in Blocks \cup {NoBlock}
      BY SetLocal, SetField DEF TypeOK
    <3>1. CASE Start(w)
      <4>1. PICK k \in Kinds, b \in Blocks, c \in Blocks, v \in Values :
              op' = [op EXCEPT ![w] =
                  [pc |-> CASE k = "free" -> "erase"
                            [] k = "swap" -> "flush"
                            [] OTHER -> "lookup",
                   kind |-> k, blk |-> b, to |-> c, val |-> v,
                   slot |-> 0, old |-> NoBlock]]
        BY <3>1 DEF Start
      <4>2. (CASE k = "free" -> "erase" [] k = "swap" -> "flush" [] OTHER -> "lookup") \in Points
        BY DEF Points
      <4>3. op' \in [Workers -> OpType]
        BY <4>1, <4>2, CacheAssumption, SlotFacts DEF OpType, TypeOK
      <4>4. Busy'
        BY <4>1 DEF Busy, TypeOK
      <4> QED BY <3>1, <4>3, <4>4 DEF Start, TypeOK
    <3>2. CASE Hit(w)
      BY <3>2, AccessTyped, Found DEF Hit
    <3>3. CASE Miss(w)
      BY <3>3, Goes DEF Miss, At, Points, TypeOK
    <3>4. CASE Choose(w)
      <4>1. PICK j \in First(Candidates) :
              op' = [op EXCEPT
               ![w].slot = j,
               ![w].old = IF slot[j].V = 0 THEN NoBlock ELSE slot[j].blk,
               ![w].pc = IF slot[j].V = 0 THEN "fill" ELSE "writeback"]
        BY <3>4 DEF Choose
      <4> DEFINE o == [[[op[w] EXCEPT !.slot = j]
                         EXCEPT !.old = IF slot[j].V = 0 THEN NoBlock ELSE slot[j].blk]
                         EXCEPT !.pc = IF slot[j].V = 0 THEN "fill" ELSE "writeback"]
      <4>2. op' = [op EXCEPT ![w] = o]
        BY <4>1
      <4>3. j \in Slots /\ slot[j].blk \in Blocks \cup {NoBlock}
        BY Chosen, SetField DEF TypeOK
      <4>4. [op[w] EXCEPT !.slot = j] \in OpType
        BY <3>0, <4>3, SetLocal
      <4>5. [[op[w] EXCEPT !.slot = j]
              EXCEPT !.old = IF slot[j].V = 0 THEN NoBlock ELSE slot[j].blk] \in OpType
        BY <4>3, <4>4, SetLocal
      <4>6. o \in OpType
        BY <4>5, SetLocal DEF Points
      <4>7. o.blk = op[w].blk /\ o.to = op[w].to
        BY <3>0 DEF OpType
      <4>8. op' \in [Workers -> OpType]
        BY <4>2, <4>6 DEF TypeOK
      <4>9. Busy'
        BY <3>4, <4>2, <4>7 DEF Choose, At, Busy, TypeOK
      <4> QED BY <3>4, <4>8, <4>9 DEF Choose, TypeOK
    <3>5. CASE WriteBack(w)
      <4>1. slot' = [slot EXCEPT ![i] = [slot[i] EXCEPT !.M = 0]]
        BY <3>5 DEF WriteBack
      <4>2. slot' \in [Slots -> SlotType]
        BY <3>0, <4>1, SetField DEF TypeOK
      <4>3. op' \in [Workers -> OpType] /\ Busy'
        BY <3>5, Goes DEF WriteBack, At, Points
      <4> QED BY <3>0, <3>5, <4>2, <4>3, DiskTyped DEF WriteBack, TypeOK
    <3>6. CASE Fill(w)
      <4>1. slot' = [slot EXCEPT ![i] = [slot[i] EXCEPT !.data = disk[op[w].blk]]]
        BY <3>6 DEF Fill
      <4>2. disk[op[w].blk] \in Values
        BY <3>6 DEF Fill, At, Busy, TypeOK
      <4>3. slot' \in [Slots -> SlotType]
        BY <3>0, <4>1, <4>2, SetField DEF TypeOK
      <4>4. op' \in [Workers -> OpType] /\ Busy'
        BY <3>6, Goes DEF Fill, At, Points
      <4> QED BY <3>6, <4>3, <4>4 DEF Fill, TypeOK
    <3>7. CASE Claim(w)
      <4> DEFINE s == [[[slot[i] EXCEPT !.R = 1] EXCEPT !.blk = op[w].blk]
                         EXCEPT !.V = IF op[w].old = NoBlock THEN 1 ELSE slot[i].V]
      <4>1. slot' = [slot EXCEPT ![i] = s]
        BY <3>7, <3>0 DEF Claim, SlotType
      <4>2. op[w].blk \in Blocks
        BY <3>7 DEF Claim, At, Busy
      <4>3. [slot[i] EXCEPT !.R = 1] \in SlotType
        BY <3>0, SetField
      <4>4. [[slot[i] EXCEPT !.R = 1] EXCEPT !.blk = op[w].blk] \in SlotType
        BY <4>2, <4>3, SetField
      <4>5. (IF op[w].old = NoBlock THEN 1 ELSE slot[i].V) \in {0, 1}
        BY <3>0, SetField
      <4>6. s \in SlotType
        BY <4>4, <4>5, SetField
      <4>7. slot' \in [Slots -> SlotType]
        BY <4>1, <4>6 DEF TypeOK
      <4>8. op' \in [Workers -> OpType] /\ Busy'
        BY <3>7, Goes DEF Claim, At, Points
      <4> QED BY <3>7, <4>7, <4>8 DEF Claim, TypeOK
    <3>8. CASE Again(w)
      BY <3>8, AccessTyped, Found DEF Again
    <3>9. CASE AgainMiss(w)
      <4>1. stored' \in [Blocks -> Values \cup {Unset}] /\ result' \in [Workers -> Values]
        BY <3>0, <3>9, SetLocal DEF AgainMiss, TypeOK
      <4> QED BY <3>9, <4>1, Ends DEF AgainMiss, TypeOK
    <3>10. CASE Erase(w)
      <4>1. op' \in [Workers -> OpType] /\ Busy'
        BY <3>10, Goes DEF Erase, At, Points
      <4>2. unreliable' \subseteq Blocks
        BY <3>10 DEF Erase, At, Busy, TypeOK
      <4> QED BY <3>10, <4>1, <4>2, DiskTyped, CacheAssumption DEF Erase, TypeOK
    <3>11. CASE Clean(w)
      <4>1. \A j \in Slots : [slot[j] EXCEPT !.V = 0] \in SlotType
        BY SetField DEF TypeOK
      <4>2. slot' \in [Slots -> SlotType]
        BY <3>11, <4>1 DEF Clean, TypeOK
      <4>3. stored' \in [Blocks -> Values \cup {Unset}]
        BY <3>11 DEF Clean, TypeOK
      <4> QED BY <3>11, <4>2, <4>3, Ends DEF Clean, TypeOK
    <3>12. CASE Flush(w)
      <4> DEFINE s == [[slot[i] EXCEPT !.M = 0] EXCEPT !.V = 0]
      <4>1. slot' = [slot EXCEPT ![i] = s]
        BY <3>12 DEF Flush
      <4>2. [slot[i] EXCEPT !.M = 0] \in SlotType
        BY <3>0, SetField
      <4>3. s \in SlotType
        BY <4>2, SetField
      <4>4. slot' \in [Slots -> SlotType]
        BY <4>1, <4>3 DEF TypeOK
      <4>5. op' \in [Workers -> OpType] /\ Busy'
        <5>1. CASE i + 1 \in Slots
          <6>1. op' = [op EXCEPT ![w] = [op[w] EXCEPT !.slot = i + 1]]
            BY <3>12, <5>1 DEF Flush
          <6>2. [op[w] EXCEPT !.slot = i + 1].blk = op[w].blk /\ [op[w] EXCEPT !.slot = i + 1].to = op[w].to
            BY <3>0 DEF OpType
          <6> QED BY <3>0, <3>12, <5>1, <6>1, <6>2, SetLocal DEF Flush, At, Busy, TypeOK
        <5>2. CASE i + 1 \notin Slots
          <6>1. Goto(w, "move")
            BY <3>12, <5>2 DEF Flush, Goto
          <6> QED BY <3>12, <6>1, Goes DEF Flush, At, Points
        <5> QED BY <5>1, <5>2
      <4>6. unreliable' \subseteq Blocks
        BY <3>0, <3>12 DEF Flush, At, Busy, TypeOK
      <4> QED BY <3>0, <3>12, <4>4, <4>5, <4>6, DiskTyped DEF Flush, TypeOK
    <3>13. CASE Move(w)
      <4>1. op[w].blk \in Blocks /\ op[w].to \in Blocks
        BY <3>13 DEF Move, At, Busy
      <4>2. disk' \in [Blocks -> Values] /\ stored' \in [Blocks -> Values \cup {Unset}]
        BY <3>13, <4>1, CacheAssumption DEF Move, TypeOK
      <4> QED BY <3>13, <4>2, Ends DEF Move, TypeOK
    <3> QED BY <2>2, <3>1, <3>2, <3>3, <3>4, <3>5, <3>6, <3>7, <3>8, <3>9, <3>10,
               <3>11, <3>12, <3>13 DEF WorkerStep
  <2>3. CASE AgeTick
    <3> DEFINE i == age.slot
               n == Reset(slot[i].counter + 1)
               r == IF (slot[i].counter + 1) % AgeR = 0 THEN 0 ELSE slot[i].R
    <3>1. i \in Slots /\ slot[i] \in SlotType
      BY DEF TypeOK, AgeType
    <3>2. slot[i].counter \in 0 .. AgeReset - 1 /\ slot[i].blk \in Blocks \cup {NoBlock} /\ r \in {0, 1}
      BY <3>1, SetField
    <3>3. n \in 0 .. AgeReset - 1
      BY <3>2, CacheAssumption DEF Reset
    <3>4. slot' = [slot EXCEPT ![i] = [[slot[i] EXCEPT !.counter = n] EXCEPT !.R = r]]
      BY <2>3, <3>1 DEF AgeTick, SlotType
    <3>5. [slot[i] EXCEPT !.counter = n] \in SlotType
      BY <3>1, <3>3, SetField
    <3>6. [[slot[i] EXCEPT !.counter = n] EXCEPT !.R = r] \in SlotType
      BY <3>2, <3>5, SetField
    <3>7. slot' \in [Slots -> SlotType]
      BY <3>4, <3>6 DEF TypeOK
    <3>8. NextSlot(i) \in Slots
      BY <3>1, SlotFacts
    <3>9. age' \in AgeType
      BY <2>3, <3>1, <3>2, <3>8 DEF AgeTick, AgeType, TypeOK
    <3> QED BY <2>3, <3>7, <3>9 DEF AgeTick, TypeOK, Busy
  <2>4. CASE AgeWriteBack
    <3> DEFINE i == age.slot
    <3>1. i \in Slots /\ slot[i] \in SlotType
      BY DEF TypeOK, AgeType
    <3>2. slot' = [slot EXCEPT ![i] = [slot[i] EXCEPT !.M = 0]]
      BY <2>4 DEF AgeWriteBack
    <3>3. slot' \in [Slots -> SlotType]
      BY <3>1, <3>2, SetField DEF TypeOK
    <3>4. slot[i].data \in Values
      BY <3>1, SetField
    <3>5. age' \in AgeType
      BY <2>4, <3>1, SlotFacts DEF AgeWriteBack, AgeType
    <3> QED BY <2>4, <3>3, <3>4, <3>5, DiskTyped DEF AgeWriteBack, TypeOK, Busy
  <2> QED BY <2>1, <2>2, <2>3, <2>4 DEF Next
<1> QED BY <1>1, <1>2, PTL DEF Spec

(* Type correctness, for any number of workers: slots stay in the cache and *)
(* counters below 20, and the block number a write-back uses may be that of *)
(* no block, which block_write refuses (fs.c:1438-1545, block.c:80-110).    *)
THEOREM CacheTypes == Spec => []TypeOK
<1>1. Typed => TypeOK
  BY DEF Typed
<1> QED BY <1>1, TypedInvariant, PTL

-----------------------------------------------------------------------------
(* From the miss until the slot is claimed, no slot has the block: what one *)
(* worker needs for cache_excg to make no second slot of it.                *)
Apart ==
  \A w \in Workers :
    op[w].pc \in {"choose", "writeback", "fill", "claim"} => \A i \in Slots : slot[i].blk # op[w].blk

(* Only claiming a slot changes the block number of one.                    *)
LEMMA BlksKept ==
  ASSUME Typed, NEW w \in Workers, WorkerStep(w), ~ Claim(w)
  PROVE  \A i \in Slots : slot'[i].blk = slot[i].blk
<1> USE DEF Typed, TypeOK
<1>0. \A i \in Slots : slot[i] \in SlotType
  OBVIOUS
<1>1. CASE UNCHANGED slot
  BY <1>1
<1>2. CASE \E i \in Slots : Access(w, i)
  BY <1>0, <1>2 DEF Access, SlotType
<1>3. CASE WriteBack(w)
  BY <1>0, <1>3 DEF WriteBack, SlotType
<1>4. CASE Fill(w)
  BY <1>0, <1>4 DEF Fill, SlotType
<1>5. CASE Clean(w)
  BY <1>0, <1>5 DEF Clean, SlotType
<1>6. CASE Flush(w)
  BY <1>0, <1>6 DEF Flush, SlotType
<1> QED
  BY <1>1, <1>2, <1>3, <1>4, <1>5, <1>6, Found
  DEF WorkerStep, Start, Hit, Miss, Choose, Again, AgainMiss, Erase, Move

LEMMA AgerKeepsBlks ==
  ASSUME Typed, AgeTick \/ AgeWriteBack
  PROVE  UNCHANGED op /\ \A i \in Slots : slot'[i].blk = slot[i].blk
<1>1. \A i \in Slots : slot[i] \in SlotType
  BY DEF Typed, TypeOK
<1>2. CASE AgeTick
  BY <1>1, <1>2 DEF AgeTick, Typed, TypeOK, SlotType
<1>3. CASE AgeWriteBack
  BY <1>1, <1>3 DEF AgeWriteBack, Typed, TypeOK, SlotType
<1> QED BY <1>2, <1>3

(* Where a worker is in an operation after its step.                        *)
LEMMA Course ==
  ASSUME Typed, NEW w \in Workers, WorkerStep(w)
  PROVE  LET p == op[w].pc
             q == op'[w].pc
         IN /\ q = "choose" => p = "lookup" /\ Hits(op[w].blk) = {}
            /\ q \in {"writeback", "fill", "claim"} => p \in {"choose", "writeback", "fill"}
            /\ q \in {"choose", "writeback", "fill", "claim", "again"} => op'[w].blk = op[w].blk
            /\ q = "again" => Claim(w)
<1> USE DEF At, Goto, Finish
<1>0. op[w] \in OpType
  BY DEF Typed, TypeOK
<1>1. CASE Start(w)
  BY <1>0, <1>1 DEF Start, Typed, TypeOK
<1>2. CASE Finish(w)
  BY <1>0, <1>2 DEF IdleOp, Typed, TypeOK
<1>3. CASE Miss(w) \/ WriteBack(w) \/ Fill(w) \/ Claim(w)
  BY <1>0, <1>3 DEF Miss, WriteBack, Fill, Claim, OpType, Typed, TypeOK
<1>4. CASE Choose(w)
  BY <1>0, <1>4 DEF Choose, OpType, Typed, TypeOK
<1>5. CASE Erase(w) \/ Flush(w)
  BY <1>0, <1>5 DEF Erase, Flush, OpType, Typed, TypeOK
<1> QED
  BY <1>1, <1>2, <1>3, <1>4, <1>5, Found
  DEF WorkerStep, Hit, Again, Access, AgainMiss, Clean, Move

Single == Typed /\ UniqueSlot /\ Apart

LEMMA SingleInvariant == ASSUME OneWorker PROVE Spec => []Single
<1>1. Init => UniqueSlot /\ Apart
  BY DEF Init, UniqueSlot, Apart, IdleOp
<1>2. Typed /\ Typed' /\ UniqueSlot /\ Apart /\ [Next]_vars => UniqueSlot' /\ Apart'
  <2> SUFFICES ASSUME Typed, Typed', UniqueSlot, Apart, [Next]_vars PROVE UniqueSlot' /\ Apart'
    OBVIOUS
  <2>1. CASE UNCHANGED vars
    BY <2>1 DEF vars, UniqueSlot, Apart
  <2>2. ASSUME NEW w \in Workers, WorkerStep(w), ~ Claim(w) PROVE UniqueSlot' /\ Apart'
    <3>1. \A i \in Slots : slot'[i].blk = slot[i].blk
      BY <2>2, BlksKept
    <3>2. UniqueSlot'
      BY <3>1 DEF UniqueSlot
    <3>3. ASSUME op'[w].pc \in {"choose", "writeback", "fill", "claim"}
          PROVE  \A i \in Slots : slot[i].blk # op[w].blk
      BY <2>2, <3>3, Course DEF Apart, Hits
    <3>4. Apart'
      BY <2>2, <3>1, <3>3, Course, OneWorker DEF Apart, OneWorker
    <3> QED BY <3>2, <3>4
  <2>3. ASSUME NEW w \in Workers, Claim(w) PROVE UniqueSlot' /\ Apart'
    <3> DEFINE i == op[w].slot
               b == op[w].blk
    <3>1. i \in Slots /\ \A j \in Slots : slot[j].blk # b /\ slot[j] \in SlotType
      BY <2>3, SetLocal DEF Claim, At, Apart, Typed, TypeOK
    <3>2. \A j \in Slots : slot'[j].blk = IF j = i THEN b ELSE slot[j].blk
      BY <2>3, <3>1 DEF Claim, Typed, TypeOK, SlotType
    <3>3. UniqueSlot'
      BY <3>1, <3>2 DEF UniqueSlot
    <3>4. op'[w].pc = "again"
      BY <2>3 DEF Claim, Goto, Typed, TypeOK, OpType
    <3> QED BY <3>3, <3>4, OneWorker DEF Apart, OneWorker
  <2>4. CASE AgeTick \/ AgeWriteBack
    BY <2>4, AgerKeepsBlks DEF UniqueSlot, Apart
  <2> QED BY <2>1, <2>2, <2>3, <2>4 DEF Next
<1> QED BY <1>1, <1>2, TypedInvariant, PTL DEF Spec, Single

(* A block is in one slot at most, whatever was freed, flushed, moved or    *)
(* aged, and whenever the ageing thread runs, if one thread works in the    *)
(* cache: the slot is numbered only after the transfer, and the scan before *)
(* it found no slot with the number (fs.c:1482-1520).                       *)
THEOREM OneSlotPerBlock == ASSUME OneWorker PROVE Spec => []UniqueSlot
<1>1. Single => UniqueSlot
  BY DEF Single
<1> QED BY <1>1, SingleInvariant, PTL

-----------------------------------------------------------------------------
(* The state of slots and operations while one worker and the ageing thread *)
(* take turns: the ageing thread is inside a write-back only when nobody    *)
(* works, and writes the slot back under the number it still has.           *)
TakesTurns == age.pc = "writeback" => Quiet /\ age.old = slot[age.slot].blk

(* A valid slot has a block.                                                *)
ValidHasBlock == \A i \in Slots : slot[i].V = 1 => slot[i].blk \in Blocks

(* What cache_excg knows of the slot it has chosen.                         *)
Excg ==
  \A w \in Workers :
    LET s == slot[op[w].slot]
    IN /\ op[w].pc = "writeback" => s.V = 1 /\ op[w].old = s.blk
       /\ op[w].pc = "fill" => s.V = 0 \/ s.M = 0
       /\ op[w].pc \in {"fill", "claim"} => (op[w].old = NoBlock <=> s.V = 0)
       /\ op[w].pc = "claim" => s.data = disk[op[w].blk]

(* The flush of the defragmenter has emptied the slots behind it.           *)
Flushed ==
  \A w \in Workers, i \in Slots :
    (op[w].pc = "flush" /\ i < op[w].slot) \/ op[w].pc = "move" => slot[i].V = 0

Sync == TakesTurns /\ ValidHasBlock /\ Excg /\ Flushed /\ CleanMatchesDisk

(* What the end of a read or a write does to the slots.                     *)
LEMMA SlotsAfter ==
  ASSUME Typed, NEW w \in Workers, NEW i \in Slots, Access(w, i)
  PROVE  \A j \in Slots :
           /\ slot'[j].V = slot[j].V /\ slot'[j].blk = slot[j].blk
           /\ slot'[j] = slot[j] \/ (j = i /\ op[w].kind = "write"
                                    /\ slot'[j].M = 1 /\ slot'[j].data = op[w].val)
<1>1. \A j \in Slots : slot[j] \in SlotType
  BY DEF Typed, TypeOK
<1> QED BY <1>1 DEF Access, Typed, TypeOK, SlotType

(* One step of the ageing thread, which finds nobody at work.               *)
LEMMA AgerKeepsSync ==
  ASSUME AgerWaits, Typed, UniqueSlot, Sync, AgeTick \/ AgeWriteBack
  PROVE  Sync'
<1> DEFINE i == age.slot
<1>0. /\ i \in Slots /\ \A j \in Slots : slot[j] \in SlotType
      /\ UNCHANGED op /\ \A j \in Slots : slot'[j].blk = slot[j].blk
  BY AgerKeepsBlks DEF Typed, TypeOK, AgeType
<1>1. Quiet /\ Quiet'
  BY <1>0 DEF AgerWaits, AgerMayRun, AgeTick, AgeWriteBack, Sync, TakesTurns, Quiet
<1>2. \A j \in Slots : slot'[j].V = slot[j].V /\ slot'[j].data = slot[j].data
  BY <1>0 DEF AgeTick, AgeWriteBack, Typed, TypeOK, SlotType
<1>3. Excg' /\ Flushed'
  BY <1>1 DEF Quiet, At, Excg, Flushed
<1>4. ValidHasBlock'
  BY <1>0, <1>2 DEF Sync, ValidHasBlock
<1>5. TakesTurns'
  <2>1. CASE AgeTick
    BY <1>0, <1>1, <2>1 DEF AgeTick, TakesTurns, Typed, TypeOK, AgeType
  <2>2. CASE AgeWriteBack
    BY <2>2 DEF AgeWriteBack, TakesTurns
  <2> QED BY <2>1, <2>2
<1>6. CleanMatchesDisk'
  <2>1. CASE AgeTick
    <3>1. \A j \in Slots : slot'[j].M = slot[j].M
      BY <1>0, <2>1 DEF AgeTick, Typed, TypeOK, SlotType
    <3>2. \A j \in Slots : slot[j].V = 1 /\ slot[j].M = 0 => slot[j].data = disk[slot[j].blk]
      BY <1>1 DEF Sync, CleanMatchesDisk, BeingClaimed, At, Quiet
    <3>3. UNCHANGED disk
      BY <2>1 DEF AgeTick
    <3> QED BY <1>0, <1>2, <3>1, <3>2, <3>3 DEF CleanMatchesDisk
  <2>2. CASE AgeWriteBack
    <3>1. /\ block_write(slot[i].blk, slot[i].data)
          /\ \A j \in Slots : j # i => slot'[j] = slot[j]
      BY <1>0, <2>2 DEF AgeWriteBack, Sync, TakesTurns, Typed, TypeOK
    <3>2. ASSUME NEW j \in Slots, slot'[j].V = 1, slot'[j].M = 0
          PROVE  slot'[j].data = disk'[slot'[j].blk]
      <4>1. slot[j].blk \in Blocks
        BY <1>2, <3>2 DEF Sync, ValidHasBlock
      <4>2. CASE j = i
        BY <1>0, <1>2, <3>1, <4>1, <4>2 DEF block_write, Typed, TypeOK
      <4>3. CASE j # i
        <5>1. slot[j].blk # slot[i].blk
          BY <1>0, <4>1, <4>3, CacheAssumption DEF UniqueSlot
        <5>2. slot[j].data = disk[slot[j].blk]
          BY <1>1, <1>2, <3>1, <3>2, <4>3 DEF Sync, CleanMatchesDisk, BeingClaimed, At, Quiet
        <5> QED BY <1>0, <1>2, <3>1, <4>1, <5>1, <5>2 DEF block_write, Typed, TypeOK
      <4> QED BY <4>2, <4>3
    <3> QED BY <3>2 DEF CleanMatchesDisk
  <2> QED BY <2>1, <2>2
<1> QED BY <1>3, <1>4, <1>5, <1>6 DEF Sync

(* While a worker is in an operation the ageing thread waits.               *)
LEMMA WorkerTakesTurn ==
  ASSUME AgerWaits, Typed, TakesTurns, NEW w \in Workers, WorkerStep(w)
  PROVE  UNCHANGED age /\ age.pc # "writeback" /\ TakesTurns'
<1>1. UNCHANGED age
  BY DEF WorkerStep, Start, Hit, Miss, Choose, WriteBack, Fill, Claim, Again, AgainMiss, Erase,
         Clean, Flush, Move, Access
<1>2. CASE Start(w)
  BY <1>1, <1>2 DEF Start, AgerWaits, TakesTurns
<1>3. CASE ~ Start(w)
  <2>1. op[w].pc # "idle"
    BY <1>3 DEF WorkerStep, Hit, Miss, Choose, WriteBack, Fill, Claim, Again, AgainMiss, Erase,
                Clean, Flush, Move, At
  <2> QED BY <1>1, <2>1 DEF TakesTurns, Quiet, At
<1> QED BY <1>2, <1>3

(* The steps that touch neither the slots nor the disk, but for Choose.     *)
LEMMA LightSteps ==
  ASSUME OneWorker, Typed, Sync, NEW w \in Workers,
         Start(w) \/ Miss(w) \/ AgainMiss(w) \/ (\E i \in Slots : Access(w, i))
  PROVE  ValidHasBlock' /\ Excg' /\ Flushed'
<1>1. \A j \in Slots : slot'[j].V = slot[j].V /\ slot'[j].blk = slot[j].blk
  BY SlotsAfter DEF Start, Miss, AgainMiss
<1>2. \/ op'[w].pc \in {"idle", "erase", "lookup", "choose"}
      \/ op'[w].pc = "flush" /\ op'[w].slot = 0
  <2>1. op[w] \in OpType
    BY DEF Typed, TypeOK
  <2>2. CASE Start(w)
    BY <2>1, <2>2 DEF Start, Typed, TypeOK
  <2>3. CASE Miss(w)
    BY <2>1, <2>3 DEF Miss, Goto, Typed, TypeOK, OpType
  <2>4. CASE Finish(w)
    BY <2>4 DEF Finish, IdleOp, Typed, TypeOK
  <2> QED BY <2>2, <2>3, <2>4 DEF AgainMiss, Access
<1>3. Excg'
  BY <1>2 DEF OneWorker, Excg
<1>4. Flushed'
  BY <1>2, SlotFacts DEF OneWorker, Flushed, Slots
<1>5. ValidHasBlock'
  BY <1>1 DEF Sync, ValidHasBlock
<1> QED BY <1>3, <1>4, <1>5

(* What CleanMatchesDisk says of a slot whose worker is elsewhere.          *)
LEMMA CleanSlot ==
  ASSUME OneWorker, CleanMatchesDisk, NEW w \in Workers, NEW i \in Slots,
         slot[i].V = 1, slot[i].M = 0,
         op[w].pc = "claim" => op[w].slot # i,
         op[w].pc = "clean" => op[w].blk # slot[i].blk
  PROVE  slot[i].data = disk[slot[i].blk]
BY DEF OneWorker, CleanMatchesDisk, BeingClaimed, At

(* The same lemma read the other way: how CleanMatchesDisk is shown.        *)
LEMMA ShowClean ==
  ASSUME OneWorker, NEW w \in Workers,
         \A i \in Slots :
           /\ slot'[i].V = 1 /\ slot'[i].M = 0
           /\ op'[w].pc = "claim" => op'[w].slot # i
           /\ op'[w].pc = "clean" => op'[w].blk # slot'[i].blk
           => slot'[i].data = disk'[slot'[i].blk]
  PROVE  CleanMatchesDisk'
BY DEF OneWorker, CleanMatchesDisk, BeingClaimed, At

LEMMA LightStepsClean ==
  ASSUME OneWorker, Typed, Sync, NEW w \in Workers,
         Start(w) \/ Miss(w) \/ Hit(w) \/ Again(w) \/ AgainMiss(w)
  PROVE  CleanMatchesDisk'
<1>1. op[w].pc # "claim" /\ op[w].pc # "clean" /\ UNCHANGED disk
  BY DEF Start, Miss, Hit, Again, AgainMiss, Access, At
<1>2. \A j \in Slots : /\ slot'[j].V = slot[j].V /\ slot'[j].blk = slot[j].blk
                       /\ slot'[j] = slot[j] \/ slot'[j].M = 1
  BY SlotsAfter, Found DEF Start, Miss, Hit, Again, AgainMiss
<1>3. ASSUME NEW j \in Slots, slot'[j].V = 1, slot'[j].M = 0
      PROVE  slot'[j].data = disk'[slot'[j].blk]
  <2>1. slot'[j] = slot[j]
    BY <1>2, <1>3
  <2>2. slot[j].V = 1 /\ slot[j].M = 0
    BY <1>3, <2>1
  <2>3. slot[j].data = disk[slot[j].blk]
    BY <1>1, <2>2, CleanSlot DEF Sync
  <2> QED BY <1>1, <2>1, <2>3
<1> QED BY <1>3, ShowClean

(* cache_excg chooses a slot and knows whether it is valid.                 *)
LEMMA ChooseKeepsSync ==
  ASSUME OneWorker, Typed, Sync, NEW w \in Workers, Choose(w)
  PROVE  ValidHasBlock' /\ Excg' /\ Flushed' /\ CleanMatchesDisk'
<1>0. /\ op[w] \in OpType /\ op[w].pc = "choose" /\ UNCHANGED <<slot, disk>>
      /\ \A j \in Slots : slot[j] \in SlotType
  BY DEF Choose, At, Typed, TypeOK
<1>1. PICK i \in Slots :
        op' = [op EXCEPT ![w] =
                [[[op[w] EXCEPT !.slot = i] EXCEPT !.old = IF slot[i].V = 0 THEN NoBlock ELSE slot[i].blk]
                   EXCEPT !.pc = IF slot[i].V = 0 THEN "fill" ELSE "writeback"]]
  BY Chosen DEF Choose, Typed, TypeOK
<1>2. /\ op'[w].slot = i /\ op'[w].old = (IF slot[i].V = 0 THEN NoBlock ELSE slot[i].blk)
      /\ op'[w].pc = IF slot[i].V = 0 THEN "fill" ELSE "writeback"
  BY <1>0, <1>1 DEF Typed, TypeOK, OpType
<1>3. slot[i].V \in {0, 1} /\ (slot[i].V = 1 => slot[i].blk # NoBlock)
  BY <1>0, SetField, CacheAssumption DEF Sync, ValidHasBlock
<1>4. Excg'
  BY <1>0, <1>2, <1>3 DEF OneWorker, Excg
<1>5. Flushed'
  BY <1>2 DEF OneWorker, Flushed
<1>6. CleanMatchesDisk'
  BY <1>0, CleanSlot, ShowClean DEF Sync
<1> QED BY <1>0, <1>4, <1>5, <1>6 DEF Sync, ValidHasBlock

(* The slot chosen is written back, under its own number.                   *)
LEMMA WriteBackKeepsSync ==
  ASSUME OneWorker, Typed, UniqueSlot, Sync, NEW w \in Workers, WriteBack(w)
  PROVE  ValidHasBlock' /\ Excg' /\ Flushed' /\ CleanMatchesDisk'
<1> DEFINE i == op[w].slot
           b == slot[i].blk
<1>0. /\ op[w] \in OpType /\ op[w].pc = "writeback" /\ i \in Slots
      /\ \A j \in Slots : slot[j] \in SlotType
  BY SetLocal DEF WriteBack, At, Typed, TypeOK
<1>1. slot[i].V = 1 /\ op[w].old = b /\ b \in Blocks
  BY <1>0 DEF Sync, Excg, ValidHasBlock
<1>2. disk' = [disk EXCEPT ![b] = slot[i].data]
  BY <1>1 DEF WriteBack, block_write
<1>3. slot' = [slot EXCEPT ![i] = [slot[i] EXCEPT !.M = 0]]
  BY DEF WriteBack
<1>4. /\ \A j \in Slots : slot'[j].V = slot[j].V /\ slot'[j].blk = slot[j].blk /\ slot'[j].data = slot[j].data
      /\ slot'[i].M = 0 /\ \A j \in Slots \ {i} : slot'[j] = slot[j]
  BY <1>0, <1>3 DEF Typed, TypeOK, SlotType
<1>5. op'[w].pc = "fill" /\ op'[w].slot = i /\ op'[w].old = b
  BY <1>0, <1>1 DEF WriteBack, Goto, Typed, TypeOK, OpType
<1>6. Excg'
  BY <1>0, <1>1, <1>4, <1>5, CacheAssumption DEF OneWorker, Excg
<1>7. Flushed'
  BY <1>5 DEF OneWorker, Flushed
<1>8. ASSUME NEW j \in Slots, slot'[j].V = 1, slot'[j].M = 0
      PROVE  slot'[j].data = disk'[slot'[j].blk]
  <2>1. CASE j = i
    BY <1>1, <1>2, <1>4, <2>1 DEF Typed, TypeOK
  <2>2. CASE j # i
    <3>1. slot[j].blk \in Blocks /\ slot[j].blk # b
      BY <1>0, <1>1, <1>4, <1>8, <2>2, CacheAssumption DEF UniqueSlot, Sync, ValidHasBlock
    <3>2. slot[j].V = 1 /\ slot[j].M = 0
      BY <1>4, <1>8, <2>2
    <3>3. slot[j].data = disk[slot[j].blk]
      BY <1>0, <3>2, CleanSlot DEF Sync
    <3> QED BY <1>2, <1>4, <3>1, <3>3 DEF Typed, TypeOK
  <2> QED BY <2>1, <2>2
<1> QED BY <1>4, <1>6, <1>7, <1>8, ShowClean DEF Sync, ValidHasBlock

(* The slot holds what the disk has of the new block, then takes its number.*)
LEMMA FillKeepsSync ==
  ASSUME OneWorker, Typed, Sync, NEW w \in Workers, Fill(w)
  PROVE  ValidHasBlock' /\ Excg' /\ Flushed' /\ CleanMatchesDisk'
<1> DEFINE i == op[w].slot
           b == op[w].blk
<1>0. /\ op[w] \in OpType /\ op[w].pc = "fill" /\ i \in Slots /\ UNCHANGED disk
      /\ \A j \in Slots : slot[j] \in SlotType
  BY SetLocal DEF Fill, At, Typed, TypeOK
<1>1. slot' = [slot EXCEPT ![i] = [slot[i] EXCEPT !.data = disk[b]]]
  BY DEF Fill
<1>2. /\ \A j \in Slots : slot'[j].V = slot[j].V /\ slot'[j].blk = slot[j].blk
      /\ slot'[i].data = disk[b] /\ \A j \in Slots \ {i} : slot'[j] = slot[j]
  BY <1>0, <1>1 DEF Typed, TypeOK, SlotType
<1>3. op'[w].pc = "claim" /\ op'[w].slot = i /\ op'[w].old = op[w].old /\ op'[w].blk = b
  BY <1>0 DEF Fill, Goto, Typed, TypeOK, OpType
<1>4. Excg'
  BY <1>0, <1>2, <1>3 DEF OneWorker, Sync, Excg
<1>5. Flushed'
  BY <1>3 DEF OneWorker, Flushed
<1>6. CleanMatchesDisk'
  BY <1>0, <1>2, <1>3, CleanSlot, ShowClean DEF Sync
<1> QED BY <1>2, <1>4, <1>5, <1>6 DEF Sync, ValidHasBlock

LEMMA ClaimKeepsSync ==
  ASSUME OneWorker, Typed, Sync, NEW w \in Workers, Claim(w)
  PROVE  ValidHasBlock' /\ Excg' /\ Flushed' /\ CleanMatchesDisk'
<1> DEFINE i == op[w].slot
           b == op[w].blk
           v == IF op[w].old = NoBlock THEN 1 ELSE slot[i].V
<1>0. /\ op[w] \in OpType /\ op[w].pc = "claim" /\ i \in Slots /\ b \in Blocks /\ UNCHANGED disk
      /\ \A j \in Slots : slot[j] \in SlotType
  BY SetLocal DEF Claim, At, Typed, TypeOK, Busy
<1>1. slot' = [slot EXCEPT ![i] = [[[slot[i] EXCEPT !.R = 1] EXCEPT !.blk = b] EXCEPT !.V = v]]
  BY <1>0 DEF Claim, Typed, TypeOK, SlotType
<1>2. /\ slot'[i].blk = b /\ slot'[i].data = slot[i].data
      /\ \A j \in Slots \ {i} : slot'[j] = slot[j]
  BY <1>0, <1>1 DEF Typed, TypeOK, SlotType
<1>3. op'[w].pc = "again"
  BY <1>0 DEF Claim, Goto, Typed, TypeOK, OpType
<1>4. slot[i].data = disk[b]
  BY <1>0 DEF Sync, Excg
<1>5. Excg' /\ Flushed'
  BY <1>3 DEF OneWorker, Excg, Flushed
<1>6. CleanMatchesDisk'
  BY <1>0, <1>2, <1>4, CleanSlot, ShowClean DEF Sync
<1>7. ValidHasBlock'
  BY <1>0, <1>2 DEF Sync, ValidHasBlock
<1> QED BY <1>5, <1>6, <1>7

(* A block is zeroed on the disk, then dropped from the cache.              *)
LEMMA FreeKeepsSync ==
  ASSUME OneWorker, Typed, Sync, NEW w \in Workers, Erase(w) \/ Clean(w)
  PROVE  ValidHasBlock' /\ Excg' /\ Flushed' /\ CleanMatchesDisk'
<1> DEFINE b == op[w].blk
<1>0. op[w] \in OpType /\ b \in Blocks /\ \A j \in Slots : slot[j] \in SlotType
  BY DEF Erase, Clean, At, Typed, TypeOK, Busy
<1>1. CASE Erase(w)
  <2>1. op'[w].pc = "clean" /\ op'[w].blk = b /\ UNCHANGED slot /\ op[w].pc = "erase"
    BY <1>0, <1>1 DEF Erase, At, Goto, Typed, TypeOK, OpType
  <2>2. Excg' /\ Flushed' /\ ValidHasBlock'
    BY <2>1 DEF OneWorker, Excg, Flushed, Sync, ValidHasBlock
  <2>3. \A c \in Blocks \ {b} : disk'[c] = disk[c]
    BY <1>1 DEF Erase, block_write, Typed, TypeOK
  <2>4. ASSUME NEW j \in Slots, slot[j].V = 1, slot[j].M = 0, slot[j].blk # b
        PROVE  slot[j].data = disk'[slot[j].blk]
    <3>1. slot[j].data = disk[slot[j].blk]
      BY <2>1, <2>4, CleanSlot DEF Sync
    <3> QED BY <2>3, <2>4, <3>1 DEF Sync, ValidHasBlock
  <2>5. CleanMatchesDisk'
    BY <2>1, <2>4, ShowClean
  <2> QED BY <2>2, <2>5
<1>2. CASE Clean(w)
  <2>1. op'[w].pc = "idle" /\ op[w].pc = "clean" /\ UNCHANGED disk
    BY <1>2 DEF Clean, At, Finish, IdleOp, Typed, TypeOK
  <2>2. \A j \in Slots : IF slot[j].blk = b THEN slot'[j].V = 0 ELSE slot'[j] = slot[j]
    BY <1>0, <1>2 DEF Clean, Hits, SlotType
  <2>3. Excg' /\ Flushed'
    BY <2>1 DEF OneWorker, Excg, Flushed
  <2>4. ValidHasBlock'
    BY <2>2 DEF Sync, ValidHasBlock
  <2>5. ASSUME NEW j \in Slots, slot'[j].V = 1, slot'[j].M = 0
        PROVE  slot'[j].data = disk'[slot'[j].blk]
    BY <2>1, <2>2, <2>5, CleanSlot DEF Sync
  <2> QED BY <2>3, <2>4, <2>5, ShowClean
<1> QED BY <1>1, <1>2

(* The defragmenter writes back and empties the slots, then moves blocks.   *)
LEMMA FlushKeepsSync ==
  ASSUME OneWorker, Typed, UniqueSlot, Sync, NEW w \in Workers, Flush(w)
  PROVE  ValidHasBlock' /\ Excg' /\ Flushed' /\ CleanMatchesDisk'
<1> DEFINE i == op[w].slot
<1>0. /\ op[w] \in OpType /\ op[w].pc = "flush" /\ i \in Slots
      /\ \A j \in Slots : slot[j] \in SlotType
  BY SetLocal DEF Flush, At, Typed, TypeOK
<1>1. slot' = [slot EXCEPT ![i] = [[slot[i] EXCEPT !.M = 0] EXCEPT !.V = 0]]
  BY DEF Flush
<1>2. slot'[i].V = 0 /\ \A j \in Slots \ {i} : slot'[j] = slot[j]
  BY <1>0, <1>1 DEF Typed, TypeOK, SlotType
<1>3. \/ op'[w].pc = "flush" /\ op'[w].slot = i + 1
      \/ op'[w].pc = "move" /\ i + 1 \notin Slots
  BY <1>0 DEF Flush, Typed, TypeOK, OpType
<1>4. \A j \in Slots : j < i => slot[j].V = 0
  BY <1>0 DEF Sync, Flushed
<1>5. ASSUME NEW j \in Slots, j <= i PROVE slot'[j].V = 0
  <2>1. j = i \/ j < i
    BY <1>0, <1>5 DEF Slots
  <2> QED BY <1>2, <1>4, <2>1
<1>6. Flushed'
  BY <1>0, <1>3, <1>5, CacheAssumption DEF OneWorker, Flushed, Slots
<1>7. Excg'
  BY <1>3 DEF OneWorker, Excg
<1>8. ValidHasBlock'
  BY <1>2 DEF Sync, ValidHasBlock
<1>9. ASSUME NEW j \in Slots, slot'[j].V = 1, slot'[j].M = 0
      PROVE  slot'[j].data = disk'[slot'[j].blk]
  <2>1. j # i /\ slot'[j] = slot[j]
    BY <1>2, <1>9
  <2>2. slot[j].blk \in Blocks /\ slot[j].blk # slot[i].blk
    BY <1>0, <1>9, <2>1, CacheAssumption DEF UniqueSlot, Sync, ValidHasBlock
  <2>3. slot[j].data = disk[slot[j].blk]
    BY <1>0, <1>9, <2>1, CleanSlot DEF Sync
  <2> QED BY <2>1, <2>2, <2>3 DEF Flush, block_write, Typed, TypeOK
<1> QED BY <1>6, <1>7, <1>8, <1>9, ShowClean

LEMMA MoveKeepsSync ==
  ASSUME OneWorker, Typed, Sync, NEW w \in Workers, Move(w)
  PROVE  ValidHasBlock' /\ Excg' /\ Flushed' /\ CleanMatchesDisk'
<1>1. UNCHANGED slot /\ op'[w].pc = "idle" /\ \A j \in Slots : slot[j].V = 0
  BY DEF Move, At, Finish, IdleOp, Typed, TypeOK, Sync, Flushed
<1> QED BY <1>1, ShowClean DEF OneWorker, Sync, ValidHasBlock, Excg, Flushed

LEMMA SyncInvariant == ASSUME OneWorker, AgerWaits PROVE Spec => []Sync
<1>1. Init => Sync
  BY DEF Init, IdleOp, Sync, TakesTurns, ValidHasBlock, Excg, Flushed, CleanMatchesDisk
<1>2. Single /\ Sync /\ [Next]_vars => Sync'
  <2> SUFFICES ASSUME Single, Sync, [Next]_vars PROVE Sync'
    OBVIOUS
  <2> USE DEF Single
  <2>1. CASE UNCHANGED vars
    BY <2>1 DEF vars, Sync, TakesTurns, Quiet, At, ValidHasBlock, Excg, Flushed, CleanMatchesDisk, BeingClaimed
  <2>2. ASSUME NEW w \in Workers, WorkerStep(w) PROVE Sync'
    <3>1. TakesTurns'
      BY <2>2, WorkerTakesTurn DEF Sync
    <3>2. ValidHasBlock' /\ Excg' /\ Flushed' /\ CleanMatchesDisk'
      <4>1. CASE Start(w) \/ Miss(w) \/ Hit(w) \/ Again(w) \/ AgainMiss(w)
        <5>1. Start(w) \/ Miss(w) \/ AgainMiss(w) \/ (\E i \in Slots : Access(w, i))
          BY <4>1, Found DEF Hit, Again
        <5> QED BY <4>1, <5>1, LightSteps, LightStepsClean
      <4> QED BY <2>2, <4>1, ChooseKeepsSync, WriteBackKeepsSync, FillKeepsSync, ClaimKeepsSync,
                 FreeKeepsSync, FlushKeepsSync, MoveKeepsSync DEF WorkerStep
    <3> QED BY <3>1, <3>2 DEF Sync
  <2>3. CASE AgeTick \/ AgeWriteBack
    BY <2>3, AgerKeepsSync
  <2> QED BY <2>1, <2>2, <2>3 DEF Next
<1> QED BY <1>1, <1>2, SingleInvariant, PTL DEF Spec

(* A valid slot that is not marked modified has the bytes of the disk, if   *)
(* one thread works in the cache and the ageing thread keeps out of its     *)
(* operations: replacing it without a transfer would lose nothing           *)
(* (fs.c:1449-1479, 1534-1538).                                             *)
THEOREM CleanSlots == ASSUME OneWorker, AgerWaits PROVE Spec => []CleanMatchesDisk
<1>1. Sync => CleanMatchesDisk
  BY DEF Sync
<1> QED BY <1>1, SyncInvariant, PTL

-----------------------------------------------------------------------------
(* That the cache implements BlockStore.  What an operation is about at     *)
(* each of its points.                                                      *)
Matches(o) ==
  /\ o.pc = "idle" => o = IdleOp
  /\ o.pc \in {"lookup", "choose", "writeback", "fill", "claim", "again"} => o.kind \in {"read", "write"}
  /\ o.pc \in {"erase", "clean"} => o.kind = "free"
  /\ o.pc \in {"flush", "move"} => o.kind = "swap"

Locals == \A w \in Workers : Matches(op[w])

(* Nothing is promised of a block that is in an invalid slot, nor of those  *)
(* that are dropped or moved; and the slot that was filled is still there.  *)
Forsaken ==
  /\ \A i \in Slots : slot[i].V = 0 /\ slot[i].blk # NoBlock => slot[i].blk \in unreliable
  /\ \A w \in Workers :
       /\ op[w].pc = "clean" => \A i \in Slots : slot[i].blk = op[w].blk => op[w].blk \in unreliable
       /\ op[w].pc = "move" => op[w].blk \in unreliable /\ op[w].to \in unreliable
       /\ op[w].pc = "again" => \E i \in Slots : slot[i].blk = op[w].blk

LEMMA LocalsKept ==
  ASSUME Typed, Locals, NEW w \in Workers, WorkerStep(w)
  PROVE  Locals'
<1> SUFFICES \E o : op' = [op EXCEPT ![w] = o] /\ Matches(o)
  BY DEF Locals, Matches, Typed, TypeOK
<1>0. op[w] \in OpType /\ Matches(op[w])
  BY DEF Typed, TypeOK, Locals
<1>1. CASE Start(w)
  <2>1. PICK k \in Kinds, b \in Blocks, c \in Blocks, v \in Values :
          op' = [op EXCEPT ![w] =
              [pc |-> CASE k = "free" -> "erase"
                        [] k = "swap" -> "flush"
                        [] OTHER -> "lookup",
               kind |-> k, blk |-> b, to |-> c, val |-> v,
               slot |-> 0, old |-> NoBlock]]
    BY <1>1 DEF Start
  <2>2. k \in {"read", "write", "free", "swap"}
    BY CacheAssumption
  <2>3. Matches([pc |-> CASE k = "free" -> "erase"
                        [] k = "swap" -> "flush"
                        [] OTHER -> "lookup",
               kind |-> k, blk |-> b, to |-> c, val |-> v,
               slot |-> 0, old |-> NoBlock])
    BY <2>2 DEF Matches
  <2> QED BY <2>1, <2>3
<1>2. CASE Finish(w)
  <2>1. Matches(IdleOp)
    BY DEF Matches, IdleOp
  <2> QED BY <1>2, <2>1 DEF Finish
<1>3. ASSUME NEW p \in Points, Goto(w, p), p # "idle",
             \/ {op[w].pc, p} \subseteq {"lookup", "choose", "writeback", "fill", "claim", "again"}
             \/ {op[w].pc, p} \subseteq {"erase", "clean"}
             \/ {op[w].pc, p} \subseteq {"flush", "move"}
      PROVE  \E o : op' = [op EXCEPT ![w] = o] /\ Matches(o)
  <2>1. op' = [op EXCEPT ![w] = [op[w] EXCEPT !.pc = p]]
    BY <1>3 DEF Goto
  <2>2. Matches([op[w] EXCEPT !.pc = p])
    BY <1>0, <1>3 DEF Matches, OpType
  <2> QED BY <2>1, <2>2
<1>4. CASE Miss(w) \/ WriteBack(w) \/ Fill(w) \/ Claim(w) \/ Erase(w)
  BY <1>3, <1>4 DEF Miss, WriteBack, Fill, Claim, Erase, At, Points
<1>5. CASE Choose(w)
  <2>1. PICK i \in Slots :
          op' = [op EXCEPT ![w] =
                [[[op[w] EXCEPT !.slot = i] EXCEPT !.old = IF slot[i].V = 0 THEN NoBlock ELSE slot[i].blk]
                   EXCEPT !.pc = IF slot[i].V = 0 THEN "fill" ELSE "writeback"]]
    BY <1>5, Chosen DEF Choose, Typed, TypeOK
  <2>2. Matches([[[op[w] EXCEPT !.slot = i] EXCEPT !.old = IF slot[i].V = 0 THEN NoBlock ELSE slot[i].blk]
                   EXCEPT !.pc = IF slot[i].V = 0 THEN "fill" ELSE "writeback"])
    BY <1>0, <1>5 DEF Matches, OpType, Choose, At
  <2> QED BY <2>1, <2>2
<1>6. CASE Flush(w)
  <2>1. CASE op[w].slot + 1 \in Slots
    <3>1. op' = [op EXCEPT ![w] = [op[w] EXCEPT !.slot = op[w].slot + 1]]
      BY <1>6, <2>1 DEF Flush
    <3>2. Matches([op[w] EXCEPT !.slot = op[w].slot + 1])
      BY <1>0, <1>6 DEF Matches, OpType, Flush, At
    <3> QED BY <3>1, <3>2
  <2>2. CASE op[w].slot + 1 \notin Slots
    BY <1>3, <1>6, <2>2 DEF Flush, At, Goto, Points
  <2> QED BY <2>1, <2>2
<1> QED
  BY <1>1, <1>2, <1>4, <1>5, <1>6 DEF WorkerStep, Hit, Again, Access, AgainMiss, Clean, Move

LEMMA ForsakenKept ==
  ASSUME OneWorker, Typed, Sync, Forsaken, NEW w \in Workers, WorkerStep(w)
  PROVE  Forsaken'
<1>0. op[w] \in OpType /\ op[w].slot \in Slots /\ \A j \in Slots : slot[j] \in SlotType
  BY SetLocal DEF Typed, TypeOK
<1>1. CASE Start(w) \/ Miss(w) \/ Choose(w) \/ AgainMiss(w) \/ (\E i \in Slots : Access(w, i))
           \/ WriteBack(w) \/ Fill(w)
  <2>1. UNCHANGED unreliable
    BY <1>1 DEF Start, Miss, Choose, AgainMiss, Access, WriteBack, Fill
  <2>2. \A j \in Slots : slot'[j].V = slot[j].V /\ slot'[j].blk = slot[j].blk
    <3>1. CASE WriteBack(w) \/ Fill(w)
      BY <1>0, <3>1 DEF WriteBack, Fill, Typed, TypeOK, SlotType
    <3> QED BY <1>1, <3>1, SlotsAfter DEF Start, Miss, Choose, AgainMiss
  <2>3. op'[w].pc \notin {"clean", "move", "again"}
    <3>1. CASE Start(w)
      BY <1>0, <3>1 DEF Start, Typed, TypeOK
    <3>2. CASE Finish(w)
      BY <3>2 DEF Finish, IdleOp, Typed, TypeOK
    <3>3. CASE Miss(w) \/ WriteBack(w) \/ Fill(w)
      BY <1>0, <3>3 DEF Miss, WriteBack, Fill, Goto, OpType, Typed, TypeOK
    <3>4. CASE Choose(w)
      BY <1>0, <3>4 DEF Choose, OpType, Typed, TypeOK
    <3> QED BY <1>1, <3>1, <3>2, <3>3, <3>4 DEF AgainMiss, Access
  <2> QED BY <2>1, <2>2, <2>3 DEF OneWorker, Forsaken
<1>2. CASE Claim(w)
  <2> DEFINE i == op[w].slot
             v == IF op[w].old = NoBlock THEN 1 ELSE slot[i].V
  <2>1. op[w].pc = "claim" /\ op'[w].pc = "again" /\ op'[w].blk = op[w].blk /\ UNCHANGED unreliable
    BY <1>0, <1>2 DEF Claim, At, Goto, OpType, Typed, TypeOK
  <2>2. v = 1
    BY <1>0, <2>1, SetField DEF Sync, Excg
  <2>3. slot' = [slot EXCEPT ![i] = [[[slot[i] EXCEPT !.R = 1] EXCEPT !.blk = op[w].blk] EXCEPT !.V = v]]
    BY <1>0, <1>2 DEF Claim, Typed, TypeOK, SlotType
  <2>4. slot'[i].V = 1 /\ slot'[i].blk = op[w].blk /\ \A j \in Slots \ {i} : slot'[j] = slot[j]
    BY <1>0, <2>2, <2>3 DEF Typed, TypeOK, SlotType
  <2> QED BY <1>0, <2>1, <2>4 DEF OneWorker, Forsaken
<1>3. CASE Erase(w)
  <2>1. op'[w].pc = "clean" /\ op'[w].blk = op[w].blk /\ UNCHANGED slot
    BY <1>0, <1>3 DEF Erase, At, Goto, OpType, Typed, TypeOK
  <2>2. /\ unreliable \subseteq unreliable'
        /\ \A i \in Slots : slot[i].blk = op[w].blk => op[w].blk \in unreliable'
    BY <1>3 DEF Erase, Hits
  <2> QED BY <2>1, <2>2 DEF OneWorker, Forsaken
<1>4. CASE Clean(w)
  <2>1. op'[w].pc = "idle" /\ op[w].pc = "clean" /\ UNCHANGED unreliable
    BY <1>4 DEF Clean, At, Finish, IdleOp, Typed, TypeOK
  <2>2. \A j \in Slots : /\ slot'[j].blk = slot[j].blk
                         /\ slot[j].blk # op[w].blk => slot'[j] = slot[j]
    BY <1>0, <1>4 DEF Clean, Hits, SlotType
  <2> QED BY <2>1, <2>2 DEF OneWorker, Forsaken
<1>5. CASE Flush(w)
  <2> DEFINE i == op[w].slot
  <2>1. slot' = [slot EXCEPT ![i] = [[slot[i] EXCEPT !.M = 0] EXCEPT !.V = 0]]
    BY <1>5 DEF Flush
  <2>2. slot'[i].blk = slot[i].blk /\ \A j \in Slots \ {i} : slot'[j] = slot[j]
    BY <1>0, <2>1 DEF Typed, TypeOK, SlotType
  <2>3. unreliable \subseteq unreliable' /\ (slot[i].blk # NoBlock => slot[i].blk \in unreliable')
    BY <1>5 DEF Flush
  <2>4. \/ op'[w].pc = "flush"
        \/ /\ op'[w].pc = "move" /\ op'[w].blk = op[w].blk /\ op'[w].to = op[w].to
           /\ op[w].blk \in unreliable' /\ op[w].to \in unreliable'
    BY <1>0, <1>5 DEF Flush, At, Typed, TypeOK, OpType
  <2> QED BY <1>0, <2>2, <2>3, <2>4 DEF OneWorker, Forsaken
<1>6. CASE Move(w)
  BY <1>6 DEF Move, Finish, IdleOp, OneWorker, Forsaken, Typed, TypeOK
<1> QED BY <1>1, <1>2, <1>3, <1>4, <1>5, <1>6, Found DEF WorkerStep, Hit, Again

(* The invariant under which every step is one of BlockStore.               *)
Transparent == Single /\ Sync /\ Locals /\ Forsaken

LEMMA TransparentInvariant == ASSUME OneWorker, AgerWaits PROVE Spec => []Transparent
<1>1. Init => Locals /\ Forsaken
  BY DEF Init, Locals, Matches, Forsaken, IdleOp
<1>2. Single /\ Sync /\ Locals /\ Forsaken /\ [Next]_vars => Locals' /\ Forsaken'
  <2> SUFFICES ASSUME Single, Sync, Locals, Forsaken, [Next]_vars PROVE Locals' /\ Forsaken'
    OBVIOUS
  <2> USE DEF Single
  <2>1. CASE UNCHANGED vars
    BY <2>1 DEF vars, Locals, Forsaken
  <2>2. ASSUME NEW w \in Workers, WorkerStep(w) PROVE Locals' /\ Forsaken'
    BY <2>2, LocalsKept, ForsakenKept
  <2>3. CASE AgeTick \/ AgeWriteBack
    <3>1. \A j \in Slots : slot'[j].V = slot[j].V
      <4>1. \A j \in Slots : slot[j] \in SlotType
        BY DEF Typed, TypeOK
      <4> QED BY <2>3, <4>1 DEF AgeTick, AgeWriteBack, Typed, TypeOK, SlotType
    <3>2. UNCHANGED unreliable
      BY <2>3 DEF AgeTick, AgeWriteBack
    <3> QED BY <2>3, <3>1, <3>2, AgerKeepsBlks DEF Locals, Forsaken
  <2> QED BY <2>1, <2>2, <2>3 DEF Next
<1> QED BY <1>1, <1>2, SingleInvariant, SyncInvariant, PTL DEF Spec, Transparent

(* What Content says of a block, in terms of the slots.                     *)
Holds(b, v) ==
  \/ \E i \in Slots : slot[i].blk = b /\ ~ BeingClaimed(i) /\ slot[i].data = v
  \/ disk[b] = v /\ \A i \in Slots : slot[i].blk = b => BeingClaimed(i)

ContentIsHeld ==
  UniqueSlot => \A b \in Blocks : \A v \in Values : Holds(b, v) => Content[b] = v

LEMMA ContentNow == ContentIsHeld
<1> SUFFICES ASSUME UniqueSlot, NEW b \in Blocks, NEW v \in Values, Holds(b, v) PROVE Content[b] = v
  BY DEF ContentIsHeld
<1>1. Content[b] = IF \E i \in Hits(b) : ~ BeingClaimed(i)
                   THEN slot[CHOOSE i \in Hits(b) : ~ BeingClaimed(i)].data ELSE disk[b]
  BY DEF Content
<1>2. CASE \E i \in Hits(b) : ~ BeingClaimed(i)
  <2> DEFINE c == CHOOSE i \in Hits(b) : ~ BeingClaimed(i)
  <2>1. c \in Hits(b) /\ ~ BeingClaimed(c)
    BY <1>2
  <2>2. PICK i \in Slots : slot[i].blk = b /\ ~ BeingClaimed(i) /\ slot[i].data = v
    BY <1>2 DEF Holds, Hits
  <2>3. c = i
    BY <2>1, <2>2, CacheAssumption DEF Hits, UniqueSlot
  <2> QED BY <1>1, <1>2, <2>2, <2>3
<1>3. CASE ~ \E i \in Hits(b) : ~ BeingClaimed(i)
  BY <1>1, <1>3 DEF Holds, Hits
<1> QED BY <1>2, <1>3

LEMMA ContentNext == ContentIsHeld'
BY ContentNow, PTL

ContentIsSome == Typed => \A b \in Blocks : \E v \in Values : Holds(b, v)

LEMMA SomeNow == ContentIsSome
<1> SUFFICES ASSUME Typed, NEW b \in Blocks PROVE \E v \in Values : Holds(b, v)
  BY DEF ContentIsSome
<1>1. CASE \E i \in Slots : slot[i].blk = b /\ ~ BeingClaimed(i)
  <2>1. PICK i \in Slots : slot[i].blk = b /\ ~ BeingClaimed(i)
    BY <1>1
  <2>2. slot[i].data \in Values
    BY SetField DEF Typed, TypeOK
  <2> QED BY <2>1, <2>2 DEF Holds
<1>2. CASE ~ \E i \in Slots : slot[i].blk = b /\ ~ BeingClaimed(i)
  <2>1. disk[b] \in Values
    BY DEF Typed, TypeOK
  <2> QED BY <1>2, <2>1 DEF Holds
<1> QED BY <1>1, <1>2

LEMMA SomeNext == ContentIsSome'
BY SomeNow, PTL

(* Two states in a step, each with its blocks in one slot at most.          *)
Sound == Typed /\ UniqueSlot
TwoStates == Sound /\ Sound'

LEMMA ContentTyped == ASSUME TwoStates PROVE Content \in [Blocks -> Values] /\ Content' \in [Blocks -> Values]
<1>1. \A b \in Blocks : Content[b] \in Values
  BY ContentNow, SomeNow DEF TwoStates, Sound, ContentIsHeld, ContentIsSome
<1>2. \A b \in Blocks : Content'[b] \in Values
  BY ContentNext, SomeNext DEF TwoStates, Sound, ContentIsHeld, ContentIsSome
<1>3. Content = [b \in Blocks |-> Content[b]]
  BY DEF Content
<1>4. Content' = [b \in Blocks |-> Content'[b]]
  BY DEF Content
<1> QED BY <1>1, <1>2, <1>3, <1>4

LEMMA SameContent ==
  ASSUME TwoStates, NEW b \in Blocks, \A v \in Values : Holds(b, v) => Holds(b, v)'
  PROVE  Content'[b] = Content[b]
<1>1. PICK v \in Values : Holds(b, v)
  BY SomeNow DEF TwoStates, Sound, ContentIsSome
<1>2. Content[b] = v
  BY <1>1, ContentNow DEF TwoStates, Sound, ContentIsHeld
<1>3. Content'[b] = v
  BY <1>1, ContentNext DEF TwoStates, Sound, ContentIsHeld
<1> QED BY <1>2, <1>3

(* A transfer back to the disk changes nothing that a reader would get.     *)
LEMMA WrittenBack ==
  ASSUME Typed, NEW i \in Slots,
         \A j \in Slots : ~ BeingClaimed(j) /\ ~ BeingClaimed(j)',
         \A j \in Slots : slot'[j].blk = slot[j].blk /\ slot'[j].data = slot[j].data,
         UNCHANGED disk \/ block_write(slot[i].blk, slot[i].data),
         NEW b \in Blocks, NEW v \in Values, Holds(b, v)
  PROVE  Holds(b, v)'
<1>1. CASE \E j \in Slots : slot[j].blk = b /\ slot[j].data = v
  BY <1>1 DEF Holds
<1>2. CASE disk[b] = v /\ \A j \in Slots : slot[j].blk # b
  <2>1. disk'[b] = v
    BY <1>2 DEF block_write, Typed, TypeOK
  <2> QED BY <1>2, <2>1 DEF Holds
<1> QED BY <1>1, <1>2 DEF Holds

(* What the workers have asked for, as BlockStore sees it.                  *)
Pending == [w \in Workers |-> [kind |-> op[w].kind, blk |-> op[w].blk, val |-> op[w].val]]

LEMMA Decaying ==
  ASSUME TwoStates, UNCHANGED <<unreliable, result>>, Pending' = Pending,
         \A b \in Blocks \ unreliable : \A v \in Values : Holds(b, v) => Holds(b, v)'
  PROVE  Store!Next
<1>1. \A b \in Blocks \ unreliable : Content'[b] = Content[b]
  BY SameContent
<1>2. Store!Decay
  BY <1>1, ContentTyped DEF Store!Decay, Store!Decays, Pending
<1> QED BY <1>2 DEF Store!Next

LEMMA Waiting ==
  ASSUME OneWorker, NEW w \in Workers,
         op'[w].kind = op[w].kind, op'[w].blk = op[w].blk, op'[w].val = op[w].val
  PROVE  Pending' = Pending
<1>1. \A u \in Workers : op'[u].kind = op[u].kind /\ op'[u].blk = op[u].blk /\ op'[u].val = op[u].val
  BY DEF OneWorker
<1> QED BY <1>1 DEF Pending

LEMMA Answering ==
  ASSUME Typed, NEW w \in Workers, Finish(w)
  PROVE  Store!Answer(w)
<1>1. op' = [op EXCEPT ![w] = IdleOp]
  BY DEF Finish
<1>2. Pending' = [Pending EXCEPT ![w] = Store!NoRequest]
  BY <1>1 DEF Typed, TypeOK, Pending, Store!NoRequest, IdleOp
<1> QED BY <1>2 DEF Store!Answer, Pending

(* What cache_excg leaves alone when it chooses.                            *)
LEMMA Choosing ==
  ASSUME Typed, NEW w \in Workers, Choose(w)
  PROVE  /\ op'[w].kind = op[w].kind /\ op'[w].blk = op[w].blk /\ op'[w].val = op[w].val
         /\ op[w].pc # "claim" /\ op'[w].pc # "claim" /\ UNCHANGED <<slot, disk>>
<1>1. PICK i \in Slots :
        op' = [op EXCEPT ![w] =
                [[[op[w] EXCEPT !.slot = i] EXCEPT !.old = IF slot[i].V = 0 THEN NoBlock ELSE slot[i].blk]
                   EXCEPT !.pc = IF slot[i].V = 0 THEN "fill" ELSE "writeback"]]
  BY Chosen DEF Choose, Typed, TypeOK
<1>2. op[w] \in OpType
  BY DEF Typed, TypeOK
<1>3. op'[w].kind = op[w].kind /\ op'[w].blk = op[w].blk /\ op'[w].val = op[w].val
  BY <1>1, <1>2 DEF Typed, TypeOK, OpType
<1>4. op'[w].pc # "claim"
  BY <1>1, <1>2 DEF Typed, TypeOK, OpType
<1> QED BY <1>3, <1>4 DEF Choose, At

(* The steps that BlockStore does not see, or sees as decay.                *)
LEMMA HiddenSteps ==
  ASSUME OneWorker, TwoStates, Transparent, NEW w \in Workers,
         Miss(w) \/ Choose(w) \/ WriteBack(w) \/ Fill(w) \/ Claim(w)
  PROVE  Store!Next
<1> DEFINE i == op[w].slot
<1>0. /\ op[w] \in OpType /\ i \in Slots /\ \A j \in Slots : slot[j] \in SlotType
      /\ Typed /\ UniqueSlot /\ Apart /\ Sync
  BY SetLocal DEF TwoStates, Sound, Typed, TypeOK, Transparent, Single
<1>1. UNCHANGED <<unreliable, result>>
  BY DEF Miss, Choose, WriteBack, Fill, Claim
<1>2. op'[w].kind = op[w].kind /\ op'[w].blk = op[w].blk /\ op'[w].val = op[w].val
  <2>1. CASE Choose(w)
    BY <1>0, <2>1, Choosing
  <2>2. CASE Miss(w) \/ WriteBack(w) \/ Fill(w) \/ Claim(w)
    BY <1>0, <2>2 DEF Miss, WriteBack, Fill, Claim, Goto, Typed, TypeOK, OpType
  <2> QED BY <2>1, <2>2
<1>3. Pending' = Pending
  BY <1>2, Waiting
<1>4. ASSUME NEW b \in Blocks \ unreliable, NEW v \in Values, Holds(b, v)
      PROVE  Holds(b, v)'
  <2>1. CASE Miss(w) \/ Choose(w)
    <3>1. op[w].pc # "claim" /\ op'[w].pc # "claim" /\ UNCHANGED <<slot, disk>>
      BY <1>0, <2>1, Choosing DEF Miss, At, Goto, Typed, TypeOK, OpType
    <3> QED BY <1>0, <1>4, <3>1, WrittenBack DEF OneWorker, BeingClaimed, At
  <2>2. CASE WriteBack(w)
    <3>1. op[w].pc = "writeback" /\ op'[w].pc = "fill"
      BY <1>0, <2>2 DEF WriteBack, At, Goto, Typed, TypeOK, OpType
    <3>2. block_write(slot[i].blk, slot[i].data)
      BY <1>0, <2>2, <3>1 DEF WriteBack, Sync, Excg
    <3>3. \A j \in Slots : slot'[j].blk = slot[j].blk /\ slot'[j].data = slot[j].data
      BY <1>0, <2>2 DEF WriteBack, Typed, TypeOK, SlotType
    <3> QED BY <1>0, <1>4, <3>1, <3>2, <3>3, WrittenBack DEF OneWorker, BeingClaimed, At
  <2>3. CASE Fill(w)
    <3>1. op[w].pc = "fill" /\ op'[w].pc = "claim" /\ op'[w].slot = i /\ UNCHANGED disk
      BY <1>0, <2>3 DEF Fill, At, Goto, Typed, TypeOK, OpType
    <3>2. slot' = [slot EXCEPT ![i] = [slot[i] EXCEPT !.data = disk[op[w].blk]]]
      BY <2>3 DEF Fill
    <3>3. slot'[i].blk = slot[i].blk /\ \A j \in Slots \ {i} : slot'[j] = slot[j]
      BY <1>0, <3>2 DEF Typed, TypeOK, SlotType
    <3>4. \A j \in Slots : ~ BeingClaimed(j) /\ (BeingClaimed(j)' <=> j = i)
      BY <3>1 DEF OneWorker, BeingClaimed, At
    <3>5. CASE slot[i].blk = b
      <4>1. slot[i].V = 1 /\ slot[i].M = 0
        BY <1>0, <3>1, <3>5, SetField, CacheAssumption DEF Transparent, Forsaken, Sync, Excg
      <4>2. slot[i].data = disk[b]
        BY <1>0, <3>1, <3>5, <4>1, CleanSlot DEF Sync
      <4>3. \A j \in Slots : slot[j].blk = b => j = i
        BY <1>0, <3>5, CacheAssumption DEF UniqueSlot
      <4>4. disk[b] = v
        BY <1>4, <3>4, <4>2, <4>3 DEF Holds
      <4> QED BY <3>1, <3>3, <3>4, <4>3, <4>4 DEF Holds
    <3>6. CASE slot[i].blk # b
      BY <1>4, <3>1, <3>3, <3>4, <3>6 DEF Holds
    <3> QED BY <3>5, <3>6
  <2>4. CASE Claim(w)
    <3> DEFINE c == op[w].blk
    <3>1. op[w].pc = "claim" /\ op'[w].pc = "again" /\ UNCHANGED disk
      BY <1>0, <2>4 DEF Claim, At, Goto, Typed, TypeOK, OpType
    <3>2. slot' = [slot EXCEPT ![i] = [[[slot[i] EXCEPT !.R = 1] EXCEPT !.blk = c]
                                         EXCEPT !.V = IF op[w].old = NoBlock THEN 1 ELSE slot[i].V]]
      BY <1>0, <2>4 DEF Claim, Typed, TypeOK, SlotType
    <3>3. slot'[i].blk = c /\ slot'[i].data = slot[i].data /\ \A j \in Slots \ {i} : slot'[j] = slot[j]
      BY <1>0, <3>2 DEF Typed, TypeOK, SlotType
    <3>4. \A j \in Slots : (BeingClaimed(j) <=> j = i) /\ ~ BeingClaimed(j)'
      BY <3>1 DEF OneWorker, BeingClaimed, At
    <3>5. slot[i].data = disk[c] /\ \A j \in Slots : slot[j].blk # c
      BY <1>0, <3>1 DEF Sync, Excg, Apart
    <3>6. CASE b = c
      BY <1>0, <1>4, <3>3, <3>4, <3>5, <3>6 DEF Holds
    <3>7. CASE b # c
      BY <1>0, <1>4, <3>1, <3>3, <3>4, <3>7 DEF Holds
    <3> QED BY <3>6, <3>7
  <2> QED BY <2>1, <2>2, <2>3, <2>4
<1> QED BY <1>1, <1>3, <1>4, Decaying

LEMMA AgerSteps ==
  ASSUME TwoStates, Transparent, AgerWaits, AgeTick \/ AgeWriteBack
  PROVE  Store!Next
<1> DEFINE i == age.slot
<1>0. /\ Typed /\ Sync /\ i \in Slots /\ \A j \in Slots : slot[j] \in SlotType
      /\ UNCHANGED op /\ \A j \in Slots : slot'[j].blk = slot[j].blk
  BY AgerKeepsBlks DEF TwoStates, Sound, Typed, TypeOK, AgeType, Transparent
<1>1. Quiet
  BY DEF AgerWaits, AgerMayRun, AgeTick, AgeWriteBack, Transparent, Sync, TakesTurns
<1>2. \A j \in Slots : ~ BeingClaimed(j) /\ ~ BeingClaimed(j)'
  BY <1>0, <1>1 DEF Quiet, BeingClaimed, At
<1>3. \A j \in Slots : slot'[j].data = slot[j].data
  BY <1>0 DEF AgeTick, AgeWriteBack, Typed, TypeOK, SlotType
<1>4. UNCHANGED disk \/ block_write(slot[i].blk, slot[i].data)
  BY <1>0 DEF AgeTick, AgeWriteBack, Sync, TakesTurns
<1>5. \A b \in Blocks : \A v \in Values : Holds(b, v) => Holds(b, v)'
  BY <1>0, <1>2, <1>3, <1>4, WrittenBack
<1>6. UNCHANGED <<unreliable, result>> /\ Pending' = Pending
  BY <1>0 DEF AgeTick, AgeWriteBack, Pending
<1> QED BY <1>5, <1>6, Decaying

(* The steps that BlockStore has too.                                       *)
LEMMA AskStep ==
  ASSUME OneWorker, TwoStates, Transparent, NEW w \in Workers, Start(w)
  PROVE  Store!Next
<1>0. op[w] = IdleOp /\ Typed /\ op[w].pc = "idle"
  BY DEF Start, At, Transparent, Locals, Matches, Single
<1>1. PICK k \in Kinds, b \in Blocks, c \in Blocks, v \in Values :
        op' = [op EXCEPT ![w] =
            [pc |-> CASE k = "free" -> "erase"
                      [] k = "swap" -> "flush"
                      [] OTHER -> "lookup",
             kind |-> k, blk |-> b, to |-> c, val |-> v,
             slot |-> 0, old |-> NoBlock]]
  BY DEF Start
<1>2. [kind |-> k, blk |-> b, val |-> v] \in Store!Request
  BY CacheAssumption DEF Store!Request
<1>3. Pending' = [Pending EXCEPT ![w] = [kind |-> k, blk |-> b, val |-> v]]
  BY <1>0, <1>1 DEF Typed, TypeOK, Pending
<1>4. Pending[w] = Store!NoRequest
  BY <1>0 DEF Pending, IdleOp, Store!NoRequest
<1>5. op'[w].pc # "claim"
  BY <1>0, <1>1 DEF Typed, TypeOK
<1>6. \A b2 \in Blocks : \A v2 \in Values : Holds(b2, v2) => Holds(b2, v2)'
  BY <1>0, <1>5, SlotFacts, WrittenBack DEF Start, OneWorker, BeingClaimed, At
<1>7. Content' = Content
  BY <1>6, SameContent, ContentTyped
<1>8. Store!Ask(w)
  BY <1>2, <1>3, <1>4, <1>7 DEF Store!Ask, Start, Pending
<1> QED BY <1>8 DEF Store!Next

LEMMA AccessStep ==
  ASSUME OneWorker, TwoStates, Transparent, NEW w \in Workers, NEW i \in Slots, slot[i].blk = op[w].blk,
         op[w].pc \in {"lookup", "again"}, Access(w, i)
  PROVE  Store!Next
<1>a. Typed /\ UniqueSlot /\ op[w] \in OpType /\ slot[i] \in SlotType /\ Matches(op[w])
  BY DEF Transparent, Single, Locals, Typed, TypeOK
<1>b. PICK b \in Blocks : b = op[w].blk
  BY <1>a DEF Typed, Busy
<1>c. PICK u \in Values : u = op[w].val
  BY <1>a, SetLocal
<1>0. /\ Typed /\ slot[i] \in SlotType
      /\ slot[i].data \in Values /\ op[w].kind \in {"read", "write"} /\ Store!Answer(w)
      /\ \A j \in Slots : slot[j].blk = b => j = i
  <2>1. Store!Answer(w)
    BY <1>a, Answering DEF Access
  <2>2. \A j \in Slots : slot[j].blk = b => j = i
    BY <1>a, <1>b, CacheAssumption DEF UniqueSlot
  <2>3. slot[i].data \in Values
    BY <1>a, SetField
  <2> QED BY <1>a, <2>1, <2>2, <2>3 DEF Matches
<1>1. op'[w].pc = "idle"
  BY <1>0 DEF Access, Finish, IdleOp, Typed, TypeOK
<1>2. \A j \in Slots : ~ BeingClaimed(j) /\ ~ BeingClaimed(j)'
  BY <1>1 DEF OneWorker, BeingClaimed, At
<1>3. Pending[w].kind = op[w].kind /\ Pending[w].blk = b /\ Pending[w].val = u
  BY <1>b, <1>c DEF Pending
<1>4. CASE op[w].kind = "write"
  <2>1. slot' = [slot EXCEPT ![i] = [[[slot[i] EXCEPT !.data = u] EXCEPT !.R = 1] EXCEPT !.M = 1]]
    BY <1>c, <1>4 DEF Access
  <2>2. slot'[i].blk = b /\ slot'[i].data = u /\ \A j \in Slots \ {i} : slot'[j] = slot[j]
    BY <1>0, <1>b, <2>1 DEF Typed, TypeOK, SlotType
  <2>3. Holds(b, u)'
    BY <1>2, <2>2 DEF Holds
  <2>4. Content'[b] = u
    BY <1>0, <2>3, ContentNext DEF TwoStates, Sound, ContentIsHeld
  <2>5. ASSUME NEW c \in Blocks \ {b}, NEW v \in Values, Holds(c, v) PROVE Holds(c, v)'
    <3>1. UNCHANGED disk
      BY DEF Access
    <3> QED BY <1>2, <1>b, <2>2, <2>5, <3>1 DEF Holds
  <2>6. \A c \in Blocks \ {b} : Content'[c] = Content[c]
    BY <2>5, SameContent
  <2>7. Content' = [Content EXCEPT ![b] = u]
    BY <1>0, <2>4, <2>6, ContentTyped
  <2>8. Store!Write(w)
    BY <1>0, <1>3, <1>4, <2>7 DEF Access, Store!Write, Store!Asked, Pending
  <2> QED BY <2>8 DEF Store!Next
<1>5. CASE op[w].kind = "read"
  <2>1. UNCHANGED <<slot, disk, unreliable>> /\ result' = [result EXCEPT ![w] = slot[i].data]
    BY <1>5 DEF Access
  <2>2. \A c \in Blocks : \A v \in Values : Holds(c, v) => Holds(c, v)'
    BY <1>0, <1>2, <2>1, WrittenBack
  <2>3. Content' = Content
    BY <2>2, SameContent, ContentTyped
  <2>4. Content[b] = slot[i].data
    BY <1>0, <1>2, <1>b, ContentNow DEF Holds, TwoStates, Sound, ContentIsHeld
  <2>5. Store!Read(w)
    BY <1>0, <1>3, <1>5, <2>1, <2>3, <2>4 DEF Store!Read, Store!Asked, Pending
  <2> QED BY <2>5 DEF Store!Next
<1> QED BY <1>0, <1>4, <1>5

LEMMA EraseStep ==
  ASSUME OneWorker, TwoStates, Transparent, NEW w \in Workers, Erase(w)
  PROVE  Store!Next
<1>0. Typed /\ op[w] \in OpType /\ op[w].blk \in Blocks /\ op[w].kind = "free"
  BY DEF Erase, At, Transparent, Single, Locals, Matches, Typed, TypeOK, Busy
<1>b. PICK b \in Blocks : b = op[w].blk
  BY <1>0
<1>1. op[w].pc = "erase" /\ op'[w].pc = "clean" /\ UNCHANGED <<slot, result>>
  BY <1>0 DEF Erase, At, Goto, Typed, TypeOK, OpType
<1>2. op'[w].kind = op[w].kind /\ op'[w].blk = op[w].blk /\ op'[w].val = op[w].val
  BY <1>0 DEF Erase, Goto, Typed, TypeOK, OpType
<1>3. Pending' = Pending
  BY <1>2, Waiting
<1>4. \A j \in Slots : ~ BeingClaimed(j) /\ ~ BeingClaimed(j)'
  BY <1>1 DEF OneWorker, BeingClaimed, At
<1>5. disk' = [disk EXCEPT ![b] = Zero]
  BY <1>b DEF Erase, block_write
<1>6. ASSUME NEW c \in Blocks \ {b}, NEW v \in Values, Holds(c, v) PROVE Holds(c, v)'
  BY <1>0, <1>1, <1>4, <1>5, <1>6 DEF Holds, Typed, TypeOK
<1>7. \A c \in Blocks \ {b} : Content'[c] = Content[c]
  BY <1>6, SameContent
<1>8. Pending[w].kind = "free" /\ Pending[w].blk = b
  BY <1>0, <1>b DEF Pending
<1>9. CASE Hits(b) = {}
  <2>1. Holds(b, Zero)'
    BY <1>0, <1>1, <1>5, <1>9 DEF Hits, Holds, Typed, TypeOK
  <2>2. Content'[b] = Zero
    BY <1>0, <2>1, ContentNext, CacheAssumption DEF TwoStates, Sound, ContentIsHeld
  <2>3. Content' = [Content EXCEPT ![b] = Zero]
    BY <1>0, <1>7, <2>2, ContentTyped
  <2>4. unreliable' = unreliable
    BY <1>b, <1>9 DEF Erase
  <2>5. Store!Erase(w)
    BY <1>1, <1>3, <1>8, <2>3, <2>4 DEF Store!Erase, Store!Asked, Pending
  <2> QED BY <2>5 DEF Store!Next
<1>10. CASE Hits(b) # {}
  <2>1. ASSUME NEW v \in Values, Holds(b, v) PROVE Holds(b, v)'
    BY <1>1, <1>4, <1>10, <2>1 DEF Hits, Holds
  <2>2. Content'[b] = Content[b]
    BY <1>0, <2>1, SameContent
  <2>3. Content' = Content
    BY <1>0, <1>7, <2>2, ContentTyped
  <2>4. unreliable' = unreliable \cup {b}
    BY <1>b, <1>10 DEF Erase
  <2>5. Store!Erase(w)
    BY <1>1, <1>3, <1>8, <2>3, <2>4 DEF Store!Erase, Store!Asked, Pending
  <2> QED BY <2>5 DEF Store!Next
<1> QED BY <1>9, <1>10

LEMMA DoneStep ==
  ASSUME OneWorker, TwoStates, Transparent, NEW w \in Workers, Clean(w) \/ Move(w)
  PROVE  Store!Next
<1>0. /\ Typed /\ op[w] \in OpType /\ op[w].kind \in {"free", "swap"} /\ Store!Answer(w)
      /\ \A j \in Slots : slot[j] \in SlotType
  BY Answering DEF Clean, Move, At, Transparent, Single, Locals, Matches, Typed, TypeOK
<1>1. op[w].pc # "claim" /\ op'[w].pc = "idle" /\ UNCHANGED <<unreliable, result>>
  BY <1>0 DEF Clean, Move, At, Finish, IdleOp, Typed, TypeOK
<1>2. \A j \in Slots : ~ BeingClaimed(j) /\ ~ BeingClaimed(j)'
  BY <1>1 DEF OneWorker, BeingClaimed, At
<1>3. ASSUME NEW b \in Blocks \ unreliable, NEW v \in Values, Holds(b, v) PROVE Holds(b, v)'
  <2>1. CASE Clean(w)
    <3>1. \A j \in Slots : slot'[j].blk = slot[j].blk /\ slot'[j].data = slot[j].data
      BY <1>0, <2>1 DEF Clean, SlotType
    <3> QED BY <1>0, <1>2, <1>3, <2>1, <3>1, SlotFacts, WrittenBack DEF Clean
  <2>2. CASE Move(w)
    <3>1. b # op[w].blk /\ b # op[w].to
      BY <1>3, <2>2 DEF Move, At, Transparent, Forsaken
    <3>2. disk'[b] = disk[b] /\ UNCHANGED slot
      BY <1>0, <2>2, <3>1 DEF Move, Typed, TypeOK
    <3> QED BY <1>2, <1>3, <3>2 DEF Holds
  <2> QED BY <2>1, <2>2
<1>4. Store!Decays
  BY <1>3, SameContent, ContentTyped DEF Store!Decays
<1>5. Store!Done(w)
  BY <1>0, <1>1, <1>4 DEF Store!Done, Store!Asked
<1> QED BY <1>5 DEF Store!Next

LEMMA FlushStep ==
  ASSUME OneWorker, TwoStates, Transparent, NEW w \in Workers, Flush(w)
  PROVE  Store!Next
<1> DEFINE i == op[w].slot
<1>0. /\ Typed /\ op[w] \in OpType /\ op[w].kind = "swap" /\ op[w].pc = "flush" /\ i \in Slots
      /\ op[w].blk \in Blocks /\ op[w].to \in Blocks /\ \A j \in Slots : slot[j] \in SlotType
  BY SetLocal DEF Flush, At, Transparent, Single, Locals, Matches, Typed, TypeOK, Busy
<1>1. /\ op'[w].kind = op[w].kind /\ op'[w].blk = op[w].blk /\ op'[w].val = op[w].val
      /\ op'[w].pc # "claim" /\ UNCHANGED result
  BY <1>0 DEF Flush, Typed, TypeOK, OpType
<1>2. slot' = [slot EXCEPT ![i] = [[slot[i] EXCEPT !.M = 0] EXCEPT !.V = 0]]
  BY DEF Flush
<1>3. \A j \in Slots : slot'[j].blk = slot[j].blk /\ slot'[j].data = slot[j].data
  BY <1>0, <1>2 DEF Typed, TypeOK, SlotType
<1>4. \A j \in Slots : ~ BeingClaimed(j) /\ ~ BeingClaimed(j)'
  BY <1>0, <1>1 DEF OneWorker, BeingClaimed, At
<1>5. \A c \in Blocks : \A v \in Values : Holds(c, v) => Holds(c, v)'
  BY <1>0, <1>3, <1>4, WrittenBack DEF Flush
<1>6. Content' = Content
  BY <1>5, SameContent, ContentTyped
<1>7. Pending' = Pending
  BY <1>1, Waiting
<1>8. PICK S \in SUBSET Blocks : unreliable' = unreliable \cup S
  <2> DEFINE S == ({slot[i].blk} \ {NoBlock}) \cup (IF i + 1 \notin Slots THEN {op[w].blk, op[w].to} ELSE {})
  <2>1. S \subseteq Blocks
    BY <1>0, SetField
  <2>2. unreliable' = unreliable \cup S
    BY DEF Flush
  <2> QED BY <2>1, <2>2
<1>9. Store!Forsake(w)
  BY <1>0, <1>1, <1>6, <1>7, <1>8 DEF Store!Forsake, Store!Asked, Pending
<1> QED BY <1>9 DEF Store!Next

(* The cache is a transparent store: whatever is evicted, aged or written   *)
(* back, a read returns the last value written to the block, for every      *)
(* block that was not freed or moved while cached, if one thread works in   *)
(* the cache and the ageing thread keeps out of its operations              *)
(* (fs.c:1438-1545).                                                        *)
THEOREM Transparency == ASSUME OneWorker, AgerWaits PROVE Spec => Implements
<1>1. Init => Store!Init
  <2> SUFFICES ASSUME Init PROVE Store!Init
    OBVIOUS
  <2>1. \A b \in Blocks : Hits(b) = {}
    BY CacheAssumption DEF Init, Hits
  <2>2. Content = [b \in Blocks |-> Zero]
    BY <2>1 DEF Content, Init
  <2>3. Pending = [w \in Workers |-> Store!NoRequest]
    BY DEF Init, Pending, IdleOp, Store!NoRequest
  <2> QED BY <2>2, <2>3 DEF Store!Init, Pending, Init
<1>2. Transparent /\ Transparent' /\ [Next]_vars => [Store!Next]_Store!vars
  <2> SUFFICES ASSUME Transparent, Transparent', [Next]_vars PROVE [Store!Next]_Store!vars
    OBVIOUS
  <2>0. TwoStates
    BY DEF Transparent, Single, TwoStates, Sound
  <2>1. CASE UNCHANGED vars
    BY <2>1 DEF vars, Store!vars, Content, Hits, BeingClaimed, At
  <2>2. ASSUME NEW w \in Workers, WorkerStep(w) PROVE Store!Next
    <3>1. ASSUME NEW i \in First(Hits(op[w].blk)), op[w].pc \in {"lookup", "again"}, Access(w, i) PROVE Store!Next
      BY <2>0, <3>1, Found, AccessStep
    <3>2. CASE Hit(w) \/ Again(w)
      BY <3>1, <3>2 DEF Hit, Again, At
    <3>3. ~ AgainMiss(w)
      BY DEF AgainMiss, At, Hits, Transparent, Forsaken
    <3> QED BY <2>0, <2>2, <3>2, <3>3, AskStep, HiddenSteps, EraseStep, DoneStep, FlushStep DEF WorkerStep
  <2>3. CASE AgeTick \/ AgeWriteBack
    BY <2>0, <2>3, AgerSteps
  <2> QED BY <2>1, <2>2, <2>3 DEF Next
<1> QED BY <1>1, <1>2, TransparentInvariant, PTL DEF Spec, Implements, Store!Spec
=============================================================================
