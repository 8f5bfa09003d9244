----------------------------- MODULE BlockCache -----------------------------
(***************************************************************************)
(* The write-back cache of disk blocks in the server (snfs_server/fs.c,    *)
(* "CACHE", over snfs_server/block.c).                                     *)
(*                                                                         *)
(* Workers are the consumer threads inside a handler.  They call           *)
(* readFrom_cache and writeIn_cache, give blocks back (fs_remove_aux) and  *)
(* move blocks on the disk (fs_defrag); no lock protects the cache.  The   *)
(* ager is thread_cache_function: it counts passes over the slots, clears  *)
(* R and writes slots back.  block_read and block_write may sleep          *)
(* (io_delay), so a disk transfer is a step of its own; one step stands    *)
(* for the transfers of a swap.                                            *)
(*                                                                         *)
(* A block holds a value; Zero is a block of zero bytes.  A slot keeps its *)
(* block number and its bytes when it is invalidated (V = 0), and neither  *)
(* cache_read nor cache_write looks at V.                                  *)
(***************************************************************************)
EXTENDS Integers, FiniteSets

CONSTANTS
  Workers,        \* threads inside a handler
  Blocks,         \* the data blocks of the disk
  NoBlock,        \* block_number -1: block_read and block_write refuse it
  Values, Zero,   \* contents of a block
  Unset,          \* "not written since the block was given back"
  CacheSize,      \* CACHE_SIZE
  AgeR, AgeWB, AgeReset,  \* 4, 10 and 20 in thread_cache_function
  AgerPreempts,   \* whether the ager may run inside an operation
  Kinds           \* the operations the workers perform

ASSUME CacheAssumption ==
  /\ NoBlock \notin Blocks
  /\ Zero \in Values /\ Unset \notin Values
  /\ CacheSize \in Nat \ {0}
  /\ AgeR \in Nat \ {0} /\ AgeWB \in Nat \ {0} /\ AgeReset \in Nat \ {0}
  /\ AgerPreempts \in BOOLEAN
  /\ Kinds \subseteq {"read", "write", "free", "swap"}

Slots == 0 .. CacheSize - 1

VARIABLES
  disk,         \* blocks[] of block.c
  slot,         \* cache[]
  op,           \* what each worker is doing, and its locals
  age,          \* position of the ager: slot, control point, locals
  stored,       \* history: the last value written to each block
  unreliable,   \* history: blocks freed or moved while cached
  result        \* history: the value each worker's last read returned

vars == <<disk, slot, op, age, stored, unreliable, result>>

SlotType ==
  [V : {0, 1}, R : {0, 1}, M : {0, 1}, blk : Blocks \cup {NoBlock},
   counter : 0 .. AgeReset - 1, data : Values]

Points == {"idle", "lookup", "choose", "writeback", "fill", "claim", "again",
           "erase", "clean", "flush", "move"}
OpType ==
  [pc : Points, kind : {"none", "read", "write", "free", "swap"},
   blk : Blocks \cup {NoBlock}, to : Blocks \cup {NoBlock}, val : Values, slot : Slots, old : Blocks \cup {NoBlock}]
AgeType == [pc : {"tick", "writeback"}, slot : Slots, old : Blocks \cup {NoBlock}]

TypeOK ==
  /\ disk \in [Blocks -> Values]
  /\ slot \in [Slots -> SlotType]
  /\ op \in [Workers -> OpType]
  /\ age \in AgeType
  /\ stored \in [Blocks -> Values \cup {Unset}]
  /\ unreliable \subseteq Blocks
  /\ result \in [Workers -> Values]

\* A worker outside the cache.
IdleOp == [pc |-> "idle", kind |-> "none", blk |-> NoBlock, to |-> NoBlock,
           val |-> Zero, slot |-> 0, old |-> NoBlock]

\* fs_format zeroes the disk, then fs_new_cache makes an empty cache.
Init ==
  /\ disk = [b \in Blocks |-> Zero]
  /\ slot = [i \in Slots |-> [V |-> 0, R |-> 0, M |-> 0, blk |-> NoBlock,
                              counter |-> 0, data |-> Zero]]
  /\ op = [w \in Workers |-> IdleOp]
  /\ age = [pc |-> "tick", slot |-> 0, old |-> NoBlock]
  /\ stored = [b \in Blocks |-> Zero]
  /\ unreliable = {}
  /\ result = [w \in Workers |-> Zero]

-----------------------------------------------------------------------------
(* The disk and the scans over the cache.                                   *)

\* block_write: refused when the block number is out of range.
block_write(b, v) ==
  disk' = IF b \in Blocks THEN [disk EXCEPT ![b] = v] ELSE disk

\* The first slot of a set, as a loop from slot 0 finds it.
First(S) == {i \in S : \A j \in S : i <= j}

\* Fault: only valid slots answer.
Hits_Valid(b) == {i \in Slots : slot[i].blk = b /\ slot[i].V = 1}

\* Slots cache_read and cache_write take for a hit: V is not tested.
Hits(b) == {i \in Slots : slot[i].blk = b}

\* The slots cache_excg may replace: the first nonempty class, in its order.
Candidates ==
  LET Invalid   == {i \in Slots : slot[i].V = 0}
      IdleClean == {i \in Slots : slot[i].R = 0 /\ slot[i].M = 0}
      Unused    == {i \in Slots : slot[i].R = 0}
      Clean     == {i \in Slots : slot[i].M = 0}
  IN  IF Invalid # {} THEN Invalid
      ELSE IF IdleClean # {} THEN IdleClean
      ELSE IF Unused # {} THEN Unused
      ELSE IF Clean # {} THEN Clean
      ELSE {0}

Quiet == \A w \in Workers : op[w].pc = "idle"
At(w, point) == op[w].pc = point
Goto(w, point) == op' = [op EXCEPT ![w].pc = point]
Finish(w) == op' = [op EXCEPT ![w] = IdleOp]

-----------------------------------------------------------------------------
(* readFrom_cache and writeIn_cache.                                        *)

\* A handler calls one of the operations.
Start(w) ==
  /\ At(w, "idle")
  /\ AgerPreempts \/ age.pc = "tick"
  /\ \E k \in Kinds, b \in Blocks, c \in Blocks, v \in Values :
       /\ k # "swap" => c = b
       /\ k = "swap" => c # b
       /\ k # "write" => v = Zero
       /\ op' = [op EXCEPT ![w] =
                  [pc |-> CASE k = "free" -> "erase"
                            [] k = "swap" -> "flush"
                            [] OTHER -> "lookup",
                   kind |-> k, blk |-> b, to |-> c, val |-> v,
                   slot |-> 0, old |-> NoBlock]]
  /\ UNCHANGED <<disk, slot, age, stored, unreliable, result>>

\* Fault: a write does not mark the slot modified.
Access_NoMark(w, i) ==
  LET o == op[w]
  IN  /\ Finish(w)
      /\ IF o.kind = "write"
         THEN /\ slot' = [slot EXCEPT ![i].data = o.val, ![i].R = 1]
              /\ stored' = [stored EXCEPT ![o.blk] = o.val]
              /\ UNCHANGED result
         ELSE /\ result' = [result EXCEPT ![w] = slot[i].data]
              /\ UNCHANGED <<slot, stored>>
      /\ UNCHANGED <<disk, age, unreliable>>

\* The slot is hit: cache_read copies it out, cache_write copies into it.
Access(w, i) ==
  LET o == op[w]
  IN  /\ Finish(w)
      /\ IF o.kind = "write"
         THEN /\ slot' = [slot EXCEPT ![i].data = o.val, ![i].R = 1, ![i].M = 1]
              /\ stored' = [stored EXCEPT ![o.blk] = o.val]
              /\ UNCHANGED result
         ELSE /\ result' = [result EXCEPT ![w] = slot[i].data]
              /\ UNCHANGED <<slot, stored>>
      /\ UNCHANGED <<disk, age, unreliable>>

Hit(w) ==
  /\ At(w, "lookup")
  /\ \E i \in First(Hits(op[w].blk)) : Access(w, i)

Miss(w) ==
  /\ At(w, "lookup")
  /\ Hits(op[w].blk) = {}
  /\ Goto(w, "choose")
  /\ UNCHANGED <<disk, slot, age, stored, unreliable, result>>

\* cache_excg: an invalid slot is filled at once, any other is written back
\* first, under the block number it has now.
Choose(w) ==
  /\ At(w, "choose")
  /\ \E i \in First(Candidates) :
       op' = [op EXCEPT
               ![w].slot = i,
               ![w].old = IF slot[i].V = 0 THEN NoBlock ELSE slot[i].blk,
               ![w].pc = IF slot[i].V = 0 THEN "fill" ELSE "writeback"]
  /\ UNCHANGED <<disk, slot, age, stored, unreliable, result>>

\* Fault: the victim is dropped.
WriteBack_Skip(w) ==
  /\ At(w, "writeback")
  /\ slot' = [slot EXCEPT ![op[w].slot].M = 0]
  /\ Goto(w, "fill")
  /\ UNCHANGED <<disk, age, stored, unreliable, result>>

\* fs_write_back of the victim: the bytes are those at the time of the transfer.
WriteBack(w) ==
  LET i == op[w].slot
  IN  /\ At(w, "writeback")
      /\ block_write(op[w].old, slot[i].data)
      /\ slot' = [slot EXCEPT ![i].M = 0]
      /\ Goto(w, "fill")
      /\ UNCHANGED <<age, stored, unreliable, result>>

\* block_read into the slot.
Fill(w) ==
  LET i == op[w].slot
  IN  /\ At(w, "fill")
      /\ slot' = [slot EXCEPT ![i].data = disk[op[w].blk]]
      /\ Goto(w, "claim")
      /\ UNCHANGED <<disk, age, stored, unreliable, result>>

\* R, V and block_number of the filled slot.
Claim(w) ==
  LET i == op[w].slot
  IN  /\ At(w, "claim")
      /\ slot' = [slot EXCEPT
                   ![i].R = 1, ![i].blk = op[w].blk,
                   ![i].V = IF op[w].old = NoBlock THEN 1 ELSE @]
      /\ Goto(w, "again")
      /\ UNCHANGED <<disk, age, stored, unreliable, result>>

\* The second cache_read or cache_write hits the slot just filled ...
Again(w) ==
  /\ At(w, "again")
  /\ \E i \in First(Hits(op[w].blk)) : Access(w, i)

\* Fault: the operation starts over.
AgainMiss_Retry(w) ==
  /\ At(w, "again")
  /\ Hits(op[w].blk) = {}
  /\ Goto(w, "lookup")
  /\ UNCHANGED <<disk, slot, age, stored, unreliable, result>>

\* ... or finds it replaced by another thread: an error is printed, a write is
\* dropped and a read returns whatever its buffer held.
AgainMiss(w) ==
  /\ At(w, "again")
  /\ Hits(op[w].blk) = {}
  /\ IF op[w].kind = "write"
     THEN /\ stored' = [stored EXCEPT ![op[w].blk] = op[w].val]
          /\ UNCHANGED result
     ELSE /\ \E v \in Values : result' = [result EXCEPT ![w] = v]
          /\ UNCHANGED stored
  /\ Finish(w)
  /\ UNCHANGED <<disk, slot, age, unreliable>>

-----------------------------------------------------------------------------
(* Blocks given back, and blocks moved.                                     *)

\* fs_remove_aux: block_write of a null block, behind the cache.
Erase(w) ==
  LET b == op[w].blk
  IN  /\ At(w, "erase")
      /\ block_write(b, Zero)
      /\ Goto(w, "clean")
      /\ unreliable' = IF Hits(b) = {} THEN unreliable ELSE unreliable \cup {b}
      /\ UNCHANGED <<slot, age, stored, result>>

\* cache_clean, after the null block was written to the disk.
Clean(w) ==
  LET b == op[w].blk
  IN  /\ At(w, "clean")
      /\ slot' = [i \in Slots |-> IF i \in Hits(b) THEN [slot[i] EXCEPT !.V = 0]
                                                   ELSE slot[i]]
      /\ stored' = [stored EXCEPT ![b] = Unset]
      /\ Finish(w)
      /\ UNCHANGED <<disk, age, unreliable, result>>

\* cache_flush of fs_defrag, one slot after the other; then swap may begin.
Flush(w) ==
  LET i == op[w].slot
      last == i + 1 \notin Slots
  IN  /\ At(w, "flush")
      /\ block_write(slot[i].blk, slot[i].data)
      /\ slot' = [slot EXCEPT ![i].M = 0, ![i].V = 0]
      /\ op' = IF last THEN [op EXCEPT ![w].pc = "move"]
                       ELSE [op EXCEPT ![w].slot = i + 1]
      /\ unreliable' = unreliable \cup ({slot[i].blk} \ {NoBlock})
                         \cup (IF last THEN {op[w].blk, op[w].to} ELSE {})
      /\ UNCHANGED <<age, stored, result>>

\* swap: two blocks change places on the disk, behind the cache; if the second
\* is free the first is zeroed and free afterwards.
Move(w) ==
  LET b == op[w].blk
      c == op[w].to
  IN  /\ At(w, "move")
      /\ \/ /\ disk' = [disk EXCEPT ![b] = disk[c], ![c] = disk[b]]
            /\ stored' = [stored EXCEPT ![b] = stored[c], ![c] = stored[b]]
         \/ /\ disk' = [disk EXCEPT ![b] = Zero, ![c] = disk[b]]
            /\ stored' = [stored EXCEPT ![b] = Unset, ![c] = stored[b]]
      /\ Finish(w)
      /\ UNCHANGED <<slot, age, unreliable, result>>

-----------------------------------------------------------------------------
(* thread_cache_function.                                                   *)

\* Fault: the counter never starts over.
Reset_Never(n) == n

\* counter == 20 starts over.
Reset(n) == IF n = AgeReset THEN 0 ELSE n

NextSlot(i) == IF i + 1 \in Slots THEN i + 1 ELSE 0

AgerMayRun == AgerPreempts \/ Quiet

\* counter++; every AgeR-th pass clears R, every AgeWB-th writes the slot back.
AgeTick ==
  LET i == age.slot
      n == slot[i].counter + 1
      writes == n % AgeWB = 0
  IN  /\ age.pc = "tick"
      /\ AgerMayRun
      /\ slot' = [slot EXCEPT ![i].counter = Reset(n),
                              ![i].R = IF n % AgeR = 0 THEN 0 ELSE @]
      /\ age' = IF writes THEN [age EXCEPT !.pc = "writeback", !.old = slot[i].blk]
                          ELSE [age EXCEPT !.slot = NextSlot(i)]
      /\ UNCHANGED <<disk, op, stored, unreliable, result>>

\* fs_write_back: the transfer, then M = 0.
AgeWriteBack ==
  LET i == age.slot
  IN  /\ age.pc = "writeback"
      /\ block_write(age.old, slot[i].data)
      /\ slot' = [slot EXCEPT ![i].M = 0]
      /\ age' = [pc |-> "tick", slot |-> NextSlot(i), old |-> NoBlock]
      /\ UNCHANGED <<op, stored, unreliable, result>>

WorkerStep(w) ==
  \/ Start(w) \/ Hit(w) \/ Miss(w) \/ Choose(w) \/ WriteBack(w) \/ Fill(w)
  \/ Claim(w) \/ Again(w) \/ AgainMiss(w) \/ Erase(w) \/ Clean(w) \/ Flush(w) \/ Move(w)

Next ==
  \/ \E w \in Workers : WorkerStep(w)
  \/ AgeTick
  \/ AgeWriteBack

Spec == Init /\ [][Next]_vars

\* Every operation is a bounded sequence of steps that waits for nobody.
FairSpec == Spec /\ \A w \in Workers : WF_vars(WorkerStep(w) /\ ~ At(w, "idle"))

-----------------------------------------------------------------------------
(* Properties.                                                              *)

\* The slot that a worker has filled and not yet numbered.
BeingClaimed(i) == \E w \in Workers : At(w, "claim") /\ op[w].slot = i

\* What a reader of block b gets: the slot that has its number, or the disk.
Content ==
  [b \in Blocks |->
    IF \E i \in Hits(b) : ~ BeingClaimed(i)
    THEN slot[CHOOSE i \in Hits(b) : ~ BeingClaimed(i)].data
    ELSE disk[b]]

(* A block is never in two slots, whatever was freed, flushed or aged: the  *)
(* scans of cache_read and cache_write ignore V, and so does the test that  *)
(* leads to cache_excg (fs.c:1482-1520).  One thread at a time.             *)
UniqueSlot ==
  \A i, j \in Slots : slot[i].blk = slot[j].blk /\ slot[i].blk # NoBlock => i = j

(* A valid slot that is not marked modified has the bytes of the disk, so   *)
(* that replacing it without a transfer would lose nothing, and M is never  *)
(* cleared too early (fs.c:1449-1479, 1534-1538).                           *)
CleanMatchesDisk ==
  \A i \in Slots :
    /\ slot[i].V = 1 /\ slot[i].M = 0 /\ ~ BeingClaimed(i)
    /\ ~ \E w \in Workers : At(w, "clean") /\ op[w].blk = slot[i].blk
    => slot[i].data = disk[slot[i].blk]

(* The cache is a transparent store: whatever is evicted, aged or written   *)
(* back, a read returns the last value written to the block, for every      *)
(* block that was not freed or moved while cached (fs.c:1438-1545).         *)
Store == INSTANCE BlockStore WITH
  content <- Content,
  pending <- [w \in Workers |-> [kind |-> op[w].kind, blk |-> op[w].blk, val |-> op[w].val]]
Implements == Store!Spec

(* fs.h:211, "Writes the block with block_number in the cache": the value   *)
(* last written to a block is what the cache or the disk has of it.         *)
WriteIsKept ==
  Quiet /\ age.pc = "tick" =>
    \A b \in Blocks : stored[b] # Unset => Content[b] = stored[b]

(* An operation ends even if other threads keep evicting its block between  *)
(* the fill and the second scan: the miss is reported, not retried          *)
(* (fs.c:1506-1520).                                                        *)
EveryOperationEnds == \A w \in Workers : ~ At(w, "idle") ~> At(w, "idle")
=============================================================================
