----------------------------- MODULE BlockStore -----------------------------
(***************************************************************************)
(* What the block cache of the server promises: a store of blocks in which *)
(* a read returns the last value written, and only a write changes a       *)
(* block.  Once a block has been given back while cached, or moved         *)
(* underneath the cache (`unreliable'), nothing is promised of it any      *)
(* more.  BlockCache with one worker implements this.                      *)
(***************************************************************************)
EXTENDS Integers

CONSTANTS Workers, Blocks, NoBlock, Values, Zero

VARIABLES
  content,     \* the value of each block
  unreliable,  \* the blocks of which nothing is promised
  pending,     \* what each worker has asked for
  result       \* what each worker's last read returned

vars == <<content, unreliable, pending, result>>

Request ==
  [kind : {"read", "write", "free", "swap"}, blk : Blocks, val : Values]
NoRequest == [kind |-> "none", blk |-> NoBlock, val |-> Zero]

Asked(w, kind) == pending[w].kind = kind
Answer(w) == pending' = [pending EXCEPT ![w] = NoRequest]

Init ==
  /\ content = [b \in Blocks |-> Zero]
  /\ unreliable = {}
  /\ pending = [w \in Workers |-> NoRequest]
  /\ result = [w \in Workers |-> Zero]

Ask(w) ==
  /\ pending[w] = NoRequest
  /\ \E r \in Request : pending' = [pending EXCEPT ![w] = r]
  /\ UNCHANGED <<content, unreliable, result>>

Write(w) ==
  /\ Asked(w, "write")
  /\ content' = [content EXCEPT ![pending[w].blk] = pending[w].val]
  /\ Answer(w)
  /\ UNCHANGED <<unreliable, result>>

\* The content of the block, or anything of an unreliable block.
Read(w) ==
  LET b == pending[w].blk
  IN  /\ Asked(w, "read")
      /\ \E v \in Values :
           /\ b \notin unreliable => v = content[b]
           /\ result' = [result EXCEPT ![w] = v]
      /\ Answer(w)
      /\ UNCHANGED <<content, unreliable>>

\* A block that is given back is zeroed, or becomes unreliable.
Erase(w) ==
  LET b == pending[w].blk
  IN  /\ Asked(w, "free")
      /\ \/ content' = [content EXCEPT ![b] = Zero] /\ unreliable' = unreliable
         \/ content' = content /\ unreliable' = unreliable \cup {b}
      /\ UNCHANGED <<pending, result>>

\* Only the defragmenter makes other blocks unreliable.
Forsake(w) ==
  /\ Asked(w, "swap")
  /\ \E S \in SUBSET Blocks : unreliable' = unreliable \cup S
  /\ UNCHANGED <<content, pending, result>>

\* The content of unreliable blocks changes in any way, at any time.
Decays ==
  /\ content' \in [Blocks -> Values]
  /\ \A b \in Blocks \ unreliable : content'[b] = content[b]

Decay == Decays /\ UNCHANGED <<unreliable, pending, result>>

Done(w) ==
  /\ Asked(w, "free") \/ Asked(w, "swap")
  /\ Decays
  /\ Answer(w)
  /\ UNCHANGED <<unreliable, result>>

Next ==
  \/ \E w \in Workers :
       Ask(w) \/ Write(w) \/ Read(w) \/ Erase(w) \/ Forsake(w) \/ Done(w)
  \/ Decay

Spec == Init /\ [][Next]_vars
=============================================================================
