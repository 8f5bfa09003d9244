------------------------------ MODULE RunQueue ------------------------------
(***************************************************************************)
(* What the fair scheduler asks of its run queue: the runnable threads in   *)
(* the order of their virtual run times, the thread that runs outside of    *)
(* it.  A thread is put before those with the same virtual run time, and    *)
(* the first one is taken.  RunTree implements it, FairThreads uses it.     *)
(***************************************************************************)
EXTENDS ThreadQueues, SequencesExt

CONSTANTS Thread, Key

VARIABLES
  queue,     \* the runnable threads, first one first
  vruntime,  \* virtual run time of each thread
  active     \* the thread that runs
vars == <<queue, vruntime, active>>

Init == /\ queue = <<>>
        /\ active \in Thread
        /\ vruntime \in [Thread -> Key]

\* A thread becomes runnable.
Add(t, v) == /\ t # active /\ ~Contains(queue, t)
             /\ vruntime' = [vruntime EXCEPT ![t] = v]
             /\ queue' = Inserted(queue, t, vruntime')
             /\ UNCHANGED active

\* The running thread, which has used time, and the first of the queue change
\* places: the first one is taken before the other is put back.
Yield(v) == /\ queue # <<>>
            /\ vruntime' = [vruntime EXCEPT ![active] = v]
            /\ active' = Head(queue)
            /\ queue' = Inserted(Tail(queue), active, vruntime')

\* The running thread stops being runnable; the first of the queue runs.
Block == /\ queue # <<>>
         /\ active' = Head(queue)
         /\ queue' = Tail(queue)
         /\ UNCHANGED vruntime

Next == \/ \E t \in Thread, v \in Key : Add(t, v)
        \/ \E v \in Key : Yield(v)
        \/ Block
Spec == Init /\ [][Next]_vars
=============================================================================
