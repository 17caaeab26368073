---------------------------- MODULE BoundedQueue ----------------------------
(***************************************************************************)
(* What the index queue promises to the crawler and the index threads: a   *)
(* FIFO that never holds more than Capacity pages, takes nothing once it   *)
(* is closed and hands out what it holds even then.                        *)
(***************************************************************************)
EXTENDS Naturals, Sequences

CONSTANTS Docs, Capacity

VARIABLES
  fifo,      \* pages in the queue, oldest first
  out,       \* pages handed out, in order
  refused,   \* pages turned away because the queue was closed
  shut

queueVars == <<fifo, out, refused, shut>>

QueueInit == fifo = <<>> /\ out = <<>> /\ refused = {} /\ shut = FALSE

Enqueue(d) ==
  /\ ~shut /\ Len(fifo) < Capacity
  /\ fifo' = Append(fifo, d)
  /\ UNCHANGED <<out, refused, shut>>

Dequeue ==
  /\ fifo # <<>>
  /\ out' = Append(out, Head(fifo))
  /\ fifo' = Tail(fifo)
  /\ UNCHANGED <<refused, shut>>

Refuse(d) == shut /\ refused' = refused \cup {d} /\ UNCHANGED <<fifo, out, shut>>

Close == shut' = TRUE /\ UNCHANGED <<fifo, out, refused>>

QueueNext ==
  \/ \E d \in Docs : Enqueue(d) \/ Refuse(d)
  \/ Dequeue
  \/ Close

QueueSpec == QueueInit /\ [][QueueNext]_queueVars

=============================================================================
