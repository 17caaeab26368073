-------------------------- MODULE IndexQueueProofs --------------------------
(***************************************************************************)
(* For any threads, pages and capacity: the index queue stays within its   *)
(* capacity, loses no wakeup and implements the bounded FIFO.  The three   *)
(* invariants together are inductive.                                      *)
(***************************************************************************)
EXTENDS IndexQueue, TLAPS

Inv == TypeOK /\ WithinCapacity /\ NoLostWakeup

LEMMA InvInit == ASSUME Init PROVE Inv
<1> USE DEF Init, Threads
<1>1. TypeOK
  <2>1. queue \in Seq(Docs) /\ popped \in Seq(Docs) /\ pending \in Nat
    OBVIOUS
  <2>5. closed \in BOOLEAN /\ dropped \in SUBSET Docs
    OBVIOUS
  <2>2. at \in [Threads -> {"out", "waiting", "woken", "exited"}]
    OBVIOUS
  <2>3. parsed \in [Producers -> Docs \cup {NoDoc}]
    OBVIOUS
  <2>4. \A t \in Producers : at[t] \in {"waiting", "woken"} <=> parsed[t] # NoDoc
    OBVIOUS
  <2> QED
    BY <2>1, <2>2, <2>3, <2>4, <2>5 DEF TypeOK
<1>2. WithinCapacity
  BY CapacityAssumption DEF WithinCapacity
<1>3. NoLostWakeup
  BY DEF NoLostWakeup
<1> QED
  BY <1>1, <1>2, <1>3 DEF Inv

\* What notify_all() leaves of the threads' places: nobody waits, a thread
\* that was blocked in push() is still in it.
LEMMA WakeSteps ==
  ASSUME TypeOK, NEW t \in Threads, at' = Wake(t, "out")
  PROVE  /\ at' \in [Threads -> {"out", "waiting", "woken", "exited"}]
         /\ \A u \in Threads : at'[u] # "waiting"
         /\ at'[t] = "out"
         /\ \A u \in Threads \ {t} :
              at'[u] \in {"waiting", "woken"} <=> at[u] \in {"waiting", "woken"}
  BY DEF TypeOK, Wake

LEMMA PushEntersInv ==
  ASSUME Inv, NEW t \in Producers, NEW d \in Docs, PushEnters(t, d) PROVE Inv'
<1> USE DEF PushEnters, Threads
<1>1. TypeOK /\ t \in Threads
  BY DEF Inv
<1>2. /\ queue' \in Seq(Docs) /\ Len(queue') = Len(queue) + 1
  BY <1>1 DEF TypeOK
<1>3. TypeOK'
  BY <1>1, <1>2, WakeSteps, NoDocAssumption DEF TypeOK
<1>4. WithinCapacity'
  BY <1>1, <1>2, CapacityAssumption DEF Inv, WithinCapacity, Room, TypeOK
<1>5. NoLostWakeup'
  BY <1>1, WakeSteps DEF NoLostWakeup
<1> QED
  BY <1>3, <1>4, <1>5 DEF Inv

LEMMA PushWaitsInv ==
  ASSUME Inv, NEW t \in Producers, NEW d \in Docs, PushWaits(t, d) PROVE Inv'
<1> USE DEF Inv, PushWaits, queueState, Threads
<1>1. TypeOK'
  BY NoDocAssumption, QueueThreadsAssumption DEF TypeOK
<1>2. WithinCapacity'
  BY DEF WithinCapacity
<1>3. NoLostWakeup'
  BY QueueThreadsAssumption, CapacityAssumption DEF NoLostWakeup, TypeOK, Room
<1> QED
  BY <1>1, <1>2, <1>3

LEMMA PushDropsInv ==
  ASSUME Inv, NEW t \in Producers, NEW d \in Docs, PushDrops(t, d) PROVE Inv'
<1> USE DEF Inv, PushDrops, queueState, Threads
<1>1. TypeOK'
  BY NoDocAssumption DEF TypeOK
<1>2. WithinCapacity'
  BY DEF WithinCapacity
<1>3. NoLostWakeup'
  BY DEF NoLostWakeup, TypeOK
<1> QED
  BY <1>1, <1>2, <1>3

LEMMA PopTakesInv == ASSUME Inv, NEW t \in Consumers, PopTakes(t) PROVE Inv'
<1> USE DEF PopTakes, Threads
<1>1. TypeOK /\ t \in Threads
  BY DEF Inv
<1>2. /\ queue' \in Seq(Docs) /\ Len(queue') = Len(queue) - 1
      /\ Len(queue) \in Nat \ {0}
  BY <1>1 DEF TypeOK
<1>3. popped' \in Seq(Docs)
  BY <1>1 DEF TypeOK, Oldest
<1>4. TypeOK'
  BY <1>1, <1>2, <1>3, WakeSteps, QueueThreadsAssumption DEF TypeOK
<1>5. WithinCapacity'
  BY <1>1, <1>2, CapacityAssumption DEF Inv, WithinCapacity, TypeOK
<1>6. NoLostWakeup'
  BY <1>1, WakeSteps DEF NoLostWakeup
<1> QED
  BY <1>4, <1>5, <1>6 DEF Inv

LEMMA PopWaitsInv == ASSUME Inv, NEW t \in Consumers, PopWaits(t) PROVE Inv'
<1> USE DEF Inv, PopWaits, queueState, Threads
<1>1. TypeOK'
  BY QueueThreadsAssumption DEF TypeOK
<1>2. WithinCapacity'
  BY DEF WithinCapacity
<1>3. NoLostWakeup'
  BY QueueThreadsAssumption DEF NoLostWakeup, TypeOK
<1> QED
  BY <1>1, <1>2, <1>3

LEMMA PopEndsInv == ASSUME Inv, NEW t \in Consumers, PopEnds(t) PROVE Inv'
<1> USE DEF Inv, PopEnds, queueState, Threads
<1>1. TypeOK'
  BY QueueThreadsAssumption DEF TypeOK
<1>2. WithinCapacity'
  BY DEF WithinCapacity
<1>3. NoLostWakeup'
  BY DEF NoLostWakeup, TypeOK
<1> QED
  BY <1>1, <1>2, <1>3

LEMMA ShutdownInv == ASSUME Inv, Shutdown PROVE Inv'
<1> USE DEF Inv, Shutdown, Threads
<1>1. TypeOK'
  BY DEF TypeOK
<1>2. WithinCapacity'
  BY DEF WithinCapacity
<1>3. NoLostWakeup'
  BY DEF NoLostWakeup, TypeOK
<1> QED
  BY <1>1, <1>2, <1>3

LEMMA InvStep == ASSUME Inv, [Next]_vars PROVE Inv'
<1>1. CASE UNCHANGED vars
  BY <1>1 DEF Inv, TypeOK, WithinCapacity, NoLostWakeup, vars, queueState, Threads
<1>2. ASSUME NEW t \in Producers, Push(t) PROVE Inv'
  BY <1>2, PushEntersInv, PushWaitsInv, PushDropsInv DEF Push
<1>3. ASSUME NEW t \in Consumers, Pop(t) PROVE Inv'
  BY <1>3, PopTakesInv, PopWaitsInv, PopEndsInv DEF Pop
<1>4. CASE Shutdown
  BY <1>4, ShutdownInv
<1> QED
  BY <1>1, <1>2, <1>3, <1>4 DEF Next

THEOREM Invariance == Spec => []Inv
<1>1. Init => Inv
  BY InvInit
<1>2. Inv /\ [Next]_vars => Inv'
  BY InvStep
<1> QED
  BY <1>1, <1>2, PTL DEF Spec

\* The queue's fields and the threads' places keep their types, and a producer
\* holds a page exactly while it is blocked in push().
THEOREM TypeCorrect == Spec => []TypeOK
<1>1. Inv => TypeOK
  BY DEF Inv
<1> QED
  BY <1>1, Invariance, PTL

\* However many producers are woken for one free place, the queue never grows
\* beyond maxQueuedItems, and pending counts its pages.
THEOREM CapacityKept == Spec => []WithinCapacity
<1>1. Inv => WithinCapacity
  BY DEF Inv
<1> QED
  BY <1>1, Invariance, PTL

\* No consumer sleeps on a page, no producer on a free place, nobody on a
\* closed queue.
THEOREM WakeupsKept == Spec => []NoLostWakeup
<1>1. Inv => NoLostWakeup
  BY DEF Inv
<1> QED
  BY <1>1, Invariance, PTL

LEMMA StepRefines == ASSUME Inv, [Next]_vars PROVE [Fifo!QueueNext]_Fifo!queueVars
<1> USE DEF Fifo!QueueNext, Fifo!queueVars, queueState
<1>1. CASE UNCHANGED vars
  BY <1>1 DEF vars
<1>2. ASSUME NEW t \in Producers, NEW d \in Docs, PushEnters(t, d)
      PROVE  Fifo!Enqueue(d)
  BY <1>2 DEF PushEnters, Room, Fifo!Enqueue
<1>3. ASSUME NEW t \in Producers, NEW d \in Docs, PushDrops(t, d)
      PROVE  Fifo!Refuse(d)
  BY <1>3 DEF PushDrops, Fifo!Refuse
<1>4. ASSUME NEW t \in Producers, NEW d \in Docs, PushWaits(t, d)
      PROVE  UNCHANGED Fifo!queueVars
  BY <1>4 DEF PushWaits
<1>5. ASSUME NEW t \in Consumers, PopTakes(t) PROVE Fifo!Dequeue
  BY <1>5 DEF PopTakes, Oldest, Fifo!Dequeue
<1>6. ASSUME NEW t \in Consumers, PopWaits(t) \/ PopEnds(t)
      PROVE  UNCHANGED Fifo!queueVars
  BY <1>6 DEF PopWaits, PopEnds
<1>7. CASE Shutdown
  BY <1>7 DEF Shutdown, Fifo!Close
<1> QED
  BY <1>1, <1>2, <1>3, <1>4, <1>5, <1>6, <1>7 DEF Next, Push, Pop

\* The monitor implements the abstract bounded FIFO, step by step.
THEOREM QueueImplementsFifo == Spec => ImplementsFifo
<1>1. Init => Fifo!QueueInit
  BY DEF Init, Fifo!QueueInit
<1>2. Inv /\ [Next]_vars => [Fifo!QueueNext]_Fifo!queueVars
  BY StepRefines
<1> QED
  BY <1>1, <1>2, Invariance, PTL DEF Spec, ImplementsFifo, Fifo!QueueSpec

=============================================================================
