----------------------------- MODULE IndexQueue -----------------------------
(***************************************************************************)
(* The bounded queue between the crawler threads and the index threads     *)
(* (src/src/index/src/lib/indexQueue.{h,cpp}).  Producers block while it   *)
(* is full, consumers while it is empty, all of them on one condition      *)
(* variable; shutdown() may come at any time, from the signal handler.     *)
(*                                                                         *)
(* Each pass through a critical section is one action: a wait releases the *)
(* mutex at its end, and the thread that returns from the wait tests its   *)
(* condition again in an action of its own.                                *)
(***************************************************************************)
EXTENDS Integers, FiniteSets, Sequences

CONSTANTS
  Producers, Consumers,   \* threads
  Docs,                   \* pages; each is pushed at most once
  NoDoc,                  \* a producer with nothing to push
  Capacity                \* maxQueuedItems

ASSUME QueueThreadsAssumption == Producers \cap Consumers = {}
ASSUME NoDocAssumption == NoDoc \notin Docs
ASSUME CapacityAssumption == Capacity \in Nat \ {0}

VARIABLES
  queue,       \* oldest page first: queue.back() is Head(queue)
  closed,
  pending,
  at,          \* where each thread is
  parsed,      \* the argument of a producer's push()
  popped,      \* history: the pages handed out, in order
  dropped      \* history: the pages a closed queue did not take

queueState == <<queue, closed, pending>>
vars == <<queueState, at, parsed, popped, dropped>>

Threads == Producers \cup Consumers

Waiting == {t \in Threads : at[t] = "waiting"}

\* Mutant: the broadcast wakes one thread only, whatever that thread waits for.
WakeOne(t, s) ==
  IF Waiting = {} THEN [at EXCEPT ![t] = s]
  ELSE [at EXCEPT ![t] = s, ![CHOOSE u \in Waiting : TRUE] = "woken"]

\* Mutant: nobody is woken.
WakeNobody(t, s) == [at EXCEPT ![t] = s]

\* notify_all(): every waiting thread will test its condition again.
Wake(t, s) ==
  [u \in Threads |-> IF u = t THEN s
                     ELSE IF at[u] = "waiting" THEN "woken" ELSE at[u]]

-----------------------------------------------------------------------------
(* push() *)

\* The pages some producer has already called push() with.
Pushed ==
  {queue[k] : k \in DOMAIN queue} \cup {popped[k] : k \in DOMAIN popped}
    \cup {parsed[u] : u \in Producers} \cup dropped

\* A thread inside push(parsed): it just called, or it was woken.
Calls(t, d) ==
  \/ at[t] = "out" /\ d \in Docs \ Pushed
  \/ at[t] = "woken" /\ d = parsed[t]

Room(t) == Len(queue) < Capacity

PushEnters(t, d) ==
  /\ Calls(t, d) /\ ~closed /\ Room(t)
  /\ queue' = Append(queue, d)
  /\ pending' = pending + 1
  /\ at' = Wake(t, "out")
  /\ parsed' = [parsed EXCEPT ![t] = NoDoc]
  /\ UNCHANGED <<closed, popped, dropped>>

PushWaits(t, d) ==
  /\ Calls(t, d) /\ ~closed /\ ~Room(t)
  /\ at' = [at EXCEPT ![t] = "waiting"]
  /\ parsed' = [parsed EXCEPT ![t] = d]
  /\ UNCHANGED <<queueState, popped, dropped>>

PushDrops(t, d) ==
  /\ Calls(t, d) /\ closed
  /\ dropped' = dropped \cup {d}
  /\ at' = [at EXCEPT ![t] = "out"]
  /\ parsed' = [parsed EXCEPT ![t] = NoDoc]
  /\ UNCHANGED <<queueState, popped>>

-----------------------------------------------------------------------------
(* pop() *)

\* Mutant: the newest page is taken.
NewestFirst == queue[Len(queue)]

Oldest == Head(queue)

PopTakes(t) ==
  /\ at[t] \in {"out", "woken"} /\ queue # <<>>
  /\ popped' = Append(popped, Oldest)
  /\ queue' = Tail(queue)
  /\ pending' = IF pending > 0 THEN pending - 1 ELSE pending
  /\ at' = Wake(t, "out")
  /\ UNCHANGED <<closed, parsed, dropped>>

PopWaits(t) ==
  /\ at[t] \in {"out", "woken"} /\ queue = <<>> /\ ~closed
  /\ at' = [at EXCEPT ![t] = "waiting"]
  /\ UNCHANGED <<queueState, parsed, popped, dropped>>

\* Closed and empty: nullopt, and the index thread leaves its loop.
PopEnds(t) ==
  /\ at[t] \in {"out", "woken"} /\ queue = <<>> /\ closed
  /\ at' = [at EXCEPT ![t] = "exited"]
  /\ UNCHANGED <<queueState, parsed, popped, dropped>>

Shutdown ==
  /\ ~closed /\ closed' = TRUE
  /\ at' = [t \in Threads |-> IF at[t] = "waiting" THEN "woken" ELSE at[t]]
  /\ UNCHANGED <<queue, pending, parsed, popped, dropped>>

-----------------------------------------------------------------------------
Init ==
  /\ queue = <<>> /\ closed = FALSE /\ pending = 0
  /\ at = [t \in Threads |-> "out"]
  /\ parsed = [t \in Producers |-> NoDoc]
  /\ popped = <<>> /\ dropped = {}

Push(t) == \E d \in Docs : PushEnters(t, d) \/ PushWaits(t, d) \/ PushDrops(t, d)
Pop(t) == PopTakes(t) \/ PopWaits(t) \/ PopEnds(t)

Next ==
  \/ \E t \in Producers : Push(t)
  \/ \E t \in Consumers : Pop(t)
  \/ Shutdown

Spec == Init /\ [][Next]_vars

\* A thread that was woken goes on; index threads go on popping.  Nobody has
\* to push a new page, or to shut the queue down.
Fairness ==
  /\ \A t \in Producers : WF_vars(at[t] = "woken" /\ Push(t))
  /\ \A t \in Consumers : WF_vars(Pop(t))

FairSpec == Spec /\ Fairness

-----------------------------------------------------------------------------
(* Properties *)

\* Type invariant: the queue, the threads and the histories; a producer holds
\* an argument exactly while it is blocked in push().
TypeOK ==
  /\ queue \in Seq(Docs) /\ closed \in BOOLEAN /\ pending \in Nat
  /\ at \in [Threads -> {"out", "waiting", "woken", "exited"}]
  /\ parsed \in [Producers -> Docs \cup {NoDoc}]
  /\ \A t \in Producers : at[t] \in {"waiting", "woken"} <=> parsed[t] # NoDoc
  /\ popped \in Seq(Docs) /\ dropped \in SUBSET Docs

\* The queue never holds more than its capacity, although several producers
\* are woken for one free place.
WithinCapacity == Len(queue) <= Capacity /\ pending = Len(queue)

\* No lost wakeup: with one condition variable for full and for empty, no
\* thread waits for what is already so.
NoLostWakeup ==
  /\ \A t \in Consumers : at[t] = "waiting" => queue = <<>> /\ ~closed
  /\ \A t \in Producers : at[t] = "waiting" => Len(queue) >= Capacity /\ ~closed

Fifo == INSTANCE BoundedQueue WITH
          fifo <- queue, out <- popped, refused <- dropped, shut <- closed

\* Blocking, waking and retesting implement a plain bounded FIFO.
ImplementsFifo == Fifo!QueueSpec

\* Every page that got into the queue is handed to an index thread, whatever
\* the producers do (a blocked producer may be overtaken, a queued page not).
EveryPageHandedOut ==
  \A d \in Docs : (\E k \in DOMAIN queue : queue[k] = d)
                    ~> (\E k \in DOMAIN popped : popped[k] = d)

\* After shutdown() no push() stays blocked and every index thread ends.
EveryoneReturns ==
  closed ~> /\ \A t \in Producers : at[t] = "out"
            /\ \A t \in Consumers : at[t] = "exited"

\* Pages and threads both get on.
EveryoneServed == EveryPageHandedOut /\ EveryoneReturns

=============================================================================
