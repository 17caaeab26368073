------------------------------ MODULE Frontier ------------------------------
(***************************************************************************)
(* The crawl frontier (src/src/crawler/frontier.{h,cpp}): a monitor shared *)
(* by the crawler threads.  An item pushed into the frontier travels       *)
(*                                                                         *)
(*    reservoir / disk_back_reservoir / chunk file  ->  its host's queue   *)
(*        ->  the hand of one thread  ->  done, or back to its host queue  *)
(*                                                                         *)
(* A host hands out one item at a time (inFlight) and is either runnable   *)
(* (readyHosts), sleeping until a crawl-delay deadline (sleepingHosts) or  *)
(* empty.                                                                  *)
(*                                                                         *)
(* Everything runs under the mutex m.  A handler that is one straight      *)
(* critical section is one action.  pop() and pushMany() loop while they   *)
(* hold m and read the clock again as they go, so they are several         *)
(* actions, and only the clock and the timers of waiting threads move      *)
(* between two of them (see MutexFree).                                    *)
(*                                                                         *)
(* An element of Items is one FrontierItem object: the same URL pushed     *)
(* twice is two items.  Scores are abstracted: any choice of the right     *)
(* number of items can be the winners of a sweep (the sweep itself, with   *)
(* scores and indices, is module ReservoirSweep).                          *)
(***************************************************************************)
EXTENDS Integers, FiniteSets, Sequences

CONSTANTS
  Hosts,            \* host keys
  Items,            \* FrontierItem objects
  HostOf,           \* extractHostKey(item.link)
  Crawlers,         \* threads that pop
  Producers,        \* threads that only push (peer receiver, main)
  NoHost, NoItem,   \* the empty activeHostKey, the empty hand
  MaxQueued,        \* maxQueuedItems
  AutoClose,        \* autoCloseWhenDrained
  RecoveredChunks,  \* chunk files found on disk by the constructor
  AllowShutdown,    \* whether the environment calls shutdown()
  MaxTime,          \* bound: the clock stops here
  MaxSnoozes,       \* bound: snoozes of one host
  MaxBatch          \* bound: items in one pushMany()

ASSUME HostsAssumption ==
  /\ NoHost \notin Hosts
  /\ NoItem \notin Items
  /\ HostOf \in [Items -> Hosts]
ASSUME ThreadsAssumption == Crawlers \cap Producers = {}
ASSUME FiniteAssumption == IsFiniteSet(Items) /\ IsFiniteSet(Hosts)
ASSUME FlagsAssumption == AutoClose \in BOOLEAN /\ AllowShutdown \in BOOLEAN
ASSUME BoundsAssumption == MaxTime \in Nat /\ MaxSnoozes \in Nat /\ MaxBatch \in Nat

\* Up to 512 items the sweep scans the whole reservoir in one pass.
ASSUME MaxQueuedAssumption == MaxQueued \in 1..512

ASSUME RecoveredAssumption ==
  /\ RecoveredChunks \in Seq(SUBSET Items)
  /\ \A j, k \in 1..Len(RecoveredChunks) :
        j # k => RecoveredChunks[j] \cap RecoveredChunks[k] = {}

VARIABLES
  hostQueues,           \* host key -> HostQueue
  readyHosts,           \* FIFO of host keys
  sleepingHosts,        \* heap of [readyAtMs, generation, hostKey]
  reservoir,
  diskBackReservoir,    \* disk_back_reservoir
  chunks,               \* chunk files 1..diskBackedChunksOnDisk
  closed,
  pending,
  queued,
  now,                  \* CLOCK_MONOTONIC
  pc,                   \* where each thread is
  activeHostKey,        \* thread_local frontierActiveHostKey
  hand,                 \* the item a thread has popped and not settled
  deadline,             \* when a waiting thread's wait_until times out
  nowMs,                \* clock reading local to the pop() that holds m
  winners,              \* promotions left in the current sweep of that pop()
  batch,                \* rest of the pushMany() argument being pushed
  added,                \* history: items ever accepted by the frontier
  finished,             \* history: items whose taskDone() has run
  notBefore             \* history: the last snooze deadline of each host

layers   == <<reservoir, diskBackReservoir, chunks>>
hosts    == <<hostQueues, readyHosts, sleepingHosts>>
counters == <<closed, pending, queued>>
locals   == <<nowMs, winners, batch>>
threads  == <<activeHostKey, hand>>
history  == <<added, finished, notBefore>>
vars == <<layers, hosts, counters, locals, threads, history,
          now, pc, deadline>>

Threads == Crawlers \cup Producers
Forever == MaxTime + 1        \* the deadline of a wait() without one

HostQueue ==
  [items : Seq(Items), blockedUntilMs : Nat, sleepGeneration : Nat,
   inFlight : BOOLEAN, inReadyQueue : BOOLEAN, inSleepingQueue : BOOLEAN]

SleepingHost == [readyAtMs : Nat, generation : Nat, hostKey : Hosts]

FreshHost == [items |-> <<>>, blockedUntilMs |-> 0, sleepGeneration |-> 0,
              inFlight |-> FALSE, inReadyQueue |-> FALSE,
              inSleepingQueue |-> FALSE]

OnDisk == UNION {chunks[k] : k \in DOMAIN chunks}

-----------------------------------------------------------------------------
(* Threads, the mutex and the condition variable *)

Waiting == {t \in Crawlers : pc[t] = "waiting"}

MutexFree == \A t \in Threads : pc[t] \notin {"wake", "sweep", "drain", "push"}

\* unlock() forgets the locals of the critical section.
Unlocked == nowMs' = 0 /\ winners' = 0 /\ batch' = {}

\* Mutant: the broadcast is forgotten.
NotifyNobody(t, s) == pc' = [pc EXCEPT ![t] = s]

\* Every waiting thread returns from its wait; thread t goes on at s.
NotifyAll(t, s) ==
  pc' = [u \in Threads |-> IF u = t THEN s
                           ELSE IF u \in Waiting THEN "woken" ELSE pc[u]]

\* One waiting thread, if there is one, returns from its wait.
NotifyOne(t, s) ==
  \/ Waiting = {} /\ pc' = [pc EXCEPT ![t] = s]
  \/ \E u \in Waiting : pc' = [pc EXCEPT ![t] = s, ![u] = "woken"]

-----------------------------------------------------------------------------
(* Host scheduling *)

\* Mutant: the inFlight test is dropped.
RunnableInFlight(q) == q.items # <<>> /\ ~q.inReadyQueue

Runnable(q) == q.items # <<>> /\ ~q.inFlight /\ ~q.inReadyQueue

\* scheduleHost(h, q, t), where q is the host's queue as the caller leaves it.
ScheduleHost(h, q, t) ==
  \/ /\ ~Runnable(q)
     /\ hostQueues' = [hostQueues EXCEPT ![h] = q]
     /\ UNCHANGED <<readyHosts, sleepingHosts>>
  \/ /\ Runnable(q) /\ q.blockedUntilMs > t
     /\ hostQueues' = [hostQueues EXCEPT ![h] =
                          [q EXCEPT !.inSleepingQueue = TRUE]]
     /\ sleepingHosts' = IF q.inSleepingQueue THEN sleepingHosts
                         ELSE sleepingHosts \cup
                              {[readyAtMs |-> q.blockedUntilMs,
                                generation |-> q.sleepGeneration,
                                hostKey |-> h]}
     /\ UNCHANGED readyHosts
  \/ /\ Runnable(q) /\ q.blockedUntilMs <= t
     /\ hostQueues' = [hostQueues EXCEPT ![h] =
                          [q EXCEPT !.blockedUntilMs = 0,
                                    !.inSleepingQueue = FALSE,
                                    !.inReadyQueue = TRUE]]
     /\ readyHosts' = Append(readyHosts, h)
     /\ UNCHANGED sleepingHosts

\* The sleeping entries whose deadline has passed at the time pop() read.
Due == {e \in sleepingHosts : e.readyAtMs <= nowMs}

Earliest(e) == \A f \in sleepingHosts : e.readyAtMs <= f.readyAtMs

\* Mutant: a host blocked until this very millisecond is skipped.
CurrentStrict(e) ==
  LET q == hostQueues[e.hostKey] IN
  q.sleepGeneration = e.generation /\ Runnable(q) /\ q.blockedUntilMs < nowMs

\* Mutant: stale entries are not recognised.
CurrentAnyway(e) == Runnable(hostQueues[e.hostKey])

\* An entry of the heap that still speaks for its host.
Current(e) ==
  LET q == hostQueues[e.hostKey] IN
  q.sleepGeneration = e.generation /\ Runnable(q) /\ q.blockedUntilMs <= nowMs

\* One round of promoteSleepingHosts: take the top entry, drop it if stale.
WakeHost(t) ==
  /\ pc[t] = "wake"
  /\ \E e \in Due :
       /\ Earliest(e)
       /\ sleepingHosts' = sleepingHosts \ {e}
       /\ IF Current(e)
          THEN /\ hostQueues' = [hostQueues EXCEPT
                     ![e.hostKey].blockedUntilMs = 0,
                     ![e.hostKey].inSleepingQueue = FALSE,
                     ![e.hostKey].inReadyQueue = TRUE]
               /\ readyHosts' = Append(readyHosts, e.hostKey)
          ELSE UNCHANGED <<hostQueues, readyHosts>>
  /\ UNCHANGED <<layers, counters, locals, threads, history, now, pc, deadline>>

-----------------------------------------------------------------------------
(* pop() *)

Percent(p) == (MaxQueued * p) \div 100
RefillSize         == Percent(50)   \* frontierReservoirRefillPercent

\* Mutant: a threshold that rounds to zero for this capacity.
DiskBackRefillLow == Percent(20)

DiskBackRefillSize == Percent(30)   \* frontierDiskBackRefillPercent

WinnersToKeep(n) == (n * 25 + 99) \div 100

\* The loop head: take m (or still have it), read the clock.
PopEnter(t) ==
  /\ pc[t] \in {"out", "woken"} /\ MutexFree
  /\ pc' = [pc EXCEPT ![t] = "wake"]
  /\ nowMs' = now
  /\ deadline' = [deadline EXCEPT ![t] = Forever]
  /\ UNCHANGED <<layers, hosts, counters, threads, history, now, winners, batch>>

\* The disk-back reservoir and the chunk files that promoteReservoir leaves
\* after loadDiskBackedChunkFromDisk: the newest chunk file is taken back.
Loads == Cardinality(diskBackReservoir) < DiskBackRefillSize /\ chunks # <<>>

Loaded == IF Loads THEN diskBackReservoir \cup chunks[Len(chunks)]
          ELSE diskBackReservoir

\* Mutant: the chunk file that was read is still counted.
ChunksKept == chunks

ChunksLeft == IF Loads THEN SubSeq(chunks, 1, Len(chunks) - 1) ELSE chunks

\* How many items refillReservoirFromDiskBacked moves out of Loaded.
RefillCount ==
  IF Cardinality(reservoir) >= RefillSize THEN 0
  ELSE IF RefillSize < Cardinality(Loaded) THEN RefillSize
  ELSE Cardinality(Loaded)

\* No sleeping host is due any more: promoteReservoir starts.
Refill(t) ==
  /\ pc[t] = "wake" /\ Due = {}
  /\ \E moved \in SUBSET Loaded :
       /\ Cardinality(moved) = RefillCount
       /\ reservoir' = reservoir \cup moved
       /\ diskBackReservoir' = Loaded \ moved
  /\ chunks' = ChunksLeft
  /\ pc' = [pc EXCEPT ![t] = "sweep"]
  /\ UNCHANGED <<hosts, counters, locals, threads, history, now, deadline>>

\* One winner of a sweep goes to its host's queue (enqueueScheduledItem).  A
\* sweep runs only while no host is ready; the clock is read after each sweep.
Promote(t) ==
  LET left == IF winners > 0 THEN winners
              ELSE WinnersToKeep(Cardinality(reservoir)) IN
  /\ pc[t] = "sweep"
  /\ winners > 0 \/ readyHosts = <<>>
  /\ \E i \in reservoir :
       LET h == HostOf[i] IN
       /\ reservoir' = reservoir \ {i}
       /\ ScheduleHost(h, [hostQueues[h] EXCEPT !.items = Append(@, i)], nowMs)
  /\ winners' = left - 1
  /\ nowMs' = IF left = 1 THEN now ELSE nowMs
  /\ UNCHANGED <<diskBackReservoir, chunks, counters, threads, history, now,
                 pc, deadline, batch>>

\* promoteReservoir has returned and pop() drains the ready hosts.
Draining(t) ==
  \/ pc[t] = "drain"
  \/ /\ pc[t] = "sweep" /\ winners = 0
     /\ readyHosts # <<>> \/ reservoir = {}

\* Take the next ready host; hand out its first item, or skip the host if it
\* is in flight or has nothing.
PopReady(t) ==
  /\ Draining(t) /\ readyHosts # <<>>
  /\ readyHosts' = Tail(readyHosts)
  /\ LET h == Head(readyHosts)
         q == hostQueues[h] IN
     IF q.inFlight \/ q.items = <<>>
     THEN /\ hostQueues' = [hostQueues EXCEPT ![h].inReadyQueue = FALSE]
          /\ pc' = [pc EXCEPT ![t] = "drain"]
          /\ UNCHANGED <<queued, threads, locals>>
     ELSE /\ hostQueues' = [hostQueues EXCEPT ![h] =
                 [q EXCEPT !.items = Tail(@), !.inFlight = TRUE,
                           !.inReadyQueue = FALSE]]
          /\ queued' = queued - 1
          /\ hand' = [hand EXCEPT ![t] = Head(q.items)]
          /\ activeHostKey' = [activeHostKey EXCEPT ![t] = h]
          /\ pc' = [pc EXCEPT ![t] = "busy"]
          /\ Unlocked
  /\ UNCHANGED <<layers, sleepingHosts, closed, pending, history, now, deadline>>

\* Nothing to hand out and the frontier is closed: pop() returns nullopt.
PopClosed(t) ==
  /\ Draining(t) /\ readyHosts = <<>> /\ closed
  /\ pc' = [pc EXCEPT ![t] = "exited"]
  /\ Unlocked
  /\ UNCHANGED <<layers, hosts, counters, threads, history, now, deadline>>

\* Nothing to hand out: wait for a notification, and no longer than until the
\* earliest sleeping host is due.
PopWait(t) ==
  /\ Draining(t) /\ readyHosts = <<>> /\ ~closed
  /\ \/ /\ sleepingHosts = {}
        /\ deadline' = [deadline EXCEPT ![t] = Forever]
     \/ \E e \in sleepingHosts :
          /\ Earliest(e) /\ e.readyAtMs > now
          /\ deadline' = [deadline EXCEPT ![t] = e.readyAtMs]
  /\ pc' = [pc EXCEPT ![t] = "waiting"]
  /\ Unlocked
  /\ UNCHANGED <<layers, hosts, counters, threads, history, now>>

\* The earliest sleeper became due meanwhile: wait_until returns at once and
\* the loop starts over without giving up m.
PopAgain(t) ==
  /\ Draining(t) /\ readyHosts = <<>> /\ ~closed
  /\ \E e \in sleepingHosts : Earliest(e) /\ e.readyAtMs <= now
  /\ pc' = [pc EXCEPT ![t] = "wake"]
  /\ nowMs' = now
  /\ UNCHANGED <<layers, hosts, counters, threads, history, now, deadline,
                 winners, batch>>

\* pthread_cond_timedwait times out.
TimeOut(t) ==
  /\ pc[t] = "waiting" /\ deadline[t] <= now
  /\ pc' = [pc EXCEPT ![t] = "woken"]
  /\ UNCHANGED <<layers, hosts, counters, locals, threads, history, now, deadline>>

-----------------------------------------------------------------------------
(* push(), pushMany() *)

\* doBackUp writes this many of the items of the disk-back reservoir.
BackupCount == (Cardinality(diskBackReservoir) * 70) \div 100

\* Mutant: a pushed item does not count towards pending.
CountQueuedOnly == queued' = queued + 1 /\ UNCHANGED pending

CountPushed == pending' = pending + 1 /\ queued' = queued + 1

\* pushInternal(i, true).  A backup whose chunk file cannot be opened leaves
\* everything in memory.
PushInternal(i) ==
  /\ CountPushed
  /\ added' = added \cup {i}
  /\ \/ /\ Cardinality(reservoir) < MaxQueued
        /\ reservoir' = reservoir \cup {i}
        /\ UNCHANGED <<diskBackReservoir, chunks>>
     \/ /\ Cardinality(reservoir) >= MaxQueued
        /\ diskBackReservoir' = diskBackReservoir \cup {i}
        /\ UNCHANGED <<reservoir, chunks>>
     \/ /\ Cardinality(reservoir) >= MaxQueued
        /\ Cardinality(diskBackReservoir) >= MaxQueued
        /\ \E backup \in SUBSET diskBackReservoir :
             /\ Cardinality(backup) = BackupCount
             /\ chunks' = Append(chunks, backup)
             /\ diskBackReservoir' = (diskBackReservoir \ backup) \cup {i}
        /\ UNCHANGED reservoir

\* A crawler pushes the links of the page it has in hand.
MayPush(t) == pc[t] = IF t \in Crawlers THEN "busy" ELSE "idle"

\* Mutant: a crawler pops again without settling the item in hand.
AfterPushForgetful(t) == IF t \in Crawlers THEN "out" ELSE "idle"

AfterPush(t) == IF t \in Crawlers THEN "busy" ELSE "idle"

\* One item of a pushMany(); the last one notifies and unlocks.
PushOneOf(t, i, rest) ==
  /\ PushInternal(i)
  /\ batch' = rest
  /\ IF rest = {} THEN NotifyAll(t, AfterPush(t))
     ELSE pc' = [pc EXCEPT ![t] = "push"]
  /\ UNCHANGED <<hosts, closed, nowMs, winners, threads, finished, notBefore,
                 now, deadline>>

\* A closed frontier ignores the call.
PushMany(t) ==
  /\ MayPush(t) /\ MutexFree /\ ~closed
  /\ \E S \in SUBSET (Items \ added) :
       /\ Cardinality(S) <= MaxBatch
       /\ \E i \in S : PushOneOf(t, i, S \ {i})

PushRest(t) == pc[t] = "push" /\ \E i \in batch : PushOneOf(t, i, batch \ {i})

Push(t) ==
  /\ MayPush(t) /\ MutexFree /\ ~closed
  /\ \E i \in Items \ added : PushInternal(i)
  /\ NotifyOne(t, AfterPush(t))
  /\ UNCHANGED <<hosts, closed, locals, threads, finished, notBefore, now, deadline>>

-----------------------------------------------------------------------------
(* The end of a task *)

ForgetTask(t) ==
  /\ hand' = [hand EXCEPT ![t] = NoItem]
  /\ activeHostKey' = [activeHostKey EXCEPT ![t] = NoHost]

\* This taskDone() settles the last item the frontier knows of.
LastTask == pending = 1

\* taskDone(), with the releaseActiveHost() it makes.
TaskDone(t) ==
  LET h == activeHostKey[t] IN
  /\ pc[t] = "busy" /\ MutexFree
  /\ ScheduleHost(h, [hostQueues[h] EXCEPT !.inFlight = FALSE], now)
  /\ ForgetTask(t)
  /\ finished' = finished \cup {hand[t]}
  /\ pending' = IF pending = 0 THEN 0 ELSE pending - 1
  /\ IF pending = 0 THEN pc' = [pc EXCEPT ![t] = "out"] /\ UNCHANGED closed
     ELSE IF LastTask
     THEN NotifyAll(t, "out") /\ closed' = (closed \/ AutoClose)
     ELSE NotifyOne(t, "out") /\ UNCHANGED closed
  /\ UNCHANGED <<layers, queued, locals, added, notBefore, now, deadline>>

\* snoozeCurrent(item, readyAt): the item goes back to the front of its host's
\* queue and the host sleeps until readyAt.
SnoozeCurrent(t) ==
  LET h == activeHostKey[t] IN
  /\ pc[t] = "busy" /\ MutexFree
  /\ hostQueues[h].sleepGeneration < MaxSnoozes
  /\ \E readyAt \in 1..MaxTime :
       LET old == hostQueues[h]
           until == IF readyAt > old.blockedUntilMs THEN readyAt
                    ELSE old.blockedUntilMs
           q == [old EXCEPT !.inFlight = FALSE,
                            !.items = <<hand[t]>> \o @,
                            !.blockedUntilMs = until,
                            !.sleepGeneration = @ + 1] IN
       /\ notBefore' = [notBefore EXCEPT ![h] = readyAt]
       /\ \/ /\ until > now
             /\ hostQueues' = [hostQueues EXCEPT ![h] =
                                  [q EXCEPT !.inSleepingQueue = TRUE]]
             /\ sleepingHosts' = sleepingHosts \cup
                    {[readyAtMs |-> until, generation |-> q.sleepGeneration,
                      hostKey |-> h]}
             /\ UNCHANGED readyHosts
          \/ until <= now /\ ScheduleHost(h, q, now)
  /\ queued' = queued + 1
  /\ ForgetTask(t)
  /\ NotifyAll(t, "out")
  /\ UNCHANGED <<layers, closed, pending, locals, added, finished, now, deadline>>

\* Mutant: shutdown() sets closed and notifies nobody.
ShutdownSilently ==
  /\ AllowShutdown /\ MutexFree /\ ~closed
  /\ closed' = TRUE
  /\ UNCHANGED <<layers, hosts, pending, queued, locals, threads, history, now,
                 pc, deadline>>

Shutdown ==
  /\ AllowShutdown /\ MutexFree /\ ~closed
  /\ closed' = TRUE
  /\ pc' = [u \in Threads |-> IF u \in Waiting THEN "woken" ELSE pc[u]]
  /\ UNCHANGED <<layers, hosts, pending, queued, locals, threads, history, now,
                 deadline>>

Tick ==
  /\ now < MaxTime
  /\ now' = now + 1
  /\ UNCHANGED <<layers, hosts, counters, locals, threads, history, pc, deadline>>

-----------------------------------------------------------------------------
\* The constructor: the chunk files left by an earlier run are counted, then
\* the given items (a seed list or a checkpoint) are pushed.
Init ==
  LET recovered == UNION {RecoveredChunks[k] : k \in DOMAIN RecoveredChunks} IN
  /\ \E seeds \in SUBSET (Items \ recovered) :
       /\ Cardinality(seeds) <= MaxQueued
       /\ reservoir = seeds
       /\ added = seeds \cup recovered
       /\ pending = Cardinality(seeds \cup recovered)
  /\ queued = pending
  /\ closed = (pending = 0 /\ AutoClose)
  /\ diskBackReservoir = {}
  /\ chunks = RecoveredChunks
  /\ hostQueues = [h \in Hosts |-> FreshHost]
  /\ readyHosts = <<>>
  /\ sleepingHosts = {}
  /\ now = 0
  /\ pc = [t \in Threads |-> IF t \in Crawlers THEN "out" ELSE "idle"]
  /\ activeHostKey = [t \in Crawlers |-> NoHost]
  /\ hand = [t \in Crawlers |-> NoItem]
  /\ deadline = [t \in Crawlers |-> Forever]
  /\ nowMs = 0 /\ winners = 0 /\ batch = {}
  /\ finished = {}
  /\ notBefore = [h \in Hosts |-> 0]

Pop(t) ==
  \/ PopEnter(t) \/ WakeHost(t) \/ Refill(t) \/ Promote(t) \/ PopReady(t)
  \/ PopClosed(t) \/ PopWait(t) \/ PopAgain(t) \/ TimeOut(t)

Next ==
  \/ \E t \in Crawlers : Pop(t) \/ TaskDone(t) \/ SnoozeCurrent(t)
  \/ \E t \in Threads : PushMany(t) \/ PushRest(t) \/ Push(t)
  \/ Shutdown
  \/ Tick

Spec == Init /\ [][Next]_vars

-----------------------------------------------------------------------------
(* Properties *)

PcValues == {"out", "wake", "sweep", "drain", "waiting", "woken", "busy",
             "push", "idle", "exited"}

\* Type invariant of the frontier's fields, the threads and the history.
TypeOK ==
  /\ hostQueues \in [Hosts -> HostQueue]
  /\ readyHosts \in Seq(Hosts)
  /\ sleepingHosts \in SUBSET SleepingHost
  /\ reservoir \in SUBSET Items
  /\ diskBackReservoir \in SUBSET Items
  /\ chunks \in Seq(SUBSET Items)
  /\ closed \in BOOLEAN
  /\ pending \in Nat /\ queued \in Int
  /\ now \in Nat /\ nowMs \in Nat /\ winners \in Nat
  /\ pc \in [Threads -> PcValues]
  /\ activeHostKey \in [Crawlers -> Hosts \cup {NoHost}]
  /\ hand \in [Crawlers -> Items \cup {NoItem}]
  /\ deadline \in [Crawlers -> Nat]
  /\ batch \in SUBSET Items
  /\ added \in SUBSET Items /\ finished \in SUBSET Items
  /\ notBefore \in [Hosts -> Nat]

Ready(h)    == \E k \in DOMAIN readyHosts : readyHosts[k] = h
InFlight(h) == \E t \in Crawlers : activeHostKey[t] = h
Sleeping(h) ==
  \E e \in sleepingHosts :
    /\ e.hostKey = h
    /\ e.generation = hostQueues[h].sleepGeneration
    /\ e.readyAtMs = hostQueues[h].blockedUntilMs

\* A host with queued items is never forgotten: it is runnable, or a thread
\* works on it (and will reschedule it), or the sleeping heap has an entry that
\* will not be dropped as stale.  The flags of HostQueue, the FIFO, the heap and
\* the thread-local key say this together only.
NoStrandedHost ==
  \A h \in Hosts : hostQueues[h].items # <<>> =>
                     Ready(h) \/ InFlight(h) \/ Sleeping(h)

\* At most one thread works on a host, no such host waits in the ready FIFO,
\* and no host is there twice: one request at a time per host.
OneThreadPerHost ==
  /\ \A t, u \in Crawlers :
        t # u /\ activeHostKey[t] # NoHost => activeHostKey[t] # activeHostKey[u]
  /\ \A h \in Hosts : Ready(h) => ~InFlight(h)
  /\ \A j, k \in DOMAIN readyHosts : j # k => readyHosts[j] # readyHosts[k]

\* Crawl delay: a host is runnable or worked on only once the deadline of its
\* last snooze has passed, whatever stale entries the heap still has for it.
Polite ==
  \A h \in Hosts : Ready(h) \/ InFlight(h) => notBefore[h] <= now

\* The places an item can be found in.
Places(i) ==
  {<<"reservoir">> : x \in {i} \cap reservoir}
    \cup {<<"diskBack">> : x \in {i} \cap diskBackReservoir}
    \cup {<<"chunk", k>> : k \in {j \in DOMAIN chunks : i \in chunks[j]}}
    \cup (UNION {{<<"host", h, k>> : k \in {j \in DOMAIN hostQueues[h].items :
                     hostQueues[h].items[j] = i}} : h \in Hosts})
    \cup {<<"hand", t>> : t \in {u \in Crawlers : hand[u] = i}}
    \cup {<<"finished">> : x \in {i} \cap finished}

\* No item is lost or duplicated on its way through the layers: each accepted
\* item is in exactly one place.
NothingLostOrDuplicated == \A i \in added : Cardinality(Places(i)) = 1

\* empty(), hasInFlightWork() and the automatic close read the counters: queued
\* counts the items in every layer, pending these and the ones in hand.
CountersExact ==
  LET held == {t \in Crawlers : hand[t] # NoItem} IN
  /\ pending = Cardinality(added \ finished)
  /\ pending = queued + Cardinality(held)

\* Unless shutdown() is called the frontier closes itself only when every
\* accepted item is done: no thread leaves while another may still push.
ClosesWhenDrained == closed => finished = added

\* Every waiting thread has a timer no later than the earliest sleeping host.
WaitersWatchSleepers ==
  \A t \in Waiting : \A e \in sleepingHosts : deadline[t] <= e.readyAtMs

\* No lost wakeup: when every crawler is asleep and nobody is inside a push,
\* the frontier is open, and either it is empty or a timer will wake a thread.
NoLostWakeup ==
  MutexFree /\ (\A t \in Crawlers : pc[t] \in {"waiting", "exited"}) =>
     /\ readyHosts = <<>> /\ reservoir = {}
     /\ closed => Waiting = {}
     /\ queued > 0 /\ ~closed => \E t \in Waiting : deadline[t] < Forever

\* A crawler waits only if a wakeup is sure to come, and leaves only if nothing
\* is left to do.
WaitsAreSound == WaitersWatchSleepers /\ NoLostWakeup /\ ClosesWhenDrained

-----------------------------------------------------------------------------
(* Refinement *)

InHostQueues ==
  UNION {{hostQueues[h].items[k] : k \in DOMAIN hostQueues[h].items} : h \in Hosts}

Pool == INSTANCE TaskPool WITH
          pool <- reservoir \cup diskBackReservoir \cup OnDisk \cup InHostQueues,
          held <- hand, done <- finished, shut <- closed

\* Behind layers, sweeps, sleeping hosts and wakeups the frontier is a pool of
\* items: one is taken at a time per host, kept until done or put back, and the
\* pool closes itself only when empty.
ImplementsPool == Pool!PoolSpec

-----------------------------------------------------------------------------
(* Liveness *)

\* Each thread goes on with what it has begun, a page is fetched or given up
\* in finite time, and the clock advances.  Nobody has to push or to snooze.
Fairness ==
  /\ \A t \in Crawlers : WF_vars(Pop(t)) /\ WF_vars(TaskDone(t))
  /\ \A t \in Threads : WF_vars(PushRest(t))
  /\ WF_vars(Tick)

FairSpec == Spec /\ Fairness

\* Every accepted item is crawled in the end, unless the frontier is shut down
\* (when it closes by itself all are: ClosesWhenDrained).
EveryItemFinished == \A i \in Items : (i \in added) ~> (i \in finished \/ closed)

\* Once the frontier is closed every crawler gets its nullopt.
EveryCrawlerExits == closed ~> (\A t \in Crawlers : pc[t] = "exited")

=============================================================================
