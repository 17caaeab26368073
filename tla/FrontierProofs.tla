--------------------------- MODULE FrontierProofs ---------------------------
(***************************************************************************)
(* Theorems of Frontier, for every set of hosts, items and threads, every  *)
(* capacity and every bound: the type invariant, the safety of host        *)
(* scheduling (no host is forgotten, one thread per host, crawl delays),   *)
(* and on top of it items and waiting threads: no item is lost or          *)
(* duplicated, the counters are exact, no wakeup is lost, and the frontier *)
(* implements the pool of items that TaskPool promises.                    *)
(***************************************************************************)
EXTENDS Frontier, FiniteSetTheorems, TLAPS

-----------------------------------------------------------------------------
(* The inductive invariant *)

\* A crawler that is inside a task has an item in hand and a host marked.
TaskPhase ==
  \A t \in Crawlers :
    /\ (activeHostKey[t] # NoHost) <=> (pc[t] \in {"busy", "push"})
    /\ (hand[t] # NoItem) <=> (pc[t] \in {"busy", "push"})

\* The flags of one HostQueue exclude each other and cover a nonempty queue;
\* a host that is not in the sleeping queue is not blocked.
FlagsOK(q) ==
  /\ q.inReadyQueue => q.items # <<>> /\ ~q.inFlight /\ ~q.inSleepingQueue
  /\ q.inFlight => ~q.inSleepingQueue
  /\ q.inSleepingQueue => q.items # <<>>
  /\ ~q.inSleepingQueue => q.blockedUntilMs = 0
  /\ q.items # <<>> => q.inFlight \/ q.inReadyQueue \/ q.inSleepingQueue

\* The heap against the flags of host h: a sleeping host has its entry, no
\* entry comes from a later snooze, and an entry of the last snooze of a host
\* that still sleeps has the deadline the host has.
HeapOK(h, q, heap) ==
  /\ q.inSleepingQueue =>
       [readyAtMs |-> q.blockedUntilMs, generation |-> q.sleepGeneration,
        hostKey |-> h] \in heap
  /\ \A e \in heap : e.hostKey = h =>
       /\ e.generation <= q.sleepGeneration
       /\ q.inSleepingQueue /\ e.generation = q.sleepGeneration
            => e.readyAtMs = q.blockedUntilMs

\* Crawl delay of host h, given its queue, the clock and its last deadline.
DelayOK(q, clock, until) ==
  until <= clock \/ (q.inSleepingQueue /\ until <= q.blockedUntilMs)

In(h, s) == \E k \in 1..Len(s) : s[k] = h
Once(s) == \A j, k \in 1..Len(s) : j # k => s[j] # s[k]

\* Some thread's active host, given every thread's, is h.
Works(h, keys) == \E t \in Crawlers : keys[t] = h

ActiveOnce ==
  \A t, u \in Crawlers :
    t # u /\ activeHostKey[t] # NoHost => activeHostKey[t] # activeHostKey[u]

HostInv ==
  /\ \A h \in Hosts : FlagsOK(hostQueues[h])
  /\ \A h \in Hosts : HeapOK(h, hostQueues[h], sleepingHosts)
  /\ \A h \in Hosts : DelayOK(hostQueues[h], now, notBefore[h])
  /\ \A h \in Hosts : hostQueues[h].inReadyQueue <=> In(h, readyHosts)
  /\ Once(readyHosts)
  /\ \A h \in Hosts : hostQueues[h].inFlight <=> Works(h, activeHostKey)
  /\ ActiveOnce
  /\ nowMs <= now

Inv == TypeOK /\ TaskPhase /\ HostInv

-----------------------------------------------------------------------------
(* Sequences *)

\* Appending h to a FIFO makes h a member and keeps the rest.
LEMMA AppendMembers ==
  ASSUME NEW s \in Seq(Hosts), NEW h \in Hosts
  PROVE  /\ Append(s, h) \in Seq(Hosts)
         /\ \A g : In(g, Append(s, h)) <=> (In(g, s) \/ g = h)
         /\ Once(s) /\ ~In(h, s) => Once(Append(s, h))
<1>1. Append(s, h) \in Seq(Hosts) /\ Len(Append(s, h)) = Len(s) + 1
  OBVIOUS
<1>2. /\ \A k \in 1..Len(s) : Append(s, h)[k] = s[k]
      /\ Append(s, h)[Len(s) + 1] = h
  OBVIOUS
<1>3. Len(s) \in Nat
  OBVIOUS
<1>4. \A g : In(g, Append(s, h)) <=> (In(g, s) \/ g = h)
  BY <1>1, <1>2, <1>3 DEF In
<1>5. Once(s) /\ ~In(h, s) => Once(Append(s, h))
  BY <1>1, <1>2, <1>3 DEF In, Once
<1> QED
  BY <1>1, <1>4, <1>5

\* Taking the head of a FIFO without duplicates removes exactly that member.
LEMMA TailMembers ==
  ASSUME NEW s \in Seq(Hosts), s # <<>>
  PROVE  /\ Tail(s) \in Seq(Hosts) /\ Head(s) \in Hosts /\ In(Head(s), s)
         /\ Once(s) => Once(Tail(s))
         /\ Once(s) => \A g : In(g, Tail(s)) <=> (In(g, s) /\ g # Head(s))
<1>1. /\ Len(s) \in Nat \ {0} /\ Head(s) = s[1] /\ Head(s) \in Hosts
      /\ Tail(s) \in Seq(Hosts) /\ Len(Tail(s)) = Len(s) - 1
  OBVIOUS
<1>2. \A k \in 1..(Len(s) - 1) : Tail(s)[k] = s[k + 1]
  OBVIOUS
<1>3. In(Head(s), s)
  BY <1>1 DEF In
<1>4. Once(s) => Once(Tail(s))
  BY <1>1, <1>2 DEF Once
<1>5. ASSUME Once(s), NEW g
      PROVE  In(g, Tail(s)) <=> (In(g, s) /\ g # Head(s))
  <2>1. In(g, Tail(s)) => In(g, s) /\ g # Head(s)
    BY <1>1, <1>2, <1>5 DEF In, Once
  <2>2. ASSUME In(g, s), g # Head(s)
        PROVE  In(g, Tail(s))
    <3>1. PICK k \in 1..Len(s) : s[k] = g
      BY <2>2 DEF In
    <3>2. k - 1 \in 1..(Len(s) - 1) /\ Tail(s)[k - 1] = g
      BY <1>1, <1>2, <2>2, <3>1
    <3> QED
      BY <1>1, <3>2 DEF In
  <2> QED
    BY <2>1, <2>2
<1> QED
  BY <1>1, <1>3, <1>4, <1>5

-----------------------------------------------------------------------------
(* scheduleHost *)

\* What a caller of scheduleHost leaves in the host's queue q: it may have
\* added items or cleared inFlight, and a host that does not sleep may be
\* blocked until a deadline that has passed.
Schedulable(h, q, t) ==
  /\ q.inReadyQueue = hostQueues[h].inReadyQueue
  /\ q.inReadyQueue => q.items # <<>> /\ ~q.inFlight /\ ~q.inSleepingQueue
  /\ q.inFlight => ~q.inSleepingQueue
  /\ q.inSleepingQueue => q.items # <<>>
  /\ ~q.inSleepingQueue => q.blockedUntilMs <= t
  /\ ~q.inSleepingQueue /\ ~Runnable(q) => q.blockedUntilMs = 0
  /\ HeapOK(h, q, sleepingHosts)

\* scheduleHost repairs the host it is called for and touches no other.
LEMMA ScheduleHostSound ==
  ASSUME TypeOK, HostInv,
         NEW h \in Hosts, NEW q \in HostQueue, NEW t \in Nat, NEW until \in Nat,
         NEW clock \in Nat, t <= clock,
         Schedulable(h, q, t), DelayOK(q, clock, until), ScheduleHost(h, q, t)
  PROVE  /\ hostQueues' \in [Hosts -> HostQueue]
         /\ readyHosts' \in Seq(Hosts)
         /\ sleepingHosts' \in SUBSET SleepingHost
         /\ \A g \in Hosts : g # h => hostQueues'[g] = hostQueues[g]
         /\ hostQueues'[h].inFlight = q.inFlight
         /\ FlagsOK(hostQueues'[h])
         /\ \A g \in Hosts : HeapOK(g, hostQueues'[g], sleepingHosts')
         /\ \A g \in Hosts : hostQueues'[g].inReadyQueue <=> In(g, readyHosts')
         /\ Once(readyHosts')
         /\ DelayOK(hostQueues'[h], clock, until)
<1> USE DEF TypeOK
<1>1. CASE ~Runnable(q)
  <2>1. /\ hostQueues' = [hostQueues EXCEPT ![h] = q]
        /\ UNCHANGED <<readyHosts, sleepingHosts>>
    BY <1>1 DEF ScheduleHost
  <2>2. FlagsOK(q)
    BY <1>1 DEF Schedulable, FlagsOK, Runnable, HostQueue
  <2> QED
    BY <2>1, <2>2 DEF HostInv, Schedulable
<1>2. CASE Runnable(q) /\ q.blockedUntilMs > t
  <2>1. q.inSleepingQueue
    BY <1>2 DEF Schedulable, HostQueue
  <2>2. /\ hostQueues' = [hostQueues EXCEPT ![h] = [q EXCEPT !.inSleepingQueue = TRUE]]
        /\ UNCHANGED <<readyHosts, sleepingHosts>>
    BY <1>2, <2>1 DEF ScheduleHost, HostQueue
  <2>3. [q EXCEPT !.inSleepingQueue = TRUE] = q
    BY <2>1 DEF HostQueue
  <2>4. FlagsOK(q)
    BY <1>2, <2>1 DEF Schedulable, FlagsOK, Runnable, HostQueue
  <2> QED
    BY <2>2, <2>3, <2>4 DEF HostInv, Schedulable
<1>3. CASE Runnable(q) /\ q.blockedUntilMs <= t
  <2> DEFINE r == [q EXCEPT !.blockedUntilMs = 0, !.inSleepingQueue = FALSE,
                            !.inReadyQueue = TRUE]
  <2>1. /\ hostQueues' = [hostQueues EXCEPT ![h] = r]
        /\ readyHosts' = Append(readyHosts, h)
        /\ UNCHANGED sleepingHosts
    <3>1. Runnable(q) /\ ~(q.blockedUntilMs > t)
      BY <1>3 DEF HostQueue
    <3> QED
      BY <3>1 DEF ScheduleHost
  <2>2. /\ r \in HostQueue /\ r.inFlight = q.inFlight /\ r.inReadyQueue
        /\ ~r.inSleepingQueue /\ r.blockedUntilMs = 0 /\ r.items = q.items
        /\ r.sleepGeneration = q.sleepGeneration
    BY DEF HostQueue
  <2>3. FlagsOK(r)
    BY <1>3, <2>2 DEF FlagsOK, Runnable
  <2>4. HeapOK(h, r, sleepingHosts)
    BY <2>2 DEF HeapOK, Schedulable
  <2>5. ~In(h, readyHosts)
    BY <1>3 DEF HostInv, Schedulable, Runnable
  <2>6. DelayOK(r, clock, until)
    BY <1>3, <2>2 DEF DelayOK, HostQueue
  <2>7. /\ readyHosts' \in Seq(Hosts)
        /\ \A g : In(g, readyHosts') <=> (In(g, readyHosts) \/ g = h)
        /\ Once(readyHosts')
    BY <2>1, <2>5, AppendMembers DEF HostInv
  <2>8. /\ hostQueues'[h] = r
        /\ \A g \in Hosts : g # h => hostQueues'[g] = hostQueues[g]
    BY <2>1
  <2> HIDE DEF r
  <2>9. \A g \in Hosts : HeapOK(g, hostQueues'[g], sleepingHosts')
    BY <2>1, <2>4, <2>8 DEF HostInv
  <2>10. \A g \in Hosts : hostQueues'[g].inReadyQueue <=> In(g, readyHosts')
    BY <2>2, <2>7, <2>8 DEF HostInv
  <2>11. hostQueues' \in [Hosts -> HostQueue] /\ sleepingHosts' \in SUBSET SleepingHost
    BY <2>1, <2>2
  <2>12. hostQueues'[h].inFlight = q.inFlight /\ FlagsOK(hostQueues'[h]) /\ DelayOK(hostQueues'[h], clock, until)
    BY <2>2, <2>3, <2>6, <2>8
  <2> QED
    BY <2>7, <2>8, <2>9, <2>10, <2>11, <2>12
<1> QED
  BY <1>1, <1>2, <1>3 DEF HostQueue

-----------------------------------------------------------------------------
(* The steps that leave the hosts alone *)

\* Time may pass and locals may change.
LEMMA HostsUntouched ==
  ASSUME TypeOK, TypeOK', HostInv, UNCHANGED <<hosts, activeHostKey, notBefore>>,
         now <= now', nowMs' <= now'
  PROVE  HostInv'
<1>1. UNCHANGED <<hostQueues, readyHosts, sleepingHosts, activeHostKey, notBefore>>
  BY DEF hosts
<1>2. \A h \in Hosts : DelayOK(hostQueues[h], now, notBefore[h])
                         => DelayOK(hostQueues[h], now', notBefore[h])
  BY DEF DelayOK, TypeOK
<1> QED
  BY <1>1, <1>2 DEF HostInv, Works, ActiveOnce

\* Notifications move waiting threads to "woken", and t to s.
LEMMA NotifyTypes ==
  ASSUME TypeOK, NEW t \in Threads, NEW s \in PcValues,
         NotifyAll(t, s) \/ NotifyOne(t, s)
  PROVE  /\ pc' \in [Threads -> PcValues]
         /\ t \notin Waiting => pc'[t] = s
         /\ \A u \in Threads : u # t =>
              pc'[u] = pc[u] \/ (pc[u] = "waiting" /\ pc'[u] = "woken")
<1> USE DEF TypeOK, PcValues, Waiting
<1>0. Crawlers \subseteq Threads
  BY DEF Threads
<1>1. CASE NotifyAll(t, s)
  BY <1>1 DEF NotifyAll
<1>2. CASE Waiting = {} /\ pc' = [pc EXCEPT ![t] = s]
  BY <1>2
<1>3. ASSUME NEW u \in Waiting, pc' = [pc EXCEPT ![t] = s, ![u] = "woken"]
      PROVE  /\ pc' \in [Threads -> PcValues]
             /\ t \notin Waiting => pc'[t] = s
             /\ \A v \in Threads : v # t =>
                  pc'[v] = pc[v] \/ (pc[v] = "waiting" /\ pc'[v] = "woken")
  BY <1>0, <1>3
<1> QED
  BY <1>1, <1>2, <1>3 DEF NotifyOne

LEMMA PopEnterInv == ASSUME Inv, NEW t \in Crawlers, PopEnter(t) PROVE Inv'
<1> USE DEF Inv, PopEnter, layers, hosts, counters, threads, history, Forever
<1>1. TypeOK'
  BY BoundsAssumption DEF TypeOK, PcValues, Threads
<1>2. TaskPhase'
  BY DEF TaskPhase, TypeOK, Threads
<1>3. HostInv'
  BY <1>1, HostsUntouched DEF TypeOK
<1> QED
  BY <1>1, <1>2, <1>3

LEMMA RefillInv == ASSUME Inv, NEW t \in Crawlers, Refill(t) PROVE Inv'
<1> USE DEF Inv, Refill, hosts, counters, threads, history, locals
<1>1. Loaded \in SUBSET Items
  BY DEF Loaded, Loads, TypeOK
<1>2. chunks' \in Seq(SUBSET Items)
  <2>1. Loads => chunks # <<>>
    BY DEF Loads
  <2>2. chunks # <<>> => SubSeq(chunks, 1, Len(chunks) - 1) \in Seq(SUBSET Items)
    BY DEF TypeOK
  <2> QED
    BY <2>1, <2>2 DEF TypeOK, ChunksLeft
<1>3. TypeOK'
  BY <1>1, <1>2 DEF TypeOK, PcValues, Threads
<1>4. TaskPhase'
  BY DEF TaskPhase, TypeOK, Threads
<1>5. HostInv'
  <2>1. now' = now /\ nowMs' = nowMs
    OBVIOUS
  <2> QED
    BY <1>3, <2>1, HostsUntouched DEF TypeOK, HostInv
<1> QED
  BY <1>3, <1>4, <1>5

LEMMA PopClosedInv == ASSUME Inv, NEW t \in Crawlers, PopClosed(t) PROVE Inv'
<1> USE DEF Inv, PopClosed, Draining, Unlocked, layers, hosts, counters, threads, history
<1>1. TypeOK'
  BY DEF TypeOK, PcValues, Threads
<1>2. TaskPhase'
  BY DEF TaskPhase, TypeOK, Threads
<1>3. HostInv'
  BY <1>1, HostsUntouched DEF TypeOK
<1> QED
  BY <1>1, <1>2, <1>3

LEMMA PopWaitInv == ASSUME Inv, NEW t \in Crawlers, PopWait(t) PROVE Inv'
<1> USE DEF Inv, PopWait, Draining, Unlocked, layers, hosts, counters, threads, history
<1>1. deadline' \in [Crawlers -> Nat]
  <2>1. Forever \in Nat
    BY BoundsAssumption DEF Forever
  <2>2. \A e \in sleepingHosts : e.readyAtMs \in Nat
    BY DEF TypeOK, SleepingHost
  <2> QED
    BY <2>1, <2>2 DEF TypeOK
<1>2. TypeOK'
  BY <1>1 DEF TypeOK, PcValues, Threads
<1>3. TaskPhase'
  BY DEF TaskPhase, TypeOK, Threads
<1>4. HostInv'
  BY <1>2, HostsUntouched DEF TypeOK
<1> QED
  BY <1>2, <1>3, <1>4

LEMMA PopAgainInv == ASSUME Inv, NEW t \in Crawlers, PopAgain(t) PROVE Inv'
<1> USE DEF Inv, PopAgain, Draining, layers, hosts, counters, threads, history
<1>1. TypeOK'
  BY DEF TypeOK, PcValues, Threads
<1>2. TaskPhase'
  BY DEF TaskPhase, TypeOK, Threads
<1>3. HostInv'
  BY <1>1, HostsUntouched DEF TypeOK
<1> QED
  BY <1>1, <1>2, <1>3

LEMMA TimeOutInv == ASSUME Inv, NEW t \in Crawlers, TimeOut(t) PROVE Inv'
<1> USE DEF Inv, TimeOut, layers, hosts, counters, threads, history, locals
<1>1. TypeOK'
  BY DEF TypeOK, PcValues, Threads
<1>2. TaskPhase'
  BY DEF TaskPhase, TypeOK, Threads
<1>3. HostInv'
  BY <1>1, HostsUntouched DEF TypeOK, HostInv
<1> QED
  BY <1>1, <1>2, <1>3

LEMMA ShutdownInv == ASSUME Inv, Shutdown PROVE Inv'
<1> USE DEF Inv, Shutdown, layers, hosts, counters, threads, history, locals
<1>1. TypeOK'
  BY DEF TypeOK, PcValues, Threads
<1>2. TaskPhase'
  BY DEF TaskPhase, TypeOK, Threads, Waiting
<1>3. HostInv'
  BY <1>1, HostsUntouched DEF TypeOK, HostInv
<1> QED
  BY <1>1, <1>2, <1>3

LEMMA TickInv == ASSUME Inv, Tick PROVE Inv'
<1> USE DEF Inv, Tick, layers, hosts, counters, threads, history, locals
<1>1. TypeOK'
  BY DEF TypeOK
<1>2. TaskPhase'
  BY DEF TaskPhase, TypeOK
<1>3. HostInv'
  <2>1. now <= now' /\ nowMs' <= now'
    BY DEF TypeOK, HostInv
  <2> QED
    BY <1>1, <2>1, HostsUntouched
<1> QED
  BY <1>1, <1>2, <1>3

-----------------------------------------------------------------------------
(* Pushing *)

\* Whatever layer the item lands in.
LEMMA PushInternalTypes ==
  ASSUME TypeOK, NEW i \in Items, PushInternal(i)
  PROVE  /\ reservoir' \in SUBSET Items /\ diskBackReservoir' \in SUBSET Items
         /\ chunks' \in Seq(SUBSET Items)
         /\ pending' \in Nat /\ queued' \in Int /\ added' \in SUBSET Items
<1> USE DEF TypeOK
<1>1. \A backup \in SUBSET diskBackReservoir :
        Append(chunks, backup) \in Seq(SUBSET Items)
  OBVIOUS
<1>2. pending' \in Nat /\ queued' \in Int /\ added' \in SUBSET Items
  BY DEF PushInternal, CountPushed
<1>3. reservoir' \in SUBSET Items /\ diskBackReservoir' \in SUBSET Items
  BY DEF PushInternal
<1>4. chunks' \in Seq(SUBSET Items)
  BY <1>1 DEF PushInternal
<1> QED
  BY <1>2, <1>3, <1>4

LEMMA PushOneOfInv ==
  ASSUME Inv, NEW t \in Threads, NEW i \in Items, NEW rest \in SUBSET Items,
         pc[t] = "push" \/ MayPush(t), PushOneOf(t, i, rest)
  PROVE  Inv'
<1> USE DEF Inv, PushOneOf, hosts, threads
<1>0. AfterPush(t) \in {"busy", "idle"} /\ t \notin Waiting
  BY DEF AfterPush, MayPush, Waiting
<1>1. /\ pc' \in [Threads -> PcValues]
      /\ pc'[t] = AfterPush(t) \/ pc'[t] = "push"
      /\ \A u \in Threads : u # t =>
              pc'[u] = pc[u] \/ (pc[u] = "waiting" /\ pc'[u] = "woken")
  <2>1. CASE rest = {}
    BY <1>0, <2>1, NotifyTypes DEF PcValues
  <2>2. CASE rest # {}
    BY <2>2 DEF TypeOK, PcValues
  <2> QED
    BY <2>1, <2>2
<1>2. TypeOK'
  BY <1>1, PushInternalTypes DEF TypeOK
<1>3. TaskPhase'
  <2>1. t \in Crawlers => pc[t] \in {"busy", "push"} /\ pc'[t] \in {"busy", "push"}
    BY <1>1 DEF MayPush, AfterPush
  <2> QED
    BY <1>1, <2>1 DEF TaskPhase, Threads
<1>4. HostInv'
  BY <1>2, HostsUntouched DEF TypeOK, HostInv
<1> QED
  BY <1>2, <1>3, <1>4

LEMMA PushManyInv == ASSUME Inv, NEW t \in Threads, PushMany(t) PROVE Inv'
<1>1. PICK S \in SUBSET (Items \ added) : \E i \in S : PushOneOf(t, i, S \ {i})
  BY DEF PushMany
<1>2. PICK i \in S : PushOneOf(t, i, S \ {i})
  BY <1>1
<1>3. i \in Items /\ S \ {i} \in SUBSET Items /\ MayPush(t)
  BY <1>1, <1>2 DEF PushMany
<1> QED
  BY <1>2, <1>3, PushOneOfInv

LEMMA PushRestInv == ASSUME Inv, NEW t \in Threads, PushRest(t) PROVE Inv'
<1>1. PICK i \in batch : PushOneOf(t, i, batch \ {i})
  BY DEF PushRest
<1>2. i \in Items /\ batch \ {i} \in SUBSET Items /\ pc[t] = "push"
  BY DEF PushRest, Inv, TypeOK
<1> QED
  BY <1>1, <1>2, PushOneOfInv

LEMMA PushInv == ASSUME Inv, NEW t \in Threads, Push(t) PROVE Inv'
<1> USE DEF Inv, Push, hosts, threads, locals
<1>0. AfterPush(t) \in PcValues /\ t \notin Waiting /\ AfterPush(t) = pc[t]
  BY DEF AfterPush, MayPush, Waiting, PcValues
<1>1. /\ pc' \in [Threads -> PcValues] /\ pc'[t] = pc[t]
      /\ \A u \in Threads : u # t =>
              pc'[u] = pc[u] \/ (pc[u] = "waiting" /\ pc'[u] = "woken")
  BY <1>0, NotifyTypes
<1>2. TypeOK'
  BY <1>1, PushInternalTypes DEF TypeOK
<1>3. TaskPhase'
  BY <1>1 DEF TaskPhase, Threads
<1>4. HostInv'
  BY <1>2, HostsUntouched DEF TypeOK, HostInv
<1> QED
  BY <1>2, <1>3, <1>4

-----------------------------------------------------------------------------
(* Waking, promoting, handing out *)

LEMMA WakeHostInv == ASSUME Inv, NEW t \in Crawlers, WakeHost(t) PROVE Inv'
<1> USE DEF Inv, layers, counters, threads, history, locals
<1>1. PICK e \in Due :
        /\ sleepingHosts' = sleepingHosts \ {e}
        /\ IF Current(e)
           THEN /\ hostQueues' = [hostQueues EXCEPT
                      ![e.hostKey].blockedUntilMs = 0,
                      ![e.hostKey].inSleepingQueue = FALSE,
                      ![e.hostKey].inReadyQueue = TRUE]
                /\ readyHosts' = Append(readyHosts, e.hostKey)
           ELSE UNCHANGED <<hostQueues, readyHosts>>
  BY DEF WakeHost
<1>2. UNCHANGED <<layers, counters, locals, threads, history, now, pc, deadline>>
  BY DEF WakeHost
<1> DEFINE h == e.hostKey
           q == hostQueues[h]
<1>3. /\ h \in Hosts /\ q \in HostQueue /\ e \in sleepingHosts
      /\ e.readyAtMs \in Nat /\ e.generation \in Nat /\ e.readyAtMs <= nowMs
      /\ e = [readyAtMs |-> e.readyAtMs, generation |-> e.generation, hostKey |-> h]
  BY DEF Due, TypeOK, SleepingHost
<1>4. CASE Current(e)
  <2> DEFINE r == [q EXCEPT !.blockedUntilMs = 0, !.inSleepingQueue = FALSE,
                            !.inReadyQueue = TRUE]
  <2>1. /\ hostQueues' = [hostQueues EXCEPT ![h] = r]
        /\ readyHosts' = Append(readyHosts, h)
    BY <1>1, <1>3, <1>4 DEF TypeOK
  <2>2. /\ q.sleepGeneration = e.generation /\ q.items # <<>> /\ ~q.inFlight
        /\ ~q.inReadyQueue /\ q.blockedUntilMs <= nowMs
    BY <1>4 DEF Current, Runnable
  <2>3. /\ r \in HostQueue /\ r.items = q.items /\ ~r.inFlight
        /\ r.inReadyQueue /\ ~r.inSleepingQueue /\ r.blockedUntilMs = 0
        /\ r.sleepGeneration = q.sleepGeneration
    BY <1>3, <2>2 DEF HostQueue
  <2>4. /\ hostQueues'[h] = r
        /\ \A g \in Hosts : g # h => hostQueues'[g] = hostQueues[g]
        /\ hostQueues' \in [Hosts -> HostQueue]
    BY <1>3, <2>1, <2>3 DEF TypeOK
  <2>5. ~In(h, readyHosts)
    BY <1>3, <2>2 DEF HostInv
  <2>6. /\ readyHosts' \in Seq(Hosts)
        /\ \A g : In(g, readyHosts') <=> (In(g, readyHosts) \/ g = h)
        /\ Once(readyHosts')
    BY <1>3, <2>1, <2>5, AppendMembers DEF HostInv, TypeOK
  <2> HIDE DEF r
  <2>7. TypeOK'
    BY <1>1, <1>2, <2>4, <2>6 DEF TypeOK
  <2>8. FlagsOK(r)
    BY <2>2, <2>3 DEF FlagsOK
  <2>9. \A g \in Hosts : HeapOK(g, hostQueues'[g], sleepingHosts')
    <3>1. HeapOK(h, r, sleepingHosts')
      BY <1>1, <1>3, <2>3 DEF HeapOK, HostInv
    <3>2. ASSUME NEW g \in Hosts, g # h
          PROVE  HeapOK(g, hostQueues[g], sleepingHosts')
      <4>1. HeapOK(g, hostQueues[g], sleepingHosts)
        BY DEF HostInv
      <4> QED
        BY <1>1, <3>2, <4>1 DEF HeapOK
    <3> QED
      BY <2>4, <3>1, <3>2
  <2>10. \A g \in Hosts : DelayOK(hostQueues'[g], now', notBefore'[g])
    <3>1. DelayOK(r, now, notBefore[h])
      BY <1>3, <2>2, <2>3 DEF DelayOK, HostInv, TypeOK, HostQueue
    <3> QED
      BY <1>2, <2>4, <3>1 DEF HostInv
  <2>11. \A g \in Hosts : hostQueues'[g].inReadyQueue <=> In(g, readyHosts')
    BY <2>3, <2>4, <2>6 DEF HostInv
  <2>12. \A g \in Hosts : hostQueues'[g].inFlight <=> Works(g, activeHostKey')
    BY <1>2, <2>2, <2>3, <2>4 DEF HostInv, Works
  <2>13. HostInv'
    BY <1>2, <2>4, <2>6, <2>8, <2>9, <2>10, <2>11, <2>12 DEF HostInv, ActiveOnce
  <2>14. TaskPhase'
    BY <1>2 DEF TaskPhase
  <2> QED
    BY <2>7, <2>13, <2>14
<1>5. CASE ~Current(e)
  <2>1. UNCHANGED <<hostQueues, readyHosts>>
    BY <1>1, <1>5
  <2>2. TypeOK'
    BY <1>1, <1>2, <2>1 DEF TypeOK
  <2>3. ASSUME NEW g \in Hosts
        PROVE  HeapOK(g, hostQueues[g], sleepingHosts')
    <3>1. HeapOK(g, hostQueues[g], sleepingHosts)
      BY DEF HostInv
    <3>2. CASE g # h
      BY <1>1, <3>1, <3>2 DEF HeapOK
    <3>3. CASE g = h /\ e.generation # q.sleepGeneration
      BY <1>1, <3>1, <3>3 DEF HeapOK
    <3>4. CASE g = h /\ ~q.inSleepingQueue
      BY <1>1, <3>1, <3>4 DEF HeapOK
    <3>5. CASE g = h /\ q.inSleepingQueue /\ e.generation = q.sleepGeneration
      <4>1. e.readyAtMs = q.blockedUntilMs
        BY <1>3, <3>1, <3>5 DEF HeapOK
      <4>2. FlagsOK(q)
        BY <1>3 DEF HostInv
      <4>3. Current(e)
        BY <1>3, <3>5, <4>1, <4>2 DEF Current, Runnable, FlagsOK, HostQueue
      <4> QED
        BY <1>5, <4>3
    <3> QED
      BY <1>3, <3>2, <3>3, <3>4, <3>5 DEF HostQueue
  <2>4. HostInv'
    BY <1>2, <2>1, <2>3 DEF HostInv, Works, ActiveOnce
  <2>5. TaskPhase'
    BY <1>2 DEF TaskPhase
  <2> QED
    BY <2>2, <2>4, <2>5
<1> QED
  BY <1>4, <1>5

LEMMA PromoteInv == ASSUME Inv, NEW t \in Crawlers, Promote(t) PROVE Inv'
<1> USE DEF Inv, counters, threads, history
<1> DEFINE left == IF winners > 0 THEN winners
                   ELSE WinnersToKeep(Cardinality(reservoir))
<1>1. PICK i \in reservoir :
        /\ reservoir' = reservoir \ {i}
        /\ ScheduleHost(HostOf[i],
             [hostQueues[HostOf[i]] EXCEPT !.items = Append(@, i)], nowMs)
  BY DEF Promote
<1>2. /\ winners' = left - 1
      /\ nowMs' = IF left = 1 THEN now ELSE nowMs
      /\ UNCHANGED <<diskBackReservoir, chunks, counters, threads, history, now,
                     pc, deadline, batch>>
  BY DEF Promote
<1> DEFINE h == HostOf[i]
           old == hostQueues[h]
           q == [old EXCEPT !.items = Append(@, i)]
<1>3. /\ i \in Items /\ h \in Hosts /\ old \in HostQueue
  BY HostsAssumption DEF TypeOK
<1>4. Append(old.items, i) \in Seq(Items) /\ Append(old.items, i) # <<>>
  BY <1>3 DEF HostQueue
<1>5. /\ q \in HostQueue /\ q.items # <<>>
      /\ q.inFlight = old.inFlight /\ q.inReadyQueue = old.inReadyQueue
      /\ q.inSleepingQueue = old.inSleepingQueue
      /\ q.blockedUntilMs = old.blockedUntilMs
      /\ q.sleepGeneration = old.sleepGeneration
  BY <1>3, <1>4 DEF HostQueue
<1>6. ScheduleHost(h, q, nowMs)
  BY <1>1
<1> HIDE DEF q
<1>7. Schedulable(h, q, nowMs)
  BY <1>3, <1>5 DEF Schedulable, HostInv, FlagsOK, HeapOK, TypeOK
<1>8. DelayOK(q, now, notBefore[h])
  BY <1>3, <1>5 DEF HostInv, DelayOK
<1>9. nowMs \in Nat /\ now \in Nat /\ notBefore[h] \in Nat /\ nowMs <= now
  BY <1>3 DEF TypeOK, HostInv
<1>10. /\ hostQueues' \in [Hosts -> HostQueue]
       /\ readyHosts' \in Seq(Hosts)
       /\ sleepingHosts' \in SUBSET SleepingHost
       /\ \A g \in Hosts : g # h => hostQueues'[g] = hostQueues[g]
       /\ hostQueues'[h].inFlight = q.inFlight
       /\ FlagsOK(hostQueues'[h])
       /\ \A g \in Hosts : HeapOK(g, hostQueues'[g], sleepingHosts')
       /\ \A g \in Hosts : hostQueues'[g].inReadyQueue <=> In(g, readyHosts')
       /\ Once(readyHosts')
       /\ DelayOK(hostQueues'[h], now, notBefore[h])
  BY <1>3, <1>5, <1>6, <1>7, <1>8, <1>9, ScheduleHostSound
<1>11. left \in Nat \ {0}
  <2>1. IsFiniteSet(reservoir)
    BY FiniteAssumption, FS_Subset DEF TypeOK
  <2>2. Cardinality(reservoir) \in Nat \ {0}
    BY <2>1, <1>1, FS_CardinalityType, FS_EmptySet
  <2> QED
    BY <2>2 DEF WinnersToKeep, TypeOK
<1>12. TypeOK'
  <2>1. winners' \in Nat /\ nowMs' \in Nat /\ reservoir' \in SUBSET Items
    BY <1>1, <1>2, <1>9, <1>11 DEF TypeOK
  <2> QED
    BY <1>2, <1>10, <2>1 DEF TypeOK
<1>13. TaskPhase'
  BY <1>2 DEF TaskPhase
<1>14. HostInv'
  <2>1. \A g \in Hosts : FlagsOK(hostQueues'[g])
    BY <1>10 DEF HostInv
  <2>2. \A g \in Hosts : DelayOK(hostQueues'[g], now', notBefore'[g])
    BY <1>2, <1>10 DEF HostInv
  <2>3. \A g \in Hosts : hostQueues'[g].inFlight <=> Works(g, activeHostKey')
    BY <1>2, <1>3, <1>5, <1>10 DEF HostInv, Works
  <2>4. nowMs' <= now'
    BY <1>2, <1>9
  <2> QED
    BY <1>2, <1>10, <2>1, <2>2, <2>3, <2>4 DEF HostInv, ActiveOnce
<1> QED
  BY <1>12, <1>13, <1>14

LEMMA PopReadyInv == ASSUME Inv, NEW t \in Crawlers, PopReady(t) PROVE Inv'
<1> USE DEF Inv, layers, history
<1> DEFINE h == Head(readyHosts)
           q == hostQueues[h]
<1>1. /\ Draining(t) /\ readyHosts # <<>> /\ readyHosts' = Tail(readyHosts)
      /\ UNCHANGED <<layers, sleepingHosts, closed, pending, history, now, deadline>>
  BY DEF PopReady
<1>2. /\ h \in Hosts /\ In(h, readyHosts) /\ readyHosts' \in Seq(Hosts)
      /\ Once(readyHosts')
      /\ \A g : In(g, readyHosts') <=> (In(g, readyHosts) /\ g # h)
  BY <1>1, TailMembers DEF TypeOK, HostInv
<1>3. /\ q \in HostQueue /\ q.inReadyQueue /\ ~q.inFlight /\ q.items # <<>>
      /\ ~q.inSleepingQueue /\ q.blockedUntilMs = 0
  BY <1>2 DEF TypeOK, HostInv, FlagsOK
<1> DEFINE r == [q EXCEPT !.items = Tail(@), !.inFlight = TRUE,
                          !.inReadyQueue = FALSE]
<1>4. /\ hostQueues' = [hostQueues EXCEPT ![h] = r]
      /\ queued' = queued - 1
      /\ hand' = [hand EXCEPT ![t] = Head(q.items)]
      /\ activeHostKey' = [activeHostKey EXCEPT ![t] = h]
      /\ pc' = [pc EXCEPT ![t] = "busy"]
      /\ nowMs' = 0 /\ winners' = 0 /\ batch' = {}
  BY <1>3 DEF PopReady, Unlocked
<1>5. Tail(q.items) \in Seq(Items) /\ Head(q.items) \in Items
  BY <1>3 DEF HostQueue
<1>6. /\ r \in HostQueue /\ r.inFlight /\ ~r.inReadyQueue /\ ~r.inSleepingQueue
      /\ r.blockedUntilMs = 0 /\ r.sleepGeneration = q.sleepGeneration
  BY <1>3, <1>5 DEF HostQueue
<1> HIDE DEF r
<1>7. /\ hostQueues'[h] = r /\ hostQueues' \in [Hosts -> HostQueue]
      /\ \A g \in Hosts : g # h => hostQueues'[g] = hostQueues[g]
  BY <1>2, <1>4, <1>6 DEF TypeOK
<1>8. pc[t] \in {"drain", "sweep"} /\ activeHostKey[t] = NoHost
  BY <1>1 DEF Draining, TaskPhase
<1>9. NoHost \notin Hosts /\ NoItem \notin Items
  BY HostsAssumption
<1>10. \A u \in Crawlers : activeHostKey[u] # h
  BY <1>2, <1>3 DEF HostInv, Works
<1>11. TypeOK'
  BY <1>1, <1>2, <1>4, <1>5, <1>7 DEF TypeOK, PcValues, Threads
<1>12. TaskPhase'
  BY <1>2, <1>4, <1>5, <1>9 DEF TaskPhase, TypeOK, Threads
<1>13. HostInv'
  <2>1. \A g \in Hosts : FlagsOK(hostQueues'[g])
    <3>1. FlagsOK(r)
      BY <1>6 DEF FlagsOK
    <3> QED
      BY <1>7, <3>1 DEF HostInv
  <2>2. \A g \in Hosts : HeapOK(g, hostQueues'[g], sleepingHosts')
    <3>1. HeapOK(h, q, sleepingHosts)
      BY <1>2 DEF HostInv
    <3>2. HeapOK(h, r, sleepingHosts)
      BY <1>6, <3>1 DEF HeapOK
    <3> QED
      BY <1>1, <1>7, <3>2 DEF HostInv
  <2>3. \A g \in Hosts : DelayOK(hostQueues'[g], now', notBefore'[g])
    <3>1. DelayOK(r, now, notBefore[h])
      BY <1>2, <1>3, <1>6 DEF DelayOK, HostInv
    <3> QED
      BY <1>1, <1>7, <3>1 DEF HostInv
  <2>4. \A g \in Hosts : hostQueues'[g].inReadyQueue <=> In(g, readyHosts')
    BY <1>2, <1>6, <1>7 DEF HostInv
  <2>5. \A g \in Hosts : hostQueues'[g].inFlight <=> Works(g, activeHostKey')
    <3>1. Works(h, activeHostKey')
      BY <1>2, <1>4 DEF Works, TypeOK
    <3>2. \A g \in Hosts : g # h => (Works(g, activeHostKey') <=> Works(g, activeHostKey))
      BY <1>4, <1>8, <1>9 DEF Works, TypeOK
    <3> QED
      BY <1>6, <1>7, <3>1, <3>2 DEF HostInv
  <2>6. ActiveOnce'
    BY <1>4, <1>10 DEF ActiveOnce, HostInv, TypeOK
  <2>7. nowMs' <= now'
    BY <1>1, <1>4 DEF TypeOK
  <2> QED
    BY <1>2, <2>1, <2>2, <2>3, <2>4, <2>5, <2>6, <2>7 DEF HostInv
<1> QED
  BY <1>11, <1>12, <1>13

-----------------------------------------------------------------------------
(* The end of a task *)

\* What a thread in a task knows of its host, and what forgetting it does.
LEMMA HolderFacts ==
  ASSUME Inv, NEW t \in Crawlers, pc[t] = "busy"
  PROVE  LET h == activeHostKey[t] IN
         /\ h \in Hosts /\ hostQueues[h] \in HostQueue /\ hand[t] \in Items
         /\ hostQueues[h].inFlight /\ ~hostQueues[h].inReadyQueue
         /\ ~hostQueues[h].inSleepingQueue /\ hostQueues[h].blockedUntilMs = 0
<1>1. activeHostKey[t] \in Hosts /\ hand[t] \in Items
  BY HostsAssumption DEF Inv, TypeOK, TaskPhase
<1>2. hostQueues[activeHostKey[t]].inFlight
  BY <1>1 DEF Inv, HostInv, Works
<1> QED
  BY <1>1, <1>2 DEF Inv, TypeOK, HostInv, FlagsOK

LEMMA ForgetFacts ==
  ASSUME Inv, NEW t \in Crawlers, pc[t] = "busy", ForgetTask(t)
  PROVE  /\ hand' \in [Crawlers -> Items \cup {NoItem}]
         /\ activeHostKey' \in [Crawlers -> Hosts \cup {NoHost}]
         /\ ActiveOnce'
         /\ ~Works(activeHostKey[t], activeHostKey')
         /\ \A g \in Hosts : g # activeHostKey[t] => (Works(g, activeHostKey') <=> Works(g, activeHostKey))
<1>1. activeHostKey[t] \in Hosts /\ NoHost \notin Hosts
  BY HolderFacts, HostsAssumption
<1> QED
  BY <1>1 DEF ForgetTask, Inv, TypeOK, HostInv, ActiveOnce, Works

LEMMA TaskDoneInv == ASSUME Inv, NEW t \in Crawlers, TaskDone(t) PROVE Inv'
<1> USE DEF Inv, layers, locals
<1> DEFINE h == activeHostKey[t]
           old == hostQueues[h]
           q == [old EXCEPT !.inFlight = FALSE]
<1>1. /\ pc[t] = "busy" /\ ScheduleHost(h, q, now) /\ ForgetTask(t)
      /\ finished' = finished \cup {hand[t]}
      /\ UNCHANGED <<layers, queued, locals, added, notBefore, now, deadline>>
  BY DEF TaskDone
<1>2. /\ h \in Hosts /\ old \in HostQueue /\ hand[t] \in Items
      /\ old.inFlight /\ ~old.inReadyQueue
      /\ ~old.inSleepingQueue /\ old.blockedUntilMs = 0
  BY <1>1, HolderFacts
<1>3. /\ q \in HostQueue /\ ~q.inFlight /\ ~q.inReadyQueue /\ ~q.inSleepingQueue
      /\ q.blockedUntilMs = 0 /\ q.sleepGeneration = old.sleepGeneration
  BY <1>2 DEF HostQueue
<1> HIDE DEF q
<1>4. Schedulable(h, q, now)
  <2>1. HeapOK(h, q, sleepingHosts)
    <3>1. HeapOK(h, old, sleepingHosts)
      BY <1>2 DEF HostInv
    <3> QED
      BY <1>3, <3>1 DEF HeapOK
  <2>2. q.inReadyQueue = old.inReadyQueue
    BY <1>2, <1>3 DEF HostQueue
  <2> QED
    BY <1>3, <2>1, <2>2 DEF Schedulable, TypeOK
<1>5. now \in Nat /\ notBefore[h] \in Nat /\ DelayOK(q, now, notBefore[h])
  BY <1>2, <1>3 DEF HostInv, DelayOK, TypeOK
<1>6. /\ hostQueues' \in [Hosts -> HostQueue]
      /\ readyHosts' \in Seq(Hosts)
      /\ sleepingHosts' \in SUBSET SleepingHost
      /\ \A g \in Hosts : g # h => hostQueues'[g] = hostQueues[g]
      /\ hostQueues'[h].inFlight = q.inFlight
      /\ FlagsOK(hostQueues'[h])
      /\ \A g \in Hosts : HeapOK(g, hostQueues'[g], sleepingHosts')
      /\ \A g \in Hosts : hostQueues'[g].inReadyQueue <=> In(g, readyHosts')
      /\ Once(readyHosts')
      /\ DelayOK(hostQueues'[h], now, notBefore[h])
  BY <1>1, <1>2, <1>3, <1>4, <1>5, ScheduleHostSound
<1>7. /\ pc' \in [Threads -> PcValues] /\ pc'[t] = "out"
      /\ \A u \in Threads : u # t =>
              pc'[u] = pc[u] \/ (pc[u] = "waiting" /\ pc'[u] = "woken")
  <2>1. t \in Threads /\ t \notin Waiting /\ "out" \in PcValues
    BY <1>1 DEF Threads, Waiting, PcValues
  <2>2. \/ NotifyAll(t, "out") \/ NotifyOne(t, "out")
        \/ pc' = [pc EXCEPT ![t] = "out"]
    BY DEF TaskDone
  <2> QED
    BY <2>1, <2>2, NotifyTypes DEF TypeOK
<1>8. pending' \in Nat /\ closed' \in BOOLEAN
  BY FlagsAssumption DEF TaskDone, TypeOK
<1>9. TypeOK'
  BY <1>1, <1>2, <1>6, <1>7, <1>8, ForgetFacts DEF TypeOK
<1>10. TaskPhase'
  BY <1>1, <1>7 DEF TaskPhase, Threads, ForgetTask, TypeOK
<1>11. HostInv'
  <2>1. \A g \in Hosts : FlagsOK(hostQueues'[g])
    BY <1>6 DEF HostInv
  <2>2. \A g \in Hosts : DelayOK(hostQueues'[g], now', notBefore'[g])
    BY <1>1, <1>6 DEF HostInv
  <2>3. \A g \in Hosts : hostQueues'[g].inFlight <=> Works(g, activeHostKey')
    BY <1>1, <1>2, <1>3, <1>6, ForgetFacts DEF HostInv
  <2>4. nowMs' <= now'
    BY <1>1 DEF HostInv
  <2> QED
    BY <1>1, <1>6, <2>1, <2>2, <2>3, <2>4, ForgetFacts DEF HostInv
<1> QED
  BY <1>9, <1>10, <1>11

LEMMA SnoozeCurrentInv == ASSUME Inv, NEW t \in Crawlers, SnoozeCurrent(t) PROVE Inv'
<1> USE DEF Inv, layers, locals
<1> DEFINE h == activeHostKey[t]
           old == hostQueues[h]
<1>1. /\ pc[t] = "busy" /\ ForgetTask(t) /\ NotifyAll(t, "out")
      /\ queued' = queued + 1
      /\ UNCHANGED <<layers, closed, pending, locals, added, finished, now, deadline>>
  BY DEF SnoozeCurrent
<1>2. /\ h \in Hosts /\ old \in HostQueue /\ hand[t] \in Items
      /\ old.inFlight /\ ~old.inReadyQueue
      /\ ~old.inSleepingQueue /\ old.blockedUntilMs = 0
  BY <1>1, HolderFacts
<1>3. PICK readyAt \in 1..MaxTime :
        LET until == IF readyAt > old.blockedUntilMs THEN readyAt
                     ELSE old.blockedUntilMs
            q == [old EXCEPT !.inFlight = FALSE,
                             !.items = <<hand[t]>> \o @,
                             !.blockedUntilMs = until,
                             !.sleepGeneration = @ + 1] IN
        /\ notBefore' = [notBefore EXCEPT ![h] = readyAt]
        /\ \/ /\ until > now
              /\ hostQueues' = [hostQueues EXCEPT ![h] =
                                   [q EXCEPT !.inSleepingQueue = TRUE]]
              /\ sleepingHosts' = sleepingHosts \cup
                     {[readyAtMs |-> until, generation |-> q.sleepGeneration,
                       hostKey |-> h]}
              /\ UNCHANGED readyHosts
           \/ until <= now /\ ScheduleHost(h, q, now)
  BY DEF SnoozeCurrent
<1> DEFINE its == <<hand[t]>> \o old.items
           gen == old.sleepGeneration + 1
           q == [old EXCEPT !.inFlight = FALSE,
                            !.items = its,
                            !.blockedUntilMs = readyAt,
                            !.sleepGeneration = gen]
<1>4. readyAt \in Nat /\ readyAt > 0 /\ readyAt > old.blockedUntilMs
  BY <1>2, BoundsAssumption
<1>5. /\ notBefore' = [notBefore EXCEPT ![h] = readyAt]
      /\ \/ /\ readyAt > now
            /\ hostQueues' = [hostQueues EXCEPT ![h] =
                                 [q EXCEPT !.inSleepingQueue = TRUE]]
            /\ sleepingHosts' = sleepingHosts \cup
                   {[readyAtMs |-> readyAt, generation |-> q.sleepGeneration,
                     hostKey |-> h]}
            /\ UNCHANGED readyHosts
         \/ readyAt <= now /\ ScheduleHost(h, q, now)
  BY <1>3, <1>4
<1>6. its \in Seq(Items) /\ its # <<>> /\ gen \in Nat
  BY <1>2 DEF HostQueue
<1>7. /\ q \in HostQueue /\ ~q.inFlight /\ ~q.inReadyQueue /\ ~q.inSleepingQueue
      /\ q.items # <<>> /\ q.blockedUntilMs = readyAt
      /\ q.sleepGeneration = old.sleepGeneration + 1
  <2>1. gen = old.sleepGeneration + 1
    OBVIOUS
  <2> HIDE DEF its, gen
  <2> QED
    BY <1>2, <1>4, <1>6, <2>1 DEF HostQueue
<1> HIDE DEF q
<1>8. /\ now \in Nat /\ notBefore' \in [Hosts -> Nat] /\ notBefore'[h] = readyAt
      /\ \A g \in Hosts : g # h => notBefore'[g] = notBefore[g]
  BY <1>2, <1>4, <1>5 DEF TypeOK
<1>9. \A e \in sleepingHosts : /\ e.generation \in Nat
                               /\ e.hostKey = h => e.generation < q.sleepGeneration
  <2>1. HeapOK(h, old, sleepingHosts)
    BY <1>2 DEF HostInv
  <2> QED
    BY <1>2, <1>7, <2>1 DEF HeapOK, TypeOK, SleepingHost, HostQueue
\* The host's own entries, flags and delay, and the frame.
<1>10. /\ hostQueues' \in [Hosts -> HostQueue]
       /\ readyHosts' \in Seq(Hosts)
       /\ sleepingHosts' \in SUBSET SleepingHost
       /\ \A g \in Hosts : g # h => hostQueues'[g] = hostQueues[g]
       /\ hostQueues'[h].inFlight = q.inFlight
       /\ FlagsOK(hostQueues'[h])
       /\ \A g \in Hosts : HeapOK(g, hostQueues'[g], sleepingHosts')
       /\ \A g \in Hosts : hostQueues'[g].inReadyQueue <=> In(g, readyHosts')
       /\ Once(readyHosts')
       /\ DelayOK(hostQueues'[h], now, readyAt)
  <2>1. CASE readyAt > now
    <3> DEFINE r == [q EXCEPT !.inSleepingQueue = TRUE]
               e == [readyAtMs |-> readyAt, generation |-> q.sleepGeneration,
                     hostKey |-> h]
    <3>1. /\ r \in HostQueue /\ ~r.inFlight /\ ~r.inReadyQueue /\ r.inSleepingQueue
          /\ r.items # <<>> /\ r.blockedUntilMs = readyAt
          /\ r.sleepGeneration = q.sleepGeneration
      BY <1>7 DEF HostQueue
    <3>2. /\ hostQueues' = [hostQueues EXCEPT ![h] = r]
          /\ sleepingHosts' = sleepingHosts \cup {e}
          /\ UNCHANGED readyHosts
      BY <1>4, <1>5, <1>8, <2>1
    <3> HIDE DEF r
    <3>3. e \in SleepingHost
      BY <1>2, <1>4, <1>7 DEF SleepingHost, HostQueue
    <3>4. /\ hostQueues'[h] = r /\ hostQueues' \in [Hosts -> HostQueue]
          /\ \A g \in Hosts : g # h => hostQueues'[g] = hostQueues[g]
      BY <1>2, <3>1, <3>2 DEF TypeOK
    <3>5. FlagsOK(r)
      BY <3>1 DEF FlagsOK
    <3>6. HeapOK(h, r, sleepingHosts')
      <4>1. [readyAtMs |-> r.blockedUntilMs, generation |-> r.sleepGeneration,
             hostKey |-> h] = e
        BY <3>1
      <4>2. \A f \in sleepingHosts' :
              f.hostKey = h => f = e \/ f.generation < r.sleepGeneration
        BY <1>9, <3>1, <3>2
      <4>3. e.generation = r.sleepGeneration /\ e.readyAtMs = r.blockedUntilMs
        BY <3>1
      <4>4. r.sleepGeneration \in Nat /\ \A f \in sleepingHosts' : f.generation \in Nat
        BY <1>9, <3>1, <3>2, <3>3 DEF SleepingHost, HostQueue
      <4> HIDE DEF e
      <4> QED
        BY <3>2, <4>1, <4>2, <4>3, <4>4 DEF HeapOK
    <3>7. ASSUME NEW g \in Hosts, g # h
          PROVE  HeapOK(g, hostQueues[g], sleepingHosts')
      <4>1. HeapOK(g, hostQueues[g], sleepingHosts)
        BY DEF HostInv
      <4>2. e.hostKey = h
        OBVIOUS
      <4> HIDE DEF e
      <4> QED
        BY <3>2, <3>7, <4>1, <4>2 DEF HeapOK
    <3>8. DelayOK(r, now, readyAt)
      BY <1>4, <3>1 DEF DelayOK
    <3>9. \A g \in Hosts : hostQueues'[g].inReadyQueue <=> In(g, readyHosts')
      BY <1>2, <3>1, <3>2, <3>4 DEF HostInv
    <3>10. readyHosts' \in Seq(Hosts) /\ Once(readyHosts')
      BY <3>2 DEF TypeOK, HostInv
    <3>11. sleepingHosts' \in SUBSET SleepingHost
      BY <3>2, <3>3 DEF TypeOK
    <3>12. hostQueues'[h].inFlight = q.inFlight
      BY <1>7, <3>1, <3>4 DEF HostQueue
    <3>13. \A g \in Hosts : HeapOK(g, hostQueues'[g], sleepingHosts')
      BY <3>4, <3>6, <3>7
    <3> QED
      BY <3>4, <3>5, <3>8, <3>9, <3>10, <3>11, <3>12, <3>13
  <2>2. CASE readyAt <= now
    <3>1. ScheduleHost(h, q, now)
      BY <1>4, <1>5, <1>8, <2>2
    <3>2. HeapOK(h, q, sleepingHosts)
      BY <1>7, <1>9 DEF HeapOK, HostQueue
    <3>3. q.inReadyQueue = old.inReadyQueue
      BY <1>2, <1>7 DEF HostQueue
    <3>4. Schedulable(h, q, now)
      BY <1>7, <2>2, <3>2, <3>3 DEF Schedulable, Runnable
    <3>5. DelayOK(q, now, readyAt)
      BY <2>2 DEF DelayOK
    <3> QED
      BY <1>2, <1>4, <1>7, <1>8, <3>1, <3>4, <3>5, ScheduleHostSound
  <2> QED
    BY <1>4, <1>8, <2>1, <2>2
<1>11. /\ pc' \in [Threads -> PcValues] /\ pc'[t] = "out"
       /\ \A u \in Threads : u # t =>
               pc'[u] = pc[u] \/ (pc[u] = "waiting" /\ pc'[u] = "woken")
  <2>1. t \in Threads /\ t \notin Waiting /\ "out" \in PcValues
    BY <1>1 DEF Threads, Waiting, PcValues
  <2> QED
    BY <1>1, <2>1, NotifyTypes
<1>12. TypeOK'
  BY <1>1, <1>8, <1>10, <1>11, ForgetFacts DEF TypeOK
<1>13. TaskPhase'
  BY <1>1, <1>11 DEF TaskPhase, Threads, ForgetTask, TypeOK
<1>14. HostInv'
  <2>1. \A g \in Hosts : FlagsOK(hostQueues'[g])
    BY <1>10 DEF HostInv
  <2>2. \A g \in Hosts : DelayOK(hostQueues'[g], now', notBefore'[g])
    BY <1>1, <1>8, <1>10 DEF HostInv
  <2>3. \A g \in Hosts : hostQueues'[g].inFlight <=> Works(g, activeHostKey')
    BY <1>1, <1>2, <1>7, <1>10, ForgetFacts DEF HostInv
  <2>4. nowMs' <= now'
    BY <1>1 DEF HostInv
  <2> QED
    BY <1>1, <1>10, <2>1, <2>2, <2>3, <2>4, ForgetFacts DEF HostInv
<1> QED
  BY <1>12, <1>13, <1>14

-----------------------------------------------------------------------------
(* The invariant *)

LEMMA InitInv == ASSUME Init PROVE Inv
<1> DEFINE recovered == UNION {RecoveredChunks[k] : k \in DOMAIN RecoveredChunks}
<1>1. PICK seeds \in SUBSET (Items \ recovered) :
        /\ reservoir = seeds
        /\ added = seeds \cup recovered
        /\ pending = Cardinality(seeds \cup recovered)
  BY DEF Init
<1>2. recovered \in SUBSET Items
  BY RecoveredAssumption
<1> HIDE DEF recovered
<1>3. pending \in Nat
  <2>1. IsFiniteSet(seeds \cup recovered)
    BY <1>2, FiniteAssumption, FS_Subset
  <2> QED
    BY <1>1, <2>1, FS_CardinalityType
<1>4. FreshHost \in HostQueue
  BY DEF FreshHost, HostQueue
<1>5. \A h \in Hosts : hostQueues[h] = FreshHost /\ notBefore[h] = 0
  BY DEF Init
<1>6. TypeOK
  <2>1. chunks \in Seq(SUBSET Items)
    BY RecoveredAssumption DEF Init
  <2>2. Forever \in Nat
    BY BoundsAssumption DEF Forever
  <2>3. closed \in BOOLEAN
    BY FlagsAssumption DEF Init
  <2>4. hostQueues \in [Hosts -> HostQueue]
    BY <1>4 DEF Init
  <2> QED
    BY <1>1, <1>2, <1>3, <2>1, <2>2, <2>3, <2>4
    DEF Init, TypeOK, PcValues, Threads
<1>7. TaskPhase
  BY DEF Init, TaskPhase, Threads
<1>8. HostInv
  <2>1. \A h \in Hosts : FlagsOK(hostQueues[h])
    BY <1>5 DEF FlagsOK, FreshHost
  <2>2. \A h \in Hosts : HeapOK(h, hostQueues[h], sleepingHosts)
    BY <1>5 DEF HeapOK, FreshHost, Init
  <2>3. \A h \in Hosts : DelayOK(hostQueues[h], now, notBefore[h])
    BY <1>5 DEF DelayOK, Init
  <2>4. \A h \in Hosts : hostQueues[h].inReadyQueue <=> In(h, readyHosts)
    BY <1>5 DEF FreshHost, In, Init
  <2>5. Once(readyHosts)
    BY DEF Once, Init
  <2>6. \A h \in Hosts : hostQueues[h].inFlight <=> Works(h, activeHostKey)
    BY <1>5, HostsAssumption DEF FreshHost, Works, Init
  <2>7. ActiveOnce
    BY DEF ActiveOnce, Init
  <2>8. nowMs <= now
    BY DEF Init
  <2> QED
    BY <2>1, <2>2, <2>3, <2>4, <2>5, <2>6, <2>7, <2>8 DEF HostInv
<1> QED
  BY <1>6, <1>7, <1>8 DEF Inv

LEMMA StutterInv == ASSUME Inv, UNCHANGED vars PROVE Inv'
  BY DEF vars, layers, hosts, counters, locals, threads, history, Inv, TypeOK,
         TaskPhase, HostInv, ActiveOnce

\* One case per action of Next.
LEMMA NextInv == ASSUME Inv, [Next]_vars PROVE Inv'
<1>1. ASSUME NEW t \in Crawlers, Pop(t)
      PROVE  Inv'
  BY <1>1, PopEnterInv, WakeHostInv, RefillInv, PromoteInv, PopReadyInv,
     PopClosedInv, PopWaitInv, PopAgainInv, TimeOutInv DEF Pop
<1>2. ASSUME NEW t \in Crawlers, TaskDone(t) \/ SnoozeCurrent(t)
      PROVE  Inv'
  BY <1>2, TaskDoneInv, SnoozeCurrentInv
<1>3. ASSUME NEW t \in Threads, PushMany(t) \/ PushRest(t) \/ Push(t)
      PROVE  Inv'
  BY <1>3, PushManyInv, PushRestInv, PushInv
<1> QED
  BY <1>1, <1>2, <1>3, ShutdownInv, TickInv, StutterInv DEF Next

THEOREM Invariance == Spec => []Inv
<1>1. Init => Inv
  BY InitInv
<1>2. Inv /\ [Next]_vars => Inv'
  BY NextInv
<1> QED
  BY <1>1, <1>2, PTL DEF Spec

-----------------------------------------------------------------------------
(* What it implies *)

\* The fields and locals of the frontier keep their types.
THEOREM TypeCorrect == Spec => []TypeOK
<1>1. Inv => TypeOK
  BY DEF Inv
<1> QED
  BY <1>1, Invariance, PTL

\* scheduleHost, promoteSleepingHosts, snoozeCurrent, pop and taskDone between
\* them never forget a host that has queued items.
THEOREM HostsNotStranded == Spec => []NoStrandedHost
<1>1. ASSUME Inv, NEW h \in Hosts, hostQueues[h].items # <<>>
      PROVE  Ready(h) \/ InFlight(h) \/ Sleeping(h)
  <2>1. /\ FlagsOK(hostQueues[h])
        /\ HeapOK(h, hostQueues[h], sleepingHosts)
        /\ hostQueues[h].inReadyQueue <=> In(h, readyHosts)
        /\ hostQueues[h].inFlight <=> Works(h, activeHostKey)
    BY <1>1 DEF Inv, HostInv
  <2>2. hostQueues[h].inReadyQueue => Ready(h)
    BY <1>1, <2>1 DEF In, Ready, Inv, TypeOK
  <2>3. hostQueues[h].inFlight => InFlight(h)
    BY <2>1 DEF Works, InFlight
  <2>4. hostQueues[h].inSleepingQueue => Sleeping(h)
    BY <2>1 DEF HeapOK, Sleeping
  <2> QED
    BY <1>1, <2>1, <2>2, <2>3, <2>4 DEF FlagsOK
<1>2. Inv => NoStrandedHost
  BY <1>1 DEF NoStrandedHost
<1> QED
  BY <1>2, Invariance, PTL

\* One thread works on a host at a time, and such a host is not handed out.
THEOREM HostsExclusive == Spec => []OneThreadPerHost
<1>1. ASSUME Inv
      PROVE  OneThreadPerHost
  <2>1. readyHosts \in Seq(Hosts) /\ Once(readyHosts) /\ ActiveOnce
    BY <1>1 DEF Inv, TypeOK, HostInv
  <2>2. DOMAIN readyHosts = 1..Len(readyHosts)
    BY <2>1
  <2>3. ASSUME NEW h \in Hosts, Ready(h)
        PROVE  ~InFlight(h)
    <3>1. hostQueues[h].inReadyQueue
      BY <1>1, <2>2, <2>3 DEF Ready, In, Inv, HostInv
    <3> QED
      BY <1>1, <3>1 DEF Inv, HostInv, FlagsOK, Works, InFlight
  <2> QED
    BY <2>1, <2>2, <2>3 DEF OneThreadPerHost, Once, ActiveOnce
<1> QED
  BY <1>1, Invariance, PTL

\* No host is handed out before the deadline of its last snooze.
THEOREM DelaysRespected == Spec => []Polite
<1>1. ASSUME Inv, NEW h \in Hosts, Ready(h) \/ InFlight(h)
      PROVE  notBefore[h] <= now
  <2>1. DOMAIN readyHosts = 1..Len(readyHosts)
    BY <1>1 DEF Inv, TypeOK
  <2>2. hostQueues[h].inReadyQueue \/ hostQueues[h].inFlight
    BY <1>1, <2>1 DEF Ready, InFlight, In, Works, Inv, HostInv
  <2>3. ~hostQueues[h].inSleepingQueue
    BY <1>1, <2>2 DEF Inv, HostInv, FlagsOK
  <2> QED
    BY <1>1, <2>3 DEF Inv, HostInv, DelayOK
<1>2. Inv => Polite
  BY <1>1 DEF Polite
<1> QED
  BY <1>2, Invariance, PTL

-----------------------------------------------------------------------------
(* The inductive invariant about items and waiting threads *)

ItemsOf(h) == hostQueues[h].items

ChunksWith(i) == {k \in DOMAIN chunks : i \in chunks[k]}
At(s, i) == {k \in 1..Len(s) : s[k] = i}
QueuedAt(i) == At(ItemsOf(HostOf[i]), i)
HeldBy(i) == {t \in Crawlers : hand[t] = i}

Single(S) == \E x \in S : S = {x}

\* Of six places, given as r, d, f (a layer or finished) and C, Q, H (the chunk
\* files, the places in a host's queue, the hands), one has the item, once.
OneOf(r, d, C, Q, H, f) ==
  \/ r /\ ~d /\ C = {} /\ Q = {} /\ H = {} /\ ~f
  \/ ~r /\ d /\ C = {} /\ Q = {} /\ H = {} /\ ~f
  \/ ~r /\ ~d /\ Single(C) /\ Q = {} /\ H = {} /\ ~f
  \/ ~r /\ ~d /\ C = {} /\ Single(Q) /\ H = {} /\ ~f
  \/ ~r /\ ~d /\ C = {} /\ Q = {} /\ Single(H) /\ ~f
  \/ ~r /\ ~d /\ C = {} /\ Q = {} /\ H = {} /\ f

Placed(i) ==
  OneOf(i \in reservoir, i \in diskBackReservoir, ChunksWith(i), QueuedAt(i), HeldBy(i),
        i \in finished)

Nowhere(i) ==
  /\ i \notin reservoir /\ i \notin diskBackReservoir /\ ChunksWith(i) = {}
  /\ QueuedAt(i) = {} /\ HeldBy(i) = {} /\ i \notin finished

Accounted(i) == IF i \in added THEN Placed(i) ELSE Nowhere(i)

PlaceInv ==
  /\ \A i \in Items : Accounted(i)
  /\ batch \cap added = {}

BatchInv == batch # {} => ~MutexFree

\* Items are queued with their host, and held by the thread that has it.
HomeInv ==
  /\ \A h \in Hosts : \A k \in DOMAIN ItemsOf(h) : HostOf[ItemsOf(h)[k]] = h
  /\ \A t \in Crawlers : hand[t] # NoItem => activeHostKey[t] = HostOf[hand[t]]

Held == {t \in Crawlers : hand[t] # NoItem}

CountInv == IsFiniteSet(Held) /\ CountersExact

-----------------------------------------------------------------------------
(* Sequences of items *)

\* Two sets that agree on being empty and on having one member.
Alike(S, T) == (S = {} <=> T = {}) /\ (Single(S) <=> Single(T))

\* Appending j adds one place for j and leaves the places of the others.
LEMMA AppendAt ==
  ASSUME NEW s \in Seq(Items), NEW j \in Items
  PROVE  /\ Append(s, j) \in Seq(Items)
         /\ At(s, j) = {} => Single(At(Append(s, j), j))
         /\ \A i : i # j => At(Append(s, j), i) = At(s, i)
         /\ \A k \in 1..Len(Append(s, j)) :
              Append(s, j)[k] = j \/ \E l \in 1..Len(s) : Append(s, j)[k] = s[l]
<1>1. /\ Append(s, j) \in Seq(Items) /\ Len(Append(s, j)) = Len(s) + 1 /\ Len(s) \in Nat
      /\ Append(s, j)[Len(s) + 1] = j
      /\ \A k \in 1..Len(s) : Append(s, j)[k] = s[k]
  OBVIOUS
<1>2. ASSUME At(s, j) = {}
      PROVE  At(Append(s, j), j) = {Len(s) + 1}
  BY <1>1, <1>2 DEF At
<1>3. ASSUME NEW i, i # j
      PROVE  At(Append(s, j), i) = At(s, i)
  BY <1>1, <1>3 DEF At
<1>4. \A k \in 1..Len(Append(s, j)) :
        Append(s, j)[k] = j \/ \E l \in 1..Len(s) : Append(s, j)[k] = s[l]
  <2>1. ASSUME NEW k \in 1..Len(Append(s, j)), k # Len(s) + 1
        PROVE  k \in 1..Len(s)
    BY <1>1, <2>1
  <2> QED
    BY <1>1, <2>1
<1> QED
  BY <1>1, <1>2, <1>3, <1>4 DEF Single

\* Taking the head removes the one place of that item.
LEMMA TailAt ==
  ASSUME NEW s \in Seq(Items), s # <<>>
  PROVE  /\ Tail(s) \in Seq(Items) /\ Head(s) \in Items /\ At(s, Head(s)) # {}
         /\ Single(At(s, Head(s))) => At(Tail(s), Head(s)) = {}
         /\ \A i : i # Head(s) => Alike(At(s, i), At(Tail(s), i))
         /\ \A k \in 1..Len(Tail(s)) : \E l \in 1..Len(s) : Tail(s)[k] = s[l]
         /\ \E k \in 1..Len(s) : Head(s) = s[k]
<1>1. /\ Len(s) \in Nat \ {0} /\ Head(s) = s[1] /\ Head(s) \in Items
      /\ Tail(s) \in Seq(Items) /\ Len(Tail(s)) = Len(s) - 1
  OBVIOUS
<1>2. \A k \in 1..(Len(s) - 1) : Tail(s)[k] = s[k + 1]
  OBVIOUS
<1>3. 1 \in At(s, Head(s))
  BY <1>1 DEF At
<1>4. \A i, k : k \in At(Tail(s), i) => k + 1 \in At(s, i) /\ k \in Nat \ {0}
  BY <1>1, <1>2 DEF At
<1>5. \A i, k : k \in At(s, i) /\ k # 1 => k - 1 \in At(Tail(s), i) /\ k \in Nat
  BY <1>1, <1>2 DEF At
<1>6. ASSUME Single(At(s, Head(s)))
      PROVE  At(Tail(s), Head(s)) = {}
  <2>1. \A k \in At(s, Head(s)) : k = 1
    BY <1>3, <1>6 DEF Single
  <2> QED
    BY <1>4, <2>1
<1>7. ASSUME NEW i, i # Head(s)
      PROVE  Alike(At(s, i), At(Tail(s), i))
  <2>1. 1 \notin At(s, i)
    BY <1>1, <1>7 DEF At
  <2>2. At(s, i) = {} <=> At(Tail(s), i) = {}
    BY <1>4, <1>5, <2>1
  <2>3. ASSUME NEW k, At(s, i) = {k}
        PROVE  At(Tail(s), i) = {k - 1}
    <3>1. k - 1 \in At(Tail(s), i) /\ k \in Nat
      BY <1>5, <2>1, <2>3
    <3>2. \A l \in At(Tail(s), i) : l + 1 = k /\ l \in Nat
      BY <1>4, <2>3
    <3> QED
      BY <3>1, <3>2
  <2>4. ASSUME NEW k, At(Tail(s), i) = {k}
        PROVE  At(s, i) = {k + 1}
    <3>1. k + 1 \in At(s, i) /\ k \in Nat
      BY <1>4, <2>4
    <3>2. \A l \in At(s, i) : l - 1 = k /\ l \in Nat
      BY <1>5, <2>1, <2>4
    <3> QED
      BY <3>1, <3>2
  <2> QED
    BY <2>2, <2>3, <2>4 DEF Alike, Single
<1>8. \A k \in 1..Len(Tail(s)) : \E l \in 1..Len(s) : Tail(s)[k] = s[l]
  <2>1. ASSUME NEW k \in 1..Len(Tail(s))
        PROVE  k + 1 \in 1..Len(s) /\ Tail(s)[k] = s[k + 1]
    BY <1>1, <1>2
  <2> QED
    BY <2>1
<1>9. \E k \in 1..Len(s) : Head(s) = s[k]
  BY <1>1
<1> QED
  BY <1>1, <1>3, <1>6, <1>7, <1>8, <1>9

\* Putting j in front adds one place for j and shifts the places of the others.
LEMMA FrontAt ==
  ASSUME NEW s \in Seq(Items), NEW j \in Items
  PROVE  /\ <<j>> \o s \in Seq(Items)
         /\ At(s, j) = {} => Single(At(<<j>> \o s, j))
         /\ \A i : i # j => Alike(At(s, i), At(<<j>> \o s, i))
         /\ \A k \in 1..Len(<<j>> \o s) :
              (<<j>> \o s)[k] = j \/ \E l \in 1..Len(s) : (<<j>> \o s)[k] = s[l]
<1> DEFINE r == <<j>> \o s
<1>1. r \in Seq(Items) /\ r # <<>> /\ Head(r) = j
  OBVIOUS
<1>2. Tail(r) = s
  OBVIOUS
<1>3. /\ Len(r) = Len(s) + 1 /\ Len(s) \in Nat
      /\ r[1] = j /\ \A k \in 2..Len(r) : r[k] = s[k - 1]
  OBVIOUS
<1> HIDE DEF r
<1>4. \A i : i # j => Alike(At(r, i), At(s, i))
  BY <1>1, <1>2, TailAt
<1>5. ASSUME At(s, j) = {}
      PROVE  At(r, j) = {1}
  BY <1>3, <1>5 DEF At
<1>6. \A k \in 1..Len(r) : r[k] = j \/ \E l \in 1..Len(s) : r[k] = s[l]
  <2>1. ASSUME NEW k \in 1..Len(r), k # 1
        PROVE  k - 1 \in 1..Len(s) /\ r[k] = s[k - 1]
    BY <1>3, <2>1
  <2> QED
    BY <1>3, <2>1
<1> QED
  BY <1>1, <1>4, <1>5, <1>6 DEF Alike, Single, r

-----------------------------------------------------------------------------
(* Items that stay where they are *)

\* The step moves item i nowhere, but for its place within a queue.
Stay(i) ==
  /\ i \in reservoir' <=> i \in reservoir
  /\ i \in diskBackReservoir' <=> i \in diskBackReservoir
  /\ Alike(ChunksWith(i), ChunksWith(i)')
  /\ Alike(QueuedAt(i), QueuedAt(i)')
  /\ Alike(HeldBy(i), HeldBy(i)')
  /\ i \in finished' <=> i \in finished
  /\ i \in added' <=> i \in added

LEMMA StayAccounted ==
  ASSUME NEW i \in Items, Accounted(i), Stay(i)
  PROVE  Accounted(i)'
  BY DEF Accounted, Stay, Placed, Nowhere, OneOf, Alike

LEMMA AlikeSelf == ASSUME NEW S PROVE Alike(S, S)
  BY DEF Alike

\* A step that moves no item at all.
Quiet ==
  /\ UNCHANGED <<layers, threads, added, finished>>
  /\ \A h \in Hosts : hostQueues'[h].items = hostQueues[h].items
  /\ batch' \subseteq batch

LEMMA QuietItems ==
  ASSUME Inv, PlaceInv, HomeInv, Quiet
  PROVE  PlaceInv' /\ HomeInv'
<1>1. /\ UNCHANGED <<reservoir, diskBackReservoir, chunks, hand, activeHostKey,
                     added, finished>>
      /\ \A h \in Hosts : ItemsOf(h)' = ItemsOf(h)
  BY DEF Quiet, layers, threads, ItemsOf
<1>2. ASSUME NEW i \in Items
      PROVE  Stay(i)
  <2>1. ChunksWith(i)' = ChunksWith(i) /\ HeldBy(i)' = HeldBy(i)
    BY <1>1 DEF ChunksWith, HeldBy
  <2>2. QueuedAt(i)' = QueuedAt(i)
    BY <1>1, HostsAssumption DEF QueuedAt, ItemsOf
  <2> QED
    BY <1>1, <2>1, <2>2, AlikeSelf DEF Stay
<1>3. PlaceInv'
  <2>1. \A i \in Items : Accounted(i)'
    BY <1>2, StayAccounted DEF PlaceInv
  <2>2. (batch \cap added = {})'
    BY <1>1 DEF Quiet, PlaceInv
  <2> QED
    BY <2>1, <2>2 DEF PlaceInv
<1>4. HomeInv'
  <2>1. \A h \in Hosts : DOMAIN (ItemsOf(h)') = DOMAIN ItemsOf(h)
    BY <1>1
  <2>2. \A h \in Hosts : \A k \in DOMAIN (ItemsOf(h)') : HostOf[ItemsOf(h)'[k]] = h
    BY <1>1, <2>1 DEF HomeInv
  <2>3. (\A t \in Crawlers : hand[t] # NoItem => activeHostKey[t] = HostOf[hand[t]])'
    BY <1>1 DEF HomeInv
  <2> QED
    BY <2>2, <2>3 DEF HomeInv
<1> QED
  BY <1>3, <1>4

LEMMA QuietCounts ==
  ASSUME CountInv, Quiet, UNCHANGED <<pending, queued>>
  PROVE  CountInv'
  BY DEF CountInv, CountersExact, Held, Quiet, threads

\* scheduleHost changes no host's items but those its caller has set.
LEMMA ScheduleItems ==
  ASSUME TypeOK, NEW h \in Hosts, NEW q \in HostQueue, NEW t \in Nat,
         ScheduleHost(h, q, t)
  PROVE  /\ ItemsOf(h)' = q.items
         /\ \A g \in Hosts : g # h => ItemsOf(g)' = ItemsOf(g)
<1> USE DEF TypeOK, ItemsOf
<1>1. CASE hostQueues' = [hostQueues EXCEPT ![h] = q]
  BY <1>1
<1>2. CASE hostQueues' = [hostQueues EXCEPT ![h] = [q EXCEPT !.inSleepingQueue = TRUE]]
  BY <1>2 DEF HostQueue
<1>3. CASE hostQueues' = [hostQueues EXCEPT ![h] =
                             [q EXCEPT !.blockedUntilMs = 0,
                                       !.inSleepingQueue = FALSE,
                                       !.inReadyQueue = TRUE]]
  BY <1>3 DEF HostQueue
<1> QED
  BY <1>1, <1>2, <1>3 DEF ScheduleHost

\* promoteSleepingHosts touches flags and deadlines only.
LEMMA WakeHostQuiet ==
  ASSUME Inv, NEW t \in Crawlers, WakeHost(t)
  PROVE  Quiet /\ UNCHANGED counters
<1>1. PICK e \in Due :
        IF Current(e)
        THEN hostQueues' = [hostQueues EXCEPT ![e.hostKey].blockedUntilMs = 0,
                                              ![e.hostKey].inSleepingQueue = FALSE,
                                              ![e.hostKey].inReadyQueue = TRUE]
        ELSE UNCHANGED hostQueues
  BY DEF WakeHost
<1>2. /\ UNCHANGED <<layers, threads, added, finished, counters>>
      /\ batch' \subseteq batch
  BY DEF WakeHost, history, locals
<1>3. e.hostKey \in Hosts
  BY DEF Due, Inv, TypeOK, SleepingHost
<1> DEFINE q == hostQueues[e.hostKey]
           r == [q EXCEPT !.blockedUntilMs = 0, !.inSleepingQueue = FALSE,
                          !.inReadyQueue = TRUE]
<1>4. hostQueues' = [hostQueues EXCEPT ![e.hostKey] = r] \/ UNCHANGED hostQueues
  BY <1>1, <1>3 DEF Inv, TypeOK
<1>5. r.items = q.items
  BY <1>3 DEF Inv, TypeOK, HostQueue
<1> HIDE DEF r
<1>6. ASSUME NEW h \in Hosts
      PROVE  hostQueues'[h].items = hostQueues[h].items
  BY <1>3, <1>4, <1>5 DEF Inv, TypeOK
<1> QED
  BY <1>2, <1>6 DEF Quiet

LEMMA QuietPop ==
  ASSUME NEW t,
         PopEnter(t) \/ PopClosed(t) \/ PopWait(t) \/ PopAgain(t) \/ TimeOut(t)
  PROVE  Quiet /\ UNCHANGED <<pending, queued>>
<1>1. CASE PopEnter(t)
  BY <1>1 DEF PopEnter, Quiet, hosts, history, counters
<1>2. CASE PopClosed(t)
  BY <1>2 DEF PopClosed, Quiet, hosts, history, counters, Unlocked
<1>3. CASE PopWait(t)
  BY <1>3 DEF PopWait, Quiet, hosts, history, counters, Unlocked
<1>4. CASE PopAgain(t)
  BY <1>4 DEF PopAgain, Quiet, hosts, history, counters
<1>5. CASE TimeOut(t)
  BY <1>5 DEF TimeOut, Quiet, hosts, history, counters, locals
<1> QED
  BY <1>1, <1>2, <1>3, <1>4, <1>5

LEMMA QuietRest ==
  ASSUME Shutdown \/ Tick \/ UNCHANGED vars
  PROVE  Quiet /\ UNCHANGED <<pending, queued>>
<1>1. CASE Shutdown
  BY <1>1 DEF Shutdown, Quiet, hosts, history, counters, locals
<1>2. CASE Tick
  BY <1>2 DEF Tick, Quiet, hosts, history, counters, locals
<1>3. CASE UNCHANGED vars
  BY <1>3 DEF vars, Quiet, hosts, history, counters, locals
<1> QED
  BY <1>1, <1>2, <1>3

-----------------------------------------------------------------------------
(* From the chunk files to the hands *)

\* promoteReservoir's refill: items come out of a chunk file and move forward.
LEMMA RefillItems ==
  ASSUME Inv, PlaceInv, HomeInv, NEW t \in Crawlers, Refill(t)
  PROVE  PlaceInv' /\ HomeInv'
<1>1. PICK moved \in SUBSET Loaded :
        reservoir' = reservoir \cup moved /\ diskBackReservoir' = Loaded \ moved
  BY DEF Refill
<1>2. /\ UNCHANGED <<hostQueues, hand, activeHostKey, added, finished, batch>>
      /\ chunks' = ChunksLeft
  BY DEF Refill, hosts, threads, history, locals
<1> DEFINE n == Len(chunks)
<1>3. ASSUME Loads
      PROVE  /\ n \in DOMAIN chunks
             /\ Loaded = diskBackReservoir \cup chunks[n]
             /\ \A i : ChunksWith(i)' = ChunksWith(i) \ {n}
  <2>1. chunks # <<>> /\ chunks \in Seq(SUBSET Items)
    BY <1>3 DEF Loads, Inv, TypeOK
  <2>2. /\ chunks' = SubSeq(chunks, 1, n - 1) /\ n \in Nat \ {0}
        /\ DOMAIN chunks = 1..n
    BY <1>2, <1>3, <2>1 DEF ChunksLeft
  <2>3. DOMAIN chunks' = 1..(n - 1) /\ \A k \in 1..(n - 1) : chunks'[k] = chunks[k]
    BY <2>1, <2>2
  <2> QED
    BY <1>3, <2>2, <2>3 DEF Loaded, ChunksWith
<1>4. ~Loads => Loaded = diskBackReservoir /\ chunks' = chunks
  BY <1>2 DEF Loaded, ChunksLeft
<1>5. ASSUME NEW i \in Items
      PROVE  QueuedAt(i)' = QueuedAt(i) /\ HeldBy(i)' = HeldBy(i)
  BY <1>2 DEF QueuedAt, ItemsOf, HeldBy
<1> HIDE DEF n
<1>6. ASSUME NEW i \in Items
      PROVE  Accounted(i)'
  <2>1. Accounted(i)
    BY DEF PlaceInv
  <2>2. CASE Loads /\ i \in chunks[n]
    <3>1. n \in ChunksWith(i)
      BY <1>3, <2>2 DEF ChunksWith
    <3>2. /\ i \in added /\ i \notin reservoir /\ i \notin diskBackReservoir
          /\ Single(ChunksWith(i)) /\ QueuedAt(i) = {} /\ HeldBy(i) = {}
          /\ i \notin finished
      BY <2>1, <3>1 DEF Accounted, Placed, Nowhere, OneOf
    <3>3. ChunksWith(i)' = {}
      BY <1>3, <2>2, <3>1, <3>2 DEF Single
    <3>4. i \in reservoir' <=> ~(i \in diskBackReservoir')
      BY <1>1, <1>3, <2>2, <3>2
    <3> QED
      BY <1>2, <1>5, <3>2, <3>3, <3>4 DEF Accounted, Placed, OneOf
  <2>3. CASE ~(Loads /\ i \in chunks[n])
    <3>1. ChunksWith(i)' = ChunksWith(i)
      <4>1. CASE Loads
        BY <1>3, <2>3, <4>1 DEF ChunksWith
      <4>2. CASE ~Loads
        BY <1>4, <4>2 DEF ChunksWith
      <4> QED
        BY <4>1, <4>2
    <3>2. i \in Loaded <=> i \in diskBackReservoir
      BY <1>3, <1>4, <2>3
    <3>3. CASE i \in moved
      <4>1. i \in reservoir' /\ i \in diskBackReservoir /\ i \notin diskBackReservoir'
        BY <1>1, <3>2, <3>3
      <4> QED
        BY <1>2, <1>5, <2>1, <3>1, <4>1 DEF Accounted, Placed, Nowhere, OneOf
    <3>4. CASE i \notin moved
      <4>1. /\ i \in reservoir' <=> i \in reservoir
            /\ i \in diskBackReservoir' <=> i \in diskBackReservoir
        BY <1>1, <3>2, <3>4
      <4> QED
        BY <1>2, <1>5, <2>1, <3>1, <4>1, StayAccounted, AlikeSelf DEF Stay
    <3> QED
      BY <3>3, <3>4
  <2> QED
    BY <2>2, <2>3
<1>7. PlaceInv'
  BY <1>2, <1>6 DEF PlaceInv
<1>8. HomeInv'
  BY <1>2 DEF HomeInv, ItemsOf
<1> QED
  BY <1>7, <1>8

\* Item i joins or leaves the queue of its host; the other items of the queue
\* stay.  For HomeInv: what is queued was queued there, or is i.
LEMMA QueueItems ==
  ASSUME Inv, HomeInv, NEW i \in Items, NEW h \in Hosts, h = HostOf[i],
         NEW its \in Seq(Items), ItemsOf(h)' = its,
         \A g \in Hosts : g # h => ItemsOf(g)' = ItemsOf(g),
         \A j : j # i => Alike(At(ItemsOf(h), j), At(its, j)),
         \A k \in 1..Len(its) :
            its[k] = i \/ \E l \in 1..Len(ItemsOf(h)) : its[k] = ItemsOf(h)[l]
  PROVE  /\ \A j \in Items : j # i => Alike(QueuedAt(j), QueuedAt(j)')
         /\ \A g \in Hosts : \A k \in DOMAIN (ItemsOf(g)') : HostOf[ItemsOf(g)'[k]] = g
<1>1. ASSUME NEW j \in Items, j # i
      PROVE  Alike(QueuedAt(j), QueuedAt(j)')
  <2>1. HostOf[j] \in Hosts
    BY HostsAssumption
  <2>2. CASE HostOf[j] = h
    BY <1>1, <2>2 DEF QueuedAt
  <2>3. CASE HostOf[j] # h
    <3>1. QueuedAt(j)' = QueuedAt(j)
      BY <2>1, <2>3 DEF QueuedAt
    <3> QED
      BY <3>1, AlikeSelf
  <2> QED
    BY <2>2, <2>3
<1>2. ASSUME NEW k \in DOMAIN its
      PROVE  HostOf[its[k]] = h
  <2>1. DOMAIN its = 1..Len(its) /\ DOMAIN ItemsOf(h) = 1..Len(ItemsOf(h))
    BY DEF Inv, TypeOK, HostQueue, ItemsOf
  <2> QED
    BY <1>2, <2>1 DEF HomeInv
<1>3. ASSUME NEW g \in Hosts, NEW k \in DOMAIN (ItemsOf(g)')
      PROVE  HostOf[ItemsOf(g)'[k]] = g
  <2>1. CASE g = h
    BY <1>2, <1>3, <2>1
  <2>2. CASE g # h
    BY <1>3, <2>2 DEF HomeInv
  <2> QED
    BY <2>1, <2>2
<1> QED
  BY <1>1, <1>3

\* A winner leaves the reservoir for the end of its host's queue.
LEMMA PromoteItems ==
  ASSUME Inv, PlaceInv, HomeInv, NEW t \in Crawlers, Promote(t)
  PROVE  PlaceInv' /\ HomeInv'
<1>1. PICK i \in reservoir :
        /\ reservoir' = reservoir \ {i}
        /\ ScheduleHost(HostOf[i],
             [hostQueues[HostOf[i]] EXCEPT !.items = Append(@, i)], nowMs)
  BY DEF Promote
<1>2. UNCHANGED <<diskBackReservoir, chunks, hand, activeHostKey, added,
                  finished, batch>>
  BY DEF Promote, threads, history
<1> DEFINE h == HostOf[i]
           old == hostQueues[h]
           its == Append(old.items, i)
           q == [old EXCEPT !.items = its]
<1>3. i \in Items /\ h \in Hosts /\ old \in HostQueue /\ nowMs \in Nat
  BY HostsAssumption DEF Inv, TypeOK
<1>4. ItemsOf(h) = old.items /\ old.items \in Seq(Items)
  BY <1>3 DEF ItemsOf, HostQueue
<1>5. /\ its \in Seq(Items)
      /\ At(old.items, i) = {} => Single(At(its, i))
      /\ \A j : j # i => At(its, j) = At(old.items, j)
      /\ \A k \in 1..Len(its) :
           its[k] = i \/ \E l \in 1..Len(old.items) : its[k] = old.items[l]
  BY <1>3, <1>4, AppendAt
<1>6. ScheduleHost(h, q, nowMs)
  BY <1>1
<1> HIDE DEF its
<1>7. q \in HostQueue /\ q.items = its
  BY <1>3, <1>5 DEF HostQueue
<1> HIDE DEF q
<1>8. ItemsOf(h)' = its /\ \A g \in Hosts : g # h => ItemsOf(g)' = ItemsOf(g)
  BY <1>3, <1>6, <1>7, ScheduleItems DEF Inv
<1>9. \A j : j # i => Alike(At(ItemsOf(h), j), At(its, j))
  BY <1>4, <1>5, AlikeSelf
<1>10. /\ \A j \in Items : j # i => Alike(QueuedAt(j), QueuedAt(j)')
       /\ \A g \in Hosts : \A k \in DOMAIN (ItemsOf(g)') : HostOf[ItemsOf(g)'[k]] = g
  BY <1>3, <1>4, <1>5, <1>8, <1>9, QueueItems
<1>11. \A j : ChunksWith(j)' = ChunksWith(j) /\ HeldBy(j)' = HeldBy(j)
  BY <1>2 DEF ChunksWith, HeldBy
<1>12. ASSUME NEW j \in Items, j # i
       PROVE  Accounted(j)'
  BY <1>1, <1>2, <1>10, <1>11, <1>12, StayAccounted, AlikeSelf DEF Stay, PlaceInv
<1>13. Accounted(i)'
  <2>1. Accounted(i)
    BY <1>3 DEF PlaceInv
  <2>2. /\ i \in added /\ i \in reservoir /\ i \notin diskBackReservoir
        /\ ChunksWith(i) = {} /\ QueuedAt(i) = {} /\ HeldBy(i) = {}
        /\ i \notin finished
    BY <2>1 DEF Accounted, Placed, Nowhere, OneOf
  <2>3. Single(QueuedAt(i)')
    BY <1>4, <1>5, <1>8, <2>2 DEF QueuedAt
  <2> QED
    BY <1>1, <1>2, <1>11, <2>2, <2>3 DEF Accounted, Placed, OneOf
<1>14. PlaceInv'
  BY <1>2, <1>12, <1>13 DEF PlaceInv
<1>15. HomeInv'
  BY <1>2, <1>10 DEF HomeInv
<1> QED
  BY <1>14, <1>15

\* What pop() does to the host it takes: the ready host is never skipped, and
\* its first item goes into the hand of a thread that had none.
LEMMA PopReadyEffect ==
  ASSUME Inv, NEW t \in Crawlers, PopReady(t)
  PROVE  \E h \in Hosts :
           /\ ItemsOf(h) \in Seq(Items) /\ ItemsOf(h) # <<>>
           /\ ItemsOf(h)' = Tail(ItemsOf(h))
           /\ \A g \in Hosts : g # h => ItemsOf(g)' = ItemsOf(g)
           /\ hand[t] = NoItem /\ Head(ItemsOf(h)) \in Items
           /\ hand' = [hand EXCEPT ![t] = Head(ItemsOf(h))]
           /\ activeHostKey' = [activeHostKey EXCEPT ![t] = h]
           /\ \A u \in Crawlers : activeHostKey[u] # h
           /\ queued' = queued - 1
           /\ pc' = [pc EXCEPT ![t] = "busy"]
           /\ UNCHANGED <<layers, closed, pending, history, now, deadline,
                          sleepingHosts>>
           /\ batch' = {}
<1> DEFINE h == Head(readyHosts)
           q == hostQueues[h]
<1>1. /\ Draining(t) /\ readyHosts # <<>>
      /\ UNCHANGED <<layers, sleepingHosts, closed, pending, history, now, deadline>>
  BY DEF PopReady
<1>2. /\ h \in Hosts /\ In(h, readyHosts)
  BY <1>1, TailMembers DEF Inv, TypeOK
<1>3. /\ q \in HostQueue /\ ~q.inFlight /\ q.items # <<>>
  BY <1>2 DEF Inv, TypeOK, HostInv, FlagsOK
<1>4. /\ hostQueues' = [hostQueues EXCEPT ![h] =
            [q EXCEPT !.items = Tail(@), !.inFlight = TRUE, !.inReadyQueue = FALSE]]
      /\ queued' = queued - 1
      /\ hand' = [hand EXCEPT ![t] = Head(q.items)]
      /\ activeHostKey' = [activeHostKey EXCEPT ![t] = h]
      /\ pc' = [pc EXCEPT ![t] = "busy"]
      /\ batch' = {}
  BY <1>3 DEF PopReady, Unlocked
<1>5. hand[t] = NoItem
  BY <1>1 DEF Draining, Inv, TaskPhase
<1>6. q.items \in Seq(Items) /\ Head(q.items) \in Items
  BY <1>3 DEF HostQueue
<1>7. hostQueues'[h].items = Tail(q.items)
  BY <1>2, <1>3, <1>4 DEF HostQueue, Inv, TypeOK
<1>8. \A g \in Hosts : g # h => hostQueues'[g] = hostQueues[g]
  BY <1>2, <1>4 DEF Inv, TypeOK
<1>9. \A u \in Crawlers : activeHostKey[u] # h
  BY <1>2, <1>3 DEF Inv, HostInv, Works
<1>10. PICK g \in Hosts : g = h
  BY <1>2
<1> HIDE DEF h
<1>11. WITNESS g \in Hosts
<1> QED
  BY <1>1, <1>3, <1>4, <1>5, <1>6, <1>7, <1>8, <1>9, <1>10 DEF ItemsOf

LEMMA PopReadyItems ==
  ASSUME Inv, PlaceInv, HomeInv, NEW t \in Crawlers, PopReady(t)
  PROVE  PlaceInv' /\ HomeInv'
<1>1. PICK h \in Hosts :
           /\ ItemsOf(h) \in Seq(Items) /\ ItemsOf(h) # <<>>
           /\ ItemsOf(h)' = Tail(ItemsOf(h))
           /\ \A g \in Hosts : g # h => ItemsOf(g)' = ItemsOf(g)
           /\ hand[t] = NoItem /\ Head(ItemsOf(h)) \in Items
           /\ hand' = [hand EXCEPT ![t] = Head(ItemsOf(h))]
           /\ activeHostKey' = [activeHostKey EXCEPT ![t] = h]
           /\ UNCHANGED <<layers, history>>
           /\ batch' = {}
  BY PopReadyEffect
<1>0. PICK i \in Items : i = Head(ItemsOf(h))
  BY <1>1
<1> DEFINE its == Tail(ItemsOf(h))
<1>2. UNCHANGED <<reservoir, diskBackReservoir, chunks, added, finished>>
  BY <1>1 DEF layers, history
<1>3. /\ its \in Seq(Items) /\ i \in Items /\ At(ItemsOf(h), i) # {}
      /\ Single(At(ItemsOf(h), i)) => At(its, i) = {}
      /\ \A j : j # i => Alike(At(ItemsOf(h), j), At(its, j))
      /\ \A k \in 1..Len(its) : \E l \in 1..Len(ItemsOf(h)) : its[k] = ItemsOf(h)[l]
      /\ \E k \in 1..Len(ItemsOf(h)) : i = ItemsOf(h)[k]
  BY <1>0, <1>1, TailAt
<1>4. HostOf[i] = h
  <2>1. DOMAIN ItemsOf(h) = 1..Len(ItemsOf(h))
    BY <1>1
  <2> QED
    BY <1>3, <2>1 DEF HomeInv
<1>5. /\ hand' = [hand EXCEPT ![t] = i] /\ ItemsOf(h)' = its
      /\ hand \in [Crawlers -> Items \cup {NoItem}] /\ NoItem \notin Items
      /\ activeHostKey \in [Crawlers -> Hosts \cup {NoHost}]
  BY <1>0, <1>1, HostsAssumption DEF Inv, TypeOK
<1> HIDE DEF its
<1>6. /\ \A j \in Items : j # i => Alike(QueuedAt(j), QueuedAt(j)')
      /\ \A g \in Hosts : \A k \in DOMAIN (ItemsOf(g)') : HostOf[ItemsOf(g)'[k]] = g
  <2>1. /\ its \in Seq(Items) /\ h = HostOf[i] /\ ItemsOf(h)' = its
        /\ \A g \in Hosts : g # h => ItemsOf(g)' = ItemsOf(g)
        /\ \A j : j # i => Alike(At(ItemsOf(h), j), At(its, j))
        /\ \A k \in 1..Len(its) :
             its[k] = i \/ \E l \in 1..Len(ItemsOf(h)) : its[k] = ItemsOf(h)[l]
    BY <1>1, <1>3, <1>4, <1>5
  <2> QED
    BY <2>1, QueueItems
<1>7. \A j : ChunksWith(j)' = ChunksWith(j)
  BY <1>2 DEF ChunksWith
<1>8. ASSUME NEW j \in Items, j # i
      PROVE  Accounted(j)'
  <2>1. HeldBy(j)' = HeldBy(j)
    BY <1>1, <1>5, <1>8 DEF HeldBy
  <2> QED
    BY <1>2, <1>6, <1>7, <1>8, <2>1, StayAccounted, AlikeSelf DEF Stay, PlaceInv
<1>9. Accounted(i)'
  <2>1. Accounted(i) /\ QueuedAt(i) # {}
    BY <1>3, <1>4 DEF PlaceInv, QueuedAt
  <2>2. /\ i \in added /\ i \notin reservoir /\ i \notin diskBackReservoir
        /\ ChunksWith(i) = {} /\ Single(QueuedAt(i)) /\ HeldBy(i) = {}
        /\ i \notin finished
    BY <2>1 DEF Accounted, Placed, Nowhere, OneOf
  <2>3. QueuedAt(i)' = {}
    BY <1>3, <1>4, <1>5, <2>2 DEF QueuedAt
  <2>4. HeldBy(i)' = {t}
    BY <1>5, <2>2 DEF HeldBy
  <2> QED
    BY <1>2, <1>7, <2>2, <2>3, <2>4 DEF Accounted, Placed, OneOf, Single
<1>10. PlaceInv'
  BY <1>1, <1>2, <1>8, <1>9 DEF PlaceInv
<1>11. \A u \in Crawlers : hand'[u] # NoItem => activeHostKey'[u] = HostOf[hand'[u]]
  BY <1>1, <1>4, <1>5 DEF HomeInv
<1> QED
  BY <1>6, <1>10, <1>11 DEF HomeInv

-----------------------------------------------------------------------------
(* Pushing *)

\* A pushed item is put into one layer; a backup moves others to a new file.
LEMMA PushInternalItems ==
  ASSUME Inv, PlaceInv, HomeInv, NEW i \in Items \ added, PushInternal(i),
         UNCHANGED <<hosts, threads, finished>>
  PROVE  (\A j \in Items : Accounted(j)') /\ HomeInv'
<1>1. /\ UNCHANGED <<hostQueues, hand, activeHostKey, finished>>
      /\ added' = added \cup {i}
  BY DEF PushInternal, hosts, threads
<1>2. \A j : QueuedAt(j)' = QueuedAt(j) /\ HeldBy(j)' = HeldBy(j)
  BY <1>1 DEF QueuedAt, ItemsOf, HeldBy
<1>3. HomeInv'
  BY <1>1 DEF HomeInv, ItemsOf
<1>4. Nowhere(i) /\ i \in added'
  BY <1>1 DEF PlaceInv, Accounted
<1>5. ASSUME UNCHANGED chunks,
             \/ reservoir' = reservoir \cup {i} /\ UNCHANGED diskBackReservoir
             \/ diskBackReservoir' = diskBackReservoir \cup {i} /\ UNCHANGED reservoir
      PROVE  \A j \in Items : Accounted(j)'
  <2>1. \A j : ChunksWith(j)' = ChunksWith(j)
    BY <1>5 DEF ChunksWith
  <2>2. ASSUME NEW j \in Items, j # i
        PROVE  Accounted(j)'
    <3>1. /\ j \in reservoir' <=> j \in reservoir
          /\ j \in diskBackReservoir' <=> j \in diskBackReservoir
      BY <1>5, <2>2
    <3> QED
      BY <1>1, <1>2, <2>1, <2>2, <3>1, StayAccounted, AlikeSelf DEF Stay, PlaceInv
  <2>3. Accounted(i)'
    BY <1>1, <1>2, <1>4, <1>5, <2>1 DEF Accounted, Placed, Nowhere, OneOf
  <2> QED
    BY <2>2, <2>3
<1>6. ASSUME NEW backup \in SUBSET diskBackReservoir,
             chunks' = Append(chunks, backup),
             diskBackReservoir' = (diskBackReservoir \ backup) \cup {i},
             UNCHANGED reservoir
      PROVE  \A j \in Items : Accounted(j)'
  <2> DEFINE n == Len(chunks) + 1
  <2>1. /\ DOMAIN chunks = 1..Len(chunks) /\ DOMAIN chunks' = 1..n /\ Len(chunks) \in Nat
        /\ chunks'[n] = backup /\ \A k \in 1..Len(chunks) : chunks'[k] = chunks[k]
    <3>1. chunks \in Seq(SUBSET Items) /\ backup \in SUBSET Items
      BY DEF Inv, TypeOK
    <3> QED
      BY <1>6, <3>1
  <2>2. n \notin DOMAIN chunks /\ DOMAIN chunks' = DOMAIN chunks \cup {n}
    BY <2>1
  <2>3. \A j : ChunksWith(j)' = IF j \in backup THEN ChunksWith(j) \cup {n} ELSE ChunksWith(j)
    BY <2>1, <2>2 DEF ChunksWith
  <2> HIDE DEF n
  <2>4. ASSUME NEW j \in Items, j \in backup
        PROVE  Accounted(j)'
    <3>1. Accounted(j) /\ j \in diskBackReservoir /\ j # i
      BY <1>4, <1>6, <2>4 DEF PlaceInv, Nowhere
    <3>2. /\ j \in added /\ j \notin reservoir /\ ChunksWith(j) = {}
          /\ QueuedAt(j) = {} /\ HeldBy(j) = {} /\ j \notin finished
      BY <3>1 DEF Accounted, Placed, Nowhere, OneOf
    <3>3. ChunksWith(j)' = {n} /\ j \notin diskBackReservoir'
      BY <1>6, <2>3, <2>4, <3>1, <3>2
    <3> QED
      BY <1>1, <1>2, <1>6, <3>2, <3>3 DEF Accounted, Placed, OneOf, Single
  <2>5. ASSUME NEW j \in Items, j \notin backup, j # i
        PROVE  Accounted(j)'
    <3>1. /\ j \in reservoir' <=> j \in reservoir
          /\ j \in diskBackReservoir' <=> j \in diskBackReservoir
          /\ ChunksWith(j)' = ChunksWith(j)
      BY <1>6, <2>3, <2>5
    <3> QED
      BY <1>1, <1>2, <2>5, <3>1, StayAccounted, AlikeSelf DEF Stay, PlaceInv
  <2>6. Accounted(i)'
    <3>1. i \notin backup /\ ChunksWith(i)' = ChunksWith(i) /\ i \in diskBackReservoir'
      BY <1>4, <1>6, <2>3 DEF Nowhere
    <3> QED
      BY <1>1, <1>2, <1>4, <1>6, <3>1 DEF Accounted, Placed, Nowhere, OneOf
  <2> QED
    BY <2>4, <2>5, <2>6
<1> QED
  BY <1>3, <1>5, <1>6 DEF PushInternal

\* The three forms of a push.
LEMMA PushItems ==
  ASSUME Inv, PlaceInv, HomeInv, BatchInv,
         NEW t \in Threads, PushMany(t) \/ PushRest(t) \/ Push(t)
  PROVE  /\ PlaceInv' /\ HomeInv'
         /\ \E i \in Items \ added : PushInternal(i)
         /\ UNCHANGED <<hosts, threads, finished>>
<1>1. ASSUME NEW i \in Items \ added, NEW rest, rest \cap added = {}, i \notin rest,
             PushOneOf(t, i, rest)
      PROVE  /\ PlaceInv' /\ HomeInv'
             /\ \E j \in Items \ added : PushInternal(j)
             /\ UNCHANGED <<hosts, threads, finished>>
  <2>1. /\ PushInternal(i) /\ UNCHANGED <<hosts, threads, finished>>
        /\ batch' = rest /\ added' = added \cup {i}
    BY <1>1 DEF PushOneOf, PushInternal
  <2>2. (\A j \in Items : Accounted(j)') /\ HomeInv'
    BY <2>1, PushInternalItems
  <2>3. (batch \cap added = {})'
    BY <1>1, <2>1
  <2> QED
    BY <1>1, <2>1, <2>2, <2>3 DEF PlaceInv
<1>2. CASE PushMany(t)
  <2>1. PICK S \in SUBSET (Items \ added) : \E i \in S : PushOneOf(t, i, S \ {i})
    BY <1>2 DEF PushMany
  <2>2. PICK i \in S : PushOneOf(t, i, S \ {i})
    BY <2>1
  <2>3. i \in Items \ added /\ (S \ {i}) \cap added = {} /\ i \notin S \ {i}
    BY <2>1, <2>2
  <2> QED
    BY <1>1, <2>2, <2>3
<1>3. CASE PushRest(t)
  <2>1. PICK i \in batch : PushOneOf(t, i, batch \ {i})
    BY <1>3 DEF PushRest
  <2>2. i \in Items \ added /\ (batch \ {i}) \cap added = {} /\ i \notin batch \ {i}
    BY <2>1 DEF PlaceInv, Inv, TypeOK
  <2> QED
    BY <1>1, <2>1, <2>2
<1>4. CASE Push(t)
  <2>1. PICK i \in Items \ added : PushInternal(i)
    BY <1>4 DEF Push
  <2>2. /\ UNCHANGED <<hosts, threads, finished>> /\ batch' = {}
    BY <1>4, <2>1 DEF Push, locals, BatchInv
  <2>3. (\A j \in Items : Accounted(j)') /\ HomeInv'
    BY <2>1, <2>2, PushInternalItems
  <2> QED
    BY <2>1, <2>2, <2>3 DEF PlaceInv
<1> QED
  BY <1>2, <1>3, <1>4

\* The argument of a pushMany() is kept only while it is being pushed.
LEMMA BatchStep == ASSUME Inv, BatchInv, [Next]_vars PROVE BatchInv'
<1> USE DEF BatchInv
<1>1. ASSUME NEW t \in Threads, pc'[t] \in {"wake", "sweep", "drain", "push"}
      PROVE  BatchInv'
  BY <1>1 DEF MutexFree
<1>2. Crawlers \subseteq Threads /\ pc \in [Threads -> PcValues]
  BY DEF Threads, Inv, TypeOK
<1>3. ASSUME MutexFree, batch' = batch
      PROVE  BatchInv'
  BY <1>3
<1>4. ASSUME NEW t \in Crawlers, Pop(t)
      PROVE  BatchInv'
  <2>1. CASE PopEnter(t)
    BY <1>1, <1>2, <2>1 DEF PopEnter
  <2>2. CASE WakeHost(t)
    BY <1>1, <1>2, <2>2 DEF WakeHost
  <2>3. CASE Refill(t)
    BY <1>1, <1>2, <2>3 DEF Refill
  <2>4. CASE Promote(t)
    BY <1>1, <1>2, <2>4 DEF Promote
  <2>5. CASE PopReady(t)
    BY <2>5, PopReadyEffect
  <2>6. CASE PopClosed(t) \/ PopWait(t)
    BY <2>6 DEF PopClosed, PopWait, Unlocked
  <2>7. CASE PopAgain(t)
    BY <1>1, <1>2, <2>7 DEF PopAgain
  <2>8. CASE TimeOut(t)
    <3>1. \A u \in Threads : pc[u] # "waiting" => pc'[u] = pc[u]
      BY <1>2, <2>8 DEF TimeOut
    <3>2. batch' = batch
      BY <2>8 DEF TimeOut, locals
    <3> QED
      BY <3>1, <3>2 DEF MutexFree
  <2> QED
    BY <1>4, <2>1, <2>2, <2>3, <2>4, <2>5, <2>6, <2>7, <2>8 DEF Pop
<1>5. ASSUME NEW t \in Crawlers, TaskDone(t) \/ SnoozeCurrent(t)
      PROVE  BatchInv'
  BY <1>3, <1>5 DEF TaskDone, SnoozeCurrent, locals
<1>6. ASSUME NEW t \in Threads, NEW i, NEW rest, PushOneOf(t, i, rest)
      PROVE  BatchInv'
  <2>1. CASE rest = {}
    BY <1>6, <2>1 DEF PushOneOf
  <2>2. CASE rest # {}
    <3>1. pc'[t] = "push"
      BY <1>2, <1>6, <2>2 DEF PushOneOf
    <3> QED
      BY <1>1, <3>1
  <2> QED
    BY <2>1, <2>2
<1>7. ASSUME NEW t \in Threads, PushMany(t) \/ PushRest(t) \/ Push(t)
      PROVE  BatchInv'
  BY <1>3, <1>6, <1>7 DEF PushMany, PushRest, Push, locals
<1>8. CASE Shutdown
  BY <1>3, <1>8 DEF Shutdown, locals
<1>9. CASE Tick \/ UNCHANGED vars
  BY <1>9 DEF Tick, locals, MutexFree, vars
<1> QED
  BY <1>4, <1>5, <1>7, <1>8, <1>9 DEF Next

-----------------------------------------------------------------------------
(* The end of a task *)

\* Thread t empties its hand: what stays in the other hands.
LEMMA ForgetItems ==
  ASSUME Inv, PlaceInv, HomeInv, NEW t \in Crawlers, pc[t] = "busy", ForgetTask(t),
         NEW i \in Items, i = hand[t]
  PROVE  /\ activeHostKey[t] = HostOf[i] /\ HostOf[i] \in Hosts
         /\ i \in added /\ i \notin reservoir /\ i \notin diskBackReservoir
         /\ ChunksWith(i) = {} /\ QueuedAt(i) = {} /\ HeldBy(i) = {t}
         /\ i \notin finished
         /\ HeldBy(i)' = {}
         /\ \A j \in Items : j # i => HeldBy(j)' = HeldBy(j)
         /\ \A u \in Crawlers : hand'[u] # NoItem => activeHostKey'[u] = HostOf[hand'[u]]
<1>2. activeHostKey[t] = HostOf[i] /\ HostOf[i] \in Hosts /\ NoItem \notin Items
  BY HostsAssumption DEF HomeInv
<1>3. t \in HeldBy(i)
  BY DEF HeldBy
<1>4. Accounted(i)
  BY DEF PlaceInv
<1>5. /\ i \in added /\ i \notin reservoir /\ i \notin diskBackReservoir
      /\ ChunksWith(i) = {} /\ QueuedAt(i) = {} /\ Single(HeldBy(i))
      /\ i \notin finished
  BY <1>3, <1>4 DEF Accounted, Placed, Nowhere, OneOf
<1>6. HeldBy(i) = {t}
  BY <1>3, <1>5 DEF Single
<1>7. /\ hand' = [hand EXCEPT ![t] = NoItem] /\ hand \in [Crawlers -> Items \cup {NoItem}]
      /\ activeHostKey' = [activeHostKey EXCEPT ![t] = NoHost]
      /\ activeHostKey \in [Crawlers -> Hosts \cup {NoHost}]
  BY DEF ForgetTask, Inv, TypeOK
<1>8. \A j \in Items : HeldBy(j)' = HeldBy(j) \ {t}
  BY <1>2, <1>7 DEF HeldBy
<1>9. \A j \in Items : j # i => t \notin HeldBy(j)
  BY DEF HeldBy
<1>10. \A u \in Crawlers : hand'[u] # NoItem => activeHostKey'[u] = HostOf[hand'[u]]
  BY <1>7 DEF HomeInv
<1>11. \A j \in Items : j # i => HeldBy(j)' = HeldBy(j)
  BY <1>8, <1>9
<1>12. HeldBy(i)' = {}
  BY <1>6, <1>8
<1> QED
  BY <1>2, <1>5, <1>6, <1>10, <1>11, <1>12

\* taskDone(): the item in hand is finished.
LEMMA TaskDoneItems ==
  ASSUME Inv, PlaceInv, HomeInv, NEW t \in Crawlers, TaskDone(t)
  PROVE  PlaceInv' /\ HomeInv'
<1>1. /\ pc[t] = "busy" /\ ForgetTask(t)
      /\ ScheduleHost(activeHostKey[t],
                      [hostQueues[activeHostKey[t]] EXCEPT !.inFlight = FALSE], now)
      /\ finished' = finished \cup {hand[t]}
      /\ UNCHANGED <<reservoir, diskBackReservoir, chunks, added, batch>>
  BY DEF TaskDone, layers, locals
<1>2. PICK i \in Items : i = hand[t]
  BY <1>1, HolderFacts
<1>3. PICK h \in Hosts : h = activeHostKey[t]
  BY <1>1, HolderFacts
<1>4. /\ i \in added /\ i \notin reservoir /\ i \notin diskBackReservoir
      /\ ChunksWith(i) = {} /\ QueuedAt(i) = {} /\ i \notin finished
      /\ HeldBy(i)' = {}
      /\ \A j \in Items : j # i => HeldBy(j)' = HeldBy(j)
      /\ \A u \in Crawlers : hand'[u] # NoItem => activeHostKey'[u] = HostOf[hand'[u]]
  BY <1>1, <1>2, ForgetItems
<1>5. \A g \in Hosts : ItemsOf(g)' = ItemsOf(g)
  <2> DEFINE q == [hostQueues[h] EXCEPT !.inFlight = FALSE]
  <2>1. q \in HostQueue /\ q.items = ItemsOf(h)
    BY DEF Inv, TypeOK, HostQueue, ItemsOf
  <2>2. ScheduleHost(h, q, now) /\ now \in Nat
    BY <1>1, <1>3 DEF Inv, TypeOK
  <2> HIDE DEF q
  <2> QED
    BY <2>1, <2>2, ScheduleItems DEF Inv
<1>6. \A j \in Items : ChunksWith(j)' = ChunksWith(j) /\ QueuedAt(j)' = QueuedAt(j)
  BY <1>1, <1>5, HostsAssumption DEF ChunksWith, QueuedAt
<1>7. ASSUME NEW j \in Items, j # i
      PROVE  Accounted(j)'
  BY <1>1, <1>2, <1>4, <1>6, <1>7, StayAccounted, AlikeSelf DEF Stay, PlaceInv
<1>8. Accounted(i)'
  BY <1>1, <1>2, <1>4, <1>6 DEF Accounted, Placed, OneOf
<1>9. \A g \in Hosts : \A k \in DOMAIN (ItemsOf(g)') : HostOf[ItemsOf(g)'[k]] = g
  BY <1>5 DEF HomeInv
<1> QED
  BY <1>1, <1>4, <1>7, <1>8, <1>9 DEF PlaceInv, HomeInv

\* What snoozeCurrent() does to the host it puts to sleep.
LEMMA SnoozeEffect ==
  ASSUME Inv, NEW t \in Crawlers, SnoozeCurrent(t)
  PROVE  \E h \in Hosts, i \in Items :
           /\ h = activeHostKey[t] /\ i = hand[t]
           /\ ItemsOf(h)' = <<i>> \o ItemsOf(h)
           /\ \A g \in Hosts : g # h => ItemsOf(g)' = ItemsOf(g)
<1>0. PICK h \in Hosts : h = activeHostKey[t]
  BY HolderFacts DEF SnoozeCurrent
<1>1. PICK i \in Items : i = hand[t]
  BY HolderFacts DEF SnoozeCurrent
<1> DEFINE old == hostQueues[h]
           its == <<i>> \o old.items
<1>2. PICK readyAt \in 1..MaxTime :
        LET until == IF readyAt > old.blockedUntilMs THEN readyAt
                     ELSE old.blockedUntilMs
            q == [old EXCEPT !.inFlight = FALSE,
                             !.items = <<hand[t]>> \o @,
                             !.blockedUntilMs = until,
                             !.sleepGeneration = @ + 1] IN
        \/ hostQueues' = [hostQueues EXCEPT ![h] = [q EXCEPT !.inSleepingQueue = TRUE]]
        \/ ScheduleHost(h, q, now)
  BY <1>0 DEF SnoozeCurrent
<1> DEFINE until == IF readyAt > old.blockedUntilMs THEN readyAt ELSE old.blockedUntilMs
           gen == old.sleepGeneration + 1
           q == [old EXCEPT !.inFlight = FALSE, !.items = its,
                            !.blockedUntilMs = until, !.sleepGeneration = gen]
<1>3. \/ hostQueues' = [hostQueues EXCEPT ![h] = [q EXCEPT !.inSleepingQueue = TRUE]]
      \/ ScheduleHost(h, q, now)
  BY <1>1, <1>2
<1>4. /\ its \in Seq(Items) /\ until \in Nat /\ gen \in Nat /\ old \in HostQueue
  <2>1. old \in HostQueue /\ readyAt \in Nat
    BY BoundsAssumption DEF Inv, TypeOK
  <2> QED
    BY <2>1 DEF HostQueue
<1> HIDE DEF until, gen, its
<1>5. q \in HostQueue /\ q.items = its
  BY <1>4 DEF HostQueue
<1> HIDE DEF q
<1>6. CASE ScheduleHost(h, q, now)
  <2>1. now \in Nat
    BY DEF Inv, TypeOK
  <2>2. ItemsOf(h)' = its /\ \A g \in Hosts : g # h => ItemsOf(g)' = ItemsOf(g)
    BY <1>5, <1>6, <2>1, ScheduleItems DEF Inv
  <2> QED
    BY <1>0, <1>1, <2>2 DEF its, ItemsOf
<1>7. CASE hostQueues' = [hostQueues EXCEPT ![h] = [q EXCEPT !.inSleepingQueue = TRUE]]
  <2>1. [q EXCEPT !.inSleepingQueue = TRUE].items = its
    BY <1>5 DEF HostQueue
  <2>2. ItemsOf(h)' = its /\ \A g \in Hosts : g # h => ItemsOf(g)' = ItemsOf(g)
    BY <1>7, <2>1 DEF ItemsOf, Inv, TypeOK
  <2> QED
    BY <1>0, <1>1, <2>2 DEF its, ItemsOf
<1> QED
  BY <1>3, <1>6, <1>7

\* snoozeCurrent(): the item in hand goes back to the front of the queue.
LEMMA SnoozeItems ==
  ASSUME Inv, PlaceInv, HomeInv, NEW t \in Crawlers, SnoozeCurrent(t)
  PROVE  PlaceInv' /\ HomeInv'
<1>1. /\ pc[t] = "busy" /\ ForgetTask(t)
      /\ UNCHANGED <<reservoir, diskBackReservoir, chunks, added, finished, batch>>
  BY DEF SnoozeCurrent, layers, locals
<1>2. PICK h \in Hosts, i \in Items :
        /\ h = activeHostKey[t] /\ i = hand[t]
        /\ ItemsOf(h)' = <<i>> \o ItemsOf(h)
        /\ \A g \in Hosts : g # h => ItemsOf(g)' = ItemsOf(g)
  BY SnoozeEffect
<1>4. /\ h = HostOf[i]
      /\ i \in added /\ i \notin reservoir /\ i \notin diskBackReservoir
      /\ ChunksWith(i) = {} /\ QueuedAt(i) = {} /\ i \notin finished
      /\ HeldBy(i)' = {}
      /\ \A j \in Items : j # i => HeldBy(j)' = HeldBy(j)
      /\ \A u \in Crawlers : hand'[u] # NoItem => activeHostKey'[u] = HostOf[hand'[u]]
  BY <1>1, <1>2, ForgetItems
<1> DEFINE its == <<i>> \o ItemsOf(h)
<1>5. ItemsOf(h)' = its /\ \A g \in Hosts : g # h => ItemsOf(g)' = ItemsOf(g)
  BY <1>2
<1>6. /\ its \in Seq(Items)
      /\ At(ItemsOf(h), i) = {} => Single(At(its, i))
      /\ \A j : j # i => Alike(At(ItemsOf(h), j), At(its, j))
      /\ \A k \in 1..Len(its) :
           its[k] = i \/ \E l \in 1..Len(ItemsOf(h)) : its[k] = ItemsOf(h)[l]
  <2>1. ItemsOf(h) \in Seq(Items)
    BY DEF Inv, TypeOK, HostQueue, ItemsOf
  <2> QED
    BY <2>1, FrontAt
<1> HIDE DEF its
<1>7. /\ \A j \in Items : j # i => Alike(QueuedAt(j), QueuedAt(j)')
      /\ \A g \in Hosts : \A k \in DOMAIN (ItemsOf(g)') : HostOf[ItemsOf(g)'[k]] = g
  BY <1>4, <1>5, <1>6, QueueItems
<1>8. \A j : ChunksWith(j)' = ChunksWith(j)
  BY <1>1 DEF ChunksWith
<1>9. ASSUME NEW j \in Items, j # i
      PROVE  Accounted(j)'
  BY <1>1, <1>4, <1>7, <1>8, <1>9, StayAccounted, AlikeSelf DEF Stay, PlaceInv
<1>10. Accounted(i)'
  <2>1. Single(QueuedAt(i)')
    BY <1>4, <1>5, <1>6 DEF QueuedAt
  <2> QED
    BY <1>1, <1>4, <1>8, <2>1 DEF Accounted, Placed, OneOf
<1> QED
  BY <1>1, <1>4, <1>7, <1>9, <1>10 DEF PlaceInv, HomeInv

-----------------------------------------------------------------------------
(* The counters *)

LEMMA PopReadyCounts ==
  ASSUME Inv, CountInv, NEW t \in Crawlers, PopReady(t)
  PROVE  CountInv'
<1>1. PICK h \in Hosts :
        /\ hand[t] = NoItem /\ Head(ItemsOf(h)) \in Items
        /\ hand' = [hand EXCEPT ![t] = Head(ItemsOf(h))]
        /\ queued' = queued - 1 /\ UNCHANGED <<pending, history>>
  BY PopReadyEffect
<1>2. hand \in [Crawlers -> Items \cup {NoItem}] /\ NoItem \notin Items
  BY HostsAssumption DEF Inv, TypeOK
<1>3. Held' = Held \cup {t} /\ t \notin Held
  BY <1>1, <1>2 DEF Held
<1>4. /\ IsFiniteSet(Held') /\ Cardinality(Held') = Cardinality(Held) + 1
      /\ Cardinality(Held) \in Nat
  BY <1>3, FS_AddElement, FS_CardinalityType DEF CountInv
<1>5. pending = Cardinality(added \ finished) /\ pending = queued + Cardinality(Held)
  BY DEF CountInv, CountersExact, Held
<1>6. pending' = Cardinality(added' \ finished') /\ pending' = queued' + Cardinality(Held')
  BY <1>1, <1>4, <1>5 DEF history, Inv, TypeOK
<1> QED
  BY <1>4, <1>6 DEF CountInv, CountersExact, Held

LEMMA PushCounts ==
  ASSUME Inv, PlaceInv, CountInv, NEW i \in Items \ added, PushInternal(i),
         UNCHANGED <<hosts, threads, finished>>
  PROVE  CountInv'
<1>1. /\ pending' = pending + 1 /\ queued' = queued + 1
      /\ added' = added \cup {i} /\ finished' = finished /\ hand' = hand
  BY DEF PushInternal, CountPushed, threads
<1>2. i \notin finished
  BY DEF PlaceInv, Accounted, Nowhere
<1>3. added' \ finished' = (added \ finished) \cup {i} /\ i \notin added \ finished
  BY <1>1, <1>2
<1>4. IsFiniteSet(added \ finished)
  BY FiniteAssumption, FS_Subset DEF Inv, TypeOK
<1>5. Cardinality(added' \ finished') = Cardinality(added \ finished) + 1
  BY <1>3, <1>4, FS_AddElement
<1>6. Held' = Held
  BY <1>1 DEF Held
<1>7. pending = Cardinality(added \ finished) /\ pending = queued + Cardinality(Held)
  BY DEF CountInv, CountersExact, Held
<1>8. Cardinality(Held) \in Nat
  BY FS_CardinalityType DEF CountInv
<1>9. pending' = Cardinality(added' \ finished') /\ pending' = queued' + Cardinality(Held')
  BY <1>1, <1>5, <1>6, <1>7, <1>8 DEF Inv, TypeOK
<1> QED
  BY <1>6, <1>9 DEF CountInv, CountersExact, Held

\* A finite set without one of its elements.
LEMMA OneFewer ==
  ASSUME NEW S, IsFiniteSet(S), NEW x \in S
  PROVE  /\ IsFiniteSet(S \ {x}) /\ Cardinality(S \ {x}) = Cardinality(S) - 1
         /\ Cardinality(S) \in Nat /\ Cardinality(S) # 0
<1>1. Cardinality(S) \in Nat
  BY FS_CardinalityType
<1>2. IsFiniteSet(S \ {x}) /\ Cardinality(S \ {x}) = Cardinality(S) - 1
  BY FS_RemoveElement
<1>3. Cardinality(S) # 0
  BY FS_EmptySet
<1> QED
  BY <1>1, <1>2, <1>3

\* A task that ends leaves one hand fewer full.
LEMMA ForgetCounts ==
  ASSUME Inv, CountInv, NEW t \in Crawlers, pc[t] = "busy", ForgetTask(t)
  PROVE  /\ IsFiniteSet(Held') /\ Cardinality(Held') = Cardinality(Held) - 1
         /\ Cardinality(Held) \in Nat
<1>1. hand[t] # NoItem
  BY DEF Inv, TaskPhase
<1>2. Held' = Held \ {t} /\ t \in Held
  BY <1>1 DEF Held, ForgetTask, Inv, TypeOK
<1>3. IsFiniteSet(Held)
  BY DEF CountInv
<1> QED
  BY <1>2, <1>3, OneFewer

LEMMA TaskDoneCounts ==
  ASSUME Inv, PlaceInv, HomeInv, CountInv, NEW t \in Crawlers, TaskDone(t)
  PROVE  /\ CountInv' /\ pending > 0
<1>1. /\ pc[t] = "busy" /\ ForgetTask(t)
      /\ finished' = finished \cup {hand[t]}
      /\ pending' = IF pending = 0 THEN 0 ELSE pending - 1
      /\ UNCHANGED <<queued, added>>
  BY DEF TaskDone
<1>2. PICK i \in Items : i = hand[t]
  BY <1>1, HolderFacts
<1>3. i \in added /\ i \notin finished
  BY <1>1, <1>2, ForgetItems
<1>4. IsFiniteSet(added \ finished)
  BY FiniteAssumption, FS_Subset DEF Inv, TypeOK
<1>5. added' \ finished' = (added \ finished) \ {i} /\ i \in added \ finished
  BY <1>1, <1>2, <1>3
<1>6. /\ Cardinality(added' \ finished') = Cardinality(added \ finished) - 1
      /\ Cardinality(added \ finished) \in Nat /\ Cardinality(added \ finished) # 0
  BY <1>4, <1>5, OneFewer
<1>7. pending = Cardinality(added \ finished) /\ pending = queued + Cardinality(Held)
  BY DEF CountInv, CountersExact, Held
<1>8. /\ IsFiniteSet(Held') /\ Cardinality(Held') = Cardinality(Held) - 1
      /\ Cardinality(Held) \in Nat
  BY <1>1, ForgetCounts
<1>9. pending' = Cardinality(added' \ finished') /\ pending' = queued' + Cardinality(Held')
  BY <1>1, <1>6, <1>7, <1>8 DEF Inv, TypeOK
<1> QED
  BY <1>6, <1>7, <1>8, <1>9 DEF CountInv, CountersExact, Held

LEMMA SnoozeCounts ==
  ASSUME Inv, CountInv, NEW t \in Crawlers, SnoozeCurrent(t)
  PROVE  CountInv'
<1>1. /\ pc[t] = "busy" /\ ForgetTask(t) /\ queued' = queued + 1
      /\ UNCHANGED <<pending, added, finished>>
  BY DEF SnoozeCurrent
<1>2. pending = Cardinality(added \ finished) /\ pending = queued + Cardinality(Held)
  BY DEF CountInv, CountersExact, Held
<1>3. /\ IsFiniteSet(Held') /\ Cardinality(Held') = Cardinality(Held) - 1
      /\ Cardinality(Held) \in Nat
  BY <1>1, ForgetCounts
<1>4. pending' = Cardinality(added' \ finished') /\ pending' = queued' + Cardinality(Held')
  BY <1>1, <1>2, <1>3 DEF Inv, TypeOK
<1> QED
  BY <1>3, <1>4 DEF CountInv, CountersExact, Held

-----------------------------------------------------------------------------
(* The invariant of the items *)

ItemInv == Inv /\ PlaceInv /\ BatchInv /\ HomeInv /\ CountInv

LEMMA InitItems == ASSUME Init PROVE ItemInv
<1> DEFINE recovered == UNION {RecoveredChunks[k] : k \in DOMAIN RecoveredChunks}
<1>1. PICK seeds \in SUBSET (Items \ recovered) :
        /\ reservoir = seeds
        /\ added = seeds \cup recovered
        /\ pending = Cardinality(seeds \cup recovered)
  BY DEF Init
<1>2. /\ diskBackReservoir = {} /\ chunks = RecoveredChunks /\ finished = {}
      /\ queued = pending /\ batch = {}
      /\ \A h \in Hosts : ItemsOf(h) = <<>>
      /\ \A t \in Crawlers : hand[t] = NoItem
  BY DEF Init, ItemsOf, FreshHost
<1>3. Inv
  BY InitInv
<1>4. ASSUME NEW i \in Items
      PROVE  Accounted(i)
  <2>1. QueuedAt(i) = {} /\ HeldBy(i) = {}
    <3>1. ItemsOf(HostOf[i]) = <<>>
      BY <1>2, HostsAssumption
    <3> QED
      BY <1>2, <3>1, HostsAssumption DEF QueuedAt, At, HeldBy
  <2>2. i \in recovered <=> ChunksWith(i) # {}
    BY <1>2 DEF ChunksWith
  <2>3. \A j, k \in ChunksWith(i) : j = k
    <3>1. DOMAIN RecoveredChunks = 1..Len(RecoveredChunks)
      BY RecoveredAssumption
    <3> QED
      BY <1>2, <3>1, RecoveredAssumption DEF ChunksWith
  <2>4. ChunksWith(i) = {} \/ Single(ChunksWith(i))
    BY <2>3 DEF Single
  <2> HIDE DEF recovered
  <2>5. i \in reservoir => i \notin recovered
    BY <1>1
  <2>6. i \in added <=> i \in reservoir \/ i \in recovered
    BY <1>1
  <2> QED
    BY <1>2, <2>1, <2>2, <2>4, <2>5, <2>6 DEF Accounted, Placed, Nowhere, OneOf, Single
<1>5. PlaceInv
  BY <1>2, <1>4 DEF PlaceInv
<1>6. HomeInv
  BY <1>2 DEF HomeInv
<1>7. CountInv
  <2>1. Held = {} /\ IsFiniteSet(Held) /\ Cardinality(Held) = 0
    BY <1>2, FS_EmptySet DEF Held
  <2>2. added \ finished = added
    BY <1>2
  <2>3. pending = Cardinality(added) /\ pending \in Nat
    BY <1>1, <1>3 DEF Inv, TypeOK
  <2> QED
    BY <1>2, <2>1, <2>2, <2>3 DEF CountInv, CountersExact, Held
<1> QED
  BY <1>2, <1>3, <1>5, <1>6, <1>7 DEF ItemInv, BatchInv

\* One case per action of Next.
LEMMA NextItems == ASSUME ItemInv, [Next]_vars PROVE ItemInv'
<1> USE DEF ItemInv
<1>1. Inv' /\ BatchInv'
  BY NextInv, BatchStep
<1>2. ASSUME Quiet, UNCHANGED <<pending, queued>>
      PROVE  PlaceInv' /\ HomeInv' /\ CountInv'
  BY <1>2, QuietItems, QuietCounts
<1>3. ASSUME NEW t \in Crawlers, Pop(t)
      PROVE  PlaceInv' /\ HomeInv' /\ CountInv'
  <2>1. CASE PopEnter(t) \/ PopClosed(t) \/ PopWait(t) \/ PopAgain(t) \/ TimeOut(t)
    BY <1>2, <2>1, QuietPop
  <2>2. CASE WakeHost(t)
    BY <1>2, <2>2, WakeHostQuiet DEF counters
  <2>3. ASSUME UNCHANGED <<pending, queued, hand, added, finished>>
        PROVE  CountInv'
    BY <2>3 DEF CountInv, CountersExact, Held
  <2>4. CASE Refill(t)
    BY <2>3, <2>4, RefillItems DEF Refill, counters, threads, history
  <2>5. CASE Promote(t)
    <3>1. UNCHANGED <<pending, queued, hand, added, finished>>
      BY <2>5 DEF Promote, counters, threads, history
    <3> QED
      BY <2>3, <2>5, <3>1, PromoteItems
  <2>6. CASE PopReady(t)
    BY <2>6, PopReadyItems, PopReadyCounts
  <2> QED
    BY <1>3, <2>1, <2>2, <2>4, <2>5, <2>6 DEF Pop
<1>4. ASSUME NEW t \in Crawlers, TaskDone(t) \/ SnoozeCurrent(t)
      PROVE  PlaceInv' /\ HomeInv' /\ CountInv'
  <2>1. CASE TaskDone(t)
    BY <2>1, TaskDoneItems, TaskDoneCounts
  <2>2. CASE SnoozeCurrent(t)
    BY <2>2, SnoozeItems, SnoozeCounts
  <2> QED
    BY <1>4, <2>1, <2>2
<1>5. ASSUME NEW t \in Threads, PushMany(t) \/ PushRest(t) \/ Push(t)
      PROVE  PlaceInv' /\ HomeInv' /\ CountInv'
  <2>1. /\ PlaceInv' /\ HomeInv' /\ \E i \in Items \ added : PushInternal(i)
        /\ UNCHANGED <<hosts, threads, finished>>
    BY <1>5, PushItems
  <2> QED
    BY <2>1, PushCounts
<1>6. ASSUME Shutdown \/ Tick \/ UNCHANGED vars
      PROVE  PlaceInv' /\ HomeInv' /\ CountInv'
  BY <1>2, <1>6, QuietRest
<1> QED
  BY <1>1, <1>3, <1>4, <1>5, <1>6 DEF Next

\* Each item is accounted for, with its own host, and counted, for ever.
THEOREM ItemsInvariance == Spec => []ItemInv
<1>1. Init => ItemInv
  BY InitItems
<1>2. ItemInv /\ [Next]_vars => ItemInv'
  BY NextItems
<1> QED
  BY <1>1, <1>2, PTL DEF Spec

\* pending and queued are what their readers take them for.
THEOREM CountersAreExact == Spec => []CountersExact
<1>1. ItemInv => CountersExact
  BY DEF ItemInv, CountInv
<1> QED
  BY <1>1, ItemsInvariance, PTL

\* An item that is accounted for is found in one place.
LEMMA PlacedOnce ==
  ASSUME ItemInv, NEW i \in Items, Placed(i)
  PROVE  \E p : Places(i) = {p}
<1> DEFINE R == {<<"reservoir">> : x \in {i} \cap reservoir}
           D == {<<"diskBack">> : x \in {i} \cap diskBackReservoir}
           C == {<<"chunk", k>> : k \in {j \in DOMAIN chunks : i \in chunks[j]}}
           Q == UNION {{<<"host", h, k>> : k \in {j \in DOMAIN hostQueues[h].items :
                    hostQueues[h].items[j] = i}} : h \in Hosts}
           H == {<<"hand", t>> : t \in {u \in Crawlers : hand[u] = i}}
           F == {<<"finished">> : x \in {i} \cap finished}
<1>1. Places(i) = R \cup D \cup C \cup Q \cup H \cup F
  BY DEF Places
<1>2. R = IF i \in reservoir THEN {<<"reservoir">>} ELSE {}
  OBVIOUS
<1>3. D = IF i \in diskBackReservoir THEN {<<"diskBack">>} ELSE {}
  OBVIOUS
<1>4. F = IF i \in finished THEN {<<"finished">>} ELSE {}
  OBVIOUS
<1>5. /\ ChunksWith(i) = {} => C = {}
      /\ Single(ChunksWith(i)) => \E p : C = {p}
  <2>1. C = {<<"chunk", k>> : k \in ChunksWith(i)}
    BY DEF ChunksWith
  <2>2. ASSUME NEW k, ChunksWith(i) = {k}
        PROVE  C = {<<"chunk", k>>}
    BY <2>1, <2>2
  <2>3. ChunksWith(i) = {} => C = {}
    BY <2>1
  <2> QED
    BY <2>2, <2>3 DEF Single
<1>6. /\ HeldBy(i) = {} => H = {}
      /\ Single(HeldBy(i)) => \E p : H = {p}
  <2>1. H = {<<"hand", t>> : t \in HeldBy(i)}
    BY DEF HeldBy
  <2>2. ASSUME NEW t, HeldBy(i) = {t}
        PROVE  H = {<<"hand", t>>}
    BY <2>1, <2>2
  <2>3. HeldBy(i) = {} => H = {}
    BY <2>1
  <2> QED
    BY <2>2, <2>3 DEF Single
<1>7. /\ QueuedAt(i) = {} => Q = {}
      /\ Single(QueuedAt(i)) => \E p : Q = {p}
  <2>1. HostOf[i] \in Hosts
    BY HostsAssumption
  <2> DEFINE K(h) == {j \in DOMAIN hostQueues[h].items : hostQueues[h].items[j] = i}
  <2>2. ASSUME NEW h \in Hosts
        PROVE  K(h) = IF h = HostOf[i] THEN QueuedAt(i) ELSE {}
    <3>1. DOMAIN ItemsOf(h) = 1..Len(ItemsOf(h))
      BY DEF ItemInv, Inv, TypeOK, HostQueue, ItemsOf
    <3> QED
      BY <3>1 DEF ItemInv, HomeInv, ItemsOf, QueuedAt, At
  <2>3. Q = UNION {{<<"host", h, k>> : k \in K(h)} : h \in Hosts}
    OBVIOUS
  <2> HIDE DEF K, Q
  <2>4. Q = {<<"host", HostOf[i], k>> : k \in QueuedAt(i)}
    BY <2>1, <2>2, <2>3
  <2>5. ASSUME NEW k, QueuedAt(i) = {k}
        PROVE  Q = {<<"host", HostOf[i], k>>}
    BY <2>4, <2>5
  <2>6. QueuedAt(i) = {} => Q = {}
    BY <2>4
  <2> QED
    BY <2>5, <2>6 DEF Single
<1> HIDE DEF R, D, C, Q, H, F
<1> QED
  BY <1>1, <1>2, <1>3, <1>4, <1>5, <1>6, <1>7 DEF Placed, OneOf

\* Whatever promoteReservoir, the backups to disk, pop(), snoozeCurrent() and
\* taskDone() do with it, an accepted item is in exactly one place.
THEOREM ItemsNeitherLostNorDuplicated == Spec => []NothingLostOrDuplicated
<1>1. ASSUME ItemInv, NEW i \in added
      PROVE  Cardinality(Places(i)) = 1
  <2>1. i \in Items /\ Placed(i)
    BY <1>1 DEF ItemInv, Inv, TypeOK, PlaceInv, Accounted
  <2>2. PICK p : Places(i) = {p}
    BY <1>1, <2>1, PlacedOnce
  <2> QED
    BY <2>2, FS_Singleton
<1>2. ItemInv => NothingLostOrDuplicated
  BY <1>1 DEF NothingLostOrDuplicated
<1> QED
  BY <1>2, ItemsInvariance, PTL

-----------------------------------------------------------------------------
(* The frontier is a pool of items *)

\* A pushMany() that is under way found the frontier open, and nobody closes it
\* meanwhile.
PushOpen == \A t \in Threads : pc[t] = "push" => ~closed

LEMMA PushOpenStep == ASSUME Inv, PushOpen, [Next]_vars PROVE PushOpen'
<1> USE DEF PushOpen
<1>1. pc \in [Threads -> PcValues] /\ Crawlers \subseteq Threads
  BY DEF Inv, TypeOK, Threads
<1>2. ASSUME closed' = closed, \A u \in Threads : pc'[u] = "push" => pc[u] = "push"
      PROVE  PushOpen'
  BY <1>2
<1>3. ASSUME NEW t \in Threads, NEW s, s # "push",
             \/ pc' = [pc EXCEPT ![t] = s] \/ NotifyAll(t, s) \/ NotifyOne(t, s)
      PROVE  \A u \in Threads : pc'[u] = "push" => pc[u] = "push"
  BY <1>1, <1>3 DEF NotifyAll, NotifyOne, Waiting
<1>4. ASSUME NEW t \in Crawlers, Pop(t)
      PROVE  PushOpen'
  <2>1. CASE Promote(t) \/ WakeHost(t)
    <3>1. closed' = closed /\ pc' = pc
      BY <2>1 DEF Promote, WakeHost, counters
    <3> QED
      BY <1>2, <3>1
  <2>2. CASE \/ PopEnter(t) \/ Refill(t) \/ PopReady(t) \/ PopClosed(t) \/ PopWait(t)
             \/ PopAgain(t) \/ TimeOut(t)
    <3>1. closed' = closed
      BY <2>2 DEF PopEnter, Refill, PopReady, PopClosed, PopWait, PopAgain, TimeOut,
                  counters
    <3>2. \E s \in {"wake", "sweep", "drain", "busy", "exited", "waiting", "woken"} :
            pc' = [pc EXCEPT ![t] = s]
      BY <2>2 DEF PopEnter, Refill, PopReady, PopClosed, PopWait, PopAgain, TimeOut
    <3> QED
      BY <1>1, <1>2, <1>3, <3>1, <3>2
  <2> QED
    BY <1>4, <2>1, <2>2 DEF Pop
<1>5. ASSUME NEW t \in Crawlers, TaskDone(t) \/ SnoozeCurrent(t)
      PROVE  PushOpen'
  <2>1. MutexFree
    BY <1>5 DEF TaskDone, SnoozeCurrent
  <2>2. \/ pc' = [pc EXCEPT ![t] = "out"] \/ NotifyAll(t, "out") \/ NotifyOne(t, "out")
    BY <1>5 DEF TaskDone, SnoozeCurrent
  <2>3. \A u \in Threads : pc'[u] # "push"
    BY <1>1, <1>3, <2>1, <2>2 DEF MutexFree
  <2> QED
    BY <2>3
<1>6. ASSUME NEW t \in Threads, NEW i, NEW rest, PushOneOf(t, i, rest), ~closed
      PROVE  PushOpen'
  BY <1>6 DEF PushOneOf
<1>7. ASSUME NEW t \in Threads, PushMany(t) \/ PushRest(t) \/ Push(t)
      PROVE  PushOpen'
  BY <1>6, <1>7 DEF PushMany, PushRest, Push
<1>8. CASE Shutdown
  BY <1>1, <1>8 DEF Shutdown, MutexFree, Waiting
<1>9. CASE Tick \/ UNCHANGED vars
  BY <1>9 DEF Tick, counters, vars
<1> QED
  BY <1>4, <1>5, <1>7, <1>8, <1>9 DEF Next

PoolItems == reservoir \cup diskBackReservoir \cup OnDisk \cup InHostQueues
InHands == {hand[t] : t \in Crawlers} \ {NoItem}

\* The pool, the hands and the finished items are what was ever accepted.
LEMMA PoolFacts ==
  ASSUME ItemInv
  PROVE  /\ PoolItems = {i \in added : i \notin finished /\ HeldBy(i) = {}}
         /\ InHands = {i \in added : i \notin finished /\ HeldBy(i) # {}}
         /\ added \subseteq Items /\ finished \subseteq added
<1>1. Inv /\ PlaceInv /\ HomeInv
  BY DEF ItemInv
<1>2. /\ reservoir \subseteq Items /\ diskBackReservoir \subseteq Items
      /\ added \subseteq Items /\ finished \subseteq Items
      /\ chunks \in Seq(SUBSET Items) /\ NoItem \notin Items
      /\ \A t \in Crawlers : hand[t] \in Items \cup {NoItem}
  BY <1>1, HostsAssumption DEF Inv, TypeOK
<1>3. ASSUME NEW i
      PROVE  i \in OnDisk <=> i \in Items /\ ChunksWith(i) # {}
  BY <1>2 DEF OnDisk, ChunksWith
<1>4. ASSUME NEW i
      PROVE  i \in InHostQueues <=> i \in Items /\ QueuedAt(i) # {}
  <2>1. \A h \in Hosts : /\ ItemsOf(h) \in Seq(Items)
                         /\ DOMAIN ItemsOf(h) = 1..Len(ItemsOf(h))
                         /\ \A k \in 1..Len(ItemsOf(h)) : ItemsOf(h)[k] \in Items
    BY <1>1 DEF Inv, TypeOK, HostQueue, ItemsOf
  <2>2. i \in InHostQueues <=> \E h \in Hosts : \E k \in DOMAIN ItemsOf(h) : i = ItemsOf(h)[k]
    BY DEF InHostQueues, ItemsOf
  <2>3. ASSUME i \in InHostQueues
        PROVE  i \in Items /\ QueuedAt(i) # {}
    <3>1. PICK h \in Hosts : \E k \in DOMAIN ItemsOf(h) : i = ItemsOf(h)[k]
      BY <2>2, <2>3
    <3>2. PICK k \in DOMAIN ItemsOf(h) : i = ItemsOf(h)[k]
      BY <3>1
    <3>3. HostOf[i] = h /\ i \in Items /\ k \in 1..Len(ItemsOf(h))
      BY <1>1, <2>1, <3>2 DEF HomeInv
    <3> QED
      BY <3>2, <3>3 DEF QueuedAt, At
  <2>4. ASSUME i \in Items, QueuedAt(i) # {}
        PROVE  i \in InHostQueues
    <3>1. HostOf[i] \in Hosts
      BY <2>4, HostsAssumption
    <3>2. PICK k \in 1..Len(ItemsOf(HostOf[i])) : ItemsOf(HostOf[i])[k] = i
      BY <2>4 DEF QueuedAt, At
    <3> QED
      BY <2>1, <2>2, <3>1, <3>2
  <2> QED
    BY <2>3, <2>4
<1>5. ASSUME NEW i \in Items
      PROVE  /\ i \in PoolItems <=> i \in added /\ i \notin finished /\ HeldBy(i) = {}
             /\ HeldBy(i) # {} => i \in added /\ i \notin finished
             /\ i \in finished => i \in added
  <2>1. Accounted(i)
    BY <1>1 DEF PlaceInv
  <2> QED
    BY <1>3, <1>4, <2>1 DEF PoolItems, Accounted, Placed, Nowhere, OneOf, Single
<1>6. PoolItems \subseteq Items
  BY <1>2, <1>3, <1>4 DEF PoolItems
<1>7. \A i : i \in InHands <=> i \in Items /\ HeldBy(i) # {}
  BY <1>2 DEF InHands, HeldBy
<1>8. PoolItems = {i \in added : i \notin finished /\ HeldBy(i) = {}}
  BY <1>2, <1>5, <1>6
<1>9. InHands = {i \in added : i \notin finished /\ HeldBy(i) # {}}
  BY <1>2, <1>5, <1>7
<1> QED
  BY <1>2, <1>5, <1>8, <1>9

PoolShape ==
  /\ PoolItems = {i \in added : i \notin finished /\ HeldBy(i) = {}}
  /\ InHands = {i \in added : i \notin finished /\ HeldBy(i) # {}}

LEMMA PoolShapeNow == ItemInv => PoolShape
  BY PoolFacts DEF PoolShape

LEMMA PoolShapeNext == ItemInv' => PoolShape'
  BY PoolShapeNow, PTL

\* A step that accepts, hands out and settles nothing is a stutter of the pool.
LEMMA PoolStutters ==
  ASSUME ItemInv, ItemInv', UNCHANGED <<hand, added, finished, closed>>
  PROVE  UNCHANGED <<PoolItems, hand, finished, closed>>
<1>1. \A i : HeldBy(i)' = HeldBy(i)
  BY DEF HeldBy
<1>2. PoolItems' = {i \in added' : i \notin finished' /\ HeldBy(i)' = {}}
  BY PoolShapeNext DEF PoolShape
<1>3. PoolItems = {i \in added : i \notin finished /\ HeldBy(i) = {}}
  BY PoolShapeNow DEF PoolShape
<1>4. PoolItems' = PoolItems
  BY <1>1, <1>2, <1>3
<1> QED
  BY <1>4

\* A push adds its item to the pool.
LEMMA PushAdds ==
  ASSUME ItemInv, ItemInv', NEW i \in Items \ added, PushInternal(i), ~closed,
         UNCHANGED <<hand, finished, closed>>
  PROVE  Pool!Add(i)
<1>1. PoolShape /\ PoolShape' /\ finished \subseteq added
  BY PoolShapeNow, PoolShapeNext, PoolFacts
<1>2. \A j : HeldBy(j)' = HeldBy(j)
  BY DEF HeldBy
<1>3. added' = added \cup {i}
  BY DEF PushInternal
<1>4. HeldBy(i) = {}
  BY DEF ItemInv, PlaceInv, Accounted, Nowhere
<1>5. PoolItems' = PoolItems \cup {i}
  BY <1>1, <1>2, <1>3, <1>4 DEF PoolShape
<1>6. i \notin PoolItems \cup InHands \cup finished
  BY <1>1 DEF PoolShape
<1> QED
  BY <1>5, <1>6 DEF Pool!Add, Pool!InHand, PoolItems, InHands

\* pop() takes its item from the pool, while no thread works on that host.
LEMMA PopTakes ==
  ASSUME ItemInv, ItemInv', NEW t \in Crawlers, PopReady(t)
  PROVE  \E i \in Items : Pool!Take(t, i)
<1>1. PICK h \in Hosts :
        /\ ItemsOf(h) \in Seq(Items) /\ ItemsOf(h) # <<>>
        /\ hand[t] = NoItem /\ Head(ItemsOf(h)) \in Items
        /\ hand' = [hand EXCEPT ![t] = Head(ItemsOf(h))]
        /\ \A u \in Crawlers : activeHostKey[u] # h
        /\ UNCHANGED <<closed, history>>
  BY PopReadyEffect DEF ItemInv
<1>2. PICK i \in Items : i = Head(ItemsOf(h))
  BY <1>1
<1>3. HostOf[i] = h /\ QueuedAt(i) # {}
  <2>1. At(ItemsOf(h), i) # {} /\ \E k \in 1..Len(ItemsOf(h)) : i = ItemsOf(h)[k]
    BY <1>1, <1>2, TailAt
  <2>2. DOMAIN ItemsOf(h) = 1..Len(ItemsOf(h))
    BY <1>1
  <2> QED
    BY <2>1, <2>2 DEF ItemInv, HomeInv, QueuedAt
<1>4. i \in added /\ i \notin finished /\ HeldBy(i) = {}
  BY <1>3 DEF ItemInv, PlaceInv, Accounted, Placed, Nowhere, OneOf
<1>5. PoolShape /\ PoolShape' /\ UNCHANGED <<added, finished, closed>>
  BY <1>1, PoolShapeNow, PoolShapeNext DEF history
<1>6. /\ hand' = [hand EXCEPT ![t] = i] /\ NoItem \notin Items
      /\ hand \in [Crawlers -> Items \cup {NoItem}]
  BY <1>1, <1>2, HostsAssumption DEF ItemInv, Inv, TypeOK
<1>7. \A j \in Items : HeldBy(j)' = IF j = i THEN HeldBy(j) \cup {t} ELSE HeldBy(j)
  BY <1>1, <1>6 DEF HeldBy
<1>8. added \subseteq Items
  BY DEF ItemInv, Inv, TypeOK
<1>9. PoolItems' = PoolItems \ {i} /\ i \in PoolItems
  BY <1>4, <1>5, <1>7, <1>8 DEF PoolShape
<1>10. ASSUME NEW j \in InHands
       PROVE  HostOf[j] # HostOf[i]
  <2>1. PICK u \in Crawlers : hand[u] = j /\ j # NoItem
    BY <1>10 DEF InHands
  <2>2. activeHostKey[u] = HostOf[j]
    BY <2>1 DEF ItemInv, HomeInv
  <2> QED
    BY <1>1, <1>3, <2>2
<1>11. Pool!Take(t, i)
  BY <1>1, <1>5, <1>6, <1>9, <1>10 DEF Pool!Take, Pool!InHand, PoolItems, InHands
<1> QED
  BY <1>11

\* What the end of a task does to the hands.
LEMMA ForgetShape ==
  ASSUME ItemInv, NEW t \in Crawlers, pc[t] = "busy", ForgetTask(t), NEW i \in Items,
         i = hand[t]
  PROVE  /\ i \in added /\ i \notin finished /\ hand[t] # NoItem
         /\ hand' = [hand EXCEPT ![t] = NoItem]
         /\ HeldBy(i)' = {} /\ HeldBy(i) # {}
         /\ \A j \in Items : j # i => HeldBy(j)' = HeldBy(j)
         /\ added \subseteq Items
<1>1. HeldBy(i) = {t} /\ HeldBy(i)' = {} /\ i \in added /\ i \notin finished
  BY ForgetItems DEF ItemInv
<1>2. \A j \in Items : j # i => HeldBy(j)' = HeldBy(j)
  BY ForgetItems DEF ItemInv
<1> QED
  BY <1>1, <1>2, HostsAssumption DEF ForgetTask, ItemInv, Inv, TypeOK

\* snoozeCurrent() puts its item back into the pool.
LEMMA SnoozePutsBack ==
  ASSUME ItemInv, ItemInv', NEW t \in Crawlers, SnoozeCurrent(t)
  PROVE  Pool!PutBack(t)
<1>1. /\ pc[t] = "busy" /\ ForgetTask(t) /\ UNCHANGED <<closed, added, finished>>
  BY DEF SnoozeCurrent
<1>2. PICK i \in Items : i = hand[t]
  BY <1>1, HolderFacts DEF ItemInv
<1>3. /\ i \in added /\ i \notin finished /\ hand[t] # NoItem
      /\ hand' = [hand EXCEPT ![t] = NoItem]
      /\ HeldBy(i)' = {} /\ HeldBy(i) # {}
      /\ \A j \in Items : j # i => HeldBy(j)' = HeldBy(j)
      /\ added \subseteq Items
  BY <1>1, <1>2, ForgetShape
<1>4. PoolShape /\ PoolShape'
  BY PoolShapeNow, PoolShapeNext
<1>5. PoolItems' = PoolItems \cup {i}
  BY <1>1, <1>3, <1>4 DEF PoolShape
<1> QED
  BY <1>1, <1>2, <1>3, <1>5 DEF Pool!PutBack, PoolItems

\* taskDone() finishes its item, and closes the pool only with the last one.
LEMMA TaskDoneFinishes ==
  ASSUME ItemInv, ItemInv', NEW t \in Crawlers, TaskDone(t)
  PROVE  Pool!Finish(t)
<1>1. /\ pc[t] = "busy" /\ ForgetTask(t) /\ finished' = finished \cup {hand[t]}
      /\ UNCHANGED added
  BY DEF TaskDone
<1>2. PICK i \in Items : i = hand[t]
  BY <1>1, HolderFacts DEF ItemInv
<1>3. /\ i \in added /\ i \notin finished /\ hand[t] # NoItem
      /\ hand' = [hand EXCEPT ![t] = NoItem]
      /\ HeldBy(i)' = {} /\ HeldBy(i) # {}
      /\ \A j \in Items : j # i => HeldBy(j)' = HeldBy(j)
      /\ added \subseteq Items
  BY <1>1, <1>2, ForgetShape
<1>4. PoolShape /\ PoolShape'
  BY PoolShapeNow, PoolShapeNext
<1>5. PoolItems' = PoolItems
  BY <1>1, <1>2, <1>3, <1>4 DEF PoolShape
<1>6. pending > 0 /\ pending = Cardinality(added \ finished)
  BY TaskDoneCounts DEF ItemInv, CountInv, CountersExact
<1>7. pending = 1 <=> added \ finished = {i}
  <2>1. IsFiniteSet(added \ finished) /\ i \in added \ finished
    BY <1>3, FiniteAssumption, FS_Subset
  <2>2. pending = 1 => \E x : added \ finished = {x}
    BY <1>6, <2>1, FS_Singleton
  <2>3. added \ finished = {i} => pending = 1
    BY <1>6, FS_Singleton
  <2> QED
    BY <2>1, <2>2, <2>3
<1>8. added \ finished = {i} <=> PoolItems = {} /\ InHands = {i}
  <2>1. PoolItems \cup InHands = added \ finished /\ i \in InHands
    BY <1>3, <1>4 DEF PoolShape
  <2>2. i \notin PoolItems
    BY <1>3, <1>4 DEF PoolShape
  <2>3. \A j \in InHands : j \notin PoolItems
    BY <1>4 DEF PoolShape
  <2> QED
    BY <2>1, <2>2, <2>3
<1>9. closed' = (closed \/ (AutoClose /\ pending = 1))
  <2>1. /\ pending = 0 => closed' = closed
        /\ pending = 1 => closed' = (closed \/ AutoClose)
        /\ pending # 0 /\ pending # 1 => closed' = closed
    BY DEF TaskDone, LastTask
  <2>2. closed \in BOOLEAN /\ AutoClose \in BOOLEAN
    BY FlagsAssumption DEF ItemInv, Inv, TypeOK
  <2> QED
    BY <1>6, <2>1, <2>2
<1>10. closed' = (closed \/ (AutoClose /\ PoolItems = {} /\ InHands = {hand[t]}))
  BY <1>2, <1>7, <1>8, <1>9
<1> QED
  BY <1>1, <1>3, <1>5, <1>10 DEF Pool!Finish, Pool!InHand, PoolItems, InHands

LEMMA InitRefines == ASSUME Init PROVE Pool!PoolInit
<1>1. ItemInv
  BY InitItems
<1>2. PoolItems \in SUBSET Items /\ PoolItems = added
  <2>1. finished = {} /\ \A i \in Items : HeldBy(i) = {}
    BY HostsAssumption DEF Init, HeldBy
  <2>2. PoolShape /\ added \subseteq Items
    BY <1>1, PoolFacts DEF PoolShape
  <2> QED
    BY <2>1, <2>2 DEF PoolShape
<1>3. closed = (AutoClose /\ PoolItems = {})
  <2>1. pending = Cardinality(added) /\ closed = (pending = 0 /\ AutoClose)
    BY DEF Init
  <2>2. IsFiniteSet(added)
    BY <1>2, FiniteAssumption, FS_Subset
  <2>3. pending = 0 <=> added = {}
    BY <2>1, <2>2, FS_EmptySet
  <2> QED
    BY <1>2, <2>1, <2>3
<1>4. hand = [t \in Crawlers |-> NoItem] /\ finished = {}
  BY DEF Init
<1> QED
  BY <1>2, <1>3, <1>4 DEF Pool!PoolInit, PoolItems

LEMMA StepRefines ==
  ASSUME ItemInv, ItemInv', PushOpen, [Next]_vars
  PROVE  [Pool!PoolNext]_Pool!poolVars
<1>1. ASSUME UNCHANGED <<hand, added, finished, closed>>
      PROVE  UNCHANGED Pool!poolVars
  BY <1>1, PoolStutters DEF Pool!poolVars, PoolItems
<1>2. ASSUME NEW t \in Crawlers, Pop(t)
      PROVE  [Pool!PoolNext]_Pool!poolVars
  <2>1. CASE PopReady(t)
    BY <2>1, PopTakes DEF Pool!PoolNext
  <2>2. CASE \/ PopEnter(t) \/ WakeHost(t) \/ Refill(t) \/ Promote(t) \/ PopClosed(t)
             \/ PopWait(t) \/ PopAgain(t) \/ TimeOut(t)
    <3>1. UNCHANGED <<hand, added, finished, closed>>
      BY <2>2 DEF PopEnter, WakeHost, Refill, Promote, PopClosed, PopWait, PopAgain,
                  TimeOut, counters, threads, history
    <3> QED
      BY <1>1, <3>1
  <2> QED
    BY <1>2, <2>1, <2>2 DEF Pop
<1>3. ASSUME NEW t \in Crawlers, TaskDone(t) \/ SnoozeCurrent(t)
      PROVE  Pool!PoolNext
  BY <1>3, TaskDoneFinishes, SnoozePutsBack DEF Pool!PoolNext
<1>4. ASSUME NEW t \in Threads, PushMany(t) \/ PushRest(t) \/ Push(t)
      PROVE  Pool!PoolNext
  <2>1. PICK i \in Items \ added : PushInternal(i)
    BY <1>4, PushItems DEF ItemInv
  <2>2. UNCHANGED <<hand, finished, closed>>
    BY <1>4 DEF PushMany, PushRest, PushOneOf, Push, threads
  <2>3. ~closed
    BY <1>4 DEF PushMany, PushRest, Push, PushOpen
  <2> QED
    BY <2>1, <2>2, <2>3, PushAdds DEF Pool!PoolNext
<1>5. CASE Shutdown
  <2>1. /\ UNCHANGED <<hand, added, finished>> /\ ~closed /\ closed' = TRUE
    BY <1>5 DEF Shutdown, threads, history
  <2>2. PoolItems' = PoolItems
    BY <1>5 DEF Shutdown, PoolItems, layers, hosts, OnDisk, InHostQueues
  <2> QED
    BY <2>1, <2>2 DEF Pool!PoolNext, Pool!Close, PoolItems
<1>6. CASE Tick \/ UNCHANGED vars
  BY <1>1, <1>6 DEF Tick, vars, counters, threads, history
<1> QED
  BY <1>2, <1>3, <1>4, <1>5, <1>6 DEF Next

\* Behind its layers, sweeps, sleeping hosts and wakeups the frontier is a pool
\* of items: one is taken at a time per host, kept until done or put back, and
\* the pool closes itself only with the last one.
THEOREM FrontierIsAPool == Spec => ImplementsPool
<1>1. Init => PushOpen
  BY DEF Init, PushOpen, Threads
<1>2. Inv /\ PushOpen /\ [Next]_vars => PushOpen'
  BY PushOpenStep
<1>3. Spec => []PushOpen
  BY <1>1, <1>2, Invariance, PTL DEF Spec
<1>4. Init => Pool!PoolInit
  BY InitRefines
<1>5. ItemInv /\ ItemInv' /\ PushOpen /\ [Next]_vars => [Pool!PoolNext]_Pool!poolVars
  BY StepRefines
<1> QED
  BY <1>3, <1>4, <1>5, ItemsInvariance, PTL DEF Spec, ImplementsPool, Pool!PoolSpec

-----------------------------------------------------------------------------
(* Who is inside the monitor *)

Locked == {"wake", "sweep", "drain", "push"}

\* One thread has m, no ready host is ever skipped, threads leave a closed
\* frontier only, and nobody waits in it.
MutexInv ==
  /\ \A t, u \in Threads : pc[t] \in Locked /\ pc[u] \in Locked => t = u
  /\ \A t \in Threads : pc[t] # "drain"
  /\ \A t \in Crawlers : pc[t] = "exited" => closed
  /\ closed => Waiting = {}

\* Thread t goes to s; of the others only waiting ones move, to "woken".
Moves(t, s) ==
  /\ pc'[t] = s
  /\ \A u \in Threads : u # t => pc'[u] = pc[u] \/ (pc[u] = "waiting" /\ pc'[u] = "woken")

LEMMA MovesFacts ==
  ASSUME TypeOK, NEW t \in Threads, NEW s \in PcValues,
         \/ pc' = [pc EXCEPT ![t] = s]
         \/ (pc[t] # "waiting" /\ (NotifyAll(t, s) \/ NotifyOne(t, s)))
  PROVE  Moves(t, s)
<1>1. CASE pc' = [pc EXCEPT ![t] = s]
  BY <1>1 DEF TypeOK, Moves
<1>2. CASE pc[t] # "waiting" /\ (NotifyAll(t, s) \/ NotifyOne(t, s))
  BY <1>2, NotifyTypes DEF Moves, Waiting
<1> QED
  BY <1>1, <1>2

LEMMA CrawlersAreThreads == Crawlers \subseteq Threads /\ Producers \subseteq Threads
  BY DEF Threads

LEMMA MovesKeepMutex ==
  ASSUME TypeOK, MutexInv, NEW t \in Threads, NEW s \in PcValues \ {"drain"}, Moves(t, s),
         s \in Locked => MutexFree \/ pc[t] \in Locked,
         closed => closed',
         s = "exited" => closed', s = "waiting" => ~closed',
         closed' => closed \/ Waiting' = {}
  PROVE  MutexInv'
<1>1. \A u \in Threads : pc'[u] \in Locked => u = t \/ pc[u] \in Locked
  BY DEF Moves, Locked
<1>2. (\A u, v \in Threads : pc[u] \in Locked /\ pc[v] \in Locked => u = v)'
  BY <1>1 DEF MutexInv, MutexFree, Locked, Moves
<1>3. \A u \in Threads : pc'[u] # "drain"
  BY DEF Moves, MutexInv
<1>4. \A u \in Crawlers : pc'[u] = "exited" => closed'
  BY CrawlersAreThreads DEF Moves, MutexInv
<1>5. closed' => Waiting' = {}
  BY CrawlersAreThreads DEF Moves, MutexInv, Waiting
<1> QED
  BY <1>2, <1>3, <1>4, <1>5 DEF MutexInv

\* Where each step takes the thread that makes it.
LEMMA PopMoves ==
  ASSUME Inv, MutexInv, NEW t \in Crawlers, Pop(t)
  PROVE  \E s \in PcValues \ {"drain"} :
           /\ Moves(t, s) /\ closed' = closed
           /\ s \in Locked => MutexFree \/ pc[t] \in Locked
           /\ s = "waiting" => PopWait(t)
           /\ s = "exited" => PopClosed(t)
<1> DEFINE Goal(s) ==
      /\ Moves(t, s) /\ closed' = closed
      /\ s \in Locked => MutexFree \/ pc[t] \in Locked
      /\ s = "waiting" => PopWait(t)
      /\ s = "exited" => PopClosed(t)
<1>0. t \in Threads /\ TypeOK
  BY CrawlersAreThreads DEF Inv
<1>1. ASSUME NEW s \in PcValues \ {"drain"}, pc' = [pc EXCEPT ![t] = s] \/ (pc' = pc /\ pc[t] = s)
      PROVE  Moves(t, s)
  BY <1>0, <1>1, MovesFacts DEF Moves
<1>2. CASE PopEnter(t)
  <2>1. Goal("wake")
    BY <1>1, <1>2 DEF PopEnter, PcValues, counters
  <2> QED
    BY <2>1 DEF PcValues
<1>3. CASE WakeHost(t)
  <2>1. Goal("wake")
    BY <1>1, <1>3 DEF WakeHost, PcValues, counters, Locked
  <2> QED
    BY <2>1 DEF PcValues
<1>4. CASE Refill(t)
  <2>1. Goal("sweep")
    BY <1>1, <1>4 DEF Refill, PcValues, counters, Locked
  <2> QED
    BY <2>1 DEF PcValues
<1>5. CASE Promote(t)
  <2>1. Goal("sweep")
    BY <1>1, <1>5 DEF Promote, PcValues, counters, Locked
  <2> QED
    BY <2>1 DEF PcValues
<1>6. CASE PopReady(t)
  <2>1. pc' = [pc EXCEPT ![t] = "busy"] /\ closed' = closed
    BY <1>6, PopReadyEffect
  <2>2. Goal("busy")
    BY <1>1, <2>1 DEF PcValues, Locked
  <2> QED
    BY <2>2 DEF PcValues
<1>7. CASE PopClosed(t)
  <2>1. Goal("exited")
    BY <1>1, <1>7 DEF PopClosed, PcValues, counters, Locked
  <2> QED
    BY <2>1 DEF PcValues
<1>8. CASE PopWait(t)
  <2>1. Goal("waiting")
    BY <1>1, <1>8 DEF PopWait, PcValues, counters, Locked
  <2> QED
    BY <2>1 DEF PcValues
<1>9. CASE PopAgain(t)
  <2>1. Goal("wake")
    BY <1>1, <1>9 DEF PopAgain, Draining, PcValues, counters, Locked
  <2> QED
    BY <2>1 DEF PcValues
<1>10. CASE TimeOut(t)
  <2>1. Goal("woken")
    BY <1>1, <1>10 DEF TimeOut, PcValues, counters, Locked
  <2> QED
    BY <2>1 DEF PcValues
<1> QED
  BY <1>2, <1>3, <1>4, <1>5, <1>6, <1>7, <1>8, <1>9, <1>10 DEF Pop

\* A task that ends: the broadcast of the last one leaves nobody waiting.
LEMMA EndMoves ==
  ASSUME Inv, NEW t \in Crawlers, TaskDone(t) \/ SnoozeCurrent(t)
  PROVE  /\ Moves(t, "out") /\ (closed => closed')
         /\ closed' => closed \/ Waiting' = {}
<1>1. t \in Threads /\ TypeOK /\ pc[t] = "busy" /\ "out" \in PcValues
  BY CrawlersAreThreads DEF Inv, TaskDone, SnoozeCurrent, PcValues
<1>2. Moves(t, "out")
  BY <1>1, MovesFacts DEF TaskDone, SnoozeCurrent
<1>3. NotifyAll(t, "out") => Waiting' = {}
  BY <1>1, CrawlersAreThreads DEF NotifyAll, Waiting, TypeOK
<1>4. closed' # closed => NotifyAll(t, "out") /\ closed' = (closed \/ AutoClose)
  BY DEF TaskDone, SnoozeCurrent
<1>5. closed \in BOOLEAN
  BY <1>1 DEF TypeOK
<1> QED
  BY <1>2, <1>3, <1>4, <1>5

\* A push by t; the frontier is open, before and after.
LEMMA PushMoves ==
  ASSUME Inv, PushOpen, NEW t \in Threads, PushMany(t) \/ PushRest(t) \/ Push(t)
  PROVE  \E s \in {"busy", "idle", "push"} :
           /\ Moves(t, s) /\ ~closed /\ closed' = closed
           /\ s = "idle" => t \notin Crawlers
           /\ MutexFree \/ pc[t] \in Locked
<1>1. TypeOK /\ AfterPush(t) \in {"busy", "idle"} /\ {"busy", "idle", "push"} \subseteq PcValues
      /\ (AfterPush(t) = "idle" => t \notin Crawlers)
  BY DEF Inv, AfterPush, PcValues
<1>2. pc[t] # "waiting" /\ ~closed /\ closed' = closed /\ (MutexFree \/ pc[t] \in Locked)
  BY DEF PushMany, PushRest, Push, PushOneOf, MayPush, PushOpen, Locked
<1>3. \/ pc' = [pc EXCEPT ![t] = "push"]
      \/ NotifyAll(t, AfterPush(t)) \/ NotifyOne(t, AfterPush(t))
  BY DEF PushMany, PushRest, Push, PushOneOf
<1>4. Moves(t, "push") \/ Moves(t, AfterPush(t))
  BY <1>1, <1>2, <1>3, MovesFacts
<1> QED
  BY <1>1, <1>2, <1>4

LEMMA MutexStep == ASSUME Inv, PushOpen, MutexInv, [Next]_vars PROVE MutexInv'
<1>0. TypeOK /\ closed \in BOOLEAN
  BY DEF Inv, TypeOK
<1>1. ASSUME NEW t \in Crawlers, Pop(t)
      PROVE  MutexInv'
  <2>1. PICK s \in PcValues \ {"drain"} :
           /\ Moves(t, s) /\ closed' = closed
           /\ s \in Locked => MutexFree \/ pc[t] \in Locked
           /\ s = "waiting" => PopWait(t)
           /\ s = "exited" => PopClosed(t)
    BY <1>1, PopMoves
  <2>2. (s = "waiting" => ~closed) /\ (s = "exited" => closed)
    BY <2>1 DEF PopWait, PopClosed
  <2> QED
    BY <1>0, <2>1, <2>2, MovesKeepMutex, CrawlersAreThreads
<1>2. ASSUME NEW t \in Crawlers, TaskDone(t) \/ SnoozeCurrent(t)
      PROVE  MutexInv'
  <2>1. "out" \in PcValues \ {"drain"} /\ "out" \notin Locked
    BY DEF PcValues, Locked
  <2> QED
    BY <1>0, <1>2, <2>1, EndMoves, MovesKeepMutex, CrawlersAreThreads
<1>3. ASSUME NEW t \in Threads, PushMany(t) \/ PushRest(t) \/ Push(t)
      PROVE  MutexInv'
  <2>1. PICK s \in {"busy", "idle", "push"} :
           /\ Moves(t, s) /\ ~closed /\ closed' = closed
           /\ MutexFree \/ pc[t] \in Locked
    BY <1>3, PushMoves
  <2>2. s \in PcValues \ {"drain"} /\ s # "exited" /\ s # "waiting"
    BY <2>1 DEF PcValues
  <2> QED
    BY <1>0, <2>1, <2>2, MovesKeepMutex
<1>4. CASE Shutdown
  <2>1. closed' = TRUE /\ \A u \in Threads : pc'[u] = IF u \in Waiting THEN "woken" ELSE pc[u]
    BY <1>4 DEF Shutdown
  <2> QED
    BY <2>1, CrawlersAreThreads DEF MutexInv, Locked, Waiting
<1>5. CASE Tick \/ UNCHANGED vars
  BY <1>5 DEF MutexInv, Waiting, Tick, counters, vars
<1> QED
  BY <1>1, <1>2, <1>3, <1>4, <1>5 DEF Next

-----------------------------------------------------------------------------
(* Timers *)

\* No waiting thread sleeps past a sleeping host, and every such host is due
\* within the time there is.
TimerInv ==
  /\ WaitersWatchSleepers
  /\ \A e \in sleepingHosts : e.readyAtMs < Forever

\* scheduleHost itself puts no host to sleep: a blocked host already sleeps.
LEMMA ScheduleSleepers ==
  ASSUME NEW h, NEW q, NEW t \in Nat, q.blockedUntilMs \in Nat,
         ScheduleHost(h, q, t), q.inSleepingQueue \/ q.blockedUntilMs <= t
  PROVE  sleepingHosts' = sleepingHosts
  BY DEF ScheduleHost

LEMMA PopSleepers ==
  ASSUME Inv, NEW t \in Crawlers, Pop(t)
  PROVE  sleepingHosts' \subseteq sleepingHosts
<1>1. CASE Promote(t)
  <2>1. PICK i \in reservoir :
          ScheduleHost(HostOf[i], [hostQueues[HostOf[i]] EXCEPT !.items = Append(@, i)], nowMs)
    BY <1>1 DEF Promote
  <2> DEFINE h == HostOf[i]
             q == [hostQueues[h] EXCEPT !.items = Append(@, i)]
  <2>2. h \in Hosts /\ hostQueues[h] \in HostQueue /\ FlagsOK(hostQueues[h]) /\ nowMs \in Nat
    BY HostsAssumption DEF Inv, TypeOK, HostInv
  <2>3. /\ q.inSleepingQueue = hostQueues[h].inSleepingQueue
        /\ q.blockedUntilMs = hostQueues[h].blockedUntilMs
    BY <2>2 DEF HostQueue
  <2>4. q.blockedUntilMs \in Nat /\ (q.inSleepingQueue \/ q.blockedUntilMs <= nowMs)
    BY <2>2, <2>3 DEF HostQueue, FlagsOK
  <2>5. ScheduleHost(h, q, nowMs)
    BY <2>1
  <2> HIDE DEF h, q
  <2> QED
    BY <2>2, <2>4, <2>5, ScheduleSleepers
<1>2. CASE WakeHost(t)
  BY <1>2 DEF WakeHost
<1>3. CASE PopReady(t)
  BY <1>3 DEF PopReady
<1>4. CASE \/ PopEnter(t) \/ Refill(t) \/ PopClosed(t) \/ PopWait(t) \/ PopAgain(t)
           \/ TimeOut(t)
  BY <1>4 DEF PopEnter, Refill, PopClosed, PopWait, PopAgain, TimeOut, hosts
<1> QED
  BY <1>1, <1>2, <1>3, <1>4 DEF Pop

LEMMA TaskDoneSleepers ==
  ASSUME Inv, NEW t \in Crawlers, TaskDone(t)
  PROVE  sleepingHosts' = sleepingHosts
<1> DEFINE h == activeHostKey[t]
           q == [hostQueues[h] EXCEPT !.inFlight = FALSE]
<1>1. ScheduleHost(h, q, now) /\ pc[t] = "busy" /\ now \in Nat
  BY DEF TaskDone, Inv, TypeOK
<1>2. hostQueues[h] \in HostQueue /\ hostQueues[h].blockedUntilMs = 0
  BY <1>1, HolderFacts
<1>3. q.blockedUntilMs = 0
  BY <1>2 DEF HostQueue
<1> HIDE DEF h, q
<1> QED
  BY <1>1, <1>3, ScheduleSleepers

LEMMA SnoozeSleepers ==
  ASSUME Inv, NEW t \in Crawlers, SnoozeCurrent(t)
  PROVE  \A e \in sleepingHosts' : e \in sleepingHosts \/ e.readyAtMs < Forever
<1> DEFINE h == activeHostKey[t]
           old == hostQueues[h]
<1>1. h \in Hosts /\ old \in HostQueue /\ old.blockedUntilMs = 0 /\ ~old.inSleepingQueue
  BY HolderFacts DEF SnoozeCurrent
<1>2. PICK readyAt \in 1..MaxTime :
        LET until == IF readyAt > old.blockedUntilMs THEN readyAt
                     ELSE old.blockedUntilMs
            q == [old EXCEPT !.inFlight = FALSE,
                             !.items = <<hand[t]>> \o @,
                             !.blockedUntilMs = until,
                             !.sleepGeneration = @ + 1] IN
        \/ sleepingHosts' = sleepingHosts \cup
                    {[readyAtMs |-> until, generation |-> q.sleepGeneration,
                      hostKey |-> h]}
        \/ until <= now /\ ScheduleHost(h, q, now)
  BY DEF SnoozeCurrent
<1> DEFINE its == <<hand[t]>> \o old.items
           gen == old.sleepGeneration + 1
           q == [old EXCEPT !.inFlight = FALSE, !.items = its,
                            !.blockedUntilMs = readyAt, !.sleepGeneration = gen]
<1>3. readyAt \in Nat /\ readyAt > 0 /\ readyAt < Forever /\ now \in Nat
  BY BoundsAssumption DEF Forever, Inv, TypeOK
<1>4. \/ sleepingHosts' = sleepingHosts \cup
                    {[readyAtMs |-> readyAt, generation |-> q.sleepGeneration,
                      hostKey |-> h]}
      \/ readyAt <= now /\ ScheduleHost(h, q, now)
  BY <1>1, <1>2, <1>3
<1> HIDE DEF its, gen
<1>5. q.blockedUntilMs = readyAt
  BY <1>1 DEF HostQueue
<1> HIDE DEF q, h
<1>6. CASE ScheduleHost(h, q, now) /\ readyAt <= now
  BY <1>3, <1>5, <1>6, ScheduleSleepers
<1>7. CASE sleepingHosts' = sleepingHosts \cup
                    {[readyAtMs |-> readyAt, generation |-> q.sleepGeneration,
                      hostKey |-> h]}
  BY <1>3, <1>7
<1> QED
  BY <1>4, <1>6, <1>7

LEMMA TimerStep == ASSUME Inv, TimerInv, [Next]_vars PROVE TimerInv'
<1> USE DEF TimerInv, WaitersWatchSleepers
<1>1. ASSUME sleepingHosts' \subseteq sleepingHosts,
             \A u \in Crawlers : pc'[u] = "waiting" =>
                (pc[u] = "waiting" /\ deadline'[u] = deadline[u])
                \/ \A e \in sleepingHosts : deadline'[u] <= e.readyAtMs
      PROVE  TimerInv'
  BY <1>1 DEF Waiting, Forever
<1>2. ASSUME NEW t \in Threads, NEW s, Moves(t, s), s # "waiting",
             sleepingHosts' \subseteq sleepingHosts,
             \A u \in Crawlers : u # t => deadline'[u] = deadline[u]
      PROVE  TimerInv'
  BY <1>1, <1>2, CrawlersAreThreads DEF Moves
<1>3. TypeOK /\ deadline \in [Crawlers -> Nat]
  BY DEF Inv, TypeOK
<1>4. ASSUME NEW t \in Crawlers, Pop(t)
      PROVE  TimerInv'
  <2>1. sleepingHosts' \subseteq sleepingHosts
    BY <1>4, PopSleepers
  <2>2. CASE PopWait(t)
    <3>1. \A e \in sleepingHosts : e.readyAtMs \in Nat /\ e.readyAtMs < Forever
      BY <1>3 DEF TypeOK, SleepingHost
    <3>2. \E d \in Nat : /\ deadline' = [deadline EXCEPT ![t] = d]
                         /\ \A e \in sleepingHosts : d <= e.readyAtMs
      <4>1. CASE sleepingHosts = {} /\ deadline' = [deadline EXCEPT ![t] = Forever]
        <5>1. Forever \in Nat
          BY BoundsAssumption DEF Forever
        <5> QED
          BY <4>1, <5>1
      <4>2. CASE \E e \in sleepingHosts :
                   Earliest(e) /\ deadline' = [deadline EXCEPT ![t] = e.readyAtMs]
        <5>1. PICK e \in sleepingHosts :
                Earliest(e) /\ deadline' = [deadline EXCEPT ![t] = e.readyAtMs]
          BY <4>2
        <5> QED
          BY <3>1, <5>1 DEF Earliest
      <4> QED
        BY <2>2, <4>1, <4>2 DEF PopWait
    <3>3. pc' = [pc EXCEPT ![t] = "waiting"]
      BY <2>2 DEF PopWait
    <3>4. \A u \in Crawlers : u # t => pc'[u] = pc[u] /\ deadline'[u] = deadline[u]
      BY <1>3, <3>2, <3>3, CrawlersAreThreads DEF TypeOK
    <3>5. \A e \in sleepingHosts : deadline'[t] <= e.readyAtMs
      BY <1>3, <3>2
    <3> QED
      BY <1>1, <2>1, <3>4, <3>5
  <2>3. CASE ~PopWait(t)
    <3>1. \A u \in Crawlers : u # t => deadline'[u] = deadline[u]
      BY <1>3, <1>4, <2>3 DEF Pop, PopEnter, WakeHost, Refill, Promote, PopReady,
                              PopClosed, PopAgain, TimeOut
    <3>2. pc'[t] # "waiting" /\ \A u \in Threads : u # t =>
             pc'[u] = pc[u] \/ (pc[u] = "waiting" /\ pc'[u] = "woken")
      <4>1. \E s \in {"wake", "sweep", "drain", "busy", "exited", "woken"} :
              pc' = [pc EXCEPT ![t] = s] \/ (pc' = pc /\ pc[t] = s)
        BY <1>4, <2>3 DEF Pop, PopEnter, WakeHost, Refill, Promote, PopReady,
                          PopClosed, PopAgain, TimeOut
      <4> QED
        BY <1>3, <4>1, CrawlersAreThreads DEF TypeOK
    <3>3. t \in Threads /\ Moves(t, pc'[t])
      BY <3>2, CrawlersAreThreads DEF Moves
    <3> QED
      BY <1>2, <2>1, <3>1, <3>2, <3>3
  <2> QED
    BY <2>2, <2>3
<1>5. ASSUME NEW t \in Crawlers, TaskDone(t)
      PROVE  TimerInv'
  <2>1. Moves(t, "out") /\ sleepingHosts' = sleepingHosts /\ deadline' = deadline
    BY <1>5, EndMoves, TaskDoneSleepers DEF TaskDone
  <2> QED
    BY <1>2, <2>1, CrawlersAreThreads
<1>6. ASSUME NEW t \in Crawlers, SnoozeCurrent(t)
      PROVE  TimerInv'
  <2>1. Waiting' = {}
    BY <1>3, <1>6, CrawlersAreThreads DEF SnoozeCurrent, NotifyAll, Waiting, TypeOK
  <2>2. \A e \in sleepingHosts' : e.readyAtMs < Forever
    BY <1>6, SnoozeSleepers
  <2> QED
    BY <2>1, <2>2 DEF Forever
<1>7. ASSUME NEW t \in Threads, PushMany(t) \/ PushRest(t) \/ Push(t)
      PROVE  TimerInv'
  <2>1. UNCHANGED <<sleepingHosts, deadline>>
    BY <1>7 DEF PushMany, PushRest, Push, PushOneOf, hosts
  <2>2. \A u \in Crawlers : pc'[u] = "waiting" => pc[u] = "waiting"
    <3>1. \/ pc' = [pc EXCEPT ![t] = "push"]
          \/ NotifyAll(t, AfterPush(t)) \/ NotifyOne(t, AfterPush(t))
      BY <1>7 DEF PushMany, PushRest, Push, PushOneOf
    <3>2. AfterPush(t) # "waiting"
      BY DEF AfterPush
    <3> QED
      BY <1>3, <3>1, <3>2, CrawlersAreThreads DEF NotifyAll, NotifyOne, Waiting, TypeOK
  <2> QED
    BY <1>1, <2>1, <2>2
<1>8. CASE Shutdown
  BY <1>1, <1>8, CrawlersAreThreads DEF Shutdown, Waiting, hosts
<1>9. CASE Tick \/ UNCHANGED vars
  BY <1>1, <1>9 DEF Tick, hosts, vars
<1> QED
  BY <1>4, <1>5, <1>6, <1>7, <1>8, <1>9 DEF Next

-----------------------------------------------------------------------------
(* Refilling *)

\* With a capacity of four or more no threshold of a refill rounds to zero,
\* and a chunk file that was found holds something.
RefillsAssumed == MaxQueued >= 4 /\ \A k \in DOMAIN RecoveredChunks : RecoveredChunks[k] # {}

Behind == diskBackReservoir # {} \/ OnDisk # {}
SomeQueue == \E h \in Hosts : ItemsOf(h) # <<>>

\* What is left behind the reservoir comes into it before a sweep: a sweep that
\* starts with nothing in the reservoir or in a queue means there is nothing.
FetchInv ==
  /\ \A k \in DOMAIN chunks : chunks[k] # {}
  /\ \A t \in Crawlers : pc[t] = "sweep" => (~Behind \/ reservoir # {} \/ SomeQueue)

LEMMA RefillFetches ==
  ASSUME RefillsAssumed, Inv, FetchInv, NEW t \in Crawlers, Refill(t)
  PROVE  /\ ~Behind' \/ reservoir' # {}
         /\ \A k \in DOMAIN chunks' : chunks'[k] # {}
<1>1. PICK moved \in SUBSET Loaded :
        /\ Cardinality(moved) = RefillCount
        /\ reservoir' = reservoir \cup moved /\ diskBackReservoir' = Loaded \ moved
  BY DEF Refill
<1>2. chunks' = ChunksLeft /\ chunks \in Seq(SUBSET Items)
  BY DEF Refill, Inv, TypeOK
<1>3. IsFiniteSet(reservoir) /\ IsFiniteSet(diskBackReservoir)
  BY FiniteAssumption, FS_Subset DEF Inv, TypeOK
<1>4. RefillSize \in Nat \ {0} /\ DiskBackRefillSize \in Nat \ {0}
  BY MaxQueuedAssumption DEF RefillsAssumed, RefillSize, DiskBackRefillSize, Percent
<1>5. \A k \in DOMAIN chunks' : chunks'[k] # {}
  <2>1. CASE Loads
    <3>1. chunks # <<>> /\ chunks' = SubSeq(chunks, 1, Len(chunks) - 1)
      BY <1>2, <2>1 DEF Loads, ChunksLeft
    <3>2. \A k \in DOMAIN chunks' : k \in DOMAIN chunks /\ chunks'[k] = chunks[k]
      BY <1>2, <3>1
    <3> QED
      BY <3>2 DEF FetchInv
  <2>2. CASE ~Loads
    BY <1>2, <2>2 DEF ChunksLeft, FetchInv
  <2> QED
    BY <2>1, <2>2
<1>6. IsFiniteSet(Loaded)
  <2>1. Loaded \in SUBSET Items
    <3>1. Loads => chunks[Len(chunks)] \in SUBSET Items
      BY <1>2 DEF Loads
    <3> QED
      BY <3>1 DEF Loaded, Inv, TypeOK
  <2> QED
    BY <2>1, FiniteAssumption, FS_Subset
<1>7. CASE Cardinality(reservoir) >= RefillSize
  <2>1. reservoir # {}
    BY <1>3, <1>4, <1>7, FS_EmptySet
  <2> QED
    BY <1>1, <1>5, <2>1
<1>8. CASE ~(Cardinality(reservoir) >= RefillSize) /\ Loaded # {}
  <2>1. Cardinality(Loaded) \in Nat \ {0}
    BY <1>6, <1>8, FS_CardinalityType, FS_EmptySet
  <2>2. RefillCount # 0
    BY <1>4, <1>8, <2>1 DEF RefillCount
  <2>3. moved # {}
    BY <1>1, <2>2, FS_EmptySet
  <2> QED
    BY <1>1, <1>5, <2>3
<1>9. CASE Loaded = {}
  <2>1. ~Loads
    <3>1. Loads => chunks[Len(chunks)] \subseteq Loaded /\ Len(chunks) \in DOMAIN chunks
      BY <1>2 DEF Loads, Loaded
    <3> QED
      BY <1>9, <3>1 DEF FetchInv
  <2>2. diskBackReservoir = {}
    BY <1>9, <2>1 DEF Loaded
  <2>3. chunks = <<>>
    BY <1>4, <2>1, <2>2, FS_EmptySet DEF Loads
  <2>4. diskBackReservoir' = {} /\ chunks' = <<>>
    BY <1>1, <1>2, <1>9, <2>1, <2>3 DEF ChunksLeft
  <2>5. ~Behind'
    BY <2>4 DEF Behind, OnDisk
  <2> QED
    BY <1>5, <2>5
<1> QED
  BY <1>7, <1>8, <1>9

\* A winner is in its host's queue.
LEMMA PromoteFills ==
  ASSUME Inv, NEW t \in Crawlers, Promote(t)
  PROVE  \E h \in Hosts : ItemsOf(h)' # <<>>
<1>1. PICK i \in reservoir :
        ScheduleHost(HostOf[i],
             [hostQueues[HostOf[i]] EXCEPT !.items = Append(@, i)], nowMs)
  BY DEF Promote
<1> DEFINE h == HostOf[i]
           its == Append(hostQueues[h].items, i)
           q == [hostQueues[h] EXCEPT !.items = its]
<1>2. i \in Items /\ h \in Hosts /\ hostQueues[h] \in HostQueue /\ nowMs \in Nat
  BY HostsAssumption DEF Inv, TypeOK
<1>3. its \in Seq(Items) /\ its # <<>>
  BY <1>2 DEF HostQueue
<1>4. ScheduleHost(h, q, nowMs)
  BY <1>1
<1> HIDE DEF its
<1>5. q \in HostQueue /\ q.items = its
  BY <1>2, <1>3 DEF HostQueue
<1> HIDE DEF q
<1>6. ItemsOf(h)' = its
  BY <1>2, <1>4, <1>5, ScheduleItems DEF Inv
<1> QED
  BY <1>2, <1>3, <1>6

\* A backup writes something.
LEMMA PushChunks ==
  ASSUME RefillsAssumed, Inv, FetchInv, NEW i, PushInternal(i)
  PROVE  \A k \in DOMAIN chunks' : chunks'[k] # {}
<1>1. CASE chunks' = chunks
  BY <1>1 DEF FetchInv
<1>2. ASSUME Cardinality(diskBackReservoir) >= MaxQueued,
             NEW backup \in SUBSET diskBackReservoir,
             Cardinality(backup) = BackupCount, chunks' = Append(chunks, backup)
      PROVE  \A k \in DOMAIN chunks' : chunks'[k] # {}
  <2>1. IsFiniteSet(diskBackReservoir)
    BY FiniteAssumption, FS_Subset DEF Inv, TypeOK
  <2>2. Cardinality(diskBackReservoir) \in Nat
    BY <2>1, FS_CardinalityType
  <2>3. BackupCount # 0
    BY <1>2, <2>2, MaxQueuedAssumption DEF BackupCount, RefillsAssumed
  <2>4. backup # {}
    BY <1>2, <2>3, FS_EmptySet
  <2>5. chunks \in Seq(SUBSET Items) /\ backup \in SUBSET Items
    BY DEF Inv, TypeOK
  <2>6. \A k \in DOMAIN chunks' :
          chunks'[k] = backup \/ (k \in DOMAIN chunks /\ chunks'[k] = chunks[k])
    BY <1>2, <2>5
  <2> QED
    BY <2>4, <2>6 DEF FetchInv
<1> QED
  BY <1>1, <1>2 DEF PushInternal

LEMMA FetchStep ==
  ASSUME RefillsAssumed, Inv, PushOpen, MutexInv, FetchInv, [Next]_vars
  PROVE  FetchInv'
<1>1. ASSUME NEW t \in Threads, NEW s, Moves(t, s), s # "sweep",
             MutexFree \/ pc[t] \in Locked
      PROVE  \A u \in Crawlers : pc'[u] # "sweep"
  BY <1>1, CrawlersAreThreads DEF Moves, MutexInv, MutexFree, Locked
<1>2. ASSUME chunks' = chunks, \A u \in Crawlers : pc'[u] # "sweep"
      PROVE  FetchInv'
  BY <1>2 DEF FetchInv
<1>3. TypeOK /\ pc \in [Threads -> PcValues]
  BY DEF Inv, TypeOK
<1>4. ASSUME NEW t \in Crawlers, Pop(t)
      PROVE  FetchInv'
  <2>0. t \in Threads
    BY CrawlersAreThreads
  <2>1. CASE PopEnter(t) \/ WakeHost(t) \/ PopReady(t) \/ PopClosed(t) \/ PopWait(t) \/ PopAgain(t)
    <3>1. PICK s \in PcValues \ {"drain"} :
             /\ Moves(t, s) /\ closed' = closed
             /\ s \in Locked => MutexFree \/ pc[t] \in Locked
      BY <1>4, PopMoves
    <3>2. pc'[t] # "sweep"
      BY <1>3, <2>0, <2>1, PopReadyEffect DEF PopEnter, WakeHost, PopClosed, PopWait, PopAgain
    <3>3. MutexFree \/ pc[t] \in Locked
      BY <2>1 DEF PopEnter, WakeHost, PopReady, PopClosed, PopWait, PopAgain, Draining, Locked
    <3>4. chunks' = chunks
      BY <2>1 DEF PopEnter, WakeHost, PopReady, PopClosed, PopWait, PopAgain, layers
    <3> QED
      BY <1>1, <1>2, <2>0, <3>1, <3>2, <3>3, <3>4 DEF Moves
  <2>2. CASE Refill(t)
    <3>1. pc[t] = "wake" /\ pc' = [pc EXCEPT ![t] = "sweep"]
      BY <2>2 DEF Refill
    <3>2. ~Behind' \/ reservoir' # {}
      BY <2>2, RefillFetches
    <3>3. \A k \in DOMAIN chunks' : chunks'[k] # {}
      BY <2>2, RefillFetches
    <3> QED
      BY <3>2, <3>3 DEF FetchInv
  <2>3. CASE Promote(t)
    <3>1. chunks' = chunks
      BY <2>3 DEF Promote
    <3>2. SomeQueue'
      BY <2>3, PromoteFills DEF SomeQueue
    <3> QED
      BY <3>1, <3>2 DEF FetchInv
  <2>4. CASE TimeOut(t)
    <3>1. UNCHANGED <<reservoir, diskBackReservoir, chunks, hostQueues>>
      BY <2>4 DEF TimeOut, layers, hosts
    <3>2. \A u \in Crawlers : pc'[u] = "sweep" => pc[u] = "sweep"
      BY <1>3, <2>4, CrawlersAreThreads DEF TimeOut
    <3>3. Behind' = Behind /\ SomeQueue' = SomeQueue
      BY <3>1 DEF Behind, OnDisk, SomeQueue, ItemsOf
    <3> QED
      BY <3>1, <3>2, <3>3 DEF FetchInv
  <2> QED
    BY <1>4, <2>1, <2>2, <2>3, <2>4 DEF Pop
<1>5. ASSUME NEW t \in Crawlers, TaskDone(t) \/ SnoozeCurrent(t)
      PROVE  FetchInv'
  <2>1. Moves(t, "out") /\ MutexFree /\ chunks' = chunks /\ t \in Threads
    BY <1>5, EndMoves, CrawlersAreThreads DEF TaskDone, SnoozeCurrent, layers
  <2> QED
    BY <1>1, <1>2, <2>1
<1>6. ASSUME NEW t \in Threads, PushMany(t) \/ PushRest(t) \/ Push(t)
      PROVE  FetchInv'
  <2>1. \A u \in Crawlers : pc'[u] # "sweep"
    <3>1. PICK s \in {"busy", "idle", "push"} :
             Moves(t, s) /\ (MutexFree \/ pc[t] \in Locked)
      BY <1>6, PushMoves
    <3> QED
      BY <1>1, <3>1
  <2>2. \E i : PushInternal(i)
    BY <1>6 DEF PushMany, PushRest, Push, PushOneOf
  <2>3. \A k \in DOMAIN chunks' : chunks'[k] # {}
    BY <2>2, PushChunks
  <2> QED
    BY <2>1, <2>3 DEF FetchInv
<1>7. CASE Shutdown
  <2>1. chunks' = chunks /\ MutexFree
    BY <1>7 DEF Shutdown, layers
  <2>2. \A u \in Crawlers : pc'[u] # "sweep"
    BY <1>7, CrawlersAreThreads DEF Shutdown, MutexFree
  <2> QED
    BY <1>2, <2>1, <2>2
<1>8. CASE Tick \/ UNCHANGED vars
  <2>1. UNCHANGED <<reservoir, diskBackReservoir, chunks, hostQueues, pc>>
    BY <1>8 DEF Tick, layers, hosts, vars
  <2>2. Behind' = Behind /\ SomeQueue' = SomeQueue
    BY <2>1 DEF Behind, OnDisk, SomeQueue, ItemsOf
  <2> QED
    BY <2>1, <2>2 DEF FetchInv
<1> QED
  BY <1>4, <1>5, <1>6, <1>7, <1>8 DEF Next

-----------------------------------------------------------------------------
(* Waiting *)

\* A thread that finds nothing to hand out and waits: whatever is queued is
\* queued for a sleeping host, so that it has a deadline.
LEMMA WaitHasDeadline ==
  ASSUME ItemInv, MutexInv, TimerInv, FetchInv, NEW t \in Crawlers, PopWait(t),
         \A u \in Crawlers : u # t => pc[u] \in {"waiting", "exited"},
         queued > 0
  PROVE  sleepingHosts # {}
<1>1. /\ pc[t] = "sweep" /\ readyHosts = <<>> /\ reservoir = {}
  BY CrawlersAreThreads DEF PopWait, Draining, MutexInv
<1>2. \A u \in Crawlers : hand[u] = NoItem /\ activeHostKey[u] = NoHost
  BY <1>1 DEF ItemInv, Inv, TaskPhase
<1>3. Held = {} /\ Cardinality(Held) = 0
  BY <1>2, FS_EmptySet DEF Held
<1>4. /\ pending = Cardinality(added \ finished) /\ pending = queued + Cardinality(Held)
      /\ queued \in Int
  BY DEF ItemInv, CountInv, CountersExact, Held, Inv, TypeOK
<1>5. added \ finished # {}
  <2> SUFFICES ASSUME added \ finished = {} PROVE FALSE
    OBVIOUS
  <2>1. pending = 0
    BY <1>4, FS_EmptySet
  <2> QED
    BY <1>3, <1>4, <2>1
<1>6. PICK i \in added : i \notin finished
  BY <1>5
<1>7. i \in Items /\ HostOf[i] \in Hosts /\ HeldBy(i) = {}
  BY <1>2, <1>6, HostsAssumption DEF ItemInv, Inv, TypeOK, HeldBy
<1>8. i \in diskBackReservoir \/ ChunksWith(i) # {} \/ QueuedAt(i) # {}
  BY <1>1, <1>6, <1>7 DEF ItemInv, PlaceInv, Accounted, Placed, OneOf, Single
<1>9. Behind \/ SomeQueue
  <2>1. ChunksWith(i) # {} => OnDisk # {}
    BY DEF ChunksWith, OnDisk
  <2>2. QueuedAt(i) # {} => ItemsOf(HostOf[i]) # <<>>
    BY DEF QueuedAt, At
  <2> QED
    BY <1>7, <1>8, <2>1, <2>2 DEF Behind, SomeQueue
<1>10. PICK h \in Hosts : hostQueues[h].items # <<>>
  BY <1>1, <1>9 DEF FetchInv, SomeQueue, ItemsOf
<1>11. ~hostQueues[h].inReadyQueue /\ ~hostQueues[h].inFlight
  <2>1. ~In(h, readyHosts)
    BY <1>1 DEF In
  <2>2. ~Works(h, activeHostKey)
    BY <1>2, HostsAssumption DEF Works
  <2> QED
    BY <2>1, <2>2 DEF ItemInv, Inv, HostInv
<1>12. hostQueues[h].inSleepingQueue /\ HeapOK(h, hostQueues[h], sleepingHosts)
  BY <1>10, <1>11 DEF ItemInv, Inv, HostInv, FlagsOK
<1> QED
  BY <1>12 DEF HeapOK

LEMMA WakeupStep ==
  ASSUME Crawlers # {}, ItemInv, PushOpen, MutexInv, MutexInv', TimerInv, FetchInv, NoLostWakeup,
         [Next]_vars
  PROVE  NoLostWakeup'
<1>0. /\ Inv /\ TypeOK /\ pc \in [Threads -> PcValues] /\ deadline \in [Crawlers -> Nat]
      /\ Crawlers \subseteq Threads
  BY CrawlersAreThreads DEF ItemInv, Inv, TypeOK
<1>1. ASSUME NEW t \in Crawlers, pc'[t] \notin {"waiting", "exited"}
      PROVE  NoLostWakeup'
  BY <1>1 DEF NoLostWakeup
<1>2. ASSUME ~closed'
      PROVE  \A t \in Crawlers : pc'[t] # "exited"
  BY <1>2 DEF MutexInv
<1>3. ASSUME NEW t \in Crawlers, Pop(t)
      PROVE  NoLostWakeup'
  <2>1. PICK s \in PcValues \ {"drain"} :
           /\ Moves(t, s) /\ closed' = closed
           /\ s = "waiting" => PopWait(t)
           /\ s = "exited" => PopClosed(t)
    BY <1>0, <1>3, PopMoves
  <2>2. CASE PopClosed(t)
    <3>1. /\ readyHosts' = <<>> /\ reservoir' = {} /\ closed'
      BY <2>2, <1>0 DEF PopClosed, Draining, layers, hosts, counters, MutexInv
    <3> QED
      BY <3>1 DEF NoLostWakeup, MutexInv
  <2>3. CASE PopWait(t)
    <3>1. /\ readyHosts' = <<>> /\ reservoir' = {} /\ ~closed' /\ queued' = queued
          /\ pc' = [pc EXCEPT ![t] = "waiting"]
      BY <2>3, <1>0 DEF PopWait, Draining, layers, hosts, counters, MutexInv
    <3>2. ASSUME \A u \in Crawlers : pc'[u] \in {"waiting", "exited"}, queued > 0
          PROVE  t \in Waiting' /\ deadline'[t] < Forever
      <4>1. \A u \in Crawlers : u # t => pc[u] \in {"waiting", "exited"}
        BY <1>0, <3>1, <3>2
      <4>2. sleepingHosts # {}
        BY <2>3, <3>2, <4>1, WaitHasDeadline
      <4>3. PICK e \in sleepingHosts : deadline' = [deadline EXCEPT ![t] = e.readyAtMs]
        BY <2>3, <4>2 DEF PopWait
      <4> QED
        BY <1>0, <3>1, <4>3 DEF TimerInv, Waiting
    <3> QED
      BY <3>1, <3>2 DEF NoLostWakeup
  <2>4. CASE s \notin {"waiting", "exited"}
    BY <1>1, <2>1, <2>4 DEF Moves
  <2> QED
    BY <2>1, <2>2, <2>3, <2>4
<1>4. ASSUME NEW t \in Crawlers, TaskDone(t) \/ SnoozeCurrent(t)
      PROVE  NoLostWakeup'
  BY <1>0, <1>1, <1>4, EndMoves DEF Moves
<1>5. ASSUME NEW t \in Threads, PushMany(t) \/ PushRest(t) \/ Push(t)
      PROVE  NoLostWakeup'
  <2>1. PICK s \in {"busy", "idle", "push"} :
           /\ Moves(t, s) /\ ~closed /\ closed' = closed
           /\ s = "idle" => t \notin Crawlers
    BY <1>0, <1>5, PushMoves
  <2>2. CASE t \in Crawlers
    BY <1>1, <2>1, <2>2 DEF Moves
  <2>3. CASE t \notin Crawlers /\ pc'[t] = "push"
    BY <2>3 DEF NoLostWakeup, MutexFree
  <2>4. CASE t \notin Crawlers /\ pc'[t] # "push"
    <3>1. NotifyAll(t, AfterPush(t)) \/ NotifyOne(t, AfterPush(t))
      BY <1>0, <1>5, <2>4 DEF PushMany, PushRest, Push, PushOneOf
    <3>2. AfterPush(t) = "idle"
      BY <2>4 DEF AfterPush
    <3>3. CASE Waiting = {}
      <4>1. PICK u \in Crawlers : TRUE
        OBVIOUS
      <4>2. pc'[u] = pc[u] /\ pc[u] # "waiting"
        BY <1>0, <2>1, <2>4, <3>3 DEF Moves, Waiting
      <4>3. pc'[u] # "exited"
        BY <1>2, <2>1
      <4> QED
        BY <1>1, <4>2, <4>3
    <3>4. CASE Waiting # {}
      <4>1. \E u \in Waiting : pc'[u] = "woken"
        BY <1>0, <2>4, <3>1, <3>4 DEF NotifyAll, NotifyOne, Waiting
      <4> QED
        BY <1>1, <4>1 DEF Waiting
    <3> QED
      BY <3>3, <3>4
  <2> QED
    BY <2>2, <2>3, <2>4
<1>6. CASE Shutdown
  <2>1. /\ \A u \in Threads : pc'[u] = IF u \in Waiting THEN "woken" ELSE pc[u]
        /\ ~closed
    BY <1>6 DEF Shutdown
  <2>2. PICK u \in Crawlers : TRUE
    OBVIOUS
  <2>3. pc'[u] # "waiting" /\ pc'[u] # "exited"
    BY <1>0, <2>1 DEF Waiting, MutexInv
  <2> QED
    BY <1>1, <2>3
<1>7. CASE Tick \/ UNCHANGED vars
  BY <1>7 DEF NoLostWakeup, MutexFree, Waiting, Tick, layers, hosts, counters, vars
<1> QED
  BY <1>3, <1>4, <1>5, <1>6, <1>7 DEF Next

\* Without a shutdown() the frontier closes with its last task.
LEMMA DrainedStep ==
  ASSUME ~AllowShutdown, ItemInv, ItemInv', PushOpen, ClosesWhenDrained, [Next]_vars
  PROVE  ClosesWhenDrained'
<1>1. ASSUME UNCHANGED <<closed, added, finished>>
      PROVE  ClosesWhenDrained'
  BY <1>1 DEF ClosesWhenDrained
<1>2. ASSUME NEW t \in Crawlers, Pop(t)
      PROVE  ClosesWhenDrained'
  <2>1. UNCHANGED <<closed, added, finished>>
    BY <1>2 DEF Pop, PopEnter, WakeHost, Refill, Promote, PopReady, PopClosed, PopWait,
                PopAgain, TimeOut, counters, history
  <2> QED
    BY <1>1, <2>1
<1>3. ASSUME NEW t \in Crawlers, TaskDone(t)
      PROVE  ClosesWhenDrained'
  <2>1. /\ pc[t] = "busy" /\ ForgetTask(t) /\ finished' = finished \cup {hand[t]}
        /\ pending' = (IF pending = 0 THEN 0 ELSE pending - 1)
        /\ closed' # closed => pending = 1
    BY <1>3 DEF TaskDone, LastTask
  <2>2. PICK i \in Items : i = hand[t]
    BY <2>1, HolderFacts DEF ItemInv
  <2>3. i \in added /\ i \notin finished
    BY <2>1, <2>2, ForgetShape
  <2>4. ~closed
    BY <2>3 DEF ClosesWhenDrained
  <2>5. closed' => pending' = 0
    <3>1. closed' => pending = 1
      BY <2>1, <2>4, Zenon
    <3>2. pending = 1 => pending' = 0
      BY <2>1
    <3> QED
      BY <3>1, <3>2
  <2>6. pending' = Cardinality(added' \ finished') /\ IsFiniteSet(added' \ finished')
    BY FiniteAssumption, FS_Subset DEF ItemInv, CountInv, CountersExact, Inv, TypeOK
  <2>7. finished' \subseteq added'
    BY <1>3, <2>2, <2>3, PoolFacts DEF TaskDone
  <2> QED
    BY <2>5, <2>6, <2>7, FS_EmptySet DEF ClosesWhenDrained
<1>4. ASSUME NEW t \in Crawlers, SnoozeCurrent(t)
      PROVE  ClosesWhenDrained'
  BY <1>1, <1>4 DEF SnoozeCurrent
<1>5. ASSUME NEW t \in Threads, PushMany(t) \/ PushRest(t) \/ Push(t)
      PROVE  ClosesWhenDrained'
  <2>1. ~closed'
    BY <1>5, PushMoves DEF ItemInv
  <2> QED
    BY <2>1 DEF ClosesWhenDrained
<1>6. ~Shutdown
  BY DEF Shutdown
<1>7. CASE Tick \/ UNCHANGED vars
  BY <1>1, <1>7 DEF Tick, counters, history, vars
<1> QED
  BY <1>2, <1>3, <1>4, <1>5, <1>6, <1>7 DEF Next

WaitInv == ItemInv /\ PushOpen /\ MutexInv /\ TimerInv /\ FetchInv /\ NoLostWakeup

LEMMA InitWaits == ASSUME RefillsAssumed, Crawlers # {}, Init PROVE WaitInv
<1>1. ItemInv
  BY InitItems
<1>2. \A t \in Threads : pc[t] \in {"out", "idle"}
  BY DEF Init
<1>3. /\ sleepingHosts = {} /\ chunks = RecoveredChunks
      /\ \A t \in Crawlers : pc[t] = "out"
  BY CrawlersAreThreads DEF Init
<1>4. PushOpen
  BY <1>2 DEF PushOpen
<1>5. MutexInv
  BY <1>2, CrawlersAreThreads DEF MutexInv, Locked, Waiting
<1>6. TimerInv
  BY <1>3 DEF TimerInv, WaitersWatchSleepers
<1>7. FetchInv
  BY <1>3 DEF FetchInv, RefillsAssumed
<1>8. NoLostWakeup
  BY <1>3 DEF NoLostWakeup
<1> QED
  BY <1>1, <1>4, <1>5, <1>6, <1>7, <1>8 DEF WaitInv

LEMMA NextWaits ==
  ASSUME RefillsAssumed, Crawlers # {}, WaitInv, [Next]_vars
  PROVE  WaitInv'
<1>1. Inv /\ ItemInv /\ PushOpen /\ MutexInv /\ TimerInv /\ FetchInv /\ NoLostWakeup
  BY DEF WaitInv, ItemInv
<1>2. ItemInv' /\ PushOpen' /\ MutexInv' /\ TimerInv'
  BY <1>1, NextItems, PushOpenStep, MutexStep, TimerStep
<1>3. FetchInv'
  BY <1>1, FetchStep
<1>4. NoLostWakeup'
  BY <1>1, <1>2, WakeupStep
<1> QED
  BY <1>2, <1>3, <1>4 DEF WaitInv

\* Whenever every crawler waits or has left, nothing is runnable, nobody waits
\* in a closed frontier, and what is queued has a timer that some waiting thread
\* watches: no notification of push, snoozeCurrent, taskDone or shutdown and no
\* deadline is missed.
THEOREM NoWakeupIsLost ==
  ASSUME RefillsAssumed, Crawlers # {}
  PROVE  Spec => [](WaitersWatchSleepers /\ NoLostWakeup)
<1>1. Init => WaitInv
  BY InitWaits
<1>2. WaitInv /\ [Next]_vars => WaitInv'
  BY NextWaits
<1>3. WaitInv => WaitersWatchSleepers /\ NoLostWakeup
  BY DEF WaitInv, TimerInv
<1> QED
  BY <1>1, <1>2, <1>3, PTL DEF Spec

\* With it, unless shutdown() is called, threads leave only when all is done.
THEOREM WaitingIsSound ==
  ASSUME RefillsAssumed, Crawlers # {}, ~AllowShutdown
  PROVE  Spec => []WaitsAreSound
<1>1. Init => ClosesWhenDrained
  <2>1. SUFFICES ASSUME Init, closed
                 PROVE  finished = added
    BY DEF ClosesWhenDrained
  <2>2. Pool!PoolInit /\ finished = {}
    BY <2>1, InitRefines DEF Init
  <2>3. PoolItems = {}
    BY <2>1, <2>2 DEF Pool!PoolInit, PoolItems
  <2>4. \A i \in Items : HeldBy(i) = {}
    BY <2>1, HostsAssumption DEF Init, HeldBy
  <2> QED
    BY <2>1, <2>2, <2>3, <2>4, InitItems, PoolFacts
<1>2. ItemInv /\ ItemInv' /\ PushOpen /\ ClosesWhenDrained /\ [Next]_vars => ClosesWhenDrained'
  BY DrainedStep
<1>3. Init => WaitInv
  BY InitWaits
<1>4. WaitInv /\ [Next]_vars => WaitInv'
  BY NextWaits
<1>5. WaitInv => ItemInv /\ PushOpen
  BY DEF WaitInv
<1>6. WaitInv /\ ClosesWhenDrained => WaitsAreSound
  BY DEF WaitInv, TimerInv, WaitsAreSound
<1> QED
  BY <1>1, <1>2, <1>3, <1>4, <1>5, <1>6, PTL DEF Spec
=============================================================================
