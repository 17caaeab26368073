------------------------------ MODULE TaskPool ------------------------------
(***************************************************************************)
(* What the frontier promises its crawler threads, without its layers, its *)
(* clock and its condition variable: a pool of items from which a thread   *)
(* takes one at a time, never two threads at once for the same host.  The  *)
(* pool closes by itself (AutoClose) only when the last item is done.      *)
(***************************************************************************)
EXTENDS FiniteSets

CONSTANTS Items, HostOf, Crawlers, NoItem, AutoClose

VARIABLES
  pool,       \* items that wait
  held,       \* crawler -> the item it works on, or NoItem
  done,       \* items that were crawled
  shut        \* the pool takes nothing more

poolVars == <<pool, held, done, shut>>

InHand == {held[t] : t \in Crawlers} \ {NoItem}

PoolInit ==
  /\ pool \in SUBSET Items
  /\ held = [t \in Crawlers |-> NoItem]
  /\ done = {}
  /\ shut = (AutoClose /\ pool = {})

Add(i) ==
  /\ ~shut /\ i \notin pool \cup InHand \cup done
  /\ pool' = pool \cup {i}
  /\ UNCHANGED <<held, done, shut>>

\* The host of i is idle.
Take(t, i) ==
  /\ held[t] = NoItem /\ i \in pool
  /\ \A j \in InHand : HostOf[j] # HostOf[i]
  /\ pool' = pool \ {i}
  /\ held' = [held EXCEPT ![t] = i]
  /\ UNCHANGED <<done, shut>>

PutBack(t) ==
  /\ held[t] # NoItem
  /\ pool' = pool \cup {held[t]}
  /\ held' = [held EXCEPT ![t] = NoItem]
  /\ UNCHANGED <<done, shut>>

Finish(t) ==
  /\ held[t] # NoItem
  /\ done' = done \cup {held[t]}
  /\ held' = [held EXCEPT ![t] = NoItem]
  /\ shut' = (shut \/ (AutoClose /\ pool = {} /\ InHand = {held[t]}))
  /\ UNCHANGED pool

Close == ~shut /\ shut' = TRUE /\ UNCHANGED <<pool, held, done>>

PoolNext ==
  \/ \E i \in Items : Add(i)
  \/ \E t \in Crawlers : PutBack(t) \/ Finish(t) \/ \E i \in Items : Take(t, i)
  \/ Close

PoolSpec == PoolInit /\ [][PoolNext]_poolVars

=============================================================================
