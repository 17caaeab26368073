--------------------------- MODULE CrawlingProofs ---------------------------
(***************************************************************************)
(* Theorems of Crawling, for any threads, URLs, links, rules and delays:   *)
(* the type invariant, that no URL is forgotten or crawled twice, that     *)
(* pages which a received robots.txt forbids are not requested, and that   *)
(* requests to an origin keep their distance.                              *)
(***************************************************************************)
EXTENDS Crawling, TLAPS

-----------------------------------------------------------------------------
(* The inductive invariant *)

\* What the frontier promises: one thread per host, hence one per origin.
HostsInv ==
  \A t, u \in Threads :
    t # u /\ held[t] # NoItem /\ held[u] # NoItem => HostOf[Url(t)] # HostOf[Url(u)]

\* A thread fetches robots.txt only while the cache has no entry for it, and a
\* thread that has received one is still there to insert it, or the entry has
\* rules; a thread that found rules passes only if they allow its URL.
RulesInv ==
  /\ \A t \in Threads : pc[t] \in {"robots", "insert"} => Origin(t) \notin DOMAIN cache
  /\ \A o \in rulesSeen :
       \/ o \in DOMAIN cache /\ cache[o].robots
       \/ \E t \in Threads : pc[t] = "insert" /\ fetched[t] /\ Origin(t) = o
  /\ \A t \in Threads : pc[t] = "reserve" /\ cache[Origin(t)].robots => Allowed[Url(t)]

\* The entry of an origin is at most a reading older than the last request.
AgeInv ==
  \A o \in Origins :
    IF o \in DOMAIN cache THEN cache[o].age <= requested[o] + MaxStall ELSE requested[o] = OldAge

Inv == TypeOK /\ HostsInv /\ EveryUrlKept /\ RulesInv /\ AgeInv

-----------------------------------------------------------------------------
(* Types *)

LEMMA HeldFacts ==
  ASSUME TypeOK, NEW t \in Threads, held[t] # NoItem
  PROVE  held[t] \in Items /\ Url(t) \in Own /\ Url(t) \in Urls /\ Origin(t) \in Origins
BY UrlsAssumption DEF TypeOK, Items, Url, Origin

LEMMA AgesAreNatural == OldAge \in Nat /\ MaxStall \in Nat /\ MaxStall <= OldAge
BY DelayAssumption DEF OldAge

LEMMA OlderAge == ASSUME NEW age \in 0 .. OldAge PROVE Older(age) \in 0 .. OldAge
BY AgesAreNatural DEF Older

\* A step of one thread that leaves the cache and the URLs alone.
LEMMA PhaseStep ==
  ASSUME TypeOK, NEW t \in Threads, NEW s \in Stages, pc' = [pc EXCEPT ![t] = s],
         held' = held, discovered' = discovered, DOMAIN cache \subseteq DOMAIN cache',
         s = "pop" => held[t] = NoItem,
         s \notin {"pop", "gone"} => held[t] # NoItem,
         s \in {"rules", "reserve", "fetch"} => Origin(t) \in DOMAIN cache',
         s # "push" => discovered[t] = {}
  PROVE  pc' \in [Threads -> Stages] /\ \A u \in Threads : Phase(u)'
<1>1. ASSUME NEW u \in Threads
      PROVE  Phase(u)'
  <2>1. CASE u = t
    BY <2>1 DEF TypeOK, Phase, Url, Origin
  <2>2. CASE u # t
    BY <2>2 DEF TypeOK, Phase, Url, Origin
  <2> QED
    BY <2>1, <2>2
<1>2. pc' \in [Threads -> Stages]
  BY DEF TypeOK
<1> QED
  BY <1>1, <1>2

LEMMA GoFacts ==
  ASSUME TypeOK, NEW t \in Threads, NEW from \in Stages, NEW s \in Stages, Go(t, from, s)
  PROVE  /\ pc[t] = from /\ pc' = [pc EXCEPT ![t] = s] /\ pc'[t] = s
         /\ \A u \in Threads : u # t => pc'[u] = pc[u]
         /\ Phase(t)
BY DEF Go, TypeOK

LEMMA TypePop == ASSUME TypeOK, NEW t \in Threads, Pop(t) PROVE TypeOK'
<1>1. PICK i \in pool : Frontier!Take(t, i)
  BY DEF Pop
<1>2. /\ i \in Items /\ i # NoItem
      /\ pool' = pool \ {i} /\ held' = [held EXCEPT ![t] = i] /\ done' = done /\ shut' = shut
  BY <1>1, NoItemAssumption DEF TypeOK, Frontier!Take
<1>3. pc[t] = "pop" /\ pc' = [pc EXCEPT ![t] = "popped"] /\ Phase(t)
  BY DEF Pop, Go, TypeOK
<1>4. ASSUME NEW u \in Threads
      PROVE  Phase(u)'
  <2>1. CASE u = t
    BY <1>2, <1>3, <2>1 DEF TypeOK, Phase, Pop
  <2>2. CASE u # t
    BY <1>2, <1>3, <2>2 DEF TypeOK, Phase, Url, Origin, Pop
  <2> QED
    BY <2>1, <2>2
<1>5. pc' \in [Threads -> Stages] /\ held' \in [Threads -> Items \cup {NoItem}]
  BY <1>2, <1>3 DEF TypeOK, Stages
<1> QED
  BY <1>2, <1>4, <1>5 DEF TypeOK, Pop, outputs

LEMMA TypeFrontierKept ==
  ASSUME TypeOK, NEW t \in Threads,
         \/ Leave(t) \/ FindEntry(t) \/ FetchRobots(t) \/ CheckRules(t) \/ FetchPage(t)
         \/ IndexPage(t)
  PROVE  TypeOK'
<1>1. /\ held' = held /\ discovered' = discovered /\ cache' = cache
      /\ pool' = pool /\ done' = done /\ shut' = shut /\ stop' = stop /\ queueShut' = queueShut
      /\ requested' = requested /\ bloom' = bloom /\ batched' = batched /\ anchored' = anchored
  BY DEF Leave, FindEntry, FetchRobots, CheckRules, FetchPage, IndexPage, frontier, outputs
<1>2. PICK s \in Stages :
        /\ pc' = [pc EXCEPT ![t] = s]
        /\ s = "pop" => held[t] = NoItem
        /\ s \notin {"pop", "gone"} => held[t] # NoItem
        /\ s \in {"rules", "reserve", "fetch"} => Origin(t) \in DOMAIN cache
        /\ s # "push" => discovered[t] = {}
  <2>1. CASE Leave(t) \/ FindEntry(t)
    BY <2>1 DEF Leave, FindEntry, Go, TypeOK, Phase, Stages
  <2>2. CASE FetchRobots(t) \/ CheckRules(t)
    BY <2>2 DEF FetchRobots, CheckRules, Go, TypeOK, Phase, Stages
  <2>3. CASE FetchPage(t) \/ IndexPage(t)
    BY <2>3 DEF FetchPage, IndexPage, Go, TypeOK, Phase, Stages
  <2> QED
    BY <2>1, <2>2, <2>3
<1>3. pc' \in [Threads -> Stages] /\ \A u \in Threads : Phase(u)'
  BY <1>1, <1>2, PhaseStep
<1>4. fetched' \in [Threads -> BOOLEAN] /\ reading' \in [Threads -> 0 .. MaxStall]
  BY AgesAreNatural DEF Leave, FindEntry, FetchRobots, CheckRules, FetchPage, IndexPage, TypeOK
<1>5. rulesSeen' \in SUBSET Origins
  <2>1. CASE FetchRobots(t)
    BY <2>1, HeldFacts DEF FetchRobots, Go, TypeOK, Phase
  <2>2. CASE ~FetchRobots(t)
    BY <2>2 DEF Leave, FindEntry, CheckRules, FetchPage, IndexPage, TypeOK
  <2> QED
    BY <2>1, <2>2
<1>6. indexed' \in SUBSET Own
  <2>1. CASE IndexPage(t)
    BY <2>1, HeldFacts DEF IndexPage, Go, TypeOK, Phase
  <2>2. CASE ~IndexPage(t)
    BY <2>2 DEF Leave, FindEntry, FetchRobots, CheckRules, FetchPage, outputs, TypeOK
  <2> QED
    BY <2>1, <2>2
<1> QED
  BY <1>1, <1>3, <1>4, <1>5, <1>6 DEF TypeOK

LEMMA TypeInsert == ASSUME TypeOK, NEW t \in Threads, InsertEntry(t) PROVE TypeOK'
<1>1. /\ pc[t] = "insert" /\ pc' = [pc EXCEPT ![t] = "rules"] /\ Phase(t)
  BY DEF InsertEntry, Go, TypeOK
<1>2. held[t] # NoItem /\ Origin(t) \in Origins /\ discovered[t] = {}
  BY <1>1, HeldFacts DEF Phase
<1>3. DOMAIN cache' = DOMAIN cache \cup {Origin(t)} /\ DOMAIN cache' \subseteq Origins
  BY <1>2 DEF InsertEntry, TypeOK
<1>4. cache' \in [DOMAIN cache' -> [robots : BOOLEAN, age : 0 .. OldAge]]
  <2>1. OldAge \in 0 .. OldAge
    BY AgesAreNatural
  <2>2. fetched[t] \in BOOLEAN
    BY DEF TypeOK
  <2>3. ASSUME NEW o \in DOMAIN cache'
        PROVE  cache'[o] \in [robots : BOOLEAN, age : 0 .. OldAge]
    BY <1>3, <2>1, <2>2, <2>3 DEF InsertEntry, TypeOK
  <2> QED
    BY <1>3, <2>3 DEF InsertEntry
<1>5. pc' \in [Threads -> Stages] /\ \A u \in Threads : Phase(u)'
  <2>1. "rules" \in Stages
    BY DEF Stages
  <2>2. held' = held /\ discovered' = discovered /\ DOMAIN cache \subseteq DOMAIN cache'
    BY <1>3 DEF InsertEntry, frontier
  <2> HIDE DEF Stages
  <2> QED
    BY <1>1, <1>2, <1>3, <2>1, <2>2, PhaseStep
<1>6. fetched' \in [Threads -> BOOLEAN]
  BY DEF InsertEntry, TypeOK
<1> QED
  BY <1>3, <1>4, <1>5, <1>6 DEF InsertEntry, TypeOK, frontier, outputs

LEMMA TypeReserve == ASSUME TypeOK, NEW t \in Threads, Reserve(t) PROVE TypeOK'
<1>1. /\ pc[t] = "reserve" /\ pc' = [pc EXCEPT ![t] = "fetch"] /\ Phase(t)
  BY DEF Reserve, Go, TypeOK
<1>2. /\ held[t] # NoItem /\ Origin(t) \in Origins /\ discovered[t] = {}
      /\ Origin(t) \in DOMAIN cache
  BY <1>1, HeldFacts DEF Phase
<1>3. reading[t] \in 0 .. OldAge
  BY AgesAreNatural DEF TypeOK
<1>4. DOMAIN cache' = DOMAIN cache
  BY DEF Reserve
<1>5. cache' \in [DOMAIN cache -> [robots : BOOLEAN, age : 0 .. OldAge]]
  <2>1. ASSUME NEW o \in DOMAIN cache
        PROVE  cache'[o] \in [robots : BOOLEAN, age : 0 .. OldAge]
    BY <1>3 DEF Reserve, TypeOK
  <2> QED
    BY <2>1 DEF Reserve
<1>6. pc' \in [Threads -> Stages] /\ \A u \in Threads : Phase(u)'
  <2>1. "fetch" \in Stages
    BY DEF Stages
  <2>2. held' = held /\ discovered' = discovered /\ DOMAIN cache \subseteq DOMAIN cache'
    BY <1>4 DEF Reserve, frontier
  <2> QED
    BY <1>1, <1>2, <1>4, <2>1, <2>2, PhaseStep
<1>7. reading' \in [Threads -> 0 .. MaxStall] /\ requested' \in [Origins -> 0 .. OldAge]
  <2>1. 0 \in 0 .. MaxStall /\ 0 \in 0 .. OldAge
    BY AgesAreNatural
  <2> QED
    BY <2>1 DEF Reserve, TypeOK
<1> QED
  BY <1>4, <1>5, <1>6, <1>7 DEF Reserve, TypeOK, frontier, outputs

LEMMA TypeDelayed == ASSUME TypeOK, NEW t \in Threads, Delayed(t) PROVE TypeOK'
<1>1. /\ pc[t] = "reserve" /\ pc' = [pc EXCEPT ![t] = "pop"] /\ Phase(t) /\ held[t] \in Items
      /\ held' = [held EXCEPT ![t] = NoItem] /\ pool' = pool \cup {held[t]}
      /\ done' = done /\ shut' = shut /\ discovered' = discovered /\ cache' = cache
  BY HeldFacts DEF Delayed, TypeOK, Phase, Frontier!PutBack
<1>2. pc' \in [Threads -> Stages] /\ held' \in [Threads -> Items \cup {NoItem}]
  BY <1>1 DEF TypeOK, Stages
<1>3. ASSUME NEW u \in Threads
      PROVE  Phase(u)'
  <2>1. CASE u = t
    BY <1>1, <2>1 DEF TypeOK, Phase
  <2>2. CASE u # t
    BY <1>1, <2>2 DEF TypeOK, Phase, Url, Origin
  <2> QED
    BY <2>1, <2>2
<1>4. reading' \in [Threads -> 0 .. MaxStall]
  <2>1. 0 \in 0 .. MaxStall
    BY AgesAreNatural
  <2> QED
    BY <2>1 DEF Delayed, TypeOK
<1> QED
  BY <1>1, <1>2, <1>3, <1>4 DEF TypeOK, Delayed, outputs

LEMMA TypeSort == ASSUME TypeOK, NEW t \in Threads, SortLinks(t) PROVE TypeOK'
<1>1. /\ pc[t] = "links" /\ pc' = [pc EXCEPT ![t] = "push"] /\ Phase(t) /\ held[t] # NoItem
  BY DEF SortLinks, Go, TypeOK, Phase
<1>2. LinksOf[Url(t)] \in SUBSET Urls
  BY <1>1, HeldFacts, UrlsAssumption
<1>3. /\ batched' \in SUBSET (Urls \ Own) /\ anchored' \in SUBSET Own /\ bloom' \in SUBSET Own
      /\ discovered' \in [Threads -> SUBSET Own]
  BY <1>2 DEF SortLinks, TypeOK
<1>4. pc' \in [Threads -> Stages]
  BY <1>1 DEF TypeOK, Stages
<1>5. ASSUME NEW u \in Threads
      PROVE  Phase(u)'
  <2>1. CASE u = t
    BY <1>1, <2>1 DEF TypeOK, Phase, SortLinks, frontier
  <2>2. CASE u # t
    BY <1>1, <2>2 DEF TypeOK, Phase, Url, Origin, SortLinks, frontier
  <2> QED
    BY <2>1, <2>2
<1> QED
  BY <1>3, <1>4, <1>5 DEF TypeOK, SortLinks, frontier

LEMMA TypePush == ASSUME TypeOK, NEW t \in Threads, PushLinks(t) PROVE TypeOK'
<1>1. /\ pc[t] = "push" /\ pc' = [pc EXCEPT ![t] = "taskDone"] /\ Phase(t) /\ held[t] # NoItem
  BY DEF PushLinks, Go, TypeOK, Phase
<1>2. LinkItems(discovered[t]) \subseteq Items
  <2>1. \A u \in discovered[t] : u \in Own
    BY DEF TypeOK
  <2>2. \A u \in Own : [url |-> u, seed |-> FALSE] \in Items
    BY DEF Items
  <2> QED
    BY <2>1, <2>2 DEF LinkItems
<1>3. pool' \in SUBSET Items /\ discovered' \in [Threads -> SUBSET Own]
  BY <1>2 DEF PushLinks, TypeOK
<1>4. pc' \in [Threads -> Stages]
  BY <1>1 DEF TypeOK, Stages
<1>5. ASSUME NEW u \in Threads
      PROVE  Phase(u)'
  <2>1. CASE u = t
    BY <1>1, <2>1 DEF TypeOK, Phase, PushLinks
  <2>2. CASE u # t
    BY <1>1, <2>2 DEF TypeOK, Phase, Url, Origin, PushLinks
  <2> QED
    BY <2>1, <2>2
<1> QED
  BY <1>3, <1>4, <1>5 DEF TypeOK, PushLinks, outputs

LEMMA TypeTaskDone == ASSUME TypeOK, NEW t \in Threads, TaskDone(t) PROVE TypeOK'
<1>1. PICK s \in {"pop", "gone"} : pc' = [pc EXCEPT ![t] = s]
  BY DEF TaskDone, Go
<1>2. /\ pc[t] \in {"taskDone", "lastTaskDone"} /\ Phase(t) /\ held[t] \in Items
      /\ held' = [held EXCEPT ![t] = NoItem] /\ done' = done \cup {held[t]}
      /\ pool' = pool /\ shut' = shut /\ discovered' = discovered /\ cache' = cache
  <2>1. pc[t] \in {"taskDone", "lastTaskDone"} /\ Phase(t) /\ held[t] \in Items
    BY HeldFacts DEF TaskDone, Go, TypeOK, Phase
  <2>2. Frontier!Finish(t)
    BY DEF TaskDone
  <2>3. /\ held' = [held EXCEPT ![t] = NoItem] /\ done' = done \cup {held[t]} /\ pool' = pool
        /\ shut' = (shut \/ (FALSE /\ pool = {} /\ Frontier!InHand = {held[t]}))
    BY <2>2 DEF Frontier!Finish
  <2>4. shut' = shut
    BY <2>3 DEF TypeOK
  <2> QED
    BY <2>1, <2>3, <2>4 DEF TaskDone
<1>3. pc' \in [Threads -> Stages] /\ held' \in [Threads -> Items \cup {NoItem}]
  BY <1>1, <1>2 DEF TypeOK, Stages
<1>4. ASSUME NEW u \in Threads
      PROVE  Phase(u)'
  <2>1. CASE u = t
    BY <1>1, <1>2, <2>1 DEF TypeOK, Phase
  <2>2. CASE u # t
    BY <1>1, <1>2, <2>2 DEF TypeOK, Phase, Url, Origin
  <2> QED
    BY <2>1, <2>2
<1> QED
  BY <1>2, <1>3, <1>4 DEF TypeOK, TaskDone, outputs

LEMMA TypeTick == ASSUME TypeOK, Tick PROVE TypeOK'
<1>1. DOMAIN cache' = DOMAIN cache
  BY DEF Tick
<1>2. cache' \in [DOMAIN cache -> [robots : BOOLEAN, age : 0 .. OldAge]]
  <2>1. ASSUME NEW o \in DOMAIN cache
        PROVE  cache'[o] \in [robots : BOOLEAN, age : 0 .. OldAge]
    <3>1. cache[o] \in [robots : BOOLEAN, age : 0 .. OldAge]
      BY DEF TypeOK
    <3>2. Older(cache[o].age) \in 0 .. OldAge
      BY <3>1, OlderAge
    <3> QED
      BY <3>1, <3>2 DEF Tick
  <2> QED
    BY <2>1 DEF Tick
<1>3. requested' \in [Origins -> 0 .. OldAge]
  BY OlderAge DEF Tick, TypeOK
<1>4. reading' \in [Threads -> 0 .. MaxStall]
  BY AgesAreNatural DEF Tick, TypeOK
<1>5. ASSUME NEW u \in Threads
      PROVE  Phase(u)'
  BY <1>1 DEF TypeOK, Phase, Url, Origin, Tick, frontier
<1> QED
  BY <1>1, <1>2, <1>3, <1>4, <1>5 DEF TypeOK, Tick, frontier, outputs

LEMMA TypeNext == ASSUME TypeOK, [Next]_vars PROVE TypeOK'
<1>1. ASSUME NEW t \in Threads, CrawlerWorker(t)
      PROVE  TypeOK'
  BY <1>1, TypePop, TypeFrontierKept, TypeInsert, TypeReserve, TypeDelayed, TypeSort, TypePush,
     TypeTaskDone DEF CrawlerWorker
<1>2. CASE Signal
  BY <1>2 DEF Signal, TypeOK, Phase, Url, Origin, outputs
<1>3. CASE UNCHANGED vars
  BY <1>3 DEF vars, frontier, outputs, TypeOK, Phase, Url, Origin
<1> QED
  BY <1>1, <1>2, <1>3, TypeTick DEF Next

-----------------------------------------------------------------------------
(* What each action does to the frontier *)

InHand == {held[t] : t \in Threads} \ {NoItem}

LEMMA InHandIs == Frontier!InHand = InHand
BY DEF Frontier!InHand, InHand

LEMMA InHandNext == Frontier!InHand' = InHand'
BY DEF Frontier!InHand, InHand

LEMMA PopTakes ==
  ASSUME TypeOK, HostsInv, NEW t \in Threads, Pop(t)
  PROVE  /\ HostsInv'
         /\ \E i \in pool : pool' = pool \ {i} /\ InHand' = InHand \cup {i}
         /\ done' = done /\ shut' = shut /\ bloom' = bloom /\ discovered' = discovered
<1>1. PICK i \in pool : Frontier!Take(t, i)
  BY DEF Pop
<1>2. /\ i \in Items /\ i # NoItem /\ held[t] = NoItem
      /\ pool' = pool \ {i} /\ held' = [held EXCEPT ![t] = i] /\ done' = done /\ shut' = shut
  BY <1>1, NoItemAssumption DEF TypeOK, Frontier!Take
<1>3. ASSUME NEW u \in Threads, held[u] # NoItem
      PROVE  HostOf[Url(u)] # HostOf[i.url]
  <2>1. held[u] \in Frontier!InHand /\ held[u] \in Items
    BY <1>3 DEF TypeOK, Frontier!InHand
  <2>2. \A j \in Frontier!InHand :
          [k \in Items |-> HostOf[k.url]][j] # [k \in Items |-> HostOf[k.url]][i]
    BY <1>1 DEF Frontier!Take
  <2> QED
    BY <1>2, <2>1, <2>2 DEF Url
<1>4. \A u \in Threads : held'[u] = IF u = t THEN i ELSE held[u]
  BY <1>2 DEF TypeOK
<1>5. HostsInv'
  BY <1>2, <1>3, <1>4 DEF HostsInv, Url
<1>6. InHand' = InHand \cup {i}
  BY <1>2, <1>4 DEF InHand
<1> QED
  BY <1>2, <1>5, <1>6 DEF Pop, outputs

\* An item that is put back or done is in no hand any more.
LEMMA HandsEmptied ==
  ASSUME TypeOK, HostsInv, NEW t \in Threads, held[t] # NoItem,
         held' = [held EXCEPT ![t] = NoItem]
  PROVE  HostsInv' /\ InHand' = InHand \ {held[t]} /\ held[t] \in InHand
<1>1. \A u \in Threads : held'[u] = IF u = t THEN NoItem ELSE held[u]
  BY DEF TypeOK
<1>2. \A u \in Threads : u # t /\ held[u] # NoItem => held[u] # held[t]
  BY DEF HostsInv, Url
<1>3. HostsInv'
  BY <1>1 DEF HostsInv, Url
<1>4. InHand' = InHand \ {held[t]} /\ held[t] \in InHand
  BY <1>1, <1>2 DEF InHand
<1> QED
  BY <1>3, <1>4

LEMMA HeldKept ==
  ASSUME held' = held
  PROVE  InHand' = InHand /\ (HostsInv => HostsInv')
BY DEF InHand, HostsInv, Url

LEMMA DelayedPutsBack ==
  ASSUME TypeOK, NEW t \in Threads, Delayed(t)
  PROVE  /\ held[t] # NoItem /\ held' = [held EXCEPT ![t] = NoItem] /\ pool' = pool \cup {held[t]}
         /\ done' = done /\ shut' = shut /\ bloom' = bloom /\ discovered' = discovered
BY DEF Delayed, Frontier!PutBack, outputs

LEMMA TaskDoneFinishes ==
  ASSUME TypeOK, NEW t \in Threads, TaskDone(t)
  PROVE  /\ held[t] # NoItem /\ held' = [held EXCEPT ![t] = NoItem] /\ done' = done \cup {held[t]}
         /\ pool' = pool /\ shut' = shut /\ bloom' = bloom /\ discovered' = discovered
<1>1. Frontier!Finish(t) /\ bloom' = bloom /\ discovered' = discovered
  BY DEF TaskDone, outputs
<1>2. /\ held' = [held EXCEPT ![t] = NoItem] /\ done' = done \cup {held[t]} /\ pool' = pool
      /\ shut' = (shut \/ (FALSE /\ pool = {} /\ Frontier!InHand = {held[t]}))
      /\ held[t] # NoItem
  BY <1>1 DEF Frontier!Finish
<1>3. shut' = shut
  BY <1>2 DEF TypeOK
<1> QED
  BY <1>1, <1>2, <1>3

LEMMA HostsNext == ASSUME TypeOK, HostsInv, [Next]_vars PROVE HostsInv'
<1>1. ASSUME NEW t \in Threads, CrawlerWorker(t)
      PROVE  HostsInv'
  <2>1. CASE Pop(t)
    BY <2>1, PopTakes
  <2>2. CASE Delayed(t) \/ TaskDone(t)
    BY <2>2, DelayedPutsBack, TaskDoneFinishes, HandsEmptied
  <2>3. CASE ~(Pop(t) \/ Delayed(t) \/ TaskDone(t))
    <3>1. held' = held
      BY <1>1, <2>3 DEF CrawlerWorker, Leave, FindEntry, FetchRobots, InsertEntry, CheckRules,
                        Reserve, FetchPage, IndexPage, SortLinks, PushLinks, frontier
    <3> QED
      BY <3>1, HeldKept
  <2> QED
    BY <2>1, <2>2, <2>3
<1>2. CASE Signal \/ Tick \/ UNCHANGED vars
  <2>1. held' = held
    BY <1>2 DEF Signal, Tick, vars, frontier
  <2> QED
    BY <2>1, HeldKept
<1> QED
  BY <1>1, <1>2 DEF Next

-----------------------------------------------------------------------------
(* Every URL is kept *)

Link(u) == [url |-> u, seed |-> FALSE]

LEMMA LinkFacts ==
  /\ \A S : \A u : Link(u) \in LinkItems(S) <=> u \in S
  /\ \A S, T : LinkItems(S \cup T) = LinkItems(S) \cup LinkItems(T)
  /\ \A S : LinkItems(S) \cap SeedItems = {}
<1>1. ASSUME NEW S, NEW u
      PROVE  Link(u) \in LinkItems(S) <=> u \in S
  BY DEF Link, LinkItems
<1>2. ASSUME NEW S, NEW T
      PROVE  LinkItems(S \cup T) = LinkItems(S) \cup LinkItems(T)
  BY DEF LinkItems
<1>3. ASSUME NEW S
      PROVE  LinkItems(S) \cap SeedItems = {}
  BY DEF LinkItems, SeedItems
<1> QED
  BY <1>1, <1>2, <1>3

\* The partition that EveryUrlKept states, of the places alone.
Parted(p, h, d, l, known) ==
  /\ SeedItems \cup LinkItems(known) = p \cup h \cup d \cup LinkItems(l)
  /\ p \cap h = {} /\ (p \cup h) \cap d = {} /\ LinkItems(l) \cap (p \cup h \cup d) = {}

Apart ==
  \A t, u \in Threads : t # u =>
    discovered[t] \cap discovered[u] = {} /\ (held[t] = held[u] => held[t] = NoItem)

LEMMA KeptIs == EveryUrlKept <=> (~shut => Parted(pool, InHand, done, Discovered, bloom) /\ Apart)
BY InHandIs DEF EveryUrlKept, Parted, Apart

LEMMA KeptIsNext ==
  EveryUrlKept' <=> (~shut' => Parted(pool', InHand', done', Discovered', bloom') /\ Apart')
BY InHandNext DEF EveryUrlKept, Parted, Apart

FoundApart == \A t, u \in Threads : t # u => discovered[t] \cap discovered[u] = {}

LEMMA HandsApart == HostsInv /\ FoundApart => Apart
BY DEF HostsInv, FoundApart, Apart, Url

LEMMA HandsApartNext == HostsInv' /\ FoundApart' => Apart'
BY HandsApart, PTL

LEMMA SortParts ==
  ASSUME TypeOK, NEW t \in Threads, SortLinks(t), Apart,
         Parted(pool, InHand, done, Discovered, bloom)
  PROVE  /\ Parted(pool, InHand, done, Discovered', bloom')
         /\ FoundApart'
<1> DEFINE links == LinksOf[Url(t)] \cap Own
           new == links \ bloom
<1>1. /\ discovered' = [discovered EXCEPT ![t] = new] /\ bloom' = bloom \cup new
      /\ discovered[t] = {}
  BY DEF SortLinks, Go, TypeOK, Phase
<1> HIDE DEF links, new
<1>2. \A u \in Threads : discovered'[u] = IF u = t THEN new ELSE discovered[u]
  BY <1>1 DEF TypeOK
<1>3. Discovered' = Discovered \cup new
  BY <1>1, <1>2 DEF Discovered
<1>4. new \cap bloom = {}
  BY DEF new
<1>5. \A u \in Threads : discovered[u] \subseteq bloom
  <2>1. \A u \in Discovered : Link(u) \in SeedItems \cup LinkItems(bloom)
    BY LinkFacts DEF Parted
  <2>2. \A u \in Discovered : u \in bloom
    <3>1. ASSUME NEW u \in Discovered
          PROVE  u \in bloom
      <4>1. Link(u) \in LinkItems({u})
        BY LinkFacts
      <4>2. Link(u) \notin SeedItems
        BY <4>1, LinkFacts
      <4> QED
        BY <2>1, <4>2, LinkFacts
    <3> QED
      BY <3>1
  <2> QED
    BY <2>2 DEF Discovered
<1>6. FoundApart'
  BY <1>2, <1>4, <1>5 DEF Apart, FoundApart
<1>7. /\ LinkItems(Discovered') = LinkItems(Discovered) \cup LinkItems(new)
      /\ LinkItems(bloom') = LinkItems(bloom) \cup LinkItems(new)
  BY <1>1, <1>3, LinkFacts
<1>8. LinkItems(new) \cap LinkItems(bloom) = {}
  BY <1>4 DEF LinkItems
<1>9. LinkItems(new) \cap SeedItems = {}
  BY LinkFacts
<1>10. Parted(pool, InHand, done, Discovered', bloom')
  BY <1>7, <1>8, <1>9 DEF Parted
<1> QED
  BY <1>6, <1>10

LEMMA PushParts ==
  ASSUME TypeOK, NEW t \in Threads, PushLinks(t), ~shut, Apart,
         Parted(pool, InHand, done, Discovered, bloom)
  PROVE  /\ Parted(pool', InHand, done, Discovered', bloom)
         /\ FoundApart'
<1>1. /\ discovered' = [discovered EXCEPT ![t] = {}]
      /\ pool' = pool \cup LinkItems(discovered[t])
  BY DEF PushLinks
<1>2. \A u \in Threads : discovered'[u] = IF u = t THEN {} ELSE discovered[u]
  BY <1>1 DEF TypeOK
<1>3. FoundApart'
  BY <1>2 DEF Apart, FoundApart
<1>4. /\ Discovered = Discovered' \cup discovered[t] /\ Discovered' \cap discovered[t] = {}
  BY <1>2 DEF Apart, Discovered
<1>5. LinkItems(Discovered) = LinkItems(Discovered') \cup LinkItems(discovered[t])
  BY <1>4, LinkFacts
<1>6. LinkItems(Discovered') \cap LinkItems(discovered[t]) = {}
  BY <1>4 DEF LinkItems
<1>7. Parted(pool', InHand, done, Discovered', bloom)
  BY <1>1, <1>5, <1>6 DEF Parted
<1> QED
  BY <1>3, <1>7

LEMMA KeptNext ==
  ASSUME TypeOK, HostsInv, HostsInv', EveryUrlKept, [Next]_vars
  PROVE  EveryUrlKept'
<1> SUFFICES ASSUME ~shut'
             PROVE  Parted(pool', InHand', done', Discovered', bloom') /\ Apart'
  BY KeptIsNext
<1>1. ~shut
  BY DEF Next, CrawlerWorker, Pop, Leave, FindEntry, FetchRobots, InsertEntry, CheckRules, Reserve,
         Delayed, FetchPage, IndexPage, SortLinks, PushLinks, TaskDone, Signal, Tick, vars, frontier,
         Frontier!Take, Frontier!PutBack, Frontier!Finish
<1>2. Parted(pool, InHand, done, Discovered, bloom) /\ Apart
  BY <1>1, KeptIs
<1>3. ASSUME discovered' = discovered
      PROVE  Discovered' = Discovered /\ Apart'
  <2>1. FoundApart'
    BY <1>2, <1>3 DEF Apart, FoundApart
  <2> QED
    BY <1>3, <2>1, HandsApartNext DEF Discovered
<1>4. ASSUME NEW t \in Threads, CrawlerWorker(t)
      PROVE  Parted(pool', InHand', done', Discovered', bloom') /\ Apart'
  <2>1. CASE Pop(t)
    <3>1. PICK i \in pool : pool' = pool \ {i} /\ InHand' = InHand \cup {i}
      BY <2>1, PopTakes
    <3>2. done' = done /\ bloom' = bloom /\ discovered' = discovered
      BY <2>1, PopTakes
    <3>3. Parted(pool', InHand', done', Discovered, bloom')
      BY <1>2, <3>1, <3>2 DEF Parted
    <3> QED
      BY <1>3, <3>2, <3>3
  <2>2. CASE Delayed(t)
    <3>1. /\ pool' = pool \cup {held[t]} /\ InHand' = InHand \ {held[t]} /\ held[t] \in InHand
          /\ done' = done /\ bloom' = bloom /\ discovered' = discovered
      BY <2>2, DelayedPutsBack, HandsEmptied
    <3>2. Parted(pool', InHand', done', Discovered, bloom')
      BY <1>2, <3>1 DEF Parted
    <3> QED
      BY <1>3, <3>1, <3>2
  <2>3. CASE TaskDone(t)
    <3>1. /\ done' = done \cup {held[t]} /\ InHand' = InHand \ {held[t]} /\ held[t] \in InHand
          /\ pool' = pool /\ bloom' = bloom /\ discovered' = discovered
      BY <2>3, TaskDoneFinishes, HandsEmptied
    <3>2. Parted(pool', InHand', done', Discovered, bloom')
      BY <1>2, <3>1 DEF Parted
    <3> QED
      BY <1>3, <3>1, <3>2
  <2>4. CASE SortLinks(t)
    <3>1. InHand' = InHand /\ pool' = pool /\ done' = done
      BY <2>4, HeldKept DEF SortLinks, frontier
    <3>2. /\ Parted(pool, InHand, done, Discovered', bloom')
          /\ FoundApart'
      BY <1>2, <2>4, SortParts
    <3> QED
      BY <3>1, <3>2, HandsApartNext
  <2>5. CASE PushLinks(t)
    <3>1. InHand' = InHand /\ done' = done /\ bloom' = bloom
      BY <2>5, HeldKept DEF PushLinks, outputs
    <3>2. /\ Parted(pool', InHand, done, Discovered', bloom)
          /\ FoundApart'
      BY <1>1, <1>2, <2>5, PushParts
    <3> QED
      BY <3>1, <3>2, HandsApartNext
  <2>6. CASE ~(Pop(t) \/ Delayed(t) \/ TaskDone(t) \/ SortLinks(t) \/ PushLinks(t))
    <3>1. /\ held' = held /\ pool' = pool /\ done' = done /\ bloom' = bloom
          /\ discovered' = discovered
      BY <1>4, <2>6 DEF CrawlerWorker, Leave, FindEntry, FetchRobots, InsertEntry, CheckRules,
                        Reserve, FetchPage, IndexPage, frontier, outputs
    <3> QED
      BY <1>2, <1>3, <3>1, HeldKept
  <2> QED
    BY <2>1, <2>2, <2>3, <2>4, <2>5, <2>6
<1>5. CASE Signal \/ Tick \/ UNCHANGED vars
  <2>1. held' = held /\ pool' = pool /\ done' = done /\ bloom' = bloom /\ discovered' = discovered
    BY <1>5 DEF Signal, Tick, vars, frontier, outputs
  <2> QED
    BY <1>2, <1>3, <2>1, HeldKept
<1> QED
  BY <1>4, <1>5 DEF Next

-----------------------------------------------------------------------------
(* The cache of robots.txt files *)

LEMMA OriginsApart ==
  ASSUME TypeOK, HostsInv, NEW t \in Threads, NEW u \in Threads, t # u,
         held[t] # NoItem, held[u] # NoItem
  PROVE  Origin(t) # Origin(u)
<1>1. Url(t) \in Urls /\ Url(u) \in Urls
  BY HeldFacts
<1> QED
  BY <1>1, UrlsAssumption DEF HostsInv, Origin

LEMMA OthersUntouched ==
  ASSUME TypeOK, NEW t \in Threads, NEW u \in Threads, u # t, CrawlerWorker(t)
  PROVE  /\ pc'[u] = pc[u] /\ held'[u] = held[u] /\ fetched'[u] = fetched[u]
         /\ reading'[u] = reading[u]
<1>1. pc'[u] = pc[u] /\ fetched'[u] = fetched[u] /\ reading'[u] = reading[u]
  BY DEF TypeOK, CrawlerWorker, Pop, Leave, FindEntry, FetchRobots, InsertEntry, CheckRules, Reserve,
         Delayed, FetchPage, IndexPage, SortLinks, PushLinks, TaskDone, Go
<1>2. held'[u] = held[u]
  <2>1. CASE Pop(t)
    BY <2>1 DEF Pop, TypeOK, Frontier!Take
  <2>2. CASE Delayed(t) \/ TaskDone(t)
    BY <2>2, DelayedPutsBack, TaskDoneFinishes DEF TypeOK
  <2>3. CASE ~(Pop(t) \/ Delayed(t) \/ TaskDone(t))
    BY <2>3 DEF CrawlerWorker, Leave, FindEntry, FetchRobots, InsertEntry, CheckRules,
                Reserve, FetchPage, IndexPage, SortLinks, PushLinks, frontier
  <2> QED
    BY <2>1, <2>2, <2>3
<1> QED
  BY <1>1, <1>2

\* What a step does to the cache: one entry may come, none goes, and whether an
\* entry has rules never changes.
LEMMA CacheGrows ==
  ASSUME TypeOK, [Next]_vars
  PROVE  /\ DOMAIN cache \subseteq DOMAIN cache'
         /\ \A o \in DOMAIN cache : cache'[o].robots = cache[o].robots
<1>1. ASSUME NEW t \in Threads, InsertEntry(t)
      PROVE  /\ DOMAIN cache \subseteq DOMAIN cache'
             /\ \A o \in DOMAIN cache : cache'[o].robots = cache[o].robots
  BY <1>1 DEF InsertEntry
<1>2. ASSUME NEW t \in Threads, Reserve(t)
      PROVE  /\ DOMAIN cache \subseteq DOMAIN cache'
             /\ \A o \in DOMAIN cache : cache'[o].robots = cache[o].robots
  BY <1>2 DEF Reserve, TypeOK
<1>3. CASE Tick
  BY <1>3 DEF Tick, TypeOK
<1>4. CASE cache' = cache
  BY <1>4
<1>5. ASSUME NEW t \in Threads, CrawlerWorker(t), ~InsertEntry(t), ~Reserve(t)
      PROVE  cache' = cache
  BY <1>5 DEF CrawlerWorker, Pop, Leave, FindEntry, FetchRobots, CheckRules, Delayed, FetchPage,
              IndexPage, SortLinks, PushLinks, TaskDone
<1>6. ASSUME Signal \/ UNCHANGED vars
      PROVE  cache' = cache
  BY <1>6 DEF Signal, vars
<1> QED
  BY <1>1, <1>2, <1>3, <1>4, <1>5, <1>6 DEF Next

\* A step enlarges the cache by the entry of the thread that inserts one.
LEMMA OnlyInsertAdds ==
  ASSUME TypeOK, [Next]_vars, NEW o \in DOMAIN cache', o \notin DOMAIN cache
  PROVE  \E t \in Threads :
           InsertEntry(t) /\ o = Origin(t) /\ cache'[o] = [robots |-> fetched[t], age |-> OldAge]
<1>1. ASSUME NEW t \in Threads, CrawlerWorker(t)
      PROVE  InsertEntry(t)
  BY <1>1 DEF CrawlerWorker, Pop, Leave, FindEntry, FetchRobots, CheckRules, Reserve, Delayed,
              FetchPage, IndexPage, SortLinks, PushLinks, TaskDone
<1>2. ~(Signal \/ Tick \/ UNCHANGED vars)
  BY DEF Signal, Tick, vars
<1>3. PICK t \in Threads : InsertEntry(t)
  BY <1>1, <1>2 DEF Next
<1> QED
  BY <1>3 DEF InsertEntry

LEMMA RulesNext ==
  ASSUME TypeOK, TypeOK', HostsInv, RulesInv, [Next]_vars
  PROVE  RulesInv'
<1>1. ASSUME NEW t \in Threads, pc'[t] \in {"robots", "insert"}
      PROVE  Origin(t)' \notin DOMAIN cache'
  <2>1. /\ held'[t] = held[t] /\ Origin(t) \notin DOMAIN cache
        /\ pc[t] \in {"popped", "robots", "insert"} /\ ~InsertEntry(t)
    <3>1. ASSUME NEW u \in Threads, CrawlerWorker(u), u # t
          PROVE  /\ held'[t] = held[t] /\ Origin(t) \notin DOMAIN cache
                 /\ pc[t] \in {"robots", "insert"}
      BY <1>1, <3>1, OthersUntouched DEF RulesInv
    <3>2. ASSUME CrawlerWorker(t)
          PROVE  FindEntry(t) \/ FetchRobots(t)
      BY <1>1, <3>2 DEF TypeOK, CrawlerWorker, Pop, Leave, InsertEntry, CheckRules, Reserve, Delayed,
             FetchPage, IndexPage, SortLinks, PushLinks, TaskDone, Go
    <3>3. ASSUME FindEntry(t) \/ FetchRobots(t)
          PROVE  /\ held'[t] = held[t] /\ Origin(t) \notin DOMAIN cache
                 /\ pc[t] \in {"popped", "robots", "insert"}
      BY <1>1, <3>3 DEF RulesInv, FindEntry, FetchRobots, Go, TypeOK, frontier
    <3>4. ASSUME Signal \/ Tick \/ UNCHANGED vars
          PROVE  /\ held'[t] = held[t] /\ Origin(t) \notin DOMAIN cache
                 /\ pc[t] \in {"robots", "insert"}
      BY <1>1, <3>4 DEF RulesInv, Signal, Tick, vars, frontier
    <3>5. ~InsertEntry(t)
      BY <1>1 DEF InsertEntry, Go, TypeOK
    <3> QED
      BY <3>1, <3>2, <3>3, <3>4, <3>5 DEF Next
  <2>2. held[t] # NoItem
    BY <2>1 DEF TypeOK, Phase
  <2>3. ASSUME Origin(t) \in DOMAIN cache'
        PROVE  FALSE
    <3>1. PICK u \in Threads : InsertEntry(u) /\ Origin(t) = Origin(u)
      BY <2>1, <2>3, OnlyInsertAdds
    <3>2. held[u] # NoItem
      BY <3>1 DEF InsertEntry, Go, TypeOK, Phase
    <3> QED
      BY <2>1, <2>2, <3>1, <3>2, OriginsApart
  <2> QED
    BY <2>1, <2>3 DEF Origin, Url
<1>2. ASSUME NEW o \in rulesSeen'
      PROVE  \/ o \in DOMAIN cache' /\ cache'[o].robots
             \/ \E t \in Threads : pc'[t] = "insert" /\ fetched'[t] /\ Origin(t)' = o
  <2>1. CASE o \in rulesSeen /\ o \in DOMAIN cache /\ cache[o].robots
    BY <2>1, CacheGrows
  <2>2. ASSUME o \in rulesSeen, NEW t \in Threads, pc[t] = "insert", fetched[t], Origin(t) = o
        PROVE  \/ o \in DOMAIN cache' /\ cache'[o].robots
               \/ pc'[t] = "insert" /\ fetched'[t] /\ Origin(t)' = o
    <3>1. ASSUME NEW u \in Threads, CrawlerWorker(u), u # t
          PROVE  pc'[t] = "insert" /\ fetched'[t] /\ Origin(t)' = o
      BY <2>2, <3>1, OthersUntouched DEF Origin, Url
    <3>2. ASSUME CrawlerWorker(t)
          PROVE  o \in DOMAIN cache' /\ cache'[o].robots
      <4>1. InsertEntry(t)
        BY <2>2, <3>2 DEF CrawlerWorker, Pop, Leave, FindEntry, FetchRobots, CheckRules, Reserve,
              Delayed, FetchPage, IndexPage, SortLinks, PushLinks, TaskDone, Go
      <4>2. o \notin DOMAIN cache
        BY <2>2 DEF RulesInv
      <4> QED
        BY <2>2, <4>1, <4>2 DEF InsertEntry
    <3>3. ASSUME Signal \/ Tick \/ UNCHANGED vars
          PROVE  pc'[t] = "insert" /\ fetched'[t] /\ Origin(t)' = o
      BY <2>2, <3>3 DEF Signal, Tick, vars, frontier, Origin, Url
    <3> QED
      BY <3>1, <3>2, <3>3 DEF Next
  <2>3. CASE o \notin rulesSeen
    <3>1. PICK t \in Threads : FetchRobots(t) /\ o = Origin(t) /\ fetched'[t]
      <4>1. ASSUME NEW t \in Threads, CrawlerWorker(t)
            PROVE  FetchRobots(t)
        BY <2>3, <4>1 DEF CrawlerWorker, Pop, Leave, FindEntry, InsertEntry, CheckRules, Reserve,
              Delayed, FetchPage, IndexPage, SortLinks, PushLinks, TaskDone
      <4>2. ~(Signal \/ Tick \/ UNCHANGED vars)
        BY <2>3 DEF Signal, Tick, vars
      <4>3. PICK t \in Threads : FetchRobots(t)
        BY <4>1, <4>2 DEF Next
      <4>4. PICK ok \in BOOLEAN :
              /\ fetched' = [fetched EXCEPT ![t] = ok]
              /\ rulesSeen' = IF ok THEN rulesSeen \cup {Origin(t)} ELSE rulesSeen
        BY <4>3 DEF FetchRobots
      <4>5. ok /\ o = Origin(t)
        BY <2>3, <4>4
      <4>6. fetched'[t]
        BY <4>4, <4>5 DEF TypeOK
      <4> QED
        BY <4>3, <4>5, <4>6
    <3>2. pc'[t] = "insert" /\ held' = held
      BY <3>1 DEF FetchRobots, Go, TypeOK, frontier
    <3> QED
      BY <3>1, <3>2 DEF Origin, Url
  <2> QED
    BY <2>1, <2>2, <2>3 DEF RulesInv
<1>3. ASSUME NEW t \in Threads, pc'[t] = "reserve", cache'[Origin(t)'].robots
      PROVE  Allowed[Url(t)']
  <2>1. ASSUME pc[t] = "reserve", held'[t] = held[t]
        PROVE  Allowed[Url(t)']
    <3>1. Origin(t) \in DOMAIN cache
      BY <2>1 DEF TypeOK, Phase
    <3>2. cache[Origin(t)].robots
      BY <1>3, <2>1, <3>1, CacheGrows DEF Origin, Url
    <3> QED
      BY <2>1, <3>2 DEF RulesInv, Url
  <2>2. ASSUME NEW u \in Threads, CrawlerWorker(u), u # t
        PROVE  pc[t] = "reserve" /\ held'[t] = held[t]
    BY <1>3, <2>2, OthersUntouched
  <2>3. ASSUME CrawlerWorker(t)
        PROVE  Allowed[Url(t)']
    <3>1. CheckRules(t)
      BY <1>3, <2>3 DEF TypeOK, CrawlerWorker, Pop, Leave, FindEntry, FetchRobots, InsertEntry,
             Reserve, Delayed, FetchPage, IndexPage, SortLinks, PushLinks, TaskDone, Go
    <3>2. held' = held /\ cache' = cache
      BY <3>1 DEF CheckRules, frontier
    <3> QED
      BY <1>3, <3>1, <3>2 DEF CheckRules, Go, TypeOK, Url, Origin
  <2>4. ASSUME Signal \/ Tick \/ UNCHANGED vars
        PROVE  pc[t] = "reserve" /\ held'[t] = held[t]
    BY <1>3, <2>4 DEF Signal, Tick, vars, frontier
  <2> QED
    BY <2>1, <2>2, <2>3, <2>4 DEF Next
<1> QED
  BY <1>1, <1>2, <1>3 DEF RulesInv

-----------------------------------------------------------------------------
(* Times *)

LEMMA OlderKeepsDistance ==
  ASSUME NEW a \in 0 .. OldAge, NEW r \in 0 .. OldAge, a <= r + MaxStall
  PROVE  Older(a) <= Older(r) + MaxStall
BY AgesAreNatural DEF Older

LEMMA AgeNext == ASSUME TypeOK, AgeInv, [Next]_vars PROVE AgeInv'
<1>1. ASSUME cache' = cache, requested' = requested
      PROVE  AgeInv'
  BY <1>1 DEF AgeInv
<1>2. ASSUME NEW t \in Threads, InsertEntry(t)
      PROVE  AgeInv'
  <2>1. requested' = requested /\ DOMAIN cache' = DOMAIN cache \cup {Origin(t)}
    BY <1>2 DEF InsertEntry
  <2>2. ASSUME NEW o \in Origins
        PROVE  IF o \in DOMAIN cache' THEN cache'[o].age <= requested'[o] + MaxStall
               ELSE requested'[o] = OldAge
    <3>1. CASE o \in DOMAIN cache
      <4>1. cache'[o] = cache[o]
        BY <1>2, <3>1 DEF InsertEntry
      <4> QED
        BY <2>1, <3>1, <4>1 DEF AgeInv
    <3>2. CASE o = Origin(t) /\ o \notin DOMAIN cache
      <4>1. cache'[o].age = OldAge
        BY <1>2, <3>2 DEF InsertEntry
      <4>2. requested[o] = OldAge
        BY <3>2 DEF AgeInv
      <4> QED
        BY <2>1, <3>2, <4>1, <4>2, AgesAreNatural
    <3>3. CASE o # Origin(t) /\ o \notin DOMAIN cache
      BY <2>1, <3>3 DEF AgeInv
    <3> QED
      BY <3>1, <3>2, <3>3
  <2> QED
    BY <2>2 DEF AgeInv
<1>3. ASSUME NEW t \in Threads, Reserve(t)
      PROVE  AgeInv'
  <2>1. DOMAIN cache' = DOMAIN cache
    BY <1>3 DEF Reserve
  <2>2. Origin(t) \in DOMAIN cache /\ Origin(t) \in Origins
    BY <1>3 DEF Reserve, Go, TypeOK, Phase
  <2>3. /\ cache'[Origin(t)].age = reading[t]
        /\ \A o \in DOMAIN cache : o # Origin(t) => cache'[o] = cache[o]
    BY <1>3, <2>2 DEF Reserve, TypeOK
  <2>4. /\ requested'[Origin(t)] = 0
        /\ \A o \in Origins : o # Origin(t) => requested'[o] = requested[o]
    BY <1>3, <2>2 DEF Reserve, TypeOK
  <2>5. reading[t] <= 0 + MaxStall
    BY AgesAreNatural DEF TypeOK
  <2>6. ASSUME NEW o \in Origins
        PROVE  IF o \in DOMAIN cache' THEN cache'[o].age <= requested'[o] + MaxStall
               ELSE requested'[o] = OldAge
    <3>1. CASE o = Origin(t)
      BY <2>1, <2>2, <2>3, <2>4, <2>5, <3>1
    <3>2. CASE o # Origin(t)
      BY <2>1, <2>3, <2>4, <3>2 DEF AgeInv
    <3> QED
      BY <3>1, <3>2
  <2> QED
    BY <2>6 DEF AgeInv
<1>4. CASE Tick
  <2>1. DOMAIN cache' = DOMAIN cache
    BY <1>4 DEF Tick
  <2>2. ASSUME NEW o \in Origins
        PROVE  IF o \in DOMAIN cache' THEN cache'[o].age <= requested'[o] + MaxStall
               ELSE requested'[o] = OldAge
    <3>1. requested'[o] = Older(requested[o]) /\ requested[o] \in 0 .. OldAge
      BY <1>4 DEF Tick, TypeOK
    <3>2. CASE o \in DOMAIN cache
      <4>1. cache[o] \in [robots : BOOLEAN, age : 0 .. OldAge]
        BY <3>2 DEF TypeOK
      <4>2. cache'[o].age = Older(cache[o].age) /\ cache[o].age \in 0 .. OldAge
        BY <1>4, <3>2, <4>1 DEF Tick
      <4>3. cache[o].age <= requested[o] + MaxStall
        BY <3>2 DEF AgeInv
      <4> QED
        BY <2>1, <3>1, <3>2, <4>2, <4>3, OlderKeepsDistance
    <3>3. CASE o \notin DOMAIN cache
      BY <2>1, <3>1, <3>3 DEF AgeInv, Older
    <3> QED
      BY <3>2, <3>3
  <2> QED
    BY <2>2 DEF AgeInv
<1>5. ASSUME NEW t \in Threads, CrawlerWorker(t), ~InsertEntry(t), ~Reserve(t)
      PROVE  cache' = cache /\ requested' = requested
  BY <1>5 DEF CrawlerWorker, Pop, Leave, FindEntry, FetchRobots, CheckRules, Delayed, FetchPage,
              IndexPage, SortLinks, PushLinks, TaskDone
<1>6. ASSUME Signal \/ UNCHANGED vars
      PROVE  cache' = cache /\ requested' = requested
  BY <1>6 DEF Signal, vars
<1> QED
  BY <1>1, <1>2, <1>3, <1>4, <1>5, <1>6 DEF Next

-----------------------------------------------------------------------------
(* Theorems *)

LEMMA InitInv == ASSUME Init PROVE Inv
<1>1. held = [t \in Threads |-> NoItem] /\ pc = [t \in Threads |-> "pop"]
  BY DEF Init
<1>2. SeedItems \subseteq Items
  <2>1. \A u \in Seeds : [url |-> u, seed |-> TRUE] \in Items
    BY UrlsAssumption DEF Items
  <2> QED
    BY <2>1 DEF SeedItems
<1>3. TypeOK
  <2>1. 0 \in 0 .. MaxStall /\ OldAge \in 0 .. OldAge /\ "pop" \in Stages
    BY AgesAreNatural DEF Stages
  <2>2. \A t \in Threads : Phase(t)
    BY DEF Init, Phase
  <2>3. cache \in [DOMAIN cache -> [robots : BOOLEAN, age : 0 .. OldAge]] /\ DOMAIN cache = {}
    BY DEF Init
  <2> QED
    BY <1>2, <2>1, <2>2, <2>3 DEF Init, TypeOK
<1>4. HostsInv
  BY <1>1 DEF HostsInv
<1>5. InHand = {} /\ Discovered = {} /\ LinkItems({}) = {}
  BY DEF Init, InHand, Discovered, LinkItems
<1>6. EveryUrlKept
  <2>1. Parted(pool, InHand, done, Discovered, bloom)
    BY <1>5 DEF Init, Parted
  <2>2. Apart
    BY DEF Init, Apart
  <2> QED
    BY <2>1, <2>2, KeptIs
<1>7. RulesInv
  BY <1>1 DEF Init, RulesInv
<1>8. AgeInv
  BY DEF Init, AgeInv
<1> QED
  BY <1>3, <1>4, <1>6, <1>7, <1>8 DEF Inv

LEMMA NextInv == ASSUME Inv, [Next]_vars PROVE Inv'
<1>1. TypeOK' /\ HostsInv'
  BY TypeNext, HostsNext DEF Inv
<1>2. EveryUrlKept' /\ RulesInv' /\ AgeInv'
  BY <1>1, KeptNext, RulesNext, AgeNext DEF Inv
<1> QED
  BY <1>1, <1>2 DEF Inv

\* Every state of the crawler threads satisfies the inductive invariant.
THEOREM Invariance == Spec => []Inv
BY InitInv, NextInv, PTL DEF Spec

\* The type invariant; a thread at work has an item, and an entry of the cache
\* once it has the rules.
THEOREM TypeCorrect == Spec => []TypeOK
<1>1. Inv => TypeOK
  BY DEF Inv
<1> QED
  BY <1>1, Invariance, PTL

\* Seeds and found links are crawled exactly once and never forgotten, however
\* threads meet in the filter and the frontier, until the frontier is closed.
THEOREM UrlsAreKept == Spec => []EveryUrlKept
<1>1. Inv => EveryUrlKept
  BY DEF Inv
<1> QED
  BY <1>1, Invariance, PTL

\* The step to "fetch" is that of Reserve.
LEMMA OnlyReserveRequests ==
  ASSUME TypeOK, [Next]_vars, NEW t \in Threads, pc[t] = "reserve", pc'[t] = "fetch"
  PROVE  Reserve(t)
<1>1. ASSUME NEW u \in Threads, CrawlerWorker(u)
      PROVE  Reserve(t)
  <2>1. u = t
    BY <1>1, OthersUntouched
  <2> QED
    BY <1>1, <2>1 DEF TypeOK, CrawlerWorker, Pop, Leave, FindEntry, FetchRobots, InsertEntry,
           CheckRules, Delayed, FetchPage, IndexPage, SortLinks, PushLinks, TaskDone, Go
<1>2. ~(Signal \/ Tick \/ UNCHANGED vars)
  BY DEF Signal, Tick, vars
<1> QED
  BY <1>1, <1>2 DEF Next

\* Once a robots.txt was received, whoever received it and whoever filled the
\* cache, no page it forbids is requested.
THEOREM RulesAreObeyed == Spec => RulesObeyed
<1>1. ASSUME Inv, NEW t \in Threads, pc[t] = "reserve", Origin(t) \in rulesSeen
      PROVE  Allowed[Url(t)]
  <2>1. held[t] # NoItem
    BY <1>1 DEF Inv, TypeOK, Phase
  <2>2. ASSUME NEW u \in Threads, pc[u] = "insert", Origin(u) = Origin(t)
        PROVE  FALSE
    <3>1. held[u] # NoItem /\ u # t
      BY <1>1, <2>2 DEF Inv, TypeOK, Phase
    <3> QED
      BY <1>1, <2>1, <2>2, <3>1, OriginsApart DEF Inv
  <2>3. cache[Origin(t)].robots
    BY <1>1, <2>2 DEF Inv, RulesInv
  <2> QED
    BY <1>1, <2>3 DEF Inv, RulesInv
<1>2. Inv => \A t \in Threads : pc[t] = "reserve" /\ pc'[t] = "fetch" =>
               (Origin(t) \in rulesSeen => Allowed[Url(t)])
  BY <1>1
<1> QED
  BY <1>2, Invariance, PTL DEF RulesObeyed

\* Requests to an origin are a delay apart, less the time a reading of the clock
\* is held before it is used.
THEOREM RequestsAreSpaced == Spec => RequestsSpaced
<1>1. ASSUME Inv, [Next]_vars, NEW t \in Threads, pc[t] = "reserve", pc'[t] = "fetch"
      PROVE  requested[Origin(t)] + MaxStall >= DelayNow(t)
  <2>1. ~TooEarly(t)
    BY <1>1, OnlyReserveRequests DEF Inv, Reserve
  <2>2. held[t] # NoItem /\ Origin(t) \in DOMAIN cache
    BY <1>1 DEF Inv, TypeOK, Phase
  <2>3. Url(t) \in Urls /\ Origin(t) \in Origins
    BY <1>1, <2>2, HeldFacts DEF Inv
  <2>4. DelayNow(t) \in Nat
    BY <2>3, DelayAssumption DEF DelayNow
  <2>5. /\ cache[Origin(t)].age \in Nat /\ reading[t] \in Nat /\ requested[Origin(t)] \in Nat
        /\ MaxStall \in Nat
    <3>1. cache[Origin(t)] \in [robots : BOOLEAN, age : 0 .. OldAge]
      BY <1>1, <2>2 DEF Inv, TypeOK
    <3>2. cache[Origin(t)].age \in 0 .. OldAge
      BY <3>1
    <3>3. reading[t] \in 0 .. MaxStall /\ requested[Origin(t)] \in 0 .. OldAge
      BY <1>1, <2>3 DEF Inv, TypeOK
    <3> QED
      BY <3>2, <3>3, AgesAreNatural
  <2>6. cache[Origin(t)].age <= requested[Origin(t)] + MaxStall
    BY <1>1, <2>2, <2>3 DEF Inv, AgeInv
  <2> QED
    BY <2>1, <2>4, <2>5, <2>6 DEF TooEarly
<1>2. Inv /\ [Next]_vars =>
        \A t \in Threads : pc[t] = "reserve" /\ pc'[t] = "fetch" =>
          requested[Origin(t)] + MaxStall >= DelayNow(t)
  BY <1>1
<1> QED
  BY <1>2, Invariance, PTL DEF Spec, RequestsSpaced
=============================================================================
