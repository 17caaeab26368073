------------------------------ MODULE Crawling ------------------------------
(***************************************************************************)
(* The crawler threads around the frontier (CrawlerWorkerThread in         *)
(* src/src/main_distributed.cpp) with the cache of robots.txt files        *)
(* (src/src/crawler/RobotsCache.cpp).                                      *)
(*                                                                         *)
(* The frontier is the TaskPool that module Frontier implements, what a    *)
(* robots.txt says of a URL is constant (MCCrawling takes it from module   *)
(* RobotsTxt), the index queue is the set of pages it took.  Time is kept  *)
(* as ages: of the last access of each origin, and of the clock reading    *)
(* that a thread holds.  An age stops growing where no comparison can tell *)
(* it any more.                                                            *)
(***************************************************************************)
EXTENDS Integers, FiniteSets

CONSTANTS
  Urls, Origins, Threads, NoItem,
  Seeds,                 \* the URLs that the frontier has at the start
  OriginOf, HostOf,      \* of a URL; the frontier's host key has neither scheme nor port
  Allowed, DelayOf,      \* what the robots.txt of its origin says of a URL; 0 for no delay
  LinksOf,               \* the links on a page that pass the filters
  Own,                   \* the URLs of this machine
  DefaultDelay,          \* DEFAULT_CRAWL_DELAY_MS
  MaxDelay,              \* bound: the longest delay
  MaxStall               \* bound: age of a clock reading when it is used

ASSUME UrlsAssumption ==
  /\ Seeds \subseteq Own /\ Own \subseteq Urls
  /\ OriginOf \in [Urls -> Origins] /\ LinksOf \in [Urls -> SUBSET Urls]
  /\ \A u, v \in Urls : OriginOf[u] = OriginOf[v] => HostOf[u] = HostOf[v]
ASSUME DelayAssumption ==
  /\ MaxDelay \in Nat /\ DefaultDelay \in 1 .. MaxDelay /\ MaxStall \in Nat
  /\ Allowed \in [Urls -> BOOLEAN] /\ DelayOf \in [Urls -> 0 .. MaxDelay]

VARIABLES
  pool, held, done, shut,   \* the frontier
  stop,        \* shouldStop
  queueShut,   \* the index queue is closed
  pc,          \* where each thread is
  cache,       \* origin -> [robots, age]: whether it has rules, and the age of lastAccessedMs
  fetched,     \* fetched[t]: whether t's own request for robots.txt brought rules
  reading,     \* reading[t]: age of the clock reading of t
  discovered,  \* discovered[t]: discoveredLinks
  bloom, batched, anchored, indexed,
  rulesSeen,   \* history: origins whose robots.txt was received
  requested    \* history: origin -> age of the last request for a page

frontier == <<pool, held, done, shut>>
outputs == <<bloom, batched, anchored, indexed>>
vars == <<frontier, stop, queueShut, pc, cache, fetched, reading, discovered, outputs, rulesSeen, requested>>

\* A seed does not go through the bloom filter: when a page links to it, it is
\* found, and the frontier has two items for it.
Items == [url : Own, seed : BOOLEAN]
SeedItems == {[url |-> u, seed |-> TRUE] : u \in Seeds}
LinkItems(urls) == {[url |-> u, seed |-> FALSE] : u \in urls}

ASSUME NoItemAssumption == NoItem \notin Items

Frontier == INSTANCE TaskPool WITH
              HostOf <- [i \in Items |-> HostOf[i.url]], Crawlers <- Threads, AutoClose <- FALSE

\* No delay is longer than OldAge seen from a reading that is MaxStall old.
OldAge == MaxStall + MaxDelay

Go(t, from, to) == pc[t] = from /\ pc' = [pc EXCEPT ![t] = to]
Url(t) == held[t].url
Origin(t) == OriginOf[Url(t)]

-----------------------------------------------------------------------------
(* The loop head *)

\* Mutant: the frontier hands out URLs of a host that another thread is on.
PopAnyHost(t) ==
  /\ Go(t, "pop", "popped")
  /\ \E i \in pool : pool' = pool \ {i} /\ held' = [held EXCEPT ![t] = i]
  /\ UNCHANGED <<done, shut, stop, queueShut, cache, fetched, reading, discovered, outputs, rulesSeen, requested>>

Pop(t) ==
  /\ Go(t, "pop", "popped")
  /\ \E i \in pool : Frontier!Take(t, i)
  /\ UNCHANGED <<stop, queueShut, cache, fetched, reading, discovered, outputs, rulesSeen, requested>>

\* pop() returned nothing, or shouldStop is set: the item just popped is dropped
\* without taskDone().
Leave(t) ==
  /\ \/ shut /\ Go(t, "pop", "gone")
     \/ stop /\ Go(t, "popped", "gone")
  /\ UNCHANGED <<frontier, stop, queueShut, cache, fetched, reading, discovered, outputs, rulesSeen, requested>>

-----------------------------------------------------------------------------
(* RobotsCache::checkAndReserve *)

\* Under the lock: the entry of the origin, if there is one.
FindEntry(t) ==
  /\ ~stop /\ Go(t, "popped", IF Origin(t) \in DOMAIN cache THEN "rules" ELSE "robots")
  /\ UNCHANGED <<frontier, stop, queueShut, cache, fetched, reading, discovered, outputs, rulesSeen, requested>>

\* fetchRobotsTxt, without the lock: rules, or nothing if any part of it fails.
FetchRobots(t) ==
  /\ Go(t, "robots", "insert")
  /\ \E ok \in BOOLEAN :
       /\ fetched' = [fetched EXCEPT ![t] = ok]
       /\ rulesSeen' = IF ok THEN rulesSeen \cup {Origin(t)} ELSE rulesSeen
  /\ UNCHANGED <<frontier, stop, queueShut, cache, reading, discovered, outputs, requested>>

\* Under the lock: the first to insert decides, the rules of others are deleted.
InsertEntry(t) ==
  /\ Go(t, "insert", "rules")
  /\ cache' = [o \in DOMAIN cache \cup {Origin(t)} |->
                 IF o \in DOMAIN cache THEN cache[o] ELSE [robots |-> fetched[t], age |-> OldAge]]
  /\ fetched' = [fetched EXCEPT ![t] = FALSE]
  /\ UNCHANGED <<frontier, stop, queueShut, reading, discovered, outputs, rulesSeen, requested>>

\* Mutant: a forbidden URL is left without taskDone().
CheckRulesWithoutGuard(t) ==
  /\ Go(t, "rules", IF cache[Origin(t)].robots /\ ~Allowed[Url(t)] THEN "pop" ELSE "reserve")
  /\ reading' = [reading EXCEPT ![t] = 0]
  /\ UNCHANGED <<frontier, stop, queueShut, cache, fetched, discovered, outputs, rulesSeen, requested>>

\* The rules; then the clock, still without the lock.
CheckRules(t) ==
  /\ Go(t, "rules", IF cache[Origin(t)].robots /\ ~Allowed[Url(t)] THEN "taskDone" ELSE "reserve")
  /\ reading' = [reading EXCEPT ![t] = 0]
  /\ UNCHANGED <<frontier, stop, queueShut, cache, fetched, discovered, outputs, rulesSeen, requested>>

\* The delay of the rules, where some were found and if it is the longer one.
DelayNow(t) ==
  IF cache[Origin(t)].robots /\ DelayOf[Url(t)] > DefaultDelay THEN DelayOf[Url(t)] ELSE DefaultDelay

\* Under the lock.  With both times as ages, now < last + delayMs is this.
TooEarly(t) == cache[Origin(t)].age - reading[t] < DelayNow(t)

\* Mutant: the time of the access is not kept.
ReserveWithoutTime(t) ==
  /\ Go(t, "reserve", "fetch") /\ ~TooEarly(t)
  /\ reading' = [reading EXCEPT ![t] = 0]
  /\ requested' = [requested EXCEPT ![Origin(t)] = 0]
  /\ UNCHANGED <<frontier, stop, queueShut, cache, fetched, discovered, outputs, rulesSeen>>

Reserve(t) ==
  /\ Go(t, "reserve", "fetch") /\ ~TooEarly(t)
  /\ cache' = [cache EXCEPT ![Origin(t)].age = reading[t]]
  /\ reading' = [reading EXCEPT ![t] = 0]
  /\ requested' = [requested EXCEPT ![Origin(t)] = 0]
  /\ UNCHANGED <<frontier, stop, queueShut, fetched, discovered, outputs, rulesSeen>>

\* DELAYED: snoozeCurrent() puts the item back, and taskDone() is not called.
Delayed(t) ==
  /\ pc[t] = "reserve" /\ TooEarly(t)
  /\ pc' = [pc EXCEPT ![t] = "pop"]
  /\ reading' = [reading EXCEPT ![t] = 0]
  /\ Frontier!PutBack(t)
  /\ UNCHANGED <<stop, queueShut, cache, fetched, discovered, outputs, rulesSeen, requested>>

-----------------------------------------------------------------------------
(* The page *)

\* readURL and the parser: no page, one that is broken or in another language,
\* or a page to index.  A thread that finds shouldStop set leaves with taskDone().
FetchPage(t) ==
  /\ \/ ~stop /\ Go(t, "fetch", "index")
     \/ ~stop /\ Go(t, "fetch", "taskDone")
     \/ stop /\ Go(t, "fetch", "lastTaskDone")
  /\ UNCHANGED <<frontier, stop, queueShut, cache, fetched, reading, discovered, outputs, rulesSeen, requested>>

IndexPage(t) ==
  /\ Go(t, "index", "links")
  /\ indexed' = IF queueShut THEN indexed ELSE indexed \cup {Url(t)}
  /\ UNCHANGED <<frontier, stop, queueShut, cache, fetched, reading, discovered, bloom, batched, anchored,
                 rulesSeen, requested>>

\* Mutant: every link of this machine goes to the frontier.
SortLinksUnfiltered(t) ==
  LET links == LinksOf[Url(t)]
  IN /\ Go(t, "links", "push")
     /\ batched' = batched \cup (links \ Own)
     /\ anchored' = anchored \cup (links \cap Own)
     /\ discovered' = [discovered EXCEPT ![t] = links \cap Own]
     /\ bloom' = bloom \cup (links \cap Own)
     /\ UNCHANGED <<frontier, stop, queueShut, cache, fetched, reading, indexed, rulesSeen, requested>>

\* The loop over the links: to the batch of another machine, or to the anchor
\* table and, if the bloom filter has not seen them, to the frontier.
SortLinks(t) ==
  LET links == LinksOf[Url(t)]
  IN /\ Go(t, "links", "push")
     /\ batched' = batched \cup (links \ Own)
     /\ anchored' = anchored \cup (links \cap Own)
     /\ discovered' = [discovered EXCEPT ![t] = (links \cap Own) \ bloom]
     /\ bloom' = bloom \cup (links \cap Own)
     /\ UNCHANGED <<frontier, stop, queueShut, cache, fetched, reading, indexed, rulesSeen, requested>>

\* pushMany: a closed frontier takes nothing.
PushLinks(t) ==
  /\ Go(t, "push", "taskDone")
  /\ pool' = IF shut THEN pool ELSE pool \cup LinkItems(discovered[t])
  /\ discovered' = [discovered EXCEPT ![t] = {}]
  /\ UNCHANGED <<held, done, shut, stop, queueShut, cache, fetched, reading, outputs, rulesSeen, requested>>

TaskDone(t) ==
  /\ \/ Go(t, "taskDone", "pop")
     \/ Go(t, "lastTaskDone", "gone")
  /\ Frontier!Finish(t)
  /\ UNCHANGED <<stop, queueShut, cache, fetched, reading, discovered, outputs, rulesSeen, requested>>

-----------------------------------------------------------------------------
(* Signal handler and clock *)

\* The three things it does, in its order.
Signal ==
  /\ \/ ~stop /\ stop' = TRUE /\ UNCHANGED <<shut, queueShut>>
     \/ stop /\ ~shut /\ shut' = TRUE /\ UNCHANGED <<stop, queueShut>>
     \/ shut /\ ~queueShut /\ queueShut' = TRUE /\ UNCHANGED <<stop, shut>>
  /\ UNCHANGED <<pool, held, done, pc, cache, fetched, reading, discovered, outputs, rulesSeen, requested>>

Older(age) == IF age < OldAge THEN age + 1 ELSE OldAge

Tick ==
  /\ \A t \in Threads : pc[t] = "reserve" => reading[t] < MaxStall
  /\ cache' = [o \in DOMAIN cache |-> [cache[o] EXCEPT !.age = Older(@)]]
  /\ requested' = [o \in Origins |-> Older(requested[o])]
  /\ reading' = [t \in Threads |-> IF pc[t] = "reserve" THEN reading[t] + 1 ELSE 0]
  /\ UNCHANGED <<frontier, stop, queueShut, pc, fetched, discovered, outputs, rulesSeen>>

-----------------------------------------------------------------------------
Init ==
  /\ pool = SeedItems /\ held = [t \in Threads |-> NoItem] /\ done = {} /\ shut = FALSE
  /\ stop = FALSE /\ queueShut = FALSE
  /\ pc = [t \in Threads |-> "pop"]
  /\ cache = [o \in {} |-> [robots |-> FALSE, age |-> 0]]
  /\ fetched = [t \in Threads |-> FALSE] /\ reading = [t \in Threads |-> 0]
  /\ discovered = [t \in Threads |-> {}]
  /\ bloom = {} /\ batched = {} /\ anchored = {} /\ indexed = {}
  /\ rulesSeen = {} /\ requested = [o \in Origins |-> OldAge]

CrawlerWorker(t) ==
  \/ Pop(t) \/ Leave(t) \/ FindEntry(t) \/ FetchRobots(t) \/ InsertEntry(t) \/ CheckRules(t)
  \/ Reserve(t) \/ Delayed(t) \/ FetchPage(t) \/ IndexPage(t) \/ SortLinks(t) \/ PushLinks(t) \/ TaskDone(t)

Next == Tick \/ Signal \/ \E t \in Threads : CrawlerWorker(t)

Spec == Init /\ [][Next]_vars

\* Threads go on (every request has a time limit), and so does time.
Fairness == WF_vars(Tick) /\ \A t \in Threads : WF_vars(CrawlerWorker(t))
FairSpec == Spec /\ Fairness

-----------------------------------------------------------------------------
(* Properties *)

\* Type invariant; a thread at work has an item, an entry once it has the rules,
\* and links only until it has pushed them.
Stages == {"pop", "popped", "robots", "insert", "rules", "reserve", "fetch", "index", "links", "push",
           "taskDone", "lastTaskDone", "gone"}

Phase(t) ==
  /\ pc[t] = "pop" => held[t] = NoItem
  /\ pc[t] \notin {"pop", "gone"} => held[t] # NoItem
  /\ pc[t] \in {"rules", "reserve", "fetch"} => Origin(t) \in DOMAIN cache
  /\ pc[t] # "push" => discovered[t] = {}

TypeOK ==
  /\ pool \in SUBSET Items /\ done \in SUBSET Items /\ held \in [Threads -> Items \cup {NoItem}]
  /\ shut \in BOOLEAN /\ stop \in BOOLEAN /\ queueShut \in BOOLEAN
  /\ pc \in [Threads -> Stages]
  /\ DOMAIN cache \subseteq Origins /\ rulesSeen \subseteq Origins
  /\ cache \in [DOMAIN cache -> [robots : BOOLEAN, age : 0 .. OldAge]]
  /\ fetched \in [Threads -> BOOLEAN] /\ reading \in [Threads -> 0 .. MaxStall]
  /\ discovered \in [Threads -> SUBSET Own]
  /\ bloom \in SUBSET Own /\ anchored \in SUBSET Own /\ indexed \in SUBSET Own
  /\ batched \in SUBSET (Urls \ Own)
  /\ requested \in [Origins -> 0 .. OldAge]
  /\ \A t \in Threads : Phase(t)

\* Once the robots.txt of an origin was received, no page it forbids is
\* requested, although a thread whose own request failed may be the one that
\* fills the cache entry, for ever: it is the frontier's promise of one thread
\* per host that keeps such a thread away.
RulesObeyed ==
  [][\A t \in Threads : pc[t] = "reserve" /\ pc'[t] = "fetch" =>
       (Origin(t) \in rulesSeen => Allowed[Url(t)])]_vars

\* Requests to an origin are a delay apart, less the time a clock reading may
\* have been held before it was used.
RequestsSpaced ==
  [][\A t \in Threads : pc[t] = "reserve" /\ pc'[t] = "fetch" =>
       requested[Origin(t)] + MaxStall >= DelayNow(t)]_vars

\* What a page links to and its machine owns is crawled exactly once, and so is
\* each seed: no item is forgotten or in two places.  Each one is in the frontier,
\* in one thread's hand, about to be pushed by one thread, or done, until the
\* frontier is closed.
Discovered == UNION {discovered[t] : t \in Threads}

EveryUrlKept ==
  ~shut =>
    /\ SeedItems \cup LinkItems(bloom)
         = pool \cup Frontier!InHand \cup done \cup LinkItems(Discovered)
    /\ pool \cap Frontier!InHand = {} /\ (pool \cup Frontier!InHand) \cap done = {}
    /\ LinkItems(Discovered) \cap (pool \cup Frontier!InHand \cup done) = {}
    /\ \A t, u \in Threads : t # u =>
         discovered[t] \cap discovered[u] = {} /\ (held[t] = held[u] => held[t] = NoItem)

\* Everything in the frontier is worked off, delays and failures included,
\* unless the crawler is told to stop; then the threads end.
EverythingSettled == (<>[](pool = {} /\ Frontier!InHand = {})) \/ <>stop
ThreadsEnd == shut ~> \A t \in Threads : pc[t] = "gone"
Settles == EverythingSettled /\ ThreadsEnd
=============================================================================
