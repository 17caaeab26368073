----------------------------- MODULE Checkpoint -----------------------------
(***************************************************************************)
(* What a crawling machine keeps across a crash or a restart: the          *)
(* checkpoint file of src/src/crawler/checkpoint.cpp, which the checkpoint *)
(* thread writes while the crawlers work, and the chunk files the frontier *)
(* spills to (src/src/crawler/frontier.cpp).  The crawlers, the shutdown   *)
(* and the recovery are those of src/src/main_distributed.cpp.             *)
(*                                                                         *)
(* The frontier's layers in memory are one bag of URLs (module Frontier    *)
(* has them in detail).  The links of a page are any URLs.  A false        *)
(* positive of the bloom filter leaves a link out, which no step of the    *)
(* crawler is obliged to take anyway.                                      *)
(***************************************************************************)
EXTENDS Integers, FiniteSets, Sequences, Bags

CONSTANTS
  Urls, Seeds,     \* canonical URLs that pass the filters; the seed list
  Crawlers,        \* crawler threads
  NoUrl,           \* an empty hand
  Ownerships,      \* the sets of URLs SEARCH_PEERS may give to this machine
  MaxChunks,       \* bound: chunk files
  MaxRestarts,     \* bound: restarts
  MaxCopies        \* bound: copies of a URL in the frontier

ASSUME SeedsAssumption == Seeds \subseteq Urls
ASSUME CrawlersAssumption == IsFiniteSet(Crawlers)
ASSUME NoUrlAssumption == NoUrl \notin Urls
ASSUME OwnershipsAssumption == Ownerships \in SUBSET (SUBSET Urls)
ASSUME BoundsAssumption == {MaxChunks, MaxRestarts, MaxCopies} \subseteq Nat

VARIABLES
  owned,       \* the URLs that are this machine's (shouldOwnUrl)
  memory,      \* frontier: the bag of URLs queued in memory
  bloom,       \* URLs the bloom filter knows
  shouldStop,  \* set by the signal handler, which also closes the frontier
  at,          \* crawler -> where it is
  hand,        \* crawler -> the URL it works on
  found,       \* crawler -> discoveredLinks, new links not pushed yet
  inFlight,    \* frontier: pending - queued
  saver,       \* where Checkpoint::save is
  snapshot,    \* what it is about to write
  final,       \* main makes the last save
  chunks,      \* disk: the chunk files, oldest first
  tmp,         \* disk: checkpoint.dat.tmp, which nothing reads
  file,        \* disk: checkpoint.dat
  restarts,
  crawled,     \* history: URLs whose page was handled
  spilled      \* history: URLs that were ever in a chunk file

memoryVars == <<memory, bloom, shouldStop, at, hand, found, inFlight>>
saverVars == <<saver, snapshot, final, tmp>>
diskVars == <<chunks, file>>
history == <<crawled, spilled>>
vars == <<owned, memoryVars, saverVars, diskVars, restarts, history>>

InChunks == UNION {BagToSet(chunks[k]) : k \in DOMAIN chunks}

NoFile == [kind |-> "none"]
Torn == [kind |-> "torn"]

\* queued is a history: the URLs queued anywhere when the frontier was read.
Snapshot(f, b, q) ==
  [kind |-> "whole", frontier |-> f, bloom |-> b, queued |-> q]

NoSnapshot == Snapshot(EmptyBag, {}, {})

Up == saver # "down"

-----------------------------------------------------------------------------
(* The crawler threads *)

TakeOut(u) == memory' = memory (-) SetToBag({u})

\* pop(); a thread that finds shouldStop set leaves with the item in its hand
\* and never calls taskDone().
Pop(c, u) ==
  /\ at[c] = "idle" /\ BagIn(u, memory)
  /\ TakeOut(u)
  /\ inFlight' = inFlight + 1
  /\ IF shouldStop THEN at' = [at EXCEPT ![c] = "exited"] /\ UNCHANGED hand
     ELSE at' = [at EXCEPT ![c] = "fetch"] /\ hand' = [hand EXCEPT ![c] = u]
  /\ UNCHANGED <<owned, bloom, shouldStop, found, saverVars, diskVars, restarts, history>>

\* pop() returns nullopt: the frontier is closed and no host is ready.
PopNothing(c) ==
  /\ at[c] = "idle" /\ shouldStop
  /\ at' = [at EXCEPT ![c] = "exited"]
  /\ UNCHANGED <<owned, memory, bloom, shouldStop, hand, found, inFlight, saverVars,
                 diskVars, restarts, history>>

Finished(c, s) ==
  /\ at' = [at EXCEPT ![c] = s]
  /\ hand' = [hand EXCEPT ![c] = NoUrl]
  /\ inFlight' = inFlight - 1

Snoozed(c) == Finished(c, "idle")

\* robots.txt asks for a delay: the item goes back.
Snooze(c) ==
  /\ at[c] = "fetch"
  /\ memory' = memory (+) SetToBag({hand[c]})
  /\ Snoozed(c)
  /\ UNCHANGED <<owned, bloom, shouldStop, found, saverVars, diskVars, restarts, history>>

\* Disallowed, unreachable or unusable: there is no page.
NoPage(c) ==
  /\ at[c] = "fetch"
  /\ crawled' = crawled \cup {hand[c]}
  /\ Finished(c, "idle")
  /\ UNCHANGED <<owned, memory, bloom, shouldStop, found, saverVars, diskVars,
                 restarts, spilled>>

\* shouldStop is seen after the fetch: the page is given up.
GiveUp(c) ==
  /\ at[c] = "fetch" /\ shouldStop
  /\ Finished(c, "exited")
  /\ UNCHANGED <<owned, memory, bloom, shouldStop, found, saverVars, diskVars,
                 restarts, history>>

\* The page goes to the index queue and its links are looked at.
Parse(c) ==
  /\ at[c] = "fetch" /\ ~shouldStop
  /\ at' = [at EXCEPT ![c] = "links"]
  /\ crawled' = crawled \cup {hand[c]}
  /\ UNCHANGED <<owned, memory, bloom, shouldStop, hand, found, inFlight, saverVars,
                 diskVars, restarts, spilled>>

\* A link of this machine's is new to the bloom filter (checkAndInsert).
Discover(c, u) ==
  /\ at[c] = "links" /\ u \in owned \ bloom
  /\ bloom' = bloom \cup {u}
  /\ found' = [found EXCEPT ![c] = @ \cup {u}]
  /\ UNCHANGED <<owned, memory, shouldStop, at, hand, inFlight, saverVars, diskVars,
                 restarts, history>>

\* Mutant: the new links are forgotten.
PushFewer(c) == memory

\* pushMany(); a closed frontier takes nothing.
PushMany(c) == IF shouldStop THEN memory ELSE memory (+) SetToBag(found[c])

\* The new links are pushed and the page is done.
PushLinks(c) ==
  /\ at[c] = "links"
  /\ memory' = PushMany(c)
  /\ found' = [found EXCEPT ![c] = {}]
  /\ Finished(c, "idle")
  /\ UNCHANGED <<owned, bloom, shouldStop, saverVars, diskVars, restarts, history>>

-----------------------------------------------------------------------------
(* Spilling *)

\* doBackUp(): some of the items in memory are written to a new chunk file.
Spill(bag) ==
  /\ IsABag(bag) /\ bag # EmptyBag /\ bag \sqsubseteq memory
  /\ Up /\ ~shouldStop /\ Len(chunks) < MaxChunks
  /\ chunks' = Append(chunks, bag)
  /\ memory' = memory (-) bag
  /\ spilled' = spilled \cup BagToSet(bag)
  /\ UNCHANGED <<owned, bloom, shouldStop, at, hand, found, inFlight, saverVars, file,
                 restarts, crawled>>

NewestChunk == chunks[Len(chunks)]

\* loadDiskBackedChunkFromDisk(), in a pop(): the newest file is read and removed.
Load ==
  /\ chunks # <<>> /\ \E c \in Crawlers : at[c] = "idle"
  /\ memory' = memory (+) NewestChunk
  /\ \A u \in BagToSet(memory') : memory'[u] <= MaxCopies
  /\ chunks' = SubSeq(chunks, 1, Len(chunks) - 1)
  /\ UNCHANGED <<owned, bloom, shouldStop, at, hand, found, inFlight, saverVars, file,
                 restarts, history>>

-----------------------------------------------------------------------------
(* Saving *)

AllExited == \A c \in Crawlers : at[c] = "exited"

\* The checkpoint thread, or at the end main.
MaySave == ~shouldStop \/ (AllExited /\ ~final)

ReadFrontier ==
  /\ saver = "idle" /\ MaySave
  /\ saver' = "frontier"
  /\ snapshot' = Snapshot(memory, {}, BagToSet(memory) \cup InChunks)
  /\ final' = shouldStop
  /\ UNCHANGED <<owned, memoryVars, tmp, diskVars, restarts, history>>

\* createSnapshot() gives up: the snapshot is empty while work is in flight.
SkipSave ==
  /\ saver = "frontier" /\ snapshot.frontier = EmptyBag /\ inFlight > 0
  /\ saver' = "idle" /\ snapshot' = NoSnapshot
  /\ UNCHANGED <<owned, memoryVars, final, tmp, diskVars, restarts, history>>

CheckSnapshot ==
  saver = "frontier" /\ (snapshot.frontier # EmptyBag \/ inFlight = 0)

AcceptSnapshot ==
  /\ CheckSnapshot
  /\ saver' = "checked"
  /\ UNCHANGED <<owned, memoryVars, snapshot, final, tmp, diskVars, restarts, history>>

ReadBloom ==
  /\ saver = "checked"
  /\ snapshot' = [snapshot EXCEPT !.bloom = bloom]
  /\ saver' = "write"
  /\ UNCHANGED <<owned, memoryVars, final, tmp, diskVars, restarts, history>>

\* Mutant: checkpoint.dat itself is opened for writing.
OpenInPlace == file' = Torn /\ tmp' = tmp

OpenTmp == tmp' = "torn" /\ UNCHANGED file

OpenFile ==
  /\ saver = "write"
  /\ saver' = "writing"
  /\ OpenTmp
  /\ UNCHANGED <<owned, memoryVars, snapshot, final, chunks, restarts, history>>

\* Everything is written and synced, the file closed.
CloseFile ==
  /\ saver = "writing"
  /\ saver' = "rename"
  /\ tmp' = "whole"
  /\ UNCHANGED <<owned, memoryVars, snapshot, final, diskVars, restarts, history>>

Rename ==
  /\ saver = "rename"
  /\ file' = snapshot /\ tmp' = "none"
  /\ saver' = "idle" /\ snapshot' = NoSnapshot
  /\ UNCHANGED <<owned, memoryVars, final, chunks, restarts, history>>

-----------------------------------------------------------------------------
(* Stopping and starting *)

Signal ==
  /\ Up /\ ~shouldStop
  /\ shouldStop' = TRUE
  /\ UNCHANGED <<owned, memory, bloom, at, hand, found, inFlight, saverVars, diskVars,
                 restarts, history>>

Down ==
  /\ saver' = "down" /\ snapshot' = NoSnapshot /\ final' = FALSE
  /\ memory' = EmptyBag /\ bloom' = {} /\ shouldStop' = FALSE
  /\ at' = [c \in Crawlers |-> "exited"]
  /\ hand' = [c \in Crawlers |-> NoUrl] /\ found' = [c \in Crawlers |-> {}]
  /\ inFlight' = 0

\* main returns, after the last save or after having skipped it.
Return ==
  /\ final /\ saver = "idle"
  /\ Down
  /\ UNCHANGED <<owned, tmp, diskVars, restarts, history>>

\* The process dies; files stay as they are.
Crash ==
  /\ Up /\ restarts < MaxRestarts
  /\ Down
  /\ UNCHANGED <<owned, tmp, diskVars, restarts, history>>

\* Mutant: recovered items are taken as they are.
RecoveredUnfiltered(own) == IF file.kind = "whole" THEN file.frontier ELSE EmptyBag

\* Mutant: recovered items pass the recovered bloom filter like new links.
RecoveredThroughBloom(own) ==
  IF file.kind = "whole"
  THEN [u \in (BagToSet(file.frontier) \cap own) \ file.bloom |-> file.frontier[u]]
  ELSE EmptyBag

\* The items of the checkpoint that are this machine's.
Recovered(own) ==
  IF file.kind = "whole"
  THEN [u \in BagToSet(file.frontier) \cap own |-> file.frontier[u]]
  ELSE EmptyBag

\* A start of the program, the first one included: chunk files are counted in,
\* and without a recovered item the crawl starts from the seed list.
Boot(own) ==
  /\ owned' = own
  /\ memory' = IF Recovered(own) # EmptyBag THEN Recovered(own) ELSE SetToBag(Seeds \cap own)
  /\ bloom' = IF file.kind = "whole" THEN file.bloom ELSE {}
  /\ at' = [c \in Crawlers |-> "idle"]
  /\ saver' = "idle"

Restart(own) ==
  /\ saver = "down" /\ restarts < MaxRestarts
  /\ restarts' = restarts + 1
  /\ Boot(own)
  /\ UNCHANGED <<shouldStop, hand, found, inFlight, snapshot, final, tmp, diskVars, history>>

-----------------------------------------------------------------------------
Init ==
  /\ owned \in Ownerships
  /\ memory = SetToBag(Seeds \cap owned) /\ bloom = {} /\ shouldStop = FALSE
  /\ at = [c \in Crawlers |-> "idle"]
  /\ hand = [c \in Crawlers |-> NoUrl] /\ found = [c \in Crawlers |-> {}]
  /\ inFlight = 0
  /\ saver = "idle" /\ snapshot = NoSnapshot /\ final = FALSE
  /\ chunks = <<>> /\ tmp = "none" /\ file = NoFile
  /\ restarts = 0 /\ crawled = {} /\ spilled = {}

Crawl(c) ==
  \/ \E u \in Urls : Pop(c, u) \/ Discover(c, u)
  \/ PopNothing(c) \/ Snooze(c) \/ NoPage(c) \/ GiveUp(c) \/ Parse(c) \/ PushLinks(c)

Save ==
  \/ ReadFrontier \/ SkipSave \/ AcceptSnapshot \/ ReadBloom \/ OpenFile \/ CloseFile
  \/ Rename

Next ==
  \/ \E c \in Crawlers : Crawl(c)
  \/ \E bag \in SubBag(memory) : Spill(bag)
  \/ Load \/ Save \/ Signal \/ Return \/ Crash
  \/ \E own \in Ownerships : Restart(own)

Spec == Init /\ [][Next]_vars

-----------------------------------------------------------------------------
(* Properties *)

IsUrlBag(bag) == IsABag(bag) /\ BagToSet(bag) \subseteq Urls

IsSnapshot(s) ==
  /\ s = Snapshot(s.frontier, s.bloom, s.queued) /\ IsUrlBag(s.frontier)
  /\ s.bloom \subseteq Urls /\ s.queued \subseteq Urls

\* Type invariant: frontier, crawlers, saver and disk; a crawler holds a URL
\* exactly while it works on one, and pending - queued covers the hands.
TypeOK ==
  /\ owned \in SUBSET Urls /\ IsUrlBag(memory) /\ bloom \in SUBSET Urls
  /\ {shouldStop, final} \subseteq BOOLEAN
  /\ at \in [Crawlers -> {"idle", "fetch", "links", "exited"}]
  /\ hand \in [Crawlers -> Urls \cup {NoUrl}]
  /\ \A c \in Crawlers : hand[c] # NoUrl <=> at[c] \in {"fetch", "links"}
  /\ found \in [Crawlers -> SUBSET Urls]
  /\ inFlight \in Nat
  /\ saver \in {"idle", "frontier", "checked", "write", "writing", "rename", "down"}
  /\ IsSnapshot(snapshot)
  /\ \A k \in 1..Len(chunks) : IsUrlBag(chunks[k])
  /\ tmp \in {"none", "torn", "whole"} /\ (file \in {NoFile, Torn} \/ IsSnapshot(file))
  /\ restarts \in 0..MaxRestarts
  /\ crawled \in SUBSET Urls /\ spilled \in SUBSET Urls

Whole == file.kind = "whole"

\* Whenever the process dies, checkpoint.dat is absent or a whole snapshot, and
\* the bloom filter in it knows every queued URL in it, except seeds and what
\* came back from a chunk file: the frontier is read before the bloom filter,
\* and a link is in the filter before it is in the frontier.
CheckpointUsable ==
  /\ file.kind \in {"none", "whole"}
  /\ Whole => BagToSet(file.frontier) \subseteq file.bloom \cup Seeds \cup spilled

\* As long as nobody stops the crawl and nothing was recovered, no URL the
\* bloom filter knows is forgotten: it is crawled, queued, or in some hand.
NothingForgotten ==
  (Up /\ ~shouldStop /\ restarts = 0) =>
    bloom \subseteq crawled \cup BagToSet(memory) \cup InChunks
                      \cup UNION {found[c] \cup {hand[c]} : c \in Crawlers}

\* So it is but for what a chunk file of an earlier run brings.
OnlyOwnedUnlessSpilled == Up => BagToSet(memory) \subseteq owned \cup spilled

\* What was queued when the snapshot was taken, in memory or in a chunk file, is
\* after a restart queued or crawled, unless it is another machine's now.  A
\* chunk file that was there may have been read, and removed, before the crash:
\* its URLs are the exception.
RecoveryComplete ==
  [][\A own \in Ownerships :
       (Restart(own) /\ Whole) =>
         file.queued \cap own \subseteq
           BagToSet(memory)' \cup InChunks' \cup crawled \cup spilled]_vars

=============================================================================
