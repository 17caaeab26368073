-------------------------- MODULE CheckpointProofs --------------------------
(***************************************************************************)
(* Theorems of Checkpoint, for every set of URLs, seeds and crawlers and   *)
(* every change of ownership: the type invariant, that the file on disk is *)
(* always usable, that the crawl forgets nothing, that only owned URLs are *)
(* queued, and that a restart finds what the snapshot was taken from.      *)
(***************************************************************************)
EXTENDS Checkpoint, FiniteSetTheorems, SequenceTheorems, TLAPS

-----------------------------------------------------------------------------
(* The inductive invariant *)

\* Bags of URLs, as a set.
UrlBag == UNION {[D -> Nat \ {0}] : D \in SUBSET Urls}

Busy == {c \in Crawlers : at[c] \in {"fetch", "links"}}

\* pending - queued covers the crawlers at work; a crawler that left with an
\* item in its hand is counted for ever.
Counted == inFlight \in Nat /\ inFlight >= Cardinality(Busy)

\* What the bloom filter knows, and what gets past it.
Known == bloom \cup Seeds \cup spilled

\* Whatever is queued, in a hand or found is known; chunk files hold spilled
\* URLs; and a snapshot holds what was known when the frontier was read, from
\* the moment the filter is read what the filter in the snapshot knows.
KnownInv ==
  /\ BagToSet(memory) \subseteq Known
  /\ \A c \in Crawlers : found[c] \subseteq bloom /\ hand[c] \in Known \cup {NoUrl}
  /\ InChunks \subseteq spilled
  /\ BagToSet(snapshot.frontier) \subseteq
       (IF saver \in {"write", "writing", "rename"} THEN snapshot.bloom ELSE bloom)
         \cup Seeds \cup spilled
  /\ snapshot.queued \subseteq BagToSet(snapshot.frontier) \cup spilled

FileInv ==
  /\ CheckpointUsable
  /\ Whole => file.queued \subseteq BagToSet(file.frontier) \cup spilled

\* What dies with the process.
DownInv ==
  /\ saver \in {"idle", "down"} => snapshot = NoSnapshot
  /\ saver = "down" =>
       /\ memory = EmptyBag /\ bloom = {} /\ at = [c \in Crawlers |-> "exited"]
       /\ \A c \in Crawlers : hand[c] = NoUrl /\ found[c] = {}

OwnedInv ==
  /\ BagToSet(memory) \subseteq owned \cup spilled
  /\ \A c \in Crawlers :
       found[c] \subseteq owned /\ hand[c] \in owned \cup spilled \cup {NoUrl}

\* A page whose links are looked at is handled.
HandledInv == \A c \in Crawlers : at[c] = "links" => hand[c] \in crawled

Typed == TypeOK /\ chunks \in Seq(UrlBag) /\ Counted

Inv ==
  /\ Typed /\ KnownInv /\ FileInv /\ DownInv /\ OwnedInv /\ HandledInv
  /\ NothingForgotten

-----------------------------------------------------------------------------
(* Bags of URLs *)

LEMMA UrlBags ==
  ASSUME NEW b
  PROVE  IsUrlBag(b) <=> b \in UrlBag
BY DEF IsUrlBag, IsABag, BagToSet, UrlBag

\* One copy of each URL of a set.
LEMMA BagOfSet ==
  ASSUME NEW S \in SUBSET Urls
  PROVE  SetToBag(S) \in UrlBag /\ BagToSet(SetToBag(S)) = S
BY DEF SetToBag, BagToSet, UrlBag

LEMMA EmptyIs == EmptyBag \in UrlBag /\ BagToSet(EmptyBag) = {}
BY BagOfSet DEF EmptyBag

\* A bag without URLs is empty.
LEMMA NothingIn ==
  ASSUME NEW b \in UrlBag
  PROVE  BagToSet(b) = {} <=> b = EmptyBag
BY DEF BagToSet, UrlBag, EmptyBag, SetToBag

\* A sum has the URLs of both bags.
LEMMA BagSum ==
  ASSUME NEW a \in UrlBag, NEW b \in UrlBag
  PROVE  /\ a (+) b \in UrlBag
         /\ BagToSet(a (+) b) = BagToSet(a) \cup BagToSet(b)
<1>1. /\ DOMAIN a \subseteq Urls /\ DOMAIN b \subseteq Urls
      /\ \A u \in DOMAIN a : a[u] \in Nat \ {0}
      /\ \A u \in DOMAIN b : b[u] \in Nat \ {0}
  BY DEF UrlBag
<1>2. a (+) b = [u \in DOMAIN a \cup DOMAIN b |->
                   (IF u \in DOMAIN a THEN a[u] ELSE 0) + (IF u \in DOMAIN b THEN b[u] ELSE 0)]
  BY DEF (+)
<1>3. ASSUME NEW u \in DOMAIN a \cup DOMAIN b
      PROVE  (IF u \in DOMAIN a THEN a[u] ELSE 0) + (IF u \in DOMAIN b THEN b[u] ELSE 0)
               \in Nat \ {0}
  BY <1>1
<1>4. a (+) b \in [DOMAIN a \cup DOMAIN b -> Nat \ {0}]
  BY <1>2, <1>3
<1> QED
  BY <1>1, <1>4 DEF UrlBag, BagToSet

\* What is left of a bag, with what is taken out, has the URLs of the bag.
LEMMA BagLess ==
  ASSUME NEW a \in UrlBag, NEW b \in UrlBag
  PROVE  /\ a (-) b \in UrlBag
         /\ BagToSet(a (-) b) \subseteq BagToSet(a)
         /\ BagToSet(a) \subseteq BagToSet(a (-) b) \cup BagToSet(b)
<1> DEFINE d == [u \in DOMAIN a |-> IF u \in DOMAIN b THEN a[u] - b[u] ELSE a[u]]
           D == {u \in DOMAIN d : d[u] > 0}
<1>1. /\ DOMAIN a \subseteq Urls /\ DOMAIN b \subseteq Urls
      /\ \A u \in DOMAIN a : a[u] \in Nat \ {0}
      /\ \A u \in DOMAIN b : b[u] \in Nat \ {0}
  BY DEF UrlBag
<1>2. a (-) b = [u \in D |-> d[u]]
  BY DEF (-)
<1>3. DOMAIN d = DOMAIN a /\ \A u \in DOMAIN a : d[u] \in Int /\ (u \notin DOMAIN b => d[u] = a[u])
  BY <1>1
<1> HIDE DEF d
<1>4. D \subseteq DOMAIN a /\ DOMAIN a \subseteq D \cup DOMAIN b
  BY <1>1, <1>3
<1>5. [u \in D |-> d[u]] \in [D -> Nat \ {0}]
  BY <1>3
<1> HIDE DEF D
<1>6. a (-) b \in [D -> Nat \ {0}] /\ D \in SUBSET Urls
  BY <1>1, <1>2, <1>4, <1>5
<1> QED
  BY <1>4, <1>6 DEF UrlBag, BagToSet

\* A part of a bag of URLs is one.
LEMMA BagPart ==
  ASSUME NEW a \in UrlBag, NEW b, IsABag(b), b \sqsubseteq a
  PROVE  b \in UrlBag /\ BagToSet(b) \subseteq BagToSet(a)
BY DEF IsABag, \sqsubseteq, UrlBag, BagToSet

-----------------------------------------------------------------------------
(* What the steps make of the frontier and the chunk files, as sets of URLs *)

LEMMA BagsTyped ==
  ASSUME Typed
  PROVE  /\ memory \in UrlBag /\ snapshot.frontier \in UrlBag
         /\ file.kind = "whole" => file.frontier \in UrlBag
         /\ \A k \in 1..Len(chunks) : chunks[k] \in UrlBag
<1>1. snapshot.frontier \in UrlBag
  BY UrlBags DEF Typed, TypeOK, IsSnapshot
<1>2. file.kind = "whole" => file.frontier \in UrlBag
  <2>1. NoFile.kind # "whole" /\ Torn.kind # "whole"
    BY DEF NoFile, Torn
  <2> QED
    BY <2>1, UrlBags DEF Typed, TypeOK, IsSnapshot
<1> QED
  BY <1>1, <1>2, UrlBags DEF Typed, TypeOK

\* A crawler takes a URL out of memory.
LEMMA PopEffect ==
  ASSUME Typed, NEW c \in Crawlers, NEW u \in Urls, Pop(c, u)
  PROVE  /\ memory' \in UrlBag /\ u \in BagToSet(memory)
         /\ BagToSet(memory') \subseteq BagToSet(memory)
         /\ BagToSet(memory) \subseteq BagToSet(memory') \cup {u}
<1>1. SetToBag({u}) \in UrlBag /\ BagToSet(SetToBag({u})) = {u}
  BY BagOfSet
<1>2. memory' = memory (-) SetToBag({u}) /\ u \in BagToSet(memory)
  BY DEF Pop, TakeOut, BagIn
<1> QED
  BY <1>1, <1>2, BagsTyped, BagLess

\* It puts its URL back.
LEMMA SnoozeEffect ==
  ASSUME Typed, NEW c \in Crawlers, Snooze(c)
  PROVE  /\ memory' \in UrlBag /\ hand[c] \in Urls
         /\ BagToSet(memory') = BagToSet(memory) \cup {hand[c]}
<1>1. hand[c] \in Urls
  BY DEF Snooze, Typed, TypeOK
<1>2. SetToBag({hand[c]}) \in UrlBag /\ BagToSet(SetToBag({hand[c]})) = {hand[c]}
  BY <1>1, BagOfSet
<1>3. memory' = memory (+) SetToBag({hand[c]}) /\ memory \in UrlBag
  BY BagsTyped DEF Snooze
<1>4. /\ memory (+) SetToBag({hand[c]}) \in UrlBag
      /\ BagToSet(memory (+) SetToBag({hand[c]})) = BagToSet(memory) \cup {hand[c]}
  BY <1>2, <1>3, BagSum
<1> QED
  BY <1>1, <1>3, <1>4

\* It pushes the links it found.
LEMMA PushEffect ==
  ASSUME Typed, NEW c \in Crawlers, PushLinks(c)
  PROVE  /\ memory' \in UrlBag /\ found[c] \subseteq Urls
         /\ BagToSet(memory') = IF shouldStop THEN BagToSet(memory)
                                ELSE BagToSet(memory) \cup found[c]
<1>1. found[c] \in SUBSET Urls
  BY DEF Typed, TypeOK
<1>2. SetToBag(found[c]) \in UrlBag /\ BagToSet(SetToBag(found[c])) = found[c]
  BY <1>1, BagOfSet
<1>3. memory' = IF shouldStop THEN memory ELSE memory (+) SetToBag(found[c])
  BY DEF PushLinks, PushMany
<1>4. memory \in UrlBag
  BY BagsTyped
<1>5. /\ memory (+) SetToBag(found[c]) \in UrlBag
      /\ BagToSet(memory (+) SetToBag(found[c])) = BagToSet(memory) \cup found[c]
  BY <1>2, <1>4, BagSum
<1> QED
  BY <1>1, <1>3, <1>4, <1>5

\* Items go to a new chunk file.
LEMMA SpillEffect ==
  ASSUME Typed, NEW bag, Spill(bag)
  PROVE  /\ memory' \in UrlBag /\ chunks' \in Seq(UrlBag) /\ bag \in UrlBag
         /\ BagToSet(bag) \subseteq BagToSet(memory)
         /\ BagToSet(memory') \subseteq BagToSet(memory)
         /\ BagToSet(memory) \subseteq BagToSet(memory') \cup BagToSet(bag)
         /\ InChunks' = InChunks \cup BagToSet(bag)
         /\ spilled' = spilled \cup BagToSet(bag)
<1>1. bag \in UrlBag /\ BagToSet(bag) \subseteq BagToSet(memory)
  BY BagsTyped, BagPart DEF Spill
<1>2. memory' = memory (-) bag /\ chunks' = Append(chunks, bag)
  BY DEF Spill
<1>3. /\ chunks \in Seq(UrlBag) /\ Len(chunks) \in Nat
      /\ DOMAIN chunks = 1..Len(chunks)
  BY DEF Typed
<1>4. /\ chunks' \in Seq(UrlBag) /\ DOMAIN chunks' = 1..(Len(chunks) + 1)
      /\ \A k \in 1..Len(chunks) : chunks'[k] = chunks[k]
      /\ chunks'[Len(chunks) + 1] = bag
  BY <1>1, <1>2, <1>3
<1>5. InChunks' = InChunks \cup BagToSet(bag)
  BY <1>3, <1>4 DEF InChunks
<1> QED
  BY <1>1, <1>2, <1>4, <1>5, BagsTyped, BagLess DEF Spill

\* The newest chunk file comes back.
LEMMA LoadEffect ==
  ASSUME Typed, Load
  PROVE  /\ memory' \in UrlBag /\ chunks' \in Seq(UrlBag)
         /\ InChunks' \subseteq InChunks
         /\ BagToSet(memory) \subseteq BagToSet(memory')
         /\ BagToSet(memory') \subseteq BagToSet(memory) \cup InChunks
         /\ InChunks \subseteq InChunks' \cup BagToSet(memory')
<1>1. /\ chunks \in Seq(UrlBag) /\ Len(chunks) \in Nat \ {0}
      /\ DOMAIN chunks = 1..Len(chunks)
  BY DEF Typed, Load
<1>2. NewestChunk \in UrlBag /\ NewestChunk = chunks[Len(chunks)]
  BY <1>1, BagsTyped DEF NewestChunk
<1>3. /\ memory' \in UrlBag
      /\ BagToSet(memory') = BagToSet(memory) \cup BagToSet(NewestChunk)
  BY <1>2, BagsTyped, BagSum DEF Load
<1>4. /\ chunks' \in Seq(UrlBag) /\ DOMAIN chunks' = 1..(Len(chunks) - 1)
      /\ \A k \in 1..(Len(chunks) - 1) : chunks'[k] = chunks[k]
  BY <1>1 DEF Load
<1>5. InChunks' \subseteq InChunks /\ BagToSet(NewestChunk) \subseteq InChunks
  BY <1>1, <1>2, <1>4 DEF InChunks
<1>6. InChunks \subseteq InChunks' \cup BagToSet(NewestChunk)
  <2>1. ASSUME NEW k \in 1..Len(chunks)
        PROVE  BagToSet(chunks[k]) \subseteq InChunks' \cup BagToSet(NewestChunk)
    <3>1. CASE k = Len(chunks)
      BY <1>2, <3>1
    <3>2. CASE k # Len(chunks)
      <4> DEFINE n == Len(chunks)
      <4>1. n \in Nat /\ k \in 1..n /\ k # n
        BY <1>1, <3>2
      <4> HIDE DEF n
      <4>2. k \in 1..(n - 1)
        BY <4>1
      <4>3. k \in 1..(Len(chunks) - 1)
        BY <4>2 DEF n
      <4>4. k \in DOMAIN chunks' /\ chunks'[k] = chunks[k]
        BY <1>4, <4>3
      <4>5. BagToSet(chunks'[k]) \subseteq UNION {BagToSet(chunks'[j]) : j \in DOMAIN chunks'}
        BY <4>4
      <4> QED
        BY <4>4, <4>5 DEF InChunks
    <3> QED
      BY <3>1, <3>2
  <2> QED
    BY <1>1, <2>1 DEF InChunks
<1> QED
  BY <1>3, <1>4, <1>5, <1>6

\* What a restart queues: what the checkpoint has of this machine's, or the
\* seeds that are.
LEMMA RecoveredIs ==
  ASSUME Typed, NEW own \in SUBSET Urls
  PROVE  /\ Recovered(own) \in UrlBag
         /\ BagToSet(Recovered(own)) = IF Whole THEN BagToSet(file.frontier) \cap own ELSE {}
<1>1. CASE Whole
  <2> DEFINE f == file.frontier
             D == DOMAIN f \cap own
  <2>1. f \in UrlBag /\ Recovered(own) = [u \in D |-> f[u]]
    BY <1>1, BagsTyped DEF Whole, Recovered, BagToSet
  <2> HIDE DEF f
  <2>2. D \in SUBSET Urls /\ \A u \in D : f[u] \in Nat \ {0}
    BY <2>1 DEF UrlBag
  <2>3. [u \in D |-> f[u]] \in [D -> Nat \ {0}]
    BY <2>2
  <2>4. [u \in D |-> f[u]] \in UrlBag
    BY <2>2, <2>3 DEF UrlBag
  <2> QED
    BY <1>1, <2>1, <2>4 DEF BagToSet, f
<1>2. CASE ~Whole
  BY <1>2, EmptyIs DEF Whole, Recovered
<1> QED
  BY <1>1, <1>2

LEMMA BootEffect ==
  ASSUME Typed, NEW own \in Ownerships, Restart(own)
  PROVE  /\ memory' \in UrlBag /\ own \in SUBSET Urls
         /\ BagToSet(memory') \subseteq own
         /\ BagToSet(memory') \subseteq Seeds \cup (IF Whole THEN BagToSet(file.frontier) ELSE {})
         /\ Whole => BagToSet(file.frontier) \cap own \subseteq BagToSet(memory')
<1>1. own \in SUBSET Urls /\ Seeds \cap own \in SUBSET Urls
  BY OwnershipsAssumption, SeedsAssumption
<1>2. /\ Recovered(own) \in UrlBag
      /\ BagToSet(Recovered(own)) = IF Whole THEN BagToSet(file.frontier) \cap own ELSE {}
  BY <1>1, RecoveredIs
<1>3. /\ SetToBag(Seeds \cap own) \in UrlBag
      /\ BagToSet(SetToBag(Seeds \cap own)) = Seeds \cap own
  BY <1>1, BagOfSet
<1>4. memory' = IF Recovered(own) # EmptyBag THEN Recovered(own) ELSE SetToBag(Seeds \cap own)
  BY DEF Restart, Boot
<1>5. CASE Recovered(own) # EmptyBag
  BY <1>1, <1>2, <1>4, <1>5
<1>6. CASE Recovered(own) = EmptyBag
  <2>1. BagToSet(Recovered(own)) = {}
    BY <1>6, EmptyIs
  <2> QED
    BY <1>1, <1>2, <1>3, <1>4, <1>6, <2>1
<1> QED
  BY <1>5, <1>6

-----------------------------------------------------------------------------
(* The type invariant *)

LEMMA BusyFinite == IsFiniteSet(Busy)
<1>1. Busy \subseteq Crawlers
  BY DEF Busy
<1> QED
  BY <1>1, CrawlersAssumption, FS_Subset

\* The count goes up and down with the crawlers at work.
LEMMA CountSame ==
  ASSUME Counted, Busy' \subseteq Busy, inFlight' = inFlight
  PROVE  Counted'
<1>1. Cardinality(Busy') \in Nat /\ Cardinality(Busy) \in Nat
      /\ Cardinality(Busy') <= Cardinality(Busy)
  BY BusyFinite, FS_Subset, FS_CardinalityType
<1> QED
  BY <1>1 DEF Counted

LEMMA CountUp ==
  ASSUME Counted, NEW c \in Crawlers, Busy' \subseteq Busy \cup {c}, inFlight' = inFlight + 1
  PROVE  Counted'
<1>1. /\ IsFiniteSet(Busy \cup {c}) /\ Cardinality(Busy) \in Nat
      /\ Cardinality(Busy \cup {c}) <= Cardinality(Busy) + 1
  <2>1. Cardinality(Busy) \in Nat
    BY BusyFinite, FS_CardinalityType
  <2>2. /\ IsFiniteSet(Busy \cup {c})
        /\ Cardinality(Busy \cup {c}) =
             IF c \in Busy THEN Cardinality(Busy) ELSE Cardinality(Busy) + 1
    BY BusyFinite, FS_AddElement
  <2> QED
    BY <2>1, <2>2
<1>2. /\ Cardinality(Busy') \in Nat
      /\ Cardinality(Busy') <= Cardinality(Busy \cup {c})
  BY <1>1, FS_Subset, FS_CardinalityType
<1>3. Cardinality(Busy \cup {c}) \in Nat
  BY <1>1, FS_CardinalityType
<1> QED
  BY <1>1, <1>2, <1>3 DEF Counted

LEMMA CountDown ==
  ASSUME Counted, NEW c \in Busy, Busy' \subseteq Busy \ {c}, inFlight' = inFlight - 1
  PROVE  Counted'
<1>1. /\ IsFiniteSet(Busy \ {c}) /\ Cardinality(Busy) \in Nat
      /\ Cardinality(Busy \ {c}) = Cardinality(Busy) - 1
  BY BusyFinite, FS_RemoveElement, FS_CardinalityType
<1>2. /\ Cardinality(Busy') \in Nat
      /\ Cardinality(Busy') <= Cardinality(Busy \ {c})
  BY <1>1, FS_Subset, FS_CardinalityType
<1> QED
  BY <1>1, <1>2 DEF Counted

\* An item leaves the hand of a crawler that worked on it.
LEMMA CountFinished ==
  ASSUME Typed, NEW c \in Crawlers, at[c] \in {"fetch", "links"},
         NEW s \in {"idle", "exited"}, Finished(c, s)
  PROVE  Counted'
<1>1. c \in Busy
  BY DEF Busy
<1>2. Busy' \subseteq Busy \ {c} /\ inFlight' = inFlight - 1
  BY DEF Finished, Busy, Typed, TypeOK
<1> QED
  BY <1>1, <1>2, CountDown DEF Typed

LEMMA TypeCrawl ==
  ASSUME Typed, NEW c \in Crawlers, Crawl(c)
  PROVE  Typed'
<1> USE NoUrlAssumption DEF Typed, saverVars, diskVars, history
<1>0. Counted => inFlight \in Nat
  BY DEF Counted
<1>1. ASSUME NEW u \in Urls, Pop(c, u)
      PROVE  Typed'
  <2>1. IsUrlBag(memory')
    BY <1>1, PopEffect, UrlBags
  <2>2. Busy' \subseteq Busy \cup {c} /\ inFlight' = inFlight + 1
    BY <1>1 DEF Pop, Busy, TypeOK
  <2>3. Counted'
    BY <2>2, CountUp
  <2> QED
    BY <1>1, <2>1, <2>3 DEF Pop, TypeOK, Counted
<1>2. ASSUME NEW u \in Urls, Discover(c, u)
      PROVE  Typed'
  <2>1. Counted'
    BY <1>2, CountSame DEF Discover, Busy
  <2> QED
    BY <1>2, <2>1 DEF Discover, TypeOK
<1>3. CASE PopNothing(c)
  <2>1. Busy' \subseteq Busy
    BY <1>3 DEF PopNothing, Busy, TypeOK
  <2>2. Counted'
    BY <1>3, <2>1, CountSame DEF PopNothing
  <2> QED
    BY <1>3, <2>2 DEF PopNothing, TypeOK
<1>4. CASE Snooze(c)
  <2>1. IsUrlBag(memory')
    BY <1>4, SnoozeEffect, UrlBags
  <2>2. Counted'
    BY <1>4, CountFinished DEF Snooze, Snoozed
  <2> QED
    BY <1>4, <2>1, <2>2 DEF Snooze, Snoozed, Finished, TypeOK, Counted
<1>5. CASE NoPage(c)
  <2>1. Counted'
    BY <1>5, CountFinished DEF NoPage
  <2> QED
    BY <1>5, <2>1 DEF NoPage, Finished, TypeOK, Counted
<1>6. CASE GiveUp(c)
  <2>1. Counted'
    BY <1>6, CountFinished DEF GiveUp
  <2> QED
    BY <1>6, <2>1 DEF GiveUp, Finished, TypeOK, Counted
<1>7. CASE Parse(c)
  <2>1. Busy' \subseteq Busy
    BY <1>7 DEF Parse, Busy, TypeOK
  <2>2. Counted'
    BY <1>7, <2>1, CountSame DEF Parse
  <2> QED
    BY <1>7, <2>2 DEF Parse, TypeOK
<1>8. CASE PushLinks(c)
  <2>1. IsUrlBag(memory')
    BY <1>8, PushEffect, UrlBags
  <2>2. Counted'
    BY <1>8, CountFinished DEF PushLinks
  <2> QED
    BY <1>8, <2>1, <2>2 DEF PushLinks, Finished, TypeOK, Counted
<1> QED
  BY <1>1, <1>2, <1>3, <1>4, <1>5, <1>6, <1>7, <1>8 DEF Crawl

\* The process is down: whatever it had in memory is gone.
LEMMA TypeDown ==
  ASSUME Typed, Down, UNCHANGED <<owned, tmp, diskVars, restarts, history>>
  PROVE  Typed'
<1>1. IsUrlBag(memory')
  BY EmptyIs, UrlBags DEF Down
<1>2. IsSnapshot(snapshot')
  BY EmptyIs, UrlBags DEF Down, NoSnapshot, Snapshot, IsSnapshot
<1>3. Counted'
  <2>1. Busy' = {}
    BY DEF Down, Busy
  <2> QED
    BY <2>1, FS_EmptySet DEF Down, Counted
<1> QED
  BY <1>1, <1>2, <1>3, NoUrlAssumption DEF Down, Typed, TypeOK, diskVars, history

\* What the saver knows is a snapshot.
LEMMA TypeSave ==
  ASSUME Typed, Save
  PROVE  Typed'
<1> USE DEF memoryVars, diskVars, history
<1>1. Counted' /\ chunks' = chunks
  <2>1. UNCHANGED <<at, inFlight, chunks>>
    BY DEF Save, ReadFrontier, SkipSave, AcceptSnapshot, ReadBloom, OpenFile,
           OpenTmp, CloseFile, Rename
  <2> QED
    BY <2>1, CountSame DEF Busy, Typed
<1>2. IsSnapshot(NoSnapshot)
  BY EmptyIs, UrlBags DEF NoSnapshot, Snapshot, IsSnapshot
<1>3. CASE ReadFrontier
  <2>1. InChunks \subseteq Urls
    BY BagsTyped, UrlBags DEF InChunks, Typed, IsUrlBag
  <2>2. IsSnapshot(snapshot')
    BY <1>3, <2>1 DEF ReadFrontier, Snapshot, IsSnapshot, Typed, TypeOK, IsUrlBag
  <2> QED
    BY <1>1, <1>3, <2>2 DEF ReadFrontier, Typed, TypeOK
<1>4. CASE SkipSave
  BY <1>1, <1>2, <1>4 DEF SkipSave, Typed, TypeOK
<1>5. CASE AcceptSnapshot
  BY <1>1, <1>5 DEF AcceptSnapshot, CheckSnapshot, Typed, TypeOK
<1>6. CASE ReadBloom
  <2>1. /\ snapshot = Snapshot(snapshot.frontier, snapshot.bloom, snapshot.queued)
        /\ IsUrlBag(snapshot.frontier) /\ snapshot.queued \subseteq Urls
        /\ bloom \subseteq Urls
    BY DEF IsSnapshot, Typed, TypeOK
  <2>2. snapshot' = Snapshot(snapshot.frontier, bloom, snapshot.queued)
    BY <1>6, <2>1 DEF ReadBloom, Snapshot
  <2>3. IsSnapshot(snapshot')
    BY <2>1, <2>2 DEF IsSnapshot, Snapshot
  <2> QED
    BY <1>1, <1>6, <2>3 DEF ReadBloom, Typed, TypeOK
<1>7. CASE OpenFile
  BY <1>1, <1>7 DEF OpenFile, OpenTmp, Typed, TypeOK
<1>8. CASE CloseFile
  BY <1>1, <1>8 DEF CloseFile, Typed, TypeOK
<1>9. CASE Rename
  BY <1>1, <1>2, <1>9 DEF Rename, Typed, TypeOK
<1> QED
  BY <1>3, <1>4, <1>5, <1>6, <1>7, <1>8, <1>9 DEF Save

LEMMA TypeRestart ==
  ASSUME Typed, DownInv, NEW own \in Ownerships, Restart(own)
  PROVE  Typed'
<1>1. IsUrlBag(memory') /\ own \in SUBSET Urls
  BY BootEffect, UrlBags
<1>2. bloom' \in SUBSET Urls
  <2>1. NoFile.kind # "whole" /\ Torn.kind # "whole"
    BY DEF NoFile, Torn
  <2> QED
    BY <2>1 DEF Restart, Boot, Typed, TypeOK, IsSnapshot
<1>3. Counted'
  <2>1. Busy' = {} /\ inFlight' = inFlight
    BY DEF Restart, Boot, Busy
  <2> QED
    BY <2>1, CountSame DEF Typed
<1>4. restarts' \in 0..MaxRestarts
  BY BoundsAssumption DEF Restart, Typed, TypeOK
<1>5. \A c \in Crawlers : hand'[c] # NoUrl <=> at'[c] \in {"fetch", "links"}
  BY DEF Restart, Boot, DownInv
<1>6. at' \in [Crawlers -> {"idle", "fetch", "links", "exited"}] /\ saver' = "idle"
  BY DEF Restart, Boot
<1> QED
  BY <1>1, <1>2, <1>3, <1>4, <1>5, <1>6 DEF Restart, Boot, Typed, TypeOK, diskVars, history

LEMMA TypeNext ==
  ASSUME Typed, DownInv, [Next]_vars
  PROVE  Typed'
<1>1. ASSUME NEW bag, Spill(bag)
      PROVE  Typed'
  <2>1. IsUrlBag(memory') /\ chunks' \in Seq(UrlBag) /\ BagToSet(bag) \in SUBSET Urls
    BY <1>1, SpillEffect, UrlBags DEF IsUrlBag
  <2>2. \A k \in 1..Len(chunks') : IsUrlBag(chunks'[k])
    BY <2>1, UrlBags
  <2>3. Counted'
    BY <1>1, CountSame DEF Spill, Busy, Typed
  <2> QED
    BY <1>1, <2>1, <2>2, <2>3 DEF Spill, Typed, TypeOK, saverVars
<1>2. CASE Load
  <2>1. IsUrlBag(memory') /\ chunks' \in Seq(UrlBag)
    BY <1>2, LoadEffect, UrlBags
  <2>2. \A k \in 1..Len(chunks') : IsUrlBag(chunks'[k])
    BY <2>1, UrlBags
  <2>3. Counted'
    BY <1>2, CountSame DEF Load, Busy, Typed
  <2> QED
    BY <1>2, <2>1, <2>2, <2>3 DEF Load, Typed, TypeOK, saverVars, history
<1>3. CASE Signal
  <2>1. Counted'
    BY <1>3, CountSame DEF Signal, Busy, Typed
  <2> QED
    BY <1>3, <2>1 DEF Signal, Typed, TypeOK, saverVars, diskVars, history
<1>4. CASE Return \/ Crash
  BY <1>4, TypeDown DEF Return, Crash
<1>5. CASE UNCHANGED vars
  <2>1. Counted'
    BY <1>5, CountSame DEF Busy, Typed, vars, memoryVars
  <2> QED
    BY <1>5, <2>1 DEF vars, memoryVars, saverVars, diskVars, history, Typed, TypeOK,
                      IsUrlBag, IsSnapshot
<1> QED
  BY <1>1, <1>2, <1>3, <1>4, <1>5, TypeCrawl, TypeSave, TypeRestart DEF Next

-----------------------------------------------------------------------------
(* What the filter knows *)

\* Out of the saver's steps, only the reading of the filter and the two ends of
\* a save change what is known of the snapshot.
LEMMA KnownSave ==
  ASSUME Typed, KnownInv, Save
  PROVE  KnownInv'
<1> USE DEF KnownInv, Known, memoryVars, diskVars, history
<1>0. BagToSet(NoSnapshot.frontier) = {} /\ NoSnapshot.queued = {}
  BY EmptyIs DEF NoSnapshot, Snapshot
<1>1. CASE ReadFrontier
  <2>1. /\ snapshot'.frontier = memory /\ snapshot'.queued = BagToSet(memory) \cup InChunks
        /\ saver' = "frontier"
    BY <1>1 DEF ReadFrontier, Snapshot
  <2>2. InChunks' = InChunks
    BY <1>1 DEF ReadFrontier, InChunks
  <2> QED
    BY <1>1, <2>1, <2>2 DEF ReadFrontier
<1>2. CASE SkipSave \/ Rename
  <2>1. /\ snapshot' = NoSnapshot /\ saver' = "idle" /\ InChunks' = InChunks
        /\ UNCHANGED <<memoryVars, spilled>>
    BY <1>2 DEF SkipSave, Rename, InChunks
  <2> QED
    BY <1>0, <2>1
<1>3. CASE AcceptSnapshot \/ OpenFile \/ CloseFile
  <2>1. /\ snapshot' = snapshot /\ InChunks' = InChunks
        /\ UNCHANGED <<memoryVars, spilled>>
        /\ saver' \in {"write", "writing", "rename"} <=> saver \in {"write", "writing", "rename"}
    BY <1>3 DEF AcceptSnapshot, CheckSnapshot, OpenFile, OpenTmp, CloseFile, InChunks
  <2> QED
    BY <2>1
<1>4. CASE ReadBloom
  <2>1. /\ snapshot = Snapshot(snapshot.frontier, snapshot.bloom, snapshot.queued)
    BY DEF IsSnapshot, Typed, TypeOK
  <2>2. /\ snapshot'.frontier = snapshot.frontier /\ snapshot'.bloom = bloom
        /\ snapshot'.queued = snapshot.queued
    BY <1>4, <2>1 DEF ReadBloom, Snapshot
  <2>3. saver = "checked" /\ saver' = "write" /\ InChunks' = InChunks
        /\ UNCHANGED <<memoryVars, spilled>>
    BY <1>4 DEF ReadBloom, InChunks
  <2> QED
    BY <2>2, <2>3
<1> QED
  BY <1>1, <1>2, <1>3, <1>4 DEF Save

\* A link is in the filter before it is in the frontier.
LEMMA KnownCrawl ==
  ASSUME Typed, KnownInv, NEW c \in Crawlers, Crawl(c)
  PROVE  KnownInv'
<1> USE DEF KnownInv, Known, saverVars, diskVars, history
<1>0. /\ hand \in [Crawlers -> Urls \cup {NoUrl}] /\ found \in [Crawlers -> SUBSET Urls]
  BY DEF Typed, TypeOK
<1>1. UNCHANGED <<chunks, snapshot, saver, spilled>> /\ InChunks' = InChunks
      /\ bloom \subseteq bloom'
  BY DEF Crawl, Pop, Discover, PopNothing, Snooze, NoPage, GiveUp, Parse, PushLinks, InChunks
<1>2. ASSUME NEW u \in Urls, Pop(c, u)
      PROVE  KnownInv'
  <2>1. /\ u \in BagToSet(memory) /\ BagToSet(memory') \subseteq BagToSet(memory)
    BY <1>2, PopEffect
  <2> QED
    BY <1>0, <1>1, <1>2, <2>1 DEF Pop
<1>3. ASSUME NEW u \in Urls, Discover(c, u)
      PROVE  KnownInv'
  BY <1>0, <1>1, <1>3 DEF Discover
<1>4. CASE PopNothing(c) \/ Parse(c)
  BY <1>0, <1>1, <1>4 DEF PopNothing, Parse
<1>5. CASE Snooze(c)
  <2>1. BagToSet(memory') = BagToSet(memory) \cup {hand[c]} /\ hand[c] \in Urls
    BY <1>5, SnoozeEffect
  <2> QED
    BY <1>0, <1>1, <1>5, <2>1, NoUrlAssumption DEF Snooze, Snoozed, Finished
<1>6. CASE NoPage(c) \/ GiveUp(c)
  BY <1>0, <1>1, <1>6 DEF NoPage, GiveUp, Finished
<1>7. CASE PushLinks(c)
  <2>1. BagToSet(memory') \subseteq BagToSet(memory) \cup found[c]
    BY <1>7, PushEffect
  <2> QED
    BY <1>0, <1>1, <1>7, <2>1 DEF PushLinks, Finished
<1> QED
  BY <1>2, <1>3, <1>4, <1>5, <1>6, <1>7 DEF Crawl

LEMMA KnownNext ==
  ASSUME Typed, KnownInv, DownInv, FileInv, [Next]_vars
  PROVE  KnownInv'
<1>1. ASSUME NEW bag, Spill(bag)
      PROVE  KnownInv'
  BY <1>1, SpillEffect DEF Spill, KnownInv, Known, saverVars
<1>2. CASE Load
  <2>1. /\ InChunks' \subseteq InChunks
        /\ BagToSet(memory') \subseteq BagToSet(memory) \cup InChunks
    BY <1>2, LoadEffect
  <2> QED
    BY <1>2, <2>1 DEF Load, KnownInv, Known, saverVars, history
<1>3. CASE Signal \/ UNCHANGED vars
  <2>1. UNCHANGED <<memory, bloom, hand, found, chunks, snapshot, saver, spilled>>
    BY <1>3 DEF Signal, vars, memoryVars, saverVars, diskVars, history
  <2>2. InChunks' = InChunks
    BY <2>1 DEF InChunks
  <2> QED
    BY <2>1, <2>2 DEF KnownInv, Known
<1>4. CASE Return \/ Crash
  <2>1. Down /\ UNCHANGED <<chunks, spilled>>
    BY <1>4 DEF Return, Crash, diskVars, history
  <2>2. InChunks' = InChunks
    BY <2>1 DEF InChunks
  <2>3. BagToSet(NoSnapshot.frontier) = {} /\ NoSnapshot.queued = {}
    BY EmptyIs DEF NoSnapshot, Snapshot
  <2> QED
    BY <2>1, <2>2, <2>3, EmptyIs DEF Down, KnownInv, Known
<1>5. ASSUME NEW own \in Ownerships, Restart(own)
      PROVE  KnownInv'
  <2>1. /\ BagToSet(memory') \subseteq
             Seeds \cup (IF Whole THEN BagToSet(file.frontier) ELSE {})
    BY <1>5, BootEffect
  <2>2. /\ saver = "down" /\ saver' = "idle" /\ UNCHANGED <<hand, found, chunks, snapshot, spilled>>
        /\ Whole => bloom' = file.bloom
    BY <1>5 DEF Restart, Boot, Whole, diskVars, history
  <2>3. InChunks' = InChunks
    BY <2>2 DEF InChunks
  <2>4. BagToSet(memory') \subseteq Known'
    BY <2>1, <2>2 DEF FileInv, CheckpointUsable, Known
  <2>5. /\ BagToSet(snapshot.frontier) = {} /\ snapshot.queued = {}
        /\ \A c \in Crawlers : hand[c] = NoUrl /\ found[c] = {}
    BY <2>2, EmptyIs DEF DownInv, NoSnapshot, Snapshot
  <2> QED
    BY <2>2, <2>3, <2>4, <2>5 DEF KnownInv
<1> QED
  BY <1>1, <1>2, <1>3, <1>4, <1>5, KnownCrawl, KnownSave DEF Next

-----------------------------------------------------------------------------
(* The file and what dies with the process *)

LEMMA FileNext ==
  ASSUME Typed, KnownInv, FileInv, [Next]_vars
  PROVE  FileInv'
<1>1. CASE Rename
  <2>1. /\ snapshot = Snapshot(snapshot.frontier, snapshot.bloom, snapshot.queued)
    BY DEF IsSnapshot, Typed, TypeOK
  <2>2. file' = snapshot /\ file'.kind = "whole" /\ saver = "rename" /\ spilled' = spilled
    BY <1>1, <2>1 DEF Rename, Snapshot, history
  <2>3. /\ BagToSet(file'.frontier) \subseteq file'.bloom \cup Seeds \cup spilled
        /\ file'.queued \subseteq BagToSet(file'.frontier) \cup spilled
    BY <2>2 DEF KnownInv
  <2> QED
    BY <2>2, <2>3 DEF FileInv, CheckpointUsable, Whole
<1>2. CASE ~Rename
  <2>1. file' = file /\ spilled \subseteq spilled'
    BY <1>2 DEF Next, Crawl, Pop, Discover, PopNothing, Snooze, NoPage, GiveUp, Parse,
       PushLinks, Spill, Load, Save, ReadFrontier, SkipSave, AcceptSnapshot, ReadBloom,
       OpenFile, OpenTmp, CloseFile, Signal, Return, Crash, Restart, vars, diskVars, history
  <2> QED
    BY <2>1 DEF FileInv, CheckpointUsable, Whole
<1> QED
  BY <1>1, <1>2

LEMMA DownNext ==
  ASSUME Typed, DownInv, [Next]_vars
  PROVE  DownInv'
<1> USE DEF DownInv
<1>1. ASSUME NEW c \in Crawlers, Crawl(c)
      PROVE  DownInv'
  <2>1. at[c] # "exited" /\ UNCHANGED <<saver, snapshot>>
    BY <1>1 DEF Crawl, Pop, Discover, PopNothing, Snooze, NoPage, GiveUp, Parse, PushLinks,
       saverVars
  <2>2. saver # "down"
    BY <2>1
  <2> QED
    BY <2>1, <2>2
<1>2. ASSUME NEW bag, Spill(bag)
      PROVE  DownInv'
  BY <1>2 DEF Spill, Up, saverVars
<1>3. CASE Load
  <2>1. saver # "down" /\ UNCHANGED <<saver, snapshot>>
    BY <1>3 DEF Load, saverVars
  <2> QED
    BY <2>1
<1>4. CASE Save
  <2>1. saver # "down" /\ saver' # "down" /\ (saver' = "idle" => snapshot' = NoSnapshot)
    BY <1>4 DEF Save, ReadFrontier, SkipSave, AcceptSnapshot, CheckSnapshot, ReadBloom,
       OpenFile, CloseFile, Rename
  <2> QED
    BY <2>1
<1>5. CASE Signal
  BY <1>5 DEF Signal, Up, saverVars
<1>6. CASE Return \/ Crash
  <2>1. Down
    BY <1>6 DEF Return, Crash
  <2> QED
    BY <2>1 DEF Down
<1>7. ASSUME NEW own \in Ownerships, Restart(own)
      PROVE  DownInv'
  BY <1>7 DEF Restart, Boot
<1>8. CASE UNCHANGED vars
  BY <1>8 DEF vars, memoryVars, saverVars
<1> QED
  BY <1>1, <1>2, <1>3, <1>4, <1>5, <1>6, <1>7, <1>8 DEF Next

-----------------------------------------------------------------------------
(* What the crawlers hold *)

\* The steps of a crawler, as what they make of memory, filter and its hand.
LEMMA OwnedCrawl ==
  ASSUME Typed, OwnedInv, NEW c \in Crawlers, Crawl(c)
  PROVE  OwnedInv'
<1> USE DEF OwnedInv
<1>0. /\ hand \in [Crawlers -> Urls \cup {NoUrl}] /\ found \in [Crawlers -> SUBSET Urls]
  BY DEF Typed, TypeOK
<1>1. UNCHANGED <<owned, spilled>>
  BY DEF Crawl, Pop, Discover, PopNothing, Snooze, NoPage, GiveUp, Parse, PushLinks, history
<1>2. ASSUME NEW u \in Urls, Pop(c, u)
      PROVE  OwnedInv'
  <2>1. /\ u \in BagToSet(memory) /\ BagToSet(memory') \subseteq BagToSet(memory)
    BY <1>2, PopEffect
  <2> QED
    BY <1>0, <1>1, <1>2, <2>1 DEF Pop
<1>3. ASSUME NEW u \in Urls, Discover(c, u)
      PROVE  OwnedInv'
  BY <1>0, <1>1, <1>3 DEF Discover
<1>4. CASE PopNothing(c) \/ Parse(c)
  BY <1>0, <1>1, <1>4 DEF PopNothing, Parse
<1>5. CASE Snooze(c)
  <2>1. BagToSet(memory') = BagToSet(memory) \cup {hand[c]} /\ hand[c] \in Urls
    BY <1>5, SnoozeEffect
  <2> QED
    BY <1>0, <1>1, <1>5, <2>1, NoUrlAssumption DEF Snooze, Snoozed, Finished
<1>6. CASE NoPage(c) \/ GiveUp(c)
  BY <1>0, <1>1, <1>6 DEF NoPage, GiveUp, Finished
<1>7. CASE PushLinks(c)
  <2>1. BagToSet(memory') \subseteq BagToSet(memory) \cup found[c]
    BY <1>7, PushEffect
  <2> QED
    BY <1>0, <1>1, <1>7, <2>1 DEF PushLinks, Finished
<1> QED
  BY <1>2, <1>3, <1>4, <1>5, <1>6, <1>7 DEF Crawl

LEMMA OwnedNext ==
  ASSUME Typed, KnownInv, DownInv, OwnedInv, [Next]_vars
  PROVE  OwnedInv'
<1> USE DEF OwnedInv
<1>1. ASSUME NEW bag, Spill(bag)
      PROVE  OwnedInv'
  BY <1>1, SpillEffect DEF Spill
<1>2. CASE Load
  <2>1. BagToSet(memory') \subseteq BagToSet(memory) \cup spilled
    BY <1>2, LoadEffect DEF KnownInv
  <2> QED
    BY <1>2, <2>1 DEF Load, history
<1>3. CASE Save \/ Signal \/ UNCHANGED vars
  <2>1. UNCHANGED <<owned, memory, hand, found, spilled>>
    BY <1>3 DEF Save, ReadFrontier, SkipSave, AcceptSnapshot, ReadBloom, OpenFile,
       CloseFile, Rename, Signal, vars, memoryVars, history
  <2> QED
    BY <2>1
<1>4. CASE Return \/ Crash
  <2>1. Down /\ UNCHANGED <<owned, spilled>>
    BY <1>4 DEF Return, Crash, history
  <2> QED
    BY <2>1, EmptyIs DEF Down
<1>5. ASSUME NEW own \in Ownerships, Restart(own)
      PROVE  OwnedInv'
  <2>1. BagToSet(memory') \subseteq own
    BY <1>5, BootEffect
  <2>2. owned' = own /\ UNCHANGED <<hand, found>> /\ saver = "down"
    BY <1>5 DEF Restart, Boot
  <2> QED
    BY <2>1, <2>2 DEF DownInv
<1> QED
  BY <1>1, <1>2, <1>3, <1>4, <1>5, OwnedCrawl DEF Next

LEMMA HandledNext ==
  ASSUME Typed, DownInv, HandledInv, [Next]_vars
  PROVE  HandledInv'
<1> USE DEF HandledInv
<1>0. /\ hand \in [Crawlers -> Urls \cup {NoUrl}]
      /\ at \in [Crawlers -> {"idle", "fetch", "links", "exited"}]
  BY DEF Typed, TypeOK
<1>1. ASSUME NEW c \in Crawlers, Crawl(c)
      PROVE  HandledInv'
  <2>1. crawled \subseteq crawled'
    BY <1>1 DEF Crawl, Pop, Discover, PopNothing, Snooze, NoPage, GiveUp, Parse, PushLinks,
       history
  <2>2. ASSUME NEW u \in Urls, Pop(c, u)
        PROVE  HandledInv'
    BY <1>0, <2>1, <2>2 DEF Pop
  <2>3. ASSUME NEW u \in Urls, Discover(c, u)
        PROVE  HandledInv'
    BY <2>1, <2>3 DEF Discover
  <2>4. CASE PopNothing(c) \/ Parse(c)
    BY <1>0, <2>1, <2>4 DEF PopNothing, Parse
  <2>5. CASE Snooze(c) \/ NoPage(c) \/ GiveUp(c) \/ PushLinks(c)
    BY <1>0, <2>1, <2>5 DEF Snooze, Snoozed, NoPage, GiveUp, PushLinks, Finished
  <2> QED
    BY <1>1, <2>2, <2>3, <2>4, <2>5 DEF Crawl
<1>2. CASE Return \/ Crash
  BY <1>2 DEF Return, Crash, Down
<1>3. ASSUME NEW own \in Ownerships, Restart(own)
      PROVE  HandledInv'
  BY <1>3 DEF Restart, Boot
<1>4. CASE Save \/ Signal \/ Load \/ (\E bag \in SubBag(memory) : Spill(bag)) \/ UNCHANGED vars
  <2>1. UNCHANGED <<at, hand, crawled>>
    BY <1>4 DEF Save, ReadFrontier, SkipSave, AcceptSnapshot, ReadBloom, OpenFile,
       CloseFile, Rename, Signal, Load, Spill, vars, memoryVars, history
  <2> QED
    BY <2>1
<1> QED
  BY <1>1, <1>2, <1>3, <1>4 DEF Next

-----------------------------------------------------------------------------
(* Nothing is forgotten *)

\* Where a URL the filter knows may be.
Kept ==
  crawled \cup BagToSet(memory) \cup InChunks
          \cup UNION {found[c] \cup {hand[c]} : c \in Crawlers}

\* A step of a crawler, while nobody stops the crawl.
LEMMA KeptCrawl ==
  ASSUME Typed, HandledInv, ~shouldStop, bloom \subseteq Kept, NEW c \in Crawlers, Crawl(c)
  PROVE  bloom' \subseteq Kept'
<1>0. /\ hand \in [Crawlers -> Urls \cup {NoUrl}] /\ found \in [Crawlers -> SUBSET Urls]
  BY DEF Typed, TypeOK
<1>1. InChunks' = InChunks /\ crawled \subseteq crawled'
  BY DEF Crawl, Pop, Discover, PopNothing, Snooze, NoPage, GiveUp, Parse, PushLinks,
     InChunks, diskVars, history
<1>2. ASSUME NEW u \in Urls, Pop(c, u)
      PROVE  bloom' \subseteq Kept'
  <2>1. BagToSet(memory) \subseteq BagToSet(memory') \cup {u}
    BY <1>2, PopEffect
  <2>2. /\ hand'[c] = u /\ hand[c] \in {NoUrl} /\ found' = found /\ bloom' = bloom
        /\ \A d \in Crawlers \ {c} : hand'[d] = hand[d]
    BY <1>0, <1>2 DEF Pop, Typed, TypeOK
  <2>3. bloom \subseteq Urls
    BY DEF Typed, TypeOK
  <2> QED
    BY <1>1, <2>1, <2>2, <2>3, NoUrlAssumption DEF Kept
<1>3. ASSUME NEW u \in Urls, Discover(c, u)
      PROVE  bloom' \subseteq Kept'
  BY <1>0, <1>1, <1>3 DEF Discover, Kept
<1>4. CASE PopNothing(c) \/ Parse(c)
  BY <1>0, <1>1, <1>4 DEF PopNothing, Parse, Kept
<1>5. CASE Snooze(c)
  <2>1. BagToSet(memory') = BagToSet(memory) \cup {hand[c]}
    BY <1>5, SnoozeEffect
  <2>2. /\ found' = found /\ bloom' = bloom
        /\ \A d \in Crawlers \ {c} : hand'[d] = hand[d]
    BY <1>0, <1>5 DEF Snooze, Snoozed, Finished
  <2> QED
    BY <1>1, <2>1, <2>2 DEF Kept
<1>6. CASE NoPage(c)
  <2>1. /\ found' = found /\ bloom' = bloom /\ memory' = memory /\ hand[c] \in crawled'
        /\ \A d \in Crawlers \ {c} : hand'[d] = hand[d]
    BY <1>0, <1>6 DEF NoPage, Finished
  <2> QED
    BY <1>1, <2>1 DEF Kept
<1>7. CASE PushLinks(c)
  <2>1. BagToSet(memory') = BagToSet(memory) \cup found[c]
    BY <1>7, PushEffect
  <2>2. /\ bloom' = bloom /\ hand[c] \in crawled
        /\ \A d \in Crawlers \ {c} : hand'[d] = hand[d] /\ found'[d] = found[d]
    BY <1>0, <1>7 DEF PushLinks, Finished, HandledInv
  <2> QED
    BY <1>1, <2>1, <2>2 DEF Kept
<1>8. ~GiveUp(c)
  BY DEF GiveUp
<1> QED
  BY <1>2, <1>3, <1>4, <1>5, <1>6, <1>7, <1>8 DEF Crawl

LEMMA KeptNext ==
  ASSUME Typed, HandledInv, NothingForgotten, [Next]_vars
  PROVE  NothingForgotten'
<1> USE DEF NothingForgotten, Up
<1>1. ASSUME NEW c \in Crawlers, Crawl(c)
      PROVE  NothingForgotten'
  <2>1. UNCHANGED <<saver, shouldStop, restarts>>
    BY <1>1 DEF Crawl, Pop, Discover, PopNothing, Snooze, NoPage, GiveUp, Parse, PushLinks,
       saverVars
  <2>2. CASE saver # "down" /\ ~shouldStop /\ restarts = 0
    <3>1. bloom \subseteq Kept
      BY <2>2 DEF Kept
    <3>2. bloom' \subseteq Kept'
      BY <1>1, <2>2, <3>1, KeptCrawl
    <3> QED
      BY <3>2 DEF Kept
  <2> QED
    BY <2>1, <2>2
<1>2. ASSUME NEW bag, Spill(bag)
      PROVE  NothingForgotten'
  <2>1. /\ BagToSet(memory) \subseteq BagToSet(memory') \cup BagToSet(bag)
        /\ InChunks' = InChunks \cup BagToSet(bag)
    BY <1>2, SpillEffect
  <2> QED
    BY <1>2, <2>1 DEF Spill, saverVars
<1>3. CASE Load
  <2>1. /\ BagToSet(memory) \subseteq BagToSet(memory')
        /\ InChunks \subseteq InChunks' \cup BagToSet(memory')
    BY <1>3, LoadEffect
  <2> QED
    BY <1>3, <2>1 DEF Load, saverVars, history
<1>4. CASE Save
  <2>1. /\ UNCHANGED <<memory, bloom, hand, found, shouldStop, chunks, restarts, crawled>>
        /\ saver # "down"
    BY <1>4 DEF Save, ReadFrontier, SkipSave, AcceptSnapshot, CheckSnapshot, ReadBloom,
       OpenFile, OpenTmp, CloseFile, Rename, memoryVars, diskVars, history
  <2>2. InChunks' = InChunks
    BY <2>1 DEF InChunks
  <2> QED
    BY <2>1, <2>2
<1>5. CASE Signal \/ Return \/ Crash
  BY <1>5 DEF Signal, Return, Crash, Down
<1>6. ASSUME NEW own \in Ownerships, Restart(own)
      PROVE  NothingForgotten'
  BY <1>6 DEF Restart, Typed, TypeOK
<1>7. CASE UNCHANGED vars
  <2>1. UNCHANGED <<memory, bloom, hand, found, shouldStop, chunks, restarts, crawled, saver>>
    BY <1>7 DEF vars, memoryVars, saverVars, diskVars, history
  <2>2. InChunks' = InChunks
    BY <2>1 DEF InChunks
  <2> QED
    BY <2>1, <2>2
<1> QED
  BY <1>1, <1>2, <1>3, <1>4, <1>5, <1>6, <1>7 DEF Next

-----------------------------------------------------------------------------
(* The theorems *)

LEMMA InvInit == Init => Inv
<1> SUFFICES ASSUME Init PROVE Inv
  OBVIOUS
<1>1. owned \in SUBSET Urls /\ Seeds \cap owned \in SUBSET Urls
  BY OwnershipsAssumption, SeedsAssumption DEF Init
<1>2. memory \in UrlBag /\ BagToSet(memory) = Seeds \cap owned
  BY <1>1, BagOfSet DEF Init
<1>3. IsUrlBag(memory) /\ IsSnapshot(snapshot)
  BY <1>2, EmptyIs, UrlBags DEF Init, NoSnapshot, Snapshot, IsSnapshot
<1>4. Counted
  <2>1. Busy = {}
    BY DEF Init, Busy
  <2> QED
    BY <2>1, FS_EmptySet DEF Init, Counted
<1>5. InChunks = {} /\ chunks \in Seq(UrlBag) /\ Len(chunks) = 0
  BY DEF Init, InChunks
<1>6. Typed
  <2>1. hand \in [Crawlers -> Urls \cup {NoUrl}] /\ found \in [Crawlers -> SUBSET Urls]
    BY DEF Init
  <2>2. \A c \in Crawlers : hand[c] # NoUrl <=> at[c] \in {"fetch", "links"}
    BY DEF Init
  <2>3. restarts \in 0..MaxRestarts /\ inFlight \in Nat
    BY BoundsAssumption DEF Init
  <2>4. at \in [Crawlers -> {"idle", "fetch", "links", "exited"}]
    BY DEF Init
  <2>5. \A k \in 1..Len(chunks) : IsUrlBag(chunks[k])
    BY <1>5
  <2>6. /\ {shouldStop, final} \subseteq BOOLEAN
        /\ bloom \in SUBSET Urls /\ crawled \in SUBSET Urls /\ spilled \in SUBSET Urls
        /\ saver \in {"idle", "frontier", "checked", "write", "writing", "rename", "down"}
        /\ tmp \in {"none", "torn", "whole"} /\ file \in {NoFile, Torn}
    BY DEF Init
  <2> QED
    BY <1>1, <1>3, <1>4, <1>5, <2>1, <2>2, <2>3, <2>4, <2>5, <2>6 DEF Typed, TypeOK
<1>7. KnownInv
  BY <1>2, <1>5, EmptyIs DEF Init, KnownInv, Known, NoSnapshot, Snapshot
<1>8. FileInv
  BY DEF Init, FileInv, CheckpointUsable, Whole, NoFile
<1>9. DownInv /\ OwnedInv /\ HandledInv /\ NothingForgotten
  BY <1>2 DEF Init, DownInv, OwnedInv, HandledInv, NothingForgotten
<1> QED
  BY <1>6, <1>7, <1>8, <1>9 DEF Inv

\* Every state of the machine satisfies the inductive invariant.
THEOREM Invariance == Spec => []Inv
<1>1. Inv /\ [Next]_vars => Inv'
  BY TypeNext, KnownNext, FileNext, DownNext, OwnedNext, HandledNext, KeptNext DEF Inv
<1> QED
  BY InvInit, <1>1, PTL DEF Spec

\* The type invariant: a crawler has a URL in its hand exactly while it works on
\* one, what the saver holds is a snapshot, and the file is none, torn or one.
THEOREM TypeCorrect == Spec => []TypeOK
BY Invariance, PTL DEF Inv, Typed

\* Whenever the process dies, checkpoint.dat is absent or whole, and the filter
\* in it knows what is queued in it but for seeds and spilled URLs.
THEOREM CheckpointAlwaysUsable == Spec => []CheckpointUsable
BY Invariance, PTL DEF Inv, FileInv

\* Until a stop or a restart, what the filter knows is crawled, queued or held.
THEOREM CrawlForgetsNothing == Spec => []NothingForgotten
BY Invariance, PTL DEF Inv

\* The frontier holds this machine's URLs and what chunk files brought, whatever
\* machines the restarts of the crawl divided it among.
THEOREM FrontierOwned == Spec => []OnlyOwnedUnlessSpilled
<1>1. Inv => OnlyOwnedUnlessSpilled
  BY DEF Inv, OwnedInv, OnlyOwnedUnlessSpilled
<1> QED
  BY <1>1, Invariance, PTL

\* A restart finds what was queued when the snapshot was taken, but for what is
\* another machine's now and what chunk files held.
THEOREM RestartLosesNothing == Spec => RecoveryComplete
<1> DEFINE Recovers(own) ==
      (Restart(own) /\ Whole) =>
        file.queued \cap own \subseteq BagToSet(memory)' \cup InChunks' \cup crawled \cup spilled
<1>1. ASSUME Inv, NEW own \in Ownerships
      PROVE  Recovers(own)
  <2>1. SUFFICES ASSUME Restart(own), Whole
                 PROVE  file.queued \cap own \subseteq BagToSet(memory') \cup spilled
    OBVIOUS
  <2>2. BagToSet(file.frontier) \cap own \subseteq BagToSet(memory')
    BY <1>1, <2>1, BootEffect DEF Inv
  <2> QED
    BY <1>1, <2>1, <2>2 DEF Inv, FileInv
<1>2. Inv => [\A own \in Ownerships : Recovers(own)]_vars
  BY <1>1
<1> QED
  BY <1>2, Invariance, PTL DEF RecoveryComplete
=============================================================================
