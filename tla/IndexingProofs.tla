--------------------------- MODULE IndexingProofs ---------------------------
(***************************************************************************)
(* Theorems of Indexing, for any number of pages, index threads, failures  *)
(* and every capacity: every page the queue takes ends in exactly one      *)
(* place, the lines of a metadata file are the documents of its chunk, and *)
(* anchor texts are kept as long as no two flushes of them overlap.        *)
(***************************************************************************)
EXTENDS Indexing, SequenceTheorems, FiniteSetTheorems, TLAPS

-----------------------------------------------------------------------------
(* The inductive invariant *)

Filling == {"loop", "flush", "chunk"}

Threads(p) == {w \in Workers : at[w] \in Filling /\ p \in ToSet(memIndex[w])}
Written(p) == {n \in Whole : p \in ToSet(chunks[n])}
Waiting(p) == {k \in DOMAIN queue : queue[k] = p}
Lost(p) == {p} \cap (reported \cup refused)

\* A page nobody pushed is nowhere; a pushed one is in one place.
Nowhere(p) == Threads(p) = {} /\ Written(p) = {} /\ Waiting(p) = {} /\ Lost(p) = {}

Single(S) == \E x \in S : S = {x}

Placed(p) ==
  \/ Single(Threads(p)) /\ Written(p) = {} /\ Waiting(p) = {} /\ Lost(p) = {}
  \/ Threads(p) = {} /\ Single(Written(p)) /\ Waiting(p) = {} /\ Lost(p) = {}
  \/ Threads(p) = {} /\ Written(p) = {} /\ Single(Waiting(p)) /\ Lost(p) = {}
  \/ Threads(p) = {} /\ Written(p) = {} /\ Waiting(p) = {} /\ Single(Lost(p))

PlaceOf(p) == IF stage[p] = "new" THEN Nowhere(p) ELSE Placed(p)
PlaceInv == \A p \in Pages : PlaceOf(p)

\* A number of a chunk is used once; what a thread has in memory is what its
\* metadata is about, and what its chunk holds from the moment it is written.
ChunkInv ==
  /\ \A n \in DOMAIN chunks :
       n \in Nat /\ n < nextIndexChunkId /\ chunks[n] \in Seq(Pages) \cup {Torn}
  /\ \A w \in Workers :
       /\ metadata[w] = memIndex[w]
       /\ at[w] \in {"chunk", "meta"} => chunkId[w] \in DOMAIN chunks
       /\ at[w] = "chunk" => chunks[chunkId[w]] = Torn
       /\ at[w] = "meta" => chunks[chunkId[w]] = memIndex[w]
  /\ \A v, w \in Workers :
       (at[v] = "chunk" /\ at[w] = "chunk" /\ chunkId[v] = chunkId[w]) => v = w

MetaInv == DOMAIN metas \subseteq Whole /\ MetaBelongsToChunk

\* The flushes of anchor texts.
FlushTyped ==
  /\ table \in [id : Nat, texts : SUBSET Pages]
  /\ anchorFlushFileCount \in Nat
  /\ snapshot \in [Flushers -> SUBSET Pages]
  /\ fileCount \in [Flushers -> Nat] /\ target \in [Flushers -> Nat] /\ fd \in [Flushers -> Nat]
  /\ inodes \in Seq(SUBSET Pages)
  /\ \A n \in DOMAIN tmpFile : tmpFile[n] \in DOMAIN inodes
  /\ \A n \in DOMAIN anchorFiles : anchorFiles[n] \in DOMAIN inodes
  /\ \A t \in Flushers : ~InFlush(t) => snapshot[t] = {}
  /\ table.texts # {} => anchorIndexEdited

\* With one flush at a time, its pointer means the table in use, its number is
\* the next one, and the temporary file under that number is no finished file.
AloneInv ==
  /\ \A t, u \in Flushers : InFlush(t) /\ InFlush(u) => t = u
  /\ \A t \in Flushers :
       /\ at[t] \in {"open", "write", "rename"} =>
            target[t] = table.id /\ fileCount[t] = anchorFlushFileCount
       /\ at[t] \in {"write", "rename"} =>
            fileCount[t] \in DOMAIN tmpFile /\ fd[t] = tmpFile[fileCount[t]]
       /\ at[t] = "rename" => snapshot[t] \subseteq inodes[fd[t]]
  /\ DOMAIN tmpFile \subseteq {anchorFlushFileCount}
  /\ \A n \in DOMAIN anchorFiles :
       /\ n \in Nat /\ n < anchorFlushFileCount
       /\ \A k \in DOMAIN tmpFile : tmpFile[k] # anchorFiles[n]

AnchorInv == ~overlapped => /\ AloneInv /\ ~freed
                            /\ Appended \subseteq table.texts \cup TextsInHand \cup TextsOnDisk

Typed ==
  /\ queue \in Seq(Pages) /\ Len(queue) <= Capacity /\ closed \in BOOLEAN
  /\ stage \in [Pages -> {"new", "pushed", "done"}]
  /\ memIndex \in [Workers -> Seq(Pages)] /\ metadata \in [Workers -> Seq(Pages)]
  /\ at \in [Flushers -> {"join", "loop", "flush", "chunk", "meta", "swap", "number", "open", "write",
                          "rename", "gone"}]
  /\ chunkId \in [Workers -> Nat] /\ nextIndexChunkId \in Nat
  /\ anchorIndexEdited \in BOOLEAN

Inv == Typed /\ PlaceInv /\ ChunkInv /\ MetaInv /\ FlushTyped /\ AnchorInv

-----------------------------------------------------------------------------
(* Types *)

LEMMA WorkersFlush == Workers \subseteq Flushers /\ Main \in Flushers
BY DEF Flushers

\* After a flush of anchor texts an index thread has an empty index.
LEMMA TypeAfterFlush ==
  ASSUME Typed, NEW t \in Flushers, AfterFlush(t),
         UNCHANGED <<queueVars>>, anchorIndexEdited' \in BOOLEAN
  PROVE  Typed'
<1>1. <<>> \in Seq(Pages)
  OBVIOUS
<1>2. /\ memIndex' \in [Workers -> Seq(Pages)] /\ metadata' \in [Workers -> Seq(Pages)]
  BY <1>1 DEF AfterFlush, Typed
<1>3. at' \in [Flushers -> {"join", "loop", "flush", "chunk", "meta", "swap", "number", "open",
                           "write", "rename", "gone"}]
  BY DEF AfterFlush, Typed
<1> QED
  BY <1>2, <1>3 DEF AfterFlush, Typed, queueVars

LEMMA TypeWorker ==
  ASSUME Typed, NEW w \in Workers, IndexWorker(w)
  PROVE  Typed'
<1> USE WorkersFlush DEF queueVars, workerVars, tableVars
<1>1. CASE TakePage(w)
  <2>1. /\ Head(queue) \in Pages /\ Tail(queue) \in Seq(Pages)
        /\ Len(Tail(queue)) <= Capacity
    <3>1. queue # <<>> /\ queue \in Seq(Pages) /\ Len(queue) <= Capacity /\ Capacity \in Nat
      BY <1>1, LimitAssumption DEF TakePage, Typed
    <3> QED
      BY <3>1
  <2>2. /\ Append(memIndex[w], Head(queue)) \in Seq(Pages)
        /\ Append(metadata[w], Head(queue)) \in Seq(Pages)
    BY <2>1 DEF Typed
  <2>3. /\ memIndex' \in [Workers -> Seq(Pages)] /\ metadata' \in [Workers -> Seq(Pages)]
    BY <1>1, <2>2 DEF TakePage, Typed
  <2>4. at' \in [Flushers -> {"join", "loop", "flush", "chunk", "meta", "swap", "number", "open",
                             "write", "rename", "gone"}]
    BY <1>1 DEF TakePage, Typed
  <2>5. queue' = Tail(queue) /\ UNCHANGED <<closed, stage, chunkId, nextIndexChunkId, anchorIndexEdited>>
    BY <1>1 DEF TakePage
  <2> QED
    BY <2>1, <2>3, <2>4, <2>5 DEF Typed
<1>2. CASE LeaveLoop(w)
  BY <1>2 DEF LeaveLoop, Typed
<1>3. CASE OpenChunk(w)
  BY <1>3 DEF OpenChunk, Typed
<1>4. CASE WriteChunk(w)
  BY <1>4 DEF WriteChunk, Typed
<1>5. CASE ChunkFails(w)
  <2>1. <<>> \in Seq(Pages)
    OBVIOUS
  <2> QED
    BY <1>5, <2>1 DEF ChunkFails, Typed
<1>6. CASE WriteMeta(w)
  BY <1>6 DEF WriteMeta, Typed
<1> QED
  BY <1>1, <1>2, <1>3, <1>4, <1>5, <1>6 DEF IndexWorker

LEMMA TypeNext ==
  ASSUME Typed, FlushTyped, [Next]_vars
  PROVE  Typed'
<1> USE DEF queueVars, workerVars, tableVars
<1>1. ASSUME NEW p \in Pages, PushPage(p)
      PROVE  Typed'
  <2>1. queue' \in Seq(Pages) /\ Len(queue') <= Capacity
    <3>1. queue' = queue \/ (queue' = Append(queue, p) /\ Len(queue) < Capacity)
      BY <1>1 DEF PushPage
    <3>2. Capacity \in Nat /\ queue \in Seq(Pages) /\ Len(queue) <= Capacity
      BY LimitAssumption DEF Typed
    <3> QED
      BY <3>1, <3>2
  <2> QED
    BY <1>1, <2>1 DEF PushPage, Typed
<1>2. ASSUME NEW p \in Pages, AppendAnchorTerms(p)
      PROVE  Typed'
  BY <1>2 DEF AppendAnchorTerms, Typed
<1>3. ASSUME NEW t \in Flushers, FlushAnchorIndex(t)
      PROVE  Typed'
  <2>1. CASE SwapNothing(t) \/ Rename(t) \/ RestoreSnapshot(t)
    <3>1. AfterFlush(t) /\ UNCHANGED queueVars /\ anchorIndexEdited' \in BOOLEAN
      BY <2>1 DEF SwapNothing, Rename, RestoreSnapshot, Typed
    <3> QED
      BY <3>1, TypeAfterFlush
  <2>2. CASE SwapTable(t) \/ ReadNumber(t) \/ OpenTmp(t) \/ WriteTmp(t)
    BY <2>2 DEF SwapTable, ReadNumber, OpenTmp, WriteTmp, Typed
  <2> QED
    BY <1>3, <2>1, <2>2 DEF FlushAnchorIndex
<1>4. CASE StartFinalFlush
  BY <1>4 DEF StartFinalFlush, Typed
<1>5. CASE Shutdown
  BY <1>5 DEF Shutdown, Typed
<1>6. CASE UNCHANGED vars
  BY <1>6 DEF vars, Typed
<1> QED
  BY <1>1, <1>2, <1>3, <1>4, <1>5, <1>6, TypeWorker DEF Next, Crawler

-----------------------------------------------------------------------------
(* Steps that leave the pages where they are *)

\* A thread that is about the anchor texts starts on an empty index after it.
ThroughFlush(w) ==
  /\ at[w] \notin Filling \cup {"meta"} /\ at'[w] \notin {"flush", "chunk", "meta"}
  /\ at'[w] = "loop" => memIndex'[w] = <<>>
  /\ \/ memIndex'[w] = memIndex[w] /\ metadata'[w] = metadata[w]
     \/ memIndex'[w] = <<>> /\ metadata'[w] = <<>>

Quiet ==
  /\ UNCHANGED <<queue, chunkId, nextIndexChunkId, chunks, metas, refused, reported>>
  /\ \A p \in Pages : stage'[p] = "new" <=> stage[p] = "new"
  /\ \A w \in Workers :
       \/ at'[w] = at[w] /\ memIndex'[w] = memIndex[w] /\ metadata'[w] = metadata[w]
       \/ ThroughFlush(w)

LEMMA PlaceSame ==
  ASSUME NEW p, PlaceOf(p), (stage[p] = "new") <=> (stage'[p] = "new"),
         Threads(p)' = Threads(p), Written(p)' = Written(p), Waiting(p)' = Waiting(p),
         Lost(p)' = Lost(p)
  PROVE  PlaceOf(p)'
BY DEF PlaceOf, Nowhere, Placed, Single

LEMMA QuietKeeps ==
  ASSUME Quiet, PlaceInv, ChunkInv, MetaInv
  PROVE  PlaceInv' /\ ChunkInv' /\ MetaInv'
<1>1. ASSUME NEW p \in Pages
      PROVE  PlaceOf(p)'
  <2>1. Threads(p)' = Threads(p)
    <3>1. ASSUME NEW w \in Workers, ThroughFlush(w)
          PROVE  w \notin Threads(p) /\ w \notin Threads(p)'
      <4>1. p \notin ToSet(<<>>)
        BY DEF ToSet
      <4> QED
        BY <3>1, <4>1 DEF ThroughFlush, Threads, Filling
    <3>2. ASSUME NEW w \in Workers, at'[w] = at[w], memIndex'[w] = memIndex[w]
          PROVE  w \in Threads(p) <=> w \in Threads(p)'
      BY <3>2 DEF Threads
    <3>3. \A w \in Workers : w \in Threads(p) <=> w \in Threads(p)'
      BY <3>1, <3>2 DEF Quiet
    <3> QED
      BY <3>3 DEF Threads
  <2>2. Written(p)' = Written(p) /\ Waiting(p)' = Waiting(p) /\ Lost(p)' = Lost(p)
    BY DEF Quiet, Written, Whole, Waiting, Lost
  <2> QED
    BY <2>1, <2>2, PlaceSame DEF Quiet, PlaceInv
<1>2. ChunkInv'
  BY DEF Quiet, ChunkInv, ThroughFlush
<1>3. MetaInv'
  BY DEF Quiet, MetaInv, MetaBelongsToChunk, Whole
<1> QED
  BY <1>1, <1>2, <1>3 DEF PlaceInv

LEMMA FlushQuiet ==
  ASSUME Typed, NEW t \in Flushers, FlushAnchorIndex(t)
  PROVE  Quiet
<1> USE DEF Filling, ThroughFlush, queueVars, workerVars, diskVars
<1>1. CASE SwapNothing(t) \/ Rename(t) \/ RestoreSnapshot(t)
  <2>1. /\ AfterFlush(t) /\ at[t] \in {"swap", "open", "rename"}
        /\ UNCHANGED <<queue, stage, chunks, metas, refused, reported>>
    BY <1>1 DEF SwapNothing, Rename, RestoreSnapshot, history
  <2>2. \A u \in Workers \ {t} :
          at'[u] = at[u] /\ memIndex'[u] = memIndex[u] /\ metadata'[u] = metadata[u]
    BY <2>1, WorkersFlush DEF AfterFlush, Typed
  <2>3. t \in Workers => ThroughFlush(t)
    <3>1. SUFFICES ASSUME t \in Workers
                   PROVE  ThroughFlush(t)
      OBVIOUS
    <3>2. t # Main
      BY <3>1, FlusherAssumption
    <3>3. at'[t] = "loop" /\ memIndex'[t] = <<>> /\ metadata'[t] = <<>>
      BY <2>1, <3>1, <3>2 DEF AfterFlush, Typed
    <3> QED
      BY <2>1, <3>3
  <2> QED
    BY <2>1, <2>2, <2>3 DEF Quiet, AfterFlush
<1>2. CASE SwapTable(t) \/ ReadNumber(t) \/ OpenTmp(t) \/ WriteTmp(t)
  <2>1. /\ at[t] \in {"swap", "number", "open", "write"}
        /\ at' = [at EXCEPT ![t] = at'[t]] /\ at'[t] \in {"number", "open", "write", "rename"}
        /\ UNCHANGED <<queueVars, workerVars, diskVars, refused, reported>>
    BY <1>2 DEF SwapTable, ReadNumber, OpenTmp, WriteTmp, history, Typed
  <2> QED
    BY <2>1, WorkersFlush DEF Quiet, Typed
<1> QED
  BY <1>1, <1>2 DEF FlushAnchorIndex

\* So are the anchor texts of a page, the shutdown and the start of the last flush.
LEMMA OtherQuiet ==
  ASSUME Typed, \/ \E p \in Pages : AppendAnchorTerms(p)
                \/ StartFinalFlush \/ Shutdown \/ UNCHANGED vars
  PROVE  Quiet
<1> USE DEF queueVars, workerVars, diskVars, history
<1>1. ASSUME NEW p \in Pages, AppendAnchorTerms(p)
      PROVE  Quiet
  BY <1>1 DEF AppendAnchorTerms, Quiet, Typed
<1>2. CASE StartFinalFlush
  BY <1>2, WorkersFlush, FlusherAssumption DEF StartFinalFlush, Quiet, Typed
<1>3. CASE Shutdown
  BY <1>3 DEF Shutdown, Quiet
<1>4. CASE UNCHANGED vars
  BY <1>4 DEF vars, Quiet
<1> QED
  BY <1>1, <1>2, <1>3, <1>4

-----------------------------------------------------------------------------
(* Steps that move pages *)

\* A torn chunk is not taken for a sequence of pages.
LEMMA TornIs == Torn \notin Seq(Pages)
<1>1. ASSUME Torn \in Seq(Pages)
      PROVE  FALSE
  <2>1. Torn[1] \in Pages
    BY <1>1 DEF Torn
  <2> QED
    BY <2>1, TornAssumption DEF Torn
<1> QED
  BY <1>1

\* A page is pushed, or the closed queue refuses it.
LEMMA PushKeeps ==
  ASSUME Typed, PlaceInv, ChunkInv, MetaInv, NEW p \in Pages, PushPage(p)
  PROVE  PlaceInv' /\ ChunkInv' /\ MetaInv'
<1>1. /\ UNCHANGED <<at, memIndex, metadata, chunkId, nextIndexChunkId, chunks, metas, reported>>
      /\ stage[p] = "new" /\ stage'[p] # "new" /\ \A q \in Pages \ {p} : stage'[q] = stage[q]
  BY DEF PushPage, workerVars, diskVars, Typed
<1>2. \A q \in Pages : Threads(q)' = Threads(q) /\ Written(q)' = Written(q)
  BY <1>1 DEF Threads, Written, Whole
<1>3. Nowhere(p)
  BY <1>1 DEF PlaceInv, PlaceOf
<1>4. ChunkInv' /\ MetaInv'
  <2>1. ChunkInv'
    BY <1>1 DEF ChunkInv
  <2> QED
    BY <1>1, <2>1 DEF MetaInv, MetaBelongsToChunk, Whole
<1>5. CASE refused' = refused \cup {p} /\ UNCHANGED queue
  <2>1. \A q \in Pages : Waiting(q)' = Waiting(q)
    BY <1>5 DEF Waiting
  <2>2. Lost(p)' = {p} /\ \A q \in Pages \ {p} : Lost(q)' = Lost(q)
    BY <1>1, <1>5 DEF Lost
  <2>3. PlaceOf(p)'
    BY <1>1, <1>2, <1>3, <2>1, <2>2 DEF PlaceOf, Placed, Nowhere, Single
  <2>4. \A q \in Pages \ {p} : PlaceOf(q)'
    BY <1>1, <1>2, <2>1, <2>2, PlaceSame DEF PlaceInv
  <2> QED
    BY <1>4, <2>3, <2>4 DEF PlaceInv
<1>6. CASE UNCHANGED refused /\ queue' = Append(queue, p)
  <2> DEFINE n == Len(queue)
  <2>1. /\ n \in Nat /\ DOMAIN queue = 1..n /\ DOMAIN queue' = 1..(n + 1)
        /\ \A k \in 1..n : queue'[k] = queue[k]
        /\ queue'[n + 1] = p
    BY <1>6 DEF Typed
  <2> HIDE DEF n
  <2>2. \A q \in Pages \ {p} : Waiting(q)' = Waiting(q)
    BY <2>1 DEF Waiting
  <2>3. Waiting(p)' = {n + 1}
    BY <1>3, <2>1 DEF Waiting, Nowhere
  <2>4. \A q \in Pages : Lost(q)' = Lost(q)
    BY <1>1, <1>6 DEF Lost
  <2>5. PlaceOf(p)'
    BY <1>1, <1>2, <1>3, <2>3, <2>4 DEF PlaceOf, Placed, Nowhere, Single
  <2>6. \A q \in Pages \ {p} : PlaceOf(q)'
    BY <1>1, <1>2, <2>2, <2>4, PlaceSame DEF PlaceInv
  <2> QED
    BY <1>4, <2>5, <2>6 DEF PlaceInv
<1> QED
  BY <1>5, <1>6 DEF PushPage

\* The page at the front of the queue goes to the index of a thread.
LEMMA TakeKeeps ==
  ASSUME Typed, PlaceInv, ChunkInv, MetaInv, NEW w \in Workers, TakePage(w)
  PROVE  PlaceInv' /\ ChunkInv' /\ MetaInv'
<1>0. Head(queue) \in Pages
  BY DEF TakePage, Typed
<1> PICK h \in Pages : h = Head(queue)
  BY <1>0
<1> DEFINE n == Len(queue)
<1>1. /\ UNCHANGED <<stage, chunkId, nextIndexChunkId, chunks, metas, refused, reported>>
      /\ at[w] = "loop" /\ at'[w] \in {"loop", "flush"}
      /\ \A v \in Workers \ {w} : at'[v] = at[v]
  BY WorkersFlush DEF TakePage, Typed, diskVars, history
<1>2. /\ n \in Nat \ {0} /\ h = queue[1] /\ DOMAIN queue = 1..n
      /\ DOMAIN queue' = 1..(n - 1) /\ \A k \in 1..(n - 1) : queue'[k] = queue[k + 1]
  BY DEF TakePage, Typed
<1>3. /\ memIndex'[w] = Append(memIndex[w], h) /\ metadata'[w] = Append(metadata[w], h)
      /\ \A v \in Workers \ {w} : memIndex'[v] = memIndex[v] /\ metadata'[v] = metadata[v]
      /\ memIndex[w] \in Seq(Pages)
  BY DEF TakePage, Typed
<1> HIDE DEF n
<1>4. ToSet(memIndex'[w]) = ToSet(memIndex[w]) \cup {h}
  <2> DEFINE s == memIndex[w]
  <2>1. s \in Seq(Pages) /\ memIndex'[w] = Append(s, h)
    BY <1>3
  <2> HIDE DEF s
  <2>2. ToSet(Append(s, h)) = ToSet(s) \cup {h}
    BY <2>1 DEF ToSet
  <2> QED
    BY <2>1, <2>2 DEF s
<1>5. /\ Threads(h)' = Threads(h) \cup {w}
      /\ \A q \in Pages \ {h} : Threads(q)' = Threads(q)
  BY <1>1, <1>3, <1>4 DEF Threads, Filling
<1>6. \A q \in Pages : Written(q)' = Written(q) /\ Lost(q)' = Lost(q)
  BY <1>1 DEF Written, Whole, Lost
<1>7. 1 \in Waiting(h)
  BY <1>2 DEF Waiting
<1>8. PlaceOf(h)'
  <2>1. stage[h] # "new" /\ stage'[h] # "new" /\ Single(Waiting(h))
    BY <1>1, <1>2, <1>7 DEF PlaceInv, PlaceOf, Nowhere, Placed
  <2>2. Threads(h) = {} /\ Written(h) = {} /\ Waiting(h) = {1} /\ Lost(h) = {}
    BY <1>2, <1>7, <2>1 DEF PlaceInv, PlaceOf, Placed, Single
  <2>3. Waiting(h)' = {}
    <3>1. ASSUME NEW k \in 1..(n - 1), queue'[k] = h
          PROVE  FALSE
      <4>1. k + 1 \in Waiting(h) /\ k + 1 # 1
        BY <1>2, <3>1 DEF Waiting
      <4> QED
        BY <2>2, <4>1
    <3> QED
      BY <1>2, <3>1 DEF Waiting
  <2> QED
    BY <1>5, <1>6, <2>1, <2>2, <2>3 DEF PlaceOf, Placed, Single
<1>9. ASSUME NEW q \in Pages \ {h}
      PROVE  PlaceOf(q)'
  <2>1. \A k \in 1..(n - 1) : k \in Waiting(q)' <=> k + 1 \in Waiting(q)
    BY <1>2 DEF Waiting
  <2>2. \A k \in Waiting(q) : k \in 1..n /\ k # 1
    BY <1>2 DEF Waiting
  <2>3. \A k \in Waiting(q)' : k \in 1..(n - 1)
    BY <1>2 DEF Waiting
  <2>4. Waiting(q) = {} => Waiting(q)' = {}
    BY <2>1, <2>3
  <2>5. Single(Waiting(q)) => Single(Waiting(q)')
    <3>1. ASSUME NEW k \in Waiting(q), Waiting(q) = {k}
          PROVE  Waiting(q)' = {k - 1}
      <4>1. k - 1 \in 1..(n - 1) /\ (k - 1) + 1 = k
        BY <1>2, <2>2
      <4>2. k - 1 \in Waiting(q)'
        BY <2>1, <4>1
      <4>3. ASSUME NEW j \in Waiting(q)'
            PROVE  j = k - 1
        <5>1. j \in 1..(n - 1)
          BY <2>3
        <5>2. j + 1 = k
          BY <2>1, <3>1, <5>1
        <5> QED
          BY <5>1, <5>2
      <4> QED
        BY <4>2, <4>3
    <3> QED
      BY <3>1 DEF Single
  <2>6. /\ stage'[q] = stage[q] /\ Threads(q)' = Threads(q)
        /\ Written(q)' = Written(q) /\ Lost(q)' = Lost(q)
    BY <1>1, <1>5, <1>6
  <2>7. CASE stage[q] = "new"
    BY <2>4, <2>6, <2>7 DEF PlaceInv, PlaceOf, Nowhere
  <2>8. CASE stage[q] # "new"
    <3>1. Placed(q)
      BY <2>8 DEF PlaceInv, PlaceOf
    <3>2. Placed(q)'
      BY <2>4, <2>5, <2>6, <3>1 DEF Placed
    <3> QED
      BY <2>6, <2>8, <3>2 DEF PlaceOf
  <2> QED
    BY <2>7, <2>8
<1>10. ChunkInv'
  <2>1. \A v \in Workers : metadata'[v] = memIndex'[v]
    BY <1>3 DEF ChunkInv
  <2>2. /\ \A v \in Workers : at'[v] \in {"chunk", "meta"} => v # w /\ at'[v] = at[v]
        /\ \A v \in Workers : v # w => memIndex'[v] = memIndex[v]
    BY <1>1, <1>3
  <2>3. \A v \in Workers :
          /\ at'[v] \in {"chunk", "meta"} => chunkId[v] \in DOMAIN chunks
          /\ at'[v] = "chunk" => chunks[chunkId[v]] = Torn
          /\ at'[v] = "meta" => chunks[chunkId[v]] = memIndex'[v]
    BY <2>2 DEF ChunkInv
  <2>4. \A u, v \in Workers :
          at'[u] = "chunk" /\ at'[v] = "chunk" /\ chunkId[u] = chunkId[v] => u = v
    BY <2>2 DEF ChunkInv
  <2> QED
    BY <1>1, <2>1, <2>3, <2>4 DEF ChunkInv
<1>11. MetaInv'
  BY <1>1 DEF MetaInv, MetaBelongsToChunk, Whole
<1> QED
  BY <1>2, <1>8, <1>9, <1>10, <1>11 DEF PlaceInv

\* A thread ends, or goes on to write its last chunk.
LEMMA LeaveKeeps ==
  ASSUME Typed, PlaceInv, ChunkInv, MetaInv, NEW w \in Workers, LeaveLoop(w)
  PROVE  PlaceInv' /\ ChunkInv' /\ MetaInv'
<1>1. /\ UNCHANGED <<stage, queue, memIndex, metadata, chunkId, nextIndexChunkId, chunks, metas,
                     refused, reported>>
      /\ at[w] = "loop" /\ at'[w] = IF memIndex[w] = <<>> THEN "gone" ELSE "flush"
      /\ \A v \in Workers \ {w} : at'[v] = at[v]
  BY WorkersFlush DEF LeaveLoop, Typed, queueVars, workerVars, diskVars, history
<1>2. ASSUME NEW p \in Pages
      PROVE  PlaceOf(p)'
  <2>1. p \notin ToSet(<<>>)
    BY DEF ToSet
  <2>2. w \in Threads(p) <=> w \in Threads(p)'
    BY <1>1, <2>1 DEF Threads, Filling
  <2>3. \A v \in Workers \ {w} : v \in Threads(p) <=> v \in Threads(p)'
    BY <1>1 DEF Threads
  <2>4. Threads(p)' = Threads(p)
    BY <2>2, <2>3 DEF Threads
  <2>5. Written(p)' = Written(p) /\ Waiting(p)' = Waiting(p) /\ Lost(p)' = Lost(p)
    BY <1>1 DEF Written, Whole, Waiting, Lost
  <2> QED
    BY <1>1, <2>4, <2>5, PlaceSame DEF PlaceInv
<1>3. ChunkInv'
  BY <1>1 DEF ChunkInv
<1>4. MetaInv'
  BY <1>1 DEF MetaInv, MetaBelongsToChunk, Whole
<1> QED
  BY <1>2, <1>3, <1>4 DEF PlaceInv

\* A number nobody has had goes to a chunk that is torn until it is written.
LEMMA OpenKeeps ==
  ASSUME Typed, PlaceInv, ChunkInv, MetaInv, NEW w \in Workers, OpenChunk(w)
  PROVE  PlaceInv' /\ ChunkInv' /\ MetaInv'
<1> PICK n \in Nat : n = nextIndexChunkId
  BY DEF Typed
<1>1. /\ UNCHANGED <<stage, queue, memIndex, metadata, metas, refused, reported>>
      /\ at[w] = "flush" /\ at'[w] = "chunk" /\ chunkId'[w] = n /\ nextIndexChunkId' = n + 1
      /\ \A v \in Workers \ {w} : at'[v] = at[v] /\ chunkId'[v] = chunkId[v]
  BY WorkersFlush DEF OpenChunk, Typed, queueVars, history
<1>2. /\ n \notin DOMAIN chunks /\ DOMAIN chunks' = DOMAIN chunks \cup {n} /\ chunks'[n] = Torn
      /\ \A k \in DOMAIN chunks : chunks'[k] = chunks[k]
  <2>1. n \notin DOMAIN chunks
    BY DEF ChunkInv
  <2>2. chunks' = Put(chunks, n, Torn)
    BY DEF OpenChunk
  <2> QED
    BY <2>1, <2>2 DEF Put
<1>3. Whole' = Whole
  BY <1>2 DEF Whole
<1>4. ASSUME NEW p \in Pages
      PROVE  PlaceOf(p)'
  <2>1. \A v \in Workers : v \in Threads(p) <=> v \in Threads(p)'
    BY <1>1 DEF Threads, Filling
  <2>2. Threads(p)' = Threads(p)
    BY <2>1 DEF Threads
  <2>3. Written(p)' = Written(p)
    BY <1>2, <1>3 DEF Written, Whole
  <2>4. Waiting(p)' = Waiting(p) /\ Lost(p)' = Lost(p)
    BY <1>1 DEF Waiting, Lost
  <2> QED
    BY <1>1, <2>2, <2>3, <2>4, PlaceSame DEF PlaceInv
<1>5. ChunkInv'
  <2>1. \A k \in DOMAIN chunks' :
          k \in Nat /\ k < nextIndexChunkId' /\ chunks'[k] \in Seq(Pages) \cup {Torn}
    BY <1>1, <1>2 DEF ChunkInv
  <2>2. ASSUME NEW v \in Workers
        PROVE  /\ metadata'[v] = memIndex'[v]
               /\ at'[v] \in {"chunk", "meta"} => chunkId'[v] \in DOMAIN chunks'
               /\ at'[v] = "chunk" => chunks'[chunkId'[v]] = Torn
               /\ at'[v] = "meta" => chunks'[chunkId'[v]] = memIndex'[v]
    BY <1>1, <1>2 DEF ChunkInv
  <2>3. ASSUME NEW v \in Workers, NEW u \in Workers,
               at'[v] = "chunk", at'[u] = "chunk", chunkId'[v] = chunkId'[u]
        PROVE  v = u
    BY <1>1, <1>2, <2>3 DEF ChunkInv
  <2> QED
    BY <2>1, <2>2, <2>3 DEF ChunkInv
<1>6. MetaInv'
  BY <1>1, <1>2, <1>3 DEF MetaInv, MetaBelongsToChunk, Whole
<1> QED
  BY <1>4, <1>5, <1>6 DEF PlaceInv

\* The pages of a thread are in its chunk from the moment that is written.
LEMMA WriteKeeps ==
  ASSUME Typed, PlaceInv, ChunkInv, MetaInv, NEW w \in Workers, WriteChunk(w)
  PROVE  PlaceInv' /\ ChunkInv' /\ MetaInv'
<1> PICK n : n = chunkId[w]
  OBVIOUS
<1> PICK docs \in Seq(Pages) : docs = memIndex[w]
  BY DEF Typed
<1>1. /\ UNCHANGED <<stage, queue, memIndex, metadata, chunkId, nextIndexChunkId, metas, refused,
                     reported>>
      /\ at[w] = "chunk" /\ at'[w] = "meta"
      /\ \A v \in Workers \ {w} : at'[v] = at[v]
  BY WorkersFlush DEF WriteChunk, Typed, queueVars, workerVars, history
<1>2. /\ n \in DOMAIN chunks /\ chunks[n] = Torn
      /\ DOMAIN chunks' = DOMAIN chunks /\ chunks'[n] = docs
      /\ \A k \in DOMAIN chunks \ {n} : chunks'[k] = chunks[k]
  <2>1. n \in DOMAIN chunks /\ chunks[n] = Torn
    BY <1>1 DEF ChunkInv
  <2>2. chunks' = Put(chunks, n, docs)
    BY DEF WriteChunk
  <2> QED
    BY <2>1, <2>2 DEF Put
<1>3. Torn \notin Seq(Pages)
  BY TornIs
<1>4. Whole' = Whole \cup {n} /\ n \notin Whole
  BY <1>2, <1>3 DEF Whole
<1>5. ASSUME NEW p \in Pages
      PROVE  PlaceOf(p)'
  <2>1. \A v \in Workers : v \in Threads(p)' <=> v \in Threads(p) /\ v # w
    BY <1>1 DEF Threads, Filling
  <2>2. w \in Threads(p) <=> p \in ToSet(docs)
    BY <1>1 DEF Threads, Filling
  <2>3. Threads(p)' = Threads(p) \ {w}
    BY <2>1 DEF Threads
  <2>4. Written(p)' = IF p \in ToSet(docs) THEN Written(p) \cup {n} ELSE Written(p)
    BY <1>2, <1>4 DEF Written, Whole
  <2>5. Waiting(p)' = Waiting(p) /\ Lost(p)' = Lost(p)
    BY <1>1 DEF Waiting, Lost
  <2>6. CASE p \notin ToSet(docs)
    <3>1. Threads(p)' = Threads(p) /\ Written(p)' = Written(p)
      BY <2>2, <2>3, <2>4, <2>6
    <3> QED
      BY <1>1, <2>5, <3>1, PlaceSame DEF PlaceInv
  <2>7. CASE p \in ToSet(docs)
    <3>1. /\ stage[p] # "new" /\ Threads(p) = {w} /\ Written(p) = {} /\ Waiting(p) = {}
          /\ Lost(p) = {}
      BY <2>2, <2>7 DEF PlaceInv, PlaceOf, Nowhere, Placed, Single
    <3>2. Threads(p)' = {} /\ Written(p)' = {n}
      BY <2>3, <2>4, <2>7, <3>1
    <3> QED
      BY <1>1, <2>5, <3>1, <3>2 DEF PlaceOf, Placed, Single
  <2> QED
    BY <2>6, <2>7
<1>6. ChunkInv'
  <2>1. \A k \in DOMAIN chunks' :
          k \in Nat /\ k < nextIndexChunkId' /\ chunks'[k] \in Seq(Pages) \cup {Torn}
    BY <1>1, <1>2 DEF ChunkInv
  <2>2. ASSUME NEW v \in Workers
        PROVE  /\ metadata'[v] = memIndex'[v]
               /\ at'[v] \in {"chunk", "meta"} => chunkId'[v] \in DOMAIN chunks'
               /\ at'[v] = "chunk" => chunks'[chunkId'[v]] = Torn
               /\ at'[v] = "meta" => chunks'[chunkId'[v]] = memIndex'[v]
    <3>1. CASE v = w
      BY <1>1, <1>2, <3>1 DEF ChunkInv
    <3>2. CASE v # w
      <4>1. at'[v] = at[v] /\ UNCHANGED <<chunkId, memIndex, metadata>>
        BY <1>1, <3>2
      <4>2. at[v] = "chunk" => chunkId[v] # n
        BY <1>1, <3>2 DEF ChunkInv
      <4>3. at[v] = "meta" => chunkId[v] # n
        BY <1>2, <1>3 DEF ChunkInv, Typed
      <4> QED
        BY <1>2, <4>1, <4>2, <4>3 DEF ChunkInv
    <3> QED
      BY <3>1, <3>2
  <2>3. \A v, u \in Workers :
          (at'[v] = "chunk" /\ at'[u] = "chunk" /\ chunkId'[v] = chunkId'[u]) => v = u
    BY <1>1 DEF ChunkInv
  <2> QED
    BY <2>1, <2>2, <2>3 DEF ChunkInv
<1>7. MetaInv'
  BY <1>1, <1>2, <1>4 DEF MetaInv, MetaBelongsToChunk, Whole
<1> QED
  BY <1>5, <1>6, <1>7 DEF PlaceInv

\* A failure: the pages of the thread are reported.
LEMMA FailKeeps ==
  ASSUME Typed, PlaceInv, ChunkInv, MetaInv, NEW w \in Workers, ChunkFails(w)
  PROVE  PlaceInv' /\ ChunkInv' /\ MetaInv'
<1> PICK docs \in Seq(Pages) : docs = memIndex[w]
  BY DEF Typed
<1>1. /\ UNCHANGED <<stage, queue, chunkId, chunks, metas, refused>>
      /\ at[w] \in {"flush", "chunk"} /\ at'[w] = "gone"
      /\ memIndex'[w] = <<>> /\ metadata'[w] = <<>> /\ reported' = reported \cup ToSet(docs)
      /\ \A v \in Workers \ {w} :
           at'[v] = at[v] /\ memIndex'[v] = memIndex[v] /\ metadata'[v] = metadata[v]
  BY WorkersFlush DEF ChunkFails, Typed, queueVars, diskVars
<1>2. nextIndexChunkId' \in {nextIndexChunkId, nextIndexChunkId + 1} /\ nextIndexChunkId \in Nat
  BY DEF ChunkFails, Typed
<1>3. ASSUME NEW p \in Pages
      PROVE  PlaceOf(p)'
  <2>1. \A v \in Workers : v \in Threads(p)' <=> v \in Threads(p) /\ v # w
    BY <1>1 DEF Threads, Filling
  <2>2. w \in Threads(p) <=> p \in ToSet(docs)
    BY <1>1 DEF Threads, Filling
  <2>3. Threads(p)' = Threads(p) \ {w}
    BY <2>1 DEF Threads
  <2>4. Lost(p)' = IF p \in ToSet(docs) THEN {p} ELSE Lost(p)
    BY <1>1 DEF Lost
  <2>5. Waiting(p)' = Waiting(p) /\ Written(p)' = Written(p)
    BY <1>1 DEF Waiting, Written, Whole
  <2>6. CASE p \notin ToSet(docs)
    <3>1. Threads(p)' = Threads(p) /\ Lost(p)' = Lost(p)
      BY <2>2, <2>3, <2>4, <2>6
    <3> QED
      BY <1>1, <2>5, <3>1, PlaceSame DEF PlaceInv
  <2>7. CASE p \in ToSet(docs)
    <3>1. /\ stage[p] # "new" /\ Threads(p) = {w} /\ Written(p) = {} /\ Waiting(p) = {}
          /\ Lost(p) = {}
      BY <2>2, <2>7 DEF PlaceInv, PlaceOf, Nowhere, Placed, Single
    <3>2. Threads(p)' = {} /\ Lost(p)' = {p}
      BY <2>3, <2>4, <2>7, <3>1
    <3> QED
      BY <1>1, <2>5, <3>1, <3>2 DEF PlaceOf, Placed, Single
  <2> QED
    BY <2>6, <2>7
<1>4. ChunkInv'
  <2>1. \A k \in DOMAIN chunks' :
          k \in Nat /\ k < nextIndexChunkId' /\ chunks'[k] \in Seq(Pages) \cup {Torn}
    BY <1>1, <1>2 DEF ChunkInv
  <2>2. \A v \in Workers : metadata'[v] = memIndex'[v]
    BY <1>1 DEF ChunkInv
  <2> QED
    BY <1>1, <2>1, <2>2 DEF ChunkInv
<1>5. MetaInv'
  BY <1>1 DEF MetaInv, MetaBelongsToChunk, Whole
<1> QED
  BY <1>3, <1>4, <1>5 DEF PlaceInv

\* The metadata is written, or skipped.
LEMMA MetaKeeps ==
  ASSUME Typed, PlaceInv, ChunkInv, MetaInv, NEW w \in Workers, WriteMeta(w)
  PROVE  PlaceInv' /\ ChunkInv' /\ MetaInv'
<1> PICK n : n = chunkId[w]
  OBVIOUS
<1>1. /\ UNCHANGED <<stage, queue, memIndex, metadata, chunkId, nextIndexChunkId, chunks, refused,
                     reported>>
      /\ at[w] = "meta" /\ at'[w] = "swap"
      /\ \A v \in Workers \ {w} : at'[v] = at[v]
  BY WorkersFlush DEF WriteMeta, Typed, queueVars, workerVars
<1>2. ASSUME NEW p \in Pages
      PROVE  PlaceOf(p)'
  <2>1. \A v \in Workers : v \in Threads(p) <=> v \in Threads(p)'
    BY <1>1 DEF Threads, Filling
  <2>2. Threads(p)' = Threads(p)
    BY <2>1 DEF Threads
  <2>3. Written(p)' = Written(p) /\ Waiting(p)' = Waiting(p) /\ Lost(p)' = Lost(p)
    BY <1>1 DEF Written, Whole, Waiting, Lost
  <2> QED
    BY <1>1, <2>2, <2>3, PlaceSame DEF PlaceInv
<1>3. ChunkInv'
  BY <1>1 DEF ChunkInv
<1>4. MetaInv'
  <2>1. CASE UNCHANGED metas
    BY <1>1, <2>1 DEF MetaInv, MetaBelongsToChunk, Whole
  <2>2. CASE metas' = Put(metas, n, metadata[w])
    <3>1. /\ DOMAIN metas' = DOMAIN metas \cup {n} /\ metas'[n] = metadata[w]
          /\ \A k \in DOMAIN metas \ {n} : metas'[k] = metas[k]
      BY <2>2 DEF Put
    <3>2. n \in DOMAIN chunks /\ chunks[n] = metadata[w] /\ metadata[w] \in Seq(Pages)
      BY <1>1 DEF ChunkInv, Typed
    <3>4. n \in Whole
      BY <3>2, TornIs DEF Whole
    <3> QED
      BY <1>1, <3>1, <3>2, <3>4 DEF MetaInv, MetaBelongsToChunk, Whole
  <2> QED
    BY <2>1, <2>2 DEF WriteMeta
<1> QED
  BY <1>2, <1>3, <1>4 DEF PlaceInv

\* All of them together.
LEMMA PagesNext ==
  ASSUME Typed, PlaceInv, ChunkInv, MetaInv, [Next]_vars
  PROVE  PlaceInv' /\ ChunkInv' /\ MetaInv'
<1>1. ASSUME NEW p \in Pages, Crawler(p)
      PROVE  PlaceInv' /\ ChunkInv' /\ MetaInv'
  <2>1. CASE PushPage(p)
    BY <2>1, PushKeeps
  <2>2. CASE AppendAnchorTerms(p)
    BY <2>2, OtherQuiet, QuietKeeps
  <2> QED
    BY <1>1, <2>1, <2>2 DEF Crawler
<1>2. ASSUME NEW w \in Workers, IndexWorker(w)
      PROVE  PlaceInv' /\ ChunkInv' /\ MetaInv'
  BY <1>2, TakeKeeps, LeaveKeeps, OpenKeeps, WriteKeeps, FailKeeps, MetaKeeps DEF IndexWorker
<1>3. ASSUME NEW t \in Flushers, FlushAnchorIndex(t)
      PROVE  PlaceInv' /\ ChunkInv' /\ MetaInv'
  BY <1>3, FlushQuiet, QuietKeeps
<1>4. CASE StartFinalFlush \/ Shutdown \/ UNCHANGED vars
  BY <1>4, OtherQuiet, QuietKeeps
<1> QED
  BY <1>1, <1>2, <1>3, <1>4 DEF Next

-----------------------------------------------------------------------------
(* The flushes of anchor texts *)

\* Steps that no flush of anchor texts sees.
Apart ==
  /\ UNCHANGED <<table, anchorIndexEdited, flushVars, overlapped, freed, Appended>>
  /\ \A t \in Flushers, s \in {"number", "open", "write", "rename"} : at'[t] = s <=> at[t] = s

LEMMA WorkerApart ==
  ASSUME Typed, NEW w \in Workers, IndexWorker(w)
  PROVE  Apart
<1>1. UNCHANGED <<table, anchorIndexEdited, flushVars, overlapped, freed, stage>>
  BY DEF IndexWorker, TakePage, LeaveLoop, OpenChunk, WriteChunk, ChunkFails, WriteMeta,
     queueVars, tableVars, history
<1>2. /\ at[w] \in {"loop", "flush", "chunk", "meta"}
      /\ at'[w] \in {"loop", "flush", "chunk", "meta", "gone", "swap"}
      /\ \A t \in Flushers \ {w} : at'[t] = at[t]
  BY WorkersFlush DEF Typed, IndexWorker, TakePage, LeaveLoop, OpenChunk, WriteChunk, ChunkFails,
     WriteMeta
<1> QED
  BY <1>1, <1>2 DEF Apart, Appended

LEMMA OtherApart ==
  ASSUME Typed, \/ \E p \in Pages : PushPage(p)
                \/ StartFinalFlush \/ Shutdown \/ UNCHANGED vars
  PROVE  Apart
<1> USE DEF queueVars, tableVars, history
<1>1. ASSUME NEW p \in Pages, PushPage(p)
      PROVE  Apart
  BY <1>1, AnchoredAssumption DEF PushPage, Apart, Appended, Typed
<1>2. CASE StartFinalFlush
  BY <1>2, WorkersFlush DEF StartFinalFlush, Apart, Appended, Typed
<1>3. CASE Shutdown
  BY <1>3 DEF Shutdown, Apart, Appended
<1>4. CASE UNCHANGED vars
  BY <1>4 DEF vars, Apart, Appended
<1> QED
  BY <1>1, <1>2, <1>3, <1>4

LEMMA ApartKeeps ==
  ASSUME Apart, FlushTyped, AnchorInv
  PROVE  FlushTyped' /\ AnchorInv'
<1>1. \A t \in Flushers : InFlush(t)' <=> InFlush(t)
  BY DEF Apart, InFlush
<1>2. UNCHANGED <<table, anchorIndexEdited, anchorFlushFileCount, snapshot, fileCount, target,
                  tmpFile, anchorFiles, inodes, fd, overlapped, freed, Appended>>
  BY DEF Apart, flushVars
<1>3. FlushTyped'
  BY <1>1, <1>2 DEF FlushTyped
<1>4. AloneInv => AloneInv'
  BY <1>1, <1>2 DEF AloneInv, Apart
<1> QED
  BY <1>2, <1>3, <1>4 DEF AnchorInv, TextsInHand, TextsOnDisk, Values

\* A page's texts go into the table.
LEMMA AppendKeeps ==
  ASSUME Typed, FlushTyped, AnchorInv, NEW p \in Pages, AppendAnchorTerms(p)
  PROVE  FlushTyped' /\ AnchorInv'
<1>1. UNCHANGED <<at, anchorFlushFileCount, snapshot, fileCount, target, tmpFile, anchorFiles,
                  inodes, fd, overlapped, freed>>
  BY DEF AppendAnchorTerms, flushVars, history
<1>2. /\ table' \in [id : Nat, texts : SUBSET Pages] /\ table'.id = table.id
      /\ table'.texts = table.texts \cup ({p} \cap Anchored)
      /\ anchorIndexEdited' = (anchorIndexEdited \/ p \in Anchored)
  BY DEF AppendAnchorTerms, FlushTyped
<1>3. \A t \in Flushers : InFlush(t)' <=> InFlush(t)
  BY <1>1 DEF InFlush
<1>4. FlushTyped'
  BY <1>1, <1>2, <1>3 DEF FlushTyped
<1>5. AloneInv => AloneInv'
  BY <1>1, <1>2, <1>3 DEF AloneInv
<1>6. Appended' \subseteq Appended \cup ({p} \cap Anchored)
  BY DEF AppendAnchorTerms, Appended, Typed
<1>7. TextsInHand' = TextsInHand /\ TextsOnDisk' = TextsOnDisk
  BY <1>1 DEF TextsInHand, TextsOnDisk, Values
<1> QED
  BY <1>1, <1>2, <1>4, <1>5, <1>6, <1>7 DEF AnchorInv

\* Where a flush goes; the others stay where they are.
LEMMA FlushMoves ==
  ASSUME Typed, NEW t \in Flushers, FlushAnchorIndex(t)
  PROVE  /\ \A u \in Flushers \ {t} : at'[u] = at[u] /\ (InFlush(u)' <=> InFlush(u))
         /\ SwapTable(t) => at'[t] = "number"
         /\ ReadNumber(t) => at'[t] = "open"
         /\ OpenTmp(t) => at'[t] = "write"
         /\ WriteTmp(t) => at'[t] = "rename"
         /\ SwapNothing(t) \/ Rename(t) \/ RestoreSnapshot(t) => at'[t] \in {"loop", "gone"}
<1>1. \A u \in Flushers \ {t} : at'[u] = at[u]
  BY DEF FlushAnchorIndex, SwapNothing, SwapTable, ReadNumber, OpenTmp, WriteTmp, Rename,
     RestoreSnapshot, AfterFlush, Typed
<1>2. \A u \in Flushers \ {t} : InFlush(u)' <=> InFlush(u)
  BY <1>1 DEF InFlush
<1>3. SwapNothing(t) \/ Rename(t) \/ RestoreSnapshot(t) => at'[t] \in {"loop", "gone"}
  BY DEF SwapNothing, Rename, RestoreSnapshot, AfterFlush, Typed
<1> QED
  BY <1>1, <1>2, <1>3 DEF SwapTable, ReadNumber, OpenTmp, WriteTmp, Typed

\* A flush without anything to write; the table it may replace is empty.
LEMMA SwapNothingKeeps ==
  ASSUME Typed, FlushTyped, AnchorInv, NEW t \in Flushers, SwapNothing(t)
  PROVE  FlushTyped' /\ AnchorInv'
<1>1. /\ at[t] = "swap" /\ at'[t] \in {"loop", "gone"}
      /\ \A u \in Flushers \ {t} : at'[u] = at[u]
      /\ \A u \in Flushers : InFlush(u)' <=> InFlush(u)
      /\ ~InFlush(t)
  BY FlushMoves DEF FlushAnchorIndex, SwapNothing, InFlush
<1>2. UNCHANGED <<stage, anchorFlushFileCount, snapshot, fileCount, target, tmpFile, anchorFiles,
                  inodes, fd, freed>>
  BY DEF SwapNothing, queueVars, flushVars
<1>3. \/ UNCHANGED <<table, anchorIndexEdited>>
      \/ /\ table.texts = {} /\ table' = [id |-> table.id + 1, texts |-> {}]
         /\ anchorIndexEdited' = FALSE
  BY DEF SwapNothing, tableVars
<1>4. overlapped' = (overlapped \/ (table'.id # table.id /\ \E u \in Flushers \ {t} : InFlush(u)))
  BY DEF SwapNothing
<1>5. /\ table' \in [id : Nat, texts : SUBSET Pages] /\ table'.texts = table.texts
      /\ table'.texts # {} => anchorIndexEdited'
  <2>1. CASE UNCHANGED <<table, anchorIndexEdited>>
    BY <2>1 DEF FlushTyped
  <2>2. CASE table.texts = {} /\ table' = [id |-> table.id + 1, texts |-> {}]
    BY <2>2 DEF FlushTyped
  <2> QED
    BY <1>3, <2>1, <2>2
<1>6. FlushTyped'
  BY <1>1, <1>2, <1>5 DEF FlushTyped
<1>7. ASSUME ~overlapped'
      PROVE  /\ AloneInv' /\ ~freed'
             /\ Appended' \subseteq table'.texts \cup TextsInHand' \cup TextsOnDisk'
  <2>1. AloneInv /\ ~freed /\ Appended \subseteq table.texts \cup TextsInHand \cup TextsOnDisk
    BY <1>4, <1>7 DEF AnchorInv
  <2>2. ASSUME NEW u \in Flushers, InFlush(u)
        PROVE  table'.id = table.id
    BY <1>1, <1>4, <1>7, <2>2
  <2>3. ASSUME NEW u \in Flushers
        PROVE  /\ at'[u] \in {"open", "write", "rename"} =>
                    target'[u] = table'.id /\ fileCount'[u] = anchorFlushFileCount'
               /\ at'[u] \in {"write", "rename"} =>
                    fileCount'[u] \in DOMAIN tmpFile' /\ fd'[u] = tmpFile'[fileCount'[u]]
               /\ at'[u] = "rename" => snapshot'[u] \subseteq inodes'[fd'[u]]
    <3>1. CASE u = t
      BY <1>1, <3>1
    <3>2. CASE u # t
      BY <1>1, <1>2, <2>1, <2>2, <3>2 DEF AloneInv, InFlush
    <3> QED
      BY <3>1, <3>2
  <2>4. AloneInv'
    <3>1. \A v, u \in Flushers : InFlush(v)' /\ InFlush(u)' => v = u
      BY <1>1, <2>1 DEF AloneInv
    <3> QED
      BY <1>2, <2>1, <2>3, <3>1 DEF AloneInv
  <2>5. Appended' = Appended /\ TextsInHand' = TextsInHand /\ TextsOnDisk' = TextsOnDisk
    BY <1>2 DEF Appended, TextsInHand, TextsOnDisk, Values
  <2> QED
    BY <1>2, <1>5, <2>1, <2>4, <2>5
<1> QED
  BY <1>6, <1>7 DEF AnchorInv

\* Nobody else is in a flush: the snapshot takes all the texts of the table.
LEMMA SwapTableKeeps ==
  ASSUME Typed, FlushTyped, AnchorInv, NEW t \in Flushers, SwapTable(t)
  PROVE  FlushTyped' /\ AnchorInv'
<1>1. /\ at[t] = "swap" /\ at'[t] = "number" /\ ~InFlush(t) /\ InFlush(t)'
      /\ \A u \in Flushers \ {t} : at'[u] = at[u] /\ (InFlush(u)' <=> InFlush(u))
  BY FlushMoves DEF FlushAnchorIndex, SwapTable, InFlush
<1>2. UNCHANGED <<stage, anchorFlushFileCount, fileCount, target, tmpFile, anchorFiles,
                  inodes, fd, freed>>
  BY DEF SwapTable, queueVars
<1>3. /\ table' = [id |-> table.id + 1, texts |-> {}]
      /\ overlapped' = (overlapped \/ \E u \in Flushers \ {t} : InFlush(u))
  BY DEF SwapTable
<1>4. /\ snapshot' \in [Flushers -> SUBSET Pages] /\ snapshot'[t] = table.texts
      /\ \A u \in Flushers \ {t} : snapshot'[u] = snapshot[u]
  BY DEF SwapTable, FlushTyped
<1>5. table' \in [id : Nat, texts : SUBSET Pages] /\ table'.texts = {}
  BY <1>3 DEF FlushTyped
<1>6. FlushTyped'
  BY <1>1, <1>2, <1>4, <1>5 DEF FlushTyped
<1>7. ASSUME ~overlapped'
      PROVE  /\ AloneInv' /\ ~freed'
             /\ Appended' \subseteq table'.texts \cup TextsInHand' \cup TextsOnDisk'
  <2>1. AloneInv /\ ~freed /\ Appended \subseteq table.texts \cup TextsInHand \cup TextsOnDisk
    BY <1>3, <1>7 DEF AnchorInv
  <2>2. \A u \in Flushers : ~InFlush(u)
    BY <1>1, <1>3, <1>7
  <2>3. \A u \in Flushers : at'[u] \notin {"open", "write", "rename"}
    BY <1>1, <2>2 DEF InFlush
  <2>4. \A v, u \in Flushers : InFlush(v)' /\ InFlush(u)' => v = u
    BY <1>1, <2>2
  <2>5. AloneInv'
    BY <1>2, <2>1, <2>3, <2>4 DEF AloneInv
  <2>6. TextsInHand = {} /\ table.texts \subseteq TextsInHand'
    <3>1. \A u \in Flushers : snapshot[u] = {}
      BY <2>2 DEF FlushTyped
    <3>2. DOMAIN snapshot = Flushers /\ DOMAIN snapshot' = Flushers
      BY <1>4 DEF FlushTyped
    <3>3. TextsInHand = {}
      BY <3>1, <3>2 DEF TextsInHand, Values
    <3>4. table.texts \subseteq TextsInHand'
      BY <1>4, <3>2 DEF TextsInHand, Values
    <3> QED
      BY <3>3, <3>4
  <2>7. Appended' = Appended /\ TextsOnDisk' = TextsOnDisk
    BY <1>2 DEF Appended, TextsOnDisk, Values
  <2> QED
    BY <1>2, <2>1, <2>5, <2>6, <2>7
<1> QED
  BY <1>6, <1>7 DEF AnchorInv

\* The number and the pointer are those of the moment.
LEMMA ReadNumberKeeps ==
  ASSUME Typed, FlushTyped, AnchorInv, NEW t \in Flushers, ReadNumber(t)
  PROVE  FlushTyped' /\ AnchorInv'
<1>1. /\ at[t] = "number" /\ at'[t] = "open" /\ InFlush(t) /\ InFlush(t)'
      /\ \A u \in Flushers \ {t} : at'[u] = at[u] /\ (InFlush(u)' <=> InFlush(u))
  BY FlushMoves DEF FlushAnchorIndex, ReadNumber, InFlush
<1>2. UNCHANGED <<stage, table, anchorIndexEdited, anchorFlushFileCount, snapshot, tmpFile,
                  anchorFiles, inodes, fd, overlapped, freed>>
  BY DEF ReadNumber, queueVars, tableVars, history
<1>3. /\ fileCount' \in [Flushers -> Nat] /\ target' \in [Flushers -> Nat]
      /\ fileCount'[t] = anchorFlushFileCount /\ target'[t] = table.id
      /\ \A u \in Flushers \ {t} : fileCount'[u] = fileCount[u] /\ target'[u] = target[u]
  BY DEF ReadNumber, FlushTyped
<1>4. FlushTyped'
  BY <1>1, <1>2, <1>3 DEF FlushTyped
<1>5. ASSUME AloneInv
      PROVE  AloneInv'
  <2>1. \A v, u \in Flushers : InFlush(v)' /\ InFlush(u)' => v = u
    BY <1>1, <1>5 DEF AloneInv
  <2>2. ASSUME NEW u \in Flushers
        PROVE  /\ at'[u] \in {"open", "write", "rename"} =>
                    target'[u] = table'.id /\ fileCount'[u] = anchorFlushFileCount'
               /\ at'[u] \in {"write", "rename"} =>
                    fileCount'[u] \in DOMAIN tmpFile' /\ fd'[u] = tmpFile'[fileCount'[u]]
               /\ at'[u] = "rename" => snapshot'[u] \subseteq inodes'[fd'[u]]
    BY <1>1, <1>2, <1>3, <1>5 DEF AloneInv
  <2> QED
    BY <1>2, <1>5, <2>1, <2>2 DEF AloneInv
<1> QED
  BY <1>2, <1>4, <1>5 DEF AnchorInv, Appended, TextsInHand, TextsOnDisk, Values

\* A new temporary file is empty, and so is one that a failed flush has left
\* under this number; no finished file is touched.
LEMMA OpenTmpKeeps ==
  ASSUME Typed, FlushTyped, AnchorInv, NEW t \in Flushers, OpenTmp(t)
  PROVE  FlushTyped' /\ AnchorInv'
<1> PICK n \in Nat : n = fileCount[t]
  BY DEF FlushTyped
<1> DEFINE j == IF n \notin DOMAIN tmpFile THEN Len(inodes) + 1 ELSE tmpFile[n]
<1> PICK i : i = j
  OBVIOUS
<1> HIDE DEF j
<1>1. /\ at[t] = "open" /\ at'[t] = "write" /\ InFlush(t) /\ InFlush(t)'
      /\ \A u \in Flushers \ {t} : at'[u] = at[u] /\ (InFlush(u)' <=> InFlush(u))
  BY FlushMoves DEF FlushAnchorIndex, OpenTmp, InFlush
<1>2. UNCHANGED <<stage, table, anchorIndexEdited, anchorFlushFileCount, snapshot, fileCount,
                  target, anchorFiles, overlapped, freed>>
  BY DEF OpenTmp, queueVars, tableVars, history
<1>3. /\ tmpFile' = Put(tmpFile, n, i) /\ fd' = [fd EXCEPT ![t] = i]
      /\ inodes' = IF n \notin DOMAIN tmpFile THEN Append(inodes, {})
                   ELSE [inodes EXCEPT ![i] = {}]
  BY DEF OpenTmp, j
<1>4. /\ DOMAIN tmpFile' = DOMAIN tmpFile \cup {n} /\ tmpFile'[n] = i
      /\ \A k \in DOMAIN tmpFile \ {n} : tmpFile'[k] = tmpFile[k]
  BY <1>3 DEF Put
<1>5. /\ inodes' \in Seq(SUBSET Pages) /\ i \in DOMAIN inodes' /\ i \in Nat
      /\ DOMAIN inodes \subseteq DOMAIN inodes'
      /\ \A k \in DOMAIN inodes \ {i} : inodes'[k] = inodes[k]
      /\ n \notin DOMAIN tmpFile => i \notin DOMAIN inodes
      /\ n \in DOMAIN tmpFile => i = tmpFile[n]
  <2>1. inodes \in Seq(SUBSET Pages) /\ Len(inodes) \in Nat /\ {} \in SUBSET Pages
    BY DEF FlushTyped
  <2>2. CASE n \notin DOMAIN tmpFile
    <3>1. i = Len(inodes) + 1 /\ inodes' = Append(inodes, {})
      BY <1>3, <2>2 DEF j
    <3> QED
      BY <2>1, <2>2, <3>1
  <2>3. CASE n \in DOMAIN tmpFile
    <3>1. i = tmpFile[n] /\ inodes' = [inodes EXCEPT ![i] = {}] /\ i \in DOMAIN inodes
      BY <1>3, <2>3 DEF j, FlushTyped
    <3>2. inodes' \in Seq(SUBSET Pages) /\ DOMAIN inodes' = DOMAIN inodes
      BY <2>1, <3>1, ExceptSeq
    <3> QED
      BY <2>1, <2>3, <3>1, <3>2
  <2> QED
    BY <2>2, <2>3
<1>6. /\ fd' \in [Flushers -> Nat] /\ fd'[t] = i
      /\ \A u \in Flushers \ {t} : fd'[u] = fd[u]
  BY <1>3, <1>5 DEF FlushTyped
<1>7. FlushTyped'
  <2>1. \A k \in DOMAIN tmpFile' : tmpFile'[k] \in DOMAIN inodes'
    BY <1>4, <1>5 DEF FlushTyped
  <2>2. \A k \in DOMAIN anchorFiles : anchorFiles[k] \in DOMAIN inodes'
    BY <1>5 DEF FlushTyped
  <2> QED
    BY <1>1, <1>2, <1>5, <1>6, <2>1, <2>2 DEF FlushTyped
<1>8. ASSUME AloneInv
      PROVE  AloneInv' /\ TextsOnDisk' = TextsOnDisk
  <2>1. n = anchorFlushFileCount
    BY <1>1, <1>8 DEF AloneInv
  <2>2. \A k \in DOMAIN anchorFiles : anchorFiles[k] # i /\ anchorFiles[k] \in DOMAIN inodes
    BY <1>5, <1>8 DEF AloneInv, FlushTyped
  <2>3. \A v, u \in Flushers : InFlush(v)' /\ InFlush(u)' => v = u
    BY <1>1, <1>8 DEF AloneInv
  <2>4. ASSUME NEW u \in Flushers
        PROVE  /\ at'[u] \in {"open", "write", "rename"} =>
                    target'[u] = table'.id /\ fileCount'[u] = anchorFlushFileCount'
               /\ at'[u] \in {"write", "rename"} =>
                    fileCount'[u] \in DOMAIN tmpFile' /\ fd'[u] = tmpFile'[fileCount'[u]]
               /\ at'[u] = "rename" => snapshot'[u] \subseteq inodes'[fd'[u]]
    <3>1. CASE u = t
      BY <1>1, <1>2, <1>4, <1>6, <1>8, <2>1, <3>1 DEF AloneInv
    <3>2. CASE u # t
      <4>1. ~InFlush(u) /\ at'[u] = at[u]
        BY <1>1, <1>8, <3>2 DEF AloneInv
      <4> QED
        BY <4>1 DEF InFlush
    <3> QED
      BY <3>1, <3>2
  <2>5. DOMAIN tmpFile' \subseteq {anchorFlushFileCount}
    BY <1>4, <1>8, <2>1 DEF AloneInv
  <2>6. \A m \in DOMAIN anchorFiles : \A k \in DOMAIN tmpFile' : tmpFile'[k] # anchorFiles[m]
    BY <1>4, <1>8, <2>2 DEF AloneInv
  <2>7. AloneInv'
    BY <1>2, <1>8, <2>3, <2>4, <2>5, <2>6 DEF AloneInv
  <2>8. TextsOnDisk' = TextsOnDisk
    <3>1. \A k \in Values(anchorFiles) : inodes'[k] = inodes[k]
      BY <1>5, <2>2 DEF Values
    <3> QED
      BY <1>2, <3>1 DEF TextsOnDisk, Values
  <2> QED
    BY <2>7, <2>8
<1>9. Appended' = Appended /\ TextsInHand' = TextsInHand
  BY <1>2 DEF Appended, TextsInHand, Values
<1> QED
  BY <1>2, <1>7, <1>8, <1>9 DEF AnchorInv

\* The temporary file gets the snapshot.
LEMMA WriteTmpKeeps ==
  ASSUME Typed, FlushTyped, AnchorInv, NEW t \in Flushers, WriteTmp(t)
  PROVE  FlushTyped' /\ AnchorInv'
<1> PICK i : i = fd[t]
  OBVIOUS
<1>1. /\ at[t] = "write" /\ at'[t] = "rename" /\ InFlush(t) /\ InFlush(t)'
      /\ \A u \in Flushers \ {t} : at'[u] = at[u] /\ (InFlush(u)' <=> InFlush(u))
  BY FlushMoves DEF FlushAnchorIndex, WriteTmp, InFlush
<1>2. UNCHANGED <<stage, table, anchorIndexEdited, anchorFlushFileCount, snapshot, fileCount,
                  target, tmpFile, anchorFiles, fd, overlapped, freed>>
  BY DEF WriteTmp, queueVars, tableVars, history
<1>3. PICK tail \in SUBSET inodes[i] : inodes' = [inodes EXCEPT ![i] = snapshot[t] \cup tail]
  BY DEF WriteTmp
<1>4. /\ inodes' \in Seq(SUBSET Pages) /\ DOMAIN inodes' = DOMAIN inodes
      /\ \A k \in DOMAIN inodes \ {i} : inodes'[k] = inodes[k]
      /\ i \in DOMAIN inodes => snapshot[t] \subseteq inodes'[i]
  <2>1. inodes \in Seq(SUBSET Pages) /\ snapshot[t] \in SUBSET Pages
    BY DEF FlushTyped
  <2>2. CASE i \in DOMAIN inodes
    <3>1. inodes[i] \in SUBSET Pages
      BY <2>1, <2>2
    <3>2. snapshot[t] \cup tail \in SUBSET Pages
      BY <2>1, <3>1
    <3>3. inodes' \in Seq(SUBSET Pages) /\ DOMAIN inodes' = DOMAIN inodes
      BY <1>3, <2>1, <2>2, <3>2, ExceptSeq
    <3> QED
      BY <1>3, <2>2, <3>3
  <2>3. CASE i \notin DOMAIN inodes
    <3>1. inodes' = inodes
      BY <1>3, <2>1, <2>3
    <3> QED
      BY <2>1, <2>3, <3>1
  <2> QED
    BY <2>2, <2>3
<1>5. FlushTyped'
  BY <1>1, <1>2, <1>4 DEF FlushTyped
<1>6. ASSUME AloneInv
      PROVE  AloneInv' /\ TextsOnDisk' = TextsOnDisk
  <2>1. fileCount[t] \in DOMAIN tmpFile /\ i = tmpFile[fileCount[t]] /\ i \in DOMAIN inodes
    BY <1>1, <1>6 DEF AloneInv, FlushTyped
  <2>2. \A k \in DOMAIN anchorFiles : anchorFiles[k] # i /\ anchorFiles[k] \in DOMAIN inodes
    BY <1>6, <2>1 DEF AloneInv, FlushTyped
  <2>3. \A v, u \in Flushers : InFlush(v)' /\ InFlush(u)' => v = u
    BY <1>1, <1>6 DEF AloneInv
  <2>4. ASSUME NEW u \in Flushers
        PROVE  /\ at'[u] \in {"open", "write", "rename"} =>
                    target'[u] = table'.id /\ fileCount'[u] = anchorFlushFileCount'
               /\ at'[u] \in {"write", "rename"} =>
                    fileCount'[u] \in DOMAIN tmpFile' /\ fd'[u] = tmpFile'[fileCount'[u]]
               /\ at'[u] = "rename" => snapshot'[u] \subseteq inodes'[fd'[u]]
    <3>1. CASE u = t
      BY <1>1, <1>2, <1>4, <1>6, <2>1, <3>1 DEF AloneInv
    <3>2. CASE u # t
      <4>1. ~InFlush(u) /\ at'[u] = at[u]
        BY <1>1, <1>6, <3>2 DEF AloneInv
      <4> QED
        BY <4>1 DEF InFlush
    <3> QED
      BY <3>1, <3>2
  <2>5. AloneInv'
    BY <1>2, <1>6, <2>3, <2>4 DEF AloneInv
  <2>6. TextsOnDisk' = TextsOnDisk
    <3>1. \A k \in Values(anchorFiles) : inodes'[k] = inodes[k]
      BY <1>4, <2>2 DEF Values
    <3> QED
      BY <1>2, <3>1 DEF TextsOnDisk, Values
  <2> QED
    BY <2>5, <2>6
<1>7. Appended' = Appended /\ TextsInHand' = TextsInHand
  BY <1>2 DEF Appended, TextsInHand, Values
<1> QED
  BY <1>2, <1>5, <1>6, <1>7 DEF AnchorInv

\* The snapshot is on disk, under a number that no file had.
LEMMA RenameKeeps ==
  ASSUME Typed, FlushTyped, AnchorInv, NEW t \in Flushers, Rename(t)
  PROVE  FlushTyped' /\ AnchorInv'
<1> PICK n \in Nat : n = fileCount[t]
  BY DEF FlushTyped
<1> PICK i : i = tmpFile[n]
  OBVIOUS
<1>1. /\ at[t] = "rename" /\ at'[t] \in {"loop", "gone"} /\ InFlush(t) /\ ~InFlush(t)'
      /\ \A u \in Flushers \ {t} : at'[u] = at[u] /\ (InFlush(u)' <=> InFlush(u))
  BY FlushMoves DEF FlushAnchorIndex, Rename, InFlush
<1>2. UNCHANGED <<stage, table, anchorIndexEdited, fileCount, target, inodes, fd, overlapped, freed>>
  BY DEF Rename, queueVars, tableVars, history
<1>3. /\ n \in DOMAIN tmpFile /\ i \in DOMAIN inodes
      /\ anchorFiles' = Put(anchorFiles, n, i)
      /\ tmpFile' = [k \in DOMAIN tmpFile \ {n} |-> tmpFile[k]]
      /\ anchorFlushFileCount' = anchorFlushFileCount + 1
  BY DEF Rename, FlushTyped
<1>4. /\ DOMAIN anchorFiles' = DOMAIN anchorFiles \cup {n} /\ anchorFiles'[n] = i
      /\ \A k \in DOMAIN anchorFiles \ {n} : anchorFiles'[k] = anchorFiles[k]
  BY <1>3 DEF Put
<1>5. /\ DOMAIN tmpFile' = DOMAIN tmpFile \ {n}
      /\ \A k \in DOMAIN tmpFile' : tmpFile'[k] = tmpFile[k]
  BY <1>3
<1>6. /\ snapshot' \in [Flushers -> SUBSET Pages] /\ snapshot'[t] = {}
      /\ \A u \in Flushers \ {t} : snapshot'[u] = snapshot[u]
  BY DEF Rename, FlushTyped
<1>7. FlushTyped'
  <2>1. \A k \in DOMAIN tmpFile' : tmpFile'[k] \in DOMAIN inodes'
    BY <1>2, <1>5 DEF FlushTyped
  <2>2. \A k \in DOMAIN anchorFiles' : anchorFiles'[k] \in DOMAIN inodes'
    BY <1>2, <1>3, <1>4 DEF FlushTyped
  <2>3. anchorFlushFileCount' \in Nat
    BY <1>3 DEF FlushTyped
  <2> QED
    BY <1>1, <1>2, <1>6, <2>1, <2>2, <2>3 DEF FlushTyped
<1>8. ASSUME AloneInv
      PROVE  /\ AloneInv'
             /\ TextsInHand \cup TextsOnDisk \subseteq TextsInHand' \cup TextsOnDisk'
  <2>1. /\ n = anchorFlushFileCount /\ n \notin DOMAIN anchorFiles /\ fd[t] = i
        /\ snapshot[t] \subseteq inodes[i]
    BY <1>1, <1>8 DEF AloneInv
  <2>2. \A u \in Flushers : ~InFlush(u)'
    BY <1>1, <1>8 DEF AloneInv
  <2>3. \A u \in Flushers : at'[u] \notin {"open", "write", "rename"}
    BY <2>2 DEF InFlush
  <2>4. DOMAIN tmpFile' = {}
    BY <1>5, <1>8, <2>1 DEF AloneInv
  <2>5. \A k \in DOMAIN anchorFiles' : k \in Nat /\ k < anchorFlushFileCount'
    BY <1>3, <1>4, <1>8, <2>1 DEF AloneInv
  <2>6. AloneInv'
    BY <2>2, <2>3, <2>4, <2>5 DEF AloneInv
  <2>7. TextsOnDisk \cup inodes[i] \subseteq TextsOnDisk'
    <3>1. Values(anchorFiles) \cup {i} \subseteq Values(anchorFiles')
      BY <1>4, <2>1 DEF Values
    <3>2. Values(anchorFiles)' = Values(anchorFiles')
      BY DEF Values
    <3> QED
      BY <1>2, <3>1, <3>2 DEF TextsOnDisk
  <2>8. TextsInHand \subseteq TextsInHand' \cup snapshot[t]
    <3>1. DOMAIN snapshot = Flushers /\ DOMAIN snapshot' = Flushers
      BY <1>6 DEF FlushTyped
    <3> QED
      BY <1>6, <3>1 DEF TextsInHand, Values
  <2> QED
    BY <2>1, <2>6, <2>7, <2>8
<1>9. Appended' = Appended
  BY <1>2 DEF Appended
<1> QED
  BY <1>2, <1>7, <1>8, <1>9 DEF AnchorInv

\* A flush that fails puts its snapshot back where it came from.
LEMMA RestoreKeeps ==
  ASSUME Typed, FlushTyped, AnchorInv, NEW t \in Flushers, RestoreSnapshot(t)
  PROVE  FlushTyped' /\ AnchorInv'
<1>1. /\ at[t] \in {"open", "rename"} /\ at'[t] \in {"loop", "gone"}
      /\ InFlush(t) /\ ~InFlush(t)'
      /\ \A u \in Flushers \ {t} : at'[u] = at[u] /\ (InFlush(u)' <=> InFlush(u))
  BY FlushMoves DEF FlushAnchorIndex, RestoreSnapshot, InFlush
<1>2. UNCHANGED <<stage, anchorFlushFileCount, fileCount, target, tmpFile, anchorFiles, inodes,
                  fd, overlapped>>
  BY DEF RestoreSnapshot, queueVars
<1>3. /\ table' = IF target[t] = table.id
                  THEN [table EXCEPT !.texts = table.texts \cup snapshot[t]] ELSE table
      /\ freed' = (freed \/ target[t] # table.id)
      /\ anchorIndexEdited' = TRUE
  BY DEF RestoreSnapshot
<1>4. /\ snapshot' \in [Flushers -> SUBSET Pages] /\ snapshot'[t] = {}
      /\ \A u \in Flushers \ {t} : snapshot'[u] = snapshot[u]
  BY DEF RestoreSnapshot, FlushTyped
<1>5. /\ table' \in [id : Nat, texts : SUBSET Pages] /\ table'.id = table.id
      /\ target[t] = table.id => table'.texts = table.texts \cup snapshot[t]
  <2>1. table \in [id : Nat, texts : SUBSET Pages] /\ snapshot[t] \in SUBSET Pages
    BY DEF FlushTyped
  <2> QED
    BY <1>3, <2>1
<1>6. FlushTyped'
  BY <1>1, <1>2, <1>3, <1>4, <1>5 DEF FlushTyped
<1>7. ASSUME AloneInv
      PROVE  /\ AloneInv' /\ (freed' <=> freed)
             /\ table.texts \cup TextsInHand \subseteq table'.texts \cup TextsInHand'
  <2>1. target[t] = table.id
    BY <1>1, <1>7 DEF AloneInv
  <2>2. \A u \in Flushers : ~InFlush(u)'
    BY <1>1, <1>7 DEF AloneInv
  <2>3. \A u \in Flushers : at'[u] \notin {"open", "write", "rename"}
    BY <2>2 DEF InFlush
  <2>4. AloneInv'
    BY <1>2, <1>7, <2>2, <2>3 DEF AloneInv
  <2>5. TextsInHand \subseteq TextsInHand' \cup snapshot[t]
    <3>1. DOMAIN snapshot = Flushers /\ DOMAIN snapshot' = Flushers
      BY <1>4 DEF FlushTyped
    <3> QED
      BY <1>4, <3>1 DEF TextsInHand, Values
  <2> QED
    BY <1>3, <1>5, <2>1, <2>4, <2>5
<1>8. Appended' = Appended /\ TextsOnDisk' = TextsOnDisk
  BY <1>2 DEF Appended, TextsOnDisk, Values
<1> QED
  BY <1>2, <1>6, <1>7, <1>8 DEF AnchorInv

LEMMA AnchorsNext ==
  ASSUME Typed, FlushTyped, AnchorInv, [Next]_vars
  PROVE  FlushTyped' /\ AnchorInv'
<1>1. ASSUME NEW p \in Pages, Crawler(p)
      PROVE  FlushTyped' /\ AnchorInv'
  <2>1. CASE PushPage(p)
    BY <2>1, OtherApart, ApartKeeps
  <2>2. CASE AppendAnchorTerms(p)
    BY <2>2, AppendKeeps
  <2> QED
    BY <1>1, <2>1, <2>2 DEF Crawler
<1>2. ASSUME NEW w \in Workers, IndexWorker(w)
      PROVE  FlushTyped' /\ AnchorInv'
  BY <1>2, WorkerApart, ApartKeeps
<1>3. ASSUME NEW t \in Flushers, FlushAnchorIndex(t)
      PROVE  FlushTyped' /\ AnchorInv'
  BY <1>3, SwapNothingKeeps, SwapTableKeeps, ReadNumberKeeps, OpenTmpKeeps, WriteTmpKeeps,
     RenameKeeps, RestoreKeeps DEF FlushAnchorIndex
<1>4. CASE StartFinalFlush \/ Shutdown \/ UNCHANGED vars
  BY <1>4, OtherApart, ApartKeeps
<1> QED
  BY <1>1, <1>2, <1>3, <1>4 DEF Next

-----------------------------------------------------------------------------
(* The theorems *)

LEMMA InvInit == Init => Inv
<1> SUFFICES ASSUME Init PROVE Inv
  OBVIOUS
<1>1. Typed
  <2>1. <<>> \in Seq(Pages) /\ Len(<<>>) = 0
    OBVIOUS
  <2>2. 0 <= Capacity /\ None \in Nat
    BY LimitAssumption DEF None
  <2>3. /\ queue \in Seq(Pages) /\ Len(queue) <= Capacity /\ closed \in BOOLEAN
        /\ stage \in [Pages -> {"new", "pushed", "done"}]
    BY <2>1, <2>2 DEF Init
  <2>4. memIndex \in [Workers -> Seq(Pages)] /\ metadata \in [Workers -> Seq(Pages)]
    BY <2>1 DEF Init
  <2>5. at \in [Flushers -> {"join", "loop", "flush", "chunk", "meta", "swap", "number", "open",
                            "write", "rename", "gone"}]
    BY DEF Init
  <2>6. chunkId \in [Workers -> Nat] /\ nextIndexChunkId \in Nat /\ anchorIndexEdited \in BOOLEAN
    BY <2>2 DEF Init
  <2> QED
    BY <2>3, <2>4, <2>5, <2>6 DEF Typed
<1>2. ASSUME NEW p \in Pages
      PROVE  PlaceOf(p)
  <2>1. stage[p] = "new" /\ Waiting(p) = {} /\ Lost(p) = {}
    BY DEF Init, Waiting, Lost
  <2>2. Written(p) = {}
    BY DEF Init, Written, Whole
  <2>3. Threads(p) = {}
    BY DEF Init, Threads, ToSet
  <2> QED
    BY <2>1, <2>2, <2>3 DEF PlaceOf, Nowhere
<1>3. ChunkInv /\ MetaInv
  <2>1. DOMAIN chunks = {} /\ DOMAIN metas = {} /\ \A w \in Workers : metadata[w] = memIndex[w]
    BY DEF Init
  <2>2. \A w \in Workers : at[w] = "loop"
    BY WorkersFlush, FlusherAssumption DEF Init
  <2>3. ChunkInv
    BY <2>1, <2>2 DEF ChunkInv
  <2> QED
    BY <2>1, <2>3 DEF MetaInv, MetaBelongsToChunk
<1>4. /\ \A t \in Flushers : at[t] \in {"join", "loop"} /\ ~InFlush(t) /\ snapshot[t] = {}
      /\ DOMAIN tmpFile = {} /\ DOMAIN anchorFiles = {} /\ table = [id |-> 0, texts |-> {}]
  BY DEF Init, InFlush
<1>5. FlushTyped
  <2>1. snapshot \in [Flushers -> SUBSET Pages] /\ inodes \in Seq(SUBSET Pages)
    BY DEF Init
  <2>2. /\ fileCount \in [Flushers -> Nat] /\ target \in [Flushers -> Nat]
        /\ fd \in [Flushers -> Nat] /\ anchorFlushFileCount \in Nat
    BY DEF Init, None
  <2> QED
    BY <1>4, <2>1, <2>2 DEF FlushTyped
<1>6. AnchorInv
  <2>1. AloneInv
    BY <1>4 DEF AloneInv
  <2>2. Appended = {} /\ ~freed
    BY AnchoredAssumption DEF Init, Appended
  <2> QED
    BY <2>1, <2>2 DEF AnchorInv
<1> QED
  BY <1>1, <1>2, <1>3, <1>5, <1>6 DEF Inv, PlaceInv

\* Every state of the indexing side satisfies the inductive invariant.
THEOREM Invariance == Spec => []Inv
<1>1. Inv /\ [Next]_vars => Inv'
  BY TypeNext, PagesNext, AnchorsNext DEF Inv
<1> QED
  BY InvInit, <1>1, PTL DEF Spec

\* The type invariant; a metadata file is there only for a whole chunk, and every
\* chunk has a number that was given out.
THEOREM TypeCorrect == Spec => []TypeOK
<1>1. Inv => TypeOK
  <2> SUFFICES ASSUME Inv PROVE TypeOK
    OBVIOUS
  <2>1. table.texts \subseteq Pages
    BY DEF Inv, FlushTyped
  <2>2. DOMAIN metas \subseteq Whole
    BY DEF Inv, MetaInv
  <2>3. Whole \subseteq 0 .. nextIndexChunkId - 1
    BY DEF Inv, ChunkInv, Whole, Typed
  <2> QED
    BY <2>1, <2>2, <2>3 DEF Inv, Typed, TypeOK
<1> QED
  BY <1>1, Invariance, PTL

\* A page that was pushed is in the queue, in a thread's index, in a chunk or
\* reported as lost: in one of them, and once.
THEOREM PagesAreOnce == Spec => []EveryPageOnce
<1>1. ASSUME NEW S, Single(S)
      PROVE  Cardinality(S) = 1
  BY <1>1, FS_Singleton DEF Single
<1>2. Cardinality({}) = 0
  BY FS_EmptySet
<1>3. Inv => EveryPageOnce
  <2> SUFFICES ASSUME Inv, NEW p \in Pages, stage[p] # "new"
               PROVE  Cardinality(Threads(p)) + Cardinality(Written(p)) + Cardinality(Waiting(p))
                        + Cardinality(Lost(p)) = 1
    BY DEF EveryPageOnce, Threads, Filling, Written, Waiting, Lost
  <2>1. Placed(p)
    BY DEF Inv, PlaceInv, PlaceOf
  <2> QED
    BY <1>1, <1>2, <2>1 DEF Placed
<1> QED
  BY <1>3, Invariance, PTL

\* Line k of a metadata file is about document k of its chunk, whatever fails.
THEOREM MetadataBelongs == Spec => []MetaBelongsToChunk
BY Invariance, PTL DEF Inv, MetaInv

\* As long as no two flushes overlap no anchor text is lost and no deleted table
\* is written to, however many flushes fail.
THEOREM AnchorsKept == Spec => []AnchorsKeptUnlessFlushesOverlap
<1>1. Inv => AnchorsKeptUnlessFlushesOverlap
  BY DEF Inv, AnchorInv, FlushTyped, AnchorsKeptUnlessFlushesOverlap
<1> QED
  BY <1>1, Invariance, PTL
=============================================================================
