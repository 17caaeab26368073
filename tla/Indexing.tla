------------------------------ MODULE Indexing ------------------------------
(***************************************************************************)
(* From the index queue to the files: the index threads, the table of      *)
(* anchor texts that crawlers and index threads share, and the shutdown    *)
(* (IndexWorkerThread, appendAnchorTerms, flushAnchorIndexToDisk and the   *)
(* end of main in src/src/main_distributed.cpp, flushIndexChunk).          *)
(*                                                                         *)
(* The queue is the FIFO that IndexQueue implements (BoundedQueue).  One   *)
(* crawler thread is one page: it pushes the page, then appends the page's *)
(* anchor texts, so a page also names the texts found on it.  Everything   *)
(* an index thread does to its own index between two shared steps is one   *)
(* action.                                                                 *)
(***************************************************************************)
EXTENDS Integers, FiniteSets, Sequences, SequencesExt

CONSTANTS
  Pages, Workers, Main,   \* index threads; the thread that runs main()
  Weight,                 \* tokens of a page
  Anchored,               \* pages with anchor texts for URLs of this machine
  FlushBodyTokenSize,     \* FLUSHBODYTOKENSIZE
  Capacity,               \* maxIndexQueueItems
  MaxFailures             \* bound: failing calls of the file system

ASSUME WeightAssumption == Weight \in [Pages -> Nat]
ASSUME AnchoredAssumption == Anchored \subseteq Pages
ASSUME FlusherAssumption == Main \notin Workers
ASSUME TornAssumption == "torn" \notin Pages   \* the mark of a torn chunk
ASSUME LimitAssumption ==
  {FlushBodyTokenSize, Capacity} \subseteq Nat \ {0} /\ MaxFailures \in Nat

VARIABLES
  queue, closed,
  stage,        \* stage[p]: how far the crawler thread of page p is
  memIndex,     \* memIndex[w]: pages of mem_index, in order
  metadata,     \* metadata[w]: pages of chunk_metadata, in order
  at,           \* where each flusher is
  chunkId,      \* chunkId[w]: the chunk w is writing
  nextIndexChunkId,
  chunks, metas,                 \* disk: chunk number -> pages
  table, anchorIndexEdited,      \* anchorIndex: [id, texts]
  anchorFlushFileCount,
  snapshot, fileCount, target,   \* a flusher's snapshot, file number and table pointer
  tmpFile, anchorFiles,          \* disk: file number -> inode
  inodes,                        \* texts in each inode
  fd,                            \* fd[t]: the inode a flusher has open
  failures,
  refused,      \* history: pages that the closed queue did not take
  reported,     \* history: pages whose loss was logged
  overlapped,   \* history: a table was replaced while another flush still held a pointer to it,
                \* or two flushes used one file number
  freed         \* history: a deleted table was written to

queueVars == <<queue, closed, stage>>
workerVars == <<memIndex, metadata, chunkId, nextIndexChunkId>>
diskVars == <<chunks, metas>>
tableVars == <<table, anchorIndexEdited>>
flushVars == <<anchorFlushFileCount, snapshot, fileCount, target, tmpFile, anchorFiles, inodes, fd>>
history == <<failures, refused, reported, overlapped, freed>>
vars == <<queueVars, workerVars, at, diskVars, tableVars, flushVars, history>>

Flushers == Workers \cup {Main}
None == 0

\* A chunk file that was opened and not finished.
Torn == <<"torn">>

\* f with one more entry.
Put(f, k, v) == [x \in DOMAIN f \cup {k} |-> IF x = k THEN v ELSE f[x]]

Fail == failures < MaxFailures /\ failures' = failures + 1

-----------------------------------------------------------------------------
(* Crawler threads *)

\* A crawler thread can begin a page until main() has joined it.
PushPage(p) ==
  /\ stage[p] = "new" /\ at[Main] = "join"
  /\ \/ closed /\ refused' = refused \cup {p} /\ UNCHANGED queue
     \/ ~closed /\ Len(queue) < Capacity /\ queue' = Append(queue, p) /\ UNCHANGED refused
  /\ stage' = [stage EXCEPT ![p] = "pushed"]
  /\ UNCHANGED <<closed, workerVars, at, diskVars, tableVars, flushVars, failures, reported,
                 overlapped, freed>>

\* Mutant: the table is not marked as edited.
AppendAnchorTermsUnmarked(p) ==
  /\ stage[p] = "pushed"
  /\ stage' = [stage EXCEPT ![p] = "done"]
  /\ table' = [table EXCEPT !.texts = @ \cup ({p} \cap Anchored)]
  /\ UNCHANGED <<queue, closed, anchorIndexEdited, workerVars, at, diskVars, flushVars, history>>

AppendAnchorTerms(p) ==
  /\ stage[p] = "pushed"
  /\ stage' = [stage EXCEPT ![p] = "done"]
  /\ table' = [table EXCEPT !.texts = @ \cup ({p} \cap Anchored)]
  /\ anchorIndexEdited' = (anchorIndexEdited \/ p \in Anchored)
  /\ UNCHANGED <<queue, closed, workerVars, at, diskVars, flushVars, history>>

\* f->shutdown() and q->shutdown(), from the signal handler.
Shutdown ==
  /\ ~closed /\ closed' = TRUE
  /\ UNCHANGED <<queue, stage, workerVars, at, diskVars, tableVars, flushVars, history>>

-----------------------------------------------------------------------------
(* Index threads *)

Tokens(docs) == FoldSeq(LAMBDA p, n : n + Weight[p], 0, docs)

\* Mutant: the metadata of the page that fills the chunk goes to the next one.
TakePageMetaLate(w) ==
  /\ at[w] = "loop" /\ queue # <<>>
  /\ queue' = Tail(queue)
  /\ LET docs == Append(memIndex[w], Head(queue))
         full == Tokens(docs) >= FlushBodyTokenSize
     IN /\ memIndex' = [memIndex EXCEPT ![w] = docs]
        /\ metadata' = [metadata EXCEPT ![w] = IF full THEN @ ELSE Append(@, Head(queue))]
        /\ at' = [at EXCEPT ![w] = IF full THEN "flush" ELSE "loop"]
  /\ UNCHANGED <<closed, stage, chunkId, nextIndexChunkId, diskVars, tableVars, flushVars, history>>

TakePage(w) ==
  /\ at[w] = "loop" /\ queue # <<>>
  /\ queue' = Tail(queue)
  /\ LET docs == Append(memIndex[w], Head(queue))
     IN /\ memIndex' = [memIndex EXCEPT ![w] = docs]
        /\ metadata' = [metadata EXCEPT ![w] = Append(@, Head(queue))]
        /\ at' = [at EXCEPT ![w] = IF Tokens(docs) >= FlushBodyTokenSize THEN "flush" ELSE "loop"]
  /\ UNCHANGED <<closed, stage, chunkId, nextIndexChunkId, diskVars, tableVars, flushVars, history>>

\* Mutant: a thread returns as soon as the queue is closed.
LeaveLoopEarly(w) ==
  /\ at[w] = "loop" /\ closed
  /\ at' = [at EXCEPT ![w] = IF memIndex[w] = <<>> THEN "gone" ELSE "flush"]
  /\ UNCHANGED <<queueVars, workerVars, diskVars, tableVars, flushVars, history>>

\* pop() returned nothing: the final partial chunk, if there is one.
LeaveLoop(w) ==
  /\ at[w] = "loop" /\ queue = <<>> /\ closed
  /\ at' = [at EXCEPT ![w] = IF memIndex[w] = <<>> THEN "gone" ELSE "flush"]
  /\ UNCHANGED <<queueVars, workerVars, diskVars, tableVars, flushVars, history>>

\* Mutant: the number is read and not advanced, a load in the place of the fetch_add.
OpenChunkLate(w) ==
  /\ at[w] = "flush"
  /\ chunkId' = [chunkId EXCEPT ![w] = nextIndexChunkId]
  /\ chunks' = Put(chunks, nextIndexChunkId, Torn)
  /\ at' = [at EXCEPT ![w] = "chunk"]
  /\ UNCHANGED <<queueVars, memIndex, metadata, nextIndexChunkId, metas, tableVars, flushVars, history>>

\* fetch_add, then the DiskChunkWriter truncates the file and writes a valid
\* header without a dictionary.
OpenChunk(w) ==
  /\ at[w] = "flush"
  /\ chunkId' = [chunkId EXCEPT ![w] = nextIndexChunkId]
  /\ nextIndexChunkId' = nextIndexChunkId + 1
  /\ chunks' = Put(chunks, nextIndexChunkId, Torn)
  /\ at' = [at EXCEPT ![w] = "chunk"]
  /\ UNCHANGED <<queueVars, memIndex, metadata, metas, tableVars, flushVars, history>>

WriteChunk(w) ==
  /\ at[w] = "chunk"
  /\ chunks' = Put(chunks, chunkId[w], memIndex[w])
  /\ at' = [at EXCEPT ![w] = "meta"]
  /\ UNCHANGED <<queueVars, workerVars, metas, tableVars, flushVars, history>>

\* open() or a write() fails: the exception is logged and the thread returns.
ChunkFails(w) ==
  /\ Fail
  /\ \/ at[w] = "flush" /\ nextIndexChunkId' = nextIndexChunkId + 1
     \/ at[w] = "chunk" /\ UNCHANGED nextIndexChunkId
  /\ reported' = reported \cup ToSet(memIndex[w])
  /\ memIndex' = [memIndex EXCEPT ![w] = <<>>] /\ metadata' = [metadata EXCEPT ![w] = <<>>]
  /\ at' = [at EXCEPT ![w] = "gone"]
  /\ UNCHANGED <<queueVars, chunkId, diskVars, tableVars, flushVars, refused, overlapped, freed>>

\* flushMetaData: a file that cannot be opened is skipped in silence.
WriteMeta(w) ==
  /\ at[w] = "meta"
  /\ \/ metas' = Put(metas, chunkId[w], metadata[w]) /\ UNCHANGED failures
     \/ Fail /\ UNCHANGED metas
  /\ at' = [at EXCEPT ![w] = "swap"]
  /\ UNCHANGED <<queueVars, workerVars, chunks, tableVars, flushVars, refused, reported, overlapped, freed>>

-----------------------------------------------------------------------------
(* flushAnchorIndexToDisk *)

\* An index thread that is through starts a new chunk; at shutdown it returns
\* and main(), once it has joined all of them, ends too.
AfterFlush(t) ==
  /\ at' = [at EXCEPT ![t] = IF t = Main THEN "gone" ELSE "loop"]
  /\ memIndex' = IF t = Main THEN memIndex ELSE [memIndex EXCEPT ![t] = <<>>]
  /\ metadata' = IF t = Main THEN metadata ELSE [metadata EXCEPT ![t] = <<>>]
  /\ UNCHANGED <<chunkId, nextIndexChunkId>>

\* The flush after the workers: flushAnchorIndexToDisk(true).
StartFinalFlush ==
  /\ at[Main] = "join" /\ closed
  /\ \A w \in Workers : at[w] = "gone"
  /\ \A p \in Pages : stage[p] \in {"new", "done"}
  /\ at' = [at EXCEPT ![Main] = "swap"]
  /\ UNCHANGED <<queueVars, workerVars, diskVars, tableVars, flushVars, history>>

\* Flushes that have replaced the table and still hold what they read without the lock.
InFlush(t) == at[t] \in {"number", "open", "write", "rename"}

SwapNothing(t) ==
  /\ at[t] = "swap"
  /\ table.texts = {} \/ (t # Main /\ ~anchorIndexEdited)
  /\ IF t # Main /\ ~anchorIndexEdited THEN UNCHANGED tableVars
     ELSE table' = [id |-> table.id + 1, texts |-> {}] /\ anchorIndexEdited' = FALSE
  /\ overlapped' = (overlapped \/ (table'.id # table.id /\ \E u \in Flushers \ {t} : InFlush(u)))
  /\ AfterFlush(t)
  /\ UNCHANGED <<queueVars, diskVars, flushVars, failures, refused, reported, freed>>

\* Under the lock: copy the table, put an empty one in its place.
SwapTable(t) ==
  /\ at[t] = "swap"
  /\ table.texts # {} /\ (t = Main \/ anchorIndexEdited)
  /\ snapshot' = [snapshot EXCEPT ![t] = table.texts]
  /\ table' = [id |-> table.id + 1, texts |-> {}]
  /\ anchorIndexEdited' = FALSE
  /\ overlapped' = (overlapped \/ \E u \in Flushers \ {t} : InFlush(u))
  /\ at' = [at EXCEPT ![t] = "number"]
  /\ UNCHANGED <<queueVars, workerVars, diskVars, anchorFlushFileCount, fileCount, target, tmpFile,
                 anchorFiles, inodes, fd, failures, refused, reported, freed>>

\* Without the lock: the file number, and the pointer to the table that a
\* failed flush would restore its snapshot into.
ReadNumber(t) ==
  /\ at[t] = "number"
  /\ fileCount' = [fileCount EXCEPT ![t] = anchorFlushFileCount]
  /\ target' = [target EXCEPT ![t] = table.id]
  /\ at' = [at EXCEPT ![t] = "open"]
  /\ UNCHANGED <<queueVars, workerVars, diskVars, tableVars, anchorFlushFileCount, snapshot, tmpFile,
                 anchorFiles, inodes, fd, history>>

\* fopen(..., "wb") truncates a temporary file that is there, another flusher's too.
OpenTmp(t) ==
  LET n == fileCount[t]
      new == n \notin DOMAIN tmpFile
      i == IF new THEN Len(inodes) + 1 ELSE tmpFile[n]
  IN /\ at[t] = "open"
     /\ tmpFile' = Put(tmpFile, n, i)
     /\ inodes' = IF new THEN Append(inodes, {}) ELSE [inodes EXCEPT ![i] = {}]
     /\ fd' = [fd EXCEPT ![t] = i]
     /\ at' = [at EXCEPT ![t] = "write"]
     /\ UNCHANGED <<queueVars, workerVars, diskVars, tableVars, anchorFlushFileCount, snapshot,
                    fileCount, target, anchorFiles, history>>

\* Written from offset 0: of what another flusher wrote into the same file, a tail may remain.
WriteTmp(t) ==
  /\ at[t] = "write"
  /\ \E tail \in SUBSET inodes[fd[t]] :
       inodes' = [inodes EXCEPT ![fd[t]] = snapshot[t] \cup tail]
  /\ at' = [at EXCEPT ![t] = "rename"]
  /\ UNCHANGED <<queueVars, workerVars, diskVars, tableVars, anchorFlushFileCount, snapshot, fileCount,
                 target, tmpFile, anchorFiles, fd, history>>

Rename(t) ==
  /\ at[t] = "rename" /\ fileCount[t] \in DOMAIN tmpFile
  /\ anchorFiles' = Put(anchorFiles, fileCount[t], tmpFile[fileCount[t]])
  /\ tmpFile' = [n \in DOMAIN tmpFile \ {fileCount[t]} |-> tmpFile[n]]
  /\ anchorFlushFileCount' = anchorFlushFileCount + 1
  /\ snapshot' = [snapshot EXCEPT ![t] = {}]
  /\ AfterFlush(t)
  /\ UNCHANGED <<queueVars, diskVars, tableVars, fileCount, target, inodes, fd, history>>

\* fopen or rename fails (the latter also because another flusher renamed the
\* file away): restoreWordSnapshot puts the snapshot back, into the table that
\* the pointer read before still means.
RestoreSnapshot(t) ==
  /\ \/ at[t] \in {"open", "rename"} /\ Fail
     \/ at[t] = "rename" /\ fileCount[t] \notin DOMAIN tmpFile /\ UNCHANGED failures
  /\ table' = IF target[t] = table.id THEN [table EXCEPT !.texts = @ \cup snapshot[t]] ELSE table
  /\ freed' = (freed \/ target[t] # table.id)
  /\ anchorIndexEdited' = TRUE
  /\ snapshot' = [snapshot EXCEPT ![t] = {}]
  /\ AfterFlush(t)
  /\ UNCHANGED <<queueVars, diskVars, anchorFlushFileCount, fileCount, target, tmpFile, anchorFiles,
                 inodes, fd, refused, reported, overlapped>>

-----------------------------------------------------------------------------
Init ==
  /\ queue = <<>> /\ closed = FALSE /\ stage = [p \in Pages |-> "new"]
  /\ memIndex = [w \in Workers |-> <<>>] /\ metadata = [w \in Workers |-> <<>>]
  /\ at = [t \in Flushers |-> IF t = Main THEN "join" ELSE "loop"]
  /\ chunkId = [w \in Workers |-> None] /\ nextIndexChunkId = 0
  /\ chunks = [n \in {} |-> <<>>] /\ metas = [n \in {} |-> <<>>]
  /\ table = [id |-> 0, texts |-> {}] /\ anchorIndexEdited = FALSE
  /\ anchorFlushFileCount = 0 /\ snapshot = [t \in Flushers |-> {}]
  /\ fileCount = [t \in Flushers |-> None] /\ target = [t \in Flushers |-> None]
  /\ tmpFile = [n \in {} |-> None] /\ anchorFiles = [n \in {} |-> None]
  /\ inodes = <<>> /\ fd = [t \in Flushers |-> None]
  /\ failures = 0 /\ refused = {} /\ reported = {} /\ overlapped = FALSE /\ freed = FALSE

Crawler(p) == PushPage(p) \/ AppendAnchorTerms(p)
IndexWorker(w) ==
  TakePage(w) \/ LeaveLoop(w) \/ OpenChunk(w) \/ WriteChunk(w) \/ ChunkFails(w) \/ WriteMeta(w)
FlushAnchorIndex(t) ==
  SwapNothing(t) \/ SwapTable(t) \/ ReadNumber(t) \/ OpenTmp(t) \/ WriteTmp(t) \/ Rename(t)
    \/ RestoreSnapshot(t)

Next ==
  \/ \E p \in Pages : Crawler(p)
  \/ \E w \in Workers : IndexWorker(w)
  \/ \E t \in Flushers : FlushAnchorIndex(t)
  \/ StartFinalFlush
  \/ Shutdown

Spec == Init /\ [][Next]_vars

\* Index threads, flushes and main() go on; a crawler thread that pushed a page
\* gets to the anchor texts.  Nobody has to crawl, to shut down or to fail.
Fairness ==
  /\ \A w \in Workers : WF_vars(IndexWorker(w))
  /\ \A t \in Flushers : WF_vars(FlushAnchorIndex(t))
  /\ \A p \in Pages : WF_vars(AppendAnchorTerms(p))
  /\ WF_vars(StartFinalFlush)

FairSpec == Spec /\ Fairness

-----------------------------------------------------------------------------
(* Properties *)

Values(f) == {f[n] : n \in DOMAIN f}
Whole == {n \in DOMAIN chunks : chunks[n] # Torn}

\* Type invariant.
TypeOK ==
  /\ queue \in Seq(Pages) /\ Len(queue) <= Capacity /\ closed \in BOOLEAN
  /\ stage \in [Pages -> {"new", "pushed", "done"}]
  /\ memIndex \in [Workers -> Seq(Pages)] /\ metadata \in [Workers -> Seq(Pages)]
  /\ at \in [Flushers -> {"join", "loop", "flush", "chunk", "meta", "swap", "number", "open", "write",
                          "rename", "gone"}]
  /\ chunkId \in [Workers -> Nat] /\ nextIndexChunkId \in Nat
  /\ table.texts \subseteq Pages /\ anchorIndexEdited \in BOOLEAN
  /\ DOMAIN metas \subseteq Whole /\ Whole \subseteq 0 .. nextIndexChunkId - 1

\* Every page that the queue took is, exactly once, in the queue, in the index
\* of a thread or in a whole chunk, or its loss was reported; a page in a
\* thread's index counts as written once its chunk is.
EveryPageOnce ==
  \A p \in Pages : stage[p] # "new" =>
    LET threads == {w \in Workers : at[w] \in {"loop", "flush", "chunk"} /\ p \in ToSet(memIndex[w])}
        written == {n \in Whole : p \in ToSet(chunks[n])}
        waiting == {k \in DOMAIN queue : queue[k] = p}
        lost == {p} \cap (reported \cup refused)
    IN Cardinality(threads) + Cardinality(written) + Cardinality(waiting) + Cardinality(lost) = 1

\* The metadata file of a chunk has a line for each of its documents, in order:
\* the serving side finds the title of document k in line k.
MetaBelongsToChunk == \A n \in DOMAIN metas : metas[n] = chunks[n]

TextsOnDisk == UNION {inodes[i] : i \in Values(anchorFiles)}
TextsInHand == UNION Values(snapshot)
Appended == {p \in Anchored : stage[p] = "done"}

\* As long as no two flushes overlap, no anchor text is lost: it is in the
\* table, in the snapshot being written, or in a file that no later flush
\* replaces, failures included; and no flush writes into a deleted table.
AnchorsKeptUnlessFlushesOverlap ==
  ~overlapped => /\ Appended \subseteq table.texts \cup TextsInHand \cup TextsOnDisk
                 /\ ~freed
                 /\ table.texts # {} => anchorIndexEdited

\* After shutdown() everything ends: the index threads write what is left, main
\* flushes the anchor texts, and pages stay behind in the queue only if an index
\* thread failed before.
ShutdownCompletes ==
  closed ~> /\ at[Main] = "gone"
            /\ queue # <<>> => reported # {}
            /\ table.texts # {} => failures > 0
=============================================================================
