----------------------------- MODULE ChunkFiles -----------------------------
(***************************************************************************)
(* The chunk files of the frontier (src/src/crawler/frontier.cpp), with    *)
(* their names, what is in them when a write or the process stops halfway, *)
(* and what a restart makes of them.  Modules Frontier and Checkpoint take *)
(* them as a stack of items; this one shows when that is so.               *)
(*                                                                         *)
(* The frontier's lock makes each call one step.  Items are numbered as    *)
(* they are pushed; an item that is popped is finished.  The items of a    *)
(* checkpoint are pushed like any others.                                  *)
(***************************************************************************)
EXTENDS Integers, Sequences, SequencesExt, FiniteSets, FiniteSetsExt

CONSTANTS
  MaxQueued,       \* maxQueuedItems
  MaxItems,        \* bound: items pushed
  MaxRestarts,     \* bound: crashes
  MaxFailures      \* bound: failed calls of the file system

VARIABLES
  reservoir, back,   \* reservoir and disk_back_reservoir
  level,             \* diskBackedChunksOnDisk
  queued, pending,
  files,             \* disk: records [index, count, items], named by the first two
  pushed,            \* history: items pushed so far
  forgotten,         \* history: items that were in memory when the process died
  done,              \* history: items popped
  restarts, failures,
  torn,              \* history: a crash left a file that its name says more of
  failed             \* history: a write or a removal failed and left a file behind

memory == <<reservoir, back, level, queued, pending>>
vars == <<memory, files, pushed, forgotten, done, restarts, failures, torn, failed>>

Percent(n, percent) == (n * percent) \div 100

-----------------------------------------------------------------------------
(* FrontierItem as a line of a file.  A link is a sequence of characters, a *)
(* number a sequence of digits.                                            *)

Digits == {"0", "1", "7"}

SerializeToLine(item) ==
  SelectSeq(item.link, LAMBDA c : c \notin {"\r", "\n"})
    \o <<"|">> \o item.suffix \o <<"|">> \o item.baseLength \o <<"|">> \o item.seedDistance
    \o <<"|">> \o item.pathDepth \o <<"|">> \o (IF item.failed THEN <<"1">> ELSE <<"0">>)

\* Where the k-th field ends; the last one takes the rest of the line.
Pipes(line) == {i \in DOMAIN line : line[i] = "|"}
FieldEnd(line, k) ==
  Min({Len(line) + 1} \cup {i \in Pipes(line) : Cardinality({j \in Pipes(line) : j <= i}) = k})
Field(line, k) ==
  LET first == IF k = 1 THEN 1 ELSE FieldEnd(line, k - 1) + 1
  IN SubSeq(line, first, IF k = 6 THEN Len(line) ELSE FieldEnd(line, k) - 1)

\* atol: the digits that a text begins with.
Atol(text) ==
  LET rest == {i \in DOMAIN text : text[i] \notin Digits}
      digits == SubSeq(text, 1, Min({Len(text) + 1} \cup rest) - 1)
  IN IF digits = <<>> THEN <<"0">> ELSE digits

DeserializeFromLine(line) ==
  [link |-> Field(line, 1), suffix |-> Atol(Field(line, 2)), baseLength |-> Atol(Field(line, 3)),
   seedDistance |-> Atol(Field(line, 4)), pathDepth |-> Atol(Field(line, 5)),
   failed |-> \E i \in DOMAIN Atol(Field(line, 6)) : Atol(Field(line, 6))[i] # "0"]

-----------------------------------------------------------------------------
(* writeDiskChunk, findDiskChunkPath, readDiskChunk *)

\* fopen(.., "wb") empties the file of that name.
Writing(index, count, items) ==
  {f \in files : f.index # index \/ f.count # count} \cup {[index |-> index, count |-> count, items |-> items]}

\* What may be on disk of a file that is being written: the first of its lines,
\* perhaps with a piece of the next one, which reads as an item that never was.
Fragment == 0
Parts(items) ==
  {SubSeq(items, 1, k) : k \in 0 .. Len(items)}
    \cup {SubSeq(items, 1, k) \o <<Fragment>> : k \in 0 .. Len(items) - 1}

\* readdir gives the files in any order: the first of the index is taken.
Candidates(index) == {f \in files : f.index = index}

\* Mutant: a chunk gets the number of the newest one.
SameChunkIndex == level

NextChunkIndex == level + 1

BackupCount == Percent(Len(back), 70)

Fails == failures < MaxFailures /\ failures' = failures + 1
Succeeds == UNCHANGED failures

\* doBackUp in front of a push of item i: not due, done, not possible because the
\* file cannot be opened, or given up when a part is written.
DoBackUp(i) ==
  LET backup == SubSeq(back, 1, BackupCount)
  IN \/ /\ Len(back) < MaxQueued
        /\ back' = Append(back, i)
        /\ Succeeds /\ UNCHANGED <<files, level, failed>>
     \/ /\ Len(back) >= MaxQueued
        /\ files' = Writing(NextChunkIndex, BackupCount, backup)
        /\ back' = Append(SubSeq(back, BackupCount + 1, Len(back)), i)
        /\ level' = NextChunkIndex
        /\ Succeeds /\ UNCHANGED failed
     \/ /\ Len(back) >= MaxQueued
        /\ Fails
        /\ back' = Append(back, i)
        /\ UNCHANGED <<files, level, failed>>
     \/ /\ Len(back) >= MaxQueued
        /\ Fails
        /\ \E part \in Parts(backup) : files' = Writing(NextChunkIndex, BackupCount, part)
        /\ back' = Append(back, i) /\ failed' = TRUE
        /\ UNCHANGED level

\* push of a new item.
Push ==
  /\ pushed < MaxItems
  /\ pushed' = pushed + 1
  /\ queued' = queued + 1 /\ pending' = pending + 1
  /\ IF Len(reservoir) < MaxQueued
     THEN reservoir' = Append(reservoir, pushed') /\ UNCHANGED <<back, level, files, failures, failed>>
     ELSE DoBackUp(pushed') /\ UNCHANGED reservoir
  /\ UNCHANGED <<forgotten, done, restarts, torn>>

-----------------------------------------------------------------------------
(* pop: promoteReservoir fills up first *)

Due == Len(reservoir) < Percent(MaxQueued, 50)

LoadDue == Len(back) < Percent(MaxQueued, 30) /\ level # 0

\* loadDiskBackedChunkFromDisk has read file f; the result of remove() is ignored.
Loaded(f, removed) ==
  /\ files' = IF removed THEN files \ {f} ELSE files
  /\ level' = level - 1

\* No file of the index, or none that can be opened.
LoadDiskBackedChunk(items) ==
  \/ /\ ~LoadDue
     /\ items = <<>> /\ Succeeds /\ UNCHANGED <<files, level, failed>>
  \/ /\ LoadDue
     /\ \E f \in Candidates(level), removed \in BOOLEAN :
          /\ items = f.items
          /\ IF removed THEN Succeeds ELSE Fails
          /\ failed' = (failed \/ ~removed)
          /\ Loaded(f, removed)
  \/ /\ LoadDue
     /\ items = <<>>
     /\ IF Candidates(level) = {} THEN Succeeds ELSE Fails
     /\ UNCHANGED <<files, level, failed>>

\* One call of pop() and of taskDone() for what it returns, if there is anything.
Pop ==
  \E items \in {<<>>} \cup {f.items : f \in Candidates(level)} :
    /\ LoadDiskBackedChunk(items)
    /\ LET loaded == back \o items
           most == Percent(MaxQueued, 50)
           refill == IF Due THEN IF most < Len(loaded) THEN most ELSE Len(loaded) ELSE 0
           full == reservoir \o SubSeq(loaded, 1, refill)
       IN /\ back' = SubSeq(loaded, refill + 1, Len(loaded))
          /\ IF full = <<>>
             THEN reservoir' = full /\ UNCHANGED <<queued, pending, done>>
             ELSE /\ reservoir' = Tail(full) /\ done' = done \cup {Head(full)}
                  /\ queued' = queued - 1 /\ pending' = IF pending = 0 THEN 0 ELSE pending - 1
    /\ UNCHANGED <<pushed, forgotten, restarts, torn>>

-----------------------------------------------------------------------------
(* A crash, and the next start *)

Counted(disk) == {f \in disk : f.index # 0 /\ f.count # 0}

\* recoverDiskBackedChunkCount: the highest number, and the counts in the names.
Recover(disk) ==
  /\ level' = Max({0} \cup {f.index : f \in Counted(disk)})
  /\ queued' = FoldSet(LAMBDA f, n : n + f.count, 0, Counted(disk))
  /\ pending' = queued'

\* The process dies between two calls, or in the middle of writing a chunk.
Crash ==
  /\ restarts < MaxRestarts
  /\ restarts' = restarts + 1
  /\ \/ UNCHANGED <<files, torn>>
     \/ /\ Len(reservoir) >= MaxQueued /\ Len(back) >= MaxQueued
        /\ LET backup == SubSeq(back, 1, BackupCount)
           IN \E part \in Parts(backup) :
                /\ files' = Writing(NextChunkIndex, BackupCount, part)
                /\ torn' = (torn \/ part # backup)
  /\ Recover(files')
  /\ forgotten' = forgotten \cup ToSet(reservoir \o back)
  /\ reservoir' = <<>> /\ back' = <<>>
  /\ UNCHANGED <<pushed, done, failures, failed>>

Init ==
  /\ reservoir = <<>> /\ back = <<>> /\ level = 0 /\ queued = 0 /\ pending = 0
  /\ files = {} /\ pushed = 0 /\ forgotten = {} /\ done = {}
  /\ restarts = 0 /\ failures = 0 /\ torn = FALSE /\ failed = FALSE

Next == Push \/ Pop \/ Crash

Spec == Init /\ [][Next]_vars

-----------------------------------------------------------------------------
(* Properties *)

Copies(items, i) == Cardinality({k \in DOMAIN items : items[k] = i})
Places(i) ==
  Copies(reservoir, i) + Copies(back, i) + FoldSet(LAMBDA f, n : n + Copies(f.items, i), 0, files)

\* An item comes back from its line as it was, line breaks in its link apart,
\* unless the link has a "|": then it is cut there and the numbers are others.
LineReadBack(item) ==
  LET read == DeserializeFromLine(SerializeToLine(item))
      clean == SelectSeq(item.link, LAMBDA c : c \notin {"\r", "\n"})
  IN IF "|" \notin ToSet(item.link) THEN read = [item EXCEPT !.link = clean]
     ELSE read.link = SubSeq(clean, 1, Min({i \in DOMAIN clean : clean[i] = "|"}) - 1)

\* Until a write fails halfway or a chunk cannot be removed, whatever else fails
\* and however often the process dies, the chunk files are numbered from one
\* without a gap, a pushed item that is not finished and that no crash took from
\* memory is in exactly one place, and the counters count what is in memory and on
\* disk; a crash in the middle of a write makes them too high, never too low.
ChunksAreStack ==
  LET held == Len(reservoir) + Len(back) + FoldSet(LAMBDA f, n : n + Len(f.items), 0, files)
  IN ~failed =>
       /\ {f.index : f \in files} = 1 .. level /\ Cardinality(files) = level
       /\ \A i \in 1 .. pushed :
            IF i \in done THEN Places(i) = 0
            ELSE Places(i) = 1 \/ (i \in forgotten /\ Places(i) = 0)
       /\ pending = queued
       /\ queued >= held
       /\ ~torn => queued = held /\ \A f \in files : f.count = Len(f.items)
=============================================================================
