--------------------------- MODULE ReservoirSweep ---------------------------
(***************************************************************************)
(* The sweep of Frontier::promoteReservoir (src/src/crawler/frontier.cpp): *)
(* score one chunk of the reservoir vector, starting at a cursor that goes *)
(* round, move the best of the chunk out by swap-remove, and go on behind  *)
(* the chunk the next time.  Module Frontier abstracts this to "some items *)
(* of the reservoir"; here are the indices.                                *)
(*                                                                         *)
(* Indices are 0-based as in the code: reservoir[i + 1] is its element i.  *)
(***************************************************************************)
EXTENDS Integers, Sequences, SequencesExt

CONSTANTS
  SweepChunkSize,    \* frontierReservoirSweepChunkSize
  PromotionPercent,  \* frontierReservoirPromotionPercent
  Scores,            \* values of getScore()
  MaxPushes          \* bound: items pushed

ASSUME SweepAssumption ==
  /\ SweepChunkSize \in Nat \ {0}
  /\ PromotionPercent \in 1..100
  /\ Scores \subseteq Nat
  /\ MaxPushes \in Nat

VARIABLES
  reservoir,   \* the vector, of [id, score]
  cursor,      \* reservoirSweepCursor
  promoted,    \* what the last sweep handed to enqueueScheduledItem
  pushes       \* history: how many items were pushed; they are numbered

sweepVars == <<reservoir, cursor, promoted, pushes>>

-----------------------------------------------------------------------------
(* One sweep *)

Size == Len(reservoir)
Start == IF cursor >= Size THEN 0 ELSE cursor
ScannedCount == IF Size < SweepChunkSize THEN Size ELSE SweepChunkSize
WinnersToKeep == (ScannedCount * PromotionPercent + 99) \div 100

Candidate(offset) ==
  LET i == (Start + offset) % Size IN [index |-> i, score |-> reservoir[i + 1].score]

\* Position in ws of the first of its lowest scores.
WorstWinner(ws) ==
  CHOOSE k \in DOMAIN ws :
    /\ \A j \in DOMAIN ws : ws[k].score <= ws[j].score
    /\ \A j \in 1..(k - 1) : ws[k].score < ws[j].score

\* Mutant: the comparison is the wrong way round.
CompeteUpsideDown(ws, cand) ==
  IF Len(ws) < WinnersToKeep THEN Append(ws, cand)
  ELSE LET k == WorstWinner(ws) IN
       IF cand.score < ws[k].score THEN [ws EXCEPT ![k] = cand] ELSE ws

\* A candidate joins the winners, or replaces the worst of them if better.
Compete(ws, cand) ==
  IF Len(ws) < WinnersToKeep THEN Append(ws, cand)
  ELSE LET k == WorstWinner(ws) IN
       IF cand.score > ws[k].score THEN [ws EXCEPT ![k] = cand] ELSE ws

Winners ==
  FoldLeft(Compete, <<>>, [k \in 1..ScannedCount |-> Candidate(k - 1)])

\* Element i is overwritten by the last one, which is popped.  Past the end
\* the write goes to a dead slot of the vector and only the pop is seen.
SwapRemove(v, i) ==
  Front([k \in DOMAIN v |-> IF k = i + 1 THEN v[Len(v)] ELSE v[k]])

TouchesTail == ScannedCount = Size \/ Start + ScannedCount > Size

\* The indices in the order in which they are removed.
RemovalOrder ==
  LET indices == [k \in DOMAIN Winners |-> Winners[k].index] IN
  IF TouchesTail THEN SortSeq(indices, LAMBDA x, y : x > y) ELSE Reverse(indices)

\* Where the next sweep starts in v, the vector after the removals.
NextCursor(v) ==
  IF v = <<>> THEN 0 ELSE ((Start + ScannedCount) % Size) % Len(v)

Sweep ==
  /\ Size > 0
  /\ promoted' = [k \in DOMAIN Winners |-> reservoir[Winners[k].index + 1]]
  /\ reservoir' = FoldLeft(SwapRemove, reservoir, RemovalOrder)
  /\ cursor' = NextCursor(reservoir')
  /\ UNCHANGED pushes

\* pushInternal, or a refill from the disk-back reservoir: at the back.
PushBack ==
  /\ pushes < MaxPushes
  /\ pushes' = pushes + 1
  /\ \E s \in Scores : reservoir' = Append(reservoir, [id |-> pushes', score |-> s])
  /\ promoted' = <<>>
  /\ UNCHANGED cursor

Init == reservoir = <<>> /\ cursor = 0 /\ promoted = <<>> /\ pushes = 0

Next == Sweep \/ PushBack

Spec == Init /\ [][Next]_sweepVars

-----------------------------------------------------------------------------
(* Properties *)

Copies(v, x) == Cardinality({k \in DOMAIN v : v[k] = x})

\* Type invariant: the cursor is a valid index whenever there is one.
SweepTypeOK ==
  /\ \A k \in DOMAIN reservoir : reservoir[k].id \in 1..pushes
  /\ cursor \in 0..(IF Size = 0 THEN 0 ELSE Size - 1)

\* The removals take exactly the promoted items out of the vector: with the
\* winners' indices saved before any removal, none of the swaps may move an
\* item that is still to be removed, or lose one that stays.
Exact ==
  \A id \in 1..pushes : \A s \in Scores :
    LET x == [id |-> id, score |-> s] IN
    Copies(reservoir, x) = Copies(reservoir', x) + Copies(promoted', x)

\* Exact on every chunk, the promise of the comment at the removal loops.
RemovalsExact == [][Sweep => Exact]_sweepVars

\* The winners left to remove never come up from the tail: there are enough
\* elements behind the chunk for all removals but the last, or the removals go
\* from the largest index to the smallest.
TailOutOfReach ==
  TouchesTail \/ Size - (Start + ScannedCount) >= Len(Winners) - 1

\* Exact on every chunk that the removals keep clear of the vector's end, which
\* the code takes to be every chunk that does not run over it.
RemovalsExactElsewhere == [][Sweep /\ TailOutOfReach => Exact]_sweepVars

\* The strongest URLs of the chunk are promoted: nothing scanned and left
\* behind scores higher than something promoted, and there are as many
\* promoted items as the percentage asks for.
StrongestPromoted ==
  [][Sweep =>
       /\ Len(promoted') = WinnersToKeep
       /\ \A offset \in 0..(ScannedCount - 1) :
            LET x == reservoir[Candidate(offset).index + 1] IN
            \A k \in DOMAIN promoted' :
              (\A j \in DOMAIN promoted' : promoted'[j] # x)
                 => x.score <= promoted'[k].score]_sweepVars

=============================================================================
