-------------------------------- MODULE TopK --------------------------------
(***************************************************************************)
(* The bounded heap of the best results that the broker keeps              *)
(* (GlobalTopKHeap in src/src/query/SearchCommon.h; the worker node and    *)
(* the query engine have the same one): a binary heap in a sequence, with  *)
(* the lowest score at its root.  An item is a record with a score.        *)
(*                                                                         *)
(* The loops are recursive functions of the heap and of the place that the *)
(* loop has reached.                                                       *)
(***************************************************************************)
EXTENDS Integers, Sequences, SequencesExt

Swap(s, i, j) == [s EXCEPT ![i] = s[j], ![j] = s[i]]

HeapifyUp(heap, index) ==
  LET up[p \in Seq(ToSet(heap)) \X Nat] ==
        LET h == p[1]
            i == p[2]
            parent == i \div 2
        IN IF i \in 2 .. Len(h) /\ h[i].score < h[parent].score THEN up[<<Swap(h, i, parent), parent>>] ELSE h
  IN up[<<heap, index>>]

\* The place of the lowest of i and its children.
Smallest(h, i) ==
  LET below(j, than) == IF j <= Len(h) /\ h[j].score < h[than].score THEN j ELSE than
  IN below(2 * i + 1, below(2 * i, i))

HeapifyDown(heap, index) ==
  LET down[p \in Seq(ToSet(heap)) \X (Nat \ {0})] ==
        LET h == p[1]
            i == p[2]
            smallest == Smallest(h, i)
        IN IF smallest # i THEN down[<<Swap(h, i, smallest), smallest>>] ELSE h
  IN down[<<heap, index>>]

\* push; the callers see to it that k is not 0.
Push(heap, k, item) ==
  IF Len(heap) < k THEN HeapifyUp(Append(heap, item), Len(heap) + 1)
  ELSE IF item.score > heap[1].score THEN HeapifyDown([heap EXCEPT ![1] = item], 1)
  ELSE heap

\* A round of extractSorted: the last item goes to the root.
WithoutRoot(heap) ==
  IF Len(heap) = 1 THEN <<>> ELSE HeapifyDown(Front([heap EXCEPT ![1] = Last(heap)]), 1)

\* extractSorted: the root moves to the front of the result, again and again.
ExtractSorted(heap) ==
  LET sorted[h \in Seq(ToSet(heap))] == IF h = <<>> THEN <<>> ELSE Append(sorted[WithoutRoot(h)], h[1])
  IN sorted[heap]

\* The heap after those of items whose places are in among.
PushAll(heap, k, items, among) ==
  LET after[n \in 0 .. Len(items)] ==
        IF n = 0 THEN heap ELSE IF n \in among THEN Push(after[n - 1], k, items[n]) ELSE after[n - 1]
  IN after[Len(items)]

\* Those of items through a heap of size k.
Best(k, items, among) == ExtractSorted(PushAll(<<>>, k, items, among))

\* All items of all lists through one heap.
BestOfAll(k, lists) ==
  LET after[n \in 0 .. Len(lists)] ==
        IF n = 0 THEN <<>> ELSE PushAll(after[n - 1], k, lists[n], DOMAIN lists[n])
  IN ExtractSorted(after[Len(lists)])

-----------------------------------------------------------------------------
\* What result promises of the items that item[m] gives for m in all: it is at
\* most k of them, each for an m of its own, best first, and no m in sure was
\* left out for a lower score or although there was room.
IsBest(result, k, item, all, sure) ==
  \E from \in [DOMAIN result -> all] :
    /\ \A i \in DOMAIN result : result[i] = item[from[i]]
    /\ \A i, j \in DOMAIN result : i < j => from[i] # from[j] /\ result[i].score >= result[j].score
    /\ Len(result) <= k
    /\ \A m \in sure :
         \/ \E i \in DOMAIN result : from[i] = m
         \/ Len(result) = k /\ \A i \in DOMAIN result : result[i].score >= item[m].score
=============================================================================
