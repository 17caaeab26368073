----------------------------- MODULE MCFrontier -----------------------------
(* Instances of Frontier for TLC. *)
EXTENDS Frontier, TLC

CONSTANTS a, b, c1, c2, c3, p1, i1, i2, i3, i4, i5, i6, i7, i8, i9

\* Two hosts; a page of each is among the first three items.
MCHostOf == [i \in Items |-> IF i \in {i1, i2, i5, i8} THEN a ELSE b]

MCNoChunks == <<>>
MCOneChunk == <<{i1, i3}>>

\* The spill runs: a reservoir that starts full, and items pushed in the order
\* of their names, so that it takes few states to fill both layers and the disk.
Order == <<i1, i2, i3, i4, i5, i6, i7, i8, i9>>
Number(i) == CHOOSE k \in 1..9 : Order[k] = i
InOrder == \A i \in added' \ added : \A j \in Items \ added' : Number(i) < Number(j)
SpillSpec ==
  /\ Init /\ reservoir = {i1, i2, i3, i4}
  /\ [][Next /\ InOrder]_vars

\* Crawlers are interchangeable.
MCSymmetry == Permutations(Crawlers)
=============================================================================
