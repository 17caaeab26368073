----------------------------- MODULE MCIndexing -----------------------------
(* Instances of Indexing for TLC. *)
EXTENDS Indexing

CONSTANTS w1, w2, m, p1, p2, p3

\* The third page has no tokens and no anchor texts.
MCWeight == [p \in Pages |-> IF p = p3 THEN 0 ELSE 1]
=============================================================================
