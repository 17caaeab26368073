---------------------------- MODULE MCIndexQueue ----------------------------
(* Instances of IndexQueue for TLC. *)
EXTENDS IndexQueue, TLC

CONSTANTS p1, p2, p3, c1, c2, d1, d2, d3, d4, d5

=============================================================================
