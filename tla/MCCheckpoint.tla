---------------------------- MODULE MCCheckpoint ----------------------------
(* Instances of Checkpoint for TLC. *)
EXTENDS Checkpoint, TLC

CONSTANTS u1, u2, c1, c2

EverythingOwned == {Urls}
PeersChange == {Urls, {u1}}

MCSymmetry == Permutations(Crawlers)
=============================================================================
