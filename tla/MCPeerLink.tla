----------------------------- MODULE MCPeerLink -----------------------------
(* Instances of PeerLink for TLC. *)
EXTENDS PeerLink, TLC

CONSTANTS l1, l2, l3, l4

MCSymmetry == Permutations(Links)
=============================================================================
