------------------------------ MODULE Locations ------------------------------
(***************************************************************************)
(* The word locations of one index chunk, and the one question every       *)
(* cursor of the query engine answers about them: which is the first       *)
(* location of a set at or after a given one.                              *)
(***************************************************************************)
EXTENDS Integers, FiniteSetsExt

CONSTANT Sentinel   \* ISRSentinel, above every location

ASSUME SentinelAssumption == Sentinel \in Nat \ {0}

Location == 0 .. Sentinel - 1

First(S, t) == IF \E x \in S : x >= t THEN Min({x \in S : x >= t}) ELSE Sentinel

=============================================================================
