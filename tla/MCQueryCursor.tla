---------------------------- MODULE MCQueryCursor ----------------------------
(* Chunks of one and of three documents; a child matches nowhere, at two   *)
(* or four locations or everywhere.                                        *)
EXTENDS QueryCursor

MCCorpora == {{4}, {0, 2, 4}}
MCPostings == {p \in SUBSET Location : Cardinality(p) \in {0, 2, 5}} \cup {{0, 1, 2, 3}}
=============================================================================
