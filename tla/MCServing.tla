----------------------------- MODULE MCServing -----------------------------
(* Instances of Serving for TLC. *)
EXTENDS Serving

CONSTANTS r1, r2, d1, d2, d3, d4

\* The first worker has two chunks, and one URL twice; d1 and d3, which have
\* it, differ in a digit that is not sent.
MCChunks == << << <<d1, d2>>, <<d3>> >>, << <<d4>> >> >>
MCUrl == (d1 :> "a") @@ (d2 :> "b") @@ (d3 :> "a") @@ (d4 :> "c")
MCScore == (d1 :> 41) @@ (d2 :> 30) @@ (d3 :> 42) @@ (d4 :> 46)
MCMeta == <<{"a", "b"}, {"c"}>>

Http(path, query, k, file) == [path |-> path, query |-> query, k |-> k, file |-> file]
MCHttp ==
  { Http("/api/search", Documents, 2, FALSE), Http("/api/search", {d4}, 0, FALSE),
    Http("/api/search", Documents, -1, FALSE),
    Http("/", NoQuery, 0, FALSE), Http("/search", NoQuery, 0, TRUE) }
=============================================================================
