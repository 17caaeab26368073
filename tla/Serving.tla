------------------------------ MODULE Serving ------------------------------
(***************************************************************************)
(* Answering queries: the broker (src/src/query/broker_server.cpp) runs a  *)
(* thread per HTTP request, which asks all worker nodes at once and merges *)
(* what they say in time; a worker node (src/src/query/worker_node.cpp)    *)
(* serves one connection at a time, with a thread per index chunk.         *)
(*                                                                         *)
(* An HTTP request is a record [path, query, k, file]: what it asks for,   *)
(* which documents its query matches (NoQuery if it has none), its k       *)
(* (0 if absent, -1 if it is not a positive number) and whether the path   *)
(* names a file.  A document is known by its chunk, its place in it, its   *)
(* URL and its score; chunks lie in the order in which a worker loaded     *)
(* them, files of metadata in any.                                         *)
(***************************************************************************)
EXTENDS TopK, TLC

CONSTANTS
  Requests, HttpRequests, NoQuery,
  Chunks,       \* Chunks[w]: the chunks of the w-th worker, each a sequence of documents
  Documents, UrlOf, ScoreOf,
  MetaUrls,     \* MetaUrls[w]: the URLs with a line in a metadata file of w
  Stranger,     \* a connection that sends nothing
  MaxStrangers  \* bound

ASSUME ChunksAssumption ==
  /\ Chunks \in Seq(Seq(Seq(Documents)))
  /\ ScoreOf \in [Documents -> Nat] /\ MaxStrangers \in Nat /\ Stranger \notin Requests

ASSUME HttpAssumption == \A h \in HttpRequests : h.k \in Int

\* A URL is crawled by the machine that owns its host, and none is what ends a response.
ASSUME MetaAssumption ==
  /\ \A v, w \in DOMAIN Chunks : v # w => MetaUrls[v] \cap MetaUrls[w] = {}
  /\ \A w \in DOMAIN Chunks : "END_OF_RESULTS" \notin MetaUrls[w]

VARIABLES
  phase,      \* phase[r]: "none", "accepted", "asking" or "answered"
  http,       \* http[r]: what the request is
  response,   \* response[r]
  fetch,      \* fetch[r][w]: where fetch_from_worker is
  received,   \* received[r][w]: local_results
  wire,       \* wire[r][w]: lines on their way to the broker; END_OF_RESULTS ends them
  backlog,    \* backlog[w]: connections that w has not accepted
  serving,    \* serving[w]: the connection in w's hand, none or one
  matches,    \* matches[w][i]: local_matches of the thread for chunk i, in a sequence of its own once it is through
  strangers,
  late        \* history: late[r]: workers of which r did not hear the end

workerVars == <<backlog, serving, matches, strangers>>
vars == <<phase, http, response, fetch, received, wire, workerVars, late>>

\* The list of workers in the broker's source.
Workers == DOMAIN Chunks

EndOfResults == [url |-> "END_OF_RESULTS", score |-> 0]
DefaultK == 20

-----------------------------------------------------------------------------
(* What a worker loads and finds *)

\* index_lookup maps a URL to the first place that has it, in the order of chunks
\* and of documents.
Places(w) == UNION {{<<i, d>> : d \in DOMAIN Chunks[w][i]} : i \in DOMAIN Chunks[w]}
Document(w, place) == Chunks[w][place[1]][place[2]]
UrlAt(w, place) == UrlOf[Document(w, place)]
Before(p, q) == p[1] < q[1] \/ (p[1] = q[1] /\ p[2] < q[2])
IndexLookup(w, place) == \A p \in Places(w) : Before(p, place) => UrlAt(w, p) # UrlAt(w, place)

\* all_meta: a metadata line goes to the place of its URL; other documents keep
\* an empty record.
AllMeta(w, place) ==
  IF UrlAt(w, place) \in MetaUrls[w] /\ IndexLookup(w, place) THEN UrlAt(w, place) ELSE "none"

IsQuery(h) == h.path = "/api/search" /\ h.query # NoQuery /\ h.k >= 0

K(h) == IF h.k = 0 THEN DefaultK ELSE h.k

\* The TopKHeap classes of query_engine.cpp and worker_node.cpp are copies of
\* the broker's that differ in the type of an item.
ChunkBest(k, items, among) == Best(k, items, among)
WorkerBest(k, lists) == BestOfAll(k, lists)

\* QueryEngine::search on each chunk: the documents that match, in order, through a heap.
Match(w, place) == [place |-> place, score |-> ScoreOf[Document(w, place)]]
SearchChunkFor(h, w, i) ==
  ChunkBest(K(h), [d \in DOMAIN Chunks[w][i] |-> Match(w, <<i, d>>)],
            {d \in DOMAIN Chunks[w][i] : Chunks[w][i][d] \in h.query})
Search == [h \in {g \in HttpRequests : IsQuery(g)} |->
             [w \in Workers |-> [i \in DOMAIN Chunks[w] |-> SearchChunkFor(h, w, i)]]]

\* A score is sent with four decimal places: the model's scores lose a digit.
Rounded(score) == (score + 5) \div 10

\* The lines of a response: a title or snippet is the URL's.
Line(w, m) == [url |-> AllMeta(w, m.place), score |-> Rounded(m.score)]

-----------------------------------------------------------------------------
(* The broker *)

\* accept() and a thread for the request; what is asked is up to the client.
Accept(r) ==
  /\ phase[r] = "none"
  /\ phase' = [phase EXCEPT ![r] = "accepted"]
  /\ \E h \in HttpRequests : http' = [http EXCEPT ![r] = h]
  /\ UNCHANGED <<response, fetch, received, wire, workerVars, late>>

Answer(r, status, results) ==
  /\ phase' = [phase EXCEPT ![r] = "answered"]
  /\ response' = [response EXCEPT ![r] = [status |-> status, results |-> results]]

\* handle_frontend up to the fan-out: the plugin, which takes "/", a file ("/search"
\* is the start page), then the API.
HandleFrontend(r) ==
  LET h == http[r]
  IN /\ phase[r] = "accepted"
     /\ \/ h.path = "/" /\ Answer(r, 302, <<>>)
        \/ h.path # "/" /\ h.file /\ Answer(r, 200, <<>>)
        \/ h.path # "/" /\ ~h.file /\ ~IsQuery(h) /\ Answer(r, 400, <<>>)
     /\ UNCHANGED <<http, fetch, received, wire, workerVars, late>>

StartThreads(r) ==
  /\ phase[r] = "accepted" /\ ~http[r].file /\ IsQuery(http[r])
  /\ phase' = [phase EXCEPT ![r] = "asking"]
  /\ fetch' = [fetch EXCEPT ![r] = [w \in Workers |-> "connect"]]
  /\ UNCHANGED <<http, response, received, wire, workerVars, late>>

\* fetch_from_worker: connect and send, or nothing at all.
Connect(r, w) ==
  /\ fetch[r][w] = "connect"
  /\ \/ /\ fetch' = [fetch EXCEPT ![r][w] = "read"]
        /\ backlog' = [backlog EXCEPT ![w] = Append(@, r)]
        /\ UNCHANGED late
     \/ /\ fetch' = [fetch EXCEPT ![r][w] = "done"]
        /\ late' = [late EXCEPT ![r] = @ \cup {w}]
        /\ UNCHANGED backlog
  /\ UNCHANGED <<phase, http, response, received, wire, serving, matches, strangers>>

\* One read(): any part of what has come; a line counts once all of it has.
Read(r, w) ==
  /\ fetch[r][w] = "read"
  /\ \E n \in 1 .. Len(wire[r][w]) :
       LET part == SubSeq(wire[r][w], 1, n)
           ends == Last(part) = EndOfResults
       IN /\ received' = [received EXCEPT ![r][w] = @ \o (IF ends THEN Front(part) ELSE part)]
          /\ wire' = [wire EXCEPT ![r][w] = SubSeq(@, n + 1, Len(@))]
          /\ fetch' = [fetch EXCEPT ![r][w] = IF ends THEN "done" ELSE "read"]
  /\ UNCHANGED <<phase, http, response, workerVars, late>>

\* Mutant: a read that timed out is tried again, as one that was interrupted.
TimeOutReadsOn(r, w) == fetch[r][w] = "read" /\ wire[r][w] = <<>> /\ UNCHANGED vars

\* Half a second without data, and close(); what was on its way is lost.
TimeOut(r, w) ==
  /\ fetch[r][w] = "read"
  /\ fetch' = [fetch EXCEPT ![r][w] = "done"]
  /\ wire' = [wire EXCEPT ![r][w] = <<>>]
  /\ late' = [late EXCEPT ![r] = @ \cup {w}]
  /\ UNCHANGED <<phase, http, response, received, workerVars>>

\* Mutant: the answer is made when the first worker is through.
MergeEarly(r) ==
  /\ phase[r] = "asking" /\ \E w \in Workers : fetch[r][w] = "done"
  /\ Answer(r, 200, BestOfAll(K(http[r]), received[r]))
  /\ UNCHANGED <<http, fetch, received, wire, workerVars, late>>

\* All threads joined: the best of all lines.
Merge(r) ==
  /\ phase[r] = "asking" /\ \A w \in Workers : fetch[r][w] = "done"
  /\ Answer(r, 200, BestOfAll(K(http[r]), received[r]))
  /\ UNCHANGED <<http, fetch, received, wire, workerVars, late>>

-----------------------------------------------------------------------------
(* A worker node *)

\* Somebody connects and does not send: the worker's read() has no time limit.
StrangerConnects(w) ==
  /\ strangers < MaxStrangers /\ strangers' = strangers + 1
  /\ backlog' = [backlog EXCEPT ![w] = Append(@, Stranger)]
  /\ UNCHANGED <<phase, http, response, fetch, received, wire, serving, matches, late>>

AcceptMaster(w) ==
  /\ serving[w] = <<>> /\ backlog[w] # <<>>
  /\ serving' = [serving EXCEPT ![w] = <<Head(backlog[w])>>]
  /\ backlog' = [backlog EXCEPT ![w] = Tail(@)]
  /\ matches' = [matches EXCEPT ![w] = [i \in DOMAIN Chunks[w] |-> <<>>]]
  /\ UNCHANGED <<phase, http, response, fetch, received, wire, strangers, late>>

\* search_chunk_thread for chunk i.
SearchChunk(w, i) ==
  /\ serving[w] # <<>> /\ serving[w] # <<Stranger>> /\ matches[w][i] = <<>>
  /\ LET r == Head(serving[w])
     IN matches' = [matches EXCEPT ![w][i] = <<Search[http[r]][w][i]>>]
  /\ UNCHANGED <<phase, http, response, fetch, received, wire, backlog, serving, strangers, late>>

\* handle_master_connection after the threads: merge, send, close.  What a
\* broker that has stopped reading is sent is lost.
Reply(w) ==
  /\ serving[w] # <<>> /\ serving[w] # <<Stranger>>
  /\ \A i \in DOMAIN Chunks[w] : matches[w][i] # <<>>
  /\ LET r == Head(serving[w])
         best == WorkerBest(K(http[r]), [i \in DOMAIN Chunks[w] |-> Head(matches[w][i])])
         lines == [n \in DOMAIN best |-> Line(w, best[n])]
     IN wire' = IF fetch[r][w] = "read" THEN [wire EXCEPT ![r][w] = Append(lines, EndOfResults)] ELSE wire
  /\ serving' = [serving EXCEPT ![w] = <<>>]
  /\ matches' = [matches EXCEPT ![w] = <<>>]
  /\ UNCHANGED <<phase, http, response, fetch, received, backlog, strangers, late>>

-----------------------------------------------------------------------------
ForAll(x) == [r \in Requests |-> [w \in Workers |-> x]]

Init ==
  /\ phase = [r \in Requests |-> "none"]
  /\ http = [r \in Requests |-> [path |-> "none"]]
  /\ response = [r \in Requests |-> [status |-> 0, results |-> <<>>]]
  /\ fetch = ForAll("none") /\ received = ForAll(<<>>) /\ wire = ForAll(<<>>)
  /\ backlog = [w \in Workers |-> <<>>] /\ serving = [w \in Workers |-> <<>>]
  /\ matches = [w \in Workers |-> <<>>] /\ strangers = 0
  /\ late = [r \in Requests |-> {}]

BrokerThread(r) ==
  HandleFrontend(r) \/ StartThreads(r) \/ Merge(r)
    \/ \E w \in Workers : Connect(r, w) \/ Read(r, w) \/ TimeOut(r, w)
WorkerNode(w) == AcceptMaster(w) \/ Reply(w) \/ \E i \in DOMAIN Chunks[w] : SearchChunk(w, i)

Next ==
  \/ \E r \in Requests : Accept(r) \/ BrokerThread(r)
  \/ \E w \in Workers : WorkerNode(w) \/ StrangerConnects(w)

Spec == Init /\ [][Next]_vars

\* Every thread of the broker goes on: its reads from workers have a time limit.
\* Workers need no fairness for that.  The last step is named by what it does to
\* the phase alone.
Asks(r) == HandleFrontend(r) \/ StartThreads(r) \/ \E w \in Workers : Connect(r, w) \/ Read(r, w) \/ TimeOut(r, w)
Ends(r) == phase[r] = "asking" /\ (\A w \in Workers : fetch[r][w] = "done")
             /\ phase' = [phase EXCEPT ![r] = "answered"]
FairSpec == Spec /\ \A r \in Requests : WF_vars(Asks(r)) /\ WF_phase(Ends(r))

-----------------------------------------------------------------------------
(* Properties *)

\* The documents of workers ws that match a query, as <<worker, place>>, and
\* their lines.
Matching(h, ws) == UNION {{<<w, p>> : p \in {q \in Places(w) : Document(w, q) \in h.query}} : w \in ws}
LineOf == [m \in UNION {{<<w, p>> : p \in Places(w)} : w \in Workers} |-> Line(m[1], Match(m[1], m[2]))]

Answered(r) == phase[r] = "answered" /\ IsQuery(http[r]) /\ ~http[r].file

\* An answer is the best k of all documents that match, over all chunks of all
\* workers that were heard to the end, whatever cut and merged before; what is
\* in it of the others are documents that match as well.  No answer names a URL
\* twice, even if a worker has two documents for it (a page crawled again after a
\* restart): only one of them has its metadata.
AnswerIsBest ==
  \A r \in Requests : Answered(r) =>
    LET h == http[r]
        results == response[r].results
    IN /\ IsBest(results, K(h), LineOf, Matching(h, Workers), Matching(h, Workers \ late[r]))
       /\ \A i, j \in DOMAIN results :
            i # j => results[i].url # results[j].url \/ results[i].url = "none"

\* Whatever workers do, hang or answer late, every request is answered.
EveryRequestAnswered == \A r \in Requests : phase[r] = "accepted" ~> phase[r] = "answered"
=============================================================================
