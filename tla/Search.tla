------------------------------- MODULE Search -------------------------------
(***************************************************************************)
(* From pages and anchor texts to the documents of a chunk that a query    *)
(* finds: the program that builds the anchor chunks                        *)
(* (src/src/anchor_index_builder.cpp) and the loop of QueryEngine::search  *)
(* over the body's cursor and the anchor's (query_engine.cpp).             *)
(*                                                                         *)
(* chunks is a sequence of sequences of pages, chunk c being the file      *)
(* chunk_<c-1>.idx.  A line of the files with anchor texts is a record     *)
(* [url, text]; a text is a sequence of characters.  A cursor is the set   *)
(* of documents that it still has ahead, as module QueryCursor shows.      *)
(***************************************************************************)
EXTENDS QueryText

-----------------------------------------------------------------------------
(* anchor_index_builder *)

\* tokenize: the runs of letters.
Tokenized(text) ==
  LET Read(s, c) ==
        IF c \notin Letters THEN [s EXCEPT !.inside = FALSE]
        ELSE IF s.inside THEN [s EXCEPT !.words = Append(Front(@), Append(Last(@), c))]
        ELSE [words |-> Append(s.words, <<c>>), inside |-> TRUE]
  IN FoldLeft(Read, [words |-> <<>>, inside |-> FALSE], text).words

\* url_to_chunk: the first chunk in which a URL is found, in readdir's order.
\* Find(url, chunk_id) leaves a value that is there as it is.
ChunkOf(chunks, order, u) ==
  LET having == {i \in DOMAIN order : \E p \in ToSet(chunks[order[i]]) : p.url = u}
  IN IF having = {} THEN 0 ELSE order[Min(having)]

\* partition_anchor_text: the lines of the URLs of chunk c, in their order.
Partition(chunks, order, lines, c) == SelectSeq(lines, LAMBDA x : ChunkOf(chunks, order, x.url) = c)

Placeholder == <<"PageWithNoAnchorText">>

\* The words of a URL's lines, each text followed by a space.
AnchorWords(partition, u) ==
  LET own == SelectSeq(partition, LAMBDA x : x.url = u)
      words == Tokenized(FlattenSeq([i \in DOMAIN own |-> Append(own[i].text, " ")]))
  IN IF words = <<>> THEN <<Placeholder>> ELSE words

\* Mutant: a page without anchor text gets no document.
AnchorPagesOfLinked(pages, partition) ==
  LET linked == SelectSeq(pages, LAMBDA p : AnchorWords(partition, p.url) # <<Placeholder>>)
  IN [i \in DOMAIN linked |->
        [url |-> linked[i].url, title |-> <<>>, body |-> AnchorWords(partition, linked[i].url)]]

\* build_anchor_index: one document for each of the chunk's, with the same number.
AnchorPages(pages, partition) ==
  [i \in DOMAIN pages |->
    [url |-> pages[i].url, title |-> <<>>, body |-> AnchorWords(partition, pages[i].url)]]

BuildAnchorIndex(chunks, order, lines, c) ==
  IndexPages(AnchorPages(chunks[c], Partition(chunks, order, lines, c)))

-----------------------------------------------------------------------------
(* QueryEngine::search *)

\* The terms of a document at its places; words without hyphens have one each.
TermsOf(index, doc) ==
  [k \in 1 .. doc.end - doc.start |->
    CHOOSE t \in DOMAIN index.postings : doc.start + k - 1 \in ToSet(index.postings[t].locations)]

\* What the tree finds in an index; its documents are numbered from 0.
Ahead(index, node) ==
  {i - 1 : i \in {n \in DOMAIN index.documents : Finds(node, TermsOf(index, index.documents[n]))}}

\* The loop: the smaller of the two cursors' documents is taken, and every cursor
\* that stands in it moves behind its end.  The body's chunk has a record of it.
RECURSIVE Merge(_, _, _)
Merge(body, anchor, documents) ==
  IF body \cup anchor = {} THEN <<>>
  ELSE LET current == Min(body \cup anchor)
           behind(docs) == IF docs # {} /\ Min(docs) = current THEN docs \ {current} ELSE docs
       IN (IF current < documents THEN <<current>> ELSE <<>>)
            \o Merge(behind(body), behind(anchor), documents)

\* What search() pushes to its heap, of which module TopK keeps the best.
Found(body, anchor, tokens) ==
  LET root(index, isAnchor) ==
        Compile(DOMAIN index.postings \ {DocEnd}, isAnchor, tokens)
  IN IF tokens = <<>> THEN <<>>
     ELSE Merge(Ahead(body, root(body, FALSE)), Ahead(anchor, root(anchor, TRUE)), Len(body.documents))

-----------------------------------------------------------------------------
(* Properties *)

\* The texts of all lines for a URL, cut into words.
TextsFor(lines, u) ==
  LET own == SelectSeq(lines, LAMBDA x : x.url = u)
  IN FlattenSeq([i \in DOMAIN own |-> Tokenized(own[i].text)])

\* What a query of one alternative without groups means for words, those of a
\* title first.
MeansWords(query, words) ==
  Means(query, [k \in DOMAIN words |-> [title |-> FALSE, text |-> Stem(words[k])]])

\* A search of a chunk finds, each once and in their order, the documents whose
\* title and body or whose anchor texts the query means; of pages with one URL
\* in several chunks, those of the chunk read first have all of its anchor texts
\* and the others none.
FindsByBodyOrAnchor(chunks, order, lines, query) ==
  \A c \in DOMAIN chunks :
    LET pages == chunks[c]
        texts(i) == IF ChunkOf(chunks, order, pages[i].url) = c THEN TextsFor(lines, pages[i].url) ELSE <<>>
        meant == {i \in DOMAIN pages : \/ MeansWords(query, pages[i].title \o pages[i].body)
                                       \/ MeansWords(query, IF texts(i) = <<>> THEN <<Placeholder>> ELSE texts(i))}
        found == Found(IndexPages(pages), BuildAnchorIndex(chunks, order, lines, c), Spell(query))
    IN /\ ToSet(found) = {i - 1 : i \in meant}
       /\ \A i \in 1 .. Len(found) - 1 : found[i] < found[i + 1]
=============================================================================
