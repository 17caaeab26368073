------------------------------ MODULE IndexFile ------------------------------
(***************************************************************************)
(* An index chunk, from the words of its pages to the file and back        *)
(* (src/src/index/src/lib): Tokenizer, InMemoryIndex, flushIndexChunk with *)
(* the DiskChunkWriter, the DiskChunkReader, the variable-length numbers   *)
(* and the seek table.                                                     *)
(*                                                                         *)
(* A raw word is a sequence of letters and other characters, a page a      *)
(* record [url, title, body] of sequences of raw words.  A term is a       *)
(* record [title, text].  Offsets into the file are places in its          *)
(* sections.  The features of a document travel like its URL and are left  *)
(* out.                                                                    *)
(***************************************************************************)
EXTENDS Integers, Sequences, SequencesExt, FiniteSets

CONSTANTS
  Payload,          \* values of the low bits of a byte, 2^7
  LocationLimit,        \* values of a uint32_t location, 2^32
  EntryCount,       \* entries of a seek table
  BuildThreshold,
  Letters,          \* what isAlphaNumeric accepts
  Stem(_),          \* PorterStemmer::stem
  Hash(_)           \* hashString

-----------------------------------------------------------------------------
(* VariableByteEncoder *)

RECURSIVE Encode(_)
Encode(value) ==
  IF value < Payload THEN <<value>> ELSE <<Payload + (value % Payload)>> \o Encode(value \div Payload)

\* The number at offset ptr (0-based) and where it ends.
RECURSIVE Decode(_, _)
Decode(data, ptr) ==
  LET b == data[ptr + 1]
  IN IF b < Payload THEN [value |-> b, next |-> ptr + 1]
     ELSE LET rest == Decode(data, ptr + 1)
          IN [value |-> (b - Payload + Payload * rest.value) % LocationLimit, next |-> rest.next]

EncodeDeltaList(locations) ==
  FlattenSeq([i \in DOMAIN locations |->
    Encode((locations[i] - (IF i = 1 THEN 0 ELSE locations[i - 1])) % LocationLimit)])

\* decodeDeltaList, and what the seek table's loops see on the way: each
\* posting with its 0-based index and the offset behind it.
Decoded(data, count) ==
  FoldLeft(LAMBDA ps, i :
             LET before == IF ps = <<>> THEN [base |-> 0, offset |-> 0] ELSE Last(ps)
                 number == Decode(data, before.offset)
             IN Append(ps, [base |-> (before.base + number.value) % LocationLimit,
                            offset |-> number.next, posting |-> i - 1]),
           <<>>, [i \in 1 .. count |-> i])

-----------------------------------------------------------------------------
(* SeekTable *)

NoPosting == -1
Empty == [base |-> 0, offset |-> 0, posting |-> NoPosting]
Entries == 0 .. EntryCount - 1

\* extractIndex: the top bits of a location.
Entry(location) == location \div (LocationLimit \div EntryCount)

\* build: the first posting of each entry's locations; an entry without one
\* repeats the one before it, and the leading ones stay empty.
BuildTable(data, count) ==
  LET ps == Decoded(data, count)
      known == {Entry(ps[i].base) : i \in DOMAIN ps}
  IN [e \in Entries |->
        LET below == {k \in known : k <= e}
        IN IF below = {} THEN Empty
           ELSE SelectSeq(ps, LAMBDA p : Entry(p.base) = Max(below))[1]]

\* serialize, and the first half of deserialize: the posting indices are not written.
Restored(table) == [e \in Entries |-> [table[e] EXCEPT !.posting = NoPosting]]

\* One posting in the loop of addPostingIndexes: it goes to the run of entries
\* from the current one on that are its own.
AddPostingIndex(state, p) ==
  LET own(e) == state.table[e].offset = p.offset /\ state.table[e].base = p.base
      upTo == Max({n \in state.entry .. EntryCount : \A e \in state.entry .. n - 1 : own(e)})
  IN [entry |-> upTo,
      table |-> [e \in Entries |-> IF e \in state.entry .. upTo - 1
                                   THEN [state.table[e] EXCEPT !.posting = p.posting]
                                   ELSE state.table[e]]]

Deserialize(table, data, count) ==
  FoldLeft(AddPostingIndex, [entry |-> 0, table |-> Restored(table)], Decoded(data, count)).table

\* A posting list in the file; only a long one has a table.
NoTable == <<>>
WritePostingList(locations) ==
  LET data == EncodeDeltaList(locations)
  IN [count |-> Len(locations), data |-> data,
      table |-> IF Len(locations) > BuildThreshold THEN BuildTable(data, Len(locations)) ELSE NoTable]

-----------------------------------------------------------------------------
(* Tokenizer *)

\* stripPunc.
StripPunc(word) ==
  LET letters == {i \in DOMAIN word : word[i] \in Letters}
  IN IF letters = {} THEN <<>> ELSE SubSeq(word, Min(letters), Max(letters))

\* processToken: the word, and the two sides of its first hyphen.
ProcessToken(word) ==
  LET stripped == StripPunc(word)
      hyphen == SelectInSeq(stripped, LAMBDA c : c = "-")
  IN IF stripped = <<>> THEN <<>>
     ELSE IF hyphen = 0 THEN <<Stem(stripped)>>
     ELSE <<Stem(stripped), Stem(SubSeq(stripped, 1, hyphen - 1)),
            Stem(SubSeq(stripped, hyphen + 1, Len(stripped)))>>

\* The tokens of raw words from location base on.
TokensOf(words, base, title) ==
  FlattenSeq([i \in DOMAIN words |->
    LET texts == ProcessToken(words[i])
    IN [k \in DOMAIN texts |-> [term |-> [title |-> title, text |-> texts[k]], location |-> base + i - 1]]])

DocEnd == [title |-> FALSE, text |-> <<"#DocEnd">>]

\* processDocument for a page whose first word gets location start.
ProcessDocument(page, start) ==
  LET body == start + Len(page.title)
  IN [tokens |-> TokensOf(page.title, start, TRUE) \o TokensOf(page.body, body, FALSE),
      docEnd |-> [url |-> page.url, start |-> start, end |-> body + Len(page.body),
                  words |-> Len(page.body), titleWords |-> Len(page.title)]]

-----------------------------------------------------------------------------
(* InMemoryIndex *)

EmptyIndex == [postings |-> [t \in {} |-> <<>>], documents |-> <<>>, seen |-> {}, totalLocations |-> 0]

AddToken(index, token) ==
  LET t == token.term
      old == IF t \in DOMAIN index.postings THEN index.postings[t] ELSE [locations |-> <<>>, docs |-> 0]
      new == [locations |-> Append(old.locations, token.location),
              docs |-> old.docs + (IF t \in index.seen THEN 0 ELSE 1)]
  IN [index EXCEPT !.postings = [x \in DOMAIN @ \cup {t} |-> IF x = t THEN new ELSE @[x]],
                   !.seen = @ \cup {t},
                   !.totalLocations = IF token.location + 1 > @ THEN token.location + 1 ELSE @]

FinishDocument(index, docEnd) ==
  LET ended == AddToken(index, [term |-> DocEnd, location |-> docEnd.end])
  IN [ended EXCEPT !.documents = Append(@, docEnd), !.seen = {}]

\* The pages of a chunk, one after the other.
IndexPages(pages) ==
  FoldLeft(LAMBDA index, page :
             LET doc == ProcessDocument(page, index.totalLocations)
             IN FinishDocument(FoldLeft(AddToken, index, doc.tokens), doc.docEnd),
           EmptyIndex, pages)

-----------------------------------------------------------------------------
(* flushIndexChunk and DiskChunkWriter *)

InSomeOrder(S) == FoldSet(LAMBDA x, s : Append(s, x), <<>>, S)

BucketOf(term, n) == Hash(term) % n

\* A section of the file is a sequence of cells, with offsets from its beginning.
\* writeDocumentTable: how many documents, where each lies, and the documents.
WriteDocumentTable(documents) ==
  LET n == Len(documents)
  IN <<n>> \o [i \in 1 .. n |-> 1 + n + 2 * (i - 1)]
       \o FlattenSeq([i \in 1 .. n |-> <<documents[i].url, documents[i]>>])

\* writeDictionary: how many buckets, where each chain lies (0 for none), and the
\* chains, each with a sentinel behind it.
Unoccupied == [occupied |-> FALSE]
WriteDictionary(buckets) ==
  LET n == Len(buckets)
      Write(d, chain) ==
        IF chain = <<>> THEN [d EXCEPT !.offsets = Append(@, 0)]
        ELSE [offsets |-> Append(d.offsets, 1 + n + Len(d.chains)),
              chains |-> d.chains \o chain \o <<Unoccupied>>]
      written == FoldLeft(Write, [offsets |-> <<>>, chains |-> <<>>], buckets)
  IN <<n>> \o written.offsets \o written.chains

\* The file: posting lists in any order of the terms, the documents, and a
\* dictionary whose chains point to the lists.
FlushIndexChunk(index) ==
  LET Written(terms, buckets) ==
        LET entries == [i \in DOMAIN terms |->
                          [occupied |-> TRUE, term |-> terms[i], posting |-> i,
                           docs |-> index.postings[terms[i]].docs]]
            chain(b) == SelectSeq(entries, LAMBDA x : BucketOf(x.term, buckets) = b - 1)
        IN [lists |-> [i \in DOMAIN terms |-> WritePostingList(index.postings[terms[i]].locations)],
            documents |-> WriteDocumentTable(index.documents),
            dictionary |-> WriteDictionary([b \in 1 .. buckets |-> chain(b)]),
            numDocuments |-> Len(index.documents), totalLocations |-> index.totalLocations]
  IN Written(InSomeOrder(DOMAIN index.postings),
             Max({1, (Cardinality(DOMAIN index.postings) * 3) \div 2}))

-----------------------------------------------------------------------------
(* DiskChunkReader *)

\* The table of a list as it is read back.
ReadPostingList(list) ==
  [list EXCEPT !.table = IF @ = NoTable THEN @ ELSE Deserialize(@, list.data, list.count)]

\* The entry of a term in the dictionary, or nothing: its chain is read up to
\* the sentinel.
FindEntry(dictionary, term) ==
  LET offset == dictionary[2 + BucketOf(term, Head(dictionary))]
      rest == SubSeq(dictionary, offset + 1, Len(dictionary))
      chain == SubSeq(rest, 1, SelectInSeq(rest, LAMBDA x : ~x.occupied) - 1)
  IN IF offset = 0 THEN <<>> ELSE SelectSeq(chain, LAMBDA x : x.term = term)

\* createISR: the list of a term with its table as read back, or nothing.
CreateISR(chunk, term) ==
  LET found == FindEntry(chunk.dictionary, term)
  IN IF found = <<>> THEN <<>> ELSE <<ReadPostingList(chunk.lists[found[1].posting])>>

\* getDocument; ids begin at 0.
GetDocument(chunk, id) ==
  IF id >= chunk.numDocuments THEN <<>>
  ELSE LET offset == chunk.documents[2 + id] IN <<chunk.documents[offset + 2]>>

\* getDocumentByLocation: the first in the table whose range holds the location;
\* the documents are read one after the other, without their offsets.
GetDocumentByLocation(chunk, location) ==
  LET record(i) == chunk.documents[1 + chunk.numDocuments + 2 * i]
      holding == {i \in 1 .. chunk.numDocuments :
                    record(i).start <= location /\ location <= record(i).end}
  IN IF holding = {} THEN <<>> ELSE <<record(Min(holding))>>

-----------------------------------------------------------------------------
(* Properties *)

\* All raw words of the pages in their order, with #DocEnd behind each page: a
\* location is a place in it.
Layout(pages) ==
  FlattenSeq([i \in DOMAIN pages |->
    [k \in DOMAIN pages[i].title |-> [page |-> i, title |-> TRUE, word |-> pages[i].title[k]]]
      \o [k \in DOMAIN pages[i].body |-> [page |-> i, title |-> FALSE, word |-> pages[i].body[k]]]
      \o << [page |-> i, title |-> FALSE, word |-> DocEnd.text] >>])

\* Whether the word at a place of the layout is indexed under a term.
Names(place, term) ==
  \/ place.word = DocEnd.text /\ term = DocEnd
  \/ place.word # DocEnd.text /\ place.title = term.title /\ term.text \in ToSet(ProcessToken(place.word))

\* What is read back from the file of a chunk is what its pages hold: for every
\* term, in or out of the index, the locations at which it stands, in order
\* (a location twice only for a hyphenated word with two equal parts), how many
\* pages have it, and for every location its document.
ChunkHoldsPages(pages, terms) ==
  LET ListHolds(list, places) ==
        /\ list = <<>> <=> places = {}
        /\ list # <<>> =>
             LET ps == Decoded(list[1].data, list[1].count)
             IN /\ {ps[i].base : i \in DOMAIN ps} = places
                /\ \A i \in 1 .. Len(ps) - 1 : ps[i].base <= ps[i + 1].base
      Holds(chunk, layout) ==
        LET places(t) == {k - 1 : k \in {n \in DOMAIN layout : Names(layout[n], t)}}
        IN /\ chunk.totalLocations = Len(layout)
           /\ \A t \in terms \cup {DocEnd} : ListHolds(CreateISR(chunk, t), places(t))
           /\ \A t \in terms : \A x \in ToSet(FindEntry(chunk.dictionary, t)) :
                x.docs = Cardinality({layout[k + 1].page : k \in places(t)})
           /\ \A k \in DOMAIN layout :
                GetDocumentByLocation(chunk, k - 1) = GetDocument(chunk, layout[k].page - 1)
  IN Holds(FlushIndexChunk(IndexPages(pages)), Layout(pages))

\* A seek table read back names for each entry the posting it points to, as it
\* did when it was built, if the list begins among the first entry's locations;
\* if not, addPostingIndexes stops at the leading empty entry and the whole
\* table names none.
TableReadBack(locations) ==
  LET ReadBack(built, data) ==
        Deserialize(built, data, Len(locations))
          = IF Entry(locations[1]) = 0 THEN built ELSE Restored(built)
      Listed(data) == ReadBack(BuildTable(data, Len(locations)), data)
  IN locations # <<>> => Listed(EncodeDeltaList(locations))
=============================================================================
