---------------------------- MODULE MCAlgorithms ----------------------------
(***************************************************************************)
(* The sequential parts of the program, each as its own subject of one     *)
(* run.  Five of them are machines that take steps: the reservoir sweep,   *)
(* the cursor over one posting list, one HTTPS request, the containers and *)
(* the frontier's chunk files.                                             *)
(* The others are functions: a behaviour chooses one input and stops, and  *)
(* the property compares the function with its reference there.            *)
(***************************************************************************)
EXTENDS ReservoirSweep

VARIABLES
  subject,   \* what this behaviour is about
  chosen,    \* whether a function has got its input
  input,
  list, locations, index, ptr, at, exhausted, calling, target, answer,
  step, url, response, held, blocking, asked, raw, ending, body,
  kind, rep, model,
  fileReservoir, back, level, fileQueued, filePending, files, pushed, forgotten, done,
  restarts, failures, torn, failed

SeqsUpTo(S, n) == UNION {[1 .. k -> S] : k \in 0 .. n}

-----------------------------------------------------------------------------
(* Small values of every constant *)

\* A plural loses its "s", and terms of equal length fall into one bucket.
StemOf(w) == IF Len(w) > 2 /\ Last(w) = "s" THEN Front(w) ELSE w
TermHash(t) == Len(t.text) + (IF t.title THEN 3 ELSE 0)
PostingLists ==
  {s \in SeqsUpTo({0, 1, 7, 8, 9, 30}, 4) : s # <<>> /\ \A i \in 1 .. Len(s) - 1 : s[i] <= s[i + 1]}

LowerOf == [c \in {"H", "A"} |-> IF c = "H" THEN "h" ELSE "a"]
PageUrls == {<<"h", ":", "/", "/", "a", "/", "b">>, <<"h", ":", "/", "/", "a", ":", "4", "/">>,
             <<"h", ":", "/", "/", "a">>, <<"a">>, <<"h", ":", "/", "/">>}
Answers ==
  {head \o blank \o rest :
     head \in {<<"HTTP", " ", "2", "0", "0">>, <<"HTTP", " ", "4", "0", "4">>, <<"x">>,
               <<"HTTP", " ", "2", "0">>, <<"HTTP", " ", " ", "2", "0", "4", "x">>},
     blank \in {<<"\r", "\n", "\r", "\n">>, <<"\n", "\n">>, <<"\r", "\n">>,
                <<"\n", "x", "\r", "\n", "\r", "\n">>},
     rest \in {<<>>, <<"x">>, <<"x", "x", "\n", "\n", "x">>, <<"x", "\r", "\n", "\r", "\n", "x">>}}

\* Keys 0, 1, 2 fall into buckets such that chains and empty buckets occur.
KeyHash(k) == (3 * k) % 5

\* URL 3 has only bits that URLs 1 and 2 have.
KeyDigest(k) == CASE k = 1 -> <<15, 3>> [] k = 2 -> <<5, 9>> [] k = 3 -> <<13, 5>> [] k = 0 -> <<0, 0>>

WC == INSTANCE WordCursor
  WITH Payload <- 4, LocationLimit <- 32, EntryCount <- 4, BuildThreshold <- 2,
       Letters <- {"a", "b", "s", "or"}, Stem <- StemOf, Hash <- TermHash, Lists <- PostingLists
QT == INSTANCE Search
  WITH Payload <- 4, LocationLimit <- 32, EntryCount <- 4, BuildThreshold <- 2,
       Letters <- {"a", "b", "s", "or", "PageWithNoAnchorText"}, Stem <- StemOf, Hash <- TermHash
FT == INSTANCE Fetch
  WITH Urls <- PageUrls, Responses <- Answers, MaxResponse <- 12, BuffLength <- 4,
       Lower <- LowerOf, Spaces <- {" "}, Schemes <- {<<"h">>},
       AllowedTlds <- {<<"a">>, <<"a", ".", "b">>}, BadExts <- {<<".", "%">>},
       AllowedExts <- {<<".", "h">>}, BlockedHosts <- {<<"h", ".", "a">>},
       MaxPercentSigns <- 1, MinTailLength <- 3
HT == INSTANCE Html
  WITH Discarded <- {"p"}, FirstCapacity <- 1, EnoughWords <- 2, StopWords <- {},
       WordsToJudge <- 2, Latin <- {"x"}, OtherAlpha <- {}
UT == INSTANCE Utf8
RT == INSTANCE RobotsTxt
CT == INSTANCE Containers
  WITH Elements <- {0, 1, 2}, HashOf <- KeyHash, MaxSize <- 5, FirstCapacity <- 1, CompactFrom <- 2
CF == INSTANCE ChunkFiles
  WITH MaxQueued <- 4, MaxItems <- 12, MaxRestarts <- 2, MaxFailures <- 1,
       reservoir <- fileReservoir, queued <- fileQueued, pending <- filePending
UF == INSTANCE UrlFilter
  WITH BitCount <- 10, HashCount <- 3, Wrap <- 16, Digest <- KeyDigest, EmptyKey <- 0

cursorVars == <<list, locations, index, ptr, at, exhausted, calling, target, answer>>
requestVars == <<step, url, response, held, blocking, asked, raw, ending, body>>
memoryVars == <<kind, rep, model>>
fileVars == <<fileReservoir, back, level, fileQueued, filePending, files, pushed, forgotten,
              done, restarts, failures, torn, failed>>
vars == <<subject, chosen, input, sweepVars, cursorVars, requestVars, memoryVars, fileVars>>

-----------------------------------------------------------------------------
(* The inputs of the functions *)

\* Two pages, some with a title and with hyphenated and punctuated words.
RawWords == {<<"a">>, <<"a", "-", "b">>, <<"a", "-", "a">>, <<".">>, <<"b", "a", "s", ".">>}
Pages ==
  [url : {"u"}, title : {<<>>} \cup {<<w>> : w \in RawWords},
   body : {<<>>, << <<"b">>, <<"a">> >>} \cup {<<w>> : w \in RawWords}]
SomeTerms ==
  [title : BOOLEAN, text : {<<"a">>, <<"b">>, <<"a", "-", "b">>, <<"a", "-", "a">>, <<"b", "a">>, <<"z">>}]

\* Query texts, and queries of words, exclusions and phrases with one group;
\* of the words x, y and z the first two pages lack z.
QueryTexts == SeqsUpTo({"a", "or", ".", "-", " ", "(", "\"", "|", "&"}, 4)
Atoms ==
  LET word(t) == [kind |-> "word", text |-> <<t>>]
      not(t) == [kind |-> "not", text |-> <<t>>]
      phrase(s, t) == [kind |-> "phrase", texts |-> << <<s>>, <<t>> >>]
  IN {word("x"), word("y"), word("z"), not("y"), not("z"), phrase("x", "y"), phrase("z", "x")}
Alternatives == {<<a>> : a \in Atoms} \cup {<<a, b>> : a, b \in Atoms}
FlatQueries == {<<a>> : a \in Alternatives} \cup {<<a, b>> : a, b \in Alternatives}
NestedQueries ==
  LET group(q) == [kind |-> "group", query |-> q]
      inner == {<<a>> : a \in Alternatives} \cup {<< <<a>>, <<b>> >> : a, b \in Atoms}
  IN UNION {{<< <<group(q), a>> >>, << <<a, group(q)>> >>, << <<group(q)>>, <<a>> >>} : q \in inner, a \in Atoms}
Terms(texts, title) == [k \in DOMAIN texts |-> [title |-> title /\ k = 1, text |-> <<texts[k]>>]]
PagesWithoutZ == <<Terms(<<"x", "y">>, TRUE), Terms(<<"x">>, FALSE), Terms(<<"y", "x">>, FALSE)>>
PagesWithZ == Append(PagesWithoutZ, Terms(<<"z", "x">>, FALSE))

\* Two chunks with the same URLs, and lines with anchor texts for them.
SearchPages ==
  {[url |-> "u", title |-> << <<"a">> >>, body |-> << <<"b">> >>],
   [url |-> "u", title |-> <<>>, body |-> << <<"a">>, <<"b">> >>],
   [url |-> "v", title |-> <<>>, body |-> << <<"b", "a", "s">> >>],
   [url |-> "v", title |-> << <<"b">> >>, body |-> <<>>]}
Searches ==
  [chunks : {<< <<p, q>>, <<s>> >> : p, q, s \in SearchPages}, order : {<<1, 2>>, <<2, 1>>},
   lines : SeqsUpTo([url : {"u", "v", "w"}, text : {<<"a", ".", "b">>, <<"b", "a">>, <<".">>}], 2)]
SearchQueries ==
  LET word(t) == [kind |-> "word", text |-> t]
      not(t) == [kind |-> "not", text |-> t]
      phrase(s, t) == [kind |-> "phrase", texts |-> <<s, t>>]
  IN {<<<<word(<<"b">>)>>>>, <<<<word(<<"b", "a">>)>>>>, <<<<phrase(<<"a">>, <<"b">>)>>>>,
      <<<<word(<<"b">>), not(<<"a">>)>>>>, <<<<phrase(<<"b", "a">>, <<"b">>), word(<<"a">>)>>>>}

\* Calls of the filter of seen URLs, and lines of the frontier's files.
FilterCalls == SeqsUpTo(({"check", "insert"} \X (0 .. 3)) \cup {<<"restart", 0>>}, 4)
SavedItems ==
  [link : SeqsUpTo({"a", "1", "|", "\n"}, 4), suffix : {<<"0">>, <<"7">>}, baseLength : {<<"1", "0">>},
   seedDistance : {<<"0">>, <<"1">>}, pathDepth : {<<"1", "7">>}, failed : BOOLEAN]

RawUrls ==
  {p \o t : p \in {<<" ", "H", ":", "/", "/">>, <<"h", ":", "/", "/", "a", ".", "A">>},
            t \in SeqsUpTo({"h", "A", "/", ".", "?", "#", " ", "%", "@", ":"}, 4)}
Links ==
  [page : SeqsUpTo({<<"a">>, <<"b">>}, 3), slash : BOOLEAN,
   pieces : SeqsUpTo({<<"a">>, <<".">>, <<".", ".">>, <<"b">>}, 3), absolute : BOOLEAN]

Patterns == [argument : SeqsUpTo({"x", "y", "*", "$"}, 4), path : SeqsUpTo({"x", "y", "78"}, 3)]

\* A robots.txt file is given by the numbers of its lines.
RobotsLines ==
  LET line(k, a) == [keyword |-> k, argument |-> a]
  IN <<line("user-agent", [any |-> TRUE, mine |-> FALSE]), line("user-agent", [any |-> FALSE, mine |-> TRUE]),
       line("allow", <<"/", "x">>), line("disallow", <<"/", "x">>),
       line("allow", <<"/", "x", "y">>), line("disallow", <<"/", "x", "y">>),
       line("allow", <<"/", "*", "y", "$">>), line("disallow", <<"/", "*", "y", "$">>)>>
RobotsFiles == {<<a>> \o f : a \in {1, 2}, f \in SeqsUpTo(DOMAIN RobotsLines, 4)}
FileOf(f) == [i \in DOMAIN f |-> RobotsLines[f[i]]]
RobotsPaths == {<<"/", "x", "y">>, <<"/", "x">>, <<"/", "x", "y", "y">>}

HtmlPages ==
  SeqsUpTo(DOMAIN HT!Spelling, 3)
    \cup SeqsUpTo({"anchor", "text", "blank", "embed", "endAnchor", "title"}, 4)

\* The values around every boundary, and bytes around those of the lead bytes.
CodePoints ==
  {-1} \cup UNION {{m - 1, m, m + 1} :
      m \in {1, 127, 2047, 55296, 57343, 64976, 65007, 65534, 65535, 1114111, 2097151, 67108863}}
    \cup {2147483646, 2147483647}
ByteTexts ==
  SeqsUpTo({65, 128, 191, 192, 194, 195, 224, 226, 239, 240, 244, 248, 252, 254}, 3)
    \cup {<<a>> \o t : a \in {224, 239, 240, 248}, t \in SeqsUpTo({128, 144, 183, 65}, 4)}

Inputs ==
  [pages     |-> {<<p, q>> : p, q \in Pages},
   queryText |-> QueryTexts,
   query     |-> FlatQueries \cup NestedQueries,
   search    |-> Searches,
   filter    |-> FilterCalls,
   line      |-> SavedItems,
   url       |-> RawUrls,
   link      |-> Links,
   pattern   |-> Patterns,
   robots    |-> RobotsFiles,
   html      |-> HtmlPages,
   codePoint |-> CodePoints,
   bytes     |-> ByteTexts]

-----------------------------------------------------------------------------
(* One subject takes its steps, all others stay where they are *)

IdleCursor == WC!Init /\ locations = <<0>>
IdleRequest == FT!Init /\ url = <<"a">> /\ response = <<"x", "\r", "\n">>
IdleMemory == CT!Init /\ kind = "queue"

RunInit ==
  /\ chosen = FALSE /\ input = <<>>
  /\ Init /\ CF!Init
  /\ \/ subject \in DOMAIN Inputs \cup {"sweep", "files"} /\ IdleCursor /\ IdleRequest /\ IdleMemory
     \/ subject = "postings" /\ WC!Init /\ IdleRequest /\ IdleMemory
     \/ subject = "request" /\ IdleCursor /\ FT!Init /\ IdleMemory
     \/ subject = "memory" /\ IdleCursor /\ IdleRequest /\ CT!Init

Choose ==
  /\ subject \in DOMAIN Inputs /\ ~chosen
  /\ chosen' = TRUE /\ input' \in Inputs[subject]
  /\ UNCHANGED <<subject, sweepVars, cursorVars, requestVars, memoryVars, fileVars>>

RunNext ==
  \/ Choose
  \/ /\ subject = "sweep" /\ Next
     /\ UNCHANGED <<subject, chosen, input, cursorVars, requestVars, memoryVars, fileVars>>
  \/ /\ subject = "postings" /\ WC!Next
     /\ UNCHANGED <<subject, chosen, input, sweepVars, requestVars, memoryVars, fileVars>>
  \/ /\ subject = "request" /\ FT!Next
     /\ UNCHANGED <<subject, chosen, input, sweepVars, cursorVars, memoryVars, fileVars>>
  \/ /\ subject = "memory" /\ CT!Next
     /\ UNCHANGED <<subject, chosen, input, sweepVars, cursorVars, requestVars, fileVars>>
  \/ /\ subject = "files" /\ CF!Next
     /\ UNCHANGED <<subject, chosen, input, sweepVars, cursorVars, requestVars, memoryVars>>

RunSpec == RunInit /\ [][RunNext]_vars

-----------------------------------------------------------------------------
(* Properties *)

About(s) == chosen /\ subject = s

\* One sweep takes exactly the promoted items out of the reservoir (but for a
\* chunk with fewer elements behind it than removals but one), they are the
\* chunk's best, and the cursor is brought back into the vector that has become shorter.
SweepSound == []SweepTypeOK /\ RemovalsExactElsewhere /\ StrongestPromoted

\* What a chunk's file gives back is what its pages hold, and a posting list's
\* bytes and seek table make a cursor that passes nothing and knows how far it is.
PostingsReadBack ==
  /\ WC!ImplementsCursor
  /\ [](/\ About("pages") => WC!ChunkHoldsPages(input, SomeTerms)
        /\ subject = "postings" => WC!TableReadBack(locations) /\ WC!IndexIsPosting)

\* The text of a query becomes its tokens and its tokens the tree that finds
\* what they mean, for chunks that have all of its words and that lack some; a
\* search finds what the words of a page or the texts of the links to it ask for.
QuerySound ==
  /\ About("queryText") => QT!TokenizerHangs(input)
  /\ About("query") => /\ QT!CompiledMeansQuery(input, PagesWithoutZ)
                       /\ QT!CompiledMeansQuery(input, PagesWithZ)
  /\ About("search") =>
       \A q \in SearchQueries : QT!FindsByBodyOrAnchor(input.chunks, input.order, input.lines, q)

\* Which page a link stands for and whether the crawler may ask for it: the
\* canonical form, the host, the path, whether it was seen before and the rules of
\* robots.txt.
LinksJudged ==
  /\ About("url") => FT!CanonicalOnce(input) /\ FT!HostAsked(input)
  /\ About("link") =>
       FT!LinkResolved(<<"h", ":", "/", "/", "b">>, input.page, input.slash, input.pieces, input.absolute)
  /\ About("filter") => UF!SeenOnce(input)
  /\ About("pattern") => RT!MatchIsGlob(input.argument, input.path)
  /\ About("robots") => \A path \in RobotsPaths : RT!RefusedForAReason(RT!Rules(FileOf(input)), path)

\* From the answer of a server to the words and links of a page: what a request
\* returns and gives back, what the parser finds and what characters bytes are.
PageSound ==
  /\ FT!FetchSound
  /\ About("html") => HT!ParsedByRules(input) /\ HT!WholePageKept(input)
  /\ About("codePoint") => UT!WrittenIsRead(input)
  /\ About("bytes") => UT!ReadsOn(input)

\* What is kept comes back: chunk files are a stack of items through crashes and
\* calls that fail and the counters count them, an item comes back from its line,
\* and the containers' memory stands for the value that the calls have built.
KeptComesBack ==
  /\ CF!ChunksAreStack
  /\ About("line") => CF!LineReadBack(input)
  /\ CT!MemoryHoldsValue
=============================================================================
