---- MODULE Html ----
(***************************************************************************)
(* The HTML parser of the crawler (src/src/parser/HtmlParser.h): words,    *)
(* title words, links with their anchor text and the base of a page.  A    *)
(* page is a sequence of lexemes: the characters < > / = " ' and blank,    *)
(* the comment marks "!--" and "-->", and names, which stand for any run   *)
(* of other characters whatever its case.  A word or an attribute's value  *)
(* is a sequence of lexemes.                                               *)
(***************************************************************************)
EXTENDS Text, TLC

CONSTANTS Discarded,        \* names of the tags that are only dropped
          FirstCapacity,    \* vector's first capacity, 8 in the code
          EnoughWords,      \* 20 in isBroken
          StopWords,        \* englishStopWords
          WordsToJudge,     \* 50 in isEnglish
          Latin, OtherAlpha \* the names made of such letters

Quotes == {"\"", "'"}

TagsRecognized ==
    ("!--" :> "Comment") @@ ("a" :> "Anchor") @@ ("base" :> "Base") @@ ("embed" :> "Embed")
    @@ [t \in {"script", "style", "svg"} |-> "DiscardSection"] @@ ("title" :> "Title")
    @@ [t \in Discarded \union {"body", "html"} |-> "Discard"]

LookupPossibleTag(name) ==
    IF Len(name) = 1 /\ name[1] \in DOMAIN TagsRecognized
    THEN TagsRecognized[name[1]] ELSE "OrdinaryText"

(* vector::push_back grows the block threefold; links[i] moves then.       *)
RECURSIVE Capacity(_)
Capacity(n) == IF n = 0 THEN 0 ELSE IF n <= FirstCapacity THEN FirstCapacity
               ELSE 3 * Capacity((n + 2) \div 3)

(* currentLink: the link's place, and the block of memory it points into.  *)
NoLink == [index |-> 0, block |-> 0]
LinkTo(links) == [index |-> Len(links), block |-> Capacity(Len(links))]

Start == [words |-> <<>>, titleWords |-> <<>>, links |-> <<>>, base |-> <<>>,
          openSections |-> <<>>, inTitle |-> FALSE, inAnchor |-> FALSE, currentLink |-> NoLink,
          sawBodyTag |-> FALSE, sawCloseHtml |-> FALSE, truncated |-> FALSE,
          htmlLang |-> <<>>, stale |-> FALSE]

(* The first position from p on that holds no blank; past the end if there *)
(* is none.                                                                *)
SkipBlanks(text, p) ==
    LET i == SelectInSeq(SubSeq(text, p, Len(text)), LAMBDA c : c # " ")
    IN  IF i = 0 THEN Len(text) + 1 ELSE p + i - 1

(* Behind "</name>" at p, or 0.  The name must not end the buffer.         *)
MatchClosingTag(text, p, name) ==
    IF p + 3 > Len(text) \/ SubSeq(text, p, p + 2) # <<"<", "/", name>> THEN 0
    ELSE LET after == SkipBlanks(text, p + 3)
         IN  IF after <= Len(text) /\ text[after] = ">" THEN after + 1 ELSE 0

(* A word goes to the title or the text, and to the link of the anchor it  *)
(* stands in.  Through a pointer into a block that vector has given back   *)
(* the write is lost, at best.                                             *)
AddWord(s, word, inTitle, inAnchor, link) ==
    IF word = <<>> THEN s
    ELSE LET target == IF inAnchor /\ link.index # 0 THEN link.index ELSE 0
             live   == link.block = Capacity(Len(s.links))
             kept   == IF inTitle THEN [s EXCEPT !.titleWords = Append(@, word)]
                       ELSE [s EXCEPT !.words = Append(@, word)]
         IN  IF target = 0 THEN kept
             ELSE IF live THEN [kept EXCEPT !.links[target].anchorText = Append(@, word)]
             ELSE [kept EXCEPT !.stale = TRUE]

(* The ">" that ends a tag, outside quotes; 0 if there is none.  A quote   *)
(* right behind a closing quote does not open a new one.                   *)
FindClose(text, start) ==
    LET Step(f, i) ==
          LET c == text[i] IN
          IF f.close # 0 \/ i < start THEN f
          ELSE IF f.quote # "none"
               THEN IF c = f.quote THEN [f EXCEPT !.quote = "none", !.exited = TRUE] ELSE f
          ELSE IF c \in Quotes THEN IF f.exited THEN f ELSE [f EXCEPT !.quote = c]
          ELSE IF c = ">" THEN [f EXCEPT !.close = i]
          ELSE IF c \in {" ", "="} THEN [f EXCEPT !.exited = FALSE] ELSE f
    IN  FoldLeftDomain(LAMBDA f, i : Step(f, i),
                       [quote |-> "none", exited |-> FALSE, close |-> 0], text).close

(* Behind the end of a comment that begins at p.                           *)
HandleComment(text, p) ==
    LET end == SelectInSubSeq(text, p + 2, Len(text), LAMBDA c : c = "-->")
    IN  IF end = 0 THEN Len(text) + 1 ELSE end + 1

(* The value of the first name="value", name='value' or name=value; the    *)
(* name is looked for everywhere, at the end of another name too.          *)
ExtractAttribute(attrs, name) ==
    LET n == Len(attrs)
        Behind(eq) == IF eq <= n /\ attrs[eq] = "=" THEN SkipBlanks(attrs, eq + 1) ELSE 0
        (* Where the value begins that is assigned to the name at i, or 0. *)
        Value(i) == IF i < n /\ attrs[i] = name THEN Behind(SkipBlanks(attrs, i + 1)) ELSE 0
        EndQuote(v) == SelectInSubSeq(attrs, v + 1, n, LAMBDA c : c = attrs[v])
        (* The scan ends at such a place, with a value or without.         *)
        Ends(v) == v # 0 /\ (v <= n /\ attrs[v] \in Quotes => EndQuote(v) # 0)
        ValueAt(v) ==
          IF v > n THEN <<>>
          ELSE IF attrs[v] \in Quotes THEN SubSeq(attrs, v + 1, EndQuote(v) - 1)
          ELSE Before(SubSeq(attrs, v, n), {" ", ">", "<"})
        found == {i \in 1..n : Ends(Value(i))}
    IN  IF found = {} THEN <<>> ELSE ValueAt(Value(Min(found)))

HandleDiscardSection(s, name, isClosing, isSelfClosing) ==
    IF isSelfClosing THEN s
    ELSE IF ~isClosing THEN [s EXCEPT !.openSections = Append(@, name)]
    ELSE IF s.openSections = <<>> THEN s ELSE [s EXCEPT !.openSections = Front(@)]

NewLink(s, url) == Append(s.links, [URL |-> url, anchorText |-> <<>>])

(* Mutant: an anchor without an address ends the one before it.            *)
HandleAnchorEndsPrevious(s, attrs, isClosing, isSelfClosing) ==
    LET href == ExtractAttribute(attrs, "href")
    IN  IF isClosing \/ href = <<>> THEN [s EXCEPT !.inAnchor = FALSE, !.currentLink = NoLink]
        ELSE [s EXCEPT !.links = NewLink(s, href),
                       !.inAnchor = ~isSelfClosing,
                       !.currentLink = IF isSelfClosing THEN NoLink ELSE LinkTo(NewLink(s, href))]

HandleAnchor(s, attrs, isClosing, isSelfClosing) ==
    LET href == ExtractAttribute(attrs, "href")
    IN  IF isClosing THEN [s EXCEPT !.inAnchor = FALSE, !.currentLink = NoLink]
        ELSE IF href = <<>> THEN s
        ELSE [s EXCEPT !.links = NewLink(s, href),
                       !.inAnchor = ~isSelfClosing,
                       !.currentLink = IF isSelfClosing THEN NoLink ELSE LinkTo(NewLink(s, href))]

HandleBase(s, attrs) == IF s.base # <<>> THEN s ELSE [s EXCEPT !.base = ExtractAttribute(attrs, "href")]

HandleEmbed(s, attrs) ==
    LET src == ExtractAttribute(attrs, "src")
    IN  IF src = <<>> THEN s ELSE [s EXCEPT !.links = NewLink(s, src)]

HandleDiscard(s, name, attrs, isClosing) ==
    CASE name = "body" /\ ~isClosing -> [s EXCEPT !.sawBodyTag = TRUE]
      [] name = "html" /\ isClosing  -> [s EXCEPT !.sawCloseHtml = TRUE]
      [] name = "html" /\ ~isClosing /\ s.htmlLang = <<>> ->
           [s EXCEPT !.htmlLang = ExtractAttribute(attrs, "lang")]
      [] OTHER -> s

(* The tag that begins with the "<" at p; close is 0 if nothing ends it.   *)
TagAt(text, p) ==
    LET isClosing == p < Len(text) /\ text[p + 1] = "/"
        Cut(start, end, close) ==
          [isClosing |-> isClosing, name |-> SubSeq(text, start, end - 1), close |-> close,
           attrs |-> SubSeq(text, end, close - 1), isSelfClosing |-> close # 0 /\ text[close - 1] = "/"]
        To(start, end) == Cut(start, end, FindClose(text, end))
        Named(start) == To(start, start + Len(Before(SubSeq(text, start, Len(text)), {" ", ">", "/"})))
    IN  Named(IF isClosing THEN p + 2 ELSE p + 1)

(* processTag: the new position, p itself when it is no tag, and what the  *)
(* tag changes.                                                            *)
ProcessTag(s, text, p) ==
    LET section == MatchClosingTag(text, p, Last(s.openSections))
        Changed(tag, action) ==
          CASE action = "DiscardSection" ->
                 HandleDiscardSection(s, tag.name[1], tag.isClosing, tag.isSelfClosing)
            [] action = "Title"   -> [s EXCEPT !.inTitle = ~tag.isClosing /\ (~tag.isSelfClosing \/ @)]
            [] action = "Anchor"  -> HandleAnchor(s, tag.attrs, tag.isClosing, tag.isSelfClosing)
            [] action = "Base"    -> HandleBase(s, tag.attrs)
            [] action = "Embed"   -> HandleEmbed(s, tag.attrs)
            [] action = "Discard" -> HandleDiscard(s, tag.name[1], tag.attrs, tag.isClosing)
        Processed(tag) ==
          IF tag.name # <<>> /\ tag.name[1] = "!--" THEN <<HandleComment(text, p), s>>
          ELSE IF LookupPossibleTag(tag.name) = "OrdinaryText" \/ tag.close = 0 THEN <<p, s>>
          ELSE <<tag.close + 1, Changed(tag, LookupPossibleTag(tag.name))>>
    IN  IF s.openSections = <<>> THEN Processed(TagAt(text, p))
        ELSE IF section = 0 THEN <<p, s>>
        ELSE <<section, [s EXCEPT !.openSections = Front(@)]>>

(* The constructor's loop, at position p with the word begun at word (0 if *)
(* none).  The word before a tag goes where it would have gone before.     *)
RECURSIVE ParseFrom(_, _, _, _)
ParseFrom(s, text, p, word) ==
    LET discard  == s.openSections # <<>>
        Add(t)   == AddWord(t, IF word = 0 THEN <<>> ELSE SubSeq(text, word, p - 1),
                            s.inTitle, s.inAnchor, s.currentLink)
        InWord   == ParseFrom(s, text, p + 1, IF word = 0 /\ ~discard THEN p ELSE word)
        Behind(tag) ==
          IF tag[1] = p THEN InWord
          ELSE ParseFrom(IF discard THEN tag[2] ELSE Add(tag[2]), text, tag[1], 0)
    IN  IF p > Len(text) THEN IF discard THEN s ELSE Add(s)
        ELSE IF text[p] = "<" THEN Behind(ProcessTag(s, text, p))
        ELSE IF text[p] = " " THEN ParseFrom(IF discard THEN s ELSE Add(s), text, p + 1, 0)
        ELSE InWord

(* Cut off: a "<" with no ">" behind it.                                   *)
Truncated(text) ==
    SelectLastInSeq(text, LAMBDA c : c = "<")
      > SelectLastInSeq(text, LAMBDA c : c \in {">", "-->"})

HtmlParser(text) == [ParseFrom(Start, text, 1, 0) EXCEPT !.truncated = Truncated(text)]

IsBroken(page) ==
    LET signals == <<page.openSections # <<>>, Len(page.words) < EnoughWords,
                     ~page.sawBodyTag, ~page.sawCloseHtml, page.truncated>>
    IN  Cardinality({i \in DOMAIN signals : signals[i]}) >= 2

(* How many letters of a kind the words and the title have.                *)
CountAlpha(page, letters) ==
    Len(SelectSeq(FlattenSeq(page.words \o page.titleWords), LAMBDA c : c \in letters))

IsEnglish(page) ==
    LET hits  == Len(SelectSeq(page.words, LAMBDA w : w \in StopWords))
        latin == CountAlpha(page, Latin)
        total == CountAlpha(page, Latin \union OtherAlpha)
    IN  IF page.htmlLang # <<>>
        THEN page.htmlLang[1] = "en" /\ (Len(page.htmlLang) = 1 \/ page.htmlLang[2] = "-")
        ELSE IF Len(page.words) >= WordsToJudge
        THEN 100 * hits >= 3 * Len(page.words)
        ELSE total < WordsToJudge \/ 10 * latin >= 6 * total

----
(***************************************************************************)
(* The rules of the header comment (HtmlParser.h:28-75), read item by item:*)
(* a page is a sequence of items, and an item is text, a blank, a tag or   *)
(* one end of a comment.                                                   *)
(***************************************************************************)
Spelling ==
    [text |-> <<"x">>, less |-> <<"<">>, blank |-> <<" ">>, unknown |-> <<"<", "x", ">">>,
     paragraph |-> <<"<", "/", "p", " ", ">">>,
     comment |-> <<"<", "!--">>, endComment |-> <<"-->">>,
     script |-> <<"<", "script", " ", "src", "=", "u", ">">>, endScript |-> <<"<", "/", "script", " ", ">">>,
     closedScript |-> <<"<", "script", "/", ">">>,
     title |-> <<"<", "title", ">">>, endTitle |-> <<"<", "/", "title", ">">>,
     anchor |-> <<"<", "a", " ", "x", "=", "'", ">", "'", " ", "href", " ", "=", " ", "\"", "u", "\"", ">">>,
     bareAnchor |-> <<"<", "a", " ", "x", "=", "u", ">">>, endAnchor |-> <<"<", "/", "a", ">">>,
     embed |-> <<"<", "embed", " ", "src", "=", "u", ">">>,
     base |-> <<"<", "base", " ", "href", "=", "'", "u", "'", "/", ">">>]

Spelled(items) == FoldLeft(LAMBDA text, i : text \o Spelling[i], <<>>, items)

(* A finished word: in the title or the text, and with the open link, if   *)
(* that link is still where it was when it was opened.                     *)
Flush(f, word, title, link) ==
    LET grown == link.index # 0 /\ link.block # Capacity(Len(f.links))
        shown == IF title THEN [f EXCEPT !.titleWords = Append(@, word)]
                 ELSE [f EXCEPT !.words = Append(@, word)]
    IN  IF word = <<>> THEN f
        ELSE IF link.index = 0 THEN shown
        ELSE IF grown THEN [shown EXCEPT !.stale = TRUE]
        ELSE [shown EXCEPT !.links[link.index].anchorText = Append(@, word)]

ByRule(f, item) ==
    LET link   == [URL |-> <<"u">>, anchorText |-> <<>>]
        Opened == [f EXCEPT !.links = Append(@, link)]
        Now    == CASE item \in {"comment", "script"} -> [f EXCEPT !.mode = item]
                    [] item = "title"     -> [f EXCEPT !.title = TRUE]
                    [] item = "endTitle"  -> [f EXCEPT !.title = FALSE]
                    [] item = "anchor"    -> [Opened EXCEPT !.link = LinkTo(Opened.links)]
                    [] item = "endAnchor" -> [f EXCEPT !.link = NoLink]
                    [] item = "embed"     -> Opened
                    [] item = "base"      -> [f EXCEPT !.base = <<"u">>]
                    [] OTHER              -> f
    IN  CASE f.mode = "comment" -> IF item = "endComment" THEN [f EXCEPT !.mode = "page"] ELSE f
          [] f.mode = "script"  -> IF item = "endScript" THEN [f EXCEPT !.mode = "page"] ELSE f
          [] f.mode = "page" /\ item \in {"text", "less", "unknown", "endComment"} ->
               [f EXCEPT !.word = @ \o Spelling[item]]
          [] OTHER -> Flush([Now EXCEPT !.word = <<>>], f.word, f.title, f.link)

Expected(items) ==
    LET empty == [words |-> <<>>, titleWords |-> <<>>, links |-> <<>>, base |-> <<>>, stale |-> FALSE,
                  mode |-> "page", title |-> FALSE, link |-> NoLink, word |-> <<>>]
        Finished(f) == Flush(f, f.word, f.title, f.link)
    IN  Finished(FoldLeft(LAMBDA g, i : ByRule(g, i), empty, items))

(***************************************************************************)
(* The parser finds the words, title words, links with their anchor texts, *)
(* base and unclosed script that the rules ask for, whatever the order of  *)
(* tags, blanks and text.  The exception is a word of an anchor that is    *)
(* written after vector links has grown (a pending word before the next    *)
(* anchor, or an <embed> inside the anchor): it goes through a stale       *)
(* currentLink, and nothing is claimed of what follows.                    *)
(***************************************************************************)
ParsedByRules(items) ==
    LET Agree(page, f) ==
          /\ page.stale = f.stale
          /\ ~page.stale =>
               /\ page.words = f.words /\ page.titleWords = f.titleWords
               /\ page.links = f.links /\ page.base = f.base
               /\ page.openSections = IF f.mode = "script" THEN <<"script">> ELSE <<>>
    IN  Agree(HtmlParser(Spelled(items)), Expected(items))

(***************************************************************************)
(* A page with <html lang="en-...">, <body> and </html> that has words     *)
(* enough and leaves no script or comment open is kept for the index,      *)
(* whatever else it contains.                                              *)
(***************************************************************************)
WholePageKept(items) ==
    LET before == <<"<", "html", " ", "lang", "=", "en", "-", "x", ">", "<", "body", ">">>
        after  == <<" ", "<", "/", "html", ">">>
        Kept(whole, f) ==
          f.mode = "page" /\ ~f.stale /\ Len(f.words) >= EnoughWords => ~IsBroken(whole) /\ IsEnglish(whole)
    IN  Kept(HtmlParser(before \o Spelled(items) \o after), Expected(items))
====
