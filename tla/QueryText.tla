----------------------------- MODULE QueryText -----------------------------
(***************************************************************************)
(* From the text of a query to the tree of cursors that answers it:        *)
(* QueryTokenizer and QueryCompiler (src/src/index/src/lib).               *)
(*                                                                         *)
(* A query is a sequence of characters; the letters of "or", "and" and     *)
(* "not" are one character each.  The compiler's tokens are records        *)
(* [type, text], a tree is a record [op, ...] or Null, the chunk is the    *)
(* set of its terms.                                                       *)
(***************************************************************************)
EXTENDS IndexFile

-----------------------------------------------------------------------------
(* QueryTokenizer::tokenize *)

Marks == {"(", ")", "\"", "|", "&"}
Token(type) == [type |-> type, text |-> <<>>]

\* The character at place i (1-based), or nothing behind the end.
At(q, i) == IF i <= Len(q) THEN q[i] ELSE "end"

\* Where the word that begins at place i ends: before a space, a mark, or a
\* hyphen that nothing or a space follows.
WordEnd(q, i) ==
  Min({j \in i .. Len(q) + 1 :
         \/ At(q, j) \in Marks \cup {" ", "end"}
         \/ At(q, j) = "-" /\ At(q, j + 1) \in {" ", "end"}})

\* The token of a word: an operator, the first of its terms, or none.
WordToken(word) ==
  LET terms == ProcessToken(word)
  IN IF word \in {<<"or">>, <<"and">>, <<"not">>} THEN <<Token(Head(word))>>
     ELSE IF terms = <<>> THEN <<>> ELSE <<[type |-> "word", text |-> Head(terms)]>>

\* One round of the loop at place i: the tokens it adds and where it goes on.
Lex(q, i) ==
  LET c == q[i]
      double == IF At(q, i + 1) = c THEN 2 ELSE 1
      operator == i = 1 \/ At(q, i - 1) \in {" ", "(", "\""}
      end == WordEnd(q, i)
  IN CASE c = " " -> [tokens |-> <<>>, next |-> i + 1]
       [] c \in {"(", ")", "\""} -> [tokens |-> <<Token(c)>>, next |-> i + 1]
       [] c = "|" -> [tokens |-> <<Token("or")>>, next |-> i + double]
       [] c = "&" -> [tokens |-> <<Token("and")>>, next |-> i + double]
       [] c = "-" /\ operator -> [tokens |-> <<Token("not")>>, next |-> i + 1]
       [] OTHER -> [tokens |-> WordToken(SubSeq(q, i, end - 1)), next |-> end]

\* All rounds; a round that does not get on is repeated for ever.
Hangs == <<Token("hangs")>>
RECURSIVE TokenizeFrom(_, _)
TokenizeFrom(q, i) ==
  IF i > Len(q) THEN <<>>
  ELSE LET round == Lex(q, i)
           rest == TokenizeFrom(q, round.next)
       IN IF round.next = i THEN Hangs
          ELSE IF rest = Hangs THEN Hangs ELSE round.tokens \o rest
Tokenize(q) == TokenizeFrom(q, 1)

-----------------------------------------------------------------------------
(* QueryCompiler *)

Null == [op |-> "null"]
Word(term) == [op |-> "word", term |-> term]

\* The only child, or a tree over all of them.
Combine(op, children) ==
  IF children = <<>> THEN Null ELSE IF Len(children) = 1 THEN children[1]
  ELSE [op |-> op, children |-> children]

\* createISR: a word of the body or of the title, or of anchor texts.
TermISR(terms, text, anchor) ==
  LET forms == <<[title |-> FALSE, text |-> text]>>
                 \o (IF anchor THEN <<>> ELSE <<[title |-> TRUE, text |-> text]>>)
      there == SelectSeq(forms, LAMBDA t : t \in terms)
  IN Combine("or", [i \in DOMAIN there |-> Word(there[i])])

\* The parser's functions return a tree and where they stopped.
Parsed(node, next) == [node |-> node, next |-> next]
Type(tokens, i) == IF i <= Len(tokens) THEN tokens[i].type ELSE "end"
Consume(tokens, i) == IF i <= Len(tokens) THEN i + 1 ELSE i

\* A phrase from behind its first quote on: what is not a word is passed over.
ParsePhrase(c, tokens, i) ==
  LET close == Min({j \in i .. Len(tokens) + 1 : Type(tokens, j) \in {"\"", "end"}})
      words == SelectSeq(SubSeq(tokens, i, close - 1), LAMBDA t : t.type = "word")
      nodes == [k \in DOMAIN words |-> TermISR(c.terms, words[k].text, c.anchor)]
  IN Parsed(IF Null \in ToSet(nodes) THEN Null ELSE Combine("phrase", nodes), Consume(tokens, close))

RECURSIVE ParseOr(_, _, _), ParseAnd(_, _, _, _, _), ParsePrimary(_, _, _), MoreOr(_, _, _, _)

\* The loop of parseAnd with the children so far.  A required child that is
\* missing ends it where it stands.
ParseAnd(c, tokens, i, positives, negatives) ==
  LET afterAnd == IF Type(tokens, i) = "and" THEN i + 1 ELSE i
      isNot == Type(tokens, afterAnd) = "not"
      start == IF isNot THEN afterAnd + 1 ELSE afterAnd
      child == ParsePrimary(c, tokens, start)
      all == Combine("and", positives)
  IN IF Type(tokens, i) \in {"end", "or", ")"} \/ start > Len(tokens)
     THEN Parsed(IF all = Null \/ negatives = <<>> THEN all
                 ELSE [op |-> "container", node |-> all, negatives |-> negatives],
                 IF Type(tokens, i) \in {"end", "or", ")"} THEN i ELSE start)
     ELSE IF child.node = Null /\ ~isNot THEN Parsed(Null, child.next)
     ELSE IF child.node = Null THEN ParseAnd(c, tokens, child.next, positives, negatives)
     ELSE IF isNot THEN ParseAnd(c, tokens, child.next, positives, Append(negatives, child.node))
     ELSE ParseAnd(c, tokens, child.next, Append(positives, child.node), negatives)

\* The loop of parseOr with the children so far.
MoreOr(c, tokens, i, children) ==
  IF Type(tokens, i) # "or" THEN Parsed(Combine("or", children), i)
  ELSE LET right == ParseAnd(c, tokens, i + 1, <<>>, <<>>)
       IN MoreOr(c, tokens, right.next, IF right.node = Null THEN children ELSE Append(children, right.node))

ParseOr(c, tokens, i) ==
  LET left == ParseAnd(c, tokens, i, <<>>, <<>>)
  IN MoreOr(c, tokens, left.next, IF left.node = Null THEN <<>> ELSE <<left.node>>)

ParsePrimary(c, tokens, i) ==
  CASE Type(tokens, i) = "end" -> Parsed(Null, i)
    [] Type(tokens, i) = "word" -> Parsed(TermISR(c.terms, tokens[i].text, c.anchor), i + 1)
    [] Type(tokens, i) = "(" ->
         LET inner == ParseOr(c, tokens, i + 1)
         IN Parsed(inner.node, IF Type(tokens, inner.next) = ")" THEN inner.next + 1 ELSE inner.next)
    [] Type(tokens, i) = "\"" -> ParsePhrase(c, tokens, i + 1)
    [] OTHER -> Parsed(Null, i + 1)

\* compile and compileAnchor: what is left behind the tree is ignored.
Compile(terms, anchor, tokens) ==
  IF tokens = <<>> THEN Null ELSE ParseOr([terms |-> terms, anchor |-> anchor], tokens, 1).node

-----------------------------------------------------------------------------
(* Properties *)

\* A page is the sequence of its words' terms, the title's first.  What cursors
\* over one chunk find, page by page, is what module QueryCursor shows of them.
Stands(node, page, k) ==
  IF node.op = "word" THEN k \in DOMAIN page /\ page[k] = node.term
  ELSE k \in DOMAIN page /\ \E n \in DOMAIN node.children : page[k] = node.children[n].term

RECURSIVE Finds(_, _)
Finds(node, page) ==
  CASE node.op = "null" -> FALSE
    [] node.op = "word" -> node.term \in ToSet(page)
    [] node.op = "or" -> \E i \in DOMAIN node.children : Finds(node.children[i], page)
    [] node.op = "and" -> \A i \in DOMAIN node.children : Finds(node.children[i], page)
    [] node.op = "phrase" ->
         \E k \in DOMAIN page : \A i \in DOMAIN node.children : Stands(node.children[i], page, k + i - 1)
    [] node.op = "container" ->
         Finds(node.node, page) /\ \A i \in DOMAIN node.negatives : ~Finds(node.negatives[i], page)

\* What a user means: an alternative of alternatives [kind, ...]: "word", "not",
\* "phrase", "group".  A query is a sequence of sequences of these.
RECURSIVE Means(_, _), MeansOne(_, _)
Texts(page) == [k \in DOMAIN page |-> page[k].text]
MeansOne(x, page) ==
  CASE x.kind = "word" -> x.text \in ToSet(Texts(page))
    [] x.kind = "not" -> x.text \notin ToSet(Texts(page))
    [] x.kind = "phrase" ->
         \E k \in 1 .. Len(page) - Len(x.texts) + 1 : SubSeq(Texts(page), k, k + Len(x.texts) - 1) = x.texts
    [] x.kind = "group" -> Means(x.query, page)
Means(query, page) == \E i \in DOMAIN query : \A k \in DOMAIN query[i] : MeansOne(query[i][k], page)

\* The tokens of such a query.
RECURSIVE Spell(_), SpellOne(_)
WordTokens(texts) == [k \in DOMAIN texts |-> [type |-> "word", text |-> texts[k]]]
SpellOne(x) ==
  CASE x.kind = "word" -> WordTokens(<<x.text>>)
    [] x.kind = "not" -> <<Token("not")>> \o WordTokens(<<x.text>>)
    [] x.kind = "phrase" -> <<Token("\"")>> \o WordTokens(x.texts) \o <<Token("\"")>>
    [] x.kind = "group" -> <<Token("(")>> \o Spell(x.query) \o <<Token(")")>>
Spell(query) ==
  FlattenSeq([i \in DOMAIN query |->
    (IF i = 1 THEN <<>> ELSE <<Token("or")>>)
      \o FlattenSeq([k \in DOMAIN query[i] |-> SpellOne(query[i][k])])])

\* Which terms a query needs.
RECURSIVE TextsIn(_)
TextsIn(query) ==
  UNION {UNION {CASE x.kind \in {"word", "not"} -> {x.text}
                  [] x.kind = "phrase" -> ToSet(x.texts)
                  [] x.kind = "group" -> TextsIn(x.query) : x \in ToSet(query[i])} : i \in DOMAIN query}

\* Every alternative asks for something; one that only excludes finds nothing.
RECURSIVE Asks(_)
Asks(query) ==
  \A i \in DOMAIN query :
    /\ \E x \in ToSet(query[i]) : x.kind # "not"
    /\ \A x \in ToSet(query[i]) : x.kind = "group" => Asks(x.query)

\* The compiled tree finds the pages that the query means if the chunk has all
\* of its words.  If it lacks some, a query without a group finds no page that
\* it does not mean, and all of them unless a required word that is missing
\* stands before another one of its alternative: parseAnd() then leaves the rest
\* of the query unread, later alternatives too.
CompiledMeansQuery(query, pages) ==
  LET terms == UNION {ToSet(pages[i]) : i \in DOMAIN pages}
      node == Compile(terms, FALSE, Spell(query))
      texts == {t.text : t \in terms}
      missing(x) == x.kind \in {"word", "phrase"} /\ Compile(terms, FALSE, SpellOne(x)) = Null
      found == {i \in DOMAIN pages : Finds(node, pages[i])}
      meant == {i \in DOMAIN pages : Means(query, pages[i])}
      flat == \A i \in DOMAIN query : \A x \in ToSet(query[i]) : x.kind # "group"
      read == \A i \in DOMAIN query : \A k \in 1 .. Len(query[i]) - 1 : ~missing(query[i][k])
  IN Asks(query) => /\ TextsIn(query) \subseteq texts => found = meant
                    /\ flat => found \subseteq meant
                    /\ flat /\ read => found = meant

\* Every query is read to its end but one in which a hyphen ends a word: the
\* tokenizer then stands before that hyphen for ever.
TokenizerHangs(q) ==
  Tokenize(q) = Hangs <=>
    \E i \in 2 .. Len(q) : /\ q[i] = "-" /\ At(q, i + 1) \in {" ", "end"}
                           /\ q[i - 1] \notin {" ", "(", "\""}
=============================================================================
