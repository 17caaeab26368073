------------------------------ MODULE RobotsTxt ------------------------------
(***************************************************************************)
(* What a robots.txt file allows (src/src/crawler/RobotsTxt.cpp).          *)
(*                                                                         *)
(* A text is a sequence of characters, a file a sequence of lines, a line  *)
(* a record [keyword, argument]: which keyword a line begins with, in any  *)
(* case, and where its argument ends is wording and left out.  A line that *)
(* is none of the five statements has the keyword "invalid".  The argument *)
(* of a User-agent line is [any, mine]: it is "*", or a name that occurs   *)
(* in the crawler's; that of a Crawl-delay line is a number.               *)
(***************************************************************************)
EXTENDS Integers, Sequences, SequencesExt, FiniteSets, TLC

\* s without its first n elements.
Drop(s, n) == SubSeq(s, n + 1, Len(s))

-----------------------------------------------------------------------------
(* Texts *)

\* A %xx encoding is one character of a text, "78" for "%78"; these are the
\* encodings of a letter, of the wildcard characters and of the slash.
Octet == ("78" :> "x") @@ ("2a" :> "*") @@ ("24" :> "$") @@ ("2f" :> "/")

\* UrlDecode.  %2f stays as it is, and so does a lone "%", unless fewer than two
\* bytes follow it: then it is dropped together with the byte after it.
UrlDecode(text) ==
  LET n == Len(text)
      kept == IF n > 1 /\ text[n - 1] = "%" /\ text[n] \notin DOMAIN Octet THEN n - 2
              ELSE IF n > 0 /\ text[n] = "%" THEN n - 1 ELSE n
  IN [i \in 1 .. kept |-> IF text[i] \in DOMAIN Octet \ {"2f"} THEN Octet[text[i]] ELSE text[i]]

\* The path of a URL without its first slash.
WithoutSlash(text) == IF text # <<>> /\ Head(text) = "/" THEN Tail(text) ELSE text

Bytes(c) == IF c = "2f" THEN 3 ELSE 1

\* Wildcard::Wildcard.
Wildcard(argument) ==
  LET decoded == UrlDecode(WithoutSlash(argument))
      dollar == decoded # <<>> /\ Last(decoded) = "$"
      text == IF dollar THEN Front(decoded) ELSE decoded
  IN [text |-> text, endsInDollarSign |-> dollar,
      literalBytes |-> FoldSeq(LAMBDA c, n : n + (IF c = "*" THEN 0 ELSE Bytes(c)), 0, text)]

-----------------------------------------------------------------------------
(* Wildcard::Match *)

None == <<"none">>

RECURSIVE WithoutStars(_)
WithoutStars(w) == IF w # <<>> /\ Head(w) = "*" THEN WithoutStars(Tail(w)) ELSE w

\* The loop of Match: what is left of wildcard and path, and where both stood
\* after the last star.
RECURSIVE MatchLoop(_, _, _, _, _)
MatchLoop(w, path, wBack, pBack, dollar) ==
  CASE path = <<>> -> WithoutStars(w) = <<>>
    [] path # <<>> /\ w # <<>> /\ Head(w) = "*" ->
         LET rest == WithoutStars(w) IN MatchLoop(rest, path, rest, path, dollar)
    [] path # <<>> /\ w # <<>> /\ Head(w) = Head(path) ->
         (Len(w) = 1 /\ ~dollar) \/ MatchLoop(Tail(w), Tail(path), wBack, pBack, dollar)
    [] path # <<>> /\ (w = <<>> \/ Head(w) \notin {"*", Head(path)}) ->
         wBack # None /\ pBack # <<>> /\ MatchLoop(wBack, Tail(pBack), wBack, Tail(pBack), dollar)

\* Mutant: no way back to a star.
MatchWithoutBacktracking(wildcard, path) ==
  wildcard.text # <<>> /\ MatchLoop(wildcard.text, path, None, <<>>, wildcard.endsInDollarSign)
                       /\ "*" \notin ToSet(wildcard.text)

Match(wildcard, path) ==
  wildcard.text # <<>> /\ MatchLoop(wildcard.text, path, None, <<>>, wildcard.endsInDollarSign)

-----------------------------------------------------------------------------
(* Rules *)

\* MoreSpecific and TakesPriority.
MoreSpecific(a, b) ==
  \/ a.literalBytes > b.literalBytes
  \/ a.literalBytes = b.literalBytes /\ a.endsInDollarSign /\ ~b.endsInDollarSign

TakesPriority(a, b) ==
  MoreSpecific(a.wildcard, b.wildcard) \/ (a.type = "allow" /\ b.type = "disallow")

\* One directive on its way up the sorted ones before it: it passes a neighbour
\* only while it takes priority over that one.
InsertSorted(ds, d) ==
  LET stops == {k \in 0 .. Len(ds) : k = 0 \/ ~TakesPriority(d, ds[k])}
      k == CHOOSE k \in stops : \A j \in stops : j <= k
  IN InsertAt(ds, k + 1, d)

\* GetStatement: the lines that matter for rules, and the sitemaps.
Statements(file) ==
  SelectSeq(file, LAMBDA line : line.keyword \in {"user-agent", "allow", "disallow", "crawl-delay"})
Sitemap(file) == LET ls == SelectSeq(file, LAMBDA line : line.keyword = "sitemap")
                 IN [i \in DOMAIN ls |-> ls[i].argument]

NewRule == [agents |-> <<>>, directives |-> <<>>, crawlDelay |-> 0, closed |-> FALSE]

\* A statement extends the last rule; a User-agent line after a directive begins
\* a new one, and what comes before the first User-agent line is skipped.
AddStatement(rules, line) ==
  LET new == line.keyword = "user-agent" /\ (rules = <<>> \/ Last(rules).closed)
      before == IF new THEN rules ELSE Front(rules)
      rule == IF new THEN NewRule ELSE Last(rules)
  IN IF rules = <<>> /\ ~new THEN rules
     ELSE Append(before,
       CASE line.keyword = "user-agent" -> [rule EXCEPT !.agents = Append(@, line.argument)]
         [] line.keyword = "crawl-delay" ->
              [rule EXCEPT !.closed = TRUE,
                           !.crawlDelay = IF line.argument > @ THEN line.argument ELSE @]
         [] line.keyword \in {"allow", "disallow"} ->
              [rule EXCEPT !.closed = TRUE,
                           !.directives = InsertSorted(@, [type |-> line.keyword,
                                                           wildcard |-> Wildcard(line.argument)])])

\* RobotsTxt::RobotsTxt.
Rules(file) == FoldLeft(AddStatement, <<>>, Statements(file))

\* UserAgent::Match.
AgentMatches(agent) == agent.any \/ agent.mine

\* Rule::Match: the first agent that matches the crawler, and the first
\* directive that matches the path.
NoMatch == [found |-> FALSE]
RuleMatch(rule, path) ==
  LET agents == SelectSeq(rule.agents, AgentMatches)
      ds == SelectSeq(rule.directives, LAMBDA d : Match(d.wildcard, path))
  IN IF agents = <<>> \/ ds = <<>> THEN NoMatch
     ELSE [found |-> TRUE, literal |-> ~Head(agents).any, directive |-> Head(ds), delay |-> rule.crawlDelay]

\* Of two matches the earlier one, unless the later has a literal agent and it
\* has not, or they are alike in that and the later directive takes priority.
Better(best, m) ==
  IF ~best.found \/ (m.found /\ m.literal /\ ~best.literal)
     \/ (m.found /\ m.literal = best.literal /\ TakesPriority(m.directive, best.directive))
  THEN m ELSE best

\* FindDirective: the directive and the largest delay of the rules that match.
FindDirective(rules, path) ==
  LET matches == [i \in DOMAIN rules |-> RuleMatch(rules[i], UrlDecode(path))]
      delays == {0} \cup {matches[i].delay : i \in {j \in DOMAIN rules : matches[j].found}}
  IN [best |-> FoldLeft(Better, NoMatch, matches),
      crawlDelay |-> CHOOSE d \in delays : \A e \in delays : e <= d]

\* PathAllowed.
PathAllowed(rules, path) ==
  LET best == FindDirective(rules, WithoutSlash(path)).best
  IN ~best.found \/ best.directive.type = "allow"
CrawlDelay(rules, path) == FindDirective(rules, WithoutSlash(path)).crawlDelay

-----------------------------------------------------------------------------
(* Properties *)

\* The pattern language: * stands for any text, and the pattern must match a
\* beginning of the path, or all of it if it ends in $.
RECURSIVE Glob(_, _, _)
Glob(w, path, dollar) ==
  CASE w = <<>> -> ~dollar \/ path = <<>>
    [] w # <<>> /\ Head(w) = "*" -> \E k \in 0 .. Len(path) : Glob(Tail(w), Drop(path, k), dollar)
    [] w # <<>> /\ Head(w) # "*" -> path # <<>> /\ Head(w) = Head(path) /\ Glob(Tail(w), Tail(path), dollar)

\* Backtracking to the last star alone finds a match exactly if there is one,
\* for every pattern but the empty one, which never matches ("Disallow: /").
MatchIsGlob(argument, path) ==
  LET w == Wildcard(argument)
  IN Match(w, path) <=> w.text # <<>> /\ Glob(w.text, path, w.endsInDollarSign)

\* The directives that decide about a path: those that match it in the rules
\* for the crawler by name, or in the rules for everybody if none of the former.
\* A rule is one by name if the first of its agents that matches is.
Deciding(rules, path) ==
  LET applies(i, k) == Match(rules[i].directives[k].wildcard, UrlDecode(WithoutSlash(path)))
      matching(i) == {rules[i].directives[k] : k \in {n \in DOMAIN rules[i].directives : applies(i, n)}}
      agents(i) == SelectSeq(rules[i].agents, AgentMatches)
      mine == {i \in DOMAIN rules : agents(i) # <<>> /\ matching(i) # {}}
      byName == {i \in mine : ~Head(agents(i)).any}
  IN UNION {matching(i) : i \in IF byName = {} THEN mine ELSE byName}

\* In whatever order the lines come: a path that only Disallow lines match is
\* refused, and a path is refused only for a Disallow line that no Allow line
\* is more specific than.  (The converse does not hold: an Allow line may win
\* over a more specific Disallow line.)
RefusedForAReason(rules, path) ==
  LET allows == {d \in Deciding(rules, path) : d.type = "allow"}
      disallows == Deciding(rules, path) \ allows
  IN /\ disallows # {} /\ allows = {} => ~PathAllowed(rules, path)
     /\ ~PathAllowed(rules, path) =>
          \E d \in disallows : \A a \in allows : ~MoreSpecific(a.wildcard, d.wildcard)
=============================================================================
