----------------------------- MODULE MCCrawling -----------------------------
(* Instances of Crawling for TLC, with rules that module RobotsTxt finds. *)
EXTENDS Crawling

RT == INSTANCE RobotsTxt

CONSTANTS t1, t2, a1, a2, b1, far, A, B

\* The first origin forbids a2 and asks for a delay; its a1 links to the second
\* origin, on another host, which links back, and to a URL of another machine.
MCOrigin == [u \in Urls |-> IF u = b1 THEN B ELSE A]
MCHost == MCOrigin
MCPath == [u \in Urls |-> IF u = a2 THEN <<"/", "x", "y">> ELSE <<"/", "y">>]
MCLinks == [u \in Urls |-> IF u = a1 THEN {b1, far} ELSE {a1}]

Line(k, a) == [keyword |-> k, argument |-> a]
Everybody == [any |-> TRUE, mine |-> FALSE]
MCRobots ==
  [o \in Origins |->
     IF o = A THEN << Line("user-agent", Everybody), Line("disallow", <<"/", "x">>),
                      Line("allow", <<"/", "y">>), Line("crawl-delay", 3) >>
     ELSE << Line("user-agent", Everybody), Line("disallow", <<"/", "x">>) >>]

Rules == [o \in Origins |-> RT!Rules(MCRobots[o])]
MCAllowed == [u \in Urls |-> RT!PathAllowed(Rules[MCOrigin[u]], MCPath[u])]
MCDelay == [u \in Urls |-> RT!CrawlDelay(Rules[MCOrigin[u]], MCPath[u])]
=============================================================================
