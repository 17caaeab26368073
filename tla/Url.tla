---- MODULE Url ----
(***************************************************************************)
(* What a link is turned into before it may enter the frontier             *)
(* (src/src/crawler/url_dedup.cpp) and which URLs the distributed crawler  *)
(* refuses (src/src/crawler/UrlFilter.cpp), and how the fetcher takes a    *)
(* URL apart (SslParsedUrl).  A URL is a sequence of characters; the empty *)
(* sequence is the code's "".                                              *)
(***************************************************************************)
EXTENDS Text

CONSTANTS Lower,            \* the capital letters and what tolower makes of them
          Spaces,           \* the characters isspace accepts
          Schemes,          \* "http" and "https"
          AllowedTlds,      \* kAllowedTlds
          BadExts,          \* badExts of hasAllowedFileExtension
          AllowedExts,      \* allowedExtensions of UrlFilter.cpp
          BlockedHosts,     \* blockedHosts, as the blacklist file gives them
          MaxPercentSigns,  \* kMaxPercentSigns
          MinTailLength     \* kMinTailLengthForDensity

ToLower(text) == [i \in DOMAIN text |->
                    IF text[i] \in DOMAIN Lower THEN Lower[text[i]] ELSE text[i]]

(* trim: blanks at both ends, and then the slashes at the end.             *)
Trim(text) ==
    StripEnd(StripEnd(StripStart(text, Spaces), Spaces), {"/"})

(* What follows "://", if it is there; and the two parts of that.          *)
SchemeEnd(url) == Find(url, <<":", "/", "/">>)
AfterScheme(url) == SubSeq(url, SchemeEnd(url) + 3, Len(url))
Authority(rest) == Before(rest, {"/", "?"})
PathAndQuery(rest) == From(rest, {"/", "?"})

StripTrailingSlashFromPath(tail) ==
    LET query == From(tail, {"?"})
        path  == Before(tail, {"?"})
    IN  StripEnd(path, {"/"}) \o query

(* The canonical form, of a scheme and what follows it.                    *)
Canonical(scheme, rest) ==
    IF scheme \notin Schemes \/ Authority(rest) = <<>> THEN <<>>
    ELSE scheme \o <<":", "/", "/">> \o ToLower(Authority(rest))
           \o StripTrailingSlashFromPath(PathAndQuery(rest))

NormalizeUrl(rawUrl) ==
    LET Cleaned(url) ==
          IF SchemeEnd(url) = 0 THEN <<>>
          ELSE Canonical(ToLower(SubSeq(url, 1, SchemeEnd(url) - 1)), Before(AfterScheme(url), {"#"}))
    IN  Cleaned(Trim(rawUrl))

(* The non-empty pieces of a path between its slashes.                     *)
SegmentsOf(path) ==
    LET Add(segments, c) ==
          IF c = "/" THEN Append(segments, <<>>)
          ELSE Append(Front(segments), Append(Last(segments), c))
    IN  SelectSeq(FoldLeft(Add, <<<<>>>>, path), LAMBDA s : s # <<>>)

Joined(segments) ==
    IF segments = <<>> THEN <<"/">>
    ELSE FoldLeft(LAMBDA text, s : text \o <<"/">> \o s, <<>>, segments)

(* removeDotSegments: the code applies it to a path that may still carry a *)
(* query and a fragment.                                                   *)
RemoveDotSegments(path) ==
    LET Walk(kept, s) ==
          IF s = <<".">> THEN kept
          ELSE IF s # <<".", ".">> THEN Append(kept, s)
          ELSE IF kept = <<>> THEN kept ELSE Front(kept)
        normalized == Joined(FoldLeft(Walk, <<>>, SegmentsOf(path)))
    IN  IF path # <<>> /\ Last(path) = "/" /\ Last(normalized) # "/"
        THEN Append(normalized, "/")
        ELSE normalized

HasExplicitUnsupportedScheme(value) ==
    LET colon     == FindFirstOf(value, {":"})
        separator == FindFirstOf(value, {"/", "?", "#"})
    IN  colon # 0 /\ (separator = 0 \/ colon < separator)

(* What a link of a page is resolved against: the parts of the page's URL. *)
Context(url) ==
    LET scheme == SubSeq(url, 1, SchemeEnd(url) - 1)
        path   == Before(PathAndQuery(AfterScheme(url)), {"?"})
    IN  [scheme |-> scheme,
         origin |-> scheme \o <<":", "/", "/">> \o Authority(AfterScheme(url)),
         path   |-> IF path = <<>> THEN <<"/">> ELSE path]

ResolveIn(context, link) ==
    LET directory == SubSeq(context.path, 1, SelectLastInSeq(context.path, LAMBDA c : c = "/"))
    IN  IF IsPrefix(<<"/", "/">>, link) THEN context.scheme \o <<":">> \o link
        ELSE IF Head(link) = "?" THEN context.origin \o context.path \o link
        ELSE IF Head(link) = "/" THEN context.origin \o RemoveDotSegments(link)
        ELSE context.origin \o RemoveDotSegments(directory \o link)

(* absolutizeUrl: a link as it stands in a page, made absolute with the    *)
(* page's base or, without one, the page's own URL.                        *)
AbsolutizeUrl(rawUrl, sourceUrl, baseUrl) ==
    LET BaseOrSource(base) == IF base # <<>> THEN base ELSE NormalizeUrl(sourceUrl)
        Absolute(link, page) ==
          IF link = <<>> \/ Head(link) = "#" THEN <<>>
          ELSE IF \E s \in Schemes : IsPrefix(s \o <<":", "/", "/">>, link) THEN NormalizeUrl(link)
          ELSE IF HasExplicitUnsupportedScheme(link) \/ page = <<>> THEN <<>>
          ELSE NormalizeUrl(ResolveIn(Context(page), link))
    IN  Absolute(Trim(rawUrl), BaseOrSource(NormalizeUrl(baseUrl)))

(* A domain of the list, or one below it.                                  *)
HostHasAllowedTld(host) == \E tld \in AllowedTlds : host = tld \/ IsSuffix(<<".">> \o tld, host)

HostMatchesDomain(host, domain) ==
    \/ host = domain
    \/ IsSuffix(<<".">> \o domain, host) /\ Len(host) > Len(domain) + 1

(* The host between userinfo and the last colon.                           *)
HasAllowedTld(url) ==
    LET hostPort == Authority(AfterScheme(url))
        at       == FindFirstOf(hostPort, {"@"})
        server   == SubSeq(hostPort, at + 1, Len(hostPort))
        colon    == SelectLastInSeq(server, LAMBDA c : c = ":")
        host     == IF colon = 0 THEN server ELSE SubSeq(server, 1, colon - 1)
    IN  /\ SchemeEnd(url) # 0
        /\ server # <<>> /\ Head(server) # "["
        /\ HostHasAllowedTld(StripEnd(host, {"."}))

(* The end of the whole URL: with no path that is the host, and with a     *)
(* query the query.                                                        *)
HasAllowedFileExtension(url) == ~\E ext \in BadExts : IsSuffix(ext, ToLower(url))

(* Few percent signs, or at most one character in ten.                     *)
HasReasonablePercentEncoding(url) ==
    LET tail     == PathAndQuery(AfterScheme(url))
        percents == Cardinality({i \in DOMAIN tail : tail[i] = "%"})
    IN  percents <= MaxPercentSigns \/ (Len(tail) >= MinTailLength /\ 10 * percents <= Len(tail))

(* passesUrlQualityChecks: the canonical URL, or "" when it is refused.    *)
CanonicalOut(rawUrl) ==
    LET Judged(url) ==
          IF /\ url # <<>> /\ HasAllowedTld(url)
             /\ HasAllowedFileExtension(url) /\ HasReasonablePercentEncoding(url)
          THEN url ELSE <<>>
    IN  Judged(NormalizeUrl(rawUrl))

(* SslParsedUrl: host and path of a URL; a port is skipped, never used. *)
SslParsedUrl(text) ==
    LET NoSlash(s) == IF s # <<>> /\ Head(s) = "/" THEN Tail(s) ELSE s
        colon      == From(text, {":"})
        rest       == NoSlash(NoSlash(Tail(colon)))
        host       == Before(rest, {"/", ":"})
        path       == From(rest, {"/"})
    IN  IF colon = <<>>
        THEN [host |-> <<>>, path |-> <<>>]
        ELSE [host |-> host, path |-> NoSlash(path)]

(* UrlFilter::hasCrawlableExtension: a dot in the last piece of the path   *)
(* must belong to a known extension.                                       *)
HasCrawlableExtension(url) ==
    LET path == Before(From(AfterScheme(url), {"/"}), {"?", "#"})
        last == SubSeq(path, SelectLastInSeq(path, LAMBDA c : c = "/") + 1, Len(path))
    IN  \/ SchemeEnd(url) = 0
        \/ FindFirstOf(last, {"."}) = 0
        \/ \E ext \in AllowedExts : IsSuffix(ext, ToLower(path))

ExtractHost(url) ==
    IF SchemeEnd(url) = 0 THEN <<>>
    ELSE ToLower(Before(AfterScheme(url), {"/", ":", "?", "#"}))

(* loadBlacklist: one entry a line, empty lines skipped, a URL's host or   *)
(* the line as it is.                                                      *)
BlockedDomain(entry) == IF ExtractHost(entry) = <<>> THEN entry ELSE ExtractHost(entry)
LoadBlacklist(lines) == {BlockedDomain(line) : line \in lines \ {<<>>}}

IsAllowed(url) ==
    /\ HasCrawlableExtension(url)
    /\ SchemeEnd(url) # 0 => HasReasonablePercentEncoding(url)
    /\ ~\E domain \in LoadBlacklist(BlockedHosts) : HostMatchesDomain(ExtractHost(url), domain)

----
(***************************************************************************)
(* The bloom filter and the robots cache take two URLs for one page when   *)
(* their canonical forms are equal, and peers normalise what they receive  *)
(* once more: normalizeUrl has to give back what it once gave.  It does,   *)
(* except for a form that ends in a slash or a blank, which appears when a *)
(* fragment was cut off a query or off a blank: that one gets shorter.     *)
(* Capitals in scheme and host make no difference, and a URL that passes   *)
(* the quality checks passes them again as it was stored.                  *)
(***************************************************************************)
CanonicalOnce(rawUrl) ==
    LET host  == Len(rawUrl) - Len(PathAndQuery(AfterScheme(rawUrl)))
        lowered == ToLower(SubSeq(rawUrl, 1, host)) \o SubSeq(rawUrl, host + 1, Len(rawUrl))
        Holds(url, again) ==
          /\ url # <<>> =>
               IF Last(url) \in Spaces \union {"/"}
               THEN Len(again) < Len(url)
               ELSE again = url /\ CanonicalOut(url) = CanonicalOut(rawUrl)
          /\ SchemeEnd(rawUrl) # 0 => NormalizeUrl(lowered) = url
    IN  Holds(NormalizeUrl(rawUrl), NormalizeUrl(NormalizeUrl(rawUrl)))

(***************************************************************************)
(* The host that is asked for a page is the host whose domain was judged,  *)
(* and what is asked for is the rest of the URL.  Not so for a query right *)
(* behind the host, the canonical form of "http://host/?query": the        *)
(* fetcher takes the query for a part of the host, which no resolver       *)
(* knows (or, behind a port, leaves it out), so another page is asked for. *)
(***************************************************************************)
HostAsked(rawUrl) ==
    LET Holds(url, rest) ==
          LET query  == rest # <<>> /\ Head(rest) = "?"
              wanted == [host |-> ExtractHost(url),
                         path |-> IF query THEN rest ELSE SubSeq(rest, 2, Len(rest))]
          IN  url # <<>> /\ IsAllowed(url) /\ FindFirstOf(url, {"@"}) = 0 =>
                (SslParsedUrl(url) = wanted <=> ~query)
        Judged(url) == Holds(url, PathAndQuery(AfterScheme(url)))
    IN  Judged(CanonicalOut(rawUrl))

(* The path RFC 3986 asks for: the page's directory, then the link's       *)
(* pieces, with "." and ".." resolved.                                     *)
Resolved(directory, pieces) ==
    FoldLeft(LAMBDA kept, s : IF s = <<".">> THEN kept
                              ELSE IF s = <<".", ".">>
                                   THEN SubSeq(kept, 1, Len(kept) - 1)
                                   ELSE Append(kept, s),
             directory, pieces)

(***************************************************************************)
(* A link made of path pieces leads where RFC 3986 says, for a page that   *)
(* names a file.  The normalised URL of a page that names a directory has  *)
(* lost its slash, so links of "dir/" are resolved beside it, as links of  *)
(* "dir" would be; and a link that is only "/" is trimmed to nothing and   *)
(* dropped, so the site's own front page is not reached by it.             *)
(***************************************************************************)
LinkResolved(origin, page, slash, pieces, absolute) ==
    LET source == origin \o Joined(page) \o (IF slash /\ page # <<>> THEN <<"/">> ELSE <<>>)
        Link(path) == SubSeq(path, IF absolute THEN 1 ELSE 2, Len(path))
        directory == IF absolute \/ page = <<>> THEN <<>> ELSE Front(page)
        target == Resolved(directory, pieces)
    IN  AbsolutizeUrl(Link(Joined(pieces)), source, <<>>) =
          IF pieces = <<>> THEN <<>>
          ELSE IF target = <<>> THEN origin
          ELSE origin \o Joined(target)
====
