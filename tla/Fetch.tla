---- MODULE Fetch ----
(***************************************************************************)
(* readURL (src/src/utils/SSL/LinuxSSL_Crawler.cpp): one blocking HTTPS    *)
(* request by a crawler thread, with every way it can give up.  A text is  *)
(* a sequence of characters; "HTTP" stands for the eight characters of a   *)
(* version such as HTTP/1.1.  The server, the resolver and OpenSSL are     *)
(* whatever the code copes with: any call can fail, and a read can time    *)
(* out or fail after any part of the answer.                               *)
(***************************************************************************)
EXTENDS Url

CONSTANTS Urls,             \* the URLs a crawler may ask for
          Responses,        \* what the server may have to send
          MaxResponse,      \* maxResponseBytes
          BuffLength        \* buffLength: the most one SSL_read takes

VARIABLES step, url, response, held, blocking, asked, raw, ending, body
fetchVars == <<step, url, response, held, blocking, asked, raw, ending, body>>

(* The first of several texts that occurs at all, as <<where, length>>. *)
FindFirst(text, a, b) ==
    IF Find(text, a) # 0 THEN <<Find(text, a), Len(a)>> ELSE <<Find(text, b), Len(b)>>

Digits == [d \in {"0", "1", "2", "3", "4", "5"} |->
             CASE d = "0" -> 0 [] d = "1" -> 1 [] d = "2" -> 2
               [] d = "3" -> 3 [] d = "4" -> 4 [] d = "5" -> 5]

Width(line) == Len(line) + 7 * Cardinality({i \in DOMAIN line : line[i] = "HTTP"})

(* parseHttpStatusCode: the number on the first line, or -1. *)
StatusCode(text) ==
    LET end    == FindFirst(text, <<"\r", "\n">>, <<"\n">>)[1]
        line   == SubSeq(text, 1, end - 1)
        blank  == Find(line, <<" ">>)
        rest   == SubSeq(line, blank, Len(line))
        number == StripStart(rest, {" "})
        digits == Before(number, ToSet(number) \ DOMAIN Digits)
    IN  IF \/ end <= 1 \/ Width(line) < 12 \/ line[1] # "HTTP" \/ blank = 0
           \/ digits = <<>> \/ Len(digits) > 3
        THEN -1
        ELSE FoldLeft(LAMBDA n, c : (10 * n) + Digits[c], 0, digits)

(* decodeHttpResponseBodyIfSuccessful: what follows the blank line. *)
DecodeBody(text) ==
    LET end == FindFirst(text, <<"\r", "\n", "\r", "\n">>, <<"\n", "\n">>)
    IN  IF end[1] = 0 \/ StatusCode(text) \notin 200..299
        THEN <<>>
        ELSE SubSeq(text, end[1] + end[2], Len(text))

Init == /\ url \in Urls
        /\ response \in Responses
        /\ step = "parse" /\ held = {} /\ blocking = TRUE
        /\ asked = <<>> /\ raw = <<>> /\ ending = "none" /\ body = <<>>

Goto(s) == step' = s
GiveUp(resources) == Goto("done") /\ held' = held \ resources

(* No SSL context, or a URL without a host. *)
ParseUrl ==
    /\ step = "parse"
    /\ \/ Goto("done")
       \/ SslParsedUrl(url).host # <<>> /\ Goto("resolve")
    /\ UNCHANGED <<url, response, held, blocking, asked, raw, ending, body>>

(* getaddrinfo: always for port 443. *)
Resolve ==
    /\ step = "resolve"
    /\ \/ Goto("done") /\ UNCHANGED held
       \/ Goto("socket") /\ held' = held \union {"address"}
    /\ UNCHANGED <<url, response, blocking, asked, raw, ending, body>>

OpenSocket ==
    /\ step = "socket"
    /\ \/ GiveUp({"address"})
       \/ Goto("connect") /\ held' = held \union {"socket"}
    /\ UNCHANGED <<url, response, blocking, asked, raw, ending, body>>

(* connectWithTimeout.  A failure before the socket is made non-blocking,  *)
(* one after it, which leaves it so, and success, which restores the flags.*)
ConnectWithTimeout ==
    \/ blocking' = blocking /\ Goto("unconnected")
    \/ blocking' = FALSE /\ Goto("unconnected")
    \/ blocking' = TRUE /\ Goto("ssl")

(* The address is freed whether the connection succeeded or not. *)
Connect ==
    /\ step = "connect"
    /\ ConnectWithTimeout
    /\ held' = held \ {"address"}
    /\ UNCHANGED <<url, response, asked, raw, ending, body>>

CloseUnconnected ==
    /\ step = "unconnected"
    /\ GiveUp({"socket"})
    /\ UNCHANGED <<url, response, blocking, asked, raw, ending, body>>

OpenSsl ==
    /\ step = "ssl"
    /\ \/ GiveUp({"socket"})
       \/ Goto("handshake") /\ held' = held \union {"ssl"}
    /\ UNCHANGED <<url, response, blocking, asked, raw, ending, body>>

(* SSL_set_fd and SSL_connect. *)
Handshake ==
    /\ step = "handshake"
    /\ \/ GiveUp({"ssl", "socket"})
       \/ Goto("write") /\ UNCHANGED held
    /\ UNCHANGED <<url, response, blocking, asked, raw, ending, body>>

(* SSL_write of the request. *)
WriteRequest ==
    /\ step = "write"
    /\ \/ GiveUp({"ssl", "socket"}) /\ UNCHANGED asked
       \/ /\ asked' = [SslParsedUrl(url) EXCEPT !.path = <<"/">> \o @]
          /\ Goto("read") /\ UNCHANGED held
    /\ UNCHANGED <<url, response, blocking, raw, ending, body>>

(* SSL_read returns the next bytes; too many of them end the loop. *)
ReadBytes ==
    /\ step = "read"
    /\ \E n \in 1..BuffLength :
          /\ Len(raw) + n <= Len(response)
          /\ raw' = SubSeq(response, 1, Len(raw) + n)
    /\ IF Len(raw') > MaxResponse
       THEN ending' = "large" /\ Goto("close")
       ELSE UNCHANGED <<ending, step>>
    /\ UNCHANGED <<url, response, held, blocking, asked, body>>

(* SSL_read returns 0 or less: the end of the answer, or a time-out or an  *)
(* error in the middle of it, which the code does not tell apart.          *)
ReadEnds ==
    /\ step = "read"
    /\ ending' = IF raw = response THEN "whole" ELSE "cut"
    /\ Goto("close")
    /\ UNCHANGED <<url, response, held, blocking, asked, raw, body>>

CloseConnection ==
    /\ step = "close"
    /\ GiveUp({"ssl", "socket"})
    /\ body' = IF ending = "large" THEN <<>> ELSE DecodeBody(raw)
    /\ UNCHANGED <<url, response, blocking, asked, raw, ending>>

Next == \/ ParseUrl \/ Resolve \/ OpenSocket \/ Connect \/ CloseUnconnected
        \/ OpenSsl \/ Handshake \/ WriteRequest \/ ReadBytes \/ ReadEnds \/ CloseConnection

Spec == Init /\ [][Next]_fetchVars /\ WF_fetchVars(Next)

(* The blank line that ends the header is looked for as CR LF CR LF in the *)
(* whole answer before it is looked for as LF LF.                          *)
MixedLineEnds(text) ==
    LET bare == Find(text, <<"\n", "\n">>)
    IN  bare # 0 /\ Find(text, <<"\r", "\n", "\r", "\n">>) > bare

(***************************************************************************)
(* Every way out of readURL gives back the address list, the socket and    *)
(* the SSL object it took; OpenSSL only ever works on a blocking socket    *)
(* (the promise of connectWithTimeout's comment, which holds on success);  *)
(* and the page handed to the parser is the body of a 2xx answer of the    *)
(* URL's own host: all of it, or a part of it when a read failed.  An      *)
(* answer over the limit gives nothing.  Answers that end their header     *)
(* with LF LF and have CR LF CR LF in the body are the exception: how much *)
(* of one was read decides where its body begins.                          *)
(***************************************************************************)
FetchSound ==
    /\ step = "done" => held = {}
    /\ step \in {"handshake", "write", "read"} => blocking /\ held = {"socket", "ssl"}
    /\ body # <<>> =>
         /\ Len(raw) <= MaxResponse
         /\ asked.host = SslParsedUrl(url).host
         /\ StatusCode(response) \in 200..299
         /\ body # DecodeBody(response) => ending = "cut"
         /\ \/ IsPrefix(body, DecodeBody(response))
            \/ MixedLineEnds(response) /\ ending = "cut"
====
