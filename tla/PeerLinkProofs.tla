--------------------------- MODULE PeerLinkProofs ---------------------------
(***************************************************************************)
(* Theorems of PeerLink, for every set of links, every threshold and       *)
(* number of retries, however many connections break and whoever stops:    *)
(* the type invariant, that a link is in one place and processed at most   *)
(* once, that links go down only with a failure, that the receiver sleeps  *)
(* through nothing, and that no step forgets a link.                       *)
(***************************************************************************)
EXTENDS PeerLink, FiniteSetTheorems, SequenceTheorems, TLAPS

-----------------------------------------------------------------------------
(* The inductive invariant *)

\* l is in one of these frames, and in one of them only.
In(l, frames) == \E k \in DOMAIN frames : l \in frames[k]

Once(l, frames) ==
  \A j, k \in DOMAIN frames : l \in frames[j] /\ l \in frames[k] => j = k

OnTheWay(l) == \E c \in DOMAIN conns : In(l, conns[c].frames)

\* A link has one copy: it waits in the batch, is in the sender's hands, on
\* the way in one frame of one connection, lost, or processed once.
OneCopy(l) ==
  /\ processed[l] \in {0, 1}
  /\ \A c \in DOMAIN conns : Once(l, conns[c].frames)
  /\ \A c, d \in DOMAIN conns :
       In(l, conns[c].frames) /\ In(l, conns[d].frames) => c = d
  /\ l \in batch => l \notin readyBatch \cup lost /\ processed[l] = 0 /\ ~OnTheWay(l)
  /\ l \in readyBatch => l \notin lost /\ processed[l] = 0 /\ ~OnTheWay(l)
  /\ l \in lost => processed[l] = 0 /\ ~OnTheWay(l)
  /\ OnTheWay(l) => processed[l] = 0

\* The sender has links in hand only while it connects and sends.
HandInv == sender \notin {"connect", "send", "failed"} => readyBatch = {}

\* The receiver does not wait for what is there: it is woken by whoever gives
\* it a connection or stops it, and both respect the lock it tests under.
ReceiverAwake == receiver \in {"tested", "waiting"} => pendingFd = None /\ ~stop

\* A connection goes from the backlog to the acceptor, is pending and then the
\* receiver's; until the handshake is read it is the first frame, unless the
\* connection broke.
Unread(c) == conns[c].server = "backlog" \/ c = accepted

RolesInv ==
  /\ \A c \in DOMAIN conns :
       /\ conns[c].server = "closed" => conns[c].frames = <<>>
       /\ Unread(c) => IF conns[c].frames = <<>> THEN Dead(c)
                       ELSE conns[c].frames[1] = Handshake
  /\ accepted # None => conns[accepted].server # "backlog"
  /\ pendingFd # None => ~Unread(pendingFd)
  /\ inFd # None => ~Unread(inFd)

\* As long as no connection breaks and B does not stop, A makes one connection
\* and keeps it until it ends itself, and B reads it to its end.
CalmInv ==
  breaks = 0 /\ ~stopB =>
    /\ lost = {} /\ acceptor # "exited" /\ ~stop
    /\ Len(conns) <= 1
    /\ outFd = None => conns = <<>> \/ sender = "exited"
    /\ outFd # None => conns[outFd].client = "open"
    /\ \A c \in DOMAIN conns :
         /\ ~conns[c].broken
         /\ conns[c].server = "closed" => conns[c].client = "closed"
    /\ receiver = "close" =>
         conns[inFd].frames = <<>> /\ conns[inFd].client = "closed"

CopiesInv == \A l \in Links : OneCopy(l)

Inv == TypeOK /\ HandInv /\ ReceiverAwake /\ RolesInv /\ CopiesInv /\ CalmInv

-----------------------------------------------------------------------------
(* Frames *)

\* The links of a sequence of frames are those in one of them.
LEMMA LinksAreIn ==
  ASSUME NEW s \in Seq(SUBSET Links), NEW l
  PROVE  l \in LinksIn(s) <=> In(l, s)
BY DEF LinksIn, In

\* No frames hold no link.
LEMMA NoFrames == \A l : ~In(l, <<>>) /\ Once(l, <<>>)
BY DEF In, Once

\* A frame that is appended adds its links.
LEMMA AppendFrame ==
  ASSUME NEW s \in Seq(SUBSET Links), NEW f \in SUBSET Links, NEW l
  PROVE  /\ Append(s, f) \in Seq(SUBSET Links)
         /\ In(l, Append(s, f)) <=> In(l, s) \/ l \in f
         /\ Once(l, s) /\ ~(In(l, s) /\ l \in f) => Once(l, Append(s, f))
<1>1. /\ Append(s, f) \in Seq(SUBSET Links) /\ Len(s) \in Nat
      /\ DOMAIN s = 1..Len(s) /\ DOMAIN Append(s, f) = 1..(Len(s) + 1)
  OBVIOUS
<1>2. /\ \A k \in 1..Len(s) : Append(s, f)[k] = s[k]
      /\ Append(s, f)[Len(s) + 1] = f
  OBVIOUS
<1>3. In(l, Append(s, f)) <=> In(l, s) \/ l \in f
  BY <1>1, <1>2 DEF In
<1>4. Once(l, s) /\ ~(In(l, s) /\ l \in f) => Once(l, Append(s, f))
  BY <1>1, <1>2 DEF In, Once
<1> QED
  BY <1>1, <1>3, <1>4

\* The links of a sequence are those of its head and those of its tail.
LEMMA TailFrames ==
  ASSUME NEW s \in Seq(SUBSET Links), s # <<>>, NEW l
  PROVE  /\ Tail(s) \in Seq(SUBSET Links) /\ Head(s) \in SUBSET Links
         /\ Head(s) = s[1]
         /\ In(l, s) <=> In(l, Tail(s)) \/ l \in Head(s)
         /\ Once(l, s) => Once(l, Tail(s)) /\ ~(In(l, Tail(s)) /\ l \in Head(s))
<1>1. /\ Len(s) \in Nat \ {0} /\ Head(s) = s[1] /\ Head(s) \in SUBSET Links
      /\ Tail(s) \in Seq(SUBSET Links) /\ Len(Tail(s)) = Len(s) - 1
      /\ DOMAIN s = 1..Len(s) /\ DOMAIN Tail(s) = 1..(Len(s) - 1)
  OBVIOUS
<1>2. \A k \in 1..(Len(s) - 1) : Tail(s)[k] = s[k + 1]
  OBVIOUS
<1>3. ASSUME In(l, s), l \notin Head(s)
      PROVE  In(l, Tail(s))
  <2>1. PICK k \in 1..Len(s) : l \in s[k]
    BY <1>1, <1>3 DEF In
  <2>2. k - 1 \in 1..(Len(s) - 1) /\ Tail(s)[k - 1] = s[k]
    BY <1>1, <1>2, <1>3, <2>1
  <2> QED
    BY <1>1, <2>1, <2>2 DEF In
<1>4. In(l, Tail(s)) \/ l \in Head(s) => In(l, s)
  BY <1>1, <1>2 DEF In
<1>5. Once(l, s) => Once(l, Tail(s)) /\ ~(In(l, Tail(s)) /\ l \in Head(s))
  BY <1>1, <1>2 DEF In, Once
<1> QED
  BY <1>1, <1>3, <1>4, <1>5

\* Cutting a sequence of frames in two divides its links.
LEMMA CutFrames ==
  ASSUME NEW s \in Seq(SUBSET Links), NEW k \in 0..Len(s), NEW l
  PROVE  /\ SubSeq(s, 1, k) \in Seq(SUBSET Links)
         /\ SubSeq(s, k + 1, Len(s)) \in Seq(SUBSET Links)
         /\ In(l, s) <=> In(l, SubSeq(s, 1, k)) \/ In(l, SubSeq(s, k + 1, Len(s)))
         /\ Once(l, s) =>
              /\ Once(l, SubSeq(s, 1, k))
              /\ ~(In(l, SubSeq(s, 1, k)) /\ In(l, SubSeq(s, k + 1, Len(s))))
         /\ SubSeq(s, 1, k) # <<>> => s # <<>> /\ SubSeq(s, 1, k)[1] = s[1]
<1> DEFINE a == SubSeq(s, 1, k)
           b == SubSeq(s, k + 1, Len(s))
<1>1. /\ Len(s) \in Nat /\ k \in Nat /\ k <= Len(s) /\ DOMAIN s = 1..Len(s)
      /\ a \in Seq(SUBSET Links) /\ Len(a) = k /\ DOMAIN a = 1..k
      /\ \A j \in 1..k : a[j] = s[j]
  OBVIOUS
<1>2. /\ b \in Seq(SUBSET Links) /\ Len(b) = Len(s) - k
      /\ DOMAIN b = 1..(Len(s) - k)
      /\ \A j \in 1..(Len(s) - k) : b[j] = s[j + k]
  OBVIOUS
<1> HIDE DEF a, b
<1>3. ASSUME In(l, s), ~In(l, a)
      PROVE  In(l, b)
  <2>1. PICK j \in 1..Len(s) : l \in s[j]
    BY <1>1, <1>3 DEF In
  <2>2. j > k
    BY <1>1, <1>3, <2>1 DEF In
  <2>3. j - k \in 1..(Len(s) - k) /\ (j - k) + k = j
    BY <1>1, <2>2
  <2>4. b[j - k] = s[j]
    BY <1>2, <2>3
  <2> QED
    BY <1>2, <2>1, <2>3, <2>4 DEF In
<1>4. In(l, a) => \E j \in 1..k : l \in s[j]
  BY <1>1 DEF In
<1>5. ASSUME In(l, b)
      PROVE  \E j \in (k + 1)..Len(s) : l \in s[j]
  <2>1. PICK j \in 1..(Len(s) - k) : l \in b[j]
    BY <1>2, <1>5 DEF In
  <2>2. j + k \in (k + 1)..Len(s)
    BY <1>1
  <2> QED
    BY <1>2, <2>1, <2>2
<1>6. In(l, a) \/ In(l, b) => In(l, s)
  BY <1>1, <1>4, <1>5 DEF In
<1>7. Once(l, s) => Once(l, a)
  BY <1>1 DEF Once
<1>8. Once(l, s) => ~(In(l, a) /\ In(l, b))
  BY <1>1, <1>4, <1>5 DEF Once
<1>9. a # <<>> => s # <<>> /\ a[1] = s[1]
  BY <1>1
<1> QED
  BY <1>1, <1>2, <1>3, <1>6, <1>7, <1>8, <1>9 DEF a, b

-----------------------------------------------------------------------------
(* Connections *)

\* Every connection of a list of connections has its fields.
LEMMA FieldsOf ==
  ASSUME NEW cs \in Seq(Connection), NEW c \in DOMAIN cs
  PROVE  /\ cs[c] \in Connection /\ c \in 1..Len(cs)
         /\ cs[c].frames \in Seq(SUBSET Links)
         /\ cs[c].client \in {"open", "closed"}
         /\ cs[c].server \in {"backlog", "open", "closed"}
         /\ cs[c].broken \in BOOLEAN
<1>1. cs[c] \in Connection /\ c \in 1..Len(cs)
  OBVIOUS
<1> QED
  BY <1>1 DEF Connection

\* Changing one connection leaves the list typed and the others alone.
LEMMA Changed ==
  ASSUME NEW cs \in Seq(Connection), NEW c \in DOMAIN cs, NEW r \in Connection,
         NEW ds, ds = [cs EXCEPT ![c] = r]
  PROVE  /\ ds \in Seq(Connection) /\ Len(ds) = Len(cs) /\ DOMAIN ds = DOMAIN cs
         /\ ds[c] = r /\ \A d \in DOMAIN cs : d # c => ds[d] = cs[d]
<1>1. DOMAIN cs = 1..Len(cs) /\ Len(cs) \in Nat
  OBVIOUS
<1>2. ds \in Seq(Connection) /\ Len(ds) = Len(cs)
  BY <1>1, ExceptSeq
<1>3. DOMAIN ds = 1..Len(ds)
  BY <1>2
<1> QED
  BY <1>1, <1>2, <1>3

\* Closing B's end of a connection drops what the connection carries.
LEMMA Closing ==
  ASSUME NEW cs \in Seq(Connection), NEW c \in DOMAIN cs,
         NEW ds, ds = CloseServer(cs, c)
  PROVE  /\ ds \in Seq(Connection) /\ Len(ds) = Len(cs) /\ DOMAIN ds = DOMAIN cs
         /\ \A d \in DOMAIN cs : d # c => ds[d] = cs[d]
         /\ ds[c].frames = <<>> /\ ds[c].server = "closed"
         /\ ds[c].client = cs[c].client /\ ds[c].broken = cs[c].broken
<1> DEFINE r == [cs[c] EXCEPT !.server = "closed", !.frames = <<>>]
<1>1. ds = [cs EXCEPT ![c] = r]
  BY FieldsOf DEF CloseServer, Connection
<1>2. cs[c] \in Connection /\ <<>> \in Seq(SUBSET Links)
  OBVIOUS
<1>3. /\ r \in Connection /\ r.frames = <<>> /\ r.server = "closed"
      /\ r.client = cs[c].client /\ r.broken = cs[c].broken
  BY <1>2 DEF Connection
<1> HIDE DEF r
<1> QED
  BY <1>1, <1>3, Changed

-----------------------------------------------------------------------------
(* What each step that touches the connections makes of them *)

\* The frames of c become f and nothing else changes.
FramesBecome(c, f) ==
  /\ conns' \in Seq(Connection) /\ DOMAIN conns' = DOMAIN conns /\ Len(conns') = Len(conns)
  /\ \A d \in DOMAIN conns :
       /\ conns'[d].client = conns[d].client /\ conns'[d].server = conns[d].server
       /\ conns'[d].broken = conns[d].broken
       /\ conns'[d].frames = IF d = c THEN f ELSE conns[d].frames

\* A closes its end of c.
ClientCloses(c) ==
  /\ conns' \in Seq(Connection) /\ DOMAIN conns' = DOMAIN conns /\ Len(conns') = Len(conns)
  /\ \A d \in DOMAIN conns :
       /\ conns'[d].frames = conns[d].frames /\ conns'[d].server = conns[d].server
       /\ conns'[d].broken = conns[d].broken
       /\ conns'[d].client = IF d = c THEN "closed" ELSE conns[d].client

\* B closes its end of the connections in C.
ServerCloses(C) ==
  /\ conns' \in Seq(Connection) /\ DOMAIN conns' = DOMAIN conns /\ Len(conns') = Len(conns)
  /\ \A d \in DOMAIN conns :
       /\ conns'[d].client = conns[d].client
       /\ conns'[d].frames = IF d \in C THEN <<>> ELSE conns[d].frames
       /\ conns'[d].server = IF d \in C THEN "closed" ELSE conns[d].server
       /\ conns'[d].broken = conns[d].broken

\* A new connection, last in the list.
Connects(new) ==
  /\ new \in Connection /\ conns' \in Seq(Connection) /\ Len(conns') = Len(conns) + 1
  /\ conns'[Len(conns')] = new
  /\ \A d \in DOMAIN conns : d # Len(conns') /\ d \in DOMAIN conns' /\ conns'[d] = conns[d]
  /\ \A d \in DOMAIN conns' : d \in DOMAIN conns \/ d = Len(conns')

\* Writing frames to a connection.
LEMMA FramesWritten ==
  ASSUME TypeOK, NEW c \in DOMAIN conns, NEW f \in Seq(SUBSET Links),
         conns' = [conns EXCEPT ![c].frames = f]
  PROVE  FramesBecome(c, f)
<1> DEFINE r == [conns[c] EXCEPT !.frames = f]
<1>1. /\ conns \in Seq(Connection) /\ conns[c] \in Connection
  BY FieldsOf DEF TypeOK
<1>0. r \in Connection
  BY <1>1 DEF Connection
<1>2. /\ r.frames = f /\ r.client = conns[c].client
      /\ r.server = conns[c].server /\ r.broken = conns[c].broken
  BY <1>1 DEF Connection
<1>3. conns' = [conns EXCEPT ![c] = r]
  OBVIOUS
<1> HIDE DEF r
<1>4. conns' \in Seq(Connection) /\ Len(conns') = Len(conns) /\ DOMAIN conns' = DOMAIN conns
      /\ conns'[c] = r /\ \A d \in DOMAIN conns : d # c => conns'[d] = conns[d]
  BY <1>0, <1>1, <1>3, Changed
<1>5. ASSUME NEW d \in DOMAIN conns, d # c
      PROVE  conns'[d] = conns[d]
  BY <1>4, <1>5
<1> QED
  BY <1>2, <1>4, <1>5 DEF FramesBecome

\* A's end is closed.
LEMMA ClientClosed ==
  ASSUME TypeOK, NEW c \in DOMAIN conns,
         conns' = [conns EXCEPT ![c].client = "closed"]
  PROVE  ClientCloses(c)
<1> DEFINE r == [conns[c] EXCEPT !.client = "closed"]
<1>1. /\ conns \in Seq(Connection) /\ conns[c] \in Connection
  BY FieldsOf DEF TypeOK
<1>0. r \in Connection
  BY <1>1 DEF Connection
<1>2. /\ r.frames = conns[c].frames /\ r.client = "closed"
      /\ r.server = conns[c].server /\ r.broken = conns[c].broken
  BY <1>1 DEF Connection
<1>3. conns' = [conns EXCEPT ![c] = r]
  OBVIOUS
<1> HIDE DEF r
<1>4. conns' \in Seq(Connection) /\ Len(conns') = Len(conns) /\ DOMAIN conns' = DOMAIN conns
      /\ conns'[c] = r /\ \A d \in DOMAIN conns : d # c => conns'[d] = conns[d]
  BY <1>0, <1>1, <1>3, Changed
<1>5. ASSUME NEW d \in DOMAIN conns, d # c
      PROVE  conns'[d] = conns[d]
  BY <1>4, <1>5
<1> QED
  BY <1>2, <1>4, <1>5 DEF ClientCloses

\* B's end is closed.
LEMMA ServerClosed ==
  ASSUME TypeOK, NEW c \in DOMAIN conns, conns' = CloseServer(conns, c)
  PROVE  ServerCloses({c})
<1>1. conns \in Seq(Connection)
  BY DEF TypeOK
<1> QED
  BY <1>1, Closing DEF ServerCloses

\* A connection is made.
LEMMA Connected ==
  ASSUME TypeOK, NEW new \in Connection, conns' = Append(conns, new)
  PROVE  Connects(new)
<1>1. conns \in Seq(Connection) /\ Len(conns) \in Nat /\ DOMAIN conns = 1..Len(conns)
  BY DEF TypeOK
<1>2. /\ conns' \in Seq(Connection) /\ Len(conns') = Len(conns) + 1
      /\ DOMAIN conns' = 1..(Len(conns) + 1) /\ conns'[Len(conns) + 1] = new
      /\ \A d \in 1..Len(conns) : conns'[d] = conns[d]
  BY <1>1
<1> QED
  BY <1>1, <1>2 DEF Connects

\* c is accepted; c breaks after its first k frames.
ServerOpens(c) ==
  /\ conns' \in Seq(Connection) /\ DOMAIN conns' = DOMAIN conns /\ Len(conns') = Len(conns)
  /\ \A d \in DOMAIN conns :
       /\ conns'[d].frames = conns[d].frames /\ conns'[d].client = conns[d].client
       /\ conns'[d].broken = conns[d].broken
       /\ conns'[d].server = IF d = c THEN "open" ELSE conns[d].server

Breaks(c, k) ==
  /\ conns' \in Seq(Connection) /\ DOMAIN conns' = DOMAIN conns /\ Len(conns') = Len(conns)
  /\ \A d \in DOMAIN conns :
       /\ conns'[d].client = conns[d].client /\ conns'[d].server = conns[d].server
       /\ conns'[d].broken = (d = c \/ conns[d].broken)
       /\ conns'[d].frames = IF d = c THEN SubSeq(conns[d].frames, 1, k)
                             ELSE conns[d].frames

\* The handshake of the accepted connection is read, and the connection that
\* was pending is closed; a None is in no list.
HandshakeRead ==
  /\ conns' \in Seq(Connection) /\ DOMAIN conns' = DOMAIN conns /\ Len(conns') = Len(conns)
  /\ \A d \in DOMAIN conns :
       /\ conns'[d].client = conns[d].client /\ conns'[d].broken = conns[d].broken
       /\ conns'[d].server = IF d = pendingFd THEN "closed" ELSE conns[d].server
       /\ conns'[d].frames = IF d = pendingFd THEN <<>>
                             ELSE IF d = accepted THEN Tail(conns[d].frames)
                             ELSE conns[d].frames

\* The active connection is shut down and the pending one closed.
PeerStopped ==
  /\ conns' \in Seq(Connection) /\ DOMAIN conns' = DOMAIN conns /\ Len(conns') = Len(conns)
  /\ \A d \in DOMAIN conns :
       /\ conns'[d].client = conns[d].client
       /\ conns'[d].broken = (d = activeFd \/ conns[d].broken)
       /\ conns'[d].server = IF d = pendingFd THEN "closed" ELSE conns[d].server
       /\ conns'[d].frames = IF d = pendingFd THEN <<>> ELSE conns[d].frames

\* The acceptor takes a connection out of the backlog.
LEMMA ServerOpened ==
  ASSUME TypeOK, NEW c \in DOMAIN conns,
         conns' = [conns EXCEPT ![c].server = "open"]
  PROVE  ServerOpens(c)
<1> DEFINE r == [conns[c] EXCEPT !.server = "open"]
<1>1. /\ conns \in Seq(Connection) /\ conns[c] \in Connection
  BY FieldsOf DEF TypeOK
<1>2. r \in Connection
  BY <1>1 DEF Connection
<1>3. /\ r.client = conns[c].client /\ r.frames = conns[c].frames
      /\ r.server = "open" /\ r.broken = conns[c].broken
  BY <1>1 DEF Connection
<1>4. conns' = [conns EXCEPT ![c] = r]
  OBVIOUS
<1> HIDE DEF r
<1>5. conns' \in Seq(Connection) /\ Len(conns') = Len(conns) /\ DOMAIN conns' = DOMAIN conns
      /\ conns'[c] = r /\ \A d \in DOMAIN conns : d # c => conns'[d] = conns[d]
  BY <1>1, <1>2, <1>4, Changed
<1>6. ASSUME NEW d \in DOMAIN conns, d # c
      PROVE  conns'[d] = conns[d]
  BY <1>5, <1>6
<1> QED
  BY <1>3, <1>5, <1>6 DEF ServerOpens

\* Two updates of one connection are one update of it.
LEMMA Nested ==
  ASSUME NEW cs, NEW c \in DOMAIN cs, NEW k
  PROVE  [cs EXCEPT ![c].broken = TRUE, ![c].frames = SubSeq(@, 1, k)]
           = [cs EXCEPT ![c] = [cs[c] EXCEPT !.broken = TRUE, !.frames = SubSeq(@, 1, k)]]
OBVIOUS

\* The end of a connection's frames is cut off.
LEMMA Broken ==
  ASSUME TypeOK, NEW c \in DOMAIN conns, NEW k \in 0..Len(conns[c].frames),
         conns' = [conns EXCEPT ![c] = [conns[c] EXCEPT !.broken = TRUE, !.frames = SubSeq(@, 1, k)]]
  PROVE  Breaks(c, k)
<1> DEFINE r == [conns[c] EXCEPT !.broken = TRUE, !.frames = SubSeq(@, 1, k)]
<1>0. conns \in Seq(Connection)
  BY DEF TypeOK
<1>1. /\ conns \in Seq(Connection) /\ conns[c] \in Connection
      /\ conns[c].frames \in Seq(SUBSET Links) /\ conns[c].broken \in BOOLEAN
  BY FieldsOf DEF TypeOK
<1>2. SubSeq(conns[c].frames, 1, k) \in Seq(SUBSET Links)
  BY <1>1, CutFrames
<1>3. r \in Connection
  BY <1>1, <1>2 DEF Connection
<1>4. /\ r.client = conns[c].client /\ r.server = conns[c].server
      /\ r.frames = SubSeq(conns[c].frames, 1, k) /\ r.broken = TRUE
  BY <1>1 DEF Connection
<1>5. conns' = [conns EXCEPT ![c] = r]
  OBVIOUS
<1> HIDE DEF r
<1>6. conns' \in Seq(Connection) /\ Len(conns') = Len(conns) /\ DOMAIN conns' = DOMAIN conns
      /\ conns'[c] = r /\ \A d \in DOMAIN conns : d # c => conns'[d] = conns[d]
  BY <1>0, <1>3, <1>5, Changed
<1>7. ASSUME NEW d \in DOMAIN conns
      PROVE  /\ d # c => conns'[d] = conns[d]
             /\ conns[d].broken \in BOOLEAN
  BY <1>1, <1>6, <1>7, FieldsOf
<1> QED
  BY <1>4, <1>6, <1>7 DEF Breaks

\* A handshake is read, with or without another connection pending.
LEMMA HandshakeTaken ==
  ASSUME TypeOK, AcceptHandshake
  PROVE  HandshakeRead
<1> DEFINE f == Tail(conns[accepted].frames)
           r == [conns[accepted] EXCEPT !.frames = f]
           cs == [conns EXCEPT ![accepted].frames = Tail(@)]
<1>1. /\ conns \in Seq(Connection) /\ accepted \in DOMAIN conns
      /\ conns[accepted] \in Connection /\ conns[accepted].frames # <<>>
      /\ conns[accepted].frames \in Seq(SUBSET Links)
  BY FieldsOf DEF TypeOK, AcceptHandshake
<1>2. f \in Seq(SUBSET Links)
  BY <1>1, TailFrames
<1>3. r \in Connection
  BY <1>1, <1>2 DEF Connection
<1>4. /\ r.client = conns[accepted].client /\ r.server = conns[accepted].server
      /\ r.frames = f /\ r.broken = conns[accepted].broken
  BY <1>1 DEF Connection
<1>5. cs = [conns EXCEPT ![accepted] = r]
  BY <1>1 DEF Connection
<1>6. /\ pendingFd = None => conns' = cs
      /\ pendingFd # None => conns' = CloseServer(cs, pendingFd)
  BY DEF AcceptHandshake
<1> HIDE DEF r, cs
<1>7. cs \in Seq(Connection) /\ Len(cs) = Len(conns) /\ DOMAIN cs = DOMAIN conns
      /\ cs[accepted] = r /\ \A d \in DOMAIN conns : d # accepted => cs[d] = conns[d]
  BY <1>1, <1>3, <1>5, Changed
<1>8. CASE pendingFd = None
  <2>1. pendingFd \notin DOMAIN conns
    BY <1>1, <1>8, NoneAssumption
  <2>2. ASSUME NEW d \in DOMAIN conns
        PROVE  /\ d # pendingFd
               /\ d # accepted => cs[d] = conns[d]
    BY <1>7, <2>1
  <2> QED
    BY <1>4, <1>6, <1>7, <1>8, <2>2 DEF HandshakeRead
<1>9. CASE pendingFd # None
  <2>1. pendingFd \in DOMAIN cs
    BY <1>7, <1>9 DEF TypeOK
  <2>2. /\ conns' \in Seq(Connection) /\ Len(conns') = Len(cs) /\ DOMAIN conns' = DOMAIN cs
        /\ \A d \in DOMAIN cs : d # pendingFd => conns'[d] = cs[d]
        /\ conns'[pendingFd].frames = <<>> /\ conns'[pendingFd].server = "closed"
        /\ conns'[pendingFd].client = cs[pendingFd].client
        /\ conns'[pendingFd].broken = cs[pendingFd].broken
    BY <1>6, <1>7, <1>9, <2>1, Closing
  <2>3. ASSUME NEW d \in DOMAIN conns
        PROVE  /\ d # pendingFd => conns'[d] = cs[d]
               /\ d # accepted => cs[d] = conns[d]
    BY <1>7, <2>2
  <2> QED
    BY <1>4, <1>7, <2>2, <2>3 DEF HandshakeRead
<1> QED
  BY <1>8, <1>9

\* B stops its link.
LEMMA StoppedPeer ==
  ASSUME TypeOK, StopPeerB
  PROVE  PeerStopped
<1> DEFINE cs == [c \in DOMAIN conns |-> IF c = activeFd THEN [conns[c] EXCEPT !.broken = TRUE]
                                         ELSE conns[c]]
<1>1. /\ conns \in Seq(Connection) /\ DOMAIN conns = 1..Len(conns) /\ Len(conns) \in Nat
  BY DEF TypeOK
<1>2. /\ pendingFd = None => conns' = cs
      /\ pendingFd # None => conns' = CloseServer(cs, pendingFd)
  BY DEF StopPeerB
<1>3. ASSUME NEW d \in DOMAIN conns
      PROVE  /\ cs[d] \in Connection
             /\ cs[d].client = conns[d].client /\ cs[d].server = conns[d].server
             /\ cs[d].frames = conns[d].frames
             /\ cs[d].broken = (d = activeFd \/ conns[d].broken)
  <2>1. conns[d] \in Connection
    BY <1>1
  <2> QED
    BY <2>1 DEF Connection
<1>4. cs \in [1..Len(conns) -> Connection]
  BY <1>1, <1>3
<1> HIDE DEF cs
<1>5. cs \in Seq(Connection) /\ Len(cs) = Len(conns) /\ DOMAIN cs = DOMAIN conns
  BY <1>1, <1>4
<1>6. CASE pendingFd = None
  <2>1. pendingFd \notin DOMAIN conns
    BY <1>1, <1>6, NoneAssumption
  <2> QED
    BY <1>2, <1>3, <1>5, <1>6, <2>1 DEF PeerStopped
<1>7. CASE pendingFd # None
  <2>1. pendingFd \in DOMAIN cs
    BY <1>5, <1>7 DEF TypeOK
  <2>2. /\ conns' \in Seq(Connection) /\ Len(conns') = Len(cs) /\ DOMAIN conns' = DOMAIN cs
        /\ \A d \in DOMAIN cs : d # pendingFd => conns'[d] = cs[d]
        /\ conns'[pendingFd].frames = <<>> /\ conns'[pendingFd].server = "closed"
        /\ conns'[pendingFd].client = cs[pendingFd].client
        /\ conns'[pendingFd].broken = cs[pendingFd].broken
    BY <1>2, <1>5, <1>7, <2>1, Closing
  <2>3. ASSUME NEW d \in DOMAIN conns
        PROVE  d # pendingFd => conns'[d] = cs[d]
    BY <1>5, <2>2
  <2> QED
    BY <1>3, <1>5, <2>2, <2>3 DEF PeerStopped
<1> QED
  BY <1>6, <1>7

\* The listening socket goes with its backlog.
LEMMA BacklogClosed ==
  ASSUME TypeOK, AcceptorEnds
  PROVE  ServerCloses({c \in DOMAIN conns : conns[c].server = "backlog"})
<1> DEFINE C == {c \in DOMAIN conns : conns[c].server = "backlog"}
<1>1. /\ conns \in Seq(Connection) /\ DOMAIN conns = 1..Len(conns) /\ Len(conns) \in Nat
  BY DEF TypeOK
<1>2. conns' = [c \in DOMAIN conns |->
                  IF c \in C THEN CloseServer(conns, c)[c] ELSE conns[c]]
  BY DEF AcceptorEnds
<1>3. ASSUME NEW d \in DOMAIN conns
      PROVE  /\ CloseServer(conns, d)[d] \in Connection
             /\ CloseServer(conns, d)[d].client = conns[d].client
             /\ CloseServer(conns, d)[d].broken = conns[d].broken
             /\ CloseServer(conns, d)[d].frames = <<>>
             /\ CloseServer(conns, d)[d].server = "closed"
  <2> DEFINE ds == CloseServer(conns, d)
  <2>1. ds = CloseServer(conns, d)
    OBVIOUS
  <2> HIDE DEF ds
  <2>2. /\ ds \in Seq(Connection) /\ DOMAIN ds = DOMAIN conns
        /\ ds[d].frames = <<>> /\ ds[d].server = "closed"
        /\ ds[d].client = conns[d].client /\ ds[d].broken = conns[d].broken
    BY <1>1, <2>1, Closing
  <2>3. ds[d] \in Connection
    BY <2>2
  <2> QED
    BY <2>1, <2>2, <2>3
<1> HIDE DEF C
<1>4. \A d \in DOMAIN conns : conns'[d] \in Connection
  BY <1>1, <1>2, <1>3
<1>5. conns' \in [1..Len(conns) -> Connection]
  BY <1>1, <1>2, <1>4
<1>6. conns' \in Seq(Connection) /\ Len(conns') = Len(conns) /\ DOMAIN conns' = DOMAIN conns
  BY <1>1, <1>5
<1>7. ServerCloses(C)
  BY <1>2, <1>3, <1>6 DEF ServerCloses
<1> QED
  BY <1>7 DEF C

-----------------------------------------------------------------------------
(* The type invariant *)

\* The steps that leave the connections alone: a disjunct for each.
QuietStep ==
  \/ SenderTakes \/ SenderTests \/ SenderWaits \/ SenderRetries \/ SenderGivesUp
  \/ ReceiverTakes \/ ReceiverTests \/ ReceiverWaits \/ ReceiverEnds
  \/ ReceiverLoops \/ ReceiverLosesStream \/ ReceiverDetaches
  \/ (\E l \in Links : AddLink(l)) \/ SignalA \/ JoinCrawlersA \/ SignalB
  \/ UNCHANGED vars

\* The types hold at first and after every step.
LEMMA TypeInit ==
  ASSUME Init
  PROVE  TypeOK
<1>1. conns \in Seq(Connection) /\ processed \in [Links -> Nat]
  BY DEF Init
<1>2. attempt \in 0..Retries /\ breaks \in 0..MaxBreaks
  BY BoundAssumption DEF Init
<1>3. {stopA, crawling, stopB, stop} \subseteq BOOLEAN
  BY DEF Init
<1> QED
  BY <1>1, <1>2, <1>3 DEF Init, TypeOK

LEMMA TypeQuiet ==
  ASSUME TypeOK, QuietStep
  PROVE  TypeOK'
<1> USE BoundAssumption DEF TypeOK
<1>1. CASE SenderTakes
  BY <1>1 DEF SenderTakes, acceptVars, receiverVars, history
<1>2. CASE SenderTests
  BY <1>2 DEF SenderTests, acceptVars, receiverVars, history
<1>3. CASE SenderWaits
  BY <1>3 DEF SenderWaits, acceptVars, receiverVars, history
<1>4. CASE SenderRetries
  BY <1>4 DEF SenderRetries, RetriesLeft, acceptVars, receiverVars, history
<1>5. CASE SenderGivesUp
  BY <1>5 DEF SenderGivesUp, ReturnBatch, acceptVars, receiverVars, history
<1>6. CASE ReceiverTakes
  BY <1>6 DEF ReceiverTakes, senderVars, acceptVars, history
<1>7. CASE ReceiverTests
  BY <1>7 DEF ReceiverTests, senderVars, acceptVars, history
<1>8. CASE ReceiverWaits
  BY <1>8 DEF ReceiverWaits, senderVars, acceptVars, history
<1>9. CASE ReceiverEnds
  BY <1>9 DEF ReceiverEnds, senderVars, acceptVars, history
<1>10. CASE ReceiverLoops
  BY <1>10 DEF ReceiverLoops, senderVars, acceptVars, history
<1>11. CASE ReceiverLosesStream
  BY <1>11 DEF ReceiverLosesStream, senderVars, acceptVars, history
<1>12. CASE ReceiverDetaches
  BY <1>12 DEF ReceiverDetaches, senderVars, acceptVars, history
<1>13. ASSUME NEW l \in Links, AddLink(l)
       PROVE  TypeOK'
  BY <1>13 DEF AddLink, Notified, acceptVars, receiverVars, history
<1>14. CASE SignalA
  BY <1>14 DEF SignalA, Notified, acceptVars, receiverVars, history
<1>15. CASE JoinCrawlersA
  <2>1. {stopA', crawling', stopB', stop'} \subseteq BOOLEAN
    BY <1>15 DEF JoinCrawlersA
  <2> QED
    BY <1>15, <2>1 DEF JoinCrawlersA, Notified, acceptVars, receiverVars, history
<1>16. CASE SignalB
  BY <1>16 DEF SignalB, Notified, senderVars, acceptVars, history
<1>17. CASE UNCHANGED vars
  BY <1>17 DEF vars, senderVars, acceptVars, receiverVars, history
<1> QED
  BY <1>1, <1>2, <1>3, <1>4, <1>5, <1>6, <1>7, <1>8, <1>9, <1>10, <1>11,
     <1>12, <1>13, <1>14, <1>15, <1>16, <1>17 DEF QuietStep

\* The sender's steps with its connection.
LEMMA TypeSenderEnds ==
  ASSUME TypeOK, SenderEnds
  PROVE  TypeOK' /\ (IF outFd = None THEN UNCHANGED conns ELSE ClientCloses(outFd))
<1>1. CASE outFd = None
  BY <1>1 DEF SenderEnds, TypeOK, acceptVars, receiverVars, history
<1>2. CASE outFd # None
  <2>1. outFd \in DOMAIN conns /\ conns' = [conns EXCEPT ![outFd].client = "closed"]
    BY <1>2 DEF SenderEnds, TypeOK
  <2>2. ClientCloses(outFd)
    BY <2>1, ClientClosed
  <2>3. conns' \in Seq(Connection) /\ DOMAIN conns' = DOMAIN conns
    BY <2>2 DEF ClientCloses
  <2> QED
    BY <1>2, <2>2, <2>3 DEF SenderEnds, TypeOK, acceptVars, receiverVars, history
<1> QED
  BY <1>1, <1>2

LEMMA TypeSenderCannotSend ==
  ASSUME TypeOK, SenderCannotSend
  PROVE  TypeOK' /\ outFd \in DOMAIN conns /\ ClientCloses(outFd)
<1>1. outFd \in DOMAIN conns /\ conns' = [conns EXCEPT ![outFd].client = "closed"]
  BY DEF SenderCannotSend, TypeOK
<1>2. ClientCloses(outFd)
  BY <1>1, ClientClosed
<1>3. conns' \in Seq(Connection) /\ DOMAIN conns' = DOMAIN conns
  BY <1>2 DEF ClientCloses
<1> QED
  BY <1>1, <1>2, <1>3 DEF SenderCannotSend, TypeOK, acceptVars, receiverVars, history

\* A connection with its handshake on the way, and one that broke before.
Fresh == [frames |-> <<Handshake>>, client |-> "open", server |-> "backlog",
          broken |-> FALSE]
StillBorn == [frames |-> <<>>, client |-> "closed", server |-> "backlog",
              broken |-> TRUE]

LEMMA NewConnections == Fresh \in Connection /\ StillBorn \in Connection
<1>1. <<Handshake>> \in Seq(SUBSET Links) /\ <<>> \in Seq(SUBSET Links)
  BY DEF Handshake
<1> QED
  BY <1>1 DEF Fresh, StillBorn, Connection

LEMMA TypeSenderConnects ==
  ASSUME TypeOK, SenderConnects
  PROVE  /\ TypeOK'
         /\ \/ outFd # None /\ UNCHANGED <<conns, outFd>>
            \/ outFd = None /\ Connects(Fresh) /\ outFd' = Len(conns')
<1>1. CASE outFd # None /\ UNCHANGED <<conns, outFd>>
  BY <1>1 DEF SenderConnects, TypeOK, acceptVars, receiverVars, history
<1>2. CASE outFd = None /\ conns' = Append(conns, Fresh) /\ outFd' = Len(conns')
  <2>1. Connects(Fresh)
    BY <1>2, Connected, NewConnections
  <2>2. /\ conns' \in Seq(Connection) /\ DOMAIN conns \subseteq DOMAIN conns'
        /\ Len(conns') = Len(conns) + 1
    BY <2>1 DEF Connects
  <2>3. Len(conns') \in DOMAIN conns' /\ Len(conns') \in Nat
    BY <2>2 DEF TypeOK
  <2>4. outFd' # None
    BY <1>2, <2>3, NoneAssumption
  <2> QED
    BY <1>2, <2>1, <2>2, <2>3, <2>4 DEF SenderConnects, TypeOK, acceptVars, receiverVars, history
<1> QED
  BY <1>1, <1>2 DEF SenderConnects, Fresh

LEMMA TypeSenderCannotConnect ==
  ASSUME TypeOK, SenderCannotConnect
  PROVE  /\ TypeOK' /\ outFd = None
         /\ \/ ~Listening /\ UNCHANGED <<conns, breaks>>
            \/ Listening /\ Connects(StillBorn) /\ breaks' = breaks + 1
<1>1. CASE ~Listening /\ UNCHANGED <<conns, breaks>>
  BY <1>1 DEF SenderCannotConnect, TypeOK, acceptVars, receiverVars, history
<1>2. CASE /\ Listening /\ conns' = Append(conns, StillBorn)
           /\ breaks < MaxBreaks /\ breaks' = breaks + 1
  <2>1. Connects(StillBorn)
    BY <1>2, Connected, NewConnections
  <2>2. conns' \in Seq(Connection) /\ DOMAIN conns \subseteq DOMAIN conns'
    BY <2>1 DEF Connects
  <2>3. breaks' \in 0..MaxBreaks
    BY <1>2, BoundAssumption DEF TypeOK
  <2> QED
    BY <1>2, <2>1, <2>2, <2>3 DEF SenderCannotConnect, TypeOK, acceptVars, receiverVars, history
<1> QED
  BY <1>1, <1>2 DEF SenderCannotConnect, StillBorn

LEMMA TypeSenderSends ==
  ASSUME TypeOK, SenderSends
  PROVE  /\ TypeOK' /\ outFd \in DOMAIN conns
         /\ \/ /\ ~Dead(outFd) /\ FramesBecome(outFd, Append(conns[outFd].frames, readyBatch))
               /\ UNCHANGED lost
            \/ Dead(outFd) /\ lost' = lost \cup readyBatch /\ UNCHANGED conns
<1>1. outFd \in DOMAIN conns
  BY DEF SenderSends, TypeOK
<1>2. CASE ~Dead(outFd)
  <2>1. conns' = [conns EXCEPT ![outFd].frames = Append(conns[outFd].frames, readyBatch)]
    BY <1>2 DEF SenderSends
  <2>2. Append(conns[outFd].frames, readyBatch) \in Seq(SUBSET Links)
    BY <1>1, FieldsOf, AppendFrame DEF TypeOK
  <2>3. FramesBecome(outFd, Append(conns[outFd].frames, readyBatch))
    BY <1>1, <2>1, <2>2, FramesWritten
  <2>4. conns' \in Seq(Connection) /\ DOMAIN conns' = DOMAIN conns
    BY <2>3 DEF FramesBecome
  <2> QED
    BY <1>1, <1>2, <2>3, <2>4 DEF SenderSends, SentBatch, TypeOK, acceptVars, receiverVars
<1>3. CASE Dead(outFd)
  BY <1>1, <1>3 DEF SenderSends, SentBatch, TypeOK, acceptVars, receiverVars
<1> QED
  BY <1>2, <1>3

\* The network and machine B.
LEMMA TypeBreak ==
  ASSUME TypeOK, NEW c \in DOMAIN conns, Break(c)
  PROVE  /\ TypeOK' /\ breaks' = breaks + 1
         /\ \E k \in 0..Len(conns[c].frames) :
              /\ Breaks(c, k)
              /\ lost' = lost \cup
                   LinksIn(SubSeq(conns[c].frames, k + 1, Len(conns[c].frames)))
<1>1. PICK k \in 0..Len(conns[c].frames) :
        /\ conns' = [conns EXCEPT ![c].broken = TRUE, ![c].frames = SubSeq(@, 1, k)]
        /\ lost' = lost \cup LinksIn(SubSeq(conns[c].frames, k + 1, Len(conns[c].frames)))
  BY DEF Break
<1>2. conns' = [conns EXCEPT ![c] = [conns[c] EXCEPT !.broken = TRUE, !.frames = SubSeq(@, 1, k)]]
  BY <1>1, Nested, Zenon
<1>3. Breaks(c, k)
  BY <1>2, Broken
<1>4. conns' \in Seq(Connection) /\ DOMAIN conns' = DOMAIN conns
  BY <1>3 DEF Breaks
<1>5. lost' \in SUBSET Links
  <2> DEFINE b == SubSeq(conns[c].frames, k + 1, Len(conns[c].frames))
  <2>1. b \in Seq(SUBSET Links)
    BY FieldsOf, CutFrames DEF TypeOK
  <2> HIDE DEF b
  <2>2. LinksIn(b) \in SUBSET Links
    BY <2>1 DEF LinksIn
  <2> QED
    BY <1>1, <2>2 DEF TypeOK, b
<1>6. breaks' \in 0..MaxBreaks /\ breaks' = breaks + 1
  BY BoundAssumption DEF Break, TypeOK
<1>7. TypeOK'
  BY <1>4, <1>5, <1>6 DEF Break, TypeOK, senderVars, acceptVars, receiverVars
<1> QED
  BY <1>1, <1>3, <1>6, <1>7

LEMMA TypeAccept ==
  ASSUME TypeOK, NEW c \in DOMAIN conns, Accept(c)
  PROVE  TypeOK' /\ ServerOpens(c)
<1>1. ServerOpens(c)
  BY ServerOpened DEF Accept
<1>2. conns' \in Seq(Connection) /\ DOMAIN conns' = DOMAIN conns
  BY <1>1 DEF ServerOpens
<1>3. c # None
  BY FieldsOf, NoneAssumption DEF TypeOK
<1> QED
  BY <1>1, <1>2, <1>3 DEF Accept, TypeOK, senderVars, receiverVars, history

\* The links on a connection are links.
LEMMA LinksOnConnection ==
  ASSUME TypeOK, NEW c \in DOMAIN conns
  PROVE  LinksIn(conns[c].frames) \in SUBSET Links
<1>1. conns[c].frames \in Seq(SUBSET Links)
  BY FieldsOf DEF TypeOK
<1> QED
  BY <1>1 DEF LinksIn

LEMMA TypeAcceptHandshake ==
  ASSUME TypeOK, AcceptHandshake
  PROVE  /\ TypeOK' /\ HandshakeRead /\ accepted \in DOMAIN conns
         /\ lost' = IF pendingFd = None THEN lost
                    ELSE lost \cup LinksIn(conns[pendingFd].frames)
<1>1. HandshakeRead
  BY HandshakeTaken
<1>2. conns' \in Seq(Connection) /\ DOMAIN conns' = DOMAIN conns
  BY <1>1 DEF HandshakeRead
<1>3. accepted \in DOMAIN conns
  BY DEF AcceptHandshake, TypeOK
<1>4. lost' = IF pendingFd = None THEN lost ELSE lost \cup LinksIn(conns[pendingFd].frames)
  BY DEF AcceptHandshake
<1>5. lost' \in SUBSET Links
  BY <1>4, LinksOnConnection DEF TypeOK
<1>6. TypeOK'
  BY <1>2, <1>3, <1>5 DEF AcceptHandshake, Notified, TypeOK, senderVars
<1> QED
  BY <1>1, <1>3, <1>4, <1>6

LEMMA TypeRejectConnection ==
  ASSUME TypeOK, RejectConnection
  PROVE  TypeOK' /\ accepted \in DOMAIN conns /\ ServerCloses({accepted})
<1>1. accepted \in DOMAIN conns /\ conns' = CloseServer(conns, accepted)
  BY DEF RejectConnection, TypeOK
<1>2. ServerCloses({accepted})
  BY <1>1, ServerClosed
<1>3. conns' \in Seq(Connection) /\ DOMAIN conns' = DOMAIN conns
  BY <1>2 DEF ServerCloses
<1> QED
  BY <1>1, <1>2, <1>3 DEF RejectConnection, TypeOK, senderVars, receiverVars, history

Backlog == {c \in DOMAIN conns : conns[c].server = "backlog"}

LEMMA TypeAcceptorEnds ==
  ASSUME TypeOK, AcceptorEnds
  PROVE  /\ TypeOK' /\ ServerCloses(Backlog)
         /\ lost' = lost \cup UNION {LinksIn(conns[c].frames) : c \in Backlog}
<1>1. ServerCloses(Backlog)
  BY BacklogClosed DEF Backlog
<1>2. conns' \in Seq(Connection) /\ DOMAIN conns' = DOMAIN conns
  BY <1>1 DEF ServerCloses
<1>3. lost' = lost \cup UNION {LinksIn(conns[c].frames) : c \in Backlog}
  BY DEF AcceptorEnds, Backlog
<1>4. lost' \in SUBSET Links
  <2>1. \A c \in Backlog : LinksIn(conns[c].frames) \in SUBSET Links
    BY LinksOnConnection DEF Backlog
  <2>2. UNION {LinksIn(conns[c].frames) : c \in Backlog} \in SUBSET Links
    BY <2>1
  <2> QED
    BY <1>3, <2>2 DEF TypeOK
<1>5. TypeOK'
  BY <1>2, <1>4 DEF AcceptorEnds, TypeOK, senderVars, receiverVars
<1> QED
  BY <1>1, <1>3, <1>5

LEMMA TypeReceiverReceives ==
  ASSUME TypeOK, ReceiverReceives
  PROVE  /\ TypeOK' /\ inFd \in DOMAIN conns
         /\ conns[inFd].frames # <<>> /\ FramesBecome(inFd, Tail(conns[inFd].frames))
         /\ processed' = [l \in Links |-> IF l \in Head(conns[inFd].frames)
                                          THEN processed[l] + 1 ELSE processed[l]]
<1>1. /\ inFd \in DOMAIN conns /\ conns[inFd].frames # <<>>
      /\ conns' = [conns EXCEPT ![inFd].frames = Tail(conns[inFd].frames)]
  BY DEF ReceiverReceives, FrameTaken, TypeOK
<1>2. Tail(conns[inFd].frames) \in Seq(SUBSET Links)
  BY <1>1, FieldsOf, TailFrames DEF TypeOK
<1>3. FramesBecome(inFd, Tail(conns[inFd].frames))
  BY <1>1, <1>2, FramesWritten
<1>4. conns' \in Seq(Connection) /\ DOMAIN conns' = DOMAIN conns
  BY <1>3 DEF FramesBecome
<1>5. processed' = [l \in Links |-> IF l \in Head(conns[inFd].frames)
                                    THEN processed[l] + 1 ELSE processed[l]]
  BY DEF ReceiverReceives
<1>6. processed' \in [Links -> Nat]
  BY <1>5 DEF TypeOK
<1>7. TypeOK'
  BY <1>1, <1>4, <1>6 DEF ReceiverReceives, TypeOK, senderVars, acceptVars
<1> QED
  BY <1>1, <1>3, <1>5, <1>7

LEMMA TypeReceiverCloses ==
  ASSUME TypeOK, ReceiverCloses
  PROVE  TypeOK' /\ inFd \in DOMAIN conns /\ ServerCloses({inFd})
<1>1. inFd \in DOMAIN conns /\ conns' = CloseServer(conns, inFd)
  BY DEF ReceiverCloses, TypeOK
<1>2. ServerCloses({inFd})
  BY <1>1, ServerClosed
<1>3. conns' \in Seq(Connection) /\ DOMAIN conns' = DOMAIN conns
  BY <1>2 DEF ServerCloses
<1>4. lost' \in SUBSET Links
  BY <1>1, LinksOnConnection DEF ReceiverCloses, TypeOK
<1> QED
  BY <1>1, <1>2, <1>3, <1>4 DEF ReceiverCloses, TypeOK, senderVars, acceptVars

LEMMA TypeStopPeerB ==
  ASSUME TypeOK, StopPeerB
  PROVE  /\ TypeOK' /\ PeerStopped
         /\ lost' = IF pendingFd = None THEN lost
                    ELSE lost \cup LinksIn(conns[pendingFd].frames)
<1>1. PeerStopped
  BY StoppedPeer
<1>2. conns' \in Seq(Connection) /\ DOMAIN conns' = DOMAIN conns
  BY <1>1 DEF PeerStopped
<1>3. lost' = IF pendingFd = None THEN lost ELSE lost \cup LinksIn(conns[pendingFd].frames)
  BY DEF StopPeerB
<1>4. lost' \in SUBSET Links
  BY <1>3, LinksOnConnection DEF TypeOK
<1>5. {stopA', crawling', stopB', stop'} \subseteq BOOLEAN
  BY DEF StopPeerB, TypeOK, senderVars
<1>6. TypeOK'
  BY <1>2, <1>4, <1>5 DEF StopPeerB, StopReceiver, Notified, TypeOK, senderVars, acceptVars
<1> QED
  BY <1>1, <1>3, <1>6

\* Next, step by step.
LEMMA Steps ==
  ASSUME [Next]_vars
  PROVE  \/ QuietStep \/ SenderEnds \/ SenderConnects \/ SenderCannotConnect
         \/ SenderSends \/ SenderCannotSend
         \/ \E c \in DOMAIN conns : Break(c) \/ Accept(c)
         \/ AcceptHandshake \/ RejectConnection \/ AcceptorEnds
         \/ ReceiverReceives \/ ReceiverCloses \/ StopPeerB
BY DEF Next, Sender, Acceptor, Receiver, QuietStep

LEMMA TypeNext ==
  ASSUME TypeOK, [Next]_vars
  PROVE  TypeOK'
BY Steps, TypeQuiet, TypeSenderEnds, TypeSenderCannotSend, TypeSenderConnects,
   TypeSenderCannotConnect, TypeSenderSends, TypeBreak, TypeAccept,
   TypeAcceptHandshake, TypeRejectConnection, TypeAcceptorEnds,
   TypeReceiverReceives, TypeReceiverCloses, TypeStopPeerB

\* Every variable of both machines and the network keeps its type.
THEOREM TypeCorrect == Spec => []TypeOK
<1>1. Init => TypeOK
  BY TypeInit
<1>2. TypeOK /\ [Next]_vars => TypeOK'
  BY TypeNext
<1> QED
  BY <1>1, <1>2, PTL DEF Spec

-----------------------------------------------------------------------------
(* The sender's hands and the receiver's sleep *)

\* Links come into the sender's hands only on the way to a connection.
LEMMA HandNext ==
  ASSUME HandInv, [Next]_vars
  PROVE  HandInv'
<1> USE DEF HandInv, senderVars
<1>1. CASE SenderTakes
  BY <1>1 DEF SenderTakes
<1>2. CASE SenderTests
  BY <1>2 DEF SenderTests
<1>3. CASE SenderWaits
  BY <1>3 DEF SenderWaits
<1>4. CASE SenderRetries
  BY <1>4 DEF SenderRetries
<1>5. CASE SenderGivesUp
  BY <1>5 DEF SenderGivesUp
<1>6. CASE ReceiverTakes
  BY <1>6 DEF ReceiverTakes
<1>7. CASE ReceiverTests
  BY <1>7 DEF ReceiverTests
<1>8. CASE ReceiverWaits
  BY <1>8 DEF ReceiverWaits
<1>9. CASE ReceiverEnds
  BY <1>9 DEF ReceiverEnds
<1>10. CASE ReceiverLoops
  BY <1>10 DEF ReceiverLoops
<1>11. CASE ReceiverLosesStream
  BY <1>11 DEF ReceiverLosesStream
<1>12. CASE ReceiverDetaches
  BY <1>12 DEF ReceiverDetaches
<1>13. CASE SignalA
  BY <1>13 DEF SignalA, Notified
<1>14. CASE JoinCrawlersA
  BY <1>14 DEF JoinCrawlersA, Notified
<1>15. CASE SignalB
  BY <1>15 DEF SignalB
<1>16. CASE SenderEnds
  BY <1>16 DEF SenderEnds
<1>17. CASE SenderConnects
  BY <1>17 DEF SenderConnects
<1>18. CASE SenderCannotConnect
  BY <1>18 DEF SenderCannotConnect
<1>19. CASE SenderSends
  BY <1>19 DEF SenderSends
<1>20. CASE SenderCannotSend
  BY <1>20 DEF SenderCannotSend
<1>21. CASE AcceptHandshake
  BY <1>21 DEF AcceptHandshake
<1>22. CASE RejectConnection
  BY <1>22 DEF RejectConnection
<1>23. CASE AcceptorEnds
  BY <1>23 DEF AcceptorEnds
<1>24. CASE ReceiverReceives
  BY <1>24 DEF ReceiverReceives
<1>25. CASE ReceiverCloses
  BY <1>25 DEF ReceiverCloses
<1>26. CASE StopPeerB
  BY <1>26 DEF StopPeerB
<1>27. ASSUME NEW l \in Links, AddLink(l)
       PROVE  HandInv'
  BY <1>27 DEF AddLink, Notified
<1>28. ASSUME NEW c \in DOMAIN conns, Break(c)
       PROVE  HandInv'
  BY <1>28 DEF Break
<1>29. ASSUME NEW c \in DOMAIN conns, Accept(c)
       PROVE  HandInv'
  BY <1>29 DEF Accept
<1>30. CASE UNCHANGED vars
  BY <1>30 DEF vars
<1> QED
  BY <1>1, <1>2, <1>3, <1>4, <1>5, <1>6, <1>7, <1>8, <1>9, <1>10, <1>11,
     <1>12, <1>13, <1>14, <1>15, <1>16, <1>17, <1>18, <1>19, <1>20, <1>21,
     <1>22, <1>23, <1>24, <1>25, <1>26, <1>27, <1>28, <1>29, <1>30, Steps
  DEF QuietStep

\* Nobody gives the receiver a connection or stops it between its test and its
\* wait, and whoever does either later wakes it.
LEMMA AwakeNext ==
  ASSUME ReceiverAwake, [Next]_vars
  PROVE  ReceiverAwake'
<1> USE DEF ReceiverAwake, receiverVars
<1>1. CASE SenderTakes
  BY <1>1 DEF SenderTakes
<1>2. CASE SenderTests
  BY <1>2 DEF SenderTests
<1>3. CASE SenderWaits
  BY <1>3 DEF SenderWaits
<1>4. CASE SenderRetries
  BY <1>4 DEF SenderRetries
<1>5. CASE SenderGivesUp
  BY <1>5 DEF SenderGivesUp
<1>6. CASE ReceiverTakes
  BY <1>6 DEF ReceiverTakes
<1>7. CASE ReceiverTests
  BY <1>7 DEF ReceiverTests
<1>8. CASE ReceiverWaits
  BY <1>8 DEF ReceiverWaits
<1>9. CASE ReceiverEnds
  BY <1>9 DEF ReceiverEnds
<1>10. CASE ReceiverLoops
  BY <1>10 DEF ReceiverLoops
<1>11. CASE ReceiverLosesStream
  BY <1>11 DEF ReceiverLosesStream
<1>12. CASE ReceiverDetaches
  BY <1>12 DEF ReceiverDetaches
<1>13. CASE SignalA
  BY <1>13 DEF SignalA
<1>14. CASE JoinCrawlersA
  BY <1>14 DEF JoinCrawlersA
<1>15. CASE SignalB
  BY <1>15 DEF SignalB, Notified
<1>16. CASE SenderEnds
  BY <1>16 DEF SenderEnds
<1>17. CASE SenderConnects
  BY <1>17 DEF SenderConnects
<1>18. CASE SenderCannotConnect
  BY <1>18 DEF SenderCannotConnect
<1>19. CASE SenderSends
  BY <1>19 DEF SenderSends
<1>20. CASE SenderCannotSend
  BY <1>20 DEF SenderCannotSend
<1>21. CASE AcceptHandshake
  BY <1>21 DEF AcceptHandshake, StateLockFree, Notified
<1>22. CASE RejectConnection
  BY <1>22 DEF RejectConnection
<1>23. CASE AcceptorEnds
  BY <1>23 DEF AcceptorEnds
<1>24. CASE ReceiverReceives
  BY <1>24 DEF ReceiverReceives
<1>25. CASE ReceiverCloses
  BY <1>25 DEF ReceiverCloses
<1>26. CASE StopPeerB
  BY <1>26 DEF StopPeerB, StateLockFree, StopReceiver, Notified
<1>27. ASSUME NEW l \in Links, AddLink(l)
       PROVE  ReceiverAwake'
  BY <1>27 DEF AddLink
<1>28. ASSUME NEW c \in DOMAIN conns, Break(c)
       PROVE  ReceiverAwake'
  BY <1>28 DEF Break
<1>29. ASSUME NEW c \in DOMAIN conns, Accept(c)
       PROVE  ReceiverAwake'
  BY <1>29 DEF Accept
<1>30. CASE UNCHANGED vars
  BY <1>30 DEF vars
<1> QED
  BY <1>1, <1>2, <1>3, <1>4, <1>5, <1>6, <1>7, <1>8, <1>9, <1>10, <1>11,
     <1>12, <1>13, <1>14, <1>15, <1>16, <1>17, <1>18, <1>19, <1>20, <1>21,
     <1>22, <1>23, <1>24, <1>25, <1>26, <1>27, <1>28, <1>29, <1>30, Steps
  DEF QuietStep

-----------------------------------------------------------------------------
(* The steps that leave the connections alone, summed up *)

\* What may become of the links that machine A holds: nothing, or the sender
\* takes the batch, gives it back, or a crawler adds a link.
LinksAtA ==
  \/ UNCHANGED <<batch, readyBatch>>
  \/ readyBatch = {} /\ readyBatch' = batch /\ batch' = {}
  \/ batch' = batch \cup readyBatch /\ readyBatch' = {}
  \/ \E l \in Links : ~Found(l) /\ batch' = batch \cup {l} /\ readyBatch' = readyBatch

\* A quiet step moves connections from pending to the receiver and drops them.
LEMMA QuietEffect ==
  ASSUME HandInv, QuietStep
  PROVE  /\ UNCHANGED <<conns, acceptor, accepted, outFd, breaks, processed, lost, stop>>
         /\ pendingFd' \in {pendingFd, None} /\ inFd' \in {inFd, pendingFd, None}
         /\ stopB => stopB'
         /\ sender = "exited" => sender' = "exited"
         /\ receiver' = "close" =>
              inFd' = inFd /\ (receiver = "close" \/ AtEnd(inFd) \/ stopB)
         /\ LinksAtA
<1> USE DEF HandInv, LinksAtA, senderVars, acceptVars, receiverVars, history
<1>1. CASE SenderTakes
  BY <1>1 DEF SenderTakes
<1>2. CASE SenderTests
  BY <1>2 DEF SenderTests
<1>3. CASE SenderWaits
  BY <1>3 DEF SenderWaits
<1>4. CASE SenderRetries
  BY <1>4 DEF SenderRetries
<1>5. CASE SenderGivesUp
  BY <1>5 DEF SenderGivesUp, ReturnBatch
<1>6. CASE ReceiverTakes
  BY <1>6 DEF ReceiverTakes
<1>7. CASE ReceiverTests
  BY <1>7 DEF ReceiverTests
<1>8. CASE ReceiverWaits
  BY <1>8 DEF ReceiverWaits
<1>9. CASE ReceiverEnds
  BY <1>9 DEF ReceiverEnds
<1>10. CASE ReceiverLoops
  BY <1>10 DEF ReceiverLoops
<1>11. CASE ReceiverLosesStream
  BY <1>11 DEF ReceiverLosesStream
<1>12. CASE ReceiverDetaches
  BY <1>12 DEF ReceiverDetaches
<1>13. CASE SignalA
  BY <1>13 DEF SignalA, Notified
<1>14. CASE JoinCrawlersA
  BY <1>14 DEF JoinCrawlersA, Notified
<1>15. CASE SignalB
  BY <1>15 DEF SignalB, Notified
<1>16. CASE \E l \in Links : AddLink(l)
  BY <1>16 DEF AddLink, Notified
<1>17. CASE UNCHANGED vars
  BY <1>17 DEF vars
<1> QED
  BY <1>1, <1>2, <1>3, <1>4, <1>5, <1>6, <1>7, <1>8, <1>9, <1>10, <1>11, <1>12,
     <1>13, <1>14, <1>15, <1>16, <1>17 DEF QuietStep

-----------------------------------------------------------------------------
(* The roles of the connections *)

LEMMA RolesNext ==
  ASSUME TypeOK, HandInv, RolesInv, [Next]_vars
  PROVE  RolesInv'
<1>0. /\ TypeOK' /\ conns \in Seq(Connection) /\ DOMAIN conns = 1..Len(conns)
      /\ Len(conns) \in Nat /\ None \notin DOMAIN conns
      /\ accepted # None => accepted \in DOMAIN conns
      /\ pendingFd # None => pendingFd \in DOMAIN conns
      /\ inFd # None => inFd \in DOMAIN conns
  BY TypeNext, NoneAssumption DEF TypeOK
<1>1. CASE QuietStep
  <2>1. /\ UNCHANGED <<conns, accepted>>
        /\ pendingFd' \in {pendingFd, None} /\ inFd' \in {inFd, pendingFd, None}
    BY <1>1, QuietEffect
  <2> QED
    BY <2>1 DEF RolesInv, Unread, Dead
<1>2. ASSUME UNCHANGED <<accepted, pendingFd, inFd>>,
             NEW c, UNCHANGED conns \/ ClientCloses(c)
      PROVE  RolesInv'
  <2>1. CASE UNCHANGED conns
    BY <1>2, <2>1 DEF RolesInv, Unread, Dead
  <2>2. CASE ClientCloses(c)
    BY <1>0, <1>2, <2>2 DEF RolesInv, Unread, Dead, ClientCloses
  <2> QED
    BY <1>2, <2>1, <2>2
<1>3. CASE SenderEnds
  BY <1>2, <1>3, TypeSenderEnds DEF SenderEnds, acceptVars, receiverVars
<1>4. CASE SenderCannotSend
  BY <1>2, <1>4, TypeSenderCannotSend DEF SenderCannotSend, acceptVars, receiverVars
<1>5. ASSUME UNCHANGED <<accepted, pendingFd, inFd>>,
             NEW new \in {Fresh, StillBorn}, Connects(new)
      PROVE  RolesInv'
  <2>1. /\ new.server = "backlog"
        /\ new.frames = <<>> => new.broken
        /\ new.frames # <<>> => new.frames[1] = Handshake
    BY <1>5 DEF Fresh, StillBorn
  <2>2. /\ \A d \in DOMAIN conns : conns'[d] = conns[d]
        /\ \A d \in DOMAIN conns' : d \in DOMAIN conns \/ conns'[d] = new
    BY <1>5 DEF Connects
  <2> QED
    BY <1>0, <1>5, <2>1, <2>2 DEF RolesInv, Unread, Dead
<1>6. CASE SenderConnects
  BY <1>2, <1>5, <1>6, TypeSenderConnects DEF SenderConnects, acceptVars, receiverVars
<1>7. CASE SenderCannotConnect
  BY <1>2, <1>5, <1>7, TypeSenderCannotConnect
  DEF SenderCannotConnect, acceptVars, receiverVars
<1>8. CASE SenderSends
  <2>1. UNCHANGED <<accepted, pendingFd, inFd>>
    BY <1>8 DEF SenderSends, acceptVars, receiverVars
  <2>2. CASE UNCHANGED conns
    BY <1>2, <2>1, <2>2
  <2>3. CASE ~Dead(outFd) /\ FramesBecome(outFd, Append(conns[outFd].frames, readyBatch))
    <3> DEFINE s == conns[outFd].frames
               f == Append(s, readyBatch)
    <3>1. s \in Seq(SUBSET Links) /\ outFd \in DOMAIN conns
      BY <1>8, FieldsOf, TypeSenderSends DEF TypeOK
    <3>2. f # <<>> /\ (s # <<>> => f[1] = s[1])
      <4>1. Len(s) \in Nat /\ Len(f) = Len(s) + 1 /\ (s # <<>> => Len(s) >= 1)
        BY <3>1
      <4>2. \A j \in 1..Len(s) : f[j] = s[j]
        BY <3>1
      <4> HIDE DEF f
      <4> QED
        BY <4>1, <4>2
    <3>3. conns[outFd].server # "closed" /\ ~conns[outFd].broken
      BY <2>3 DEF Dead
    <3>4. Unread(outFd) => s # <<>> /\ s[1] = Handshake
      BY <2>3, <3>1 DEF RolesInv
    <3> HIDE DEF f
    <3>5. ASSUME NEW d \in DOMAIN conns
          PROVE  /\ conns'[d].server = conns[d].server
                 /\ conns'[d].broken = conns[d].broken
                 /\ d # outFd => conns'[d].frames = conns[d].frames
                 /\ d = outFd => conns'[d].frames = f
      BY <2>3 DEF FramesBecome, f
    <3>6. DOMAIN conns' = DOMAIN conns
      BY <2>3 DEF FramesBecome
    <3> QED
      BY <1>0, <2>1, <3>1, <3>2, <3>3, <3>4, <3>5, <3>6 DEF RolesInv, Unread, Dead
  <2> QED
    BY <1>8, <2>2, <2>3, TypeSenderSends
<1>9. ASSUME NEW c \in DOMAIN conns, Break(c)
      PROVE  RolesInv'
  <2>1. PICK k \in 0..Len(conns[c].frames) : Breaks(c, k)
    BY <1>9, TypeBreak
  <2> DEFINE s == conns[c].frames
             a == SubSeq(s, 1, k)
  <2>2. a # <<>> => s # <<>> /\ a[1] = s[1]
    BY FieldsOf, CutFrames DEF TypeOK
  <2>3. conns[c].server # "closed" /\ UNCHANGED <<accepted, pendingFd, inFd>>
    BY <1>9 DEF Break, acceptVars, receiverVars
  <2> HIDE DEF a
  <2>4. ASSUME NEW d \in DOMAIN conns
        PROVE  /\ conns'[d].server = conns[d].server
               /\ conns'[d].broken = (d = c \/ conns[d].broken)
               /\ d # c => conns'[d].frames = conns[d].frames
               /\ d = c => conns'[d].frames = a
    BY <2>1 DEF Breaks, a
  <2>5. DOMAIN conns' = DOMAIN conns
    BY <2>1 DEF Breaks
  <2>6. ASSUME NEW d \in DOMAIN conns
        PROVE  /\ conns'[d].server = "closed" => conns'[d].frames = <<>>
               /\ Unread(d)' => IF conns'[d].frames = <<>> THEN Dead(d)'
                               ELSE conns'[d].frames[1] = Handshake
    <3>1. CASE d = c
      BY <2>2, <2>3, <2>4, <3>1 DEF RolesInv, Unread, Dead
    <3>2. CASE d # c
      BY <2>3, <2>4, <3>2 DEF RolesInv, Unread, Dead
    <3> QED
      BY <3>1, <3>2
  <2> QED
    BY <1>0, <2>3, <2>4, <2>5, <2>6 DEF RolesInv, Unread
<1>10. ASSUME NEW c \in DOMAIN conns, Accept(c)
       PROVE  RolesInv'
  <2>1. /\ ServerOpens(c) /\ conns[c].server = "backlog" /\ accepted' = c
        /\ UNCHANGED <<pendingFd, inFd>>
    BY <1>10, TypeAccept DEF Accept, receiverVars
  <2> QED
    BY <1>0, <2>1 DEF RolesInv, Unread, Dead, ServerOpens
<1>11. CASE AcceptHandshake
  <2>1. /\ HandshakeRead /\ pendingFd' = accepted /\ accepted' = None /\ inFd' = inFd
        /\ accepted \in DOMAIN conns
    BY <1>11, TypeAcceptHandshake DEF AcceptHandshake
  <2>2. DOMAIN conns' = DOMAIN conns
    BY <2>1 DEF HandshakeRead
  <2>3. ASSUME NEW d \in DOMAIN conns
        PROVE  /\ conns'[d].broken = conns[d].broken
               /\ conns'[d].server = IF d = pendingFd THEN "closed" ELSE conns[d].server
               /\ d = pendingFd => conns'[d].frames = <<>>
               /\ d # pendingFd /\ d # accepted => conns'[d].frames = conns[d].frames
    BY <2>1 DEF HandshakeRead
  <2>4. ASSUME NEW d \in DOMAIN conns
        PROVE  /\ conns'[d].server = "closed" => conns'[d].frames = <<>>
               /\ Unread(d)' => IF conns'[d].frames = <<>> THEN Dead(d)'
                               ELSE conns'[d].frames[1] = Handshake
    <3>1. CASE d = pendingFd
      BY <1>0, <2>1, <2>3, <3>1 DEF RolesInv, Unread, Dead
    <3>2. CASE d = accepted /\ d # pendingFd
      <4>1. conns[d].server # "backlog" /\ ~Unread(d)'
        BY <1>0, <2>1, <2>3, <3>2 DEF RolesInv, Unread
      <4>2. conns[d].frames = <<>> => conns'[d].frames = <<>>
        <5>1. conns'[d].frames = Tail(conns[d].frames)
          BY <2>1, <3>2 DEF HandshakeRead
        <5> QED
          BY <5>1
      <4> QED
        BY <2>3, <3>2, <4>1, <4>2 DEF RolesInv
    <3>3. CASE d # accepted /\ d # pendingFd
      BY <1>0, <2>1, <2>3, <3>3 DEF RolesInv, Unread, Dead
    <3> QED
      BY <3>1, <3>2, <3>3
  <2> QED
    BY <1>0, <2>1, <2>2, <2>3, <2>4 DEF RolesInv, Unread
<1>12. ASSUME NEW C, ServerCloses(C), accepted' \in {accepted, None},
              UNCHANGED <<pendingFd, inFd>>
       PROVE  RolesInv'
  BY <1>0, <1>12 DEF RolesInv, Unread, Dead, ServerCloses
<1>13. CASE RejectConnection
  BY <1>12, <1>13, TypeRejectConnection DEF RejectConnection, receiverVars
<1>14. CASE AcceptorEnds
  BY <1>12, <1>14, TypeAcceptorEnds DEF AcceptorEnds, receiverVars
<1>15. CASE ReceiverReceives
  <2>1. /\ inFd \in DOMAIN conns /\ conns[inFd].frames # <<>>
        /\ FramesBecome(inFd, Tail(conns[inFd].frames))
        /\ UNCHANGED <<accepted, pendingFd, inFd>>
    BY <1>15, TypeReceiverReceives DEF ReceiverReceives, acceptVars
  <2>2. /\ DOMAIN conns' = DOMAIN conns
        /\ \A d \in DOMAIN conns :
             /\ conns'[d].server = conns[d].server /\ conns'[d].broken = conns[d].broken
             /\ d # inFd => conns'[d].frames = conns[d].frames
    BY <2>1 DEF FramesBecome
  <2>3. conns[inFd].server # "closed" /\ ~Unread(inFd)
    BY <1>0, <2>1 DEF RolesInv
  <2>4. \A d \in DOMAIN conns : (Unread(d)' <=> Unread(d)) /\ (Dead(d)' <=> Dead(d))
    BY <2>1, <2>2 DEF Unread, Dead
  <2>5. ASSUME NEW d \in DOMAIN conns
        PROVE  /\ conns'[d].server = "closed" => conns'[d].frames = <<>>
               /\ Unread(d)' => IF conns'[d].frames = <<>> THEN Dead(d)'
                               ELSE conns'[d].frames[1] = Handshake
    BY <1>0, <2>2, <2>3, <2>4 DEF RolesInv
  <2>6. /\ accepted' # None => conns'[accepted'].server # "backlog"
        /\ pendingFd' # None => ~Unread(pendingFd)'
        /\ inFd' # None => ~Unread(inFd)'
    BY <1>0, <2>1, <2>2 DEF RolesInv, Unread
  <2> QED
    BY <2>2, <2>5, <2>6 DEF RolesInv
<1>16. CASE ReceiverCloses
  BY <1>12, <1>16, TypeReceiverCloses DEF ReceiverCloses, acceptVars
<1>17. CASE StopPeerB
  <2>1. PeerStopped /\ pendingFd' = None /\ UNCHANGED <<accepted, inFd>>
    BY <1>17, TypeStopPeerB DEF StopPeerB, acceptVars
  <2>2. /\ DOMAIN conns' = DOMAIN conns
        /\ \A d \in DOMAIN conns :
             /\ conns[d].broken => conns'[d].broken
             /\ d = pendingFd => conns'[d].server = "closed" /\ conns'[d].frames = <<>>
             /\ d # pendingFd =>
                  conns'[d].server = conns[d].server /\ conns'[d].frames = conns[d].frames
    BY <2>1 DEF PeerStopped
  <2>3. ASSUME NEW d \in DOMAIN conns
        PROVE  /\ conns'[d].server = "closed" => conns'[d].frames = <<>>
               /\ Unread(d)' => IF conns'[d].frames = <<>> THEN Dead(d)'
                               ELSE conns'[d].frames[1] = Handshake
    <3>1. CASE d = pendingFd
      BY <2>2, <3>1 DEF Unread, Dead
    <3>2. CASE d # pendingFd
      <4>1. (Unread(d)' <=> Unread(d)) /\ (Dead(d) => Dead(d)')
        BY <2>1, <2>2, <3>2 DEF Unread, Dead
      <4> QED
        BY <1>0, <2>2, <3>2, <4>1 DEF RolesInv
    <3> QED
      BY <3>1, <3>2
  <2>4. accepted' # None => conns'[accepted'].server # "backlog"
    BY <1>0, <2>1, <2>2 DEF RolesInv
  <2>5. inFd' # None => ~Unread(inFd)'
    BY <1>0, <2>1, <2>2 DEF RolesInv, Unread
  <2> QED
    BY <2>1, <2>2, <2>3, <2>4, <2>5 DEF RolesInv
<1> QED
  BY <1>1, <1>3, <1>4, <1>6, <1>7, <1>8, <1>9, <1>10, <1>11, <1>13, <1>14,
     <1>15, <1>16, <1>17, Steps

-----------------------------------------------------------------------------
(* Copies of a link *)

\* A step under which connections only lose frames keeps l single if what it
\* counts as lost or processed was on the way and is not any more.
LEMMA OnlyThinned ==
  ASSUME NEW l \in Links, OneCopy(l), UNCHANGED <<batch, readyBatch>>,
         \A c \in DOMAIN conns' : In(l, conns'[c].frames) =>
           /\ c \in DOMAIN conns /\ In(l, conns[c].frames)
           /\ Once(l, conns'[c].frames),
         l \in lost' => l \in lost \/ (OnTheWay(l) /\ ~OnTheWay(l)'),
         \/ processed'[l] = processed[l]
         \/ /\ processed'[l] = processed[l] + 1 /\ lost' = lost
            /\ OnTheWay(l) /\ ~OnTheWay(l)'
  PROVE  OneCopy(l)'
<1>1. OnTheWay(l)' => OnTheWay(l)
  BY DEF OnTheWay
<1>2. \A c \in DOMAIN conns' : Once(l, conns'[c].frames)
  BY DEF In, Once
<1>3. \A c, d \in DOMAIN conns' :
        In(l, conns'[c].frames) /\ In(l, conns'[d].frames) => c = d
  BY DEF OneCopy
<1>4. l \in lost' => l \in lost \/ (OnTheWay(l) /\ ~OnTheWay(l)')
  OBVIOUS
<1>5. CASE processed'[l] = processed[l]
  BY <1>1, <1>2, <1>3, <1>4, <1>5 DEF OneCopy
<1>6. CASE /\ processed'[l] = processed[l] + 1 /\ lost' = lost
           /\ OnTheWay(l) /\ ~OnTheWay(l)'
  BY <1>1, <1>2, <1>3, <1>6 DEF OneCopy
<1> QED
  BY <1>5, <1>6

\* If no connection with l changes its frames, l keeps its place.
LEMMA SameFrames ==
  ASSUME NEW l \in Links, OneCopy(l), UNCHANGED <<batch, readyBatch, lost, processed>>,
         \A c \in DOMAIN conns' : \/ conns'[c].frames \in {<<>>, <<Handshake>>}
                                  \/ c \in DOMAIN conns /\ conns'[c].frames = conns[c].frames
  PROVE  OneCopy(l)'
<1>1. ~In(l, <<>>) /\ ~In(l, <<Handshake>>)
  BY DEF In, Handshake
<1>2. \A c \in DOMAIN conns' : In(l, conns'[c].frames) =>
        /\ c \in DOMAIN conns /\ In(l, conns[c].frames)
        /\ Once(l, conns'[c].frames)
  BY <1>1 DEF OneCopy
<1> QED
  BY <1>2, OnlyThinned

\* What B closes goes from the connections to the lost links.
LEMMA ClosedToLost ==
  ASSUME NEW l \in Links, OneCopy(l), UNCHANGED <<batch, readyBatch, processed>>,
         NEW C \in SUBSET DOMAIN conns, DOMAIN conns' = DOMAIN conns,
         \A c \in DOMAIN conns :
           IF c \in C THEN conns'[c].frames = <<>>
           ELSE In(l, conns'[c].frames) =>
                  In(l, conns[c].frames) /\ Once(l, conns'[c].frames),
         l \in lost' => l \in lost \/ \E c \in C : In(l, conns[c].frames)
  PROVE  OneCopy(l)'
<1>1. \A c \in DOMAIN conns' : In(l, conns'[c].frames) =>
        /\ c \in DOMAIN conns /\ c \notin C /\ In(l, conns[c].frames)
        /\ Once(l, conns'[c].frames)
  BY NoFrames
<1>2. ASSUME NEW c \in C, In(l, conns[c].frames)
      PROVE  OnTheWay(l) /\ ~OnTheWay(l)'
  BY <1>1, <1>2 DEF OneCopy, OnTheWay
<1>3. l \in lost' => l \in lost \/ (OnTheWay(l) /\ ~OnTheWay(l)')
  BY <1>2
<1> QED
  BY <1>1, <1>3, OnlyThinned

\* The steps of A that leave the network alone.
LEMMA CopiesQuiet ==
  ASSUME TypeOK, HandInv, QuietStep, NEW l \in Links, OneCopy(l)
  PROVE  OneCopy(l)'
<1>1. UNCHANGED <<conns, processed, lost>> /\ LinksAtA
  BY QuietEffect
<1>2. OnTheWay(l)' <=> OnTheWay(l)
  BY <1>1 DEF OnTheWay
<1>3. CASE UNCHANGED <<batch, readyBatch>>
  BY <1>1, <1>2, <1>3 DEF OneCopy
<1>4. CASE readyBatch = {} /\ readyBatch' = batch /\ batch' = {}
  BY <1>1, <1>2, <1>4 DEF OneCopy
<1>5. CASE batch' = batch \cup readyBatch /\ readyBatch' = {}
  BY <1>1, <1>2, <1>5 DEF OneCopy
<1>6. ASSUME NEW m \in Links, ~Found(m), batch' = batch \cup {m}, readyBatch' = readyBatch
      PROVE  OneCopy(l)'
  <2>1. CASE l = m
    <3>1. ~OnTheWay(l) /\ l \notin batch \cup readyBatch \cup lost /\ ~(processed[l] > 0)
      BY <1>6, <2>1, LinksAreIn, FieldsOf DEF Found, OnTheWay, TypeOK
    <3>2. processed[l] = 0
      BY <3>1 DEF TypeOK
    <3> QED
      BY <1>1, <1>2, <1>6, <3>1, <3>2 DEF OneCopy
  <2>2. CASE l # m
    <3>1. (l \in batch' <=> l \in batch) /\ readyBatch' = readyBatch
      BY <1>6, <2>2
    <3> QED
      BY <1>1, <1>2, <3>1 DEF OneCopy
  <2> QED
    BY <2>1, <2>2
<1> QED
  BY <1>1, <1>3, <1>4, <1>5, <1>6 DEF LinksAtA

\* The sender's batch becomes a frame, or is lost with a dead connection.
LEMMA CopiesSenderSends ==
  ASSUME TypeOK, SenderSends, NEW l \in Links, OneCopy(l)
  PROVE  OneCopy(l)'
<1>1. /\ outFd \in DOMAIN conns /\ readyBatch' = {}
      /\ UNCHANGED <<batch, processed>>
  BY TypeSenderSends DEF SenderSends, SentBatch
<1>2. CASE Dead(outFd) /\ lost' = lost \cup readyBatch /\ UNCHANGED conns
  BY <1>1, <1>2 DEF OneCopy, OnTheWay
<1>3. CASE /\ UNCHANGED lost
           /\ FramesBecome(outFd, Append(conns[outFd].frames, readyBatch))
  <2> DEFINE s == conns[outFd].frames
             f == Append(s, readyBatch)
  <2>1. /\ In(l, f) <=> In(l, s) \/ l \in readyBatch
        /\ Once(l, s) /\ ~(In(l, s) /\ l \in readyBatch) => Once(l, f)
    BY <1>1, FieldsOf, AppendFrame DEF TypeOK
  <2> HIDE DEF f
  <2>2. DOMAIN conns' = DOMAIN conns
    BY <1>3 DEF FramesBecome
  <2>3. ASSUME NEW c \in DOMAIN conns
        PROVE  /\ c # outFd => conns'[c].frames = conns[c].frames
               /\ c = outFd => conns'[c].frames = f
    BY <1>3 DEF FramesBecome, f
  <2>4. OnTheWay(l)' <=> OnTheWay(l) \/ l \in readyBatch
    BY <1>1, <2>1, <2>2, <2>3 DEF OnTheWay
  <2>5. In(l, s) => OnTheWay(l)
    BY <1>1 DEF OnTheWay
  <2>6. \A c \in DOMAIN conns' : Once(l, conns'[c].frames)
    BY <1>1, <2>1, <2>2, <2>3, <2>5 DEF OneCopy
  <2>7. ASSUME NEW c \in DOMAIN conns', NEW d \in DOMAIN conns',
               In(l, conns'[c].frames), In(l, conns'[d].frames)
        PROVE  c = d
    <3>1. CASE l \in readyBatch
      <4>1. ~OnTheWay(l)
        BY <3>1 DEF OneCopy
      <4> QED
        BY <2>2, <2>3, <2>7, <4>1 DEF OnTheWay
    <3>2. CASE l \notin readyBatch
      BY <2>1, <2>2, <2>3, <2>7, <3>2 DEF OneCopy
    <3> QED
      BY <3>1, <3>2
  <2> QED
    BY <1>1, <1>3, <2>4, <2>6, <2>7 DEF OneCopy
<1> QED
  BY <1>2, <1>3, TypeSenderSends

\* What a break cuts off is lost.
LEMMA CopiesBreak ==
  ASSUME TypeOK, NEW c \in DOMAIN conns, Break(c), NEW l \in Links, OneCopy(l)
  PROVE  OneCopy(l)'
<1> DEFINE s == conns[c].frames
<1>1. PICK k \in 0..Len(s) :
        /\ Breaks(c, k)
        /\ lost' = lost \cup LinksIn(SubSeq(s, k + 1, Len(s)))
  BY TypeBreak
<1> DEFINE a == SubSeq(s, 1, k)
           b == SubSeq(s, k + 1, Len(s))
<1>2. s \in Seq(SUBSET Links) /\ s = conns[c].frames
  BY FieldsOf DEF TypeOK
<1>3. /\ In(l, s) <=> In(l, a) \/ In(l, b)
      /\ Once(l, s) => Once(l, a) /\ ~(In(l, a) /\ In(l, b))
      /\ b \in Seq(SUBSET Links)
  BY <1>2, CutFrames
<1>4. /\ DOMAIN conns' = DOMAIN conns /\ conns'[c].frames = a
      /\ \A d \in DOMAIN conns : d # c => conns'[d].frames = conns[d].frames
  BY <1>1 DEF Breaks
<1>5. lost' = lost \cup LinksIn(b)
  BY <1>1
<1> HIDE DEF a, b, s
<1>6. l \in LinksIn(b) <=> In(l, b)
  BY <1>3, LinksAreIn
<1>7. Once(l, s)
  BY <1>2 DEF OneCopy
<1>8. \A d \in DOMAIN conns' : In(l, conns'[d].frames) =>
        /\ d \in DOMAIN conns /\ In(l, conns[d].frames)
        /\ Once(l, conns'[d].frames)
  BY <1>2, <1>3, <1>4, <1>7 DEF OneCopy
<1>9. In(l, b) => OnTheWay(l) /\ ~OnTheWay(l)'
  <2>1. In(l, b) => In(l, s) /\ ~In(l, a)
    BY <1>3, <1>7
  <2>2. ASSUME In(l, b), NEW d \in DOMAIN conns
        PROVE  ~In(l, conns'[d].frames)
    BY <1>2, <1>4, <2>1, <2>2 DEF OneCopy
  <2> QED
    BY <1>2, <1>4, <2>1, <2>2 DEF OnTheWay
<1>10. UNCHANGED <<batch, readyBatch, processed>>
  BY DEF Break, senderVars
<1> QED
  BY <1>5, <1>6, <1>8, <1>9, <1>10, OnlyThinned

\* A frame that B takes is processed.
LEMMA CopiesReceiverReceives ==
  ASSUME TypeOK, ReceiverReceives, NEW l \in Links, OneCopy(l)
  PROVE  OneCopy(l)'
<1> DEFINE s == conns[inFd].frames
           t == Tail(s)
<1>1. /\ inFd \in DOMAIN conns /\ s # <<>> /\ FramesBecome(inFd, t)
      /\ processed' = [m \in Links |-> IF m \in Head(s) THEN processed[m] + 1 ELSE processed[m]]
  BY TypeReceiverReceives
<1>2. s \in Seq(SUBSET Links) /\ s = conns[inFd].frames
  BY <1>1, FieldsOf DEF TypeOK
<1>3. /\ In(l, s) <=> In(l, t) \/ l \in Head(s)
      /\ Once(l, s) => Once(l, t) /\ ~(In(l, t) /\ l \in Head(s))
  BY <1>1, <1>2, TailFrames
<1>4. /\ DOMAIN conns' = DOMAIN conns /\ conns'[inFd].frames = t
      /\ \A d \in DOMAIN conns : d # inFd => conns'[d].frames = conns[d].frames
  BY <1>1 DEF FramesBecome
<1> HIDE DEF s, t
<1>5. Once(l, s)
  BY <1>1, <1>2 DEF OneCopy
<1>6. \A d \in DOMAIN conns' : In(l, conns'[d].frames) =>
        /\ d \in DOMAIN conns /\ In(l, conns[d].frames)
        /\ Once(l, conns'[d].frames)
  BY <1>2, <1>3, <1>4, <1>5 DEF OneCopy
<1>7. l \in Head(s) => OnTheWay(l) /\ ~OnTheWay(l)'
  <2>1. l \in Head(s) => In(l, s) /\ ~In(l, t)
    BY <1>3, <1>5
  <2>2. ASSUME l \in Head(s), NEW d \in DOMAIN conns
        PROVE  ~In(l, conns'[d].frames)
    BY <1>1, <1>2, <1>4, <2>1, <2>2 DEF OneCopy
  <2> QED
    BY <1>1, <1>2, <1>4, <2>1, <2>2 DEF OnTheWay
<1>8. UNCHANGED <<batch, readyBatch, lost>>
  BY DEF ReceiverReceives, senderVars
<1>9. processed'[l] = IF l \in Head(s) THEN processed[l] + 1 ELSE processed[l]
  BY <1>1
<1> QED
  BY <1>6, <1>7, <1>8, <1>9, OnlyThinned

\* A link keeps having one copy.
LEMMA CopiesNext ==
  ASSUME TypeOK, HandInv, CopiesInv, [Next]_vars
  PROVE  CopiesInv'
<1> SUFFICES ASSUME NEW l \in Links
             PROVE  OneCopy(l)'
  BY DEF CopiesInv
<1>0. /\ OneCopy(l) /\ None \notin DOMAIN conns
      /\ pendingFd # None => pendingFd \in DOMAIN conns
  BY NoneAssumption DEF CopiesInv, TypeOK
<1>1. ASSUME NEW c \in DOMAIN conns
      PROVE  l \in LinksIn(conns[c].frames) <=> In(l, conns[c].frames)
  BY FieldsOf, LinksAreIn DEF TypeOK
<1>2. CASE QuietStep
  BY <1>0, <1>2, CopiesQuiet
<1>3. CASE SenderEnds
  <2>1. \A c \in DOMAIN conns' : c \in DOMAIN conns /\ conns'[c].frames = conns[c].frames
    BY <1>3, TypeSenderEnds DEF ClientCloses
  <2> QED
    BY <1>0, <1>3, <2>1, SameFrames DEF SenderEnds, history
<1>4. CASE SenderCannotSend
  <2>1. \A c \in DOMAIN conns' : c \in DOMAIN conns /\ conns'[c].frames = conns[c].frames
    BY <1>4, TypeSenderCannotSend DEF ClientCloses
  <2> QED
    BY <1>0, <1>4, <2>1, SameFrames DEF SenderCannotSend, history
<1>5. ASSUME NEW new \in {Fresh, StillBorn}, Connects(new),
             UNCHANGED <<batch, readyBatch, lost, processed>>
      PROVE  OneCopy(l)'
  <2>1. new.frames \in {<<>>, <<Handshake>>}
    BY DEF Fresh, StillBorn
  <2>2. \A c \in DOMAIN conns' : \/ conns'[c].frames \in {<<>>, <<Handshake>>}
                                 \/ c \in DOMAIN conns /\ conns'[c].frames = conns[c].frames
    BY <1>5, <2>1 DEF Connects
  <2> QED
    BY <1>0, <1>5, <2>2, SameFrames
<1>6. CASE SenderConnects
  <2>1. UNCHANGED <<batch, readyBatch, lost, processed>>
    BY <1>6 DEF SenderConnects, history
  <2>2. CASE UNCHANGED conns
    BY <1>0, <2>1, <2>2 DEF OneCopy, OnTheWay
  <2> QED
    BY <1>5, <1>6, <2>1, <2>2, TypeSenderConnects
<1>7. CASE SenderCannotConnect
  <2>1. UNCHANGED <<batch, readyBatch, lost, processed>>
    BY <1>7 DEF SenderCannotConnect, history
  <2>2. CASE UNCHANGED conns
    BY <1>0, <2>1, <2>2 DEF OneCopy, OnTheWay
  <2> QED
    BY <1>5, <1>7, <2>1, <2>2, TypeSenderCannotConnect
<1>8. CASE SenderSends
  BY <1>0, <1>8, CopiesSenderSends
<1>9. ASSUME NEW c \in DOMAIN conns, Break(c)
      PROVE  OneCopy(l)'
  BY <1>0, <1>9, CopiesBreak
<1>10. ASSUME NEW c \in DOMAIN conns, Accept(c)
       PROVE  OneCopy(l)'
  <2>1. \A d \in DOMAIN conns' : d \in DOMAIN conns /\ conns'[d].frames = conns[d].frames
    BY <1>10, TypeAccept DEF ServerOpens
  <2> QED
    BY <1>0, <1>10, <2>1, SameFrames DEF Accept, senderVars, history
<1>11. ASSUME NEW C \in SUBSET DOMAIN conns, ServerCloses(C),
              UNCHANGED <<batch, readyBatch, processed>>,
              l \in lost' => l \in lost \/ \E c \in C : In(l, conns[c].frames)
       PROVE  OneCopy(l)'
  <2>1. /\ DOMAIN conns' = DOMAIN conns
        /\ \A c \in DOMAIN conns :
             IF c \in C THEN conns'[c].frames = <<>>
             ELSE In(l, conns'[c].frames) =>
                    In(l, conns[c].frames) /\ Once(l, conns'[c].frames)
    BY <1>0, <1>11 DEF ServerCloses, OneCopy
  <2> QED
    BY <1>0, <1>11, <2>1, ClosedToLost
<1>12. CASE RejectConnection
  BY <1>11, <1>12, TypeRejectConnection DEF RejectConnection, senderVars, history
<1>13. CASE AcceptorEnds
  <2>1. Backlog \subseteq DOMAIN conns /\ UNCHANGED <<batch, readyBatch, processed>>
    BY <1>13 DEF Backlog, AcceptorEnds, senderVars
  <2>2. l \in lost' => l \in lost \/ \E c \in Backlog : In(l, conns[c].frames)
    BY <1>1, <1>13, <2>1, TypeAcceptorEnds
  <2> QED
    BY <1>11, <1>13, <2>1, <2>2, TypeAcceptorEnds
<1>14. CASE ReceiverReceives
  BY <1>0, <1>14, CopiesReceiverReceives
<1>15. CASE ReceiverCloses
  BY <1>1, <1>11, <1>15, TypeReceiverCloses DEF ReceiverCloses, senderVars
<1> DEFINE P == {pendingFd} \ {None}
<1>16. /\ P \in SUBSET DOMAIN conns
       /\ \A c \in DOMAIN conns : c \in P <=> c = pendingFd
  BY <1>0
<1>17. ASSUME lost' = IF pendingFd = None THEN lost
                      ELSE lost \cup LinksIn(conns[pendingFd].frames)
       PROVE  l \in lost' => l \in lost \/ \E c \in P : In(l, conns[c].frames)
  BY <1>0, <1>1, <1>17
<1> HIDE DEF P
<1>18. CASE AcceptHandshake
  <2>1. /\ UNCHANGED <<batch, readyBatch, processed>> /\ HandshakeRead
        /\ accepted \in DOMAIN conns
        /\ l \in lost' => l \in lost \/ \E c \in P : In(l, conns[c].frames)
    BY <1>17, <1>18, TypeAcceptHandshake DEF AcceptHandshake, senderVars
  <2>2. DOMAIN conns' = DOMAIN conns
    BY <2>1 DEF HandshakeRead
  <2>3. ASSUME NEW c \in DOMAIN conns
        PROVE  IF c \in P THEN conns'[c].frames = <<>>
               ELSE In(l, conns'[c].frames) =>
                      In(l, conns[c].frames) /\ Once(l, conns'[c].frames)
    <3>1. CASE c \in P
      BY <1>16, <2>1, <3>1 DEF HandshakeRead
    <3>2. CASE c \notin P /\ c = accepted
      <4>1. conns'[c].frames = Tail(conns[c].frames)
        BY <1>16, <2>1, <3>2 DEF HandshakeRead
      <4>2. conns[c].frames # <<>>
        BY <1>18, <3>2 DEF AcceptHandshake
      <4>3. conns[c].frames \in Seq(SUBSET Links)
        BY FieldsOf DEF TypeOK
      <4>4. Once(l, conns[c].frames)
        BY <1>0 DEF OneCopy
      <4> QED
        BY <3>2, <4>1, <4>2, <4>3, <4>4, TailFrames
    <3>3. CASE c \notin P /\ c # accepted
      BY <1>0, <1>16, <2>1, <3>3 DEF HandshakeRead, OneCopy
    <3> QED
      BY <3>1, <3>2, <3>3
  <2> QED
    BY <1>0, <1>16, <2>1, <2>2, <2>3, ClosedToLost
<1>19. CASE StopPeerB
  <2>1. /\ UNCHANGED <<batch, readyBatch, processed>> /\ PeerStopped
        /\ l \in lost' => l \in lost \/ \E c \in P : In(l, conns[c].frames)
    BY <1>17, <1>19, TypeStopPeerB DEF StopPeerB, senderVars
  <2>2. DOMAIN conns' = DOMAIN conns
    BY <2>1 DEF PeerStopped
  <2>3. ASSUME NEW c \in DOMAIN conns
        PROVE  IF c \in P THEN conns'[c].frames = <<>>
               ELSE conns'[c].frames = conns[c].frames
    BY <1>16, <2>1 DEF PeerStopped
  <2>4. ASSUME NEW c \in DOMAIN conns
        PROVE  Once(l, conns[c].frames)
    BY <1>0 DEF OneCopy
  <2> QED
    BY <1>0, <1>16, <2>1, <2>2, <2>3, <2>4, ClosedToLost
<1> QED
  BY <1>2, <1>3, <1>4, <1>6, <1>7, <1>8, <1>9, <1>10, <1>12, <1>13, <1>14,
     <1>15, <1>18, <1>19, Steps

-----------------------------------------------------------------------------
(* Without a failure *)

\* As long as nothing fails, A's one connection stays up until A ends it.
LEMMA CalmNext ==
  ASSUME TypeOK, HandInv, RolesInv, CalmInv, [Next]_vars, breaks' = 0, ~stopB'
  PROVE  CalmInv'
<1>0. /\ TypeOK' /\ conns \in Seq(Connection) /\ DOMAIN conns = 1..Len(conns)
      /\ Len(conns) \in Nat /\ None \notin DOMAIN conns /\ breaks \in Nat
      /\ outFd # None => outFd \in DOMAIN conns
      /\ accepted # None => accepted \in DOMAIN conns
      /\ pendingFd # None => pendingFd \in DOMAIN conns
      /\ inFd # None => inFd \in DOMAIN conns
      /\ receiver = "close" => inFd \in DOMAIN conns
  BY TypeNext, NoneAssumption, BoundAssumption DEF TypeOK
<1> DEFINE Same == UNCHANGED <<breaks, stopB, stop>>
<1>1. CASE QuietStep
  <2>1. /\ UNCHANGED <<conns, acceptor, outFd, breaks, lost, stop>> /\ ~stopB
        /\ sender = "exited" => sender' = "exited"
        /\ receiver' = "close" => inFd' = inFd /\ (receiver = "close" \/ AtEnd(inFd))
    BY <1>1, QuietEffect
  <2>2. breaks = 0
    BY <2>1
  <2>3. receiver' = "close" => conns[inFd].frames = <<>> /\ conns[inFd].client = "closed"
    <3>1. receiver' = "close" => inFd \in DOMAIN conns
      BY <1>0, <2>1 DEF TypeOK
    <3> QED
      BY <2>1, <2>2, <3>1 DEF CalmInv, AtEnd, Dead
  <2> QED
    BY <2>1, <2>2, <2>3 DEF CalmInv
<1>2. CASE SenderEnds
  <2>1. /\ Same /\ UNCHANGED <<acceptor, lost, receiver, inFd>>
        /\ sender' = "exited" /\ outFd' = None
        /\ IF outFd = None THEN UNCHANGED conns ELSE ClientCloses(outFd)
    BY <1>2, TypeSenderEnds DEF SenderEnds, acceptVars, receiverVars, history
  <2> QED
    BY <1>0, <2>1 DEF CalmInv, ClientCloses
<1>3. CASE SenderConnects
  <2>1. /\ Same /\ UNCHANGED <<acceptor, lost, receiver, inFd>> /\ sender = "connect"
    BY <1>3 DEF SenderConnects, acceptVars, receiverVars, history
  <2>2. CASE outFd # None /\ UNCHANGED <<conns, outFd>>
    BY <1>0, <2>1, <2>2 DEF CalmInv
  <2>3. CASE outFd = None /\ Connects(Fresh) /\ outFd' = Len(conns')
    <3>1. conns = <<>>
      BY <2>1, <2>3 DEF CalmInv
    <3>2. Len(conns') = 1 /\ DOMAIN conns' = {1} /\ conns'[1] = Fresh
      BY <1>0, <2>3, <3>1 DEF Connects
    <3>3. receiver # "close"
      BY <1>0, <3>1
    <3>4. Fresh.client = "open" /\ ~Fresh.broken /\ Fresh.server = "backlog"
      BY DEF Fresh
    <3>5. outFd' # None
      BY <2>3, <3>2, NoneAssumption
    <3> QED
      BY <2>1, <2>3, <3>2, <3>3, <3>4, <3>5 DEF CalmInv
  <2> QED
    BY <1>3, <2>2, <2>3, TypeSenderConnects
<1>4. CASE SenderCannotConnect
  <2>1. /\ stopB' = stopB /\ breaks' # breaks + 1 /\ ~Listening /\ breaks' = breaks
    BY <1>0, <1>4, TypeSenderCannotConnect DEF SenderCannotConnect
  <2> QED
    BY <2>1 DEF CalmInv, Listening
<1>5. ASSUME Same, outFd \in DOMAIN conns
      PROVE  ~Dead(outFd)
  BY <1>0, <1>5 DEF CalmInv, Dead
<1>6. CASE SenderSends
  <2>1. /\ Same /\ UNCHANGED <<acceptor, receiver, inFd, outFd>> /\ sender = "send"
        /\ outFd \in DOMAIN conns
    BY <1>6, TypeSenderSends DEF SenderSends, acceptVars, receiverVars
  <2>2. ~Dead(outFd)
    BY <1>5, <2>1
  <2>3. FramesBecome(outFd, Append(conns[outFd].frames, readyBatch)) /\ lost' = lost
    BY <1>6, <2>2, TypeSenderSends
  <2>4. receiver = "close" => inFd # outFd
    BY <1>0, <2>1 DEF CalmInv
  <2> QED
    BY <1>0, <2>1, <2>3, <2>4 DEF CalmInv, FramesBecome
<1>7. CASE SenderCannotSend
  <2>1. Same /\ outFd \in DOMAIN conns /\ Dead(outFd)
    BY <1>7, TypeSenderCannotSend DEF SenderCannotSend
  <2> QED
    BY <1>5, <2>1
<1>8. ASSUME NEW c \in DOMAIN conns, Break(c)
      PROVE  CalmInv'
  BY <1>0, <1>8, TypeBreak
<1>9. ASSUME NEW c \in DOMAIN conns, Accept(c)
      PROVE  CalmInv'
  <2>1. /\ Same /\ UNCHANGED <<lost, receiver, inFd, outFd, sender>>
        /\ acceptor' = "handshake" /\ ServerOpens(c)
    BY <1>9, TypeAccept DEF Accept, senderVars, receiverVars, history
  <2> QED
    BY <1>0, <2>1 DEF CalmInv, ServerOpens
<1>10. CASE AcceptHandshake
  <2>1. /\ Same /\ UNCHANGED <<inFd, outFd, sender>> /\ acceptor' = "select"
        /\ accepted \in DOMAIN conns /\ HandshakeRead
        /\ receiver' = "close" => receiver = "close"
        /\ lost' = IF pendingFd = None THEN lost
                   ELSE lost \cup LinksIn(conns[pendingFd].frames)
    BY <1>10, TypeAcceptHandshake DEF AcceptHandshake, Notified, senderVars
  <2>2. breaks = 0 /\ ~stopB /\ Len(conns) <= 1
    BY <2>1 DEF CalmInv
  <2>3. \A c \in DOMAIN conns : c = accepted
    BY <1>0, <2>1, <2>2
  <2>4. pendingFd = None
    BY <1>0, <2>3 DEF RolesInv, Unread
  <2>5. receiver # "close"
    BY <1>0, <2>3 DEF RolesInv, Unread
  <2> QED
    BY <1>0, <2>1, <2>2, <2>4, <2>5 DEF CalmInv, HandshakeRead
<1>11. CASE RejectConnection
  <2>1. /\ Same /\ UNCHANGED <<lost, receiver, inFd, outFd, sender>> /\ acceptor' = "select"
        /\ accepted \in DOMAIN conns /\ ServerCloses({accepted}) /\ AtEnd(accepted)
    BY <1>11, TypeRejectConnection DEF RejectConnection, senderVars, receiverVars, history
  <2>2. conns[accepted].client = "closed"
    BY <2>1 DEF CalmInv, AtEnd, Dead
  <2> QED
    BY <1>0, <2>1, <2>2 DEF CalmInv, ServerCloses
<1>12. CASE AcceptorEnds
  BY <1>12 DEF AcceptorEnds
<1>13. CASE ReceiverReceives
  <2>1. /\ Same /\ UNCHANGED <<lost, acceptor, outFd, sender>> /\ receiver' = "loop"
        /\ FramesBecome(inFd, Tail(conns[inFd].frames))
    BY <1>13, TypeReceiverReceives DEF ReceiverReceives, senderVars, acceptVars
  <2> QED
    BY <1>0, <2>1 DEF CalmInv, FramesBecome
<1>14. CASE ReceiverCloses
  <2>1. /\ Same /\ UNCHANGED <<acceptor, outFd, sender>>
        /\ receiver = "close" /\ receiver' = "closed"
        /\ inFd \in DOMAIN conns /\ ServerCloses({inFd})
        /\ lost' = lost \cup LinksIn(conns[inFd].frames)
    BY <1>14, TypeReceiverCloses DEF ReceiverCloses, senderVars, acceptVars
  <2>2. conns[inFd].frames = <<>> /\ conns[inFd].client = "closed"
    BY <2>1 DEF CalmInv
  <2>3. LinksIn(<<>>) = {}
    BY DEF LinksIn
  <2> QED
    BY <1>0, <2>1, <2>2, <2>3 DEF CalmInv, ServerCloses
<1>15. CASE StopPeerB
  BY <1>15 DEF StopPeerB
<1> QED
  BY <1>1, <1>2, <1>3, <1>4, <1>6, <1>7, <1>8, <1>9, <1>10, <1>11, <1>12,
     <1>13, <1>14, <1>15, Steps

-----------------------------------------------------------------------------
(* The theorems *)

\* The invariant holds at first and after every step.
LEMMA InvInit ==
  ASSUME Init
  PROVE  Inv
<1>1. TypeOK
  BY TypeInit
<1>2. DOMAIN conns = {}
  BY DEF Init
<1>3. HandInv /\ ReceiverAwake
  BY DEF Init, HandInv, ReceiverAwake
<1>4. RolesInv
  BY <1>2 DEF Init, RolesInv
<1>5. CopiesInv
  BY <1>2 DEF Init, CopiesInv, OneCopy, OnTheWay
<1>6. CalmInv
  BY <1>2 DEF Init, CalmInv
<1> QED
  BY <1>1, <1>3, <1>4, <1>5, <1>6 DEF Inv

LEMMA InvNext ==
  ASSUME Inv, [Next]_vars
  PROVE  Inv'
<1>1. CalmInv'
  BY CalmNext DEF Inv, CalmInv
<1> QED
  BY <1>1, TypeNext, HandNext, AwakeNext, RolesNext, CopiesNext DEF Inv

\* Every state of the two machines satisfies the inductive invariant.
THEOREM Invariance == Spec => []Inv
<1>1. Init => Inv
  BY InvInit
<1>2. Inv /\ [Next]_vars => Inv'
  BY InvNext
<1> QED
  BY <1>1, <1>2, PTL DEF Spec

\* Copies, as CopiesOf counts them, are at most one.
LEMMA OneCopyCounts ==
  ASSUME TypeOK, NEW l \in Links, OneCopy(l)
  PROVE  CopiesOf(l) <= 1
<1> DEFINE B == {<<"batch">> : x \in {l} \cap batch}
           R == {<<"ready">> : x \in {l} \cap readyBatch}
           L == {<<"lost">> : x \in {l} \cap lost}
           W == UNION {{<<c, k>> : k \in {j \in DOMAIN conns[c].frames :
                                             l \in conns[c].frames[j]}} : c \in DOMAIN conns}
           S == B \cup R \cup L \cup W
<1>1. CopiesOf(l) = processed[l] + Cardinality(S)
  BY DEF CopiesOf
<1>2. /\ l \notin batch => B = {}
      /\ l \notin readyBatch => R = {}
      /\ l \notin lost => L = {}
      /\ B \subseteq {<<"batch">>} /\ R \subseteq {<<"ready">>} /\ L \subseteq {<<"lost">>}
  OBVIOUS
<1>3. ~OnTheWay(l) => W = {}
  BY DEF OnTheWay, In
<1>4. \E w : W \subseteq {w}
  <2>1. ASSUME NEW v \in W, NEW w \in W
        PROVE  v = w
    <3>1. PICK c \in DOMAIN conns : \E j \in DOMAIN conns[c].frames :
            v = <<c, j>> /\ l \in conns[c].frames[j]
      OBVIOUS
    <3>2. PICK j \in DOMAIN conns[c].frames : v = <<c, j>> /\ l \in conns[c].frames[j]
      BY <3>1
    <3>3. PICK d \in DOMAIN conns : \E k \in DOMAIN conns[d].frames :
            w = <<d, k>> /\ l \in conns[d].frames[k]
      OBVIOUS
    <3>4. PICK k \in DOMAIN conns[d].frames : w = <<d, k>> /\ l \in conns[d].frames[k]
      BY <3>3
    <3>5. c = d
      BY <3>2, <3>4 DEF OneCopy, In
    <3>6. j = k
      BY <3>2, <3>4, <3>5 DEF OneCopy, Once
    <3> QED
      BY <3>2, <3>4, <3>5, <3>6
  <2> HIDE DEF W
  <2> QED
    BY <2>1
<1> HIDE DEF B, R, L, W
<1>5. \E w : S \subseteq {w}
  <2>1. CASE l \in batch
    BY <1>2, <1>3, <2>1 DEF OneCopy
  <2>2. CASE l \in readyBatch
    BY <1>2, <1>3, <2>2 DEF OneCopy
  <2>3. CASE l \in lost
    BY <1>2, <1>3, <2>3 DEF OneCopy
  <2>4. CASE l \notin batch \cup readyBatch \cup lost
    BY <1>2, <1>4, <2>4
  <2> QED
    BY <2>1, <2>2, <2>3, <2>4
<1>6. processed[l] # 0 => S = {}
  BY <1>2, <1>3 DEF OneCopy
<1> HIDE DEF S
<1>7. S = {} \/ \E w : S = {w}
  BY <1>5
<1>8. Cardinality(S) \in {0, 1} /\ (S = {} => Cardinality(S) = 0)
  BY <1>7, FS_EmptySet, FS_Singleton
<1>9. processed[l] \in {0, 1}
  BY DEF OneCopy
<1> QED
  BY <1>1, <1>6, <1>8, <1>9

\* B processes a link at most once, whatever breaks, whoever stops and however
\* often the sender tries again, and no link is ever in two places.
THEOREM LinksArriveOnce == Spec => []AtMostOnce
<1>1. Inv => AtMostOnce
  BY OneCopyCounts DEF Inv, CopiesInv, AtMostOnce
<1> QED
  BY <1>1, Invariance, PTL

\* Replacing, rejecting and closing connections loses nothing: links are lost
\* only when a connection has broken or B stops.
THEOREM LossNeedsFailure == Spec => []LostOnlyByFailure
<1>1. Inv => LostOnlyByFailure
  BY BoundAssumption DEF Inv, TypeOK, CalmInv, LostOnlyByFailure
<1> QED
  BY <1>1, Invariance, PTL

\* The receiver never sleeps through a connection it should take or a stop.
THEOREM ReceiverNeverSleepsThrough ==
  Spec => [](receiver = "waiting" => pendingFd = None /\ ~stop)
<1>1. Inv => (receiver = "waiting" => pendingFd = None /\ ~stop)
  BY DEF Inv, ReceiverAwake
<1> QED
  BY <1>1, Invariance, PTL

-----------------------------------------------------------------------------
(* Nothing is forgotten *)

\* A link has been found if machine A holds it, it is on the way, or it has
\* been lost or processed.
LEMMA FoundIs ==
  ASSUME TypeOK, NEW l
  PROVE  Found(l) <=> \/ l \in batch \cup readyBatch \cup lost \/ processed[l] > 0
                      \/ OnTheWay(l)
<1>1. ASSUME NEW c \in DOMAIN conns
      PROVE  l \in LinksIn(conns[c].frames) <=> In(l, conns[c].frames)
  BY FieldsOf, LinksAreIn DEF TypeOK
<1> QED
  BY <1>1 DEF Found, OnTheWay

\* A step that keeps what A holds, and of every connection either the links or
\* counts them as lost or processed, forgets nothing.
LEMMA Kept ==
  ASSUME TypeOK, TypeOK', NEW l \in Links, Found(l),
         l \in batch \cup readyBatch =>
           l \in (batch \cup readyBatch)' \/ l \in lost' \/ OnTheWay(l)',
         lost \subseteq lost', processed[l] > 0 => processed'[l] > 0,
         \A c \in DOMAIN conns : In(l, conns[c].frames) =>
           l \in lost' \/ processed'[l] > 0 \/ OnTheWay(l)'
  PROVE  Found(l)'
<1>1. Found(l)' <=> \/ l \in (batch \cup readyBatch \cup lost)' \/ processed'[l] > 0
                    \/ OnTheWay(l)'
  <2>1. ASSUME NEW c \in DOMAIN conns'
        PROVE  l \in LinksIn(conns'[c].frames) <=> In(l, conns'[c].frames)
    BY FieldsOf, LinksAreIn DEF TypeOK
  <2> QED
    BY <2>1 DEF Found, OnTheWay
<1>2. CASE OnTheWay(l)
  BY <1>1, <1>2 DEF OnTheWay
<1>3. CASE l \in batch \cup readyBatch \cup lost \/ processed[l] > 0
  BY <1>1, <1>3
<1> QED
  BY <1>2, <1>3, FoundIs

\* No step forgets a link.
LEMMA FoundNext ==
  ASSUME TypeOK, HandInv, RolesInv, [Next]_vars, NEW l \in Links, Found(l)
  PROVE  Found(l)'
<1>0. /\ TypeOK' /\ None \notin DOMAIN conns
      /\ pendingFd # None => pendingFd \in DOMAIN conns
  BY TypeNext, NoneAssumption DEF TypeOK
<1>1. ASSUME NEW c \in DOMAIN conns
      PROVE  l \in LinksIn(conns[c].frames) <=> In(l, conns[c].frames)
  BY FieldsOf, LinksAreIn DEF TypeOK
<1>2. CASE QuietStep
  <2>1. UNCHANGED <<conns, processed, lost>> /\ LinksAtA
    BY <1>2, QuietEffect
  <2>2. OnTheWay(l)' <=> OnTheWay(l)
    BY <2>1 DEF OnTheWay
  <2>3. batch \cup readyBatch \subseteq (batch \cup readyBatch)'
    BY <2>1 DEF LinksAtA
  <2> QED
    BY <1>0, <2>1, <2>2, <2>3, Kept DEF OnTheWay
\* Nothing goes, or only connections change.
<1>3. ASSUME UNCHANGED <<batch, readyBatch, lost, processed>>,
             \A c \in DOMAIN conns : c \in DOMAIN conns'
               /\ (In(l, conns[c].frames) => In(l, conns'[c].frames))
      PROVE  Found(l)'
  BY <1>0, <1>3, Kept DEF OnTheWay
<1>4. CASE SenderEnds
  <2>1. \A c \in DOMAIN conns : c \in DOMAIN conns' /\ conns'[c].frames = conns[c].frames
    BY <1>4, TypeSenderEnds DEF ClientCloses
  <2> QED
    BY <1>3, <1>4, <2>1 DEF SenderEnds, history
<1>5. CASE SenderCannotSend
  <2>1. \A c \in DOMAIN conns : c \in DOMAIN conns' /\ conns'[c].frames = conns[c].frames
    BY <1>5, TypeSenderCannotSend DEF ClientCloses
  <2> QED
    BY <1>3, <1>5, <2>1 DEF SenderCannotSend, history
<1>6. CASE SenderConnects
  <2>1. \A c \in DOMAIN conns : c \in DOMAIN conns' /\ conns'[c] = conns[c]
    BY <1>6, TypeSenderConnects DEF Connects
  <2> QED
    BY <1>3, <1>6, <2>1 DEF SenderConnects, history
<1>7. CASE SenderCannotConnect
  <2>1. \A c \in DOMAIN conns : c \in DOMAIN conns' /\ conns'[c] = conns[c]
    BY <1>7, TypeSenderCannotConnect DEF Connects
  <2> QED
    BY <1>3, <1>7, <2>1 DEF SenderCannotConnect, history
<1>8. CASE SenderSends
  <2>1. outFd \in DOMAIN conns /\ UNCHANGED <<batch, processed>>
    BY <1>8, TypeSenderSends DEF SenderSends, SentBatch
  <2>2. CASE lost' = lost \cup readyBatch /\ UNCHANGED conns
    BY <1>0, <2>1, <2>2, Kept DEF OnTheWay
  <2>3. CASE UNCHANGED lost /\ FramesBecome(outFd, Append(conns[outFd].frames, readyBatch))
    <3> DEFINE f == Append(conns[outFd].frames, readyBatch)
    <3>1. In(l, f) <=> In(l, conns[outFd].frames) \/ l \in readyBatch
      BY <2>1, FieldsOf, AppendFrame DEF TypeOK
    <3> HIDE DEF f
    <3>2. ASSUME NEW c \in DOMAIN conns
          PROVE  /\ c \in DOMAIN conns'
                 /\ conns'[c].frames = IF c = outFd THEN f ELSE conns[c].frames
      BY <2>3 DEF FramesBecome, f
    <3>3. \A c \in DOMAIN conns : In(l, conns[c].frames) => OnTheWay(l)'
      BY <3>1, <3>2 DEF OnTheWay
    <3>4. l \in readyBatch => OnTheWay(l)'
      BY <2>1, <3>1, <3>2 DEF OnTheWay
    <3> QED
      BY <1>0, <2>1, <2>3, <3>3, <3>4, Kept
  <2> QED
    BY <1>8, <2>2, <2>3, TypeSenderSends
<1>9. ASSUME NEW c \in DOMAIN conns, Break(c)
      PROVE  Found(l)'
  <2> DEFINE s == conns[c].frames
  <2>1. PICK k \in 0..Len(s) :
          /\ Breaks(c, k)
          /\ lost' = lost \cup LinksIn(SubSeq(s, k + 1, Len(s)))
    BY <1>9, TypeBreak
  <2> DEFINE a == SubSeq(s, 1, k)
             b == SubSeq(s, k + 1, Len(s))
  <2>2. s \in Seq(SUBSET Links)
    BY FieldsOf DEF TypeOK
  <2>3. (In(l, s) <=> In(l, a) \/ In(l, b)) /\ b \in Seq(SUBSET Links)
    BY <2>2, CutFrames
  <2>4. /\ DOMAIN conns' = DOMAIN conns /\ conns'[c].frames = a
        /\ \A d \in DOMAIN conns : d # c => conns'[d].frames = conns[d].frames
    BY <2>1 DEF Breaks
  <2>5. lost' = lost \cup LinksIn(b)
    BY <2>1
  <2> HIDE DEF a, b
  <2>6. In(l, b) => l \in lost'
    BY <2>3, <2>5, LinksAreIn
  <2>7. UNCHANGED <<batch, readyBatch, processed>>
    BY <1>9 DEF Break, senderVars
  <2>8. \A d \in DOMAIN conns : In(l, conns[d].frames) => l \in lost' \/ OnTheWay(l)'
    BY <2>3, <2>4, <2>6 DEF OnTheWay
  <2> QED
    BY <1>0, <2>5, <2>7, <2>8, Kept
<1>10. ASSUME NEW c \in DOMAIN conns, Accept(c)
       PROVE  Found(l)'
  <2>1. \A d \in DOMAIN conns : d \in DOMAIN conns' /\ conns'[d].frames = conns[d].frames
    BY <1>10, TypeAccept DEF ServerOpens
  <2> QED
    BY <1>3, <1>10, <2>1 DEF Accept, senderVars, history
\* Connections that B closes.
<1>11. ASSUME NEW C, ServerCloses(C), UNCHANGED <<batch, readyBatch, processed>>,
              lost \subseteq lost',
              \A c \in DOMAIN conns : c \in C => (In(l, conns[c].frames) => l \in lost')
       PROVE  Found(l)'
  <2>1. \A c \in DOMAIN conns : In(l, conns[c].frames) => l \in lost' \/ OnTheWay(l)'
    BY <1>11 DEF ServerCloses, OnTheWay
  <2> QED
    BY <1>0, <1>11, <2>1, Kept
<1>12. CASE RejectConnection
  <2>1. conns[accepted].frames = <<>> /\ ServerCloses({accepted})
    BY <1>12, TypeRejectConnection DEF RejectConnection, AtEnd
  <2> QED
    BY <1>11, <1>12, <2>1, NoFrames DEF RejectConnection, senderVars, history
<1>13. CASE AcceptorEnds
  <2>1. UNCHANGED <<batch, readyBatch, processed>>
    BY <1>13 DEF AcceptorEnds, senderVars
  <2>2. \A c \in DOMAIN conns : c \in Backlog => (In(l, conns[c].frames) => l \in lost')
    BY <1>1, <1>13, TypeAcceptorEnds
  <2> QED
    BY <1>11, <1>13, <2>1, <2>2, TypeAcceptorEnds
<1>14. CASE ReceiverReceives
  <2> DEFINE s == conns[inFd].frames
             t == Tail(s)
  <2>1. /\ inFd \in DOMAIN conns /\ s # <<>> /\ FramesBecome(inFd, t)
        /\ processed' = [m \in Links |-> IF m \in Head(s) THEN processed[m] + 1 ELSE processed[m]]
    BY <1>14, TypeReceiverReceives
  <2>2. In(l, s) <=> In(l, t) \/ l \in Head(s)
    BY <2>1, FieldsOf, TailFrames DEF TypeOK
  <2>3. /\ DOMAIN conns' = DOMAIN conns /\ conns'[inFd].frames = t
        /\ \A d \in DOMAIN conns : d # inFd => conns'[d].frames = conns[d].frames
    BY <2>1 DEF FramesBecome
  <2>4. processed'[l] = IF l \in Head(s) THEN processed[l] + 1 ELSE processed[l]
    BY <2>1
  <2> HIDE DEF t
  <2>5. /\ processed[l] > 0 => processed'[l] > 0
        /\ l \in Head(s) => processed'[l] > 0
    BY <2>4 DEF TypeOK
  <2>6. \A d \in DOMAIN conns : In(l, conns[d].frames) => processed'[l] > 0 \/ OnTheWay(l)'
    BY <2>2, <2>3, <2>5 DEF OnTheWay
  <2>7. UNCHANGED <<batch, readyBatch, lost>>
    BY <1>14 DEF ReceiverReceives, senderVars
  <2> QED
    BY <1>0, <2>5, <2>6, <2>7, Kept
<1>15. CASE ReceiverCloses
  BY <1>1, <1>11, <1>15, TypeReceiverCloses DEF ReceiverCloses, senderVars
\* The connection that was pending.
<1>16. ASSUME lost' = IF pendingFd = None THEN lost
                      ELSE lost \cup LinksIn(conns[pendingFd].frames)
       PROVE  /\ lost \subseteq lost'
              /\ \A c \in DOMAIN conns :
                   c = pendingFd => (In(l, conns[c].frames) => l \in lost')
  BY <1>0, <1>1, <1>16
<1>17. CASE AcceptHandshake
  <2>1. /\ UNCHANGED <<batch, readyBatch, processed>> /\ HandshakeRead
        /\ accepted \in DOMAIN conns /\ conns[accepted].frames # <<>>
        /\ lost' = IF pendingFd = None THEN lost
                   ELSE lost \cup LinksIn(conns[pendingFd].frames)
    BY <1>17, TypeAcceptHandshake DEF AcceptHandshake, senderVars
  <2>2. /\ lost \subseteq lost'
        /\ \A c \in DOMAIN conns :
             c = pendingFd => (In(l, conns[c].frames) => l \in lost')
    BY <1>16, <2>1
  <2> DEFINE s == conns[accepted].frames
             t == Tail(s)
  <2>3. (In(l, s) <=> In(l, t) \/ l \in Head(s)) /\ Head(s) = s[1]
    BY <2>1, FieldsOf, TailFrames DEF TypeOK
  <2>4. l \notin Head(s)
    BY <2>1, <2>3 DEF RolesInv, Unread, Handshake
  <2>5. ASSUME NEW d \in DOMAIN conns
        PROVE  /\ d \in DOMAIN conns'
               /\ conns'[d].frames = IF d = pendingFd THEN <<>>
                                     ELSE IF d = accepted THEN Tail(conns[d].frames)
                                     ELSE conns[d].frames
    BY <2>1 DEF HandshakeRead
  <2>6. ASSUME NEW d \in DOMAIN conns, In(l, conns[d].frames), d # pendingFd
        PROVE  OnTheWay(l)'
    <3>1. CASE d = accepted
      <4>1. In(l, t) /\ conns'[d].frames = t
        BY <2>3, <2>4, <2>5, <2>6, <3>1
      <4> HIDE DEF t
      <4> QED
        BY <2>5, <4>1 DEF OnTheWay
    <3>2. CASE d # accepted
      BY <2>5, <2>6, <3>2 DEF OnTheWay
    <3> QED
      BY <3>1, <3>2
  <2> HIDE DEF s, t
  <2> QED
    BY <1>0, <2>1, <2>2, <2>6, Kept
<1>18. CASE StopPeerB
  <2>1. /\ UNCHANGED <<batch, readyBatch, processed>> /\ PeerStopped
        /\ lost' = IF pendingFd = None THEN lost
                   ELSE lost \cup LinksIn(conns[pendingFd].frames)
    BY <1>18, TypeStopPeerB DEF StopPeerB, senderVars
  <2>2. /\ lost \subseteq lost'
        /\ \A c \in DOMAIN conns :
             c = pendingFd => (In(l, conns[c].frames) => l \in lost')
    BY <1>16, <2>1
  <2>3. ASSUME NEW d \in DOMAIN conns
        PROVE  /\ d \in DOMAIN conns'
               /\ d # pendingFd => conns'[d].frames = conns[d].frames
    BY <2>1 DEF PeerStopped
  <2>4. ASSUME NEW d \in DOMAIN conns, In(l, conns[d].frames), d # pendingFd
        PROVE  OnTheWay(l)'
    BY <2>3, <2>4 DEF OnTheWay
  <2> QED
    BY <1>0, <2>1, <2>2, <2>4, Kept
<1> QED
  BY <1>2, <1>4, <1>5, <1>6, <1>7, <1>8, <1>9, <1>10, <1>12, <1>13, <1>14,
     <1>15, <1>17, <1>18, Steps

\* A link that A has found stays somewhere, or is lost with a connection or
\* processed, whatever step is taken: giving up a batch returns it.
THEOREM NothingForgotten == Spec => NeverForgotten
<1>1. ASSUME Inv, [Next]_vars
      PROVE  \A l \in Links : Found(l) => Found(l)'
  BY <1>1, FoundNext DEF Inv
<1>2. ASSUME Inv, [Next]_vars
      PROVE  [\A l \in Links : Found(l) => Found(l)']_vars
  BY <1>1, <1>2
<1> QED
  BY <1>2, Invariance, PTL DEF Spec, NeverForgotten
=============================================================================
