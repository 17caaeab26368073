------------------------------ MODULE PeerLink ------------------------------
(***************************************************************************)
(* The link between two crawling machines (src/src/main_distributed.cpp):  *)
(* machine A collects links that belong to machine B in a batch, its       *)
(* SendToPeerThread sends full batches over a persistent connection, and   *)
(* B's AcceptPeerConnectionsThread and ReceiveFromPeerThread take them in. *)
(* Connections may break, either machine may be told to stop.              *)
(*                                                                         *)
(* A connection is the data its sockets still carry: a sequence of frames, *)
(* a frame being the set of links of a batch, or the handshake.  A frame   *)
(* of which B gets only a part is never processed (recvFrame fails), so it *)
(* counts as lost at once.  Waits and delays of the retries have no model: *)
(* any number of other steps may come between two steps of a thread.       *)
(***************************************************************************)
EXTENDS Integers, FiniteSets, Sequences

CONSTANTS
  Links,        \* RoutedLink objects that A finds for B
  Threshold,    \* numLinkThreshold
  Retries,      \* sendBatchRetryCount
  None,         \* no socket
  MayStopA,     \* whether A gets a signal
  MayStopB,
  MaxBreaks     \* bound: connections that break

ASSUME BatchAssumption == Threshold \in Nat \ {0} /\ IsFiniteSet(Links)
ASSUME BoundAssumption == Retries \in Nat /\ MaxBreaks \in Nat
ASSUME StopAssumption == MayStopA \in BOOLEAN /\ MayStopB \in BOOLEAN
ASSUME NoneAssumption == None \notin Nat

VARIABLES
  batch,        \* A: batches[B]
  readyBatch,   \* A: what the sender is sending
  sender,       \* A: where SendToPeerThread is
  attempt,
  outFd,        \* A: the sender's socket
  stopA,        \* A: shouldStop
  crawling,     \* A: crawler threads are not joined yet
  conns,        \* the connections made so far
  acceptor,     \* B: where AcceptPeerConnectionsThread is
  accepted,     \* B: the connection whose handshake it reads
  receiver,     \* B: where ReceiveFromPeerThread is
  pendingFd,    \* B: state.pendingSocketFd
  activeFd,     \* B: state.activeSocketFd
  inFd,         \* B: the receiver's own socketFd
  stopB,        \* B: shouldStop
  stop,         \* B: state.stop
  breaks,       \* connections that broke
  processed,    \* history: how often B processed each link
  lost          \* history: links that went down with a connection

senderVars == <<readyBatch, sender, attempt, outFd>>
acceptVars == <<acceptor, accepted>>
receiverVars == <<receiver, activeFd, inFd>>
history == <<processed, lost>>
vars == <<batch, senderVars, stopA, crawling, conns, acceptVars, receiverVars,
          pendingFd, stopB, stop, breaks, history>>

Handshake == {}

\* client, server: whether A's and B's end are open; B's end is first in the
\* backlog of the listening socket.
Connection == [frames : Seq(SUBSET Links), client : {"open", "closed"},
               server : {"backlog", "open", "closed"}, broken : BOOLEAN]

LinksIn(frames) == UNION {frames[k] : k \in DOMAIN frames}

Dead(c) == conns[c].broken \/ conns[c].server = "closed"

CloseServer(cs, c) == [cs EXCEPT ![c].server = "closed", ![c].frames = <<>>]

\* Mutant: a silent connection counts as ended, as if the receiver kept the
\* time limit of the handshake.
Silent(c) == conns[c].frames = <<>>

\* Nothing more comes from A on this connection.
AtEnd(c) == conns[c].frames = <<>> /\ (Dead(c) \/ conns[c].client = "closed")

-----------------------------------------------------------------------------
(* Machine A *)

\* batch_lock: the sender holds it between its test and its wait.
BatchLockFree == sender # "tested"

Notified(pc) == IF pc = "waiting" THEN "test" ELSE pc

\* Mutant: the threshold has to be exceeded.
OverfullBatch(links) == Cardinality(links) > Threshold

FullBatch(links) == Cardinality(links) >= Threshold

HasReadyBatch == FullBatch(batch) \/ (stopA /\ batch # {})

MaySleep == ~HasReadyBatch /\ ~stopA

\* A has found the link before.
Found(l) ==
  \/ l \in batch \cup readyBatch \cup lost \/ processed[l] > 0
  \/ \E c \in DOMAIN conns : l \in LinksIn(conns[c].frames)

\* A crawler thread finds a link of B's.
AddLink(l) ==
  /\ crawling /\ BatchLockFree
  /\ ~Found(l)
  /\ batch' = batch \cup {l}
  /\ sender' = IF FullBatch(batch') THEN Notified(sender) ELSE sender
  /\ UNCHANGED <<readyBatch, attempt, outFd, stopA, crawling, conns, acceptVars,
                 receiverVars, pendingFd, stopB, stop, breaks, history>>

SenderTakes ==
  /\ sender = "test" /\ HasReadyBatch
  /\ readyBatch' = batch /\ batch' = {}
  /\ attempt' = 0 /\ sender' = "connect"
  /\ UNCHANGED <<outFd, stopA, crawling, conns, acceptVars, receiverVars,
                 pendingFd, stopB, stop, breaks, history>>

SenderTests ==
  /\ sender = "test" /\ MaySleep
  /\ sender' = "tested"
  /\ UNCHANGED <<batch, readyBatch, attempt, outFd, stopA, crawling, conns,
                 acceptVars, receiverVars, pendingFd, stopB, stop, breaks, history>>

\* batch_cv.wait() gives up the lock and waits, in one step.
SenderWaits ==
  /\ sender = "tested"
  /\ sender' = "waiting"
  /\ UNCHANGED <<batch, readyBatch, attempt, outFd, stopA, crawling, conns,
                 acceptVars, receiverVars, pendingFd, stopB, stop, breaks, history>>

SenderEnds ==
  /\ sender = "test" /\ ~HasReadyBatch /\ stopA
  /\ sender' = "exited" /\ outFd' = None
  /\ conns' = IF outFd = None THEN conns
              ELSE [conns EXCEPT ![outFd].client = "closed"]
  /\ UNCHANGED <<batch, readyBatch, attempt, stopA, crawling, acceptVars,
                 receiverVars, pendingFd, stopB, stop, breaks, history>>

Listening == acceptor # "exited"

\* ensureConnectedPeerSocket: the socket is there, or a connection is made and
\* the handshake sent.
SenderConnects ==
  /\ sender = "connect"
  /\ \/ outFd # None /\ UNCHANGED <<conns, outFd>>
     \/ /\ outFd = None /\ Listening
        /\ conns' = Append(conns, [frames |-> <<Handshake>>, client |-> "open",
                                   server |-> "backlog", broken |-> FALSE])
        /\ outFd' = Len(conns')
  /\ sender' = "send"
  /\ UNCHANGED <<batch, readyBatch, attempt, stopA, crawling, acceptVars,
                 receiverVars, pendingFd, stopB, stop, breaks, history>>

\* B does not listen, or the connection breaks during the handshake.
SenderCannotConnect ==
  /\ sender = "connect" /\ outFd = None
  /\ \/ ~Listening /\ UNCHANGED <<conns, breaks>>
     \/ /\ Listening /\ breaks < MaxBreaks
        /\ breaks' = breaks + 1
        /\ conns' = Append(conns, [frames |-> <<>>, client |-> "closed",
                                   server |-> "backlog", broken |-> TRUE])
  /\ sender' = "failed"
  /\ UNCHANGED <<batch, readyBatch, attempt, outFd, stopA, crawling, acceptVars,
                 receiverVars, pendingFd, stopB, stop, history>>

\* Mutant: the batch is kept for another round although it was sent.
SentAndKept == batch' = batch \cup readyBatch

\* What becomes of the batch in hand when sendFrame() has returned true.
SentBatch == UNCHANGED batch

\* The kernel takes the frame; on a dead connection it takes it in vain.
SenderSends ==
  /\ sender = "send"
  /\ \/ /\ ~Dead(outFd)
        /\ conns' = [conns EXCEPT ![outFd].frames = Append(@, readyBatch)]
        /\ UNCHANGED lost
     \/ /\ Dead(outFd)
        /\ lost' = lost \cup readyBatch
        /\ UNCHANGED conns
  /\ SentBatch
  /\ readyBatch' = {} /\ sender' = "test"
  /\ UNCHANGED <<attempt, outFd, stopA, crawling, acceptVars, receiverVars,
                 pendingFd, stopB, stop, breaks, processed>>

SenderCannotSend ==
  /\ sender = "send" /\ Dead(outFd)
  /\ sender' = "failed"
  /\ conns' = [conns EXCEPT ![outFd].client = "closed"]
  /\ outFd' = None
  /\ UNCHANGED <<batch, readyBatch, attempt, stopA, crawling, acceptVars,
                 receiverVars, pendingFd, stopB, stop, breaks, history>>

RetriesLeft == attempt < Retries

SenderRetries ==
  /\ sender = "failed" /\ RetriesLeft
  /\ attempt' = attempt + 1 /\ sender' = "connect"
  /\ UNCHANGED <<batch, readyBatch, outFd, stopA, crawling, conns, acceptVars,
                 receiverVars, pendingFd, stopB, stop, breaks, history>>

\* Mutant: the batch is dropped when the retries are used up.
DropBatch == UNCHANGED batch

ReturnBatch == batch' = batch \cup readyBatch

SenderGivesUp ==
  /\ sender = "failed" /\ ~RetriesLeft
  /\ ReturnBatch
  /\ readyBatch' = {} /\ sender' = "test"
  /\ UNCHANGED <<attempt, outFd, stopA, crawling, conns, acceptVars, receiverVars,
                 pendingFd, stopB, stop, breaks, history>>

\* The signal handler, and main when the crawlers are joined, which they are
\* after a signal or when the frontier has closed: shouldStop is set and
\* batch_cv notified, both without batch_lock.
SignalA ==
  /\ MayStopA /\ ~stopA
  /\ stopA' = TRUE /\ sender' = Notified(sender)
  /\ UNCHANGED <<batch, readyBatch, attempt, outFd, crawling, conns, acceptVars,
                 receiverVars, pendingFd, stopB, stop, breaks, history>>

JoinCrawlersA ==
  /\ MayStopA /\ crawling
  /\ stopA' = TRUE /\ crawling' = FALSE /\ sender' = Notified(sender)
  /\ UNCHANGED <<batch, readyBatch, attempt, outFd, conns, acceptVars,
                 receiverVars, pendingFd, stopB, stop, breaks, history>>

-----------------------------------------------------------------------------
(* The network *)

\* A connection breaks: what B has not received beyond some frame is lost.
Break(c) ==
  /\ breaks < MaxBreaks /\ ~conns[c].broken /\ conns[c].server # "closed"
  /\ breaks' = breaks + 1
  /\ \E k \in 0..Len(conns[c].frames) :
       /\ conns' = [conns EXCEPT ![c].broken = TRUE,
                                 ![c].frames = SubSeq(@, 1, k)]
       /\ lost' = lost \cup LinksIn(SubSeq(conns[c].frames, k + 1, Len(conns[c].frames)))
  /\ UNCHANGED <<batch, senderVars, stopA, crawling, acceptVars, receiverVars,
                 pendingFd, stopB, stop, processed>>

-----------------------------------------------------------------------------
(* Machine B *)

\* state.lock: the receiver holds it between its test and its wait.
StateLockFree == receiver # "tested"

Accept(c) ==
  /\ acceptor = "select" /\ ~stopB
  /\ conns[c].server = "backlog"
  /\ \A d \in 1..(c - 1) : conns[d].server # "backlog"
  /\ acceptor' = "handshake" /\ accepted' = c
  /\ conns' = [conns EXCEPT ![c].server = "open"]
  /\ UNCHANGED <<batch, senderVars, stopA, crawling, receiverVars, pendingFd,
                 stopB, stop, breaks, history>>

\* The handshake is in: the connection becomes the pending one, in the place
\* of a pending connection the receiver has not taken yet.
AcceptHandshake ==
  /\ acceptor = "handshake" /\ conns[accepted].frames # <<>> /\ StateLockFree
  /\ LET cs == [conns EXCEPT ![accepted].frames = Tail(@)] IN
     IF pendingFd = None THEN conns' = cs /\ UNCHANGED lost
     ELSE /\ conns' = CloseServer(cs, pendingFd)
          /\ lost' = lost \cup LinksIn(conns[pendingFd].frames)
  /\ pendingFd' = accepted /\ accepted' = None
  /\ receiver' = Notified(receiver)
  /\ acceptor' = "select"
  /\ UNCHANGED <<batch, senderVars, stopA, crawling, activeFd, inFd, stopB, stop,
                 breaks, processed>>

\* No handshake within five seconds, or the connection has ended.
RejectConnection ==
  /\ acceptor = "handshake" /\ AtEnd(accepted)
  /\ conns' = CloseServer(conns, accepted)
  /\ acceptor' = "select" /\ accepted' = None
  /\ UNCHANGED <<batch, senderVars, stopA, crawling, receiverVars, pendingFd,
                 stopB, stop, breaks, history>>

\* The listening socket is closed, and the connections in its backlog with it.
AcceptorEnds ==
  LET backlog == {c \in DOMAIN conns : conns[c].server = "backlog"} IN
  /\ acceptor = "select" /\ stopB
  /\ acceptor' = "exited"
  /\ conns' = [c \in DOMAIN conns |->
                 IF c \in backlog THEN CloseServer(conns, c)[c] ELSE conns[c]]
  /\ lost' = lost \cup UNION {LinksIn(conns[c].frames) : c \in backlog}
  /\ UNCHANGED <<batch, senderVars, stopA, crawling, accepted, receiverVars,
                 pendingFd, stopB, stop, breaks, processed>>

ReceiverTakes ==
  /\ receiver = "test" /\ pendingFd # None
  /\ inFd' = pendingFd /\ activeFd' = pendingFd /\ pendingFd' = None
  /\ receiver' = "loop"
  /\ UNCHANGED <<batch, senderVars, stopA, crawling, conns, acceptVars, stopB,
                 stop, breaks, history>>

ReceiverTests ==
  /\ receiver = "test" /\ pendingFd = None /\ ~stop /\ ~stopB
  /\ receiver' = "tested"
  /\ UNCHANGED <<batch, senderVars, stopA, crawling, conns, acceptVars, activeFd,
                 inFd, pendingFd, stopB, stop, breaks, history>>

ReceiverWaits ==
  /\ receiver = "tested"
  /\ receiver' = "waiting"
  /\ UNCHANGED <<batch, senderVars, stopA, crawling, conns, acceptVars, activeFd,
                 inFd, pendingFd, stopB, stop, breaks, history>>

ReceiverEnds ==
  /\ receiver = "test" /\ pendingFd = None /\ (stop \/ stopB)
  /\ receiver' = "exited"
  /\ UNCHANGED <<batch, senderVars, stopA, crawling, conns, acceptVars, activeFd,
                 inFd, pendingFd, stopB, stop, breaks, history>>

\* The head of the inner loop, while (!shouldStop).
ReceiverLoops ==
  /\ receiver = "loop"
  /\ receiver' = IF stopB THEN "close" ELSE "receive"
  /\ UNCHANGED <<batch, senderVars, stopA, crawling, conns, acceptVars, activeFd,
                 inFd, pendingFd, stopB, stop, breaks, history>>

FrameTaken(frames) == Tail(frames)

\* recvFrame() and processReceivedBatch().
ReceiverReceives ==
  /\ receiver = "receive" /\ conns[inFd].frames # <<>>
  /\ LET frame == Head(conns[inFd].frames) IN
     processed' = [l \in Links |-> IF l \in frame THEN processed[l] + 1 ELSE processed[l]]
  /\ conns' = [conns EXCEPT ![inFd].frames = FrameTaken(@)]
  /\ receiver' = "loop"
  /\ UNCHANGED <<batch, senderVars, stopA, crawling, acceptVars, activeFd, inFd,
                 pendingFd, stopB, stop, breaks, lost>>

ReceiverLosesStream ==
  /\ receiver = "receive" /\ AtEnd(inFd)
  /\ receiver' = "close"
  /\ UNCHANGED <<batch, senderVars, stopA, crawling, conns, acceptVars, activeFd,
                 inFd, pendingFd, stopB, stop, breaks, history>>

ReceiverCloses ==
  /\ receiver = "close"
  /\ conns' = CloseServer(conns, inFd)
  /\ lost' = lost \cup LinksIn(conns[inFd].frames)
  /\ receiver' = "closed"
  /\ UNCHANGED <<batch, senderVars, stopA, crawling, acceptVars, activeFd, inFd,
                 pendingFd, stopB, stop, breaks, processed>>

ReceiverDetaches ==
  /\ receiver = "closed"
  /\ activeFd' = None /\ inFd' = None
  /\ receiver' = "test"
  /\ UNCHANGED <<batch, senderVars, stopA, crawling, conns, acceptVars, pendingFd,
                 stopB, stop, breaks, history>>

\* The signal handler notifies without state.lock; main, when the crawlers have
\* ended by themselves, sets shouldStop first and notifies in StopPeerB.
SignalB ==
  /\ MayStopB /\ ~stopB
  /\ stopB' = TRUE
  /\ receiver' \in {receiver, Notified(receiver)}
  /\ UNCHANGED <<batch, senderVars, stopA, crawling, conns, acceptVars, activeFd,
                 inFd, pendingFd, stop, breaks, history>>

\* Mutant: main notifies nobody, trusting the signal handler.
StopReceiverQuietly == receiver

StopReceiver == Notified(receiver)

\* main, under state.lock: the receiver's connection is shut down under its
\* feet and a pending one closed.
StopPeerB ==
  /\ stopB /\ ~stop /\ StateLockFree
  /\ stop' = TRUE
  /\ LET cs == [c \in DOMAIN conns |-> IF c = activeFd THEN [conns[c] EXCEPT !.broken = TRUE]
                                       ELSE conns[c]] IN
     IF pendingFd = None THEN conns' = cs /\ UNCHANGED lost
     ELSE /\ conns' = CloseServer(cs, pendingFd)
          /\ lost' = lost \cup LinksIn(conns[pendingFd].frames)
  /\ pendingFd' = None
  /\ receiver' = StopReceiver
  /\ UNCHANGED <<batch, senderVars, stopA, crawling, acceptVars, activeFd, inFd,
                 stopB, breaks, processed>>

-----------------------------------------------------------------------------
Init ==
  /\ batch = {} /\ readyBatch = {} /\ sender = "test" /\ attempt = 0
  /\ outFd = None /\ stopA = FALSE /\ crawling = TRUE
  /\ conns = <<>>
  /\ acceptor = "select" /\ accepted = None
  /\ receiver = "test" /\ pendingFd = None /\ activeFd = None /\ inFd = None
  /\ stopB = FALSE /\ stop = FALSE
  /\ breaks = 0
  /\ processed = [l \in Links |-> 0] /\ lost = {}

Sender ==
  \/ SenderTakes \/ SenderTests \/ SenderWaits \/ SenderEnds \/ SenderConnects
  \/ SenderCannotConnect \/ SenderSends \/ SenderCannotSend \/ SenderRetries
  \/ SenderGivesUp

Acceptor ==
  \/ \E c \in DOMAIN conns : Accept(c)
  \/ AcceptHandshake \/ RejectConnection \/ AcceptorEnds

Receiver ==
  \/ ReceiverTakes \/ ReceiverTests \/ ReceiverWaits \/ ReceiverEnds
  \/ ReceiverLoops \/ ReceiverReceives \/ ReceiverLosesStream \/ ReceiverCloses
  \/ ReceiverDetaches

Next ==
  \/ Sender \/ Acceptor \/ Receiver
  \/ \E l \in Links : AddLink(l)
  \/ \E c \in DOMAIN conns : Break(c)
  \/ SignalA \/ JoinCrawlersA \/ SignalB \/ StopPeerB

Spec == Init /\ [][Next]_vars

\* Threads run, and main goes on with a shutdown that has begun.  Links,
\* breaks and signals are up to the environment.
Fairness ==
  /\ WF_vars(Sender) /\ WF_vars(Acceptor) /\ WF_vars(Receiver)
  /\ WF_vars(stopA /\ JoinCrawlersA) /\ WF_vars(StopPeerB)

FairSpec == Spec /\ Fairness

-----------------------------------------------------------------------------
(* Properties *)

\* Type invariant of both machines and the network.
TypeOK ==
  /\ batch \in SUBSET Links /\ readyBatch \in SUBSET Links
  /\ sender \in {"test", "tested", "waiting", "connect", "send", "failed", "exited"}
  /\ attempt \in 0..Retries
  /\ conns \in Seq(Connection)
  /\ outFd \in DOMAIN conns \cup {None} /\ (sender = "send" => outFd # None)
  /\ acceptor \in {"select", "handshake", "exited"}
  /\ accepted \in DOMAIN conns \cup {None} /\ (acceptor = "handshake" => accepted # None)
  /\ receiver \in {"test", "tested", "waiting", "loop", "receive", "close", "closed", "exited"}
  /\ pendingFd \in DOMAIN conns \cup {None}
  /\ activeFd \in DOMAIN conns \cup {None} /\ inFd \in DOMAIN conns \cup {None}
  /\ (receiver \in {"loop", "receive", "close", "closed"} => inFd # None)
  /\ {stopA, crawling, stopB, stop} \subseteq BOOLEAN
  /\ breaks \in 0..MaxBreaks
  /\ processed \in [Links -> Nat] /\ lost \in SUBSET Links

\* How many copies of a link there are on the way, arrived or lost.
CopiesOf(l) ==
  processed[l]
    + Cardinality(
        {<<"batch">> : x \in {l} \cap batch} \cup {<<"ready">> : x \in {l} \cap readyBatch}
          \cup {<<"lost">> : x \in {l} \cap lost}
          \cup UNION {{<<c, k>> : k \in {j \in DOMAIN conns[c].frames :
                                            l \in conns[c].frames[j]}} : c \in DOMAIN conns})

\* A link is sent again only if B cannot have it: whatever breaks, whoever
\* stops and however often the sender retries, B processes a link at most once,
\* and a link has at most one copy.
AtMostOnce == \A l \in Links : CopiesOf(l) <= 1

\* Nothing goes down with a connection unless one breaks or B stops: replacing
\* a pending connection, closing an old one and stopping A lose nothing.
LostOnlyByFailure == lost # {} => breaks > 0 \/ stopB

\* A link that was added stays somewhere until it is processed or lost: giving
\* up after the last retry returns the batch.
NeverForgotten ==
  [][\A l \in Links : Found(l) => Found(l)']_vars

\* A full batch gets to B, or is lost with a connection that breaks, as long as
\* nobody stops.
FullBatchesArrive ==
  \A l \in Links :
    (l \in batch /\ Cardinality(batch) >= Threshold) ~> (processed[l] = 1 \/ l \in lost \/ stopA \/ stopB)

\* B's threads end when B stops, wherever they block.
ReceivingEnds == stopB ~> (receiver = "exited" /\ acceptor = "exited")

\* A's sender ends when A stops, unless the stop finds it on its way into the
\* wait, or B stops too: a sender whose peer has gone tries for ever.
AwakeSendingEndsAlone ==
  (stopA /\ sender \notin {"tested", "waiting"}) ~> (sender = "exited" \/ stopB)

\* No thread of the link sleeps through work or through a stop, but for the
\* sender that AwakeSendingEndsAlone leaves out: the receiver never waits on a
\* connection it should take or through a stop, although the signal handler
\* notifies it without the lock, and both threads end.
ThreadsGetOn ==
  /\ [](receiver = "waiting" => pendingFd = None /\ ~stop)
  /\ ReceivingEnds
  /\ AwakeSendingEndsAlone
=============================================================================
