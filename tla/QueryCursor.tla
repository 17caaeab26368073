----------------------------- MODULE QueryCursor -----------------------------
(***************************************************************************)
(* The composite cursors of the query engine: ISRAnd, ISROr, ISRPhrase and *)
(* ISRContainer over N child cursors, and over the end-of-document words   *)
(* for the two that work document by document.  A child is itself a        *)
(* Cursor: a word of the chunk or another composite.                       *)
(*                                                                         *)
(* A call of next() or seek() moves children; advanceToNextMatch then      *)
(* loops, one action per round of its loop, until the call returns.  An    *)
(* exhausted cursor answers Sentinel for ever whatever its children are,   *)
(* so the round that exhausts it leaves their positions out.               *)
(***************************************************************************)
EXTENDS Locations

CONSTANTS
  N,          \* number of children
  Kinds,      \* which composites: "and", "or", "phrase", "container"
  Corpora,    \* possible sets of end-of-document locations
  Postings    \* possible sets of matches of a child

Children == 1 .. N

ASSUME CursorAssumption ==
  /\ N \in Nat \ {0}
  /\ Kinds \subseteq {"and", "or", "phrase", "container"}
  /\ Corpora \subseteq SUBSET Location
  /\ Postings \subseteq SUBSET Location

VARIABLES
  kind,       \* the class of the cursor
  ends,       \* locations of the end-of-document words
  matches,    \* matches[i]: where child i matches
  at,         \* at[i]: currentLocation() of child i, Sentinel when done()
  endAt,      \* location of doc_end_isr_
  loc,        \* current_loc_; Sentinel when is_exhausted_
  calling,    \* a call has not returned
  target      \* history: the location the call in progress asked for

chunk == <<kind, ends, matches>>
vars == <<chunk, at, endAt, loc, calling, target>>

(* Documents.  A document is the locations from its start to its end word. *)

EndOf(l) == First(ends, l)

DocStart(e) == Min({s \in 0 .. e : \A x \in ends : x < e => x < s})

Document(e) == DocStart(e) .. e

(* The children. *)

\* ISR::seek never moves back.
Seeking(position, S, t) == IF position >= t THEN position ELSE First(S, t)

Sought(i, t) == Seeking(at[i], matches[i], t)

SoughtEnd(t) == Seeking(endAt, ends, t)

Positions == {at[i] : i \in Children}

\* Mutant: the end of a document is sought instead of what follows it.
AfterItself(l) == l

After(l) == l + 1

\* Documents and postings as a chunk holds them: every word is in a document,
\* and the words of a phrase never stand where a document ends.
Readable ==
  /\ \A i \in Children : \A m \in matches[i] : EndOf(m) # Sentinel
  /\ kind = "phrase" => \A i \in Children : matches[i] \cap ends = {}

\* No word of a phrase stands so early in the chunk that the phrase would begin
\* before it: Implied wraps around there and the cursor is exhausted at once,
\* whatever else the chunk holds.
NoEarlyWord == kind = "phrase" => \A i \in Children : \A m \in matches[i] : m >= i - 1

Init ==
  /\ kind \in Kinds
  /\ ends \in Corpora
  /\ matches \in [Children -> Postings]
  /\ Readable /\ NoEarlyWord
  /\ at = [i \in Children |-> First(matches[i], 0)]
  /\ endAt = First(ends, 0)
  /\ loc = 0
  /\ calling = TRUE
  /\ target = 0

-----------------------------------------------------------------------------
(* Calls.  A posting list may hold one location twice (both halves of "a-a"
   stand at one location); next() of the child then stays where it is.     *)

Asks(positions, t) ==
  /\ ~calling /\ loc # Sentinel
  /\ at' = positions
  /\ target' = t
  /\ calling' = TRUE
  /\ UNCHANGED <<chunk, endAt, loc>>

NextAnd ==
  /\ kind = "and"
  /\ Asks([i \in Children |-> Sought(i, loc + 1)], loc + 1)

NextOr ==
  /\ kind = "or"
  /\ \E twice \in SUBSET {i \in Children : at[i] = loc} :
       Asks([i \in Children |-> IF at[i] = loc /\ i \notin twice THEN First(matches[i], loc + 1) ELSE at[i]],
            IF twice = {} THEN loc + 1 ELSE loc)

\* ISRPhrase and ISRContainer move their first child.
NextOfFirst ==
  /\ kind \in {"phrase", "container"}
  /\ \/ Asks([at EXCEPT ![1] = First(matches[1], at[1] + 1)], loc + 1)
     \/ Asks(at, loc)

\* The engine and the parents of a cursor seek to the start of a document;
\* a phrase seeks a word with its title variant, an ISROr, to any location.
SeekTargets == IF kind = "or" THEN 0 .. Sentinel ELSE {After(e) : e \in ends}

Seek(t) ==
  /\ loc < t
  /\ IF kind \in {"and", "or"}
     THEN Asks([i \in Children |-> Sought(i, t)], t)
     ELSE Asks([at EXCEPT ![1] = Sought(1, t)], t)

-----------------------------------------------------------------------------
(* advanceToNextMatch *)

Returns(l) == calling /\ loc' = l /\ calling' = FALSE /\ UNCHANGED <<chunk, target>>

Exhausted == Returns(Sentinel) /\ UNCHANGED <<at, endAt>>

LoopsOn == calling /\ UNCHANGED <<chunk, loc, calling, target>>

(* ISRAnd: the document of the child furthest ahead, and every child sought
   to its start, up to the first one that is beyond its end.               *)

AndEnd == SoughtEnd(Max(Positions))

\* Mutant: children are sought to the end of the document.
AndAtEnd(i) == Sought(i, AndEnd)

AndAt(i) == Sought(i, DocStart(AndEnd))

AndExhausted ==
  /\ kind = "and"
  /\ \/ Sentinel \in Positions
     \/ AndEnd = Sentinel
     \/ \E i \in Children : AndAt(i) = Sentinel /\ \A j \in 1 .. i - 1 : AndAt(j) <= AndEnd
  /\ Exhausted

AndMatch ==
  /\ kind = "and"
  /\ AndEnd # Sentinel
  /\ \A i \in Children : AndAt(i) <= AndEnd
  /\ at' = [i \in Children |-> AndAt(i)]
  /\ endAt' = AndEnd
  /\ Returns(AndEnd)

AndSkip ==
  /\ kind = "and"
  /\ AndEnd # Sentinel
  /\ \E i \in Children :
       /\ AndEnd < AndAt(i) /\ AndAt(i) # Sentinel
       /\ \A j \in 1 .. i - 1 : AndAt(j) <= AndEnd
  /\ at' = [i \in Children |-> Sought(i, After(AndEnd))]
  /\ endAt' = AndEnd
  /\ LoopsOn

(* ISROr: the child that is least far. *)

OrReturn ==
  /\ kind = "or"
  /\ Returns(Min(Positions))
  /\ UNCHANGED <<at, endAt>>

(* ISRPhrase: the latest start that a child implies, and every child sought
   to its place in a phrase from there, up to the first that has none.     *)

\* Unsigned subtraction.
Implied(i) == IF at[i] >= i - 1 THEN at[i] - (i - 1) ELSE at[i] - (i - 1) + Sentinel + 1

PhraseStart == Max({Implied(i) : i \in Children})

Place(i) == PhraseStart + i - 1

PhraseAt(i) == Sought(i, Place(i))

InPlace(i) == PhraseAt(i) = Place(i) /\ PhraseAt(i) # Sentinel

PhraseExhausted ==
  /\ kind = "phrase"
  /\ \/ Sentinel \in Positions
     \/ \E i \in Children : PhraseAt(i) = Sentinel /\ \A j \in 1 .. i - 1 : InPlace(j)
  /\ Exhausted

PhraseMatch ==
  /\ kind = "phrase"
  /\ Sentinel \notin Positions
  /\ \A i \in Children : InPlace(i)
  /\ at' = [i \in Children |-> PhraseAt(i)]
  /\ UNCHANGED endAt
  /\ Returns(Place(N))

PhraseMove ==
  /\ kind = "phrase"
  /\ Sentinel \notin Positions
  /\ \E i \in Children :
       /\ PhraseAt(i) \notin {Sentinel, Place(i)}
       /\ \A j \in 1 .. i - 1 : InPlace(j)
       /\ at' = [j \in Children |-> IF j <= i THEN PhraseAt(j) ELSE at[j]]
  /\ UNCHANGED endAt
  /\ LoopsOn

(* ISRContainer: the first child's document, and the other children sought
   to its start, up to the first that is in it.                            *)

ContainerEnd == SoughtEnd(at[1])

NegativeAt(i) == Sought(i, DocStart(ContainerEnd))

\* Mutant: a match at the very end of the document does not exclude it.
ExcludesBefore(i) == NegativeAt(i) < ContainerEnd

Excludes(i) == NegativeAt(i) <= ContainerEnd

ContainerExhausted ==
  /\ kind = "container"
  /\ at[1] = Sentinel \/ ContainerEnd = Sentinel
  /\ Exhausted

ContainerMatch ==
  /\ kind = "container"
  /\ at[1] # Sentinel /\ ContainerEnd # Sentinel
  /\ \A i \in 2 .. N : ~Excludes(i)
  /\ at' = [i \in Children |-> IF i = 1 THEN at[1] ELSE NegativeAt(i)]
  /\ endAt' = ContainerEnd
  /\ Returns(at[1])

ContainerSkip ==
  /\ kind = "container"
  /\ at[1] # Sentinel /\ ContainerEnd # Sentinel
  /\ \E i \in 2 .. N :
       /\ Excludes(i)
       /\ \A j \in 2 .. i - 1 : ~Excludes(j)
       /\ at' = [j \in Children |-> IF j = 1 THEN Sought(1, After(ContainerEnd))
                                    ELSE IF j <= i THEN NegativeAt(j)
                                    ELSE at[j]]
  /\ endAt' = ContainerEnd
  /\ LoopsOn

-----------------------------------------------------------------------------
Advance ==
  \/ AndExhausted \/ AndMatch \/ AndSkip
  \/ OrReturn
  \/ PhraseExhausted \/ PhraseMatch \/ PhraseMove
  \/ ContainerExhausted \/ ContainerMatch \/ ContainerSkip

Next ==
  \/ NextAnd \/ NextOr \/ NextOfFirst
  \/ \E t \in SeekTargets : Seek(t)
  \/ Advance

SafetySpec == Init /\ [][Next]_vars

\* A call runs in the thread that made it.
Spec == SafetySpec /\ WF_vars(Advance)

-----------------------------------------------------------------------------
(* What the cursor should find, from the postings alone. *)

Found ==
  CASE kind = "and"       -> {e \in ends : \A i \in Children : matches[i] \cap Document(e) # {}}
    [] kind = "or"        -> UNION {matches[i] : i \in Children}
    [] kind = "phrase"    -> {m \in matches[N] : \A i \in Children : m - N + i \in matches[i]}
    [] kind = "container" -> {m \in matches[1] : \A i \in 2 .. N : matches[i] \cap Document(EndOf(m)) = {}}

TypeOK ==
  /\ at \in [Children -> Location \cup {Sentinel}]
  /\ \A i \in Children : at[i] \in matches[i] \cup {Sentinel}
  /\ endAt \in ends \cup {Sentinel}
  /\ loc \in Found \cup {0, Sentinel}
  /\ calling \in BOOLEAN
  /\ target \in 0 .. Sentinel

\* The matches of child i that match m is made of; for a container, also the
\* ones of its other children that may yet exclude the document of m.
Parts(i, m) ==
  CASE kind = "and"       -> matches[i] \cap Document(m)
    [] kind = "or"        -> matches[i] \cap {m}
    [] kind = "phrase"    -> {m - N + i}
    [] kind = "container" -> IF i = 1 THEN {m} ELSE {x \in matches[i] : DocStart(EndOf(m)) <= x}

\* advanceToNextMatch and the calls seek a child only as far as the composite
\* as a whole can go: no child is past anything that a match still to come is
\* made of, and of a match to be reported again an ISROr keeps one child.
NothingPassed ==
  \A m \in Found : loc # Sentinel =>
     /\ target <= m /\ (m > loc \/ kind # "or") =>
          \A i \in Children : \A x \in Parts(i, m) : at[i] <= x
     /\ target <= m /\ kind = "or" =>
          \E i \in Children : \E x \in Parts(i, m) : at[i] <= x

Promise == INSTANCE Cursor WITH found <- Found

\* Every composite keeps the promise of a cursor over what it should find: no
\* match is left out, none is invented, and none is reported out of order.
ImplementsCursor == Promise!CursorSpec

\* advanceToNextMatch ends: each round of its loop moves a child.
EveryCallReturns == calling ~> ~calling

=============================================================================
