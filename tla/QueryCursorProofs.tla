------------------------- MODULE QueryCursorProofs --------------------------
(***************************************************************************)
(* Proofs about the composite cursors, for any number of children and any  *)
(* chunk: the cursor finds exactly the matches it should, in order.        *)
(***************************************************************************)
EXTENDS QueryCursor, TLAPS, WellFoundedInduction

-----------------------------------------------------------------------------
(* Least and greatest elements, and First. *)

\* A set of natural numbers that is not empty has a least element.
LEMMA MinIsLeast ==
  ASSUME NEW S \in SUBSET Nat, S # {}
  PROVE  Min(S) \in S /\ \A x \in S : Min(S) <= x
<1>1. PICK x \in S : \A y \in S : ~(<<y, x>> \in OpToRel(<, Nat))
  BY NatLessThanWellFounded, WFMin, Zenon
<1>2. \A y \in S : x <= y
  <2> TAKE y \in S
  <2>1. ~(y < x)
    BY <1>1 DEF OpToRel
  <2> QED
    BY <2>1
<1> QED
  BY <1>2 DEF Min

\* First(S, t) is the least element of S at or after t, or Sentinel.
LEMMA FirstIsFirst ==
  ASSUME NEW S \in SUBSET Location, NEW t \in Nat
  PROVE  /\ First(S, t) \in S \cup {Sentinel}
         /\ First(S, t) \in 0 .. Sentinel
         /\ First(S, t) # Sentinel => First(S, t) >= t
         /\ \A x \in S : x >= t => First(S, t) <= x /\ First(S, t) # Sentinel
<1> DEFINE later == {x \in S : x >= t}
<1>1. \A x \in S : x \in Nat /\ x < Sentinel
  BY SentinelAssumption DEF Location
<1>2. CASE later = {}
  <2>1. First(S, t) = Sentinel /\ \A x \in S : ~(x >= t)
    BY <1>2 DEF First
  <2> QED
    BY <2>1, SentinelAssumption
<1>3. CASE later # {}
  <2>1. First(S, t) = Min(later)
    BY <1>3 DEF First
  <2>2. Min(later) \in later /\ \A x \in later : Min(later) <= x
    <3>1. later \in SUBSET Nat
      BY <1>1
    <3> HIDE DEF later
    <3> QED
      BY <3>1, <1>3, MinIsLeast
  <2> QED
    BY <1>1, <2>1, <2>2, SentinelAssumption
<1> QED
  BY <1>2, <1>3

\* A set of bounded natural numbers that is not empty has a greatest element.
LEMMA MaxIsGreatest ==
  ASSUME NEW b \in Nat, NEW S \in SUBSET (0 .. b), S # {}
  PROVE  Max(S) \in S /\ \A x \in S : Max(S) >= x
<1> DEFINE bounds == {u \in 0 .. b : \A x \in S : u >= x}
           m == Min(bounds)
<1>1. m \in bounds /\ \A u \in bounds : m <= u
  <2>1. b \in bounds
    OBVIOUS
  <2> QED
    BY <2>1, MinIsLeast
<1>2. m \in S
  <2> SUFFICES ASSUME m \notin S PROVE FALSE
    OBVIOUS
  <2>1. \A x \in S : x < m
    BY <1>1
  <2>2. PICK y \in S : y \in 0 .. b
    OBVIOUS
  <2>3. m \in 1 .. b
    BY <2>1, <2>2, <1>1
  <2>4. m - 1 \in bounds
    BY <2>1, <2>3
  <2> QED
    BY <2>3, <2>4, <1>1
<1>3. \A x \in S : m >= x
  BY <1>1
<1> HIDE DEF m
<1> QED
  BY <1>2, <1>3 DEF Max

\* An element of S that is first at or after t is what First finds.
LEMMA FirstIsUnique ==
  ASSUME NEW S \in SUBSET Location, NEW t \in Nat,
         NEW l \in S, l >= t, \A x \in S : x >= t => l <= x
  PROVE  First(S, t) = l
<1>1. l \in Int /\ First(S, t) \in 0 .. Sentinel /\ First(S, t) <= l
  BY FirstIsFirst DEF Location
<1>2. First(S, t) # Sentinel
  BY FirstIsFirst
<1>3. First(S, t) \in S /\ First(S, t) >= t
  BY <1>2, FirstIsFirst
<1> QED
  BY <1>1, <1>3

\* Without such an element it finds none.
LEMMA FirstIsNone ==
  ASSUME NEW S, NEW t, \A x \in S : ~(x >= t)
  PROVE  First(S, t) = Sentinel
BY DEF First

-----------------------------------------------------------------------------
(* The inductive invariant. *)

\* The chunk, which no step changes.
Chunk ==
  /\ kind \in Kinds
  /\ ends \in SUBSET Location
  /\ matches \in [Children -> SUBSET Location]
  /\ Readable /\ NoEarlyWord

\* ISRAnd: it stands at the end of a document, or every child is at or after
\* the target; no child, and not doc_end_isr_, is past the first match.
AndInv ==
  /\ IF calling THEN \A i \in Children : target <= at[i]
     ELSE loc \in ends /\ target <= loc
  /\ \A m \in Found : target <= m =>
       /\ endAt <= m
       /\ \A i \in Children : \A x \in matches[i] \cap Document(m) : at[i] <= x

\* ISROr: every child is at or after the target, none of them is past a match
\* after the current location, and one is not past a match to be repeated.
OrInv ==
  /\ IF calling THEN loc <= target /\ \A i \in Children : target <= at[i]
     ELSE target <= loc /\ \A i \in Children : loc <= at[i]
  /\ \A m \in Found : target <= m =>
       /\ m > loc => \A i \in Children : m \in matches[i] => at[i] <= m
       /\ \E i \in Children : m \in matches[i] /\ at[i] <= m

\* ISRPhrase: the first word is where the phrase begins, or not before a phrase
\* that ends at the target; no word is past its place in the first match.
PhraseInv ==
  /\ IF calling THEN target <= at[1] + N - 1
     ELSE loc = at[1] + N - 1 /\ target <= loc
  /\ \A m \in Found : target <= m => \A i \in Children : at[i] <= m - N + i

\* ISRContainer: the first child is at the match, or at or after the target,
\* and not past the first match; doc_end_isr_ is not past its document, and
\* the other children not past anything that could exclude it.
ContainerInv ==
  /\ IF calling THEN target <= at[1] ELSE loc = at[1] /\ target <= loc
  /\ \A m \in Found : target <= m => at[1] <= m
  /\ at[1] # Sentinel =>
       /\ endAt <= EndOf(at[1])
       /\ \A i \in Children \ {1} : \A x \in matches[i] : DocStart(EndOf(at[1])) <= x => at[i] <= x

IInv ==
  /\ Chunk
  /\ TypeOK
  /\ calling => loc # Sentinel
  /\ loc # Sentinel =>
       /\ kind = "and" => AndInv
       /\ kind = "or" => OrInv
       /\ kind = "phrase" => PhraseInv
       /\ kind = "container" => ContainerInv

-----------------------------------------------------------------------------
(* Facts about the chunk and about seeking. *)

\* What is found are locations of the chunk, and for all but ISRAnd they are
\* matches of a child.
LEMMA FoundIsLocation ==
  ASSUME Chunk
  PROVE  Found \in SUBSET Location
<1>1. kind \in {"and", "or", "phrase", "container"} /\ 1 \in Children /\ N \in Children
  BY CursorAssumption DEF Chunk, Children
<1>2. \A i \in Children : matches[i] \in SUBSET Location
  BY DEF Chunk
<1>3. CASE kind = "and"
  BY <1>3 DEF Found, Chunk
<1>4. CASE kind = "or"
  BY <1>2, <1>4 DEF Found
<1>5. CASE kind = "phrase"
  BY <1>1, <1>2, <1>5 DEF Found
<1>6. CASE kind = "container"
  BY <1>1, <1>2, <1>6 DEF Found
<1> QED
  BY <1>1, <1>3, <1>4, <1>5, <1>6

\* A document starts after every earlier document's end.
LEMMA DocStartFacts ==
  ASSUME Chunk, NEW e \in ends
  PROVE  /\ DocStart(e) \in 0 .. e
         /\ \A d \in ends : d < e => d < DocStart(e)
<1> DEFINE starts == {s \in 0 .. e : \A x \in ends : x < e => x < s}
<1>1. e \in Nat /\ \A x \in ends : x \in Nat
  BY SentinelAssumption DEF Chunk, Location
<1>2. e \in starts /\ starts \in SUBSET Nat
  BY <1>1
<1>3. Min(starts) \in starts
  <2> HIDE DEF starts
  <2> QED
    BY <1>2, MinIsLeast
<1> QED
  BY <1>3 DEF DocStart

\* seek() of a child: it reaches the first match at or after t that it has not
\* passed already.
LEMMA SoughtFacts ==
  ASSUME Chunk, TypeOK, NEW i \in Children, NEW t \in Nat
  PROVE  /\ Sought(i, t) \in matches[i] \cup {Sentinel}
         /\ Sought(i, t) \in 0 .. Sentinel
         /\ at[i] \in 0 .. Sentinel /\ at[i] <= Sought(i, t)
         /\ Sought(i, t) # Sentinel => t <= Sought(i, t)
         /\ t <= at[i] => Sought(i, t) = at[i]
         /\ \A x \in matches[i] : t <= x /\ at[i] <= x => Sought(i, t) <= x
         /\ \A x \in matches[i] : x \in Nat /\ x < Sentinel
<1>1. /\ matches[i] \in SUBSET Location
      /\ at[i] \in matches[i] \cup {Sentinel}
      /\ \A x \in matches[i] : x \in Nat /\ x < Sentinel
  BY SentinelAssumption DEF Chunk, TypeOK, Location
<1>2. at[i] \in 0 .. Sentinel
  BY <1>1, SentinelAssumption
<1>3. CASE at[i] >= t
  BY <1>1, <1>2, <1>3 DEF Sought, Seeking
<1>4. CASE ~(at[i] >= t)
  <2>1. Sought(i, t) = First(matches[i], t)
    BY <1>4 DEF Sought, Seeking
  <2>2. /\ First(matches[i], t) \in matches[i] \cup {Sentinel}
        /\ First(matches[i], t) \in 0 .. Sentinel
        /\ First(matches[i], t) # Sentinel => First(matches[i], t) >= t
        /\ \A x \in matches[i] : x >= t => First(matches[i], t) <= x
    BY <1>1, FirstIsFirst
  <2> QED
    BY <1>1, <1>2, <1>4, <2>1, <2>2
<1> QED
  BY <1>3, <1>4

\* seek() of doc_end_isr_.
LEMMA SoughtEndFacts ==
  ASSUME Chunk, TypeOK, NEW t \in Nat
  PROVE  /\ SoughtEnd(t) \in ends \cup {Sentinel}
         /\ SoughtEnd(t) \in 0 .. Sentinel
         /\ SoughtEnd(t) # Sentinel => t <= SoughtEnd(t)
         /\ \A x \in ends : t <= x /\ endAt <= x => SoughtEnd(t) <= x
         /\ \A x \in ends : x \in Nat /\ x < Sentinel
<1>1. /\ ends \in SUBSET Location
      /\ endAt \in ends \cup {Sentinel}
      /\ \A x \in ends : x \in Nat /\ x < Sentinel
  BY SentinelAssumption DEF Chunk, TypeOK, Location
<1>2. endAt \in 0 .. Sentinel
  BY <1>1, SentinelAssumption
<1>3. CASE endAt >= t
  BY <1>1, <1>2, <1>3 DEF SoughtEnd, Seeking
<1>4. CASE ~(endAt >= t)
  <2>1. SoughtEnd(t) = First(ends, t)
    BY <1>4 DEF SoughtEnd, Seeking
  <2>2. /\ First(ends, t) \in ends \cup {Sentinel}
        /\ First(ends, t) \in 0 .. Sentinel
        /\ First(ends, t) # Sentinel => First(ends, t) >= t
        /\ \A x \in ends : x >= t => First(ends, t) <= x
    BY <1>1, FirstIsFirst
  <2> QED
    BY <1>1, <1>2, <1>4, <2>1, <2>2
<1> QED
  BY <1>3, <1>4

\* What depends on the chunk alone does not change with a step.
LEMMA ChunkStays ==
  ASSUME UNCHANGED chunk
  PROVE  /\ Found' = Found
         /\ \A e : DocStart(e)' = DocStart(e) /\ Document(e)' = Document(e) /\ EndOf(e)' = EndOf(e)
         /\ Chunk => Chunk'
<1>1. kind' = kind /\ ends' = ends /\ matches' = matches
  BY DEF chunk
<1>2. \A e : DocStart(e)' = DocStart(e) /\ EndOf(e)' = EndOf(e)
  BY <1>1 DEF DocStart, EndOf
<1>3. \A e : Document(e)' = Document(e)
  BY <1>1 DEF Document, DocStart
<1>4. Found' = Found
  BY <1>1 DEF Found, Document, DocStart, EndOf
<1>5. Chunk => Chunk'
  BY <1>1 DEF Chunk, Readable, NoEarlyWord, EndOf
<1> QED
  BY <1>2, <1>3, <1>4, <1>5

\* The four cases of Found.
LEMMA FoundByKind ==
  /\ kind = "and" => Found = {e \in ends : \A i \in Children : matches[i] \cap Document(e) # {}}
  /\ kind = "or" => Found = UNION {matches[i] : i \in Children}
  /\ kind = "phrase" => Found = {m \in matches[N] : \A i \in Children : m - N + i \in matches[i]}
  /\ kind = "container" =>
       Found = {m \in matches[1] : \A i \in 2 .. N : matches[i] \cap Document(EndOf(m)) = {}}
BY Zenon DEF Found

\* The positions of the children, and the one furthest ahead.
LEMMA PositionsFacts ==
  ASSUME TypeOK
  PROVE  /\ \A i \in Children : at[i] \in 0 .. Sentinel
         /\ Max(Positions) \in 0 .. Sentinel /\ Max(Positions) \in Positions
         /\ \A i \in Children : at[i] <= Max(Positions)
         /\ Min(Positions) \in Positions
         /\ \A i \in Children : Min(Positions) <= at[i]
<1>1. Sentinel \in Nat /\ \A i \in Children : at[i] \in 0 .. Sentinel
  BY SentinelAssumption DEF TypeOK, Location
<1>2. Positions \in SUBSET (0 .. Sentinel) /\ Positions # {}
  BY <1>1, CursorAssumption DEF Positions, Children
<1>3. Max(Positions) \in Positions /\ \A x \in Positions : Max(Positions) >= x
  BY <1>1, <1>2, MaxIsGreatest
<1>4. Positions \in SUBSET Nat
  BY <1>1, <1>2
<1>5. Min(Positions) \in Positions /\ \A x \in Positions : Min(Positions) <= x
  BY <1>2, <1>4, MinIsLeast
<1>6. \A i \in Children : at[i] \in Positions
  BY DEF Positions
<1> QED
  BY <1>1, <1>2, <1>3, <1>5, <1>6

-----------------------------------------------------------------------------
(* ISRAnd *)

\* A round of its loop: an AndMatch returns the first match, an AndExhausted
\* finds that there is none, and an AndSkip leaves a document without one.
LEMMA AndRound ==
  ASSUME IInv, AndExhausted \/ AndMatch \/ AndSkip
  PROVE  IInv' /\ (AndSkip \/ loc' = First(Found, target))
<1> USE SentinelAssumption
<1>1. /\ Chunk /\ TypeOK /\ AndInv /\ calling /\ kind = "and" /\ loc # Sentinel
      /\ UNCHANGED chunk /\ target' = target /\ target \in 0 .. Sentinel
  BY DEF IInv, AndExhausted, AndMatch, AndSkip, Exhausted, Returns, LoopsOn, TypeOK
<1>2. /\ Found \in SUBSET Location
      /\ \A m \in Found : m \in ends /\ m \in Nat /\ m < Sentinel
      /\ \A m \in ends : m \in Found <=> \A i \in Children : matches[i] \cap Document(m) # {}
  BY <1>1, FoundIsLocation, FoundByKind DEF Location
<1>3. /\ Found' = Found /\ Chunk' /\ kind' = kind /\ ends' = ends /\ matches' = matches
      /\ \A m : Document(m)' = Document(m)
  BY <1>1, ChunkStays DEF chunk
<1>4. /\ \A i \in Children : at[i] \in 0 .. Sentinel /\ at[i] <= Max(Positions)
      /\ Max(Positions) \in 0 .. Sentinel /\ \E i \in Children : Max(Positions) = at[i]
      /\ Children # {}
  BY <1>1, PositionsFacts, CursorAssumption DEF Positions, Children
<1>5. /\ AndEnd \in ends \cup {Sentinel} /\ AndEnd \in 0 .. Sentinel
      /\ AndEnd # Sentinel => Max(Positions) <= AndEnd
      /\ \A x \in ends : Max(Positions) <= x /\ endAt <= x => AndEnd <= x
  BY <1>1, <1>4, SoughtEndFacts DEF AndEnd
<1>6. \A m \in Found : target <= m =>
        /\ AndEnd <= m
        /\ \A i \in Children : \A x \in matches[i] \cap Document(m) : at[i] <= x
  <2> SUFFICES ASSUME NEW m \in Found, target <= m
               PROVE  /\ AndEnd <= m
                      /\ \A i \in Children : \A x \in matches[i] \cap Document(m) : at[i] <= x
    OBVIOUS
  <2>1. endAt <= m /\ \A i \in Children : \A x \in matches[i] \cap Document(m) : at[i] <= x
    BY <1>1 DEF AndInv
  <2>2. PICK i \in Children : Max(Positions) = at[i]
    BY <1>4
  <2>3. PICK x \in matches[i] : x \in Document(m)
    BY <1>2
  <2>4. x \in Nat /\ x <= m /\ at[i] <= x
    BY <1>2, <2>1, <2>3, DocStartFacts, <1>1 DEF Document
  <2> QED
    BY <1>2, <1>4, <1>5, <2>1, <2>2, <2>4
<1>7. ASSUME AndEnd # Sentinel
      PROVE  /\ DocStart(AndEnd) \in 0 .. AndEnd
             /\ \A m \in ends : AndEnd < m => AndEnd < DocStart(m) /\ DocStart(m) \in 0 .. m
             /\ \A i \in Children :
                  /\ AndAt(i) \in matches[i] \cup {Sentinel} /\ AndAt(i) \in 0 .. Sentinel
                  /\ AndAt(i) # Sentinel => DocStart(AndEnd) <= AndAt(i)
                  /\ \A x \in matches[i] : x \in Nat /\ x < Sentinel
                  /\ \A x \in matches[i] : DocStart(AndEnd) <= x /\ at[i] <= x => AndAt(i) <= x
                  /\ DocStart(AndEnd) <= at[i] => AndAt(i) = at[i]
  <2>1. AndEnd \in ends
    BY <1>5, <1>7
  <2>2. DocStart(AndEnd) \in 0 .. AndEnd /\ DocStart(AndEnd) \in Nat
    BY <1>1, <2>1, DocStartFacts, <1>5
  <2>3. \A m \in ends : AndEnd < m => AndEnd < DocStart(m) /\ DocStart(m) \in 0 .. m
    BY <1>1, <2>1, DocStartFacts
  <2>4. \A i \in Children :
             /\ AndAt(i) \in matches[i] \cup {Sentinel} /\ AndAt(i) \in 0 .. Sentinel
             /\ AndAt(i) # Sentinel => DocStart(AndEnd) <= AndAt(i)
             /\ \A x \in matches[i] : x \in Nat /\ x < Sentinel
             /\ \A x \in matches[i] : DocStart(AndEnd) <= x /\ at[i] <= x => AndAt(i) <= x
             /\ DocStart(AndEnd) <= at[i] => AndAt(i) = at[i]
    BY <1>1, <2>2, SoughtFacts DEF AndAt
  <2> QED
    BY <2>2, <2>3, <2>4
<1>8. CASE AndExhausted
  <2>1. loc' = Sentinel /\ calling' = FALSE /\ at' = at /\ endAt' = endAt
    BY <1>8 DEF AndExhausted, Exhausted, Returns
  <2>2. \A m \in Found : ~(m >= target)
    <3> SUFFICES ASSUME NEW m \in Found, target <= m PROVE FALSE
      BY <1>1, <1>2
    <3>1. AndEnd <= m /\ AndEnd # Sentinel /\ AndEnd \in ends
      BY <1>2, <1>5, <1>6
    <3>2. Sentinel \notin Positions
      BY <1>4, <1>5, <3>1, <1>2 DEF Positions
    <3>3. PICK i \in Children : AndAt(i) = Sentinel
      BY <1>8, <3>1, <3>2 DEF AndExhausted
    <3>4. PICK x \in matches[i] : x \in Document(m)
      BY <1>2
    <3>5. DocStart(m) <= x /\ x <= m /\ DocStart(m) \in Nat /\ x \in Nat
      BY <1>1, <1>2, <3>4, DocStartFacts DEF Document
    <3>6. DocStart(AndEnd) <= DocStart(m)
      BY <1>2, <1>5, <1>7, <3>1, <3>5
    <3>7. at[i] <= x /\ at[i] \in Nat
      BY <1>4, <1>6, <3>4
    <3> QED
      BY <1>7, <1>5, <3>1, <3>3, <3>5, <3>6, <3>7
  <2>3. First(Found, target) = Sentinel
    BY <2>2, FirstIsNone
  <2>4. TypeOK'
    BY <1>1, <1>3, <2>1 DEF TypeOK
  <2> QED
    BY <1>3, <2>1, <2>3, <2>4 DEF IInv
<1>9. CASE AndMatch
  <2>1. /\ AndEnd \in ends /\ AndEnd # Sentinel
        /\ \A i \in Children : AndAt(i) <= AndEnd
        /\ at' = [i \in Children |-> AndAt(i)]
        /\ endAt' = AndEnd /\ loc' = AndEnd /\ calling' = FALSE
    BY <1>5, <1>9 DEF AndMatch, Returns
  <2>2. \A i \in Children : AndAt(i) \in matches[i] /\ AndAt(i) \in Document(AndEnd) /\ at'[i] = AndAt(i)
    BY <1>2, <1>5, <1>7, <2>1 DEF Document
  <2>3. AndEnd \in Found /\ target <= AndEnd
    <3>1. AndEnd \in Found
      BY <1>2, <2>1, <2>2
    <3>2. PICK i \in Children : TRUE
      BY <1>4
    <3>3. target <= at[i] /\ at[i] <= AndEnd
      BY <1>1, <1>4, <1>5, <2>1 DEF AndInv
    <3> QED
      BY <1>1, <1>4, <1>5, <3>1, <3>3
  <2>4. loc' = First(Found, target)
    BY <1>1, <1>2, <1>6, <2>1, <2>3, FirstIsUnique
  <2>5. TypeOK'
    BY <1>1, <1>3, <1>5, <1>7, <2>1, <2>2, <2>3 DEF TypeOK, Chunk, Location
  <2>6. \A m \in Found : target <= m => \A i \in Children : \A x \in matches[i] \cap Document(m) : at'[i] <= x
    <3> SUFFICES ASSUME NEW m \in Found, target <= m, NEW i \in Children, NEW x \in matches[i] \cap Document(m)
                 PROVE  at'[i] <= x
      OBVIOUS
    <3>1. m \in ends /\ AndEnd <= m /\ at[i] <= x
      BY <1>2, <1>6
    <3>2. DocStart(m) <= x /\ x <= m /\ DocStart(m) \in Nat /\ x \in Nat
      BY <1>1, <1>2, <3>1, DocStartFacts DEF Document
    <3>3. DocStart(AndEnd) <= DocStart(m)
      BY <1>2, <1>5, <1>7, <2>1, <3>1, <3>2
    <3> QED
      BY <1>7, <2>1, <2>2, <3>1, <3>2, <3>3
  <2>7. AndInv'
    BY <1>3, <1>1, <1>6, <2>1, <2>3, <2>6 DEF AndInv
  <2> QED
    BY <1>1, <1>3, <2>1, <2>4, <2>5, <2>7 DEF IInv
<1>10. CASE AndSkip
  <2>1. /\ AndEnd \in ends /\ AndEnd # Sentinel /\ AndEnd + 1 \in 0 .. Sentinel
        /\ at' = [i \in Children |-> Sought(i, AndEnd + 1)]
        /\ endAt' = AndEnd /\ loc' = loc /\ calling' = TRUE
    BY <1>1, <1>5, <1>10 DEF AndSkip, LoopsOn, After
  <2>2. AndEnd \notin Found
    <3>1. PICK i \in Children : AndEnd < AndAt(i)
      BY <1>10 DEF AndSkip
    <3>2. at[i] < DocStart(AndEnd) /\ at[i] \in Nat /\ DocStart(AndEnd) \in Nat
      BY <1>4, <1>5, <1>7, <2>1, <3>1
    <3>3. \A x \in matches[i] : x \in Nat /\ ~(DocStart(AndEnd) <= x /\ x <= AndEnd)
      BY <1>5, <1>7, <2>1, <3>1, <3>2
    <3>4. matches[i] \cap Document(AndEnd) = {}
      BY <3>3 DEF Document
    <3> QED
      BY <1>2, <2>1, <3>4
  <2>3. \A i \in Children :
          /\ at'[i] \in matches[i] \cup {Sentinel} /\ at'[i] \in 0 .. Sentinel /\ at[i] <= at'[i]
          /\ \A x \in matches[i] : AndEnd + 1 <= x /\ at[i] <= x => at'[i] <= x
    BY <1>1, <2>1, SoughtFacts
  <2>4. TypeOK'
    BY <1>1, <1>3, <2>1, <2>3 DEF TypeOK, Chunk, Location
  <2>5. \A m \in Found : target <= m =>
          /\ AndEnd <= m
          /\ \A i \in Children : \A x \in matches[i] \cap Document(m) : at'[i] <= x
    <3> SUFFICES ASSUME NEW m \in Found, target <= m, NEW i \in Children, NEW x \in matches[i] \cap Document(m)
                 PROVE  at'[i] <= x
      BY <1>6
    <3>1. m \in ends /\ AndEnd < m /\ at[i] <= x
      BY <1>2, <1>5, <1>6, <2>2
    <3>2. AndEnd + 1 <= x
      BY <1>1, <1>2, <1>5, <1>7, <2>1, <3>1, DocStartFacts DEF Document
    <3> QED
      BY <2>3, <3>1, <3>2
  <2>6. \A i \in Children : target <= at'[i]
    BY <1>1, <1>4, <2>3 DEF AndInv
  <2>7. AndInv'
    BY <1>1, <1>3, <2>1, <2>5, <2>6 DEF AndInv
  <2> QED
    BY <1>1, <1>3, <1>10, <2>1, <2>4, <2>7 DEF IInv
<1> QED
  BY <1>8, <1>9, <1>10

-----------------------------------------------------------------------------
(* ISROr *)

\* The least of the children's positions is the first match.
LEMMA OrRound ==
  ASSUME IInv, OrReturn
  PROVE  IInv' /\ loc' = First(Found, target)
<1> USE SentinelAssumption
<1>1. /\ Chunk /\ TypeOK /\ OrInv /\ calling /\ kind = "or" /\ loc # Sentinel
      /\ UNCHANGED chunk /\ target' = target /\ target \in 0 .. Sentinel /\ loc \in 0 .. Sentinel
      /\ loc' = Min(Positions) /\ calling' = FALSE /\ at' = at /\ endAt' = endAt
  BY FoundIsLocation DEF IInv, OrReturn, Returns, TypeOK, Location
<1>2. /\ Found \in SUBSET Location
      /\ \A m \in Found : m \in Nat /\ m < Sentinel
      /\ \A m : m \in Found <=> \E i \in Children : m \in matches[i]
  BY <1>1, FoundIsLocation, FoundByKind DEF Location
<1>3. Found' = Found /\ Chunk' /\ kind' = kind /\ ends' = ends /\ matches' = matches
  BY <1>1, ChunkStays DEF chunk
<1>4. /\ \A i \in Children : at[i] \in matches[i] \cup {Sentinel} /\ at[i] \in 0 .. Sentinel
      /\ \A i \in Children : target <= at[i] /\ loc' <= at[i]
      /\ \E i \in Children : loc' = at[i]
      /\ loc <= target
  BY <1>1, PositionsFacts DEF Positions, TypeOK, OrInv
<1>5. \A m \in Found : m >= target => loc' <= m
  <2> SUFFICES ASSUME NEW m \in Found, target <= m PROVE loc' <= m
    BY <1>1, <1>2
  <2>1. PICK i \in Children : m \in matches[i] /\ at[i] <= m
    BY <1>1 DEF OrInv
  <2> QED
    BY <1>2, <1>4, <2>1
<1>6. loc' = First(Found, target) /\ loc' \in Found \cup {Sentinel}
  <2>1. loc' \in Found \cup {Sentinel} /\ loc' \in 0 .. Sentinel /\ loc' >= target
    BY <1>1, <1>2, <1>4
  <2>2. CASE loc' = Sentinel
    <3>1. \A m \in Found : ~(m >= target)
      BY <1>2, <1>5, <2>2
    <3> QED
      BY <2>2, <3>1, FirstIsNone
  <2>3. CASE loc' \in Found
    BY <1>1, <1>2, <1>5, <2>1, <2>3, FirstIsUnique
  <2> QED
    BY <2>1, <2>2, <2>3
<1>7. TypeOK'
  BY <1>1, <1>3, <1>6 DEF TypeOK
<1>8. OrInv'
  <2>1. target <= loc' /\ \A i \in Children : loc' <= at[i]
    BY <1>4
  <2>2. ASSUME NEW m \in Found, target <= m
        PROVE  /\ m > loc' => \A i \in Children : m \in matches[i] => at[i] <= m
               /\ \E i \in Children : m \in matches[i] /\ at[i] <= m
    <3>1. m > loc' => m > loc
      BY <1>1, <1>2, <1>4
    <3> QED
      BY <1>1, <2>2, <3>1 DEF OrInv
  <2> QED
    BY <1>1, <1>3, <2>1, <2>2 DEF OrInv
<1> QED
  BY <1>1, <1>3, <1>6, <1>7, <1>8 DEF IInv

-----------------------------------------------------------------------------
(* ISRPhrase *)

\* A round of its loop: a PhraseMatch returns the first match, a PhraseExhausted
\* finds that there is none, and a PhraseMove passes no word's place in one.
LEMMA PhraseRound ==
  ASSUME IInv, PhraseExhausted \/ PhraseMatch \/ PhraseMove
  PROVE  IInv' /\ (PhraseMove \/ loc' = First(Found, target))
<1> USE SentinelAssumption
<1>1. /\ Chunk /\ TypeOK /\ PhraseInv /\ calling /\ kind = "phrase" /\ loc # Sentinel
      /\ UNCHANGED chunk /\ target' = target /\ target \in 0 .. Sentinel
      /\ N \in Nat \ {0} /\ Children = 1 .. N /\ 1 \in Children /\ N \in Children
  BY CursorAssumption
  DEF IInv, PhraseExhausted, PhraseMatch, PhraseMove, Exhausted, Returns, LoopsOn, TypeOK, Children
<1>2. /\ Found \in SUBSET Location
      /\ \A m \in Found : m \in Nat /\ m < Sentinel
      /\ \A m : m \in Found <=> m \in matches[N] /\ \A i \in Children : m - N + i \in matches[i]
  BY <1>1, FoundIsLocation, FoundByKind DEF Location
<1>3. Found' = Found /\ Chunk' /\ kind' = kind /\ ends' = ends /\ matches' = matches
  BY <1>1, ChunkStays DEF chunk
<1>4. \A i \in Children : at[i] \in matches[i] \cup {Sentinel} /\ at[i] \in 0 .. Sentinel
  BY <1>1, PositionsFacts DEF TypeOK
<1>5. ASSUME Sentinel \notin Positions
      PROVE  /\ \A i \in Children : at[i] - (i - 1) <= PhraseStart
             /\ \E i \in Children : PhraseStart = at[i] - (i - 1)
             /\ PhraseStart \in Nat
             /\ \A i \in Children : Place(i) = PhraseStart + i - 1 /\ Place(i) \in Nat
             /\ \A i \in Children :
                  /\ PhraseAt(i) \in matches[i] \cup {Sentinel} /\ PhraseAt(i) \in 0 .. Sentinel
                  /\ at[i] <= PhraseAt(i)
                  /\ \A x \in matches[i] : Place(i) <= x /\ at[i] <= x => PhraseAt(i) <= x
  <2>1. \A i \in Children : at[i] \in matches[i] /\ at[i] # Sentinel
    BY <1>4, <1>5 DEF Positions
  <2>2. \A i \in Children : at[i] >= i - 1
    BY <1>1, <2>1 DEF Chunk, NoEarlyWord
  <2>3. \A i \in Children : Implied(i) = at[i] - (i - 1) /\ Implied(i) \in 0 .. Sentinel
    BY <1>1, <1>4, <2>2 DEF Implied
  <2>4. {Implied(i) : i \in Children} \in SUBSET (0 .. Sentinel) /\ {Implied(i) : i \in Children} # {}
    BY <1>1, <2>3
  <2>5. /\ PhraseStart \in {Implied(i) : i \in Children}
        /\ \A x \in {Implied(i) : i \in Children} : PhraseStart >= x
    BY <2>4, MaxIsGreatest DEF PhraseStart
  <2>6. /\ PhraseStart \in Nat
        /\ \A i \in Children : at[i] - (i - 1) <= PhraseStart
        /\ \E i \in Children : PhraseStart = at[i] - (i - 1)
    BY <2>3, <2>5
  <2>7. \A i \in Children : Place(i) = PhraseStart + i - 1 /\ Place(i) \in Nat
    BY <1>1, <2>6 DEF Place
  <2>8. \A i \in Children :
          /\ PhraseAt(i) \in matches[i] \cup {Sentinel} /\ PhraseAt(i) \in 0 .. Sentinel
          /\ at[i] <= PhraseAt(i)
          /\ \A x \in matches[i] : Place(i) <= x /\ at[i] <= x => PhraseAt(i) <= x
    BY <1>1, <2>7, SoughtFacts DEF PhraseAt
  <2> QED
    BY <2>6, <2>7, <2>8
<1>6. \A m \in Found : target <= m => \A i \in Children : at[i] <= m - N + i /\ at[i] # Sentinel
  BY <1>1, <1>2 DEF PhraseInv
<1>7. ASSUME Sentinel \notin Positions, NEW m \in Found, target <= m
      PROVE  /\ PhraseStart + N - 1 <= m
             /\ \A i \in Children : PhraseAt(i) <= m - N + i
  <2>1. PhraseStart <= m - N + 1
    <3>1. PICK j \in Children : PhraseStart = at[j] - (j - 1)
      BY <1>5, <1>7
    <3>2. at[j] <= m - N + j /\ at[j] \in Nat /\ j \in Nat /\ m \in Nat /\ N \in Nat
      BY <1>1, <1>2, <1>4, <1>6, <1>7
    <3> QED
      BY <3>1, <3>2
  <2>2. \A i \in Children : Place(i) <= m - N + i /\ m - N + i \in matches[i] /\ at[i] <= m - N + i
    <3> SUFFICES ASSUME NEW i \in Children
                 PROVE  Place(i) <= m - N + i /\ m - N + i \in matches[i] /\ at[i] <= m - N + i
      OBVIOUS
    <3>1. m - N + i \in matches[i] /\ at[i] <= m - N + i
      BY <1>2, <1>6, <1>7
    <3>2. Place(i) = PhraseStart + i - 1 /\ PhraseStart \in Nat
      BY <1>5, <1>7
    <3>3. i \in Nat /\ N \in Nat /\ m \in Nat
      BY <1>1, <1>2, <1>7
    <3> QED
      BY <2>1, <3>1, <3>2, <3>3
  <2>3. \A i \in Children : \A x \in matches[i] : Place(i) <= x /\ at[i] <= x => PhraseAt(i) <= x
    BY <1>5, <1>7
  <2>4. \A i \in Children : PhraseAt(i) <= m - N + i
    BY <2>2, <2>3
  <2>5. PhraseStart \in Nat
    BY <1>5, <1>7
  <2> QED
    BY <1>1, <1>2, <2>1, <2>4, <2>5
<1>8. CASE PhraseExhausted
  <2>1. loc' = Sentinel /\ calling' = FALSE /\ at' = at /\ endAt' = endAt
    BY <1>8 DEF PhraseExhausted, Exhausted, Returns
  <2>2. \A m \in Found : ~(m >= target)
    <3> SUFFICES ASSUME NEW m \in Found, target <= m PROVE FALSE
      BY <1>1, <1>2
    <3>1. Sentinel \notin Positions
      BY <1>1, <1>6 DEF Positions
    <3>2. PICK i \in Children : PhraseAt(i) = Sentinel
      BY <1>8, <3>1 DEF PhraseExhausted
    <3>3. Sentinel <= m - N + i
      BY <1>7, <3>1, <3>2
    <3> QED
      BY <1>1, <1>2, <3>3
  <2>3. First(Found, target) = Sentinel
    BY <2>2, FirstIsNone
  <2>4. TypeOK'
    BY <1>1, <1>3, <2>1 DEF TypeOK
  <2> QED
    BY <1>3, <2>1, <2>3, <2>4 DEF IInv
<1>9. CASE PhraseMatch
  <2>1. /\ Sentinel \notin Positions
        /\ \A i \in Children : PhraseAt(i) = Place(i) /\ PhraseAt(i) # Sentinel
        /\ at' = [i \in Children |-> PhraseAt(i)]
        /\ endAt' = endAt /\ loc' = Place(N) /\ calling' = FALSE
    BY <1>9 DEF PhraseMatch, Returns, InPlace
  <2>2. \A i \in Children : Place(i) \in matches[i] /\ at'[i] = Place(i) /\ Place(i) = PhraseStart + i - 1
    BY <1>5, <2>1
  <2>3. loc' = PhraseStart + N - 1 /\ PhraseStart \in Nat /\ at'[1] = PhraseStart
    BY <1>1, <1>5, <2>1, <2>2
  <2>4. \A i \in Children : loc' - N + i = Place(i)
    BY <1>1, <2>2, <2>3
  <2>5. loc' \in Found /\ loc' >= target
    <3>1. loc' \in Found
      BY <1>1, <1>2, <2>1, <2>2, <2>4
    <3>2. at[1] <= PhraseStart /\ at[1] \in Nat
      BY <1>1, <1>4, <1>5, <2>1
    <3> QED
      BY <1>1, <2>3, <3>1, <3>2 DEF PhraseInv
  <2>6. loc' = First(Found, target)
    <3>1. \A m \in Found : m >= target => loc' <= m
      BY <1>1, <1>2, <1>7, <2>1, <2>3
    <3> QED
      BY <1>1, <1>2, <2>5, <3>1, FirstIsUnique
  <2>7. TypeOK'
    BY <1>1, <1>3, <1>5, <2>1, <2>2, <2>5 DEF TypeOK, Chunk, Location
  <2>8. PhraseInv'
    <3>1. \A m \in Found : target <= m => \A i \in Children : at'[i] <= m - N + i
      BY <1>7, <2>1
    <3>2. loc' = at'[1] + N - 1 /\ target <= loc'
      BY <1>1, <2>3, <2>5
    <3> QED
      BY <1>1, <1>3, <2>1, <3>1, <3>2 DEF PhraseInv
  <2> QED
    BY <1>1, <1>3, <2>1, <2>6, <2>7, <2>8 DEF IInv
<1>10. CASE PhraseMove
  <2>1. PICK k \in Children :
          /\ Sentinel \notin Positions
          /\ at' = [j \in Children |-> IF j <= k THEN PhraseAt(j) ELSE at[j]]
          /\ endAt' = endAt /\ loc' = loc /\ calling' = TRUE
    BY <1>1, <1>10 DEF PhraseMove, LoopsOn
  <2>2. \A i \in Children : at'[i] = PhraseAt(i) \/ at'[i] = at[i]
    BY <2>1
  <2>3. TypeOK'
    BY <1>1, <1>3, <1>4, <1>5, <2>1, <2>2 DEF TypeOK, Chunk, Location
  <2>4. PhraseInv'
    <3>1. \A m \in Found : target <= m => \A i \in Children : at'[i] <= m - N + i
      BY <1>6, <1>7, <2>1, <2>2
    <3>2. at[1] <= at'[1] /\ at[1] \in Nat /\ at'[1] \in Nat
      BY <1>1, <1>4, <1>5, <2>1, <2>2
    <3>3. target <= at'[1] + N - 1
      BY <1>1, <3>2 DEF PhraseInv
    <3> QED
      BY <1>1, <1>3, <2>1, <3>1, <3>3 DEF PhraseInv
  <2> QED
    BY <1>1, <1>3, <1>10, <2>1, <2>3, <2>4 DEF IInv
<1> QED
  BY <1>8, <1>9, <1>10

-----------------------------------------------------------------------------
(* ISRContainer *)

\* Every match is in a document, which ends at or after it.
LEMMA EndOfFacts ==
  ASSUME Chunk, NEW i \in Children, NEW x \in matches[i]
  PROVE  /\ x \in Nat /\ x < Sentinel
         /\ EndOf(x) \in ends /\ EndOf(x) \in Nat /\ EndOf(x) < Sentinel /\ x <= EndOf(x)
         /\ DocStart(EndOf(x)) \in 0 .. EndOf(x)
         /\ \A d \in ends : d \in Nat /\ (x <= d => EndOf(x) <= d)
<1>1. ends \in SUBSET Location /\ x \in Location
  BY DEF Chunk
<1>2. x \in Nat /\ x < Sentinel /\ \A d \in ends : d \in Nat /\ d < Sentinel
  BY <1>1, SentinelAssumption DEF Location
<1>3. EndOf(x) # Sentinel
  BY DEF Chunk, Readable
<1>4. EndOf(x) \in ends /\ EndOf(x) >= x /\ \A d \in ends : d >= x => EndOf(x) <= d
  BY <1>1, <1>2, <1>3, FirstIsFirst DEF EndOf
<1>5. DocStart(EndOf(x)) \in 0 .. EndOf(x)
  BY <1>4, DocStartFacts
<1> QED
  BY <1>2, <1>4, <1>5

\* Of two matches of a child, the later one's document starts no earlier.
LEMMA DocumentsInOrder ==
  ASSUME Chunk, NEW i \in Children, NEW x \in matches[i], NEW y \in matches[i], x <= y
  PROVE  EndOf(x) <= EndOf(y) /\ DocStart(EndOf(x)) <= DocStart(EndOf(y))
<1>1. EndOf(x) \in ends /\ EndOf(y) \in ends /\ EndOf(x) <= EndOf(y)
  BY EndOfFacts
<1>2. EndOf(x) < EndOf(y) => EndOf(x) < DocStart(EndOf(y))
  BY <1>1, DocStartFacts
<1> QED
  BY <1>1, <1>2, EndOfFacts

\* Moving the first child forward keeps the rest of ContainerInv.
LEMMA FirstChildMoves ==
  ASSUME IInv, kind = "container", loc # Sentinel, NEW p \in matches[1], at[1] <= p
  PROVE  /\ endAt <= EndOf(p)
         /\ \A i \in Children \ {1} : \A x \in matches[i] : DocStart(EndOf(p)) <= x => at[i] <= x
<1>1. Chunk /\ TypeOK /\ ContainerInv /\ 1 \in Children
  BY CursorAssumption DEF IInv, Children
<1>2. p \in Nat /\ p < Sentinel
  BY <1>1, EndOfFacts
<1>3. at[1] \in matches[1] /\ at[1] # Sentinel
  BY <1>1, <1>2, SentinelAssumption DEF TypeOK
<1>4. EndOf(at[1]) <= EndOf(p) /\ DocStart(EndOf(at[1])) <= DocStart(EndOf(p))
  BY <1>1, <1>3, DocumentsInOrder
<1>5. /\ endAt \in 0 .. Sentinel
      /\ EndOf(p) \in Nat /\ EndOf(at[1]) \in Nat
      /\ DocStart(EndOf(p)) \in Nat /\ DocStart(EndOf(at[1])) \in Nat
  BY <1>1, <1>3, EndOfFacts, SentinelAssumption DEF TypeOK, Chunk, Location
<1>6. endAt <= EndOf(p)
  BY <1>1, <1>3, <1>4, <1>5 DEF ContainerInv
<1>7. ASSUME NEW i \in Children \ {1}, NEW x \in matches[i], DocStart(EndOf(p)) <= x
      PROVE  at[i] <= x
  <2>1. x \in Nat
    BY <1>1, EndOfFacts
  <2>2. DocStart(EndOf(at[1])) <= x
    BY <1>4, <1>5, <1>7, <2>1
  <2> QED
    BY <1>1, <1>3, <2>2 DEF ContainerInv
<1> QED
  BY <1>6, <1>7

\* A round of its loop: a ContainerMatch returns the first match, a
\* ContainerExhausted finds that there is none, and a ContainerSkip leaves a
\* document without one.
LEMMA ContainerRound ==
  ASSUME IInv, ContainerExhausted \/ ContainerMatch \/ ContainerSkip
  PROVE  IInv' /\ (ContainerSkip \/ loc' = First(Found, target))
<1> USE SentinelAssumption
<1>1. /\ Chunk /\ TypeOK /\ ContainerInv /\ calling /\ kind = "container" /\ loc # Sentinel
      /\ UNCHANGED chunk /\ target' = target /\ target \in 0 .. Sentinel
      /\ 1 \in Children /\ 2 .. N = Children \ {1}
  BY CursorAssumption
  DEF IInv, ContainerExhausted, ContainerMatch, ContainerSkip, Exhausted, Returns, LoopsOn, TypeOK, Children
<1>2. /\ Found \in SUBSET Location
      /\ \A m \in Found : m \in Nat /\ m < Sentinel
      /\ \A m : m \in Found <=>
           m \in matches[1] /\ \A i \in Children \ {1} : matches[i] \cap Document(EndOf(m)) = {}
  BY <1>1, FoundIsLocation, FoundByKind DEF Location
<1>3. /\ Found' = Found /\ Chunk' /\ kind' = kind /\ ends' = ends /\ matches' = matches
      /\ \A e : DocStart(e)' = DocStart(e) /\ EndOf(e)' = EndOf(e)
  BY <1>1, ChunkStays DEF chunk
<1>4. /\ \A i \in Children : at[i] \in matches[i] \cup {Sentinel} /\ at[i] \in 0 .. Sentinel
      /\ target <= at[1]
      /\ \A m \in Found : target <= m => at[1] <= m
  BY <1>1, PositionsFacts DEF TypeOK, ContainerInv
<1>5. ASSUME at[1] # Sentinel
      PROVE  /\ at[1] \in matches[1]
             /\ ContainerEnd = EndOf(at[1]) /\ ContainerEnd \in ends
             /\ ContainerEnd \in Nat /\ ContainerEnd < Sentinel /\ at[1] <= ContainerEnd
             /\ DocStart(ContainerEnd) \in 0 .. ContainerEnd
  <2>1. /\ at[1] \in matches[1] /\ at[1] \in Nat
        /\ EndOf(at[1]) \in ends /\ EndOf(at[1]) \in Nat /\ EndOf(at[1]) < Sentinel /\ at[1] <= EndOf(at[1])
        /\ DocStart(EndOf(at[1])) \in 0 .. EndOf(at[1])
        /\ \A d \in ends : d \in Nat /\ (at[1] <= d => EndOf(at[1]) <= d)
    BY <1>1, <1>4, <1>5, EndOfFacts
  <2>2. endAt <= EndOf(at[1])
    BY <1>1, <1>5 DEF ContainerInv
  <2>3. /\ ContainerEnd \in ends \cup {Sentinel} /\ ContainerEnd \in 0 .. Sentinel
        /\ ContainerEnd # Sentinel => at[1] <= ContainerEnd
        /\ ContainerEnd <= EndOf(at[1])
    BY <1>1, <2>1, <2>2, SoughtEndFacts DEF ContainerEnd
  <2>4. ContainerEnd = EndOf(at[1])
    BY <2>1, <2>3
  <2> QED
    BY <2>1, <2>4
<1>6. ASSUME at[1] # Sentinel
      PROVE  \A i \in Children \ {1} :
               /\ NegativeAt(i) \in matches[i] \cup {Sentinel} /\ NegativeAt(i) \in 0 .. Sentinel
               /\ NegativeAt(i) # Sentinel => DocStart(ContainerEnd) <= NegativeAt(i)
               /\ \A x \in matches[i] : DocStart(ContainerEnd) <= x => NegativeAt(i) <= x
               /\ \A x \in matches[i] : DocStart(ContainerEnd) <= x => at[i] <= x
  <2>1. DocStart(ContainerEnd) \in Nat /\ ContainerEnd = EndOf(at[1])
    BY <1>5, <1>6
  <2>2. \A i \in Children \ {1} : \A x \in matches[i] : DocStart(ContainerEnd) <= x => at[i] <= x
    BY <1>1, <1>6, <2>1 DEF ContainerInv
  <2>3. \A i \in Children \ {1} :
          /\ NegativeAt(i) \in matches[i] \cup {Sentinel} /\ NegativeAt(i) \in 0 .. Sentinel
          /\ NegativeAt(i) # Sentinel => DocStart(ContainerEnd) <= NegativeAt(i)
          /\ \A x \in matches[i] : DocStart(ContainerEnd) <= x /\ at[i] <= x => NegativeAt(i) <= x
    BY <1>1, <2>1, SoughtFacts DEF NegativeAt
  <2> QED
    BY <2>2, <2>3
<1>7. CASE ContainerExhausted
  <2>1. loc' = Sentinel /\ calling' = FALSE /\ at' = at /\ endAt' = endAt /\ at[1] = Sentinel
    BY <1>5, <1>7 DEF ContainerExhausted, Exhausted, Returns
  <2>2. \A m \in Found : ~(m >= target)
    BY <1>1, <1>2, <1>4, <2>1
  <2>3. First(Found, target) = Sentinel
    BY <2>2, FirstIsNone
  <2>4. TypeOK'
    BY <1>1, <1>3, <2>1 DEF TypeOK
  <2> QED
    BY <1>3, <2>1, <2>3, <2>4 DEF IInv
<1>8. CASE ContainerMatch
  <2>1. /\ at[1] # Sentinel
        /\ \A i \in Children \ {1} : ~(NegativeAt(i) <= ContainerEnd)
        /\ at' = [i \in Children |-> IF i = 1 THEN at[1] ELSE NegativeAt(i)]
        /\ endAt' = ContainerEnd /\ loc' = at[1] /\ calling' = FALSE
    BY <1>1, <1>8 DEF ContainerMatch, Returns, Excludes
  <2>2. /\ at'[1] = at[1]
        /\ \A i \in Children \ {1} : at'[i] = NegativeAt(i)
    BY <1>1, <2>1
  <2>3. at[1] \in Found
    <3>1. ASSUME NEW i \in Children \ {1}, NEW x \in matches[i], x \in Document(ContainerEnd) PROVE FALSE
      <4>1. DocStart(ContainerEnd) <= x /\ x <= ContainerEnd /\ x \in Int
        BY <1>5, <2>1, <3>1 DEF Document
      <4>2. NegativeAt(i) <= x /\ NegativeAt(i) \in Nat
        BY <1>6, <2>1, <4>1
      <4> QED
        BY <1>5, <2>1, <4>1, <4>2
    <3> QED
      BY <1>2, <1>5, <2>1, <3>1
  <2>4. loc' = First(Found, target)
    BY <1>1, <1>2, <1>4, <2>1, <2>3, FirstIsUnique
  <2>5. TypeOK'
    BY <1>1, <1>3, <1>4, <1>5, <1>6, <2>1, <2>2, <2>3 DEF TypeOK, Chunk, Location
  <2>6. ContainerInv'
    <3>1. loc' = at'[1] /\ target <= loc' /\ \A m \in Found : target <= m => at'[1] <= m
      BY <1>4, <2>1, <2>2
    <3>2. /\ endAt' <= EndOf(at'[1])
          /\ \A i \in Children \ {1} : \A x \in matches[i] : DocStart(EndOf(at'[1])) <= x => at'[i] <= x
      BY <1>5, <1>6, <2>1, <2>2
    <3> QED
      BY <1>1, <1>3, <2>1, <3>1, <3>2 DEF ContainerInv
  <2> QED
    BY <1>1, <1>3, <2>1, <2>4, <2>5, <2>6 DEF IInv
<1>9. CASE ContainerSkip
  <2>1. PICK k \in Children \ {1} :
          /\ at[1] # Sentinel
          /\ NegativeAt(k) <= ContainerEnd
          /\ at' = [j \in Children |-> IF j = 1 THEN Sought(1, ContainerEnd + 1)
                                       ELSE IF j <= k THEN NegativeAt(j)
                                       ELSE at[j]]
          /\ endAt' = ContainerEnd /\ loc' = loc /\ calling' = TRUE
    BY <1>1, <1>9 DEF ContainerSkip, LoopsOn, Excludes, After
  <2>2. /\ at'[1] = Sought(1, ContainerEnd + 1)
        /\ \A i \in Children \ {1} : at'[i] = NegativeAt(i) \/ at'[i] = at[i]
    BY <1>1, <2>1
  <2>3. /\ at'[1] \in matches[1] \cup {Sentinel} /\ at'[1] \in 0 .. Sentinel /\ at[1] <= at'[1]
        /\ at'[1] # Sentinel => ContainerEnd + 1 <= at'[1]
        /\ \A x \in matches[1] : ContainerEnd + 1 <= x /\ at[1] <= x => at'[1] <= x
    BY <1>1, <1>5, <2>1, <2>2, SoughtFacts
  <2>4. \A m \in Found : target <= m => at'[1] <= m
    <3> SUFFICES ASSUME NEW m \in Found, target <= m PROVE at'[1] <= m
      OBVIOUS
    <3>1. m \in matches[1] /\ at[1] <= m /\ m \in Nat
      BY <1>2, <1>4
    <3>2. EndOf(m) # ContainerEnd
      <4>1. NegativeAt(k) \in matches[k] /\ NegativeAt(k) \in Document(ContainerEnd)
        BY <1>5, <1>6, <2>1 DEF Document
      <4> QED
        BY <1>2, <4>1
    <3>3. ContainerEnd <= EndOf(m) /\ EndOf(m) \in Nat
      BY <1>1, <1>5, <2>1, <3>1, DocumentsInOrder, EndOfFacts
    <3>4. ~(m <= ContainerEnd)
      BY <1>1, <1>5, <2>1, <3>1, <3>2, <3>3, EndOfFacts
    <3> QED
      BY <1>5, <2>1, <2>3, <3>1, <3>4
  <2>5. TypeOK'
    <3>1. \A i \in Children : at'[i] \in matches[i] \cup {Sentinel}
      BY <1>4, <1>6, <2>1, <2>2, <2>3
    <3>2. at' \in [Children -> Location \cup {Sentinel}]
      BY <1>1, <2>1, <3>1 DEF Chunk
    <3> QED
      BY <1>1, <1>3, <1>5, <2>1, <3>1, <3>2 DEF TypeOK
  <2>6. ContainerInv'
    <3>1. target <= at'[1]
      BY <1>1, <1>4, <2>3
    <3>2. ASSUME at'[1] # Sentinel
          PROVE  /\ endAt' <= EndOf(at'[1])
                 /\ \A i \in Children \ {1} : \A x \in matches[i] :
                      DocStart(EndOf(at'[1])) <= x => at'[i] <= x
      <4>1. at'[1] \in matches[1]
        BY <2>3, <3>2
      <4>2. ContainerEnd <= EndOf(at'[1]) /\ DocStart(ContainerEnd) <= DocStart(EndOf(at'[1]))
        BY <1>1, <1>5, <2>1, <2>3, <4>1, DocumentsInOrder
      <4>3. DocStart(ContainerEnd) \in Nat /\ DocStart(EndOf(at'[1])) \in Nat
        BY <1>1, <1>5, <2>1, <4>1, EndOfFacts
      <4>4. ASSUME NEW i \in Children \ {1}, NEW x \in matches[i], DocStart(EndOf(at'[1])) <= x
            PROVE  at'[i] <= x
        <5>1. DocStart(ContainerEnd) <= x
          BY <1>1, <4>2, <4>3, <4>4, EndOfFacts
        <5> QED
          BY <1>6, <2>1, <2>2, <5>1
      <4> QED
        BY <2>1, <4>2, <4>4
    <3> QED
      BY <1>1, <1>3, <2>1, <2>4, <3>1, <3>2 DEF ContainerInv
  <2> QED
    BY <1>1, <1>3, <1>9, <2>1, <2>5, <2>6 DEF IInv
<1> QED
  BY <1>7, <1>8, <1>9

-----------------------------------------------------------------------------
(* Calls *)

Calls == NextAnd \/ NextOr \/ NextOfFirst \/ \E t \in SeekTargets : Seek(t)

\* Of ISRAnd: every child is sought to the start of a document.
LEMMA AndCalls ==
  ASSUME IInv, Calls, kind = "and"
  PROVE  IInv' /\ target' \in loc .. Sentinel
<1> USE SentinelAssumption
<1>1. /\ Chunk /\ TypeOK /\ ~calling /\ loc # Sentinel /\ AndInv
      /\ UNCHANGED chunk /\ calling' = TRUE /\ loc' = loc /\ endAt' = endAt
  BY DEF IInv, Calls, NextAnd, NextOr, NextOfFirst, Seek, Asks
<1>2. /\ Found \in SUBSET Location
      /\ \A m \in Found : m \in ends
      /\ \A m \in ends : m \in Nat /\ m < Sentinel
      /\ loc \in ends /\ target <= loc /\ target \in 0 .. Sentinel
  BY <1>1, FoundIsLocation, FoundByKind DEF Location, AndInv, Chunk, TypeOK
<1>3. Found' = Found /\ Chunk' /\ kind' = kind /\ ends' = ends /\ matches' = matches
      /\ \A m : Document(m)' = Document(m)
  BY <1>1, ChunkStays DEF chunk
<1>4. PICK d \in ends : /\ target' = d + 1 /\ loc < target'
                        /\ at' = [i \in Children |-> Sought(i, target')]
  <2>1. CASE NextAnd
    BY <1>2, <2>1 DEF NextAnd, Asks
  <2>2. CASE \E t \in SeekTargets : Seek(t)
    BY <2>2 DEF SeekTargets, Seek, Asks, After
  <2> QED
    BY <2>1, <2>2 DEF Calls, NextOr, NextOfFirst
<1>5. target' \in 0 .. Sentinel
  BY <1>2, <1>4
<1>6. \A i \in Children :
        /\ at'[i] \in matches[i] \cup {Sentinel} /\ target' <= at'[i]
        /\ \A x \in matches[i] : target' <= x /\ at[i] <= x => at'[i] <= x
  <2> TAKE i \in Children
  <2>1. at'[i] = Sought(i, target')
    BY <1>4
  <2>2. /\ Sought(i, target') \in matches[i] \cup {Sentinel}
        /\ Sought(i, target') # Sentinel => target' <= Sought(i, target')
        /\ \A x \in matches[i] : target' <= x /\ at[i] <= x => Sought(i, target') <= x
    BY <1>1, <1>5, SoughtFacts
  <2> QED
    BY <1>5, <2>1, <2>2
<1>7. TypeOK'
  BY <1>1, <1>3, <1>4, <1>5, <1>6 DEF TypeOK, Chunk
<1>8. AndInv'
  <2>1. ASSUME NEW m \in Found, target' <= m
        PROVE  endAt <= m /\ \A i \in Children : \A x \in matches[i] \cap Document(m) : at'[i] <= x
    <3>1. m \in ends /\ d < m /\ target <= m
      BY <1>2, <1>4, <2>1
    <3>2. endAt <= m /\ \A i \in Children : \A x \in matches[i] \cap Document(m) : at[i] <= x
      BY <1>1, <3>1 DEF AndInv
    <3>3. \A x \in Document(m) : target' <= x
      BY <1>1, <1>2, <1>4, <3>1, DocStartFacts DEF Document
    <3> QED
      BY <1>6, <3>2, <3>3
  <2> QED
    BY <1>1, <1>3, <1>6, <2>1 DEF AndInv
<1> QED
  BY <1>1, <1>2, <1>3, <1>4, <1>5, <1>7, <1>8 DEF IInv

\* Of ISROr: every child is sought, or those at the current match move on.
LEMMA OrCalls ==
  ASSUME IInv, Calls, kind = "or"
  PROVE  IInv' /\ target' \in loc .. Sentinel
<1> USE SentinelAssumption
<1>1. /\ Chunk /\ TypeOK /\ ~calling /\ loc # Sentinel /\ OrInv
      /\ UNCHANGED chunk /\ calling' = TRUE /\ loc' = loc /\ endAt' = endAt
  BY DEF IInv, Calls, NextAnd, NextOr, NextOfFirst, Seek, Asks
<1>2. /\ Found \in SUBSET Location
      /\ \A m \in Found : m \in Nat /\ m < Sentinel
      /\ \A m : m \in Found <=> \E i \in Children : m \in matches[i]
      /\ loc \in 0 .. Sentinel /\ target <= loc /\ target \in 0 .. Sentinel
      /\ \A i \in Children : /\ loc <= at[i] /\ at[i] \in 0 .. Sentinel /\ at[i] \in matches[i] \cup {Sentinel}
                             /\ matches[i] \in SUBSET Location
  BY <1>1, FoundIsLocation, FoundByKind, PositionsFacts DEF Location, OrInv, Chunk, TypeOK
<1>3. Found' = Found /\ Chunk' /\ kind' = kind /\ ends' = ends /\ matches' = matches
  BY <1>1, ChunkStays DEF chunk
\* How the call moves the children; k is one that a repeated match is kept in.
<1>4. /\ target' \in loc .. Sentinel
      /\ at' \in [Children -> Location \cup {Sentinel}]
      /\ \A i \in Children :
           /\ at'[i] \in matches[i] \cup {Sentinel} /\ target' <= at'[i]
           /\ \A x \in matches[i] : target' <= x /\ loc < x /\ at[i] <= x => at'[i] <= x
      /\ target' = loc => \E k \in Children : at[k] = loc /\ at'[k] = loc
  <2>1. CASE NextOr
    <3>1. PICK twice \in SUBSET {i \in Children : at[i] = loc} :
            /\ at' = [i \in Children |-> IF at[i] = loc /\ i \notin twice
                                         THEN First(matches[i], loc + 1) ELSE at[i]]
            /\ target' = IF twice = {} THEN loc + 1 ELSE loc
      BY <2>1 DEF NextOr, Asks
    <3>2. \A i \in Children :
            /\ First(matches[i], loc + 1) \in matches[i] \cup {Sentinel}
            /\ First(matches[i], loc + 1) \in 0 .. Sentinel
            /\ First(matches[i], loc + 1) # Sentinel => First(matches[i], loc + 1) >= loc + 1
            /\ \A x \in matches[i] : x >= loc + 1 => First(matches[i], loc + 1) <= x
      BY <1>2, FirstIsFirst
    <3>3. loc + 1 \in 0 .. Sentinel
      BY <1>1, <1>2
    <3>4. target' \in loc .. Sentinel
      BY <1>1, <1>2, <3>1
    <3>5. ASSUME NEW i \in Children
          PROVE  /\ at'[i] \in matches[i] \cup {Sentinel} /\ target' <= at'[i]
                 /\ \A x \in matches[i] : target' <= x /\ loc < x /\ at[i] <= x => at'[i] <= x
      <4>1. CASE at[i] = loc /\ i \notin twice
        <5>1. at'[i] = First(matches[i], loc + 1)
          BY <3>1, <4>1
        <5>2. \A x \in matches[i] : x \in Int
          BY <1>2 DEF Location
        <5>3. loc + 1 <= at'[i]
          BY <1>2, <3>2, <3>3, <5>1
        <5>4. target' <= at'[i]
          BY <1>2, <3>1, <3>2, <5>1, <5>3
        <5>5. \A x \in matches[i] : loc < x => at'[i] <= x
          BY <1>2, <3>2, <5>1, <5>2
        <5> QED
          BY <3>2, <5>1, <5>4, <5>5
      <4>2. CASE ~(at[i] = loc /\ i \notin twice)
        <5>1. at'[i] = at[i]
          BY <3>1, <4>2
        <5>2. target' <= at[i]
          BY <1>2, <3>1, <4>2
        <5> QED
          BY <1>2, <5>1, <5>2
      <4> QED
        BY <4>1, <4>2
    <3>6. target' = loc => \E k \in Children : at[k] = loc /\ at'[k] = loc
      <4> SUFFICES ASSUME target' = loc PROVE \E k \in Children : at[k] = loc /\ at'[k] = loc
        OBVIOUS
      <4>1. twice # {}
        BY <1>2, <3>1
      <4>2. PICK k \in twice : k \in Children /\ at[k] = loc
        BY <4>1
      <4>3. at'[k] = loc
        BY <3>1, <4>2
      <4> QED
        BY <4>2, <4>3
    <3>7. at' \in [Children -> Location \cup {Sentinel}]
      BY <1>2, <3>1, <3>5
    <3> QED
      BY <3>4, <3>5, <3>6, <3>7
  <2>2. CASE \E t \in SeekTargets : Seek(t)
    <3>1. /\ target' \in 0 .. Sentinel /\ loc < target'
          /\ at' = [i \in Children |-> Sought(i, target')]
      BY <2>2 DEF SeekTargets, Seek, Asks
    <3>2. \A i \in Children :
            /\ Sought(i, target') \in matches[i] \cup {Sentinel}
            /\ Sought(i, target') # Sentinel => target' <= Sought(i, target')
            /\ \A x \in matches[i] : target' <= x /\ at[i] <= x => Sought(i, target') <= x
      BY <1>1, <3>1, SoughtFacts
    <3>3. \A i \in Children :
            /\ at'[i] \in matches[i] \cup {Sentinel} /\ target' <= at'[i]
            /\ \A x \in matches[i] : target' <= x /\ at[i] <= x => at'[i] <= x
      BY <3>1, <3>2
    <3>4. at' \in [Children -> Location \cup {Sentinel}]
      BY <1>2, <3>1, <3>3
    <3> QED
      BY <1>2, <3>1, <3>3, <3>4
  <2> QED
    BY <2>1, <2>2 DEF Calls, NextAnd, NextOfFirst
<1>5. TypeOK'
  BY <1>1, <1>2, <1>3, <1>4 DEF TypeOK
<1>6. OrInv'
  <2>1. ASSUME NEW m \in Found, target' <= m
        PROVE  /\ m > loc => \A i \in Children : m \in matches[i] => at'[i] <= m
               /\ \E i \in Children : m \in matches[i] /\ at'[i] <= m
    <3>1. m \in Nat /\ loc <= m /\ target <= m
      BY <1>2, <1>4, <2>1
    <3>2. m > loc => \A i \in Children : m \in matches[i] => at'[i] <= m
      <4>1. m > loc => \A i \in Children : m \in matches[i] => at[i] <= m
        BY <1>1, <3>1 DEF OrInv
      <4> QED
        BY <1>2, <1>4, <2>1, <3>1, <4>1
    <3>3. CASE m > loc
      BY <1>2, <3>2, <3>3
    <3>4. CASE m = loc
      <4>1. target' = loc
        BY <1>2, <1>4, <2>1, <3>4
      <4>2. PICK k \in Children : at[k] = loc /\ at'[k] = loc
        BY <1>4, <4>1
      <4>3. loc \in matches[k]
        BY <1>1, <1>2, <4>2
      <4> QED
        BY <1>2, <3>2, <3>4, <4>2, <4>3
    <3> QED
      BY <1>2, <3>1, <3>3, <3>4
  <2>2. loc <= target' /\ \A i \in Children : target' <= at'[i]
    BY <1>2, <1>4
  <2> QED
    BY <1>1, <1>3, <2>1, <2>2 DEF OrInv
<1> QED
  BY <1>1, <1>2, <1>3, <1>4, <1>5, <1>6 DEF IInv

\* Of ISRPhrase and ISRContainer: the first child moves on, or is sought to the
\* start of a document, but past no match that has the new target.
LEMMA FirstChildCalls ==
  ASSUME IInv, Calls, kind \in {"phrase", "container"}
  PROVE  /\ target' \in loc .. Sentinel
         /\ \E p \in matches[1] \cup {Sentinel} : at' = [at EXCEPT ![1] = p] /\ at[1] <= p
         /\ kind = "phrase" => PhraseInv'
         /\ kind = "container" => ContainerInv'
<1> USE SentinelAssumption
<1>1. /\ Chunk /\ TypeOK /\ ~calling /\ loc # Sentinel
      /\ kind = "phrase" => PhraseInv
      /\ kind = "container" => ContainerInv
      /\ UNCHANGED chunk /\ calling' = TRUE /\ loc' = loc /\ endAt' = endAt
  BY DEF IInv, Calls, NextAnd, NextOr, NextOfFirst, Seek, Asks
<1>2. /\ N \in Nat \ {0} /\ Children = 1 .. N /\ 1 \in Children /\ N \in Children
      /\ Found \in SUBSET Location
      /\ loc \in 0 .. Sentinel /\ target <= loc /\ target \in 0 .. Sentinel
      /\ at[1] \in matches[1] \cup {Sentinel} /\ at[1] \in 0 .. Sentinel
      /\ matches[1] \in SUBSET Location
      /\ \A x \in matches[1] : x \in Nat /\ x < Sentinel
      /\ \A m \in Found : m \in Nat /\ m < Sentinel
  <2>1. N \in Nat \ {0} /\ Children = 1 .. N /\ 1 \in Children /\ N \in Children
    BY CursorAssumption DEF Children
  <2>2. Found \in SUBSET Location /\ matches[1] \in SUBSET Location
    BY <1>1, <2>1, FoundIsLocation DEF Chunk
  <2>3. /\ \A x \in matches[1] : x \in Nat /\ x < Sentinel
        /\ \A m \in Found : m \in Nat /\ m < Sentinel
    <3>1. \A x \in Location : x \in Nat /\ x < Sentinel
      BY DEF Location
    <3> QED
      BY <2>2, <3>1
  <2>4. loc \in 0 .. Sentinel /\ target \in 0 .. Sentinel
    BY <1>1, <2>2 DEF TypeOK, Location
  <2>5. target <= loc
    BY <1>1 DEF PhraseInv, ContainerInv
  <2>6. at[1] \in matches[1] \cup {Sentinel} /\ at[1] \in 0 .. Sentinel
    BY <1>1, <2>1, PositionsFacts DEF TypeOK
  <2> QED
    BY <2>1, <2>2, <2>3, <2>4, <2>5, <2>6
<1>3. /\ Found' = Found /\ kind' = kind /\ ends' = ends /\ matches' = matches
      /\ \A e : DocStart(e)' = DocStart(e) /\ EndOf(e)' = EndOf(e)
  BY <1>1, ChunkStays DEF chunk
\* The way from the first child's match to the location that the cursor reports.
<1> DEFINE ahead == IF kind = "phrase" THEN N - 1 ELSE 0
<1>4. ahead \in Nat /\ loc = at[1] + ahead
  BY <1>1, <1>2 DEF PhraseInv, ContainerInv
<1>5. \A m \in Found : m - ahead \in matches[1] /\ (target <= m => at[1] <= m - ahead)
  <2>1. CASE kind = "phrase"
    <3>1. \A m \in Found : m - N + 1 \in matches[1] /\ (target <= m => at[1] <= m - N + 1)
      BY <1>1, <1>2, <2>1, FoundByKind DEF PhraseInv
    <3>2. \A m \in Found : m - N + 1 = m - ahead
      BY <1>2, <2>1
    <3> QED
      BY <3>1, <3>2
  <2>2. CASE kind = "container"
    <3>1. \A m \in Found : m \in matches[1] /\ (target <= m => at[1] <= m)
      BY <1>1, <2>2, FoundByKind DEF ContainerInv
    <3>2. \A m \in Found : m = m - ahead
      BY <1>2, <2>2
    <3> QED
      BY <3>1, <3>2
  <2> QED
    BY <2>1, <2>2
<1>6. PICK p \in matches[1] \cup {Sentinel} :
        /\ at' = [at EXCEPT ![1] = p] /\ at[1] <= p
        /\ target' \in loc .. Sentinel /\ target' <= p + ahead
        /\ \A m \in Found : target' <= m => p <= m - ahead
  <2>1. CASE NextOfFirst /\ at' = at
    <3>1. target' = loc /\ at' = [at EXCEPT ![1] = at[1]]
      BY <1>1, <1>2, <1>4, <2>1, FirstIsFirst DEF NextOfFirst, Asks, TypeOK
    <3>2. at[1] <= at[1] /\ target' \in loc .. Sentinel /\ target' <= at[1] + ahead
      BY <1>2, <1>4, <3>1
    <3>3. \A m \in Found : target' <= m => at[1] <= m - ahead
      BY <1>2, <1>5, <3>1
    <3> QED
      BY <1>2, <3>1, <3>2, <3>3
  <2>2. CASE NextOfFirst /\ at' # at
    <3> DEFINE q == First(matches[1], at[1] + 1)
    <3>1. target' = loc + 1 /\ at' = [at EXCEPT ![1] = q]
      BY <2>2 DEF NextOfFirst, Asks
    <3>2. /\ q \in matches[1] \cup {Sentinel} /\ q \in 0 .. Sentinel
          /\ q # Sentinel => q >= at[1] + 1
          /\ \A x \in matches[1] : x >= at[1] + 1 => q <= x
      <4>1. at[1] + 1 \in Nat
        BY <1>2
      <4> HIDE DEF q
      <4>2. \A t \in Nat :
              /\ First(matches[1], t) \in matches[1] \cup {Sentinel} /\ First(matches[1], t) \in 0 .. Sentinel
              /\ First(matches[1], t) # Sentinel => First(matches[1], t) >= t
              /\ \A x \in matches[1] : x >= t => First(matches[1], t) <= x
        BY <1>2, FirstIsFirst
      <4> QED
        BY <4>1, <4>2 DEF q
    <3> HIDE DEF q
    <3>3. loc + 1 \in loc .. Sentinel /\ at[1] < Sentinel
      BY <1>1, <1>2, <1>4
    <3>4. at[1] <= q /\ loc + 1 <= q + ahead
      BY <1>2, <1>4, <3>2, <3>3
    <3>5. ASSUME NEW m \in Found, loc + 1 <= m PROVE q <= m - ahead
      <4>1. m - ahead \in matches[1] /\ m - ahead >= at[1] + 1
        BY <1>2, <1>4, <1>5, <3>5
      <4> QED
        BY <3>2, <4>1
    <3> QED
      BY <3>1, <3>2, <3>3, <3>4, <3>5
  <2>3. CASE \E t \in SeekTargets : Seek(t)
    <3>1. PICK d \in ends : /\ target' = d + 1 /\ loc < target'
                            /\ at' = [at EXCEPT ![1] = Sought(1, target')]
      BY <2>3 DEF SeekTargets, Seek, Asks, After
    <3>2. d \in Nat /\ d < Sentinel /\ target' \in loc .. Sentinel /\ target' \in Nat
      BY <1>1, <1>2, <3>1 DEF Chunk, Location
    <3>3. /\ Sought(1, target') \in matches[1] \cup {Sentinel} /\ Sought(1, target') \in 0 .. Sentinel
          /\ at[1] <= Sought(1, target')
          /\ Sought(1, target') # Sentinel => target' <= Sought(1, target')
          /\ \A x \in matches[1] : target' <= x /\ at[1] <= x => Sought(1, target') <= x
      BY <1>1, <1>2, <3>2, SoughtFacts
    <3>4. ASSUME NEW m \in Found, target' <= m PROVE Sought(1, target') <= m - ahead
      <4>1. m - ahead \in matches[1] /\ at[1] <= m - ahead
        BY <1>2, <1>5, <3>1, <3>2, <3>4
      \* No phrase goes past the end of a document.
      <4>2. d < m - ahead
        <5>1. CASE kind = "phrase"
          <6> SUFFICES ASSUME m - ahead <= d PROVE FALSE
            BY <1>2, <1>4, <3>2
          <6>1. /\ d - (m - ahead) + 1 \in Children
                /\ m - N + (d - (m - ahead) + 1) = d
            BY <1>2, <3>1, <3>2, <3>4, <5>1
          <6>2. \A i \in Children : m - N + i \in matches[i]
            BY <5>1, FoundByKind
          <6>3. d \in matches[d - (m - ahead) + 1]
            BY <6>1, <6>2
          <6> QED
            BY <1>1, <5>1, <6>1, <6>3 DEF Chunk, Readable
        <5>2. CASE kind = "container"
          BY <1>2, <3>1, <3>2, <3>4, <5>2
        <5> QED
          BY <5>1, <5>2
      <4> QED
        BY <1>2, <1>4, <3>1, <3>2, <3>3, <4>1, <4>2
    <3>5. target' <= Sought(1, target') + ahead
      BY <1>4, <3>2, <3>3
    <3> QED
      BY <3>1, <3>2, <3>3, <3>4, <3>5
  <2> QED
    BY <2>1, <2>2, <2>3 DEF Calls, NextAnd, NextOr
<1>7. /\ at'[1] = p
      /\ \A i \in Children \ {1} : at'[i] = at[i]
  BY <1>1, <1>2, <1>6 DEF TypeOK
<1>8. p \in Nat /\ p <= Sentinel
  BY <1>2, <1>6
<1>9. ASSUME kind = "phrase" PROVE PhraseInv'
  <2>1. target' <= at'[1] + N - 1
    BY <1>2, <1>6, <1>7, <1>8, <1>9
  <2>2. ASSUME NEW m \in Found, target' <= m, NEW i \in Children PROVE at'[i] <= m - N + i
    <3>1. target <= m
      BY <1>2, <1>6, <2>2
    <3>2. at[i] <= m - N + i
      BY <1>1, <1>9, <3>1 DEF PhraseInv
    <3>3. p <= m - N + 1
      BY <1>2, <1>6, <1>9, <2>2
    <3> QED
      BY <1>7, <3>2, <3>3
  <2> QED
    BY <1>1, <1>3, <2>1, <2>2 DEF PhraseInv
<1>10. ASSUME kind = "container" PROVE ContainerInv'
  <2>1. target' <= at'[1] /\ \A m \in Found : target' <= m => at'[1] <= m
    BY <1>2, <1>6, <1>7, <1>8, <1>10
  <2>2. ASSUME at'[1] # Sentinel
        PROVE  /\ endAt' <= EndOf(at'[1])
               /\ \A i \in Children \ {1} : \A x \in matches[i] : DocStart(EndOf(at'[1])) <= x => at'[i] <= x
    <3>1. p \in matches[1]
      BY <1>6, <1>7, <2>2
    <3>2. /\ endAt <= EndOf(p)
          /\ \A i \in Children \ {1} : \A x \in matches[i] : DocStart(EndOf(p)) <= x => at[i] <= x
      BY <1>1, <1>6, <1>10, <3>1, FirstChildMoves
    <3> QED
      BY <1>1, <1>7, <3>2
  <2> QED
    BY <1>1, <1>3, <2>1, <2>2 DEF ContainerInv
<1> QED
  BY <1>6, <1>9, <1>10

\* Every call keeps the invariant and asks for a location ahead.
LEMMA CallsKeep ==
  ASSUME IInv, Calls
  PROVE  IInv' /\ target' \in loc .. Sentinel
<1>1. /\ Chunk /\ TypeOK /\ loc # Sentinel
      /\ UNCHANGED chunk /\ calling' = TRUE /\ loc' = loc /\ endAt' = endAt
  BY DEF IInv, Calls, NextAnd, NextOr, NextOfFirst, Seek, Asks
<1>2. kind \in {"and", "or", "phrase", "container"}
  BY <1>1, CursorAssumption DEF Chunk
<1>3. CASE kind \in {"phrase", "container"}
  <2>1. PICK p \in matches[1] \cup {Sentinel} : at' = [at EXCEPT ![1] = p]
    BY <1>3, FirstChildCalls
  <2>2. Found' = Found /\ Chunk' /\ kind' = kind /\ ends' = ends /\ matches' = matches
    BY <1>1, ChunkStays DEF chunk
  <2>3. target' \in 0 .. Sentinel /\ target' \in loc .. Sentinel
    BY <1>1, <1>3, FirstChildCalls, FoundIsLocation, SentinelAssumption DEF TypeOK, Location
  <2>4. matches[1] \in SUBSET Location /\ 1 \in Children
    BY <1>1, CursorAssumption DEF Chunk, Children
  <2>5. TypeOK'
    BY <1>1, <2>1, <2>2, <2>3, <2>4 DEF TypeOK
  <2>6. (kind = "phrase" => PhraseInv') /\ (kind = "container" => ContainerInv')
    BY <1>3, FirstChildCalls
  <2> QED
    BY <1>1, <1>3, <2>2, <2>3, <2>5, <2>6 DEF IInv
<1> QED
  BY <1>2, <1>3, AndCalls, OrCalls

-----------------------------------------------------------------------------
(* The theorems. *)

LEMMA Initially ==
  ASSUME Init
  PROVE  IInv
<1> USE SentinelAssumption
<1>1. /\ Chunk /\ loc = 0 /\ target = 0 /\ calling = TRUE
      /\ at = [i \in Children |-> First(matches[i], 0)] /\ endAt = First(ends, 0)
  BY CursorAssumption DEF Init, Chunk
<1>2. /\ N \in Nat \ {0} /\ Children = 1 .. N /\ 1 \in Children /\ N \in Children
      /\ kind \in {"and", "or", "phrase", "container"}
      /\ Found \in SUBSET Location /\ ends \in SUBSET Location
      /\ \A m \in Found : m \in Nat
      /\ \A i \in Children : matches[i] \in SUBSET Location
      /\ \A i \in Children : \A x \in matches[i] : x \in Nat
  BY <1>1, FoundIsLocation, CursorAssumption DEF Location, Chunk, Children
<1>3. \A i \in Children :
        /\ at[i] \in matches[i] \cup {Sentinel} /\ at[i] \in 0 .. Sentinel
        /\ \A x \in matches[i] : at[i] <= x
  <2> TAKE i \in Children
  <2>1. /\ First(matches[i], 0) \in matches[i] \cup {Sentinel} /\ First(matches[i], 0) \in 0 .. Sentinel
        /\ \A x \in matches[i] : x >= 0 => First(matches[i], 0) <= x
    BY <1>2, FirstIsFirst
  <2> QED
    BY <1>1, <1>2, <2>1
<1>4. endAt \in ends \cup {Sentinel} /\ \A x \in ends : x \in Nat /\ endAt <= x
  BY <1>1, <1>2, FirstIsFirst DEF Location
<1>5. TypeOK
  BY <1>1, <1>2, <1>3, <1>4 DEF TypeOK
<1>6. CASE kind = "and"
  <2>1. \A m \in Found : m \in ends
    BY <1>6, FoundByKind
  <2> QED
    BY <1>1, <1>3, <1>4, <1>5, <1>6, <2>1 DEF IInv, AndInv
<1>7. CASE kind = "or"
  <2>1. \A m \in Found : \E i \in Children : m \in matches[i]
    BY <1>7, FoundByKind
  <2> QED
    BY <1>1, <1>2, <1>3, <1>5, <1>7, <2>1 DEF IInv, OrInv
<1>8. CASE kind = "phrase"
  <2>1. \A m \in Found : \A i \in Children : m - N + i \in matches[i]
    BY <1>8, FoundByKind
  <2>2. target <= at[1] + N - 1
    BY <1>1, <1>2, <1>3
  <2> QED
    BY <1>1, <1>3, <1>5, <1>8, <2>1, <2>2 DEF IInv, PhraseInv
<1>9. CASE kind = "container"
  <2>1. \A m \in Found : m \in matches[1]
    BY <1>9, FoundByKind
  <2>2. ASSUME at[1] # Sentinel PROVE endAt <= EndOf(at[1])
    BY <1>1, <1>2, <1>3, <1>4, <2>2, EndOfFacts
  <2> QED
    BY <1>1, <1>2, <1>3, <1>5, <1>9, <2>1, <2>2 DEF IInv, ContainerInv
<1> QED
  BY <1>2, <1>6, <1>7, <1>8, <1>9

LEMMA RoundsKeep ==
  ASSUME IInv, Advance
  PROVE  IInv' /\ (loc' = First(Found, target) \/ (calling' = calling /\ loc' = loc))
BY AndRound, OrRound, PhraseRound, ContainerRound
DEF Advance, AndSkip, PhraseMove, ContainerSkip, LoopsOn

LEMMA InvariantKept == Spec => []IInv
<1>1. Init => IInv
  BY Initially
<1>2. ASSUME IInv, [Next]_vars PROVE IInv'
  <2>1. CASE Calls
    BY <1>2, <2>1, CallsKeep
  <2>2. CASE Advance
    BY <1>2, <2>2, RoundsKeep
  <2>3. CASE UNCHANGED vars
    <3>1. UNCHANGED chunk /\ at' = at /\ endAt' = endAt /\ loc' = loc /\ calling' = calling /\ target' = target
      BY <2>3 DEF vars
    <3>2. /\ Found' = Found /\ Chunk' /\ kind' = kind /\ ends' = ends /\ matches' = matches
          /\ \A e : DocStart(e)' = DocStart(e) /\ Document(e)' = Document(e) /\ EndOf(e)' = EndOf(e)
      BY <1>2, <3>1, ChunkStays DEF chunk, IInv
    <3>3. TypeOK'
      BY <1>2, <3>1, <3>2 DEF IInv, TypeOK
    <3>4. (AndInv => AndInv') /\ (OrInv => OrInv')
      BY <3>1, <3>2 DEF AndInv, OrInv
    <3>5. (PhraseInv => PhraseInv') /\ (ContainerInv => ContainerInv')
      BY <3>1, <3>2 DEF PhraseInv, ContainerInv
    <3> QED
      BY <1>2, <3>1, <3>2, <3>3, <3>4, <3>5 DEF IInv
  <2> QED
    BY <1>2, <2>1, <2>2, <2>3 DEF Next, Calls
<1> QED
  BY <1>1, <1>2, PTL DEF Spec, SafetySpec

\* Positions are matches of the children and ends of documents, and the cursor
\* only ever stands at something it should find.
THEOREM CursorTypeCorrect == Spec => []TypeOK
<1>1. IInv => TypeOK
  BY DEF IInv
<1> QED
  BY <1>1, InvariantKept, PTL

\* No child is ever past what a match still to come is made of.
THEOREM NothingIsPassed == Spec => []NothingPassed
<1>1. ASSUME IInv PROVE NothingPassed
  <2>1. kind \in {"and", "or", "phrase", "container"}
    BY <1>1, CursorAssumption DEF IInv, Chunk
  <2>2. \A i, m : /\ kind = "and" => Parts(i, m) = matches[i] \cap Document(m)
                  /\ kind = "or" => Parts(i, m) = matches[i] \cap {m}
                  /\ kind = "phrase" => Parts(i, m) = {m - N + i}
                  /\ kind = "container" =>
                       Parts(i, m) = IF i = 1 THEN {m} ELSE {x \in matches[i] : DocStart(EndOf(m)) <= x}
    BY Zenon DEF Parts
  <2> SUFFICES ASSUME NEW m \in Found, loc # Sentinel, target <= m
               PROVE  /\ (m > loc \/ kind # "or") => \A i \in Children : \A x \in Parts(i, m) : at[i] <= x
                      /\ kind = "or" => \E i \in Children : \E x \in Parts(i, m) : at[i] <= x
    BY DEF NothingPassed
  <2>3. CASE kind = "and"
    BY <1>1, <2>2, <2>3 DEF IInv, AndInv
  <2>4. CASE kind = "or"
    <3>1. /\ m > loc => \A i \in Children : m \in matches[i] => at[i] <= m
          /\ \E i \in Children : m \in matches[i] /\ at[i] <= m
      BY <1>1, <2>4 DEF IInv, OrInv
    <3> QED
      BY <2>2, <2>4, <3>1
  <2>5. CASE kind = "phrase"
    BY <1>1, <2>2, <2>5 DEF IInv, PhraseInv
  <2>6. CASE kind = "container"
    <3>1. Chunk /\ TypeOK /\ ContainerInv /\ 1 \in Children
      BY <1>1, <2>6, CursorAssumption DEF IInv, Children
    <3>2. m \in matches[1] /\ at[1] <= m
      BY <2>6, <3>1, FoundByKind DEF ContainerInv
    <3>3. at[1] \in matches[1] /\ at[1] # Sentinel
      BY <3>1, <3>2, EndOfFacts, SentinelAssumption DEF TypeOK
    <3>4. /\ DocStart(EndOf(at[1])) <= DocStart(EndOf(m))
          /\ DocStart(EndOf(at[1])) \in Nat /\ DocStart(EndOf(m)) \in Nat
      BY <3>1, <3>2, <3>3, DocumentsInOrder, EndOfFacts
    <3>5. ASSUME NEW i \in Children \ {1}, NEW x \in matches[i], DocStart(EndOf(m)) <= x
          PROVE  at[i] <= x
      <4>1. x \in Nat
        BY <3>1, EndOfFacts
      <4>2. DocStart(EndOf(at[1])) <= x
        BY <3>4, <3>5, <4>1
      <4> QED
        BY <3>1, <3>3, <4>2 DEF ContainerInv
    <3>6. ASSUME NEW i \in Children PROVE \A x \in Parts(i, m) : at[i] <= x
      <4>1. CASE i = 1
        BY <2>2, <2>6, <3>2, <4>1
      <4>2. CASE i # 1
        BY <2>2, <2>6, <3>5, <4>2
      <4> QED
        BY <4>1, <4>2
    <3> QED
      BY <2>6, <3>6
  <2> QED
    BY <2>1, <2>3, <2>4, <2>5, <2>6
<1> QED
  BY <1>1, InvariantKept, PTL

LEMMA SameFirst ==
  /\ Promise!Location = Location
  /\ \A S, t : Promise!First(S, t) = First(S, t)
BY DEF Promise!Location, Promise!First, Promise!Min, Location, First, Min

\* For any number of children and any chunk, every composite implements the
\* abstract cursor over what it should find.
THEOREM CursorImplemented == Spec => ImplementsCursor
<1>1. Init => Promise!CursorInit
  <2> SUFFICES ASSUME Init PROVE Promise!CursorInit
    OBVIOUS
  <2>1. Found \in SUBSET Location
    BY Initially, FoundIsLocation DEF IInv
  <2> QED
    BY <2>1, SameFirst DEF Init, Promise!CursorInit
<1>2. ASSUME IInv, [Next]_vars
      PROVE  [Promise!Return \/ \E t \in 0 .. Sentinel : Promise!Call(t)]_(Promise!cursorVars)
  <2>1. CASE Calls
    <3>1. /\ ~calling /\ loc # Sentinel /\ UNCHANGED chunk /\ calling' = TRUE /\ loc' = loc
      BY <2>1 DEF Calls, NextAnd, NextOr, NextOfFirst, Seek, Asks
    <3>2. Found' = Found
      BY <3>1, ChunkStays
    <3>3. loc \in 0 .. Sentinel
      BY <1>2, FoundIsLocation, SentinelAssumption DEF IInv, TypeOK, Location
    <3>4. target' \in 0 .. Sentinel /\ loc <= target'
      BY <1>2, <2>1, <3>3, CallsKeep
    <3>5. Promise!Call(target')
      BY <3>1, <3>2, <3>4 DEF Promise!Call
    <3> QED
      BY <3>4, <3>5
  <2>2. CASE Advance
    <3>1. calling /\ UNCHANGED chunk /\ target' = target
      BY <2>2
      DEF Advance, AndExhausted, AndMatch, AndSkip, OrReturn, PhraseExhausted, PhraseMatch, PhraseMove,
          ContainerExhausted, ContainerMatch, ContainerSkip, Exhausted, Returns, LoopsOn
    <3>2. Found' = Found
      BY <3>1, ChunkStays
    <3>3. CASE calling' = calling /\ loc' = loc
      BY <3>1, <3>2, <3>3 DEF Promise!cursorVars
    <3>4. CASE ~(calling' = calling /\ loc' = loc)
      <4>1. loc' = First(Found, target)
        BY <1>2, <2>2, <3>4, RoundsKeep
      <4>2. calling' = FALSE
        BY <2>2, <3>4
        DEF Advance, AndExhausted, AndMatch, AndSkip, OrReturn, PhraseExhausted, PhraseMatch, PhraseMove,
            ContainerExhausted, ContainerMatch, ContainerSkip, Exhausted, Returns, LoopsOn
      <4>3. Promise!Return
        BY <3>1, <3>2, <4>1, <4>2, SameFirst DEF Promise!Return
      <4> QED
        BY <4>3
    <3> QED
      BY <3>3, <3>4
  <2>3. CASE UNCHANGED vars
    <3>1. UNCHANGED chunk /\ loc' = loc /\ calling' = calling /\ target' = target
      BY <2>3 DEF vars
    <3> QED
      BY <3>1, ChunkStays DEF Promise!cursorVars
  <2> QED
    BY <1>2, <2>1, <2>2, <2>3 DEF Next, Calls
<1> QED
  BY <1>1, <1>2, InvariantKept, PTL DEF Spec, SafetySpec, ImplementsCursor, Promise!CursorSpec

=============================================================================
