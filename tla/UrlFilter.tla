------------------------------ MODULE UrlFilter ------------------------------
(***************************************************************************)
(* UrlBloomFilter (src/src/crawler/url_dedup.cpp): which canonical URLs    *)
(* were seen before.  Its lock makes each call one step.  A filter is a    *)
(* function from its bits to whether they are set; how many bits and       *)
(* hashes it has, a matter of real logarithms, are constants.              *)
(***************************************************************************)
EXTENDS Integers, Sequences, SequencesExt, FiniteSets, FiniteSetsExt

CONSTANTS
  BitCount, HashCount,
  Wrap,            \* values of a uint64_t, 2^64
  Digest(_),       \* MD5: the two halves of a key's digest, <<h1, h2>>
  EmptyKey

Bits == 0 .. BitCount - 1
NewFilter == [b \in Bits |-> FALSE]

\* hashKey and the loops' (h1 + (i + 1) * h2) % bitCount.
BitsOf(key) ==
  LET h == Digest(key)
  IN {((h[1] + i * h[2]) % Wrap) % BitCount : i \in 1 .. HashCount}

ProbablyContains(filter, key) == key # EmptyKey /\ \A b \in BitsOf(key) : filter[b]

Insert(filter, key) ==
  IF key = EmptyKey THEN filter ELSE [b \in Bits |-> filter[b] \/ b \in BitsOf(key)]

\* Whether the key is new, and the filter that knows it from now on.
CheckAndInsert(filter, key) ==
  IF key = EmptyKey \/ ProbablyContains(filter, key) THEN [fresh |-> FALSE, filter |-> filter]
  ELSE [fresh |-> TRUE, filter |-> Insert(filter, key)]

\* snapshot: eight bits in a byte, the last byte perhaps not full.
Pack(filter) ==
  [k \in 1 .. (BitCount + 7) \div 8 |->
    FoldSet(LAMBDA b, byte : byte + (2 ^ (b % 8)), 0, {b \in Bits : filter[b] /\ b \div 8 = k - 1})]

\* deserializeFromStream.
Unpack(packed) == [b \in Bits |-> (packed[b \div 8 + 1] \div (2 ^ (b % 8))) % 2 = 1]

-----------------------------------------------------------------------------
(* A sequence of calls <<operation, key>>, from a new filter on.  "check"   *)
(* hands its key out if it is fresh; "restart" packs and unpacks.           *)

Start == [filter |-> NewFilter, known |-> {}, handed |-> <<>>]

Call(state, call) ==
  LET checked == CheckAndInsert(state.filter, call[2])
  IN CASE call[1] = "check" ->
            [filter |-> checked.filter,
             known |-> state.known \cup ({call[2]} \ {EmptyKey}),
             handed |-> IF checked.fresh THEN Append(state.handed, call[2]) ELSE state.handed]
       [] call[1] = "insert" ->
            [state EXCEPT !.filter = Insert(@, call[2]), !.known = @ \cup ({call[2]} \ {EmptyKey})]
       [] call[1] = "restart" -> [state EXCEPT !.filter = Unpack(Pack(@))]

After(calls) == FoldLeft(Call, Start, calls)

\* After any calls, restarts among them, every key that was asked about or put
\* in is known, no key was handed out twice or after it was put in, a key is
\* refused without having been seen only if others have set all of its bits, and
\* the empty key is never handed out.
SeenOnce(calls) ==
  LET end == After(calls)
  IN /\ \A k \in end.known : ProbablyContains(end.filter, k)
     /\ \A i, j \in DOMAIN end.handed : end.handed[i] = end.handed[j] => i = j
     /\ EmptyKey \notin ToSet(end.handed)
     /\ \A n \in DOMAIN calls :
          LET before == After(SubSeq(calls, 1, n - 1))
              key == calls[n][2]
              fresh == After(SubSeq(calls, 1, n)).handed # before.handed
          IN calls[n][1] = "check" /\ key # EmptyKey =>
               IF fresh THEN key \notin before.known
               ELSE key \in before.known \/ BitsOf(key) \subseteq UNION {BitsOf(k) : k \in before.known}
=============================================================================
