---- MODULE Containers ----
(***************************************************************************)
(* The program's own containers, as it keeps them in memory: vector and    *)
(* string (src/src/utils), deque (STL_rewrite), the chained HashTable, the *)
(* binary heap PriorityQueue and the frontier's BufferedQueue.  A block of *)
(* memory is a sequence of cells; Gone is a cell that holds no object: not *)
(* yet constructed, moved from or destroyed.                               *)
(* kind, which never changes, says which of them a behaviour is about;     *)
(* rep is its memory and model the value it stands for.                    *)
(***************************************************************************)
EXTENDS Integers, Sequences, FiniteSets, SequencesExt

CONSTANTS Elements,         \* natural numbers: the values stored, the keys
          HashOf(_),        \* the table's hash function
          MaxSize,          \* bound on the values stored
          FirstCapacity,    \* 8 in vector and deque
          CompactFrom       \* 32 in BufferedQueue

VARIABLES kind, rep, model
containerVars == <<kind, rep, model>>

Gone == -1
NUL == -2
Block(n, At(_)) == [i \in 1..n |-> At(i)]

(*-------------------------------- vector --------------------------------*)
EmptyVector == [data |-> <<>>, size |-> 0]

Reserve(v, n) ==
    IF n <= Len(v.data) THEN v
    ELSE [v EXCEPT !.data = Block(n, LAMBDA i : IF i <= v.size THEN v.data[i] ELSE Gone)]

Grown(v) == IF v.size < Len(v.data) THEN v
            ELSE Reserve(v, IF v.data = <<>> THEN FirstCapacity ELSE 3 * Len(v.data))

PushBack(v, x) == [data |-> [Grown(v).data EXCEPT ![v.size + 1] = x], size |-> v.size + 1]

PopBack(v) == [data |-> [v.data EXCEPT ![v.size] = Gone], size |-> v.size - 1]

(* The cells from first to last move n places up, the last one first.      *)
MoveUp(data, first, last, n) ==
    FoldLeft(LAMBDA d, k : [d EXCEPT ![last - k + n] = d[last - k], ![last - k] = Gone],
             data, [k \in 1..(last - first + 1) |-> k - 1])

(* insert before the element at place index + 1.                           *)
Insert(v, index, x) ==
    IF index = v.size THEN PushBack(v, x)
    ELSE [data |-> [MoveUp(Grown(v).data, index + 1, v.size, 1) EXCEPT ![index + 1] = x],
          size |-> v.size + 1]

RECURSIVE Tripled(_, _)
Tripled(cap, n) == IF cap >= n THEN cap ELSE Tripled(3 * cap, n)

InsertRange(v, index, xs) ==
    LET n == v.size + Len(xs)
        r == Reserve(v, Tripled(IF v.data = <<>> THEN FirstCapacity ELSE Len(v.data), n))
        moved == MoveUp(r.data, index + 1, v.size, Len(xs))
    IN  IF xs = <<>> THEN v
        ELSE IF index = v.size THEN FoldLeft(PushBack, v, xs)
        ELSE [data |-> Block(Len(moved), LAMBDA i : IF i \in index + 1..index + Len(xs)
                                                    THEN xs[i - index] ELSE moved[i]),
              size |-> n]

Assign(v, xs) ==
    LET cap == IF Len(xs) > Len(v.data) THEN Len(xs) ELSE Len(v.data)
    IN  [data |-> Block(cap, LAMBDA i : IF i <= Len(xs) THEN xs[i] ELSE Gone), size |-> Len(xs)]

(* New elements are default constructed: 0.                                *)
Resize(v, n) ==
    [data |-> [i \in DOMAIN Reserve(v, n).data |->
                 IF i > n THEN Gone ELSE IF i > v.size THEN 0 ELSE v.data[i]],
     size |-> n]

CopyOf(v) == [data |-> SubSeq(v.data, 1, v.size), size |-> v.size]

VectorValue(v) == SubSeq(v.data, 1, v.size)
VectorSound(v) == \A i \in DOMAIN v.data : (v.data[i] = Gone) <=> (i > v.size)

VectorStep ==
    \/ \E x \in Elements :
          \/ rep' = PushBack(rep, x) /\ model' = Append(model, x)
          \/ \E i \in 0..Len(model) : rep' = Insert(rep, i, x) /\ model' = InsertAt(model, i + 1, x)
    \/ \E x, y \in Elements, i \in 0..Len(model) :
          /\ rep' = InsertRange(rep, i, <<x, y>>)
          /\ model' = SubSeq(model, 1, i) \o <<x, y>> \o SubSeq(model, i + 1, Len(model))
    \/ model # <<>> /\ rep' = PopBack(rep) /\ model' = Front(model)
    \/ \E x, y \in Elements : rep' = Assign(rep, <<x, y>>) /\ model' = <<x, y>>
    \/ \E n \in 0..MaxSize :
          rep' = Resize(rep, n) /\ model' = [i \in 1..n |-> IF i <= Len(model) THEN model[i] ELSE 0]
    \/ rep' = CopyOf(rep) /\ model' = model

(*-------------------------------- string --------------------------------*)
(* A text of capacity c lies in c + 1 cells; the empty one shares a cell.  *)
EmptyText == [buffer |-> <<NUL>>, size |-> 0]

RECURSIVE Doubled(_, _)
Doubled(cap, n) == IF cap >= n THEN cap ELSE Doubled(2 * cap, n)

GrowTo(s, cap) ==
    IF cap < Len(s.buffer) THEN s
    ELSE [s EXCEPT !.buffer = Block(cap + 1, LAMBDA i : IF i <= s.size THEN s.buffer[i]
                                                         ELSE IF i = s.size + 1 THEN NUL ELSE Gone)]

GrowCapacity(s, n) ==
    GrowTo(s, IF n < Len(s.buffer) THEN 0
              ELSE Doubled(IF Len(s.buffer) = 1 THEN 1 ELSE Len(s.buffer) - 1, n))

(* Cells from place on get xs and the end mark.                            *)
Written(buffer, place, xs) ==
    Block(Len(buffer), LAMBDA i : IF i \in place + 1..place + Len(xs) THEN xs[i - place]
                                  ELSE IF i = place + Len(xs) + 1 THEN NUL ELSE buffer[i])

AppendText(s, xs) ==
    [buffer |-> Written(GrowCapacity(s, s.size + Len(xs)).buffer, s.size, xs), size |-> s.size + Len(xs)]

Cut(s, n) == [buffer |-> [s.buffer EXCEPT ![n + 1] = NUL], size |-> n]

EraseText(s, pos, count) ==
    LET tail == SubSeq(s.buffer, pos + count + 1, s.size)
    IN  IF count >= s.size - pos THEN Cut(s, pos)
        ELSE [buffer |-> Written(s.buffer, pos, tail), size |-> s.size - count]

ReplaceText(s, pos, count, xs) ==
    LET len    == IF count > s.size - pos THEN s.size - pos ELSE count
        suffix == SubSeq(s.buffer, pos + len + 1, s.size)
        n      == s.size - len + Len(xs)
    IN  [buffer |-> Written(GrowCapacity(s, n).buffer, pos, xs \o suffix), size |-> n]

CopyText(s) == IF s.size = 0 THEN EmptyText ELSE [s EXCEPT !.buffer = SubSeq(@, 1, s.size + 1)]

TextValue(s) == SubSeq(s.buffer, 1, s.size)
TextSound(s) == s.size < Len(s.buffer) /\ s.buffer[s.size + 1] = NUL
                /\ \A i \in 1..s.size : s.buffer[i] \in Elements

TextStep ==
    \/ \E x \in Elements : rep' = AppendText(rep, <<x>>) /\ model' = Append(model, x)
    \/ rep' = AppendText(rep, model) /\ model' = model \o model
    \/ model # <<>> /\ rep' = Cut(rep, rep.size - 1) /\ model' = Front(model)
    \/ rep' = GrowTo(rep, rep.size + 1) /\ model' = model
    \/ \E i \in 0..Len(model), n \in 0..2 :
          LET rest == SubSeq(model, i + n + 1, Len(model)) IN
          \/ rep' = EraseText(rep, i, n) /\ model' = SubSeq(model, 1, i) \o rest
          \/ \E x, y \in Elements :
                /\ rep' = ReplaceText(rep, i, n, <<x, y>>)
                /\ model' = SubSeq(model, 1, i) \o <<x, y>> \o rest
    \/ rep' = CopyText(rep) /\ model' = model

(*--------------------------------- deque --------------------------------*)
EmptyDeque == [data |-> <<>>, size |-> 0, front |-> 0]

PhysicalIndex(d, i) == ((d.front + i) % Len(d.data)) + 1
DequeValue(d) == [i \in 1..d.size |-> d.data[PhysicalIndex(d, i - 1)]]

EnsureCapacityForOneMore(d) ==
    IF d.size < Len(d.data) THEN d
    ELSE LET cap == IF d.data = <<>> THEN FirstCapacity ELSE 2 * Len(d.data)
         IN  [d EXCEPT !.data = Block(cap, LAMBDA i : IF i <= d.size THEN DequeValue(d)[i] ELSE Gone),
                       !.front = 0]

EmplaceFront(d, x) ==
    LET r     == EnsureCapacityForOneMore(d)
        front == IF r.front = 0 THEN Len(r.data) - 1 ELSE r.front - 1
    IN  [data |-> [r.data EXCEPT ![front + 1] = x], size |-> d.size + 1, front |-> front]

DequePopBack(d) ==
    [data |-> [d.data EXCEPT ![PhysicalIndex(d, d.size - 1)] = Gone], size |-> d.size - 1,
     front |-> IF d.size = 1 THEN 0 ELSE d.front]

CopyFrom(d) ==
    IF d.size = 0 THEN EmptyDeque
    ELSE [data |-> DequeValue(d), size |-> d.size, front |-> 0]

DequeSound(d) == Cardinality({i \in DOMAIN d.data : d.data[i] # Gone}) = d.size

DequeStep ==
    \/ \E x \in Elements : rep' = EmplaceFront(rep, x) /\ model' = <<x>> \o model
    \/ model # <<>> /\ rep' = DequePopBack(rep) /\ model' = Front(model)
    \/ rep' = CopyFrom(rep) /\ model' = model

(*------------------------------- HashTable ------------------------------*)
(* buckets is a sequence of chains, uniqueKeys the number of their keys.   *)
EmptyTable == [buckets |-> <<<<>>>>, uniqueKeys |-> 0]

BucketIndex(t, key) == (HashOf(key) % Len(t.buckets)) + 1

(* Find(k): the value, or Gone for nullptr.                                *)
Lookup(t, key) ==
    LET chain == t.buckets[BucketIndex(t, key)]
        i     == SelectInSeq(chain, LAMBDA e : e.key = key)
    IN  IF i = 0 THEN Gone ELSE chain[i].value

(* Optimize: every chain is walked, and each entry put before its new one. *)
Optimize(t) ==
    LET desired == (3 * t.uniqueKeys) \div 2
        size    == Doubled(Len(t.buckets), desired)
        Move(buckets, e) == [buckets EXCEPT ![(HashOf(e.key) % size) + 1] = <<e>> \o @]
    IN  IF desired <= Len(t.buckets) THEN t
        ELSE [t EXCEPT !.buckets = FoldLeft(Move, [i \in 1..size |-> <<>>], FlattenSeq(t.buckets))]

(* Find(k, initialValue)->value = value, as every caller uses it.          *)
FindAndSet(t, key, value) ==
    LET chain == t.buckets[BucketIndex(t, key)]
        i     == SelectInSeq(chain, LAMBDA e : e.key = key)
        r     == Optimize(t)
    IN  IF i # 0
        THEN [t EXCEPT !.buckets[BucketIndex(t, key)][i].value = value]
        ELSE [buckets |-> [r.buckets EXCEPT ![BucketIndex(r, key)] = <<[key |-> key, value |-> value]>> \o @],
              uniqueKeys |-> t.uniqueKeys + 1]

(* begin, ++ until end: bucket after bucket, each chain from its head.     *)
Iterated(t) == FlattenSeq(t.buckets)

TableSound(t, pairs) ==
    /\ t.uniqueKeys = Len(Iterated(t))
    /\ ToSet(Iterated(t)) = {[key |-> k, value |-> pairs[k]] : k \in DOMAIN pairs}
    /\ Cardinality(DOMAIN pairs) = t.uniqueKeys
    /\ \A k \in Elements : Lookup(t, k) = IF k \in DOMAIN pairs THEN pairs[k] ELSE Gone

TableStep ==
    \E k \in Elements, x \in 0..1 :
        /\ rep' = FindAndSet(rep, k, x)
        /\ model' = [j \in DOMAIN model \union {k} |-> IF j = k THEN x ELSE model[j]]

(*----------------------------- PriorityQueue ----------------------------*)
(* A binary heap in a vector, the largest first (std::less).               *)
Swapped(h, i, j) == [h EXCEPT ![i] = h[j], ![j] = h[i]]

RECURSIVE SiftUp(_, _)
SiftUp(h, i) == IF i > 1 /\ h[i] > h[i \div 2] THEN SiftUp(Swapped(h, i, i \div 2), i \div 2) ELSE h

RECURSIVE SiftDown(_, _)
SiftDown(h, i) ==
    LET Better(j, best) == IF j <= Len(h) /\ h[j] > h[best] THEN j ELSE best
        best == Better((2 * i) + 1, Better(2 * i, i))
    IN  IF best = i THEN h ELSE SiftDown(Swapped(h, i, best), best)

HeapPush(h, x) == SiftUp(Append(h, x), Len(h) + 1)
HeapPop(h) == IF Len(h) = 1 THEN <<>> ELSE SiftDown(Front(Swapped(h, 1, Len(h))), 1)

HeapSound(h) == \A i \in 2..Len(h) : h[i] <= h[i \div 2]

HeapStep ==
    \/ \E x \in Elements : rep' = HeapPush(rep, x) /\ model' = SortSeq(Append(model, x), LAMBDA a, b : a > b)
    \/ rep # <<>> /\ rep' = HeapPop(rep) /\ model' = Tail(model)

(*----------------------------- BufferedQueue ----------------------------*)
(* A vector of which the first frontIndex elements have been taken.        *)
EmptyQueue == [storage |-> <<>>, frontIndex |-> 0]

QueueValue(q) == SubSeq(q.storage, q.frontIndex + 1, Len(q.storage))
Compact(q) == [storage |-> QueueValue(q), frontIndex |-> 0]

CompactBeforeFrontInsert(q) ==
    IF q.frontIndex > 0 /\ 2 * q.frontIndex >= Len(q.storage) THEN Compact(q) ELSE q

MaybeCompact(q) ==
    IF \/ q.frontIndex > 0 /\ q.frontIndex >= Len(q.storage)
       \/ q.frontIndex >= CompactFrom /\ 2 * q.frontIndex >= Len(q.storage)
    THEN Compact(q) ELSE q

PushFront(q, x) ==
    LET r == CompactBeforeFrontInsert(q)
    IN  [r EXCEPT !.storage = InsertAt(@, r.frontIndex + 1, x)]

PopFront(q) == MaybeCompact([q EXCEPT !.frontIndex = @ + 1])
EraseAt(q, index) == MaybeCompact([q EXCEPT !.storage = RemoveAt(@, q.frontIndex + index + 1)])

QueueStep ==
    \/ \E x \in Elements :
          \/ rep' = [rep EXCEPT !.storage = Append(@, x)] /\ model' = Append(model, x)
          \/ rep' = PushFront(rep, x) /\ model' = <<x>> \o model
    \/ model # <<>> /\ rep' = PopFront(rep) /\ model' = Tail(model)
    \/ \E i \in DOMAIN model : rep' = EraseAt(rep, i - 1) /\ model' = RemoveAt(model, i)

(*------------------------------------------------------------------------*)
Init == \/ kind = "vector" /\ rep = EmptyVector /\ model = <<>>
        \/ kind = "string" /\ rep = EmptyText   /\ model = <<>>
        \/ kind = "deque"  /\ rep = EmptyDeque  /\ model = <<>>
        \/ kind = "table"  /\ rep = EmptyTable  /\ model = [k \in {} |-> 0]
        \/ kind = "heap"   /\ rep = <<>>        /\ model = <<>>
        \/ kind = "queue"  /\ rep = EmptyQueue  /\ model = <<>>

Next == /\ \/ kind = "vector" /\ VectorStep
           \/ kind = "string" /\ TextStep
           \/ kind = "deque" /\ DequeStep
           \/ kind = "table" /\ TableStep
           \/ kind = "heap" /\ HeapStep
           \/ kind = "queue" /\ QueueStep
        /\ Cardinality(DOMAIN model') <= MaxSize
        /\ UNCHANGED kind

Spec == Init /\ [][Next]_containerVars

(***************************************************************************)
(* After any sequence of calls the memory stands for the value that the    *)
(* calls have built, cell by cell: no element lost, doubled or left in a   *)
(* cell that was moved from when a block grew, shifted, wrapped around or  *)
(* was compacted.  A string is ended by its NUL, iterating a table visits  *)
(* every key once, and a heap gives its largest element first.             *)
(***************************************************************************)
MemoryHoldsValue ==
    CASE kind = "vector" -> VectorSound(rep) /\ VectorValue(rep) = model
      [] kind = "string" -> TextSound(rep) /\ TextValue(rep) = model
      [] kind = "deque"  -> DequeSound(rep) /\ DequeValue(rep) = model
      [] kind = "table"  -> TableSound(rep, model)
      [] kind = "heap"   -> /\ HeapSound(rep)
                            /\ SortSeq(rep, LAMBDA a, b : a > b) = model
      [] kind = "queue"  -> QueueValue(rep) = model
====
