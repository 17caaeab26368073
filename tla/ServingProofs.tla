--------------------------- MODULE ServingProofs ---------------------------
(***************************************************************************)
(* Theorems of TopK and Serving: the heap keeps the best, a cut of merged  *)
(* cuts is a cut of everything, and so every answer is the best of what    *)
(* the broker heard.                                                       *)
(***************************************************************************)
EXTENDS Serving, TLAPS, WellFoundedInduction, SequenceTheorems, FiniteSetTheorems

-----------------------------------------------------------------------------
(* Induction and recursion over data, with sets and functions in place of  *)
(* the predicates and definitions of the library's theorems.               *)

\* Least number principle.
LEMMA LeastNumber ==
  ASSUME NEW S \in SUBSET Nat, S # {}
  PROVE  \E x \in S : \A y \in S : x <= y
<1>1. PICK x \in S : \A y \in S : ~(<<y, x>> \in OpToRel(<, Nat))
  BY NatLessThanWellFounded, WFMin, Zenon
<1>2. \A y \in S : x <= y
  <2> TAKE y \in S
  <2>1. ~(y < x)
    BY <1>1 DEF OpToRel
  <2> QED
    BY <2>1
<1> QED
  BY <1>2

\* Induction: a set that has n if it has all numbers below n is Nat.
LEMMA StrongInduction ==
  ASSUME NEW T \in SUBSET Nat,
         \A n \in Nat : (\A m \in Nat : m < n => m \in T) => n \in T
  PROVE  T = Nat
<1>1. SUFFICES ASSUME Nat \ T # {} PROVE FALSE
  OBVIOUS
<1>2. PICK x \in Nat \ T : \A y \in Nat \ T : x <= y
  BY <1>1, LeastNumber
<1>3. \A m \in Nat : m < x => m \in T
  BY <1>2
<1> QED
  BY <1>2, <1>3

\* Recursion: f[x] may depend on what f is at arguments of a smaller size, and
\* only on that; then there is an f.
Recursive(D, T, size, step) ==
  /\ T # {} /\ size \in [D -> Nat] /\ step \in [D -> [[D -> T] -> T]]
  /\ \A x \in D : \A f, g \in [D -> T] :
       (\A y \in D : size[y] < size[x] => f[y] = g[y]) => step[x][f] = step[x][g]
Solvable(D, T, step) == \E f \in [D -> T] : \A x \in D : f[x] = step[x][f]

LEMMA Recursion ==
  \A D, T, size, step : Recursive(D, T, size, step) => Solvable(D, T, step)
<1> SUFFICES ASSUME NEW D, NEW T, NEW size, NEW step, Recursive(D, T, size, step)
             PROVE  Solvable(D, T, step)
  OBVIOUS
<1>0. /\ T # {} /\ size \in [D -> Nat] /\ step \in [D -> [[D -> T] -> T]]
      /\ \A x \in D : \A f, g \in [D -> T] :
           (\A y \in D : size[y] < size[x] => f[y] = g[y]) => step[x][f] = step[x][g]
  BY DEF Recursive
<1> USE <1>0
<1> DEFINE Approx(n, f) == \A x \in D : size[x] < n => f[x] = step[x][f]
           Agree(m, n, f, g) == \A x \in D : size[x] < m /\ size[x] < n => f[x] = g[x]
           ok == {n \in Nat : \E f \in [D -> T] : Approx(n, f)}
<1>1. ok = Nat
  <2>1. ASSUME NEW n \in Nat, \A m \in Nat : m < n => m \in ok
        PROVE  n \in ok
    <3>1. CASE n = 0
      <4>1. PICK t \in T : TRUE
        OBVIOUS
      <4>2. [x \in D |-> t] \in [D -> T] /\ Approx(0, [x \in D |-> t])
        BY SMT
      <4> QED
        BY <3>1, <4>2
    <3>2. CASE n # 0
      <4>1. PICK f \in [D -> T] : Approx(n - 1, f)
        <5>1. n - 1 \in Nat /\ n - 1 < n
          BY <3>2
        <5> QED
          BY <2>1, <5>1
      <4> DEFINE g == [x \in D |-> IF size[x] = n - 1 THEN step[x][f] ELSE f[x]]
      <4>2. g \in [D -> T]
        OBVIOUS
      <4>3. ASSUME NEW x \in D, size[x] < n
            PROVE  g[x] = step[x][g]
        <5>1. \A y \in D : size[y] < size[x] => g[y] = f[y]
          BY <4>3
        <5>2. step[x][g] = step[x][f]
          BY <4>2, <5>1
        <5>3. CASE size[x] = n - 1
          BY <5>2, <5>3
        <5>4. CASE size[x] # n - 1
          <6> HIDE DEF g
          <6>1. PICK s \in Nat : s = size[x]
            OBVIOUS
          <6>2. s < n /\ s # n - 1
            BY <4>3, <5>4, <6>1
          <6>3. s < n - 1
            BY <6>2
          <6> QED
            BY <4>1, <5>2, <5>4, <6>1, <6>3 DEF g
        <5> QED
          BY <5>3, <5>4
      <4> HIDE DEF g
      <4> QED
        BY <4>2, <4>3
    <3> QED
      BY <3>1, <3>2
  <2> HIDE DEF ok
  <2>2. ok \in SUBSET Nat
    BY DEF ok
  <2> QED
    BY <2>1, <2>2, StrongInduction
<1>2. ASSUME NEW m \in Nat, NEW n \in Nat, NEW f \in [D -> T], NEW g \in [D -> T],
             Approx(m, f), Approx(n, g)
      PROVE  Agree(m, n, f, g)
  <2> DEFINE same == {s \in Nat : \A x \in D : size[x] = s /\ s < m /\ s < n => f[x] = g[x]}
  <2>1. ASSUME NEW s \in Nat, \A r \in Nat : r < s => r \in same
        PROVE  s \in same
    <3> SUFFICES ASSUME NEW x \in D, size[x] = s, s < m, s < n
                 PROVE  f[x] = g[x]
      OBVIOUS
    <3>1. \A y \in D : size[y] < size[x] => f[y] = g[y]
      <4> TAKE y \in D
      <4>1. size[y] \in Nat
        OBVIOUS
      <4> QED
        BY <2>1, <4>1
    <3>2. step[x][f] = step[x][g]
      BY <3>1
    <3> QED
      BY <1>2, <3>2
  <2> HIDE DEF same
  <2>2. same = Nat
    <3>1. same \in SUBSET Nat
      BY DEF same
    <3> QED
      BY <2>1, <3>1, StrongInduction
  <2> QED
    BY <2>2 DEF same
<1> DEFINE some[x \in D] == CHOOSE f \in [D -> T] : Approx(size[x] + 1, f)
           F == [x \in D |-> some[x][x]]
<1>3. \A x \in D : some[x] \in [D -> T] /\ Approx(size[x] + 1, some[x])
  <2> TAKE x \in D
  <2>1. size[x] + 1 \in ok
    BY <1>1
  <2>2. \E f \in [D -> T] : Approx(size[x] + 1, f)
    BY <2>1
  <2> HIDE DEF Approx
  <2> QED
    BY <2>2
<1> HIDE DEF some, ok, Approx
<1>4. F \in [D -> T]
  BY <1>3
<1>5. ASSUME NEW x \in D
      PROVE  F[x] = step[x][F]
  <2>1. some[x] \in [D -> T] /\ size[x] \in Nat
    BY <1>3
  <2>2. \A y \in D : size[y] < size[x] => F[y] = some[x][y]
    <3> SUFFICES ASSUME NEW y \in D, size[y] < size[x]
                 PROVE  some[y][y] = some[x][y]
      OBVIOUS
    <3>1. size[y] \in Nat /\ size[y] < size[y] + 1 /\ size[y] < size[x] + 1
      BY <2>1
    <3>2. PICK m \in Nat : m = size[y] + 1
      BY <3>1
    <3>3. PICK n \in Nat : n = size[x] + 1
      BY <2>1
    <3>4. /\ some[y] \in [D -> T] /\ Approx(m, some[y])
          /\ some[x] \in [D -> T] /\ Approx(n, some[x])
      BY <1>3, <3>2, <3>3, Zenon
    <3>5. Agree(m, n, some[y], some[x])
      <4> HIDE <1>0
      <4> HIDE DEF F, Agree
      <4> QED
        BY <1>2, <3>4, Zenon
    <3> QED
      BY <3>1, <3>2, <3>3, <3>5
  <2>3. step[x][F] = step[x][some[x]]
    <3> HIDE DEF F
    <3> QED
      BY <1>4, <2>1, <2>2
  <2>4. some[x][x] = step[x][some[x]]
    <3>1. size[x] < size[x] + 1
      BY <2>1
    <3> QED
      BY <1>3, <3>1 DEF Approx
  <2> QED
    BY <2>3, <2>4
<1> HIDE DEF F
<1> QED
  BY <1>4, <1>5 DEF Solvable

-----------------------------------------------------------------------------
(* The loops of the heap *)

\* The recursive function of HeapifyUp.
UpLoop(Z) ==
  CHOOSE f : f = [p \in Seq(Z) \X Nat |->
    LET h == p[1]
        i == p[2]
        parent == i \div 2
    IN IF i \in 2 .. Len(h) /\ h[i].score < h[parent].score THEN f[<<Swap(h, i, parent), parent>>] ELSE h]

LEMMA UpIsLoop == \A heap, index : HeapifyUp(heap, index) = UpLoop(ToSet(heap))[<<heap, index>>]
BY DEF HeapifyUp, UpLoop

\* Two items of a sequence are swapped.
LEMMA SwapFacts ==
  ASSUME NEW Z, NEW h \in Seq(Z), NEW i \in 1 .. Len(h), NEW j \in 1 .. Len(h)
  PROVE  /\ Swap(h, i, j) \in Seq(Z) /\ Len(Swap(h, i, j)) = Len(h)
         /\ \A n \in 1 .. Len(h) :
              Swap(h, i, j)[n] = IF n = j THEN h[i] ELSE IF n = i THEN h[j] ELSE h[n]
BY DEF Swap

SwappedTwo(h, g, i, j) ==
  /\ Len(g) = Len(h) /\ g[j] = h[i] /\ g[i] = h[j]
  /\ \A n \in 1 .. Len(h) : n # i /\ n # j => g[n] = h[n]

LEMMA SwapTwo ==
  ASSUME NEW Z, NEW h \in Seq(Z), NEW i \in 1 .. Len(h), NEW j \in 1 .. Len(h), i # j
  PROVE  SwappedTwo(h, Swap(h, i, j), i, j)
<1> DEFINE g == Swap(h, i, j)
<1>1. Len(g) = Len(h) /\ \A n \in 1 .. Len(h) : g[n] = IF n = j THEN h[i] ELSE IF n = i THEN h[j] ELSE h[n]
  BY SwapFacts
<1> HIDE DEF g
<1>2. g[j] = h[i] /\ g[i] = h[j] /\ \A n \in 1 .. Len(h) : n # i /\ n # j => g[n] = h[n]
  BY <1>1
<1> QED
  BY <1>1, <1>2, Zenon DEF SwappedTwo, g

LEMMA UpEquation ==
  ASSUME NEW Z, NEW h \in Seq(Z), NEW i \in Nat
  PROVE  UpLoop(Z)[<<h, i>>] =
           IF i \in 2 .. Len(h) /\ h[i].score < h[i \div 2].score
           THEN UpLoop(Z)[<<Swap(h, i, i \div 2), i \div 2>>] ELSE h
<1> DEFINE D == Seq(Z) \X Nat
           T == Seq(Z)
           size == [p \in D |-> p[2]]
           climbs(p) == p[2] \in 2 .. Len(p[1]) /\ p[1][p[2]].score < p[1][p[2] \div 2].score
           next(p) == <<Swap(p[1], p[2], p[2] \div 2), p[2] \div 2>>
           body(p, f) == IF climbs(p) THEN f[next(p)] ELSE p[1]
           step == [p \in D |-> [f \in [D -> T] |-> body(p, f)]]
<1>1. T # {} /\ size \in [D -> Nat]
  OBVIOUS
<1>2. ASSUME NEW p \in D, climbs(p)
      PROVE  next(p) \in D /\ size[next(p)] < size[p]
  <2>1. /\ p[1] \in Seq(Z) /\ p[2] \in 2 .. Len(p[1])
        /\ p[2] \div 2 \in 1 .. Len(p[1]) /\ p[2] \div 2 < p[2]
    BY <1>2
  <2>2. Swap(p[1], p[2], p[2] \div 2) \in Seq(Z)
    <3>1. p[2] \in 1 .. Len(p[1])
      BY <2>1
    <3> QED
      BY <2>1, <3>1, SwapFacts
  <2> QED
    BY <2>1, <2>2
<1> HIDE DEF climbs, next
<1>3. step \in [D -> [[D -> T] -> T]]
  BY <1>2
<1>4. \A p \in D : \A f, g \in [D -> T] :
        (\A y \in D : size[y] < size[p] => f[y] = g[y]) => step[p][f] = step[p][g]
  BY <1>2
<1>5. \A p \in D : \A f \in [D -> T] : step[p][f] = body(p, f)
  OBVIOUS
<1> HIDE DEF step, size, D, T
<1>6. \E f \in [D -> T] : \A p \in D : f[p] = step[p][f]
  <2>1. Recursive(D, T, size, step)
    BY <1>1, <1>3, <1>4 DEF Recursive
  <2>2. Solvable(D, T, step)
    BY <2>1, Recursion
  <2> QED
    BY <2>2 DEF Solvable
<1>7. PICK f \in [D -> T] : \A p \in D : f[p] = body(p, f)
  BY <1>5, <1>6
<1> DEFINE rec(g) == [p \in D |-> body(p, g)]
<1>8. f = rec(f)
  BY <1>7
<1>9. UpLoop(Z) = CHOOSE g : g = rec(g)
  BY DEF UpLoop, D, climbs, next
<1>10. UpLoop(Z) = rec(UpLoop(Z))
  <2> HIDE DEF rec
  <2> QED
    BY <1>8, <1>9
<1>11. <<h, i>> \in D
  BY DEF D
<1>12. UpLoop(Z)[<<h, i>>] = body(<<h, i>>, UpLoop(Z))
  <2>1. rec(UpLoop(Z))[<<h, i>>] = body(<<h, i>>, UpLoop(Z))
    BY <1>11
  <2> QED
    BY <1>10, <2>1
<1> QED
  BY <1>12 DEF climbs, next

\* The recursive function of HeapifyDown.
DownLoop(Z) ==
  CHOOSE f : f = [p \in Seq(Z) \X (Nat \ {0}) |->
    LET h == p[1]
        i == p[2]
        smallest == Smallest(h, i)
    IN IF smallest # i THEN f[<<Swap(h, i, smallest), smallest>>] ELSE h]

LEMMA DownIsLoop == \A heap, index : HeapifyDown(heap, index) = DownLoop(ToSet(heap))[<<heap, index>>]
BY DEF HeapifyDown, DownLoop

\* Where Smallest points, without its scores.
LEMMA SmallestPlace ==
  ASSUME NEW h, NEW n \in Nat, Len(h) = n, NEW i \in Nat \ {0}
  PROVE  /\ Smallest(h, i) \in Nat \ {0}
         /\ Smallest(h, i) # i => Smallest(h, i) \in 1 .. n /\ i \in 1 .. n /\ i < Smallest(h, i)
BY DEF Smallest

LEMMA DownEquation ==
  ASSUME NEW Z, NEW h \in Seq(Z), NEW i \in Nat \ {0}
  PROVE  DownLoop(Z)[<<h, i>>] =
           IF Smallest(h, i) # i THEN DownLoop(Z)[<<Swap(h, i, Smallest(h, i)), Smallest(h, i)>>] ELSE h
<1> DEFINE D == Seq(Z) \X (Nat \ {0})
           T == Seq(Z)
           size == [p \in D |-> IF p[2] <= Len(p[1]) THEN Len(p[1]) - p[2] ELSE 0]
           sinks(p) == Smallest(p[1], p[2]) # p[2]
           next(p) == <<Swap(p[1], p[2], Smallest(p[1], p[2])), Smallest(p[1], p[2])>>
           body(p, f) == IF sinks(p) THEN f[next(p)] ELSE p[1]
           step == [p \in D |-> [f \in [D -> T] |-> body(p, f)]]
<1>1. T # {} /\ size \in [D -> Nat]
  <2>1. \A p \in D : Len(p[1]) \in Nat /\ p[2] \in Nat
    OBVIOUS
  <2> QED
    BY <2>1
<1>2. ASSUME NEW p \in D, sinks(p)
      PROVE  next(p) \in D /\ size[next(p)] < size[p]
  <2> DEFINE s == Smallest(p[1], p[2])
             g == Swap(p[1], p[2], s)
  <2>1. p[1] \in Seq(Z) /\ p[2] \in Nat \ {0} /\ Len(p[1]) \in Nat
    OBVIOUS
  <2>2. s \in 1 .. Len(p[1]) /\ p[2] \in 1 .. Len(p[1]) /\ p[2] < s
    BY <1>2, <2>1, SmallestPlace
  <2>3. g \in Seq(Z) /\ Len(g) = Len(p[1])
    BY <2>1, <2>2, SwapFacts
  <2>4. s \in Nat \ {0} /\ s <= Len(p[1]) /\ p[2] <= Len(p[1]) /\ Len(p[1]) - s < Len(p[1]) - p[2]
    BY <2>1, <2>2
  <2> HIDE DEF s, g
  <2>5. <<g, s>> \in D
    BY <2>3, <2>4
  <2>6. size[<<g, s>>] = Len(p[1]) - s
    BY <2>3, <2>4, <2>5
  <2>7. size[p] = Len(p[1]) - p[2]
    BY <2>4
  <2> QED
    BY <2>4, <2>5, <2>6, <2>7 DEF s, g
<1> HIDE DEF sinks, next
<1>3. step \in [D -> [[D -> T] -> T]]
  BY <1>2
<1>4. \A p \in D : \A f, g \in [D -> T] :
        (\A y \in D : size[y] < size[p] => f[y] = g[y]) => step[p][f] = step[p][g]
  BY <1>2
<1>5. \A p \in D : \A f \in [D -> T] : step[p][f] = body(p, f)
  OBVIOUS
<1> HIDE DEF step, size, D, T
<1>6. \E f \in [D -> T] : \A p \in D : f[p] = step[p][f]
  <2>1. Recursive(D, T, size, step)
    BY <1>1, <1>3, <1>4 DEF Recursive
  <2>2. Solvable(D, T, step)
    BY <2>1, Recursion
  <2> QED
    BY <2>2 DEF Solvable
<1>7. PICK f \in [D -> T] : \A p \in D : f[p] = body(p, f)
  BY <1>5, <1>6
<1> DEFINE rec(g) == [p \in D |-> body(p, g)]
<1>8. f = rec(f)
  BY <1>7
<1>9. DownLoop(Z) = CHOOSE g : g = rec(g)
  BY DEF DownLoop, D, sinks, next
<1>10. DownLoop(Z) = rec(DownLoop(Z))
  <2> HIDE DEF rec
  <2> QED
    BY <1>8, <1>9
<1>11. <<h, i>> \in D
  BY DEF D
<1>12. DownLoop(Z)[<<h, i>>] = body(<<h, i>>, DownLoop(Z))
  <2>1. rec(DownLoop(Z))[<<h, i>>] = body(<<h, i>>, DownLoop(Z))
    BY <1>11
  <2> QED
    BY <1>10, <2>1
<1> QED
  BY <1>12 DEF sinks, next

-----------------------------------------------------------------------------
(* The loops put a heap in order *)

Scored(Z) == \A z \in Z : z.score \in Int

Ordered(h) == \A j \in 2 .. Len(h) : h[j \div 2].score <= h[j].score

\* h is ordered but for i, which may be too low for its place: then i's parent
\* is as low as i's children.
OrderedAbove(h, i) ==
  \A j \in 2 .. Len(h) :
    /\ j # i => h[j \div 2].score <= h[j].score
    /\ j \div 2 = i /\ i >= 2 => h[i \div 2].score <= h[j].score

\* h is ordered but for i, which may be too high for its place.
OrderedBelow(h, i) ==
  \A j \in 2 .. Len(h) :
    /\ j \div 2 # i => h[j \div 2].score <= h[j].score
    /\ j \div 2 = i /\ i >= 2 => h[i \div 2].score <= h[j].score

\* h is the items of those in S, each at one place.
Picks(h, item, S) ==
  \E from \in [1 .. Len(h) -> S] :
    /\ \A j \in 1 .. Len(h) : h[j] = item[from[j]]
    /\ \A j, n \in 1 .. Len(h) : j # n => from[j] # from[n]
    /\ \A m \in S : \E j \in 1 .. Len(h) : from[j] = m

LEMMA Halves ==
  \A j \in Nat : j >= 2 => /\ j \div 2 \in Nat /\ 1 <= j \div 2 /\ j \div 2 < j
                           /\ \A i \in Nat : j \div 2 = i <=> j = 2 * i \/ j = 2 * i + 1
OBVIOUS

LEMMA SwapPicks ==
  ASSUME NEW Z, NEW h \in Seq(Z), NEW i \in 1 .. Len(h), NEW n \in 1 .. Len(h),
         NEW item, NEW S, Picks(h, item, S)
  PROVE  Picks(Swap(h, i, n), item, S)
<1>1. PICK from \in [1 .. Len(h) -> S] :
        /\ \A j \in 1 .. Len(h) : h[j] = item[from[j]]
        /\ \A j, m \in 1 .. Len(h) : j # m => from[j] # from[m]
        /\ \A m \in S : \E j \in 1 .. Len(h) : from[j] = m
  BY DEF Picks
<1> DEFINE turn == [j \in 1 .. Len(h) |-> IF j = n THEN i ELSE IF j = i THEN n ELSE j]
           to == [j \in 1 .. Len(h) |-> from[turn[j]]]
<1>2. /\ turn \in [1 .. Len(h) -> 1 .. Len(h)]
      /\ \A j \in 1 .. Len(h) : turn[turn[j]] = j
  OBVIOUS
<1> DEFINE g == Swap(h, i, n)
<1>3. Len(g) = Len(h) /\ \A j \in 1 .. Len(h) : g[j] = h[turn[j]]
  <2>1. Len(g) = Len(h) /\ \A j \in 1 .. Len(h) : g[j] = IF j = n THEN h[i] ELSE IF j = i THEN h[n] ELSE h[j]
    BY SwapFacts
  <2> HIDE DEF g
  <2> QED
    BY <2>1
<1> HIDE DEF turn, g
<1>4. to \in [1 .. Len(h) -> S]
  BY <1>2
<1>5. \A j \in 1 .. Len(h) : g[j] = item[to[j]]
  BY <1>1, <1>2, <1>3
<1>6. \A j, m \in 1 .. Len(h) : j # m => to[j] # to[m]
  BY <1>1, <1>2
<1>7. \A m \in S : \E j \in 1 .. Len(h) : to[j] = m
  <2> TAKE m \in S
  <2>1. PICK j \in 1 .. Len(h) : from[j] = m
    BY <1>1
  <2>2. turn[j] \in 1 .. Len(h) /\ to[turn[j]] = m
    BY <1>2, <2>1
  <2> QED
    BY <2>2
<1> HIDE DEF to
<1>8. Picks(g, item, S)
  <2>1. to \in [1 .. Len(g) -> S]
    BY <1>3, <1>4
  <2>2. /\ \A j \in 1 .. Len(g) : g[j] = item[to[j]]
        /\ \A j, m \in 1 .. Len(g) : j # m => to[j] # to[m]
        /\ \A m \in S : \E j \in 1 .. Len(g) : to[j] = m
    BY <1>3, <1>5, <1>6, <1>7
  <2> QED
    BY <2>1, <2>2, Zenon DEF Picks
<1> QED
  BY <1>8 DEF g

\* An item that is lower than its parent takes its place.
LEMMA UpStep ==
  ASSUME NEW Z, Scored(Z), NEW h \in Seq(Z), NEW i \in 2 .. Len(h), OrderedAbove(h, i),
         h[i].score < h[i \div 2].score
  PROVE  OrderedAbove(Swap(h, i, i \div 2), i \div 2)
<1> DEFINE p == i \div 2
           g == Swap(h, i, p)
<1>1. /\ Len(h) \in Nat /\ i \in Nat /\ i >= 2 /\ i <= Len(h)
      /\ p \in Nat /\ 1 <= p /\ p < i /\ i \in 1 .. Len(h) /\ p \in 1 .. Len(h)
  BY Halves
<1>2. \A j \in 1 .. Len(h) : h[j].score \in Int
  BY DEF Scored
<1>3. Len(g) = Len(h) /\ g[p] = h[i] /\ g[i] = h[p]
      /\ \A j \in 1 .. Len(h) : j # i /\ j # p => g[j] = h[j]
  <2>1. PICK n \in 1 .. Len(h) : n = p
    BY <1>1
  <2>2. i \in 1 .. Len(h) /\ i # n
    BY <1>1, <2>1
  <2>3. SwappedTwo(h, Swap(h, i, n), i, n)
    BY <2>2, SwapTwo
  <2> QED
    BY <2>1, <2>3 DEF SwappedTwo
<1>4. h[i].score < h[p].score
  OBVIOUS
<1>5. i \div 2 = p
  OBVIOUS
<1> HIDE DEF g, p
<1>6. SUFFICES ASSUME NEW j \in 2 .. Len(h), NEW q \in 1 .. Len(h), q = j \div 2, q < j
      PROVE  /\ j # p => g[q].score <= g[j].score
             /\ q = p /\ p >= 2 => g[p \div 2].score <= g[j].score
  <2>1. \A j \in 2 .. Len(h) : j \div 2 \in 1 .. Len(h) /\ j \div 2 < j
    BY <1>1, Halves
  <2> QED
    BY <1>3, <2>1 DEF OrderedAbove, g, p
<1>7. /\ j \in 1 .. Len(h)
      /\ j # i => h[q].score <= h[j].score
      /\ q = i => h[p].score <= h[j].score
  BY <1>1, <1>5, <1>6 DEF OrderedAbove
<1>8. ASSUME j # p PROVE g[q].score <= g[j].score
  <2>1. CASE j = i
    BY <1>1, <1>2, <1>3, <1>4, <1>5, <1>6, <2>1
  <2>2. CASE j # i /\ q = i
    BY <1>1, <1>3, <1>6, <1>7, <1>8, <2>2
  <2>3. CASE j # i /\ q = p
    <3>1. h[i].score <= h[j].score
      <4>1. h[p].score <= h[j].score
        BY <1>7, <2>3
      <4> QED
        BY <1>1, <1>2, <1>4, <1>7, <4>1
    <3>2. g[j] = h[j]
      BY <1>3, <1>7, <1>8, <2>3
    <3> QED
      BY <1>3, <2>3, <3>1, <3>2
  <2>4. CASE j # i /\ q # i /\ q # p
    BY <1>3, <1>6, <1>7, <1>8, <2>4
  <2> QED
    BY <2>1, <2>2, <2>3, <2>4
<1>9. ASSUME q = p, p >= 2 PROVE g[p \div 2].score <= g[j].score
  <2> DEFINE pp == p \div 2
  <2>1. pp \in 1 .. Len(h) /\ pp < p
    BY <1>1, <1>9, Halves
  <2>2. pp # i /\ pp # p /\ j # p /\ p # i
    BY <1>1, <1>6, <1>9, <2>1
  <2>3. h[pp].score <= h[p].score
    <3>1. p \in 2 .. Len(h)
      BY <1>1, <1>9
    <3> QED
      BY <2>2, <3>1 DEF OrderedAbove
  <2> HIDE DEF pp
  <2>4. g[pp] = h[pp]
    BY <1>3, <2>1, <2>2
  <2>5. CASE j = i
    BY <1>3, <2>3, <2>4, <2>5 DEF pp
  <2>6. CASE j # i
    <3>1. h[p].score <= h[j].score /\ g[j] = h[j]
      BY <1>3, <1>7, <1>9, <2>2, <2>6
    <3>2. h[pp].score <= h[j].score
      BY <1>1, <1>2, <1>7, <2>1, <2>3, <3>1
    <3> QED
      BY <2>4, <3>1, <3>2 DEF pp
  <2> QED
    BY <2>5, <2>6
<1> QED
  BY <1>8, <1>9

\* g is h in another order.
Reordered(g, h, Z) ==
  /\ g \in Seq(Z) /\ Len(g) = Len(h)
  /\ \A item, S : Picks(h, item, S) => Picks(g, item, S)

LEMMA SwapReorders ==
  ASSUME NEW Z, NEW h \in Seq(Z), NEW i \in 1 .. Len(h), NEW n \in 1 .. Len(h)
  PROVE  Reordered(Swap(h, i, n), h, Z)
BY SwapFacts, SwapPicks DEF Reordered

LEMMA ReorderedAgain ==
  ASSUME NEW Z, NEW h, NEW g, NEW f, Reordered(g, h, Z), Reordered(f, g, Z)
  PROVE  Reordered(f, h, Z)
BY DEF Reordered

\* What a loop leaves is an ordered heap of the same items.
Settled(g, h, Z) == Reordered(g, h, Z) /\ Ordered(g)

LEMMA UpLoopSettles ==
  ASSUME NEW Z, Scored(Z)
  PROVE  \A i \in Nat : \A h \in Seq(Z) : OrderedAbove(h, i) => Settled(UpLoop(Z)[<<h, i>>], h, Z)
<1> DEFINE good == {n \in Nat : \A h \in Seq(Z) : OrderedAbove(h, n) => Settled(UpLoop(Z)[<<h, n>>], h, Z)}
<1>1. ASSUME NEW i \in Nat, \A m \in Nat : m < i => m \in good
      PROVE  i \in good
  <2> SUFFICES ASSUME NEW h \in Seq(Z), OrderedAbove(h, i)
               PROVE  Settled(UpLoop(Z)[<<h, i>>], h, Z)
    OBVIOUS
  <2> DEFINE p == i \div 2
             g == Swap(h, i, p)
  <2>1. CASE i \in 2 .. Len(h) /\ h[i].score < h[p].score
    <3>1. i \in 1 .. Len(h) /\ p \in 1 .. Len(h) /\ p \in Nat /\ p < i
      BY <2>1, Halves
    <3>2. Reordered(g, h, Z)
      BY <3>1, SwapReorders
    <3>3. g \in Seq(Z)
      BY <3>2 DEF Reordered
    <3>4. OrderedAbove(g, p)
      BY <2>1, UpStep
    <3>5. p \in good
      BY <1>1, <3>1
    <3>6. UpLoop(Z)[<<h, i>>] = UpLoop(Z)[<<g, p>>]
      BY <2>1, UpEquation
    <3> HIDE DEF g, p
    <3>7. Settled(UpLoop(Z)[<<g, p>>], g, Z)
      BY <3>3, <3>4, <3>5
    <3> QED
      BY <3>2, <3>6, <3>7, ReorderedAgain DEF Settled
  <2>2. CASE ~(i \in 2 .. Len(h) /\ h[i].score < h[p].score)
    <3>1. UpLoop(Z)[<<h, i>>] = h
      BY <2>2, UpEquation
    <3>2. Ordered(h)
      <4> SUFFICES ASSUME NEW j \in 2 .. Len(h) PROVE h[j \div 2].score <= h[j].score
        BY DEF Ordered
      <4>1. CASE j # i
        BY <4>1 DEF OrderedAbove
      <4>2. CASE j = i
        <5>1. ~(h[j].score < h[j \div 2].score)
          BY <2>2, <4>2
        <5>2. j \in 1 .. Len(h) /\ j \div 2 \in 1 .. Len(h)
          BY Halves
        <5>3. h[j].score \in Int /\ h[j \div 2].score \in Int
          BY <5>2 DEF Scored
        <5> QED
          BY <5>1, <5>3
      <4> QED
        BY <4>1, <4>2
    <3> QED
      BY <3>1, <3>2 DEF Settled, Reordered
  <2> QED
    BY <2>1, <2>2
<1> HIDE DEF good
<1>2. good = Nat
  <2>1. good \in SUBSET Nat
    BY DEF good
  <2> QED
    BY <1>1, <2>1, StrongInduction
<1> QED
  BY <1>2 DEF good

LEMMA OwnItems ==
  ASSUME NEW Z, NEW h \in Seq(Z)
  PROVE  /\ h \in Seq(ToSet(h)) /\ ToSet(h) \subseteq Z
         /\ \A g \in Seq(ToSet(h)) : g \in Seq(Z)
         /\ Scored(Z) => Scored(ToSet(h))
BY DEF ToSet, Scored

LEMMA HeapifyUpSettles ==
  ASSUME NEW Z, Scored(Z), NEW h \in Seq(Z), NEW i \in Nat, OrderedAbove(h, i)
  PROVE  Settled(HeapifyUp(h, i), h, Z)
<1>1. h \in Seq(ToSet(h)) /\ Scored(ToSet(h))
  BY OwnItems
<1>2. Settled(UpLoop(ToSet(h))[<<h, i>>], h, ToSet(h))
  BY <1>1, UpLoopSettles
<1>3. Settled(HeapifyUp(h, i), h, ToSet(h))
  BY <1>2, UpIsLoop
<1>4. \A g \in Seq(ToSet(h)) : g \in Seq(Z)
  BY OwnItems
<1> QED
  BY <1>3, <1>4 DEF Settled, Reordered

\* An item that is higher than one of its children changes places with the lowest.
LEMMA SmallestFacts ==
  ASSUME NEW Z, Scored(Z), NEW h \in Seq(Z), NEW i \in 1 .. Len(h)
  PROVE  /\ Smallest(h, i) \in 1 .. Len(h) /\ Smallest(h, i) \in {i, 2 * i, 2 * i + 1}
         /\ Smallest(h, i) # i => h[Smallest(h, i)].score < h[i].score
         /\ \A j \in 1 .. Len(h) : j = 2 * i \/ j = 2 * i + 1 => h[Smallest(h, i)].score <= h[j].score
<1>1. Len(h) \in Nat /\ i \in Nat /\ 1 <= i /\ i <= Len(h)
  OBVIOUS
<1>2. \A j \in 1 .. Len(h) : h[j].score \in Int
  BY DEF Scored
<1> DEFINE a == IF 2 * i <= Len(h) /\ h[2 * i].score < h[i].score THEN 2 * i ELSE i
           b == IF 2 * i + 1 <= Len(h) /\ h[2 * i + 1].score < h[a].score THEN 2 * i + 1 ELSE a
<1>3. Smallest(h, i) = b
  BY DEF Smallest
<1>4. /\ a \in 1 .. Len(h) /\ a \in {i, 2 * i} /\ a # 2 * i + 1
      /\ a # i => h[a].score < h[i].score
      /\ h[a].score <= h[i].score
      /\ \A j \in 1 .. Len(h) : j = 2 * i => h[a].score <= h[j].score
  BY <1>1, <1>2
<1> HIDE DEF a
<1>5. /\ b \in 1 .. Len(h) /\ b \in {a, 2 * i + 1}
      /\ b # a => h[b].score < h[a].score
      /\ h[b].score <= h[a].score
      /\ \A j \in 1 .. Len(h) : j = 2 * i + 1 => h[b].score <= h[j].score
  BY <1>1, <1>2, <1>4
<1> HIDE DEF b
<1>6. b # i => h[b].score < h[i].score
  BY <1>1, <1>2, <1>4, <1>5
<1>7. \A j \in 1 .. Len(h) : j = 2 * i \/ j = 2 * i + 1 => h[b].score <= h[j].score
  BY <1>1, <1>2, <1>4, <1>5
<1> QED
  BY <1>3, <1>4, <1>5, <1>6, <1>7

LEMMA DownStep ==
  ASSUME NEW Z, Scored(Z), NEW h \in Seq(Z), NEW i \in 1 .. Len(h), OrderedBelow(h, i),
         Smallest(h, i) # i
  PROVE  OrderedBelow(Swap(h, i, Smallest(h, i)), Smallest(h, i))
<1> DEFINE s == Smallest(h, i)
           g == Swap(h, i, s)
<1>1. /\ Len(h) \in Nat /\ i \in Nat /\ i >= 1 /\ i <= Len(h)
      /\ s \in Nat /\ s \in 1 .. Len(h) /\ i < s /\ s >= 2 /\ s \div 2 = i
      /\ h[s].score < h[i].score
  <2>1. s \in 1 .. Len(h) /\ s \in {2 * i, 2 * i + 1} /\ h[s].score < h[i].score
    BY SmallestFacts
  <2> HIDE DEF s
  <2>2. s >= 2 /\ i < s /\ s \in Nat
    BY <2>1
  <2>3. s \div 2 = i
    BY <2>1, <2>2, Halves
  <2> QED
    BY <2>1, <2>2, <2>3
<1>2. \A j \in 1 .. Len(h) : h[j].score \in Int
  BY DEF Scored
<1>3. \A j \in 2 .. Len(h) : j \div 2 = i => h[s].score <= h[j].score
  <2> TAKE j \in 2 .. Len(h)
  <2>1. j \div 2 = i => j = 2 * i \/ j = 2 * i + 1
    BY Halves
  <2>2. j \in 1 .. Len(h)
    OBVIOUS
  <2> QED
    BY <2>1, <2>2, SmallestFacts
<1> HIDE DEF s
<1>4. Len(g) = Len(h) /\ g[s] = h[i] /\ g[i] = h[s]
      /\ \A j \in 1 .. Len(h) : j # i /\ j # s => g[j] = h[j]
  <2>1. PICK n \in 1 .. Len(h) : n = s
    BY <1>1
  <2>2. i # n
    BY <1>1, <2>1
  <2>3. SwappedTwo(h, Swap(h, i, n), i, n)
    BY <2>2, SwapTwo
  <2> QED
    BY <2>1, <2>3 DEF SwappedTwo
<1> HIDE DEF g
<1>5. SUFFICES ASSUME NEW j \in 2 .. Len(h), NEW q \in 1 .. Len(h), q = j \div 2, q < j
      PROVE  /\ q # s => g[q].score <= g[j].score
             /\ q = s => g[i].score <= g[j].score
  <2>1. \A j \in 2 .. Len(h) : j \div 2 \in 1 .. Len(h) /\ j \div 2 < j
    BY <1>1, Halves
  <2> QED
    BY <1>1, <1>4, <2>1 DEF OrderedBelow, g, s
<1>6. /\ j \in 1 .. Len(h)
      /\ q # i => h[q].score <= h[j].score
      /\ q = i => h[s].score <= h[j].score
  BY <1>1, <1>3, <1>5 DEF OrderedBelow
<1>7. ASSUME q # s PROVE g[q].score <= g[j].score
  <2>1. CASE j = s
    BY <1>1, <1>2, <1>4, <1>5, <1>6, <2>1
  <2>2. CASE j # s /\ q = i
    <3>1. j # i
      BY <1>5, <2>2
    <3> QED
      BY <1>4, <1>6, <2>2, <3>1
  <2>3. CASE j # s /\ q # i /\ j = i
    <3>1. i >= 2 /\ i \div 2 = q
      BY <1>5, <2>3
    <3>2. h[q].score <= h[s].score
      <4>1. s \in 2 .. Len(h)
        BY <1>1
      <4> QED
        BY <1>1, <3>1, <4>1 DEF OrderedBelow
    <3> QED
      BY <1>4, <1>7, <2>3, <3>2
  <2>4. CASE j # s /\ q # i /\ j # i
    BY <1>4, <1>6, <1>7, <2>4
  <2> QED
    BY <2>1, <2>2, <2>3, <2>4
<1>8. ASSUME q = s PROVE g[i].score <= g[j].score
  <2>1. j # s /\ j # i /\ s # i
    BY <1>1, <1>5, <1>8
  <2>2. h[s].score <= h[j].score
    BY <1>6, <1>8, <2>1
  <2> QED
    BY <1>4, <1>6, <2>1, <2>2
<1> QED
  BY <1>7, <1>8

\* Ordered or not, the items stay; that is what the recursion of extractSorted needs.
LEMMA DownLoopSettles ==
  ASSUME NEW Z, Scored(Z)
  PROVE  \A h \in Seq(Z) : \A i \in Nat \ {0} :
           /\ Reordered(DownLoop(Z)[<<h, i>>], h, Z)
           /\ OrderedBelow(h, i) => Ordered(DownLoop(Z)[<<h, i>>])
<1> DEFINE left(h, i) == IF i <= Len(h) THEN Len(h) - i ELSE 0
           settles(h, i) == /\ Reordered(DownLoop(Z)[<<h, i>>], h, Z)
                            /\ OrderedBelow(h, i) => Ordered(DownLoop(Z)[<<h, i>>])
           good == {n \in Nat : \A h \in Seq(Z) : \A i \in Nat \ {0} : n = left(h, i) => settles(h, i)}
<1>1. ASSUME NEW n \in Nat, \A m \in Nat : m < n => m \in good
      PROVE  n \in good
  <2> SUFFICES ASSUME NEW h \in Seq(Z), NEW i \in Nat \ {0}, n = left(h, i)
               PROVE  settles(h, i)
    OBVIOUS
  <2> DEFINE s == Smallest(h, i)
             g == Swap(h, i, s)
  <2>0. Len(h) \in Nat
    OBVIOUS
  <2>1. CASE s # i
    <3>1. /\ i \in 1 .. Len(h) /\ s \in 1 .. Len(h) /\ s \in Nat \ {0} /\ i < s
      BY <2>0, <2>1, SmallestPlace
    <3>2. Reordered(g, h, Z)
      BY <3>1, SwapReorders
    <3>3. g \in Seq(Z) /\ Len(g) = Len(h)
      BY <3>2 DEF Reordered
    <3>4. OrderedBelow(h, i) => OrderedBelow(g, s)
      BY <2>1, <3>1, DownStep
    <3>5. DownLoop(Z)[<<h, i>>] = DownLoop(Z)[<<g, s>>]
      BY <2>1, DownEquation
    <3> HIDE DEF g, s
    <3>6. Len(h) - s \in Nat /\ Len(h) - s < n /\ Len(h) - s = left(g, s)
      BY <2>0, <3>1, <3>3
    <3>7. Len(h) - s \in good
      BY <1>1, <3>6
    <3> HIDE DEF settles, left
    <3>8. settles(g, s)
      BY <3>1, <3>3, <3>6, <3>7
    <3> QED
      BY <3>2, <3>4, <3>5, <3>8, ReorderedAgain DEF settles
  <2>2. CASE s = i
    <3>1. DownLoop(Z)[<<h, i>>] = h
      BY <2>2, DownEquation
    <3>2. ASSUME OrderedBelow(h, i) PROVE Ordered(h)
      <4> SUFFICES ASSUME NEW j \in 2 .. Len(h) PROVE h[j \div 2].score <= h[j].score
        BY DEF Ordered
      <4>1. CASE j \div 2 # i
        BY <3>2, <4>1 DEF OrderedBelow
      <4>2. CASE j \div 2 = i
        <5>1. j = 2 * i \/ j = 2 * i + 1
          BY <4>2, Halves
        <5>2. j \in 1 .. Len(h) /\ i \in 1 .. Len(h)
          BY <2>0, <5>1
        <5>3. h[s].score <= h[j].score
          BY <5>1, <5>2, SmallestFacts
        <5> QED
          BY <2>2, <4>2, <5>3
      <4> QED
        BY <4>1, <4>2
    <3>3. Reordered(h, h, Z)
      BY DEF Reordered
    <3> QED
      BY <3>1, <3>2, <3>3
  <2> QED
    BY <2>1, <2>2
<1> HIDE DEF good
<1>2. good = Nat
  <2>1. good \in SUBSET Nat
    BY DEF good
  <2> QED
    BY <1>1, <2>1, StrongInduction
<1>3. SUFFICES ASSUME NEW h \in Seq(Z), NEW i \in Nat \ {0}
      PROVE  settles(h, i)
  OBVIOUS
<1>4. PICK n \in Nat : n = left(h, i)
  <2>1. Len(h) \in Nat
    OBVIOUS
  <2> QED
    BY <2>1
<1>5. n \in good
  BY <1>2
<1> HIDE DEF settles, left
<1> QED
  BY <1>3, <1>4, <1>5 DEF good

LEMMA HeapifyDownSettles ==
  ASSUME NEW Z, Scored(Z), NEW h \in Seq(Z), NEW i \in Nat \ {0}
  PROVE  Reordered(HeapifyDown(h, i), h, Z) /\ (OrderedBelow(h, i) => Ordered(HeapifyDown(h, i)))
<1>1. h \in Seq(ToSet(h)) /\ Scored(ToSet(h))
  BY OwnItems
<1>2. /\ Reordered(DownLoop(ToSet(h))[<<h, i>>], h, ToSet(h))
      /\ OrderedBelow(h, i) => Ordered(DownLoop(ToSet(h))[<<h, i>>])
  BY <1>1, DownLoopSettles
<1>3. Reordered(HeapifyDown(h, i), h, ToSet(h)) /\ (OrderedBelow(h, i) => Ordered(HeapifyDown(h, i)))
  BY <1>2, DownIsLoop
<1>4. \A g \in Seq(ToSet(h)) : g \in Seq(Z)
  BY OwnItems
<1> QED
  BY <1>3, <1>4 DEF Reordered

\* The root of a heap has the lowest score.
LEMMA RootIsLeast ==
  ASSUME NEW Z, Scored(Z), NEW h \in Seq(Z), Ordered(h)
  PROVE  \A j \in 1 .. Len(h) : h[1].score <= h[j].score
<1> DEFINE good == {n \in Nat : n \in 1 .. Len(h) => h[1].score <= h[n].score}
<1>1. ASSUME NEW n \in Nat, \A m \in Nat : m < n => m \in good
      PROVE  n \in good
  <2> SUFFICES ASSUME n \in 1 .. Len(h) PROVE h[1].score <= h[n].score
    OBVIOUS
  <2>1. h[1].score \in Int /\ h[n].score \in Int
    BY DEF Scored
  <2>2. CASE n = 1
    BY <2>1, <2>2
  <2>3. CASE n # 1
    <3>1. n \in 2 .. Len(h)
      BY <2>3
    <3>2. PICK q \in Nat : q = n \div 2 /\ 1 <= q /\ q < n
      BY <3>1, Halves
    <3>3. q \in 1 .. Len(h) /\ q \in good
      BY <1>1, <3>1, <3>2
    <3>4. h[q].score \in Int
      BY <3>3 DEF Scored
    <3>5. h[1].score <= h[q].score
      BY <3>3
    <3>6. h[q].score <= h[n].score
      BY <3>1, <3>2 DEF Ordered
    <3> QED
      BY <2>1, <3>4, <3>5, <3>6
  <2> QED
    BY <2>2, <2>3
<1> HIDE DEF good
<1>2. good = Nat
  <2>1. good \in SUBSET Nat
    BY DEF good
  <2> QED
    BY <1>1, <2>1, StrongInduction
<1> QED
  BY <1>2 DEF good

Heaps(Z) == {h \in Seq(Z) : Ordered(h)}

\* push keeps a heap, ordered and no longer than k.
LEMMA AppendedSettles ==
  ASSUME NEW Z, Scored(Z), NEW h \in Heaps(Z), NEW z \in Z
  PROVE  Settled(HeapifyUp(Append(h, z), Len(h) + 1), Append(h, z), Z)
<1> DEFINE g == Append(h, z)
           n == Len(h) + 1
<1>1. h \in Seq(Z) /\ Ordered(h) /\ Len(h) \in Nat
  BY DEF Heaps
<1>2. g \in Seq(Z) /\ n \in Nat /\ Len(g) = n /\ \A j \in 1 .. Len(h) : g[j] = h[j]
  BY <1>1
<1>3. OrderedAbove(g, n)
  <2> SUFFICES ASSUME NEW j \in 2 .. n
               PROVE  /\ j # n => g[j \div 2].score <= g[j].score
                      /\ j \div 2 # n
    BY <1>2 DEF OrderedAbove
  <2>1. j \div 2 \in Nat /\ 1 <= j \div 2 /\ j \div 2 < j
    BY <1>1, Halves
  <2>2. ASSUME j # n PROVE g[j \div 2].score <= g[j].score
    <3>1. j \in 2 .. Len(h) /\ j \in 1 .. Len(h) /\ j \div 2 \in 1 .. Len(h)
      BY <1>1, <2>1, <2>2
    <3>2. h[j \div 2].score <= h[j].score
      BY <1>1, <3>1 DEF Ordered
    <3> HIDE DEF g
    <3> QED
      BY <1>2, <3>1, <3>2
  <2> QED
    BY <1>1, <2>1, <2>2
<1> HIDE DEF g, n
<1>4. Settled(HeapifyUp(g, n), g, Z)
  BY <1>2, <1>3, HeapifyUpSettles
<1> QED
  BY <1>4 DEF g, n

LEMMA ReplacedSettles ==
  ASSUME NEW Z, Scored(Z), NEW h \in Heaps(Z), NEW z \in Z, h # <<>>
  PROVE  Settled(HeapifyDown([h EXCEPT ![1] = z], 1), [h EXCEPT ![1] = z], Z)
<1> DEFINE g == [h EXCEPT ![1] = z]
<1>1. h \in Seq(Z) /\ Ordered(h) /\ Len(h) \in Nat
  BY DEF Heaps
<1>2. g \in Seq(Z) /\ Len(g) = Len(h) /\ \A j \in 2 .. Len(h) : g[j] = h[j]
  BY <1>1
<1> HIDE DEF g
<1>3. OrderedBelow(g, 1)
  <2> SUFFICES ASSUME NEW j \in 2 .. Len(h), j \div 2 # 1
               PROVE  g[j \div 2].score <= g[j].score
    BY <1>2 DEF OrderedBelow
  <2>1. j \div 2 \in 2 .. Len(h)
    BY <1>1, Halves
  <2> QED
    BY <1>1, <1>2, <2>1 DEF Ordered
<1>4. Settled(HeapifyDown(g, 1), g, Z)
  BY <1>2, <1>3, HeapifyDownSettles DEF Settled
<1> QED
  BY <1>4 DEF g

LEMMA PushIsHeap ==
  ASSUME NEW Z, Scored(Z), NEW h \in Heaps(Z), NEW z \in Z, NEW k \in Nat \ {0}
  PROVE  Push(h, k, z) \in Heaps(Z)
<1>1. h \in Seq(Z) /\ Len(h) \in Nat
  BY DEF Heaps
<1>2. CASE Len(h) < k
  BY <1>2, AppendedSettles DEF Push, Settled, Reordered, Heaps
<1>3. CASE ~(Len(h) < k) /\ z.score > h[1].score
  <2>1. h # <<>>
    BY <1>1, <1>3
  <2> QED
    BY <1>3, <2>1, ReplacedSettles DEF Push, Settled, Reordered, Heaps
<1>4. CASE ~(Len(h) < k) /\ ~(z.score > h[1].score)
  BY <1>4 DEF Push
<1> QED
  BY <1>2, <1>3, <1>4

-----------------------------------------------------------------------------
(* A heap keeps the best *)

\* h is at most k of the items of M, and those it is not are no better and give
\* way to k others.
Keeps(h, k, item, M) ==
  \E S \in SUBSET M :
    /\ Picks(h, item, S) /\ Len(h) <= k
    /\ \A m \in M \ S : Len(h) = k /\ \A s \in S : item[m].score <= item[s].score

LEMMA PushKeeps ==
  ASSUME NEW Z, Scored(Z), NEW h \in Heaps(Z), NEW k \in Nat \ {0},
         NEW item, NEW M, \A m \in M : item[m] \in Z, Keeps(h, k, item, M),
         NEW n, n \notin M, item[n] \in Z
  PROVE  Keeps(Push(h, k, item[n]), k, item, M \cup {n})
<1> DEFINE z == item[n]
<1>1. h \in Seq(Z) /\ Ordered(h) /\ Len(h) \in Nat
  BY DEF Heaps
<1>2. PICK S \in SUBSET M :
        /\ Picks(h, item, S) /\ Len(h) <= k
        /\ \A m \in M \ S : Len(h) = k /\ \A s \in S : item[m].score <= item[s].score
  BY DEF Keeps
<1>3. PICK from \in [1 .. Len(h) -> S] :
        /\ \A j \in 1 .. Len(h) : h[j] = item[from[j]]
        /\ \A i, j \in 1 .. Len(h) : i # j => from[i] # from[j]
        /\ \A m \in S : \E j \in 1 .. Len(h) : from[j] = m
  BY <1>2 DEF Picks
<1>4. z.score \in Int /\ \A m \in M : item[m].score \in Int
  BY DEF Scored
<1>5. CASE Len(h) < k
  <2> DEFINE g == Append(h, z)
             r == HeapifyUp(g, Len(h) + 1)
  <2>1. M = S
    <3>1. Len(h) # k
      BY <1>1, <1>5
    <3>2. \A m \in M : m \in S
      BY <1>2, <3>1
    <3> QED
      BY <3>2
  <2>2. Push(h, k, z) = r
    BY <1>5 DEF Push
  <2>3. Settled(r, g, Z)
    BY AppendedSettles
  <2>4. Picks(g, item, M \cup {n})
    <3> DEFINE to == [j \in 1 .. Len(h) + 1 |-> IF j \in 1 .. Len(h) THEN from[j] ELSE n]
    <3>1. Len(g) = Len(h) + 1 /\ g[Len(h) + 1] = z /\ \A j \in 1 .. Len(h) : g[j] = h[j]
      BY <1>1
    <3>2. to \in [1 .. Len(g) -> M \cup {n}] /\ to[Len(h) + 1] = n /\ \A j \in 1 .. Len(h) : to[j] = from[j]
      BY <1>1, <2>1, <3>1
    <3>3. \A j \in 1 .. Len(g) : j \in 1 .. Len(h) \/ j = Len(h) + 1
      BY <1>1, <3>1
    <3>4. Len(h) + 1 \in 1 .. Len(g) /\ \A j \in 1 .. Len(h) : j \in 1 .. Len(g)
      BY <1>1, <3>1
    <3> HIDE DEF to, g
    <3>5. \A j \in 1 .. Len(g) : g[j] = item[to[j]]
      BY <1>3, <3>1, <3>2, <3>3
    <3>6. \A i, j \in 1 .. Len(g) : i # j => to[i] # to[j]
      BY <1>3, <2>1, <3>2, <3>3
    <3>7. \A m \in M \cup {n} : \E j \in 1 .. Len(g) : to[j] = m
      BY <1>3, <2>1, <3>2, <3>4
    <3> QED
      BY <3>2, <3>5, <3>6, <3>7 DEF Picks
  <2>5. Len(g) <= k
    BY <1>1, <1>5
  <2> HIDE DEF g, r
  <2>6. Picks(r, item, M \cup {n}) /\ Len(r) <= k
    BY <2>3, <2>4, <2>5 DEF Settled, Reordered
  <2>7. Keeps(r, k, item, M \cup {n})
    BY <2>6 DEF Keeps
  <2> QED
    BY <2>2, <2>7
<1>6. CASE ~(Len(h) < k) /\ z.score > h[1].score
  <2> DEFINE g == [h EXCEPT ![1] = z]
             r == HeapifyDown(g, 1)
             S2 == (S \ {from[1]}) \cup {n}
  <2>1. Len(h) = k /\ h # <<>> /\ 1 \in 1 .. Len(h)
    BY <1>1, <1>2, <1>6
  <2>2. Push(h, k, z) = r
    BY <1>6 DEF Push
  <2>3. Settled(r, g, Z)
    BY <2>1, ReplacedSettles
  <2>4. Len(g) = Len(h) /\ g[1] = z /\ \A j \in 1 .. Len(h) : j # 1 => g[j] = h[j]
    BY <1>1, <2>1
  <2>5. Picks(g, item, S2)
    <3> DEFINE to == [j \in 1 .. Len(h) |-> IF j = 1 THEN n ELSE from[j]]
    <3>1. to \in [1 .. Len(g) -> S2]
      BY <1>3, <2>1, <2>4
    <3>2. to[1] = n /\ \A j \in 1 .. Len(h) : j # 1 => to[j] = from[j]
      BY <2>1
    <3> HIDE DEF to, g
    <3>3. \A j \in 1 .. Len(g) : g[j] = item[to[j]]
      BY <1>3, <2>4, <3>2
    <3>4. n \notin S
      BY <1>2
    <3>5. \A i, j \in 1 .. Len(g) : i # j => to[i] # to[j]
      BY <1>3, <2>4, <3>2, <3>4
    <3>6. \A m \in S2 : \E j \in 1 .. Len(g) : to[j] = m
      BY <1>3, <2>1, <2>4, <3>2
    <3> HIDE DEF S2
    <3> QED
      BY <3>1, <3>3, <3>5, <3>6 DEF Picks
  <2> HIDE DEF g, r
  <2>6. Picks(r, item, S2) /\ Len(r) = k
    BY <2>1, <2>3, <2>4, <2>5 DEF Settled, Reordered
  <2>7. S2 \in SUBSET (M \cup {n})
    BY <1>2
  <2>8. \A s \in S2 : h[1].score <= item[s].score
    <3>1. \A j \in 1 .. Len(h) : h[1].score <= h[j].score
      BY <1>1, RootIsLeast
    <3>2. \A s \in S : h[1].score <= item[s].score
      BY <1>3, <3>1
    <3>3. h[1].score <= z.score
      <4>1. h[1].score \in Int
        BY <1>1, <2>1 DEF Scored
      <4> QED
        BY <1>4, <1>6, <4>1
    <3> QED
      BY <3>2, <3>3
  <2>9. from[1] \in S /\ h[1] = item[from[1]] /\ from[1] \in M
    BY <1>2, <1>3, <2>1
  <2>10. ASSUME NEW m \in (M \cup {n}) \ S2, NEW s \in S2
         PROVE  item[m].score <= item[s].score
    <3>1. CASE m = from[1]
      BY <2>8, <2>9, <3>1
    <3>2. CASE m # from[1]
      <4>1. m \in M \ S
        BY <2>10, <3>2
      <4>2. item[m].score <= h[1].score
        BY <1>2, <2>9, <4>1
      <4>3. h[1].score <= item[s].score
        BY <2>8
      <4>4. /\ item[m].score \in Int /\ h[1].score \in Int /\ item[s].score \in Int
        BY <1>4, <2>7, <2>9, <4>1
      <4> QED
        BY <4>2, <4>3, <4>4
    <3> QED
      BY <3>1, <3>2
  <2> HIDE DEF S2
  <2>11. Len(r) <= k
    BY <2>6
  <2>12. Keeps(r, k, item, M \cup {n})
    BY <2>6, <2>7, <2>10, <2>11 DEF Keeps
  <2> QED
    BY <2>2, <2>12
<1>7. CASE ~(Len(h) < k) /\ ~(z.score > h[1].score)
  <2>1. Push(h, k, z) = h
    BY <1>7 DEF Push
  <2>2. Len(h) = k /\ 1 \in 1 .. Len(h)
    BY <1>1, <1>2, <1>7
  <2>3. \A s \in S : z.score <= item[s].score
    <3> TAKE s \in S
    <3>1. PICK j \in 1 .. Len(h) : h[j] = item[s]
      BY <1>3
    <3>2. h[1].score <= h[j].score
      BY <1>1, RootIsLeast
    <3>3. h[1].score \in Int /\ h[j].score \in Int
      BY <1>1, <2>2 DEF Scored
    <3>4. z.score <= h[1].score
      BY <1>4, <1>7, <3>3
    <3>5. z.score <= h[j].score
      BY <1>4, <3>2, <3>3, <3>4
    <3> QED
      BY <3>1, <3>5
  <2>4. S \in SUBSET (M \cup {n})
    OBVIOUS
  <2>5. \A m \in (M \cup {n}) \ S : Len(h) = k /\ \A s \in S : item[m].score <= item[s].score
    BY <1>2, <2>2, <2>3
  <2>6. Keeps(h, k, item, M \cup {n})
    BY <1>2, <2>4, <2>5 DEF Keeps
  <2> QED
    BY <2>1, <2>6
<1> QED
  BY <1>5, <1>6, <1>7

-----------------------------------------------------------------------------
(* Many items through a heap *)

\* A chain of steps from a base.
Steps(N, T, base, step) == N \in Nat /\ base \in T /\ step \in [1 .. N -> [T -> T]]
Chain(f, N, T, base, step) ==
  f \in [0 .. N -> T] /\ f[0] = base /\ \A n \in 1 .. N : f[n] = step[n][f[n - 1]]

LEMMA Chains ==
  \A N, T, base, step : Steps(N, T, base, step) => \E f : Chain(f, N, T, base, step)
<1> SUFFICES ASSUME NEW N, NEW T, NEW base, NEW step, Steps(N, T, base, step)
             PROVE  \E f : Chain(f, N, T, base, step)
  OBVIOUS
<1>1. N \in Nat /\ base \in T /\ step \in [1 .. N -> [T -> T]]
  BY DEF Steps
<1> DEFINE D == 0 .. N
           size == [n \in D |-> n]
           body(n, f) == IF n = 0 THEN base ELSE step[n][f[n - 1]]
           whole == [n \in D |-> [f \in [D -> T] |-> body(n, f)]]
<1>2. \A n \in D : n # 0 => n \in 1 .. N /\ n - 1 \in D /\ n - 1 < n
  BY <1>1
<1>3. T # {} /\ size \in [D -> Nat]
  BY <1>1
<1>4. \A n \in D : \A f \in [D -> T] : body(n, f) \in T
  BY <1>1, <1>2
<1>5. \A n \in D : \A f, g \in [D -> T] :
        (\A y \in D : size[y] < size[n] => f[y] = g[y]) => body(n, f) = body(n, g)
  <2> TAKE n \in D
  <2> TAKE f, g \in [D -> T]
  <2> HAVE \A y \in D : size[y] < size[n] => f[y] = g[y]
  <2>1. n # 0 => f[n - 1] = g[n - 1]
    BY <1>2
  <2> QED
    BY <2>1
<1> HIDE DEF body
<1>6. whole \in [D -> [[D -> T] -> T]]
  BY <1>4
<1>7. \A n \in D : \A f \in [D -> T] : whole[n][f] = body(n, f)
  OBVIOUS
<1> HIDE DEF D, size, whole
<1>8. Recursive(D, T, size, whole)
  <2>1. \A n \in D : \A f, g \in [D -> T] :
          (\A y \in D : size[y] < size[n] => f[y] = g[y]) => whole[n][f] = whole[n][g]
    <3> TAKE n \in D
    <3> TAKE f, g \in [D -> T]
    <3> HAVE \A y \in D : size[y] < size[n] => f[y] = g[y]
    <3>1. body(n, f) = body(n, g)
      BY <1>5
    <3>2. whole[n][f] = body(n, f) /\ whole[n][g] = body(n, g)
      BY <1>7
    <3> QED
      BY <3>1, <3>2
  <2> QED
    BY <1>3, <1>6, <2>1 DEF Recursive
<1>9. Solvable(D, T, whole)
  BY <1>8, Recursion
<1>10. PICK f \in [D -> T] : \A n \in D : f[n] = body(n, f)
  BY <1>7, <1>9 DEF Solvable
<1>11. f[0] = base /\ \A n \in 1 .. N : f[n] = step[n][f[n - 1]]
  BY <1>1, <1>10 DEF D, body
<1> QED
  BY <1>10, <1>11 DEF Chain, D

\* The heaps between the pushes.
Pushed(after, heap, k, items, among, Z) ==
  /\ after \in [0 .. Len(items) -> Heaps(Z)] /\ after[0] = heap
  /\ \A n \in 1 .. Len(items) :
       after[n] = IF n \in among THEN Push(after[n - 1], k, items[n]) ELSE after[n - 1]

PushedInSteps(heap, k, items, among, Z) ==
  \E after : Pushed(after, heap, k, items, among, Z) /\ PushAll(heap, k, items, among) = after[Len(items)]

LEMMA PushAllSteps ==
  ASSUME NEW Z, Scored(Z), NEW heap \in Heaps(Z), NEW k \in Nat \ {0},
         NEW items \in Seq(Z), NEW among
  PROVE  PushedInSteps(heap, k, items, among, Z)
<1> DEFINE N == Len(items)
           T == Heaps(Z)
           one(n, h) == IF n \in among THEN Push(h, k, items[n]) ELSE h
           step == [n \in 1 .. N |-> [h \in T |-> one(n, h)]]
           rec(f) == [n \in 0 .. N |-> IF n = 0 THEN heap ELSE one(n, f[n - 1])]
           F == CHOOSE f : f = rec(f)
<1>1. N \in Nat /\ \A n \in 1 .. N : items[n] \in Z
  OBVIOUS
<1>2. \A n \in 1 .. N : \A h \in T : one(n, h) \in T
  BY <1>1, PushIsHeap
<1>3. PushAll(heap, k, items, among) = F[N]
  BY DEF PushAll
<1> HIDE DEF N, T, one
<1>4. step \in [1 .. N -> [T -> T]] /\ \A n \in 1 .. N : \A h \in T : step[n][h] = one(n, h)
  BY <1>2
<1>5. Steps(N, T, heap, step)
  BY <1>1, <1>4 DEF Steps, T
<1> HIDE DEF step
<1>6. PICK f : Chain(f, N, T, heap, step)
  BY <1>5, Chains
<1>7. \A n \in 1 .. N : n - 1 \in 0 .. N /\ n \in 0 .. N
  BY <1>1
<1>8. f \in [0 .. N -> T] /\ f[0] = heap /\ \A n \in 1 .. N : f[n] = one(n, f[n - 1])
  BY <1>4, <1>6, <1>7 DEF Chain
<1>9. f = rec(f)
  <2>1. \A n \in 0 .. N : f[n] = IF n = 0 THEN heap ELSE one(n, f[n - 1])
    <3> TAKE n \in 0 .. N
    <3>1. n # 0 => n \in 1 .. N
      BY <1>1
    <3> QED
      BY <1>8, <3>1
  <2> QED
    BY <1>8, <2>1
<1>10. F = rec(F)
  <2> HIDE DEF rec
  <2> QED
    BY <1>9
<1> HIDE DEF F
<1>11. F[0] = heap /\ \A n \in 1 .. N : F[n] = one(n, F[n - 1])
  <2> DEFINE R == rec(F)
  <2>1. R[0] = heap /\ \A n \in 1 .. N : R[n] = one(n, F[n - 1])
    BY <1>1
  <2> HIDE DEF R
  <2>2. F = R
    BY <1>10 DEF R
  <2> QED
    BY <2>1, <2>2
<1> DEFINE good == {n \in Nat : n \in 0 .. N => F[n] = f[n]}
<1>12. ASSUME NEW n \in Nat, \A m \in Nat : m < n => m \in good
       PROVE  n \in good
  <2> SUFFICES ASSUME n \in 0 .. N PROVE F[n] = f[n]
    OBVIOUS
  <2>1. CASE n = 0
    BY <1>8, <1>11, <2>1
  <2>2. CASE n # 0
    <3>1. n \in 1 .. N /\ n - 1 \in Nat /\ n - 1 < n /\ n - 1 \in 0 .. N
      BY <1>1, <2>2
    <3>2. F[n - 1] = f[n - 1]
      BY <1>12, <3>1
    <3> QED
      BY <1>8, <1>11, <3>1, <3>2
  <2> QED
    BY <2>1, <2>2
<1> HIDE DEF good
<1>13. good = Nat
  <2>1. good \in SUBSET Nat
    BY DEF good
  <2> QED
    BY <1>12, <2>1, StrongInduction
<1>14. N \in 0 .. N
  BY <1>1
<1>15. F[N] = f[N]
  BY <1>1, <1>13, <1>14 DEF good
<1>16. Pushed(f, heap, k, items, among, Z)
  BY <1>8 DEF Pushed, N, T, one
<1> QED
  BY <1>3, <1>15, <1>16 DEF N, PushedInSteps

\* item knows an item that is pushed by its id; M has those pushed before.
AllKept(h, k, item, M, id, among) == Keeps(h, k, item, M \cup {id[j] : j \in among})

LEMMA PushAllKeeps ==
  ASSUME NEW Z, Scored(Z), NEW heap \in Heaps(Z), NEW k \in Nat \ {0},
         NEW items \in Seq(Z), NEW among \in SUBSET (1 .. Len(items)),
         NEW item, NEW M, \A m \in M : item[m] \in Z, Keeps(heap, k, item, M),
         NEW id, \A j \in among : id[j] \notin M /\ item[id[j]] = items[j],
         \A i, j \in among : i # j => id[i] # id[j]
  PROVE  /\ PushAll(heap, k, items, among) \in Heaps(Z)
         /\ AllKept(PushAll(heap, k, items, among), k, item, M, id, among)
<1>1. Len(items) \in Nat /\ \A j \in 1 .. Len(items) : items[j] \in Z
  OBVIOUS
<1>2. PICK after : /\ Pushed(after, heap, k, items, among, Z)
                   /\ PushAll(heap, k, items, among) = after[Len(items)]
  BY PushAllSteps DEF PushedInSteps
<1>3. /\ after \in [0 .. Len(items) -> Heaps(Z)] /\ after[0] = heap
      /\ \A n \in 1 .. Len(items) :
           after[n] = IF n \in among THEN Push(after[n - 1], k, items[n]) ELSE after[n - 1]
  BY <1>2 DEF Pushed
<1> DEFINE ids(n) == {id[j] : j \in {i \in among : i <= n}}
           good == {n \in Nat : n \in 0 .. Len(items) => Keeps(after[n], k, item, M \cup ids(n))}
<1>4. ASSUME NEW n \in Nat, \A m \in Nat : m < n => m \in good
      PROVE  n \in good
  <2> SUFFICES ASSUME n \in 0 .. Len(items) PROVE Keeps(after[n], k, item, M \cup ids(n))
    OBVIOUS
  <2>1. CASE n = 0
    <3>1. ids(0) = {}
      OBVIOUS
    <3>2. M \cup ids(0) = M
      BY <3>1
    <3> HIDE DEF ids
    <3> QED
      BY <1>3, <2>1, <3>2
  <2>2. CASE n # 0
    <3>1. n \in 1 .. Len(items) /\ n - 1 \in Nat /\ n - 1 < n /\ n - 1 \in 0 .. Len(items)
      BY <1>1, <2>2
    <3>2. Keeps(after[n - 1], k, item, M \cup ids(n - 1)) /\ after[n - 1] \in Heaps(Z)
      BY <1>3, <1>4, <3>1
    <3>3. CASE n \in among
      <4>1. ids(n) = ids(n - 1) \cup {id[n]}
        <5>1. \A i \in among : i <= n <=> i <= n - 1 \/ i = n
          BY <1>1, <3>1
        <5>2. {i \in among : i <= n} = {i \in among : i <= n - 1} \cup {n}
          BY <3>1, <3>3, <5>1
        <5> QED
          BY <5>2
      <4>2. id[n] \notin ids(n - 1)
        <5>1. \A i \in among : i <= n - 1 => i # n
          BY <1>1, <3>1
        <5> QED
          BY <3>3, <5>1
      <4>3. \A m \in ids(n - 1) : item[m] \in Z
        BY <1>1
      <4> HIDE DEF ids
      <4>4. \A m \in M \cup ids(n - 1) : item[m] \in Z
        BY <4>3
      <4>5. id[n] \notin M \cup ids(n - 1) /\ item[id[n]] = items[n] /\ item[id[n]] \in Z
        BY <1>1, <3>1, <3>3, <4>2
      <4>6. Keeps(Push(after[n - 1], k, item[id[n]]), k, item, (M \cup ids(n - 1)) \cup {id[n]})
        BY <3>2, <4>4, <4>5, PushKeeps
      <4>7. (M \cup ids(n - 1)) \cup {id[n]} = M \cup ids(n)
        BY <4>1
      <4>8. after[n] = Push(after[n - 1], k, item[id[n]])
        BY <1>3, <3>1, <3>3, <4>5
      <4> QED
        BY <4>6, <4>7, <4>8
    <3>4. CASE n \notin among
      <4>1. ids(n) = ids(n - 1)
        <5>1. \A i \in among : i <= n <=> i <= n - 1
          BY <1>1, <3>1, <3>4
        <5>2. {i \in among : i <= n} = {i \in among : i <= n - 1}
          BY <5>1
        <5> QED
          BY <5>2
      <4> HIDE DEF ids
      <4> QED
        BY <1>3, <3>1, <3>2, <3>4, <4>1
    <3> QED
      BY <3>3, <3>4
  <2> QED
    BY <2>1, <2>2
<1> HIDE DEF good
<1>5. good = Nat
  <2>1. good \in SUBSET Nat
    BY DEF good
  <2> QED
    BY <1>4, <2>1, StrongInduction
<1>6. ids(Len(items)) = {id[j] : j \in among}
  <2>1. \A i \in among : i <= Len(items)
    BY <1>1
  <2>2. {i \in among : i <= Len(items)} = among
    BY <2>1
  <2> QED
    BY <2>2
<1> HIDE DEF ids
<1>7. Len(items) \in 0 .. Len(items)
  BY <1>1
<1>8. Keeps(after[Len(items)], k, item, M \cup ids(Len(items)))
  BY <1>1, <1>5, <1>7 DEF good
<1>9. after[Len(items)] \in Heaps(Z)
  BY <1>3, <1>7
<1> QED
  BY <1>2, <1>6, <1>8, <1>9 DEF AllKept

-----------------------------------------------------------------------------
(* The items of a heap, best first *)

LEMMA WithoutRootReorders ==
  ASSUME NEW Z, Scored(Z), NEW h \in Seq(Z), h # <<>>
  PROVE  /\ WithoutRoot(h) \in Seq(Z) /\ Len(WithoutRoot(h)) = Len(h) - 1
         /\ Ordered(h) => Ordered(WithoutRoot(h))
         /\ \A item, S : Picks(h, item, S) =>
              \E m \in S : item[m] = h[1] /\ Picks(WithoutRoot(h), item, S \ {m})
<1> DEFINE L == Len(h)
           g == Front([h EXCEPT ![1] = Last(h)])
<1>1. L \in Nat /\ L # 0 /\ 1 \in 1 .. L /\ L \in 1 .. L
  OBVIOUS
<1>2. CASE L = 1
  <2>1. WithoutRoot(h) = <<>>
    BY <1>2 DEF WithoutRoot
  <2>2. Ordered(<<>>)
    BY DEF Ordered
  <2>3. ASSUME NEW item, NEW S, Picks(h, item, S)
        PROVE  \E m \in S : item[m] = h[1] /\ Picks(<<>>, item, S \ {m})
    <3>1. PICK from \in [1 .. L -> S] :
            /\ \A j \in 1 .. L : h[j] = item[from[j]]
            /\ \A m \in S : \E j \in 1 .. L : from[j] = m
      BY <2>3 DEF Picks
    <3>2. from[1] \in S /\ item[from[1]] = h[1] /\ S \ {from[1]} = {}
      <4>1. \A j \in 1 .. L : j = 1
        BY <1>2
      <4> QED
        BY <1>1, <3>1, <4>1
    <3>3. Picks(<<>>, item, {})
      <4>1. 1 .. Len(<<>>) = {}
        OBVIOUS
      <4>2. \E f : f \in [{} -> {}]
        <5>1. [j \in {} |-> j] \in [{} -> {}]
          OBVIOUS
        <5> QED
          BY <5>1
      <4> QED
        BY <4>1, <4>2 DEF Picks
    <3> QED
      BY <3>2, <3>3
  <2> QED
    BY <1>2, <2>1, <2>2, <2>3
<1>3. CASE L # 1
  <2>0. 1 \in 1 .. L - 1 /\ \A j \in 2 .. L - 1 : j \in 1 .. L - 1 /\ j \in 2 .. L
    <3>1. L \in Nat /\ L # 0
      BY <1>1
    <3> HIDE DEF L
    <3> QED
      BY <1>3, <3>1
  <2>1. /\ g \in Seq(Z) /\ Len(g) = L - 1 /\ g[1] = h[L]
        /\ \A j \in 2 .. L - 1 : g[j] = h[j]
    <3> DEFINE e == [h EXCEPT ![1] = Last(h)]
    <3>1. e \in Seq(Z) /\ Len(e) = L /\ e[1] = h[L] /\ \A j \in 2 .. L : e[j] = h[j]
      BY <1>1 DEF Last
    <3> HIDE DEF e
    <3>2. g = SubSeq(e, 1, L - 1)
      BY <3>1 DEF Front, e
    <3> HIDE DEF g
    <3>3. L - 1 \in 1 .. L /\ L - 1 <= Len(e)
      BY <1>1, <1>3, <3>1
    <3>4. g \in Seq(Z) /\ Len(g) = L - 1 /\ \A j \in 1 .. L - 1 : g[j] = e[j]
      BY <1>1, <3>1, <3>2, <3>3
    <3> QED
      BY <2>0, <3>1, <3>4
  <2>2. WithoutRoot(h) = HeapifyDown(g, 1)
    BY <1>3 DEF WithoutRoot
  <2> HIDE DEF g
  <2>3. /\ Reordered(HeapifyDown(g, 1), g, Z)
        /\ OrderedBelow(g, 1) => Ordered(HeapifyDown(g, 1))
    BY <2>1, HeapifyDownSettles
  <2>4. ASSUME Ordered(h) PROVE OrderedBelow(g, 1)
    <3> SUFFICES ASSUME NEW j \in 2 .. Len(g), j \div 2 # 1
                 PROVE  g[j \div 2].score <= g[j].score
      BY DEF OrderedBelow
    <3>1. j \div 2 \in 2 .. L - 1 /\ j \in 2 .. L - 1 /\ j \in 2 .. L
      BY <1>1, <2>1, Halves
    <3>2. h[j \div 2].score <= h[j].score
      BY <2>4, <3>1 DEF Ordered
    <3> QED
      BY <2>1, <3>1, <3>2
  <2>5. ASSUME NEW item, NEW S, Picks(h, item, S)
        PROVE  \E m \in S : item[m] = h[1] /\ Picks(HeapifyDown(g, 1), item, S \ {m})
    <3>1. PICK from \in [1 .. L -> S] :
            /\ \A j \in 1 .. L : h[j] = item[from[j]]
            /\ \A i, j \in 1 .. L : i # j => from[i] # from[j]
            /\ \A m \in S : \E j \in 1 .. L : from[j] = m
      BY <2>5 DEF Picks
    <3> DEFINE to == [j \in 1 .. L - 1 |-> IF j = 1 THEN from[L] ELSE from[j]]
               R == S \ {from[1]}
    <3>2. \A j \in 1 .. L - 1 : j \in 1 .. L /\ j # L /\ (j # 1 => j \in 2 .. L - 1)
      BY <1>1
    <3>3. \A j \in 1 .. L : j = 1 \/ j = L \/ (j \in 1 .. L - 1 /\ j # 1)
      BY <1>1
    <3>4. 1 \in 1 .. L - 1
      BY <2>0
    <3>5. to \in [1 .. Len(g) -> R]
      <4>1. L \in 1 .. L /\ 1 \in 1 .. L /\ L # 1
        BY <1>1, <1>3
      <4>2. \A j \in 1 .. L : j # 1 => from[j] \in R
        BY <3>1, <4>1
      <4>3. from[L] \in R /\ \A j \in 1 .. L - 1 : j # 1 => from[j] \in R
        BY <3>2, <4>1, <4>2
      <4> HIDE DEF R
      <4> QED
        BY <2>1, <4>3
    <3>6. to[1] = from[L] /\ \A j \in 1 .. L - 1 : j # 1 => to[j] = from[j]
      BY <3>4
    <3> HIDE DEF to
    <3>7. \A j \in 1 .. Len(g) : g[j] = item[to[j]]
      BY <1>1, <2>1, <3>1, <3>2, <3>6
    <3>8. \A i, j \in 1 .. Len(g) : i # j => to[i] # to[j]
      BY <1>1, <2>1, <3>1, <3>2, <3>6
    <3>9. \A m \in R : \E j \in 1 .. Len(g) : to[j] = m
      <4> TAKE m \in R
      <4>1. PICK j \in 1 .. L : from[j] = m
        BY <3>1
      <4>2. j # 1
        BY <4>1
      <4>3. CASE j = L
        BY <2>1, <3>4, <3>6, <4>1, <4>3
      <4>4. CASE j # L
        BY <2>1, <3>3, <3>6, <4>1, <4>2, <4>4
      <4> QED
        BY <4>3, <4>4
    <3>10. from[1] \in S /\ item[from[1]] = h[1]
      BY <1>1, <3>1
    <3> HIDE DEF R
    <3>11. Picks(g, item, R)
      BY <3>5, <3>7, <3>8, <3>9, Zenon DEF Picks
    <3>12. Picks(HeapifyDown(g, 1), item, R)
      BY <2>3, <3>11 DEF Reordered
    <3> QED
      BY <3>10, <3>12 DEF R
  <2>6. HeapifyDown(g, 1) \in Seq(Z) /\ Len(HeapifyDown(g, 1)) = L - 1
    BY <2>1, <2>3 DEF Reordered
  <2>7. Ordered(h) => Ordered(HeapifyDown(g, 1))
    BY <2>3, <2>4
  <2>9. \A item, S : Picks(h, item, S) =>
          \E m \in S : item[m] = h[1] /\ Picks(WithoutRoot(h), item, S \ {m})
    <3> SUFFICES ASSUME NEW item, NEW S, Picks(h, item, S)
                 PROVE  \E m \in S : item[m] = h[1] /\ Picks(WithoutRoot(h), item, S \ {m})
      OBVIOUS
    <3>1. PICK m \in S : item[m] = h[1] /\ Picks(HeapifyDown(g, 1), item, S \ {m})
      BY <2>5
    <3>2. Picks(WithoutRoot(h), item, S \ {m})
      BY <2>2, <3>1
    <3> QED
      BY <3>1, <3>2
  <2>10. /\ WithoutRoot(h) \in Seq(Z) /\ Len(WithoutRoot(h)) = Len(h) - 1
         /\ Ordered(h) => Ordered(WithoutRoot(h))
    BY <2>2, <2>6, <2>7
  <2> QED
    BY <2>9, <2>10, Zenon
<1> QED
  BY <1>2, <1>3

\* The recursive function of ExtractSorted.
SortLoop(Z) ==
  CHOOSE f : f = [h \in Seq(Z) |-> IF h = <<>> THEN <<>> ELSE Append(f[WithoutRoot(h)], h[1])]

LEMMA SortIsLoop == \A heap : ExtractSorted(heap) = SortLoop(ToSet(heap))[heap]
BY DEF ExtractSorted, SortLoop

LEMMA SortEquation ==
  ASSUME NEW Z, Scored(Z), NEW h \in Seq(Z)
  PROVE  SortLoop(Z)[h] = IF h = <<>> THEN <<>> ELSE Append(SortLoop(Z)[WithoutRoot(h)], h[1])
<1> DEFINE D == Seq(Z)
           size == [g \in D |-> Len(g)]
           body(g, f) == IF g = <<>> THEN <<>> ELSE Append(f[WithoutRoot(g)], g[1])
           step == [g \in D |-> [f \in [D -> D] |-> body(g, f)]]
<1>1. D # {} /\ size \in [D -> Nat]
  OBVIOUS
<1>2. ASSUME NEW g \in D, g # <<>>
      PROVE  WithoutRoot(g) \in D /\ size[WithoutRoot(g)] < size[g] /\ g[1] \in Z
  <2>1. WithoutRoot(g) \in Seq(Z) /\ Len(WithoutRoot(g)) = Len(g) - 1
    BY <1>2, WithoutRootReorders
  <2>2. Len(g) - 1 < Len(g) /\ g[1] \in Z
    BY <1>2
  <2> QED
    BY <2>1, <2>2
<1>3. \A g \in D : \A f \in [D -> D] : body(g, f) \in D
  <2> TAKE g \in D
  <2> TAKE f \in [D -> D]
  <2>1. CASE g = <<>>
    BY <2>1
  <2>2. CASE g # <<>>
    <3>1. f[WithoutRoot(g)] \in Seq(Z) /\ g[1] \in Z
      BY <1>2, <2>2
    <3> QED
      BY <2>2, <3>1
  <2> QED
    BY <2>1, <2>2
<1>4. \A g \in D : \A e, f \in [D -> D] :
        (\A y \in D : size[y] < size[g] => e[y] = f[y]) => body(g, e) = body(g, f)
  BY <1>2
<1> HIDE DEF body
<1>5. step \in [D -> [[D -> D] -> D]]
  BY <1>3
<1>6. \A g \in D : \A f \in [D -> D] : step[g][f] = body(g, f)
  OBVIOUS
<1> HIDE DEF step, size, D
<1>7. Recursive(D, D, size, step)
  <2>1. \A g \in D : \A e, f \in [D -> D] :
          (\A y \in D : size[y] < size[g] => e[y] = f[y]) => step[g][e] = step[g][f]
    <3> TAKE g \in D
    <3> TAKE e, f \in [D -> D]
    <3> HAVE \A y \in D : size[y] < size[g] => e[y] = f[y]
    <3>1. body(g, e) = body(g, f)
      BY <1>4
    <3>2. step[g][e] = body(g, e) /\ step[g][f] = body(g, f)
      BY <1>6
    <3> QED
      BY <3>1, <3>2
  <2> QED
    BY <1>1, <1>5, <2>1 DEF Recursive
<1>8. Solvable(D, D, step)
  BY <1>7, Recursion
<1>9. PICK f \in [D -> D] : \A g \in D : f[g] = body(g, f)
  BY <1>6, <1>8 DEF Solvable
<1> DEFINE rec(e) == [g \in D |-> body(g, e)]
<1>10. f = rec(f)
  BY <1>9
<1>11. SortLoop(Z) = CHOOSE e : e = rec(e)
  BY DEF SortLoop, D, body
<1>12. SortLoop(Z) = rec(SortLoop(Z))
  <2> HIDE DEF rec
  <2> QED
    BY <1>10, <1>11
<1>13. SortLoop(Z)[h] = body(h, SortLoop(Z))
  <2>1. rec(SortLoop(Z))[h] = body(h, SortLoop(Z))
    BY DEF D
  <2> QED
    BY <1>12, <2>1
<1> QED
  BY <1>13 DEF body

Falling(r) == \A i, j \in 1 .. Len(r) : i < j => r[i].score >= r[j].score

LEMMA SortLoopSorts ==
  ASSUME NEW Z, Scored(Z)
  PROVE  \A h \in Heaps(Z) : Reordered(SortLoop(Z)[h], h, Z) /\ Falling(SortLoop(Z)[h])
<1> DEFINE sorts(h) == Reordered(SortLoop(Z)[h], h, Z) /\ Falling(SortLoop(Z)[h])
           good == {n \in Nat : \A h \in Heaps(Z) : n = Len(h) => sorts(h)}
<1>1. ASSUME NEW n \in Nat, \A m \in Nat : m < n => m \in good
      PROVE  n \in good
  <2> SUFFICES ASSUME NEW h \in Heaps(Z), n = Len(h) PROVE sorts(h)
    OBVIOUS
  <2>1. h \in Seq(Z) /\ Ordered(h)
    BY DEF Heaps
  <2>2. CASE h = <<>>
    <3>1. SortLoop(Z)[h] = h
      BY <2>1, <2>2, SortEquation
    <3>2. Falling(h)
      BY <2>2 DEF Falling
    <3> QED
      BY <2>1, <3>1, <3>2 DEF Reordered
  <2>3. CASE h # <<>>
    <3> DEFINE g == WithoutRoot(h)
               r == SortLoop(Z)[g]
               t == Append(r, h[1])
    <3>1. /\ g \in Seq(Z) /\ Len(g) = n - 1 /\ Ordered(g)
          /\ \A item, S : Picks(h, item, S) => \E m \in S : item[m] = h[1] /\ Picks(g, item, S \ {m})
      BY <2>1, <2>3, WithoutRootReorders
    <3>2. n - 1 \in Nat /\ n - 1 < n /\ h[1] \in Z /\ n # 0
      BY <2>1, <2>3
    <3>3. SortLoop(Z)[h] = t
      BY <2>1, <2>3, SortEquation
    <3> HIDE DEF g
    <3>4. n - 1 \in good /\ g \in Heaps(Z)
      BY <1>1, <3>1, <3>2 DEF Heaps
    <3>5. Reordered(r, g, Z) /\ Falling(r)
      BY <3>1, <3>4
    <3> HIDE DEF r
    <3>6. r \in Seq(Z) /\ Len(r) = n - 1 /\ \A item, S : Picks(g, item, S) => Picks(r, item, S)
      BY <3>1, <3>5 DEF Reordered
    <3>7. t \in Seq(Z) /\ Len(t) = n /\ t[n] = h[1] /\ \A j \in 1 .. n - 1 : t[j] = r[j]
      BY <3>2, <3>6
    <3> HIDE DEF t
    <3>8. ASSUME NEW item, NEW S, Picks(h, item, S)
          PROVE  Picks(t, item, S)
      <4>1. PICK m \in S : item[m] = h[1] /\ Picks(r, item, S \ {m})
        BY <3>1, <3>6, <3>8
      <4>2. PICK from \in [1 .. n - 1 -> S \ {m}] :
              /\ \A j \in 1 .. n - 1 : r[j] = item[from[j]]
              /\ \A i, j \in 1 .. n - 1 : i # j => from[i] # from[j]
              /\ \A q \in S \ {m} : \E j \in 1 .. n - 1 : from[j] = q
        <5>1. Len(r) = n - 1
          BY <3>6
        <5>2. Picks(r, item, S \ {m})
          BY <4>1
        <5> QED
          BY <5>1, <5>2 DEF Picks
      <4> DEFINE to == [j \in 1 .. n |-> IF j = n THEN m ELSE from[j]]
      <4>3. \A j \in 1 .. n : j = n \/ (j \in 1 .. n - 1 /\ j # n)
        OBVIOUS
      <4>4. n \in 1 .. n /\ \A j \in 1 .. n - 1 : j \in 1 .. n /\ j # n
        BY <3>2
      <4>5. to \in [1 .. Len(t) -> S]
        BY <3>7, <4>2, <4>3
      <4>6. to[n] = m /\ \A j \in 1 .. n - 1 : to[j] = from[j]
        BY <4>4
      <4> HIDE DEF to
      <4>7. \A j \in 1 .. Len(t) : t[j] = item[to[j]]
        BY <3>7, <4>1, <4>2, <4>3, <4>6
      <4>8. \A i, j \in 1 .. Len(t) : i # j => to[i] # to[j]
        <5>1. \A j \in 1 .. n - 1 : from[j] # m
          BY <4>2
        <5> QED
          BY <3>7, <4>2, <4>3, <4>6, <5>1
      <4>9. \A q \in S : \E j \in 1 .. Len(t) : to[j] = q
        BY <3>7, <4>2, <4>4, <4>6
      <4> QED
        BY <4>5, <4>7, <4>8, <4>9, Zenon DEF Picks
    <3>9. \A j \in 1 .. n - 1 : h[1].score <= r[j].score
      <4> DEFINE S == 1 .. Len(h)
      <4>1. Picks(h, h, S)
        <5>1. [j \in S |-> j] \in [S -> S]
          OBVIOUS
        <5> QED
          BY <5>1 DEF Picks
      <4>2. PICK m \in S : Picks(r, h, S \ {m})
        BY <3>1, <3>6, <4>1
      <4>3. PICK from \in [1 .. n - 1 -> S \ {m}] : \A j \in 1 .. n - 1 : r[j] = h[from[j]]
        <5>1. Len(r) = n - 1
          BY <3>6
        <5> HIDE DEF S, r
        <5>2. PICK f \in [1 .. Len(r) -> S \ {m}] : \A j \in 1 .. Len(r) : r[j] = h[f[j]]
          BY <4>2, Zenon DEF Picks
        <5> QED
          BY <5>1, <5>2
      <4>4. \A s \in S : h[1].score <= h[s].score
        BY <2>1, RootIsLeast
      <4> HIDE DEF S
      <4> QED
        BY <4>3, <4>4
    <3>10. Falling(t)
      <4> SUFFICES ASSUME NEW i \in 1 .. n, NEW j \in 1 .. n, i < j
                   PROVE  t[i].score >= t[j].score
        BY <3>7 DEF Falling
      <4>1. i \in 1 .. n - 1
        OBVIOUS
      <4>2. r[i].score \in Int /\ h[1].score \in Int
        BY <3>2, <3>6, <4>1 DEF Scored
      <4>3. CASE j = n
        <5>1. h[1].score <= r[i].score
          BY <3>9, <4>1
        <5>2. r[i].score >= h[1].score
          BY <4>2, <5>1
        <5> QED
          BY <3>7, <4>1, <4>3, <5>2
      <4>4. CASE j # n
        <5>1. j \in 1 .. n - 1
          BY <4>4
        <5>2. r[i].score >= r[j].score
          BY <3>5, <3>6, <4>1, <5>1 DEF Falling
        <5> QED
          BY <3>7, <4>1, <5>1, <5>2
      <4> QED
        BY <4>3, <4>4
    <3>11. Reordered(t, h, Z)
      BY <3>7, <3>8 DEF Reordered
    <3> QED
      BY <3>3, <3>10, <3>11
  <2> QED
    BY <2>2, <2>3
<1> HIDE DEF good
<1>2. good = Nat
  <2>1. good \in SUBSET Nat
    BY DEF good
  <2> QED
    BY <1>1, <2>1, StrongInduction
<1>3. SUFFICES ASSUME NEW h \in Heaps(Z) PROVE sorts(h)
  OBVIOUS
<1>4. PICK n \in Nat : n = Len(h)
  BY DEF Heaps
<1>5. n \in good
  BY <1>2
<1> HIDE DEF sorts
<1> QED
  BY <1>4, <1>5 DEF good

\* extractSorted gives the items of a heap, best first.
LEMMA ExtractSortedSorts ==
  ASSUME NEW Z, Scored(Z), NEW h \in Heaps(Z)
  PROVE  Reordered(ExtractSorted(h), h, Z) /\ Falling(ExtractSorted(h))
<1>1. h \in Seq(Z) /\ Ordered(h)
  BY DEF Heaps
<1>2. h \in Seq(ToSet(h)) /\ Scored(ToSet(h))
  BY <1>1, OwnItems
<1>3. h \in Heaps(ToSet(h))
  BY <1>1, <1>2 DEF Heaps
<1>4. Reordered(SortLoop(ToSet(h))[h], h, ToSet(h)) /\ Falling(SortLoop(ToSet(h))[h])
  BY <1>2, <1>3, SortLoopSorts
<1>5. Reordered(ExtractSorted(h), h, ToSet(h)) /\ Falling(ExtractSorted(h))
  BY <1>4, SortIsLoop
<1>6. \A g \in Seq(ToSet(h)) : g \in Seq(Z)
  BY <1>1, OwnItems
<1> QED
  BY <1>5, <1>6 DEF Reordered

-----------------------------------------------------------------------------
(* A cut of a list, and of many *)

LEMMA SortedIsBest ==
  ASSUME NEW Z, Scored(Z), NEW h \in Heaps(Z), NEW k \in Nat \ {0},
         NEW item, NEW M, \A m \in M : item[m] \in Z, Keeps(h, k, item, M)
  PROVE  ExtractSorted(h) \in Seq(Z) /\ IsBest(ExtractSorted(h), k, item, M, M)
<1> DEFINE r == ExtractSorted(h)
<1>1. Reordered(r, h, Z) /\ Falling(r)
  BY ExtractSortedSorts
<1>2. PICK S \in SUBSET M :
        /\ Picks(h, item, S) /\ Len(h) <= k
        /\ \A m \in M \ S : Len(h) = k /\ \A s \in S : item[m].score <= item[s].score
  BY DEF Keeps
<1> HIDE DEF r
<1>3. r \in Seq(Z) /\ Len(r) = Len(h) /\ Picks(r, item, S)
  BY <1>1, <1>2 DEF Reordered
<1>4. PICK from \in [1 .. Len(r) -> S] :
        /\ \A j \in 1 .. Len(r) : r[j] = item[from[j]]
        /\ \A i, j \in 1 .. Len(r) : i # j => from[i] # from[j]
        /\ \A m \in S : \E j \in 1 .. Len(r) : from[j] = m
  BY <1>3 DEF Picks
<1>5. DOMAIN r = 1 .. Len(r) /\ Len(r) \in Nat
  BY <1>3
<1>6. from \in [DOMAIN r -> M]
  BY <1>2, <1>4, <1>5
<1>7. \A i, j \in DOMAIN r : i < j => from[i] # from[j] /\ r[i].score >= r[j].score
  <2>1. \A i, j \in 1 .. Len(r) : i < j => i # j
    BY <1>5
  <2>2. \A i, j \in 1 .. Len(r) : i < j => r[i].score >= r[j].score
    BY <1>1 DEF Falling
  <2> QED
    BY <1>4, <1>5, <2>1, <2>2
<1>8. ASSUME NEW m \in M, ~ \E i \in DOMAIN r : from[i] = m
      PROVE  Len(r) = k /\ \A i \in DOMAIN r : r[i].score >= item[m].score
  <2>1. m \in M \ S
    BY <1>4, <1>5, <1>8
  <2>2. Len(r) = k /\ \A s \in S : item[m].score <= item[s].score
    BY <1>2, <1>3, <2>1
  <2>3. ASSUME NEW i \in DOMAIN r PROVE r[i].score >= item[m].score
    <3>1. from[i] \in S /\ r[i] = item[from[i]]
      BY <1>4, <1>5
    <3>2. item[m].score <= r[i].score
      BY <2>2, <3>1
    <3>3. r[i].score \in Int /\ item[m].score \in Int
      BY <1>2, <3>1 DEF Scored
    <3> QED
      BY <3>2, <3>3
  <2> QED
    BY <2>2, <2>3
<1>9. \A i \in DOMAIN r : r[i] = item[from[i]]
  BY <1>4, <1>5
<1>10. Len(r) <= k
  BY <1>2, <1>3
<1>11. IsBest(r, k, item, M, M)
  BY <1>6, <1>7, <1>8, <1>9, <1>10 DEF IsBest
<1> QED
  BY <1>3, <1>11 DEF r

\* An empty heap keeps nothing of nothing.
LEMMA NothingKept ==
  ASSUME NEW Z, NEW k \in Nat \ {0}, NEW item
  PROVE  <<>> \in Heaps(Z) /\ Keeps(<<>>, k, item, {})
<1>1. <<>> \in Heaps(Z)
  BY DEF Heaps, Ordered
<1>2. Picks(<<>>, item, {})
  <2>1. 1 .. Len(<<>>) = {}
    OBVIOUS
  <2>2. [j \in {} |-> j] \in [{} -> {}]
    OBVIOUS
  <2> QED
    BY <2>1, <2>2 DEF Picks
<1> QED
  BY <1>1, <1>2 DEF Keeps

\* A heap that the chosen items of a list went through has their k best, best first:
\* what the query engine and the worker rely on when they search a chunk
\* (GlobalTopKHeap and its copies).
THEOREM BestIsBest ==
  ASSUME NEW Z, Scored(Z), NEW items \in Seq(Z), NEW among \in SUBSET (1 .. Len(items)),
         NEW k \in Nat \ {0}
  PROVE  Best(k, items, among) \in Seq(Z) /\ IsBest(Best(k, items, among), k, items, among, among)
<1> DEFINE h == PushAll(<<>>, k, items, among)
           id == [j \in among |-> j]
<1>1. \A j \in among : items[j] \in Z
  OBVIOUS
<1>2. /\ \A j \in among : id[j] \notin {} /\ items[id[j]] = items[j]
      /\ \A i, j \in among : i # j => id[i] # id[j]
      /\ {id[j] : j \in among} = among
  OBVIOUS
<1> HIDE DEF id
<1>3. h \in Heaps(Z) /\ Keeps(h, k, items, {} \cup {id[j] : j \in among})
  <2>1. PICK e, M : e = <<>> /\ M = {}
    OBVIOUS
  <2>2. e \in Heaps(Z) /\ Keeps(e, k, items, M)
    BY <2>1, NothingKept
  <2>3. /\ \A m \in M : items[m] \in Z
        /\ \A j \in among : id[j] \notin M /\ items[id[j]] = items[j]
        /\ \A i, j \in among : i # j => id[i] # id[j]
    BY <1>2, <2>1
  <2>4. /\ PushAll(e, k, items, among) \in Heaps(Z)
        /\ AllKept(PushAll(e, k, items, among), k, items, M, id, among)
    BY <2>2, <2>3, PushAllKeeps
  <2> QED
    BY <2>1, <2>4 DEF AllKept
<1>4. Keeps(h, k, items, among)
  BY <1>2, <1>3
<1>5. Best(k, items, among) = ExtractSorted(h)
  BY DEF Best
<1> HIDE DEF h
<1> QED
  BY <1>1, <1>3, <1>4, <1>5, SortedIsBest

\* The places of all items in a sequence of lists.
PlacesIn(lists, n) == {p \in (1 .. n) \X Nat : p[2] \in 1 .. Len(lists[p[1]])}
ItemAt(lists) == [p \in PlacesIn(lists, Len(lists)) |-> lists[p[1]][p[2]]]

\* The heaps between the lists.
ListsPushed(after, k, lists, Z) ==
  /\ after \in [0 .. Len(lists) -> Heaps(Z)] /\ after[0] = <<>>
  /\ \A n \in 1 .. Len(lists) : after[n] = PushAll(after[n - 1], k, lists[n], DOMAIN lists[n])

LEMMA BestOfAllSteps ==
  ASSUME NEW Z, Scored(Z), NEW k \in Nat \ {0}, NEW lists \in Seq(Seq(Z))
  PROVE  \E after : ListsPushed(after, k, lists, Z) /\ BestOfAll(k, lists) = ExtractSorted(after[Len(lists)])
<1> DEFINE N == Len(lists)
           T == Heaps(Z)
           one(n, h) == PushAll(h, k, lists[n], DOMAIN lists[n])
           step == [n \in 1 .. N |-> [h \in T |-> one(n, h)]]
           rec(f) == [n \in 0 .. N |-> IF n = 0 THEN <<>> ELSE one(n, f[n - 1])]
           F == CHOOSE f : f = rec(f)
<1>1. N \in Nat /\ \A n \in 1 .. N : lists[n] \in Seq(Z)
  OBVIOUS
<1>2. \A n \in 1 .. N : \A h \in T : one(n, h) \in T
  <2> TAKE n \in 1 .. N
  <2> TAKE h \in T
  <2>1. lists[n] \in Seq(Z) /\ Len(lists[n]) \in 0 .. Len(lists[n])
    BY <1>1
  <2>2. PICK after : /\ Pushed(after, h, k, lists[n], DOMAIN lists[n], Z)
                     /\ one(n, h) = after[Len(lists[n])]
    <3> DEFINE items == lists[n]
    <3>1. items \in Seq(Z)
      BY <2>1
    <3> HIDE DEF items
    <3>2. PushedInSteps(h, k, items, DOMAIN items, Z)
      BY <3>1, PushAllSteps
    <3> QED
      BY <3>2 DEF items, PushedInSteps
  <2> QED
    BY <2>1, <2>2 DEF Pushed
<1>3. BestOfAll(k, lists) = ExtractSorted(F[N])
  BY DEF BestOfAll
<1> HIDE DEF N, T, one
<1>4. step \in [1 .. N -> [T -> T]] /\ \A n \in 1 .. N : \A h \in T : step[n][h] = one(n, h)
  BY <1>2
<1>5. Steps(N, T, <<>>, step)
  BY <1>1, <1>4, NothingKept DEF Steps, T
<1> HIDE DEF step
<1>6. PICK f : Chain(f, N, T, <<>>, step)
  BY <1>5, Chains
<1>7. \A n \in 1 .. N : n - 1 \in 0 .. N /\ n \in 0 .. N
  BY <1>1
<1>8. f \in [0 .. N -> T] /\ f[0] = <<>> /\ \A n \in 1 .. N : f[n] = one(n, f[n - 1])
  BY <1>4, <1>6, <1>7 DEF Chain
<1>9. f = rec(f)
  <2>1. \A n \in 0 .. N : f[n] = IF n = 0 THEN <<>> ELSE one(n, f[n - 1])
    <3> TAKE n \in 0 .. N
    <3>1. n # 0 => n \in 1 .. N
      BY <1>1
    <3> QED
      BY <1>8, <3>1
  <2> QED
    BY <1>8, <2>1
<1>10. F = rec(F)
  <2> HIDE DEF rec
  <2> QED
    BY <1>9
<1> HIDE DEF F
<1>11. F[0] = <<>> /\ \A n \in 1 .. N : F[n] = one(n, F[n - 1])
  <2> DEFINE R == rec(F)
  <2>1. R[0] = <<>> /\ \A n \in 1 .. N : R[n] = one(n, F[n - 1])
    BY <1>1
  <2> HIDE DEF R
  <2>2. F = R
    BY <1>10 DEF R
  <2> QED
    BY <2>1, <2>2
<1> DEFINE good == {n \in Nat : n \in 0 .. N => F[n] = f[n]}
<1>12. ASSUME NEW n \in Nat, \A m \in Nat : m < n => m \in good
       PROVE  n \in good
  <2> SUFFICES ASSUME n \in 0 .. N PROVE F[n] = f[n]
    OBVIOUS
  <2>1. CASE n = 0
    BY <1>8, <1>11, <2>1
  <2>2. CASE n # 0
    <3>1. n \in 1 .. N /\ n - 1 \in Nat /\ n - 1 < n /\ n - 1 \in 0 .. N
      BY <1>1, <2>2
    <3>2. F[n - 1] = f[n - 1]
      BY <1>12, <3>1
    <3> QED
      BY <1>8, <1>11, <3>1, <3>2
  <2> QED
    BY <2>1, <2>2
<1> HIDE DEF good
<1>13. good = Nat
  <2>1. good \in SUBSET Nat
    BY DEF good
  <2> QED
    BY <1>12, <2>1, StrongInduction
<1>14. N \in 0 .. N
  BY <1>1
<1>15. F[N] = f[N]
  BY <1>1, <1>13, <1>14 DEF good
<1>16. ListsPushed(f, k, lists, Z)
  BY <1>8 DEF ListsPushed, N, T, one
<1> QED
  BY <1>3, <1>15, <1>16 DEF N

\* All items of all lists through one heap: the k best of them, as the merges of a
\* worker and of the broker rely on (handle_master_connection, handle_frontend).
THEOREM BestOfAllIsBest ==
  ASSUME NEW Z, Scored(Z), NEW k \in Nat \ {0}, NEW lists \in Seq(Seq(Z))
  PROVE  LET all == PlacesIn(lists, Len(lists))
         IN BestOfAll(k, lists) \in Seq(Z) /\ IsBest(BestOfAll(k, lists), k, ItemAt(lists), all, all)
<1> DEFINE N == Len(lists)
           item == ItemAt(lists)
           M(n) == PlacesIn(lists, n)
<1>1. N \in Nat /\ \A n \in 1 .. N : lists[n] \in Seq(Z) /\ Len(lists[n]) \in Nat
                                    /\ DOMAIN lists[n] = 1 .. Len(lists[n])
  OBVIOUS
<1>2. PICK after : /\ ListsPushed(after, k, lists, Z)
                   /\ BestOfAll(k, lists) = ExtractSorted(after[N])
  BY BestOfAllSteps
<1>3. /\ after \in [0 .. N -> Heaps(Z)] /\ after[0] = <<>>
      /\ \A n \in 1 .. N : after[n] = PushAll(after[n - 1], k, lists[n], DOMAIN lists[n])
  BY <1>2 DEF ListsPushed
<1> HIDE DEF N
<1>4. ASSUME NEW n \in 0 .. N, NEW p \in M(n)
      PROVE  p[1] \in 1 .. n /\ p[2] \in 1 .. Len(lists[p[1]]) /\ item[p] = lists[p[1]][p[2]] /\ item[p] \in Z
  <2>1. p \in (1 .. n) \X Nat /\ p[2] \in 1 .. Len(lists[p[1]])
    BY DEF PlacesIn
  <2>2. p[1] \in 1 .. N
    BY <1>1, <2>1
  <2>3. p \in PlacesIn(lists, N)
    BY <2>1, <2>2 DEF PlacesIn
  <2>4. item[p] = lists[p[1]][p[2]]
    BY <2>3 DEF ItemAt, N
  <2>5. lists[p[1]] \in Seq(Z)
    BY <1>1, <2>2
  <2> QED
    BY <2>1, <2>4, <2>5
<1> HIDE DEF item
<1> DEFINE good == {n \in Nat : n \in 0 .. N => Keeps(after[n], k, item, M(n))}
<1>5. ASSUME NEW n \in Nat, \A m \in Nat : m < n => m \in good
      PROVE  n \in good
  <2> SUFFICES ASSUME n \in 0 .. N PROVE Keeps(after[n], k, item, M(n))
    OBVIOUS
  <2>1. CASE n = 0
    <3>1. M(0) = {}
      BY DEF PlacesIn
    <3> QED
      BY <1>3, <2>1, <3>1, NothingKept
  <2>2. CASE n # 0
    <3>1. n \in 1 .. N /\ n - 1 \in Nat /\ n - 1 < n /\ n - 1 \in 0 .. N
      BY <1>1, <2>2
    <3>2. after[n - 1] \in Heaps(Z) /\ Keeps(after[n - 1], k, item, M(n - 1))
      BY <1>3, <1>5, <3>1
    <3> DEFINE own == 1 .. Len(lists[n])
               id == [j \in own |-> <<n, j>>]
    <3>3. lists[n] \in Seq(Z) /\ own \in SUBSET (1 .. Len(lists[n])) /\ DOMAIN lists[n] = own
      BY <1>1, <3>1
    <3>4. \A m \in M(n - 1) : item[m] \in Z
      BY <1>4, <3>1
    <3>5. \A j \in own : id[j] = <<n, j>> /\ j \in Nat
      BY <1>1, <3>1
    <3> HIDE DEF id
    <3>6. \A j \in own : id[j] \in M(n)
      <4>1. n \in 1 .. n
        BY <3>1
      <4> TAKE j \in own
      <4>2. <<n, j>> \in (1 .. n) \X Nat
        BY <3>5, <4>1
      <4>3. <<n, j>>[1] = n /\ <<n, j>>[2] = j
        OBVIOUS
      <4>4. <<n, j>> \in M(n)
        BY <4>2, <4>3 DEF PlacesIn
      <4> QED
        BY <3>5, <4>4
    <3>7. \A j \in own : id[j] \notin M(n - 1) /\ item[id[j]] = lists[n][j]
      <4> TAKE j \in own
      <4>1. item[id[j]] = lists[n][j]
        <5>1. item[id[j]] = lists[id[j][1]][id[j][2]]
          BY <1>4, <3>6
        <5> QED
          BY <3>5, <5>1
      <4>2. n \notin 1 .. n - 1
        BY <3>1
      <4>3. id[j][1] = n
        BY <3>5
      <4>4. id[j] \notin M(n - 1)
        BY <1>4, <3>1, <4>2, <4>3
      <4> QED
        BY <4>1, <4>4
    <3>8. \A i, j \in own : i # j => id[i] # id[j]
      BY <3>5
    <3>9. M(n) = M(n - 1) \cup {id[j] : j \in own}
      <4>1. ASSUME NEW p \in M(n) PROVE p \in M(n - 1) \/ \E j \in own : id[j] = p
        <5>1. p \in (1 .. n) \X Nat /\ p[2] \in 1 .. Len(lists[p[1]])
          BY <4>1 DEF PlacesIn
        <5>2. CASE p[1] = n
          <6>1. p[2] \in own /\ p = <<n, p[2]>>
            BY <5>1, <5>2
          <6> QED
            BY <3>5, <6>1
        <5>3. CASE p[1] # n
          <6>1. p[1] \in 1 .. n - 1
            BY <5>1, <5>3
          <6> QED
            BY <5>1, <6>1 DEF PlacesIn
        <5> QED
          BY <5>2, <5>3
      <4>2. ASSUME NEW p \in M(n - 1) PROVE p \in M(n)
        <5>1. p \in (1 .. n - 1) \X Nat /\ p[2] \in 1 .. Len(lists[p[1]])
          BY <4>2 DEF PlacesIn
        <5>2. p[1] \in 1 .. n
          BY <3>1, <5>1
        <5> QED
          BY <5>1, <5>2 DEF PlacesIn
      <4> HIDE DEF M, own
      <4> QED
        BY <3>6, <4>1, <4>2
    <3> HIDE DEF M, own
    <3>10. Keeps(PushAll(after[n - 1], k, lists[n], own), k, item, M(n - 1) \cup {id[j] : j \in own})
      <4>1. PICK h, B, items : h = after[n - 1] /\ B = M(n - 1) /\ items = lists[n]
        OBVIOUS
      <4>2. /\ h \in Heaps(Z) /\ items \in Seq(Z) /\ own \in SUBSET (1 .. Len(items))
            /\ \A m \in B : item[m] \in Z
            /\ Keeps(h, k, item, B)
            /\ \A j \in own : id[j] \notin B /\ item[id[j]] = items[j]
        BY <3>2, <3>3, <3>4, <3>7, <4>1
      <4>3. AllKept(PushAll(h, k, items, own), k, item, B, id, own)
        BY <3>8, <4>2, PushAllKeeps
      <4> QED
        BY <4>1, <4>3 DEF AllKept
    <3>11. after[n] = PushAll(after[n - 1], k, lists[n], own)
      BY <1>3, <3>1, <3>3
    <3> QED
      BY <3>9, <3>10, <3>11
  <2> QED
    BY <2>1, <2>2
<1> HIDE DEF good
<1>6. good = Nat
  <2>1. good \in SUBSET Nat
    BY DEF good
  <2> QED
    BY <1>5, <2>1, StrongInduction
<1>7. N \in 0 .. N
  BY <1>1
<1>8. Keeps(after[N], k, item, M(N)) /\ after[N] \in Heaps(Z)
  BY <1>1, <1>3, <1>6, <1>7 DEF good
<1>9. \A m \in M(N) : item[m] \in Z
  BY <1>4, <1>7
<1> HIDE DEF M
<1>10. /\ ExtractSorted(after[N]) \in Seq(Z)
       /\ IsBest(ExtractSorted(after[N]), k, item, M(N), M(N))
  BY <1>8, <1>9, SortedIsBest
<1> QED
  BY <1>2, <1>10 DEF item, M, N

\* At most k places that have all of k things have nothing else.
OnlyThose(g, L, u, k) == L = k /\ \A i \in 1 .. L : \E j \in 1 .. k : g[i] = u[j]
HasAll(g, L, u, k) ==
  /\ L \in Nat /\ k \in Nat /\ L <= k
  /\ \A i, j \in 1 .. k : i # j => u[i] # u[j]
  /\ \A j \in 1 .. k : \E i \in 1 .. L : g[i] = u[j]

LEMMA NothingElse ==
  \A g, L, u, k : HasAll(g, L, u, k) => OnlyThose(g, L, u, k)
<1> SUFFICES ASSUME NEW g, NEW L, NEW u, NEW k, HasAll(g, L, u, k)
             PROVE  L = k /\ \A i \in 1 .. L : \E j \in 1 .. k : g[i] = u[j]
  BY DEF OnlyThose
<1>0. /\ L \in Nat /\ k \in Nat /\ L <= k
      /\ \A i, j \in 1 .. k : i # j => u[i] # u[j]
      /\ \A j \in 1 .. k : \E i \in 1 .. L : g[i] = u[j]
  BY DEF HasAll
<1> USE <1>0
<1> DEFINE A == {u[j] : j \in 1 .. k}
           B == {g[i] : i \in 1 .. L}
<1>1. A \subseteq B
  OBVIOUS
<1>2. IsFiniteSet(B) /\ Cardinality(B) <= L
  <2>1. [i \in 1 .. L |-> g[i]] \in Surjection(1 .. L, B)
    BY DEF Surjection
  <2>2. ExistsSurjection(1 .. L, B)
    BY <2>1 DEF ExistsSurjection
  <2> HIDE DEF B
  <2>3. IsFiniteSet(B)
    BY <2>2, FS_NatSurjection
  <2> QED
    BY <2>2, <2>3, FS_SurjCardinalityBound
<1>3. IsFiniteSet(A) /\ Cardinality(A) = k
  <2>1. [j \in 1 .. k |-> u[j]] \in Bijection(1 .. k, A)
    BY DEF Bijection, Injection, Surjection, IsInjective
  <2>2. ExistsBijection(1 .. k, A)
    BY <2>1 DEF ExistsBijection
  <2> HIDE DEF A
  <2>3. IsFiniteSet(A)
    BY <2>2, FS_NatBijection
  <2> QED
    BY <2>2, FS_CountingElements, <2>3
<1> HIDE DEF A, B
<1>4. Cardinality(A) <= Cardinality(B) /\ (Cardinality(B) = Cardinality(A) => B = A)
  <2>1. A \in SUBSET B
    BY <1>1
  <2> QED
    BY <1>2, <2>1, FS_Subset
<1>5. Cardinality(B) \in Nat
  BY <1>2, FS_CardinalityType
<1>6. L = k /\ Cardinality(B) = k
  BY <1>2, <1>3, <1>4, <1>5
<1>7. B = A
  BY <1>3, <1>4, <1>6
<1>8. \A i \in 1 .. L : g[i] \in B
  BY DEF B
<1>9. \A i \in 1 .. L : \E j \in 1 .. k : g[i] = u[j]
  BY <1>7, <1>8 DEF A
<1> QED
  BY <1>6, <1>9

\* Each list is a cut of k of items of its own.
MergesCuts(Z, k, lists, item, M, H, all, sure) ==
  /\ Scored(Z) /\ k \in Nat \ {0} /\ lists \in Seq(Seq(Z))
  /\ \A n \in 1 .. Len(lists) : IsBest(lists[n], k, item, M[n], H[n]) /\ M[n] \subseteq all
  /\ \A a, b \in 1 .. Len(lists) : a # b => M[a] \cap M[b] = {}
  /\ \A m \in sure : item[m].score \in Int /\ \E n \in 1 .. Len(lists) : m \in H[n]

\* A cut of merged cuts is a cut of everything: the k best of all lists are the k
\* best of all items.  So it does not matter that chunks and workers cut before the
\* broker does.
THEOREM CutOfCuts ==
  \A Z, k, lists, item, M, H, all, sure :
    MergesCuts(Z, k, lists, item, M, H, all, sure)
      => BestOfAll(k, lists) \in Seq(Z) /\ IsBest(BestOfAll(k, lists), k, item, all, sure)
<1> SUFFICES ASSUME NEW Z, NEW k, NEW lists, NEW item, NEW M, NEW H, NEW all, NEW sure,
                    MergesCuts(Z, k, lists, item, M, H, all, sure)
             PROVE  BestOfAll(k, lists) \in Seq(Z) /\ IsBest(BestOfAll(k, lists), k, item, all, sure)
  OBVIOUS
<1>0. /\ Scored(Z) /\ k \in Nat \ {0} /\ lists \in Seq(Seq(Z))
      /\ \A n \in 1 .. Len(lists) : IsBest(lists[n], k, item, M[n], H[n]) /\ M[n] \subseteq all
      /\ \A a, b \in 1 .. Len(lists) : a # b => M[a] \cap M[b] = {}
      /\ \A m \in sure : item[m].score \in Int /\ \E n \in 1 .. Len(lists) : m \in H[n]
  BY DEF MergesCuts
<1> USE <1>0
<1> DEFINE N == Len(lists)
           P == PlacesIn(lists, N)
           r == BestOfAll(k, lists)
           Cut(f, n) == /\ f \in [1 .. Len(lists[n]) -> M[n]]
                        /\ \A j \in 1 .. Len(lists[n]) : lists[n][j] = item[f[j]]
                        /\ \A i, j \in 1 .. Len(lists[n]) : i # j => f[i] # f[j]
                        /\ \A m \in H[n] :
                             \/ \E j \in 1 .. Len(lists[n]) : f[j] = m
                             \/ /\ Len(lists[n]) = k
                                /\ \A j \in 1 .. Len(lists[n]) : lists[n][j].score >= item[m].score
           from == [n \in 1 .. N |-> CHOOSE f : Cut(f, n)]
<1>1. N \in Nat /\ \A n \in 1 .. N : lists[n] \in Seq(Z) /\ Len(lists[n]) \in Nat
                                    /\ DOMAIN lists[n] = 1 .. Len(lists[n])
  OBVIOUS
<1>2. \A n \in 1 .. N : Cut(from[n], n)
  <2> TAKE n \in 1 .. N
  <2>1. \E f : Cut(f, n)
    <3>1. PICK f \in [DOMAIN lists[n] -> M[n]] :
            /\ \A i \in DOMAIN lists[n] : lists[n][i] = item[f[i]]
            /\ \A i, j \in DOMAIN lists[n] : i < j => f[i] # f[j] /\ lists[n][i].score >= lists[n][j].score
            /\ \A m \in H[n] :
                 \/ \E i \in DOMAIN lists[n] : f[i] = m
                 \/ Len(lists[n]) = k /\ \A i \in DOMAIN lists[n] : lists[n][i].score >= item[m].score
      <4>1. IsBest(lists[n], k, item, M[n], H[n])
        OBVIOUS
      <4> HIDE <1>0
      <4> QED
        BY <4>1, Zenon DEF IsBest
    <3>2. DOMAIN lists[n] = 1 .. Len(lists[n]) /\ Len(lists[n]) \in Nat
      BY <1>1
    <3>3. \A i, j \in 1 .. Len(lists[n]) : i # j => f[i] # f[j]
      <4>1. \A i, j \in 1 .. Len(lists[n]) : i < j => f[i] # f[j]
        BY <3>1, <3>2
      <4>2. \A i, j \in 1 .. Len(lists[n]) : i # j => i < j \/ j < i
        BY <3>2
      <4> QED
        BY <4>1, <4>2
    <3>4. /\ f \in [1 .. Len(lists[n]) -> M[n]]
          /\ \A j \in 1 .. Len(lists[n]) : lists[n][j] = item[f[j]]
      BY <3>1, <3>2
    <3>5. \A m \in H[n] :
            \/ \E j \in 1 .. Len(lists[n]) : f[j] = m
            \/ Len(lists[n]) = k /\ \A j \in 1 .. Len(lists[n]) : lists[n][j].score >= item[m].score
      BY <3>1, <3>2
    <3>6. Cut(f, n)
      BY <3>3, <3>4, <3>5
    <3> HIDE DEF Cut
    <3> QED
      BY <3>6
  <2> HIDE DEF Cut
  <2>2. Cut(CHOOSE f : Cut(f, n), n)
    BY <2>1
  <2> QED
    BY <2>2
<1>3. r \in Seq(Z) /\ IsBest(r, k, ItemAt(lists), P, P)
  BY BestOfAllIsBest
<1> HIDE DEF from, r
<1>4. PICK g \in [DOMAIN r -> P] :
        /\ \A i \in DOMAIN r : r[i] = ItemAt(lists)[g[i]]
        /\ \A i, j \in DOMAIN r : i < j => g[i] # g[j] /\ r[i].score >= r[j].score
        /\ Len(r) <= k
        /\ \A p \in P : \/ \E i \in DOMAIN r : g[i] = p
                        \/ Len(r) = k /\ \A i \in DOMAIN r : r[i].score >= ItemAt(lists)[p].score
  BY <1>3 DEF IsBest
<1>5. DOMAIN r = 1 .. Len(r) /\ Len(r) \in Nat /\ \A i \in 1 .. Len(r) : r[i].score \in Int
  BY <1>3 DEF Scored
<1>6. \A p \in P : /\ p[1] \in 1 .. N /\ p[2] \in 1 .. Len(lists[p[1]]) /\ p = <<p[1], p[2]>>
                   /\ ItemAt(lists)[p] = lists[p[1]][p[2]]
  BY DEF PlacesIn, ItemAt
<1>7. \A n \in 1 .. N : \A j \in 1 .. Len(lists[n]) :
        <<n, j>> \in P /\ <<n, j>>[1] = n /\ <<n, j>>[2] = j /\ ItemAt(lists)[<<n, j>>] = lists[n][j]
  <2> TAKE n \in 1 .. N
  <2> TAKE j \in 1 .. Len(lists[n])
  <2>1. j \in Nat /\ <<n, j>>[1] = n /\ <<n, j>>[2] = j
    BY <1>1
  <2>2. <<n, j>> \in P
    BY <2>1 DEF PlacesIn
  <2> QED
    BY <1>6, <2>1, <2>2
<1> HIDE DEF P
<1> DEFINE to == [i \in DOMAIN r |-> from[g[i][1]][g[i][2]]]
<1>8. \A i \in DOMAIN r : /\ g[i] \in P /\ g[i][1] \in 1 .. N /\ g[i][2] \in 1 .. Len(lists[g[i][1]])
                          /\ r[i] = lists[g[i][1]][g[i][2]] /\ g[i] = <<g[i][1], g[i][2]>>
                          /\ to[i] = from[g[i][1]][g[i][2]]
  BY <1>4, <1>6
<1>9. \A n \in 1 .. N : /\ from[n] \in [1 .. Len(lists[n]) -> M[n]]
                        /\ \A j \in 1 .. Len(lists[n]) : lists[n][j] = item[from[n][j]] /\ from[n][j] \in M[n]
                        /\ \A i, j \in 1 .. Len(lists[n]) : i # j => from[n][i] # from[n][j]
  <2> TAKE n \in 1 .. N
  <2>1. Cut(from[n], n)
    BY <1>2
  <2> HIDE <1>0
  <2>2. \A j \in 1 .. Len(lists[n]) : from[n][j] \in M[n]
    BY <2>1
  <2> QED
    BY <2>1, <2>2
<1>10. to \in [DOMAIN r -> all]
  BY <1>8, <1>9
<1>11. \A i \in DOMAIN r : r[i] = item[to[i]] /\ to[i] \in M[g[i][1]]
  BY <1>8, <1>9
<1> HIDE DEF to
<1>12. ASSUME NEW i \in DOMAIN r, NEW j \in DOMAIN r, i < j
       PROVE  to[i] # to[j] /\ r[i].score >= r[j].score
  <2>1. g[i] # g[j] /\ r[i].score >= r[j].score
    BY <1>4, <1>12
  <2>2. CASE g[i][1] # g[j][1]
    <3>1. M[g[i][1]] \cap M[g[j][1]] = {}
      BY <1>8, <2>2
    <3> QED
      BY <1>11, <2>1, <3>1
  <2>3. CASE g[i][1] = g[j][1]
    <3>1. g[i][2] # g[j][2]
      BY <1>8, <2>1, <2>3
    <3>2. PICK n \in 1 .. N : n = g[i][1] /\ n = g[j][1]
      BY <1>8, <2>3
    <3>3. PICK a \in 1 .. Len(lists[n]), b \in 1 .. Len(lists[n]) : a = g[i][2] /\ b = g[j][2]
      BY <1>8, <3>2
    <3>4. from[n][a] # from[n][b]
      BY <1>9, <3>1, <3>3
    <3>5. to[i] = from[n][a] /\ to[j] = from[n][b]
      BY <1>8, <3>2, <3>3
    <3> QED
      BY <2>1, <3>4, <3>5
  <2> QED
    BY <2>2, <2>3
<1>13. ASSUME NEW m \in sure
       PROVE  \/ \E i \in DOMAIN r : to[i] = m
              \/ Len(r) = k /\ \A i \in DOMAIN r : r[i].score >= item[m].score
  <2>1. item[m].score \in Int
    OBVIOUS
  <2>2. PICK n \in 1 .. N : m \in H[n]
    OBVIOUS
  <2>3. Len(lists[n]) \in Nat /\ \A j \in 1 .. Len(lists[n]) : lists[n][j].score \in Int
    BY <1>1 DEF Scored
  <2>4. CASE \E j \in 1 .. Len(lists[n]) : from[n][j] = m
    <3>1. PICK j \in 1 .. Len(lists[n]) : from[n][j] = m
      BY <2>4
    <3>2. lists[n][j] = item[m]
      BY <1>9, <3>1
    <3>5. ItemAt(lists)[<<n, j>>] = item[m]
      <4>1. ItemAt(lists)[<<n, j>>] = lists[n][j]
        BY <1>7
      <4> QED
        BY <3>2, <4>1
    <3>3. CASE \E i \in DOMAIN r : g[i] = <<n, j>>
      <4>1. PICK i \in DOMAIN r : g[i] = <<n, j>>
        BY <3>3
      <4>2. to[i] = m
        BY <1>8, <3>1, <4>1
      <4> QED
        BY <4>2
    <3>4. CASE ~ \E i \in DOMAIN r : g[i] = <<n, j>>
      <4>1. Len(r) = k /\ \A i \in DOMAIN r : r[i].score >= ItemAt(lists)[<<n, j>>].score
        BY <1>4, <1>7, <3>4
      <4> QED
        BY <3>2, <3>5, <4>1, Zenon
    <3> QED
      BY <3>3, <3>4
  <2>5. CASE ~ \E j \in 1 .. Len(lists[n]) : from[n][j] = m
    <3>1. Len(lists[n]) = k /\ \A j \in 1 .. Len(lists[n]) : lists[n][j].score >= item[m].score
      BY <1>2, <2>2, <2>5
    <3>2. CASE \E j \in 1 .. k : ~ \E i \in DOMAIN r : g[i] = <<n, j>>
      <4>1. PICK j \in 1 .. k : ~ \E i \in DOMAIN r : g[i] = <<n, j>>
        BY <3>2
      <4>2. j \in 1 .. Len(lists[n]) /\ <<n, j>> \in P /\ ItemAt(lists)[<<n, j>>] = lists[n][j]
        BY <1>7, <3>1
      <4>3. Len(r) = k /\ \A i \in DOMAIN r : r[i].score >= ItemAt(lists)[<<n, j>>].score
        BY <1>4, <4>1, <4>2
      <4>4. ASSUME NEW i \in DOMAIN r PROVE r[i].score >= item[m].score
        <5>1. r[i].score >= lists[n][j].score
          BY <4>2, <4>3
        <5>2. lists[n][j].score >= item[m].score /\ lists[n][j].score \in Int
          BY <2>3, <3>1, <4>2
        <5>3. r[i].score \in Int
          BY <1>5
        <5> QED
          BY <2>1, <5>1, <5>2, <5>3
      <4> QED
        BY <4>3, <4>4
    <3>3. CASE \A j \in 1 .. k : \E i \in DOMAIN r : g[i] = <<n, j>>
      <4> DEFINE u == [j \in 1 .. k |-> <<n, j>>]
      <4>1. u \in [1 .. k -> P]
        BY <1>7, <3>1
      <4>2. \A j \in 1 .. k : u[j] = <<n, j>>
        OBVIOUS
      <4>3. \A i, j \in 1 .. k : i # j => u[i] # u[j]
        OBVIOUS
      <4> HIDE DEF u
      <4>4. g \in [1 .. Len(r) -> P] /\ Len(r) <= k /\ Len(r) \in Nat /\ k \in Nat
        BY <1>4, <1>5
      <4>5. \A j \in 1 .. k : \E i \in 1 .. Len(r) : g[i] = u[j]
        BY <1>5, <3>3, <4>2
      <4>6. Len(r) = k /\ \A i \in 1 .. Len(r) : \E j \in 1 .. k : g[i] = u[j]
        <5>1. PICK L \in Nat : L = Len(r)
          BY <1>5
        <5>2. HasAll(g, L, u, k)
          <6>1. k \in Nat /\ L <= k
            BY <4>4, <5>1
          <6>2. \A j \in 1 .. k : \E i \in 1 .. L : g[i] = u[j]
            BY <4>5, <5>1
          <6> QED
            BY <4>3, <6>1, <6>2, Zenon DEF HasAll
        <5> HIDE <1>0
        <5>3. L = k /\ \A i \in 1 .. L : \E j \in 1 .. k : g[i] = u[j]
          <6>1. OnlyThose(g, L, u, k)
            BY <5>2, NothingElse, Zenon
          <6> QED
            BY <6>1, Zenon DEF OnlyThose
        <5> QED
          BY <5>1, <5>3
      <4>7. ASSUME NEW i \in DOMAIN r PROVE r[i].score >= item[m].score
        <5>1. PICK j \in 1 .. k : g[i] = <<n, j>>
          BY <1>5, <4>2, <4>6
        <5>2. r[i] = lists[n][j]
          BY <1>8, <5>1
        <5> QED
          BY <3>1, <5>2
      <4> QED
        BY <4>6, <4>7
    <3> QED
      BY <3>2, <3>3
  <2> QED
    BY <2>4, <2>5
<1>14. \A i \in DOMAIN r : r[i] = item[to[i]]
  BY <1>11
<1>15. Len(r) <= k
  BY <1>4
<1>16. IsBest(r, k, item, all, sure)
  BY <1>10, <1>12, <1>13, <1>14, <1>15 DEF IsBest
<1> QED
  BY <1>3, <1>16 DEF r

-----------------------------------------------------------------------------
(* What a worker finds and sends *)

\* A list of items under other names and with other scores, in the same order.
Relabels(r, k, item, all, sure, q, item2, id, all2, sure2) ==
  /\ IsBest(r, k, item, all, sure) /\ sure \subseteq all
  /\ DOMAIN q = DOMAIN r /\ Len(q) = Len(r)
  /\ \A a, b \in all : a # b => id[a] # id[b]
  /\ \A a \in all : id[a] \in all2
  /\ \A m \in sure2 : \E a \in sure : id[a] = m
  /\ \A i \in DOMAIN r : \A a \in all : r[i] = item[a] => q[i] = item2[id[a]]
  /\ \A a, b \in all : item[a].score >= item[b].score => item2[id[a]].score >= item2[id[b]].score

LEMMA Relabelled ==
  \A r, k, item, all, sure, q, item2, id, all2, sure2 :
    Relabels(r, k, item, all, sure, q, item2, id, all2, sure2) => IsBest(q, k, item2, all2, sure2)
<1> SUFFICES ASSUME NEW r, NEW k, NEW item, NEW all, NEW sure, NEW q, NEW item2, NEW id, NEW all2, NEW sure2,
                    Relabels(r, k, item, all, sure, q, item2, id, all2, sure2)
             PROVE  IsBest(q, k, item2, all2, sure2)
  OBVIOUS
<1>1. /\ sure \subseteq all
      /\ DOMAIN q = DOMAIN r /\ Len(q) = Len(r)
      /\ \A a, b \in all : a # b => id[a] # id[b]
      /\ \A a \in all : id[a] \in all2
      /\ \A m \in sure2 : \E a \in sure : id[a] = m
      /\ \A i \in DOMAIN r : \A a \in all : r[i] = item[a] => q[i] = item2[id[a]]
      /\ \A a, b \in all : item[a].score >= item[b].score => item2[id[a]].score >= item2[id[b]].score
  BY DEF Relabels
<1>2. PICK from \in [DOMAIN r -> all] :
        /\ \A i \in DOMAIN r : r[i] = item[from[i]]
        /\ \A i, j \in DOMAIN r : i < j => from[i] # from[j] /\ r[i].score >= r[j].score
        /\ Len(r) <= k
        /\ \A m \in sure :
             \/ \E i \in DOMAIN r : from[i] = m
             \/ Len(r) = k /\ \A i \in DOMAIN r : r[i].score >= item[m].score
  BY DEF Relabels, IsBest
<1> DEFINE to == [i \in DOMAIN q |-> id[from[i]]]
<1>3. /\ to \in [DOMAIN q -> all2]
      /\ \A i \in DOMAIN q : to[i] = id[from[i]] /\ from[i] \in all /\ q[i] = item2[to[i]]
  BY <1>1, <1>2
<1> HIDE DEF to
<1>4. ASSUME NEW i \in DOMAIN q, NEW j \in DOMAIN q, i < j
      PROVE  to[i] # to[j] /\ q[i].score >= q[j].score
  <2>1. from[i] # from[j] /\ item[from[i]].score >= item[from[j]].score
    BY <1>1, <1>2, <1>4
  <2>2. from[i] \in all /\ from[j] \in all
    BY <1>3
  <2> QED
    BY <1>1, <1>3, <2>1, <2>2
<1>5. ASSUME NEW m \in sure2
      PROVE  \/ \E i \in DOMAIN q : to[i] = m
             \/ Len(q) = k /\ \A i \in DOMAIN q : q[i].score >= item2[m].score
  <2>1. PICK a \in sure : id[a] = m
    BY <1>1
  <2>2. CASE \E i \in DOMAIN r : from[i] = a
    <3>1. PICK i \in DOMAIN r : from[i] = a
      BY <2>2
    <3>2. i \in DOMAIN q /\ to[i] = m
      BY <1>1, <1>3, <2>1, <3>1
    <3> QED
      BY <3>2
  <2>3. CASE ~ \E i \in DOMAIN r : from[i] = a
    <3>1. Len(r) = k /\ \A i \in DOMAIN r : r[i].score >= item[a].score
      BY <1>2, <2>3
    <3>2. ASSUME NEW i \in DOMAIN q PROVE q[i].score >= item2[m].score
      <4>1. item[from[i]].score >= item[a].score
        BY <1>1, <1>2, <3>1
      <4>2. from[i] \in all /\ a \in all
        BY <1>1, <1>3
      <4>3. item2[id[from[i]]].score >= item2[id[a]].score
        BY <1>1, <4>1, <4>2
      <4> QED
        BY <1>3, <2>1, <4>3
    <3> QED
      BY <1>1, <3>1, <3>2
  <2> QED
    BY <2>2, <2>3
<1>6. \A i \in DOMAIN q : q[i] = item2[to[i]]
  BY <1>3
<1>7. Len(q) <= k
  BY <1>1, <1>2
<1> QED
  BY <1>3, <1>4, <1>5, <1>6, <1>7 DEF IsBest

\* What has come of a list is no more than k of its items, best first.
LEMMA PrefixIsBest ==
  ASSUME NEW Z, NEW r \in Seq(Z), NEW k \in Nat, NEW item, NEW all, NEW sure,
         IsBest(r, k, item, all, sure), NEW n \in 0 .. Len(r)
  PROVE  IsBest(SubSeq(r, 1, n), k, item, all, {})
<1> DEFINE q == SubSeq(r, 1, n)
<1>1. PICK from \in [DOMAIN r -> all] :
        /\ \A i \in DOMAIN r : r[i] = item[from[i]]
        /\ \A i, j \in DOMAIN r : i < j => from[i] # from[j] /\ r[i].score >= r[j].score
        /\ Len(r) <= k
  BY DEF IsBest
<1>2. /\ Len(q) = n /\ DOMAIN q = 1 .. n /\ n \in Nat /\ n <= Len(r) /\ Len(r) \in Nat
      /\ \A i \in 1 .. n : i \in DOMAIN r /\ q[i] = r[i]
  OBVIOUS
<1> HIDE DEF q
<1> DEFINE to == [i \in 1 .. n |-> from[i]]
<1>3. to \in [DOMAIN q -> all] /\ \A i \in 1 .. n : to[i] = from[i]
  BY <1>1, <1>2
<1> HIDE DEF to
<1>4. /\ \A i \in DOMAIN q : q[i] = item[to[i]]
      /\ \A i, j \in DOMAIN q : i < j => to[i] # to[j] /\ q[i].score >= q[j].score
  BY <1>1, <1>2, <1>3
<1>5. Len(q) <= k
  BY <1>1, <1>2
<1>6. IsBest(q, k, item, all, {})
  BY <1>3, <1>4, <1>5 DEF IsBest
<1> QED
  BY <1>6 DEF q

Queries == {h \in HttpRequests : IsQuery(h)}
Matches(w) == {Match(w, p) : p \in Places(w)}
MatchAt(w) == [p \in Places(w) |-> Match(w, p)]
Hits(h, w) == {p \in Places(w) : Document(w, p) \in h.query}

\* The lines that w answers a query with.
Sent(h, w) == LET best == WorkerBest(K(h), Search[h][w]) IN [n \in DOMAIN best |-> Line(w, best[n])]
Lines == {LineOf[m] : m \in DOMAIN LineOf}

LEMMA KType == \A h \in Queries : K(h) \in Nat \ {0}
BY HttpAssumption DEF Queries, IsQuery, K, DefaultK

LEMMA ChunkTypes ==
  /\ Workers = 1 .. Len(Chunks) /\ Len(Chunks) \in Nat
  /\ \A w \in Workers :
       /\ DOMAIN Chunks[w] = 1 .. Len(Chunks[w]) /\ Len(Chunks[w]) \in Nat
       /\ \A i \in DOMAIN Chunks[w] :
            /\ DOMAIN Chunks[w][i] = 1 .. Len(Chunks[w][i]) /\ Len(Chunks[w][i]) \in Nat
            /\ \A d \in DOMAIN Chunks[w][i] : Chunks[w][i][d] \in Documents
<1>1. Chunks \in Seq(Seq(Seq(Documents)))
  BY ChunksAssumption
<1>2. Workers = 1 .. Len(Chunks) /\ Len(Chunks) \in Nat /\ \A w \in Workers : Chunks[w] \in Seq(Seq(Documents))
  BY <1>1 DEF Workers
<1>3. \A w \in Workers : DOMAIN Chunks[w] = 1 .. Len(Chunks[w]) /\ Len(Chunks[w]) \in Nat
                         /\ \A i \in DOMAIN Chunks[w] : Chunks[w][i] \in Seq(Documents)
  BY <1>2
<1>4. \A s \in Seq(Documents) : DOMAIN s = 1 .. Len(s) /\ Len(s) \in Nat /\ \A d \in DOMAIN s : s[d] \in Documents
  OBVIOUS
<1> QED
  BY <1>2, <1>3, <1>4

LEMMA PlaceTypes ==
  ASSUME NEW w \in Workers
  PROVE  /\ \A p : p \in Places(w) <=> /\ p = <<p[1], p[2]>> /\ p[1] \in DOMAIN Chunks[w]
                                       /\ p[2] \in DOMAIN Chunks[w][p[1]]
         /\ \A i \in DOMAIN Chunks[w] : \A d \in DOMAIN Chunks[w][i] :
              <<i, d>> \in Places(w) /\ Document(w, <<i, d>>) = Chunks[w][i][d]
         /\ \A p \in Places(w) : Document(w, p) \in Documents /\ Match(w, p).score \in Nat
         /\ Scored(Matches(w))
<1>1. \A p : p \in Places(w) <=> \E i \in DOMAIN Chunks[w] : \E d \in DOMAIN Chunks[w][i] : p = <<i, d>>
  BY DEF Places
<1>2. \A p \in Places(w) : p = <<p[1], p[2]>> /\ p[1] \in DOMAIN Chunks[w] /\ p[2] \in DOMAIN Chunks[w][p[1]]
  <2> TAKE p \in Places(w)
  <2>1. PICK i \in DOMAIN Chunks[w] : \E d \in DOMAIN Chunks[w][i] : p = <<i, d>>
    BY <1>1
  <2>2. PICK d \in DOMAIN Chunks[w][i] : p = <<i, d>>
    BY <2>1
  <2> QED
    BY <2>2
<1>3. \A p : p = <<p[1], p[2]>> /\ p[1] \in DOMAIN Chunks[w] /\ p[2] \in DOMAIN Chunks[w][p[1]] => p \in Places(w)
  BY <1>1
<1>4. \A i \in DOMAIN Chunks[w] : \A d \in DOMAIN Chunks[w][i] :
        <<i, d>> \in Places(w) /\ Document(w, <<i, d>>) = Chunks[w][i][d]
  BY <1>1 DEF Document
<1>5. \A p \in Places(w) : Document(w, p) \in Documents /\ Match(w, p).score \in Nat
  <2> TAKE p \in Places(w)
  <2>1. Document(w, p) \in Documents
    BY <1>2, ChunkTypes DEF Document
  <2>2. Match(w, p).score = ScoreOf[Document(w, p)]
    BY DEF Match
  <2> QED
    BY <2>1, <2>2, ChunksAssumption
<1>6. Scored(Matches(w))
  BY <1>5 DEF Scored, Matches
<1> QED
  BY <1>2, <1>3, <1>4, <1>5, <1>6

\* A chunk's answer is the best of its matching documents.
LEMMA ChunkAnswers ==
  ASSUME NEW h \in Queries, NEW w \in Workers, NEW i \in DOMAIN Chunks[w]
  PROVE  /\ Search[h][w][i] \in Seq(Matches(w))
         /\ IsBest(Search[h][w][i], K(h), MatchAt(w),
                   {p \in Hits(h, w) : p[1] = i}, {p \in Hits(h, w) : p[1] = i})
<1> DEFINE items == [d \in DOMAIN Chunks[w][i] |-> Match(w, <<i, d>>)]
           among == {d \in DOMAIN Chunks[w][i] : Chunks[w][i][d] \in h.query}
           r == Best(K(h), items, among)
           hits == {p \in Hits(h, w) : p[1] = i}
           id == [d \in DOMAIN Chunks[w][i] |-> <<i, d>>]
<1>1. Search[h][w][i] = r
  BY DEF Search, Queries, SearchChunkFor, ChunkBest
<1>2. /\ DOMAIN Chunks[w][i] = 1 .. Len(Chunks[w][i]) /\ Len(Chunks[w][i]) \in Nat
      /\ \A d \in DOMAIN Chunks[w][i] : <<i, d>> \in Places(w) /\ Document(w, <<i, d>>) = Chunks[w][i][d]
  BY ChunkTypes, PlaceTypes
<1>3. items \in Seq(Matches(w)) /\ Len(items) = Len(Chunks[w][i])
  <2>1. \A d \in DOMAIN Chunks[w][i] : Match(w, <<i, d>>) \in Matches(w)
    BY <1>2 DEF Matches
  <2> QED
    BY <1>2, <2>1
<1>4. among \in SUBSET (1 .. Len(items))
  BY <1>2, <1>3
<1>5. \A d \in DOMAIN Chunks[w][i] : /\ items[d] = Match(w, <<i, d>>) /\ id[d] = <<i, d>>
                                     /\ d \in among <=> Chunks[w][i][d] \in h.query
  OBVIOUS
<1> HIDE DEF items, id
<1>6. among \subseteq DOMAIN Chunks[w][i]
  OBVIOUS
<1> HIDE DEF among
<1>7. r \in Seq(Matches(w)) /\ IsBest(r, K(h), items, among, among)
  BY <1>3, <1>4, KType, PlaceTypes, BestIsBest
<1> HIDE DEF r
<1>8. Relabels(r, K(h), items, among, among, r, MatchAt(w), id, hits, hits)
  <2>1. \A d \in among : /\ id[d] = <<i, d>> /\ id[d] \in Places(w) /\ id[d] \in Hits(h, w) /\ id[d][1] = i
                         /\ MatchAt(w)[id[d]] = items[d]
    <3> TAKE d \in among
    <3>1. d \in DOMAIN Chunks[w][i] /\ id[d] = <<i, d>> /\ id[d] \in Places(w) /\ Document(w, id[d]) \in h.query
      BY <1>2, <1>5, <1>6
    <3> QED
      BY <1>5, <3>1 DEF Hits, MatchAt
  <2>2. \A d \in among : id[d] \in hits
    BY <2>1
  <2>3. \A a, b \in among : a # b => id[a] # id[b]
    BY <2>1
  <2>4. \A m \in hits : \E d \in among : id[d] = m
    <3> TAKE m \in hits
    <3>1. m \in Places(w) /\ Document(w, m) \in h.query /\ m[1] = i
      BY DEF Hits
    <3>2. m = <<i, m[2]>> /\ m[2] \in DOMAIN Chunks[w][i]
      BY <3>1, PlaceTypes
    <3>3. m[2] \in among /\ id[m[2]] = m
      BY <1>2, <1>5, <3>1, <3>2
    <3> QED
      BY <3>3
  <2> HIDE DEF hits
  <2> QED
    BY <1>7, <2>1, <2>2, <2>3, <2>4 DEF Relabels
<1>9. IsBest(r, K(h), MatchAt(w), hits, hits)
  BY <1>8, Relabelled
<1> QED
  BY <1>1, <1>7, <1>9

\* A worker's answer is the best of its matching documents.
LEMMA WorkerAnswers ==
  ASSUME NEW h \in Queries, NEW w \in Workers
  PROVE  LET best == WorkerBest(K(h), Search[h][w])
         IN best \in Seq(Matches(w)) /\ IsBest(best, K(h), MatchAt(w), Hits(h, w), Hits(h, w))
<1> DEFINE lists == Search[h][w]
           M == [i \in DOMAIN Chunks[w] |-> {p \in Hits(h, w) : p[1] = i}]
           best == WorkerBest(K(h), lists)
<1>1. lists = [i \in DOMAIN Chunks[w] |-> Search[h][w][i]]
  BY DEF Search, Queries
<1>2. DOMAIN Chunks[w] = 1 .. Len(Chunks[w]) /\ Len(Chunks[w]) \in Nat
  BY ChunkTypes
<1>3. \A i \in DOMAIN Chunks[w] : lists[i] \in Seq(Matches(w)) /\ IsBest(lists[i], K(h), MatchAt(w), M[i], M[i])
  BY ChunkAnswers
<1> HIDE DEF lists
<1>4. lists \in Seq(Seq(Matches(w))) /\ Len(lists) = Len(Chunks[w]) /\ 1 .. Len(lists) = DOMAIN Chunks[w]
  <2>1. lists \in [1 .. Len(Chunks[w]) -> Seq(Matches(w))]
    BY <1>1, <1>2, <1>3 DEF lists
  <2> QED
    BY <1>2, <2>1
<1>5. Hits(h, w) \subseteq Places(w)
  BY DEF Hits
<1>6. \A i \in DOMAIN Chunks[w] : M[i] = {p \in Hits(h, w) : p[1] = i}
  OBVIOUS
<1> HIDE DEF M
<1>7. \A i \in DOMAIN Chunks[w] : M[i] \subseteq Hits(h, w)
  BY <1>6
<1>8. \A a, b \in DOMAIN Chunks[w] : a # b => M[a] \cap M[b] = {}
  BY <1>6
<1>9. \A m \in Hits(h, w) : MatchAt(w)[m].score \in Int /\ \E i \in DOMAIN Chunks[w] : m \in M[i]
  <2> TAKE m \in Hits(h, w)
  <2>1. m \in Places(w)
    BY <1>5
  <2>2. m[1] \in DOMAIN Chunks[w] /\ Match(w, m).score \in Nat
    BY <2>1, PlaceTypes
  <2>3. MatchAt(w)[m] = Match(w, m)
    BY <2>1 DEF MatchAt
  <2> QED
    BY <1>6, <2>2, <2>3
<1>10. K(h) \in Nat \ {0} /\ Scored(Matches(w))
  BY KType, PlaceTypes
<1>11. MergesCuts(Matches(w), K(h), lists, MatchAt(w), M, M, Hits(h, w), Hits(h, w))
  BY <1>3, <1>4, <1>7, <1>8, <1>9, <1>10 DEF MergesCuts
<1>12. BestOfAll(K(h), lists) \in Seq(Matches(w)) /\ IsBest(BestOfAll(K(h), lists), K(h), MatchAt(w), Hits(h, w), Hits(h, w))
  BY <1>11, CutOfCuts
<1> QED
  BY <1>12 DEF lists, WorkerBest

LEMMA MatchingOf ==
  ASSUME NEW h, NEW ws
  PROVE  /\ \A m : m \in Matching(h, ws) <=> \E w \in ws : \E p \in Hits(h, w) : m = <<w, p>>
         /\ \A m \in Matching(h, ws) : m[1] \in ws /\ m[2] \in Hits(h, m[1]) /\ m = <<m[1], m[2]>>
         /\ \A w \in ws : \A p \in Hits(h, w) : <<w, p>> \in Matching(h, ws)
<1>1. \A m : m \in Matching(h, ws) <=> \E w \in ws : \E p \in Hits(h, w) : m = <<w, p>>
  BY DEF Matching, Hits
<1>2. ASSUME NEW m \in Matching(h, ws)
      PROVE  m[1] \in ws /\ m[2] \in Hits(h, m[1]) /\ m = <<m[1], m[2]>>
  <2>1. PICK w \in ws : \E p \in Hits(h, w) : m = <<w, p>>
    BY <1>1
  <2>2. PICK p \in Hits(h, w) : m = <<w, p>>
    BY <2>1
  <2> QED
    BY <2>2
<1> QED
  BY <1>1, <1>2

LEMMA LineTypes ==
  /\ \A w \in Workers : \A p \in Places(w) : <<w, p>> \in DOMAIN LineOf /\ LineOf[<<w, p>>] = Line(w, Match(w, p))
  /\ \A w \in Workers : \A h : \A p \in Hits(h, w) : <<w, p>> \in DOMAIN LineOf
  /\ Scored(Lines)
  /\ \A l \in Lines : l # EndOfResults
<1>1. ASSUME NEW w \in Workers, NEW p \in Places(w)
      PROVE  <<w, p>> \in DOMAIN LineOf /\ LineOf[<<w, p>>] = Line(w, Match(w, p))
  <2>1. <<w, p>> \in DOMAIN LineOf
    BY DEF LineOf
  <2>2. <<w, p>>[1] = w /\ <<w, p>>[2] = p
    OBVIOUS
  <2> QED
    BY <2>1, <2>2 DEF LineOf
<1>2. ASSUME NEW m \in DOMAIN LineOf
      PROVE  LineOf[m].score \in Int /\ LineOf[m] # EndOfResults
  <2>1. PICK w \in Workers : \E p \in Places(w) : m = <<w, p>>
    BY DEF LineOf
  <2>2. PICK p \in Places(w) : m = <<w, p>>
    BY <2>1
  <2>3. LineOf[m] = Line(w, Match(w, p))
    BY <1>1, <2>2
  <2>4. Match(w, p).score \in Nat
    BY PlaceTypes
  <2>5. Rounded(Match(w, p).score) \in Int
    BY <2>4 DEF Rounded
  <2>6. LineOf[m].score \in Int
    BY <2>3, <2>5 DEF Line
  <2>7. LineOf[m].url = AllMeta(w, p)
    BY <2>3 DEF Line, Match
  <2>8. AllMeta(w, p) # "END_OF_RESULTS"
    BY MetaAssumption DEF AllMeta, Workers
  <2>9. EndOfResults.url = "END_OF_RESULTS"
    BY DEF EndOfResults
  <2> QED
    BY <2>6, <2>7, <2>8, <2>9
<1>3. Scored(Lines) /\ \A l \in Lines : l # EndOfResults
  BY <1>2 DEF Scored, Lines
<1>4. \A w \in Workers : \A h : \A p \in Hits(h, w) : <<w, p>> \in DOMAIN LineOf
  BY <1>1 DEF Hits
<1> QED
  BY <1>1, <1>3, <1>4

LEMMA RoundedRises == \A x, y \in Nat : x >= y => Rounded(x) >= Rounded(y)
BY DEF Rounded

\* What a worker sends is the best of its matching documents' lines.
LEMMA LinesSent ==
  ASSUME NEW h \in Queries, NEW w \in Workers
  PROVE  /\ Sent(h, w) \in Seq(Lines)
         /\ IsBest(Sent(h, w), K(h), LineOf, Matching(h, {w}), Matching(h, {w}))
<1> DEFINE best == WorkerBest(K(h), Search[h][w])
           q == [n \in DOMAIN best |-> Line(w, best[n])]
           id == [p \in Hits(h, w) |-> <<w, p>>]
           all == Matching(h, {w})
<1>1. best \in Seq(Matches(w)) /\ IsBest(best, K(h), MatchAt(w), Hits(h, w), Hits(h, w))
  BY WorkerAnswers
<1>2. Sent(h, w) = q
  BY DEF Sent
<1> HIDE DEF best
<1>3. DOMAIN best = 1 .. Len(best) /\ Len(best) \in Nat /\ \A n \in DOMAIN best : best[n] \in Matches(w)
  BY <1>1
<1>4. DOMAIN q = DOMAIN best /\ Len(q) = Len(best) /\ \A n \in DOMAIN best : q[n] = Line(w, best[n])
  BY <1>3
<1>5. q \in Seq(Lines)
  <2>1. \A n \in DOMAIN best : Line(w, best[n]) \in Lines
    <3> TAKE n \in DOMAIN best
    <3>1. PICK p \in Places(w) : best[n] = Match(w, p)
      BY <1>3 DEF Matches
    <3> QED
      BY <3>1, LineTypes DEF Lines
  <2>2. q \in [1 .. Len(best) -> Lines]
    BY <1>3, <2>1
  <2> QED
    BY <1>3, <2>2
<1> HIDE DEF q
<1>6. \A p \in Hits(h, w) : /\ id[p] = <<w, p>> /\ p \in Places(w) /\ MatchAt(w)[p] = Match(w, p)
                            /\ LineOf[id[p]] = Line(w, Match(w, p)) /\ Match(w, p).score \in Nat
                            /\ LineOf[id[p]].score = Rounded(Match(w, p).score)
  <2> TAKE p \in Hits(h, w)
  <2>1. id[p] = <<w, p>> /\ p \in Places(w)
    BY DEF Hits
  <2>2. MatchAt(w)[p] = Match(w, p) /\ Match(w, p).score \in Nat
    BY <2>1, PlaceTypes DEF MatchAt
  <2>3. LineOf[id[p]] = Line(w, Match(w, p))
    BY <2>1, LineTypes
  <2>4. Line(w, Match(w, p)).score = Rounded(Match(w, p).score)
    BY DEF Line
  <2> QED
    BY <2>1, <2>2, <2>3, <2>4
<1> HIDE DEF id
<1>7. Relabels(best, K(h), MatchAt(w), Hits(h, w), Hits(h, w), q, LineOf, id, all, all)
  <2>1. \A a, b \in Hits(h, w) : a # b => id[a] # id[b]
    BY <1>6
  <2>2. \A a \in Hits(h, w) : id[a] \in all
    BY <1>6, MatchingOf
  <2>3. \A m \in all : \E a \in Hits(h, w) : id[a] = m
    <3> TAKE m \in all
    <3>1. m[1] = w /\ m[2] \in Hits(h, w) /\ m = <<m[1], m[2]>>
      BY MatchingOf
    <3> QED
      BY <1>6, <3>1
  <2>4. \A i \in DOMAIN best : \A a \in Hits(h, w) : best[i] = MatchAt(w)[a] => q[i] = LineOf[id[a]]
    BY <1>4, <1>6
  <2>5. \A a, b \in Hits(h, w) :
          MatchAt(w)[a].score >= MatchAt(w)[b].score => LineOf[id[a]].score >= LineOf[id[b]].score
    BY <1>6, RoundedRises
  <2> HIDE DEF all
  <2> QED
    BY <1>1, <1>4, <2>1, <2>2, <2>3, <2>4, <2>5 DEF Relabels
<1>8. IsBest(q, K(h), LineOf, all, all)
  BY <1>7, Relabelled
<1> QED
  BY <1>2, <1>5, <1>8

-----------------------------------------------------------------------------
(* The broker's merge *)

\* What the broker merges: of every worker the lines that it sent, or the first of them.
HeardOf(h, lists, away) ==
  /\ lists \in [Workers -> Seq(Lines)] /\ away \subseteq Workers
  /\ \A w \in Workers : \E n \in 0 .. Len(Sent(h, w)) :
       lists[w] = SubSeq(Sent(h, w), 1, n) /\ (w \in away \/ n = Len(Sent(h, w)))

LEMMA MergedIsBest ==
  ASSUME NEW h \in Queries, NEW lists, NEW away, HeardOf(h, lists, away)
  PROVE  /\ BestOfAll(K(h), lists) \in Seq(Lines)
         /\ IsBest(BestOfAll(K(h), lists), K(h), LineOf, Matching(h, Workers), Matching(h, Workers \ away))
<1> DEFINE M == [w \in Workers |-> Matching(h, {w})]
           H == [w \in Workers |-> IF w \in away THEN {} ELSE Matching(h, {w})]
           all == Matching(h, Workers)
           sure == Matching(h, Workers \ away)
<1>1. K(h) \in Nat \ {0} /\ Scored(Lines)
  BY KType, LineTypes
<1>2. lists \in Seq(Seq(Lines)) /\ 1 .. Len(lists) = Workers
  <2>1. Workers = 1 .. Len(Chunks) /\ Len(Chunks) \in Nat
    BY ChunkTypes
  <2>2. lists \in [1 .. Len(Chunks) -> Seq(Lines)]
    BY <2>1 DEF HeardOf
  <2> QED
    BY <2>1, <2>2
<1>3. ASSUME NEW w \in Workers
      PROVE  IsBest(lists[w], K(h), LineOf, M[w], H[w]) /\ M[w] \subseteq all
  <2>1. PICK n \in 0 .. Len(Sent(h, w)) :
          lists[w] = SubSeq(Sent(h, w), 1, n) /\ (w \in away \/ n = Len(Sent(h, w)))
    BY DEF HeardOf
  <2>2. /\ Sent(h, w) \in Seq(Lines)
        /\ IsBest(Sent(h, w), K(h), LineOf, Matching(h, {w}), Matching(h, {w}))
    BY LinesSent
  <2>3. M[w] = Matching(h, {w}) /\ H[w] = IF w \in away THEN {} ELSE Matching(h, {w})
    OBVIOUS
  <2>4. CASE w \in away
    <3>1. K(h) \in Nat
      BY <1>1
    <3>2. IsBest(SubSeq(Sent(h, w), 1, n), K(h), LineOf, Matching(h, {w}), {})
      BY <2>2, <3>1, PrefixIsBest
    <3> QED
      BY <2>1, <2>3, <2>4, <3>2, MatchingOf
  <2>5. CASE w \notin away
    <3>1. lists[w] = Sent(h, w)
      <4>1. \A s \in Seq(Lines) : SubSeq(s, 1, Len(s)) = s
        OBVIOUS
      <4>2. lists[w] = SubSeq(Sent(h, w), 1, Len(Sent(h, w)))
        BY <2>1, <2>5
      <4> QED
        BY <2>2, <4>1, <4>2
    <3> QED
      BY <2>2, <2>3, <2>5, <3>1, MatchingOf
  <2>6. Matching(h, {w}) \subseteq all
    BY MatchingOf
  <2> QED
    BY <2>3, <2>4, <2>5, <2>6
<1>4. ASSUME NEW v \in Workers, NEW w \in Workers, v # w PROVE M[v] \cap M[w] = {}
  <2>1. \A m \in M[v] : m[1] = v
    BY MatchingOf
  <2>2. \A m \in M[w] : m[1] = w
    BY MatchingOf
  <2> HIDE DEF M
  <2> QED
    BY <1>4, <2>1, <2>2
<1>5. ASSUME NEW m \in sure
      PROVE  LineOf[m].score \in Int /\ \E w \in Workers : m \in H[w]
  <2>1. m[1] \in Workers \ away /\ m[2] \in Hits(h, m[1]) /\ m = <<m[1], m[2]>>
    BY MatchingOf
  <2>2. m \in DOMAIN LineOf
    BY <2>1, LineTypes
  <2>3. LineOf[m].score \in Int
    BY <2>2, LineTypes DEF Scored, Lines
  <2>4. m \in Matching(h, {m[1]})
    BY <2>1, MatchingOf
  <2>5. m \in H[m[1]]
    BY <2>1, <2>4
  <2> HIDE DEF H
  <2> QED
    BY <2>1, <2>3, <2>5
<1> HIDE DEF M, H, all, sure
<1>6. MergesCuts(Lines, K(h), lists, LineOf, M, H, all, sure)
  BY <1>1, <1>2, <1>3, <1>4, <1>5 DEF MergesCuts
<1>7. BestOfAll(K(h), lists) \in Seq(Lines) /\ IsBest(BestOfAll(K(h), lists), K(h), LineOf, all, sure)
  BY <1>6, CutOfCuts
<1> QED
  BY <1>7 DEF all, sure

\* Two documents of a worker with one URL: only the one that index_lookup finds has
\* its metadata.  Two workers have no metadata of the same URL.
LEMMA UrlOnce ==
  \A m, n \in DOMAIN LineOf : m # n => LineOf[m].url # LineOf[n].url \/ LineOf[m].url = "none"
<1>1. \A m \in DOMAIN LineOf : \E w \in Workers : \E p \in Places(w) : m = <<w, p>>
  BY DEF LineOf
<1>2. \A w \in Workers : \A p \in Places(w) : LineOf[<<w, p>>].url = AllMeta(w, p)
  <2> TAKE w \in Workers
  <2> TAKE p \in Places(w)
  <2>1. LineOf[<<w, p>>] = Line(w, Match(w, p))
    BY LineTypes
  <2> QED
    BY <2>1 DEF Line, Match
<1> SUFFICES ASSUME NEW m \in DOMAIN LineOf, NEW n \in DOMAIN LineOf, m # n,
                    LineOf[m].url = LineOf[n].url, LineOf[m].url # "none"
             PROVE  FALSE
  OBVIOUS
<1>3. PICK v \in Workers : \E p \in Places(v) : m = <<v, p>>
  BY <1>1
<1>4. PICK p \in Places(v) : m = <<v, p>>
  BY <1>3
<1>5. PICK w \in Workers : \E q \in Places(w) : n = <<w, q>>
  BY <1>1
<1>6. PICK q \in Places(w) : n = <<w, q>>
  BY <1>5
<1>7. AllMeta(v, p) = AllMeta(w, q) /\ AllMeta(v, p) # "none"
  BY <1>2, <1>4, <1>6
<1>8. /\ UrlAt(v, p) \in MetaUrls[v] /\ IndexLookup(v, p)
      /\ UrlAt(w, q) \in MetaUrls[w] /\ IndexLookup(w, q) /\ UrlAt(v, p) = UrlAt(w, q)
  BY <1>7 DEF AllMeta
<1>9. v = w
  <2>1. v # w => MetaUrls[v] \cap MetaUrls[w] = {}
    BY MetaAssumption DEF Workers
  <2> QED
    BY <1>8, <2>1
<1>10. p # q
  BY <1>4, <1>6, <1>9
<1>11. Before(p, q) \/ Before(q, p)
  <2>1. /\ p = <<p[1], p[2]>> /\ p[1] \in DOMAIN Chunks[v] /\ p[2] \in DOMAIN Chunks[v][p[1]]
        /\ q = <<q[1], q[2]>> /\ q[1] \in DOMAIN Chunks[v] /\ q[2] \in DOMAIN Chunks[v][q[1]]
    BY <1>9, PlaceTypes
  <2>2. p[1] \in Nat /\ p[2] \in Nat /\ q[1] \in Nat /\ q[2] \in Nat
    BY <2>1, ChunkTypes
  <2>3. p[1] # q[1] \/ p[2] # q[2]
    BY <1>10, <2>1
  <2> QED
    BY <2>2, <2>3 DEF Before
<1> QED
  BY <1>8, <1>9, <1>11 DEF IndexLookup

LEMMA NoUrlTwice ==
  ASSUME NEW h, NEW r \in Seq(Lines), NEW k, NEW sure, IsBest(r, k, LineOf, Matching(h, Workers), sure)
  PROVE  \A i, j \in DOMAIN r : i # j => r[i].url # r[j].url \/ r[i].url = "none"
<1>1. PICK from \in [DOMAIN r -> Matching(h, Workers)] :
        /\ \A i \in DOMAIN r : r[i] = LineOf[from[i]]
        /\ \A i, j \in DOMAIN r : i < j => from[i] # from[j]
  BY DEF IsBest
<1>2. \A m \in Matching(h, Workers) : m \in DOMAIN LineOf
  <2> TAKE m \in Matching(h, Workers)
  <2>1. m[1] \in Workers /\ m[2] \in Hits(h, m[1]) /\ m = <<m[1], m[2]>>
    BY MatchingOf
  <2> QED
    BY <2>1, LineTypes
<1>3. ASSUME NEW i \in DOMAIN r, NEW j \in DOMAIN r, i # j PROVE from[i] # from[j]
  <2>1. DOMAIN r = 1 .. Len(r) /\ Len(r) \in Nat
    OBVIOUS
  <2>2. i < j \/ j < i
    BY <1>3, <2>1
  <2> QED
    BY <1>1, <2>2
<1>4. \A i \in DOMAIN r : from[i] \in DOMAIN LineOf
  BY <1>1, <1>2
<1> QED
  BY <1>1, <1>3, <1>4, UrlOnce

-----------------------------------------------------------------------------
(* The broker hears a worker *)

WireLines == Lines \cup {EndOfResults}

\* The first lines of what a worker sends, and the rest of it, which is on its way or
\* not yet or no more.
HeardPart(sent, heard) == \E m \in 0 .. Len(sent) : heard = SubSeq(sent, 1, m)
Hearing(sent, heard, coming) ==
  \E m \in 0 .. Len(sent) :
    /\ heard = SubSeq(sent, 1, m)
    /\ coming = <<>> \/ coming = SubSeq(Append(sent, EndOfResults), m + 1, Len(sent) + 1)

LEMMA HeardSome ==
  ASSUME NEW sent \in Seq(Lines), NEW m \in 0 .. Len(sent)
  PROVE  /\ SubSeq(sent, 1, m) \in Seq(Lines) /\ Len(SubSeq(sent, 1, m)) = m
         /\ \A i \in 1 .. m : SubSeq(sent, 1, m)[i] = sent[i]
<1>1. Len(sent) \in Nat /\ m \in Nat /\ m <= Len(sent)
  OBVIOUS
<1>2. \A i \in 1 .. m : sent[i] \in Lines
  <2> TAKE i \in 1 .. m
  <2>1. i \in 1 .. Len(sent)
    BY <1>1
  <2> QED
    BY <2>1, ElementOfSeq
<1>3. /\ SubSeq(sent, 1, m) \in Seq(Lines)
      /\ Len(SubSeq(sent, 1, m)) = IF 1 <= m THEN m - 1 + 1 ELSE 0
      /\ \A i \in 1 .. m - 1 + 1 : SubSeq(sent, 1, m)[i] = sent[1 + i - 1]
  BY <1>1, <1>2, SubSeqProperties
<1>4. \A i \in 1 .. m : SubSeq(sent, 1, m)[i] = sent[i]
  <2> TAKE i \in 1 .. m
  <2>1. i \in 1 .. m - 1 + 1 /\ 1 + i - 1 = i
    BY <1>1
  <2> QED
    BY <1>3, <2>1
<1> QED
  BY <1>1, <1>3, <1>4

\* What is on its way when m lines have been heard.
LEMMA Coming ==
  ASSUME NEW sent \in Seq(Lines), NEW m \in 0 .. Len(sent)
  PROVE  LET coming == SubSeq(Append(sent, EndOfResults), m + 1, Len(sent) + 1)
         IN /\ coming \in Seq(WireLines) /\ Len(coming) = Len(sent) + 1 - m
            /\ \A i \in 1 .. Len(sent) - m : coming[i] = sent[m + i] /\ coming[i] \in Lines
            /\ coming[Len(sent) + 1 - m] = EndOfResults
<1> DEFINE full == Append(sent, EndOfResults)
           coming == SubSeq(full, m + 1, Len(sent) + 1)
<1>1. Len(sent) \in Nat /\ m \in Nat /\ m <= Len(sent)
  OBVIOUS
<1>2. sent \in Seq(WireLines) /\ EndOfResults \in WireLines
  BY DEF WireLines
<1>3. /\ full \in Seq(WireLines) /\ Len(full) = Len(sent) + 1
      /\ \A i \in 1 .. Len(sent) : full[i] = sent[i]
      /\ full[Len(sent) + 1] = EndOfResults
  BY <1>2, AppendProperties
<1> HIDE DEF full
<1>4. \A i \in m + 1 .. Len(sent) + 1 : full[i] \in WireLines
  <2> TAKE i \in m + 1 .. Len(sent) + 1
  <2>1. i \in 1 .. Len(full)
    BY <1>1, <1>3
  <2> QED
    BY <1>3, <2>1, ElementOfSeq
<1>5. /\ coming \in Seq(WireLines)
      /\ Len(coming) = IF m + 1 <= Len(sent) + 1 THEN Len(sent) + 1 - (m + 1) + 1 ELSE 0
      /\ \A i \in 1 .. Len(sent) + 1 - (m + 1) + 1 : coming[i] = full[m + 1 + i - 1]
  <2>1. m + 1 \in Int /\ Len(sent) + 1 \in Int
    BY <1>1
  <2> QED
    BY <1>4, <2>1, SubSeqProperties
<1> HIDE DEF coming
<1>6. Len(coming) = Len(sent) + 1 - m
  BY <1>1, <1>5
<1>7. ASSUME NEW i \in 1 .. Len(sent) - m PROVE coming[i] = sent[m + i] /\ coming[i] \in Lines
  <2>1. i \in 1 .. Len(sent) + 1 - (m + 1) + 1 /\ m + 1 + i - 1 = m + i /\ m + i \in 1 .. Len(sent)
    BY <1>1
  <2>2. coming[i] = sent[m + i]
    BY <1>3, <1>5, <2>1
  <2>3. sent[m + i] \in Lines
    BY <2>1, ElementOfSeq
  <2> QED
    BY <2>2, <2>3
<1>8. coming[Len(sent) + 1 - m] = EndOfResults
  <2>1. PICK i \in 1 .. Len(sent) + 1 - (m + 1) + 1 : i = Len(sent) + 1 - m /\ m + 1 + i - 1 = Len(sent) + 1
    BY <1>1
  <2>2. coming[i] = full[m + 1 + i - 1]
    BY <1>5
  <2> QED
    BY <1>3, <2>1, <2>2
<1> QED
  BY <1>5, <1>6, <1>7, <1>8 DEF coming, full

\* A read of n of the lines on their way: the end is among them only as the last, and
\* then everything has been heard.
LEMMA ReadOn ==
  ASSUME NEW sent \in Seq(Lines), NEW heard, NEW coming, Hearing(sent, heard, coming),
         NEW n \in 1 .. Len(coming)
  PROVE  LET part == SubSeq(coming, 1, n)
             rest == SubSeq(coming, n + 1, Len(coming))
         IN /\ Last(part) = EndOfResults => heard \o Front(part) = sent
            /\ Last(part) # EndOfResults => Hearing(sent, heard \o part, rest)
<1> DEFINE part == SubSeq(coming, 1, n)
           rest == SubSeq(coming, n + 1, Len(coming))
<1>1. PICK m \in 0 .. Len(sent) :
        /\ heard = SubSeq(sent, 1, m)
        /\ coming = <<>> \/ coming = SubSeq(Append(sent, EndOfResults), m + 1, Len(sent) + 1)
  BY DEF Hearing
<1>2. Len(sent) \in Nat /\ m \in Nat /\ m <= Len(sent) /\ n \in Nat /\ n >= 1
  BY <1>1
<1>3. coming = SubSeq(Append(sent, EndOfResults), m + 1, Len(sent) + 1)
  <2>1. coming # <<>>
    <3>1. Len(<<>>) = 0
      OBVIOUS
    <3> QED
      BY <1>2, <3>1
  <2> QED
    BY <1>1, <2>1
<1>4. /\ coming \in Seq(WireLines) /\ Len(coming) = Len(sent) + 1 - m
      /\ \A i \in 1 .. Len(sent) - m : coming[i] = sent[m + i] /\ coming[i] \in Lines
      /\ coming[Len(sent) + 1 - m] = EndOfResults
  BY <1>3, Coming
<1>5. heard \in Seq(Lines) /\ Len(heard) = m /\ \A i \in 1 .. m : heard[i] = sent[i]
  BY <1>1, HeardSome
<1>6. n <= Len(sent) + 1 - m
  BY <1>4
<1>7. part \in Seq(WireLines) /\ Len(part) = n /\ \A i \in 1 .. n : part[i] = coming[i]
  <2>1. \A i \in 1 .. n : coming[i] \in WireLines
    <3> TAKE i \in 1 .. n
    <3>1. i \in 1 .. Len(coming)
      BY <1>2, <1>4, <1>6
    <3> QED
      BY <1>4, <3>1, ElementOfSeq
  <2>2. /\ part \in Seq(WireLines) /\ Len(part) = IF 1 <= n THEN n - 1 + 1 ELSE 0
        /\ \A i \in 1 .. n - 1 + 1 : part[i] = coming[1 + i - 1]
    BY <1>2, <2>1, SubSeqProperties
  <2> HIDE DEF part
  <2> QED
    BY <1>2, <2>2
<1> HIDE DEF part
<1>8. Last(part) = coming[n]
  BY <1>2, <1>7 DEF Last
<1>9. ASSUME Last(part) = EndOfResults PROVE heard \o Front(part) = sent
  <2>1. n = Len(sent) + 1 - m
    <3>1. n \in 1 .. Len(sent) - m => coming[n] \in Lines
      BY <1>4
    <3> QED
      BY <1>2, <1>6, <1>8, <1>9, <3>1, LineTypes
  <2>2. /\ Front(part) \in Seq(Lines) /\ Len(Front(part)) = n - 1
        /\ \A i \in 1 .. n - 1 : Front(part)[i] = part[i]
    <3>1. \A i \in 1 .. n - 1 : part[i] \in Lines
      <4> TAKE i \in 1 .. n - 1
      <4>1. i \in 1 .. n /\ i \in 1 .. Len(sent) - m
        BY <1>2, <2>1
      <4> QED
        BY <1>4, <1>7, <4>1
    <3>2. n - 1 \in Int /\ 1 \in Int
      BY <1>2
    <3>3. /\ SubSeq(part, 1, n - 1) \in Seq(Lines)
          /\ Len(SubSeq(part, 1, n - 1)) = IF 1 <= n - 1 THEN n - 1 - 1 + 1 ELSE 0
          /\ \A i \in 1 .. n - 1 - 1 + 1 : SubSeq(part, 1, n - 1)[i] = part[1 + i - 1]
      BY <3>1, <3>2, SubSeqProperties
    <3>4. Front(part) = SubSeq(part, 1, n - 1)
      BY <1>7 DEF Front
    <3>5. \A i \in 1 .. n - 1 : i \in 1 .. n - 1 - 1 + 1 /\ 1 + i - 1 = i
      BY <1>2
    <3> QED
      BY <1>2, <3>3, <3>4, <3>5
  <2>3. /\ heard \o Front(part) \in Seq(Lines) /\ Len(heard \o Front(part)) = m + (n - 1)
        /\ \A i \in 1 .. m + (n - 1) :
             (heard \o Front(part))[i] = IF i <= m THEN heard[i] ELSE Front(part)[i - m]
    <3>1. /\ heard \o Front(part) \in Seq(Lines) /\ Len(heard \o Front(part)) = Len(heard) + Len(Front(part))
          /\ \A i \in 1 .. Len(heard) + Len(Front(part)) :
               (heard \o Front(part))[i] = IF i <= Len(heard) THEN heard[i] ELSE Front(part)[i - Len(heard)]
      BY <1>5, <2>2, ConcatProperties, Zenon
    <3> QED
      BY <1>5, <2>2, <3>1, Zenon
  <2>4. m + (n - 1) = Len(sent)
    BY <1>2, <2>1
  <2>5. ASSUME NEW i \in 1 .. Len(sent) PROVE (heard \o Front(part))[i] = sent[i]
    <3>1. i \in Nat /\ i >= 1 /\ i <= Len(sent) /\ i \in 1 .. m + (n - 1)
      BY <2>4
    <3>2. CASE i <= m
      BY <1>2, <1>5, <2>3, <3>1, <3>2
    <3>3. CASE i > m
      <4>1. PICK j \in 1 .. Len(sent) - m : j = i - m /\ m + j = i
        BY <1>2, <3>1, <3>3
      <4>2. j \in 1 .. n - 1 /\ j \in 1 .. n
        BY <1>2, <2>1
      <4>3. Front(part)[j] = coming[j]
        BY <1>7, <2>2, <4>2
      <4>4. coming[j] = sent[i]
        BY <1>4, <4>1
      <4>5. (heard \o Front(part))[i] = Front(part)[j]
        BY <1>2, <2>3, <3>1, <3>3, <4>1
      <4> QED
        BY <4>3, <4>4, <4>5
    <3>4. i <= m \/ i > m
      BY <1>2, <3>1
    <3> QED
      BY <3>2, <3>3, <3>4, Zenon
  <2> QED
    BY <2>3, <2>4, <2>5, SeqEqual
<1>10. ASSUME Last(part) # EndOfResults PROVE Hearing(sent, heard \o part, rest)
  <2>1. n <= Len(sent) - m
    BY <1>2, <1>4, <1>6, <1>8, <1>10
  <2>2. PICK k \in 0 .. Len(sent) : k = m + n
    BY <1>2, <2>1
  <2>3. /\ SubSeq(sent, 1, k) \in Seq(Lines) /\ Len(SubSeq(sent, 1, k)) = k
        /\ \A i \in 1 .. k : SubSeq(sent, 1, k)[i] = sent[i]
    BY HeardSome
  <2>4. part \in Seq(WireLines) /\ heard \in Seq(WireLines) /\ SubSeq(sent, 1, k) \in Seq(WireLines)
    BY <1>5, <1>7, <2>3 DEF WireLines
  <2>5. /\ heard \o part \in Seq(WireLines) /\ Len(heard \o part) = m + n
        /\ \A i \in 1 .. m + n : (heard \o part)[i] = IF i <= m THEN heard[i] ELSE part[i - m]
    BY <1>5, <1>7, <2>4, ConcatProperties
  <2>6. ASSUME NEW i \in 1 .. m + n PROVE (heard \o part)[i] = SubSeq(sent, 1, k)[i]
    <3>1. i \in Nat /\ i >= 1 /\ i <= m + n /\ i \in 1 .. k
      BY <1>2, <2>2
    <3>2. CASE i <= m
      BY <1>2, <1>5, <2>3, <2>5, <3>1, <3>2
    <3>3. CASE i > m
      <4>1. PICK j \in 1 .. n : j = i - m /\ m + j = i
        BY <1>2, <3>1, <3>3
      <4>2. j \in 1 .. Len(sent) - m
        BY <1>2, <2>1
      <4>3. part[j] = sent[i]
        BY <1>4, <1>7, <4>1, <4>2
      <4>4. (heard \o part)[i] = part[j]
        BY <1>2, <2>5, <3>1, <3>3, <4>1
      <4> QED
        BY <2>3, <3>1, <4>3, <4>4
    <3>4. i <= m \/ i > m
      BY <1>2, <3>1
    <3> QED
      BY <3>2, <3>3, <3>4, Zenon
  <2>7. heard \o part = SubSeq(sent, 1, k)
    BY <2>2, <2>3, <2>4, <2>5, <2>6, SeqEqual
  <2>8. LET left == SubSeq(Append(sent, EndOfResults), k + 1, Len(sent) + 1)
        IN /\ left \in Seq(WireLines) /\ Len(left) = Len(sent) + 1 - k
           /\ \A i \in 1 .. Len(sent) - k : left[i] = sent[k + i] /\ left[i] \in Lines
           /\ left[Len(sent) + 1 - k] = EndOfResults
    BY Coming
  <2> DEFINE left == SubSeq(Append(sent, EndOfResults), k + 1, Len(sent) + 1)
  <2>9. /\ rest \in Seq(WireLines) /\ Len(rest) = Len(sent) + 1 - k
        /\ \A i \in 1 .. Len(sent) + 1 - k : rest[i] = coming[n + i]
    <3>1. \A i \in n + 1 .. Len(coming) : coming[i] \in WireLines
      <4> TAKE i \in n + 1 .. Len(coming)
      <4>1. i \in 1 .. Len(coming)
        BY <1>2, <1>4
      <4> QED
        BY <1>4, <4>1, ElementOfSeq
    <3>2. n + 1 \in Int /\ Len(coming) \in Int
      BY <1>2, <1>4
    <3>3. /\ rest \in Seq(WireLines)
          /\ Len(rest) = IF n + 1 <= Len(coming) THEN Len(coming) - (n + 1) + 1 ELSE 0
          /\ \A i \in 1 .. Len(coming) - (n + 1) + 1 : rest[i] = coming[n + 1 + i - 1]
      BY <3>1, <3>2, SubSeqProperties
    <3> HIDE DEF rest
    <3>4. Len(coming) - (n + 1) + 1 = Len(sent) + 1 - k /\ n + 1 <= Len(coming)
      BY <1>2, <1>4, <2>1, <2>2
    <3>5. \A i \in 1 .. Len(sent) + 1 - k : n + 1 + i - 1 = n + i
      BY <1>2, <2>2
    <3> QED
      BY <3>3, <3>4, <3>5
  <2> HIDE DEF left, rest
  <2>10. ASSUME NEW i \in 1 .. Len(sent) + 1 - k PROVE rest[i] = left[i]
    <3>1. i \in Nat /\ i >= 1 /\ i <= Len(sent) + 1 - k /\ k \in Nat
      BY <1>2, <2>2
    <3>2. rest[i] = coming[n + i]
      BY <2>9
    <3>3. CASE i = Len(sent) + 1 - k
      <4>1. n + i = Len(sent) + 1 - m
        BY <1>2, <2>2, <3>1, <3>3
      <4>2. left[i] = EndOfResults
        BY <2>8, <3>3 DEF left
      <4> QED
        BY <1>4, <3>2, <4>1, <4>2
    <3>4. CASE i # Len(sent) + 1 - k
      <4>1. i \in 1 .. Len(sent) - k
        BY <1>2, <2>2, <3>1, <3>4
      <4>2. PICK j \in 1 .. Len(sent) - m : j = n + i /\ m + j = k + i
        BY <1>2, <2>2, <3>1, <4>1
      <4>3. coming[j] = sent[k + i]
        BY <1>4, <4>2
      <4>4. left[i] = sent[k + i]
        BY <2>8, <4>1 DEF left
      <4> QED
        BY <3>2, <4>2, <4>3, <4>4
    <3> QED
      BY <3>3, <3>4
  <2>11. rest = left
    <3>1. left \in Seq(WireLines) /\ Len(left) = Len(sent) + 1 - k
      BY <2>8 DEF left
    <3> QED
      BY <2>9, <2>10, <3>1, SeqEqual
  <2> QED
    BY <2>2, <2>7, <2>11 DEF Hearing, left
<1> QED
  BY <1>9, <1>10 DEF part, rest

\* So a broker that has heard something has heard the first lines of what was sent.
LEMMA HearingIsPart ==
  ASSUME NEW sent \in Seq(Lines), NEW heard
  PROVE  /\ \A coming : Hearing(sent, heard, coming) => HeardPart(sent, heard)
         /\ heard = sent => HeardPart(sent, heard)
         /\ HeardPart(sent, heard) => heard \in Seq(Lines)
<1>1. sent = SubSeq(sent, 1, Len(sent)) /\ Len(sent) \in 0 .. Len(sent)
  OBVIOUS
<1>2. heard = sent => HeardPart(sent, heard)
  BY <1>1 DEF HeardPart
<1>3. HeardPart(sent, heard) => heard \in Seq(Lines)
  BY HeardSome DEF HeardPart
<1>4. \A coming : Hearing(sent, heard, coming) => HeardPart(sent, heard)
  BY DEF Hearing, HeardPart
<1> QED
  BY <1>2, <1>3, <1>4

-----------------------------------------------------------------------------
(* The invariant *)

Found == UNION {Matches(w) : w \in Workers}

TypeOK ==
  /\ phase \in [Requests -> {"none", "accepted", "asking", "answered"}]
  /\ http \in [Requests -> HttpRequests \cup {[path |-> "none"]}]
  /\ response \in [Requests -> [status : Nat, results : Seq(Lines)]]
  /\ fetch \in [Requests -> [Workers -> {"none", "connect", "read", "done"}]]
  /\ received \in [Requests -> [Workers -> Seq(Lines)]]
  /\ wire \in [Requests -> [Workers -> Seq(WireLines)]]
  /\ backlog \in [Workers -> Seq(Requests \cup {Stranger})]
  /\ serving \in [Workers -> Seq(Requests \cup {Stranger})]
  /\ matches \in [Workers -> Seq(Seq(Seq(Found)))]
  /\ strangers \in Nat
  /\ late \in [Requests -> SUBSET Workers]

\* The worker w has the connection of r before it.
Waiting(r, w) == serving[w] = <<r>> \/ \E a \in 1 .. Len(backlog[w]) : backlog[w][a] = r

\* What the thread of r that asks w has heard.
Link(r, w) ==
  /\ fetch[r][w] # "none" => http[r] \in Queries
  /\ fetch[r][w] \in {"none", "connect"} => received[r][w] = <<>> /\ wire[r][w] = <<>> /\ ~Waiting(r, w)
  /\ fetch[r][w] = "read" => Hearing(Sent(http[r], w), received[r][w], wire[r][w])
  /\ fetch[r][w] = "read" /\ Waiting(r, w) => received[r][w] = <<>> /\ wire[r][w] = <<>>
  /\ fetch[r][w] = "done" => /\ HeardPart(Sent(http[r], w), received[r][w])
                             /\ w \in late[r] \/ received[r][w] = Sent(http[r], w)

\* The thread of r itself.
Broker(r) ==
  /\ phase[r] \in {"none", "accepted"} => \A w \in Workers : fetch[r][w] = "none"
  /\ phase[r] # "none" => http[r] \in HttpRequests
  /\ phase[r] = "asking" => http[r] \in Queries
  /\ Answered(r) => /\ \A w \in Workers : fetch[r][w] = "done"
                    /\ response[r].results = BestOfAll(K(http[r]), received[r])

\* The connections of w, and what its threads have found for the one in its hand.
Node(w) ==
  /\ serving[w] # <<>> => serving[w] = <<Head(serving[w])>> /\ Head(serving[w]) \in Requests \cup {Stranger}
  /\ \A a, b \in 1 .. Len(backlog[w]) : a # b /\ backlog[w][a] = backlog[w][b] => backlog[w][a] = Stranger
  /\ \A a \in 1 .. Len(backlog[w]) : serving[w] = <<backlog[w][a]>> => backlog[w][a] = Stranger
  /\ \A r \in Requests : serving[w] = <<r>> =>
       /\ DOMAIN matches[w] = DOMAIN Chunks[w]
       /\ \A i \in DOMAIN Chunks[w] : matches[w][i] = <<>> \/ matches[w][i] = <<Search[http[r]][w][i]>>

Inv ==
  /\ TypeOK
  /\ \A r \in Requests : Broker(r)
  /\ \A r \in Requests : \A w \in Workers : Link(r, w)
  /\ \A w \in Workers : Node(w)

LEMMA LinkStays ==
  ASSUME NEW r \in Requests, NEW w \in Workers, Link(r, w),
         http'[r] = http[r] \/ fetch[r][w] = "none",
         fetch'[r][w] = fetch[r][w], received'[r][w] = received[r][w], wire'[r][w] = wire[r][w],
         w \in late[r] => w \in late'[r], Waiting(r, w)' => Waiting(r, w)
  PROVE  Link(r, w)'
<1>1. CASE fetch[r][w] = "none"
  BY <1>1 DEF Link
<1>2. CASE fetch[r][w] # "none"
  <2>1. http'[r] = http[r] /\ Sent(http[r], w)' = Sent(http[r], w)
    BY <1>2 DEF Sent
  <2> QED
    BY <2>1 DEF Link
<1> QED
  BY <1>1, <1>2

LEMMA BrokerStays ==
  ASSUME NEW r \in Requests, Broker(r), phase'[r] = phase[r], http'[r] = http[r],
         response'[r] = response[r], fetch'[r] = fetch[r], received'[r] = received[r]
  PROVE  Broker(r)'
BY DEF Broker, Answered

\* Nothing that a thread of r does while it asks concerns the thread of r itself.
LEMMA BrokerWaits ==
  ASSUME NEW r \in Requests, NEW w \in Workers, Broker(r), fetch[r][w] \in {"connect", "read"},
         phase'[r] = phase[r], http'[r] = http[r]
  PROVE  Broker(r)'
BY DEF Broker, Answered

LEMMA NodeStays ==
  ASSUME NEW w \in Workers, Node(w), backlog'[w] = backlog[w], serving'[w] = serving[w],
         matches'[w] = matches[w], \A r \in Requests : serving[w] = <<r>> => http'[r] = http[r]
  PROVE  Node(w)'
<1>1. \A r \in Requests : serving'[w] = <<r>> =>
       /\ DOMAIN matches'[w] = DOMAIN Chunks[w]
       /\ \A i \in DOMAIN Chunks[w] : matches'[w][i] = <<>> \/ matches'[w][i] = <<Search[http'[r]][w][i]>>
  BY DEF Node
<1> QED
  BY <1>1 DEF Node

\* A worker's queue is what it was.
LEMMA WaitingStays ==
  ASSUME NEW r, NEW w, backlog'[w] = backlog[w], serving'[w] = serving[w]
  PROVE  Waiting(r, w)' => Waiting(r, w)
BY DEF Waiting

LEMMA InitInv == Init => Inv
<1> SUFFICES ASSUME Init PROVE Inv
  OBVIOUS
<1>1. \A r \in Requests, w \in Workers : fetch[r][w] = "none" /\ received[r][w] = <<>> /\ wire[r][w] = <<>>
  BY DEF Init, ForAll
<1>2. \A w \in Workers : backlog[w] = <<>> /\ serving[w] = <<>>
  BY DEF Init
<1>3. Len(<<>>) = 0
  OBVIOUS
<1>4. \A r \in Requests, w \in Workers : ~Waiting(r, w)
  BY <1>2, <1>3 DEF Waiting
<1>5. \A r \in Requests : \A w \in Workers : Link(r, w)
  BY <1>1, <1>4 DEF Link
<1>6. \A r \in Requests : Broker(r)
  BY <1>1 DEF Init, Broker, Answered
<1>7. \A w \in Workers : Node(w)
  BY <1>2, <1>3 DEF Node
<1>8. TypeOK
  <2>1. \A S : <<>> \in Seq(S)
    OBVIOUS
  <2>2. ForAll(<<>>) \in [Requests -> [Workers -> Seq(Lines)]] /\ ForAll(<<>>) \in [Requests -> [Workers -> Seq(WireLines)]]
    BY <2>1 DEF ForAll
  <2>3. ForAll("none") \in [Requests -> [Workers -> {"none", "connect", "read", "done"}]]
    BY DEF ForAll
  <2>4. response \in [Requests -> [status : Nat, results : Seq(Lines)]]
    BY <2>1 DEF Init
  <2>5. /\ backlog \in [Workers -> Seq(Requests \cup {Stranger})]
        /\ serving \in [Workers -> Seq(Requests \cup {Stranger})]
        /\ matches \in [Workers -> Seq(Seq(Seq(Found)))]
    BY <2>1 DEF Init
  <2>6. /\ phase \in [Requests -> {"none", "accepted", "asking", "answered"}]
        /\ http \in [Requests -> HttpRequests \cup {[path |-> "none"]}]
        /\ strangers \in Nat /\ late \in [Requests -> SUBSET Workers]
    BY DEF Init
  <2> QED
    BY <2>2, <2>3, <2>4, <2>5, <2>6 DEF Init, TypeOK
<1> QED
  BY <1>5, <1>6, <1>7, <1>8 DEF Inv

LEMMA AcceptInv == ASSUME Inv, NEW c \in Requests, Accept(c) PROVE Inv'
<1>1. /\ phase[c] = "none" /\ phase' = [phase EXCEPT ![c] = "accepted"]
      /\ UNCHANGED <<response, fetch, received, wire, backlog, serving, matches, strangers, late>>
  BY DEF Accept, workerVars
<1>2. PICK h \in HttpRequests : http' = [http EXCEPT ![c] = h]
  BY DEF Accept
<1>3. \A w \in Workers : fetch[c][w] = "none" /\ ~Waiting(c, w)
  <2> TAKE w \in Workers
  <2>1. fetch[c][w] = "none"
    BY <1>1 DEF Inv, Broker
  <2> QED
    BY <2>1 DEF Inv, Link
<1>4. \A r \in Requests : r # c => http'[r] = http[r] /\ phase'[r] = phase[r]
  BY <1>1, <1>2
<1>5. phase'[c] = "accepted" /\ http'[c] = h
  BY <1>1, <1>2 DEF Inv, TypeOK
<1>6. TypeOK'
  <2>1. phase' \in [Requests -> {"none", "accepted", "asking", "answered"}]
    BY <1>1 DEF Inv, TypeOK
  <2>2. http' \in [Requests -> HttpRequests \cup {[path |-> "none"]}]
    BY <1>2 DEF Inv, TypeOK
  <2> QED
    BY <1>1, <2>1, <2>2 DEF Inv, TypeOK
<1>7. ASSUME NEW r \in Requests PROVE Broker(r)'
  <2>1. CASE r = c
    BY <1>1, <1>3, <1>5, <2>1 DEF Broker, Answered
  <2>2. CASE r # c
    BY <1>1, <1>4, <2>2, BrokerStays DEF Inv
  <2> QED
    BY <2>1, <2>2
<1>8. ASSUME NEW r \in Requests, NEW w \in Workers PROVE Link(r, w)'
  <2>1. http'[r] = http[r] \/ fetch[r][w] = "none"
    BY <1>3, <1>4
  <2>2. Waiting(r, w)' => Waiting(r, w)
    BY <1>1, WaitingStays
  <2> QED
    BY <1>1, <2>1, <2>2, LinkStays DEF Inv
<1>9. ASSUME NEW w \in Workers PROVE Node(w)'
  <2>1. \A r \in Requests : serving[w] = <<r>> => http'[r] = http[r]
    BY <1>3, <1>4 DEF Waiting
  <2> QED
    BY <1>1, <2>1, NodeStays DEF Inv
<1> QED
  BY <1>6, <1>7, <1>8, <1>9 DEF Inv

LEMMA HandleFrontendInv == ASSUME Inv, NEW c \in Requests, HandleFrontend(c) PROVE Inv'
<1>1. /\ phase[c] = "accepted" /\ phase' = [phase EXCEPT ![c] = "answered"]
      /\ UNCHANGED <<http, fetch, received, wire, backlog, serving, matches, strangers, late>>
  BY DEF HandleFrontend, Answer, workerVars
<1>2. PICK status \in Nat : response' = [response EXCEPT ![c] = [status |-> status, results |-> <<>>]]
  BY DEF HandleFrontend, Answer
<1>3. ~(IsQuery(http[c]) /\ ~http[c].file)
  BY DEF HandleFrontend, IsQuery
<1>4. TypeOK'
  <2>1. phase' \in [Requests -> {"none", "accepted", "asking", "answered"}]
    BY <1>1 DEF Inv, TypeOK
  <2>2. [status |-> status, results |-> <<>>] \in [status : Nat, results : Seq(Lines)]
    OBVIOUS
  <2>3. response' \in [Requests -> [status : Nat, results : Seq(Lines)]]
    BY <1>2, <2>2 DEF Inv, TypeOK
  <2> QED
    BY <1>1, <2>1, <2>3 DEF Inv, TypeOK
<1>5. ASSUME NEW r \in Requests PROVE Broker(r)'
  <2>1. CASE r = c
    <3>1. phase'[c] = "answered" /\ http'[c] = http[c] /\ http[c] \in HttpRequests
      BY <1>1 DEF Inv, TypeOK, Broker
    <3> QED
      BY <1>3, <2>1, <3>1 DEF Broker, Answered
  <2>2. CASE r # c
    <3>1. phase'[r] = phase[r] /\ response'[r] = response[r]
      BY <1>1, <1>2, <2>2
    <3> QED
      BY <1>1, <3>1, BrokerStays DEF Inv
  <2> QED
    BY <2>1, <2>2
<1>6. ASSUME NEW r \in Requests, NEW w \in Workers PROVE Link(r, w)'
  <2>1. Waiting(r, w)' => Waiting(r, w)
    BY <1>1, WaitingStays
  <2> QED
    BY <1>1, <2>1, LinkStays DEF Inv
<1>7. \A w \in Workers : Node(w)'
  BY <1>1, NodeStays DEF Inv
<1> QED
  BY <1>4, <1>5, <1>6, <1>7 DEF Inv

LEMMA StartThreadsInv == ASSUME Inv, NEW c \in Requests, StartThreads(c) PROVE Inv'
<1>1. /\ phase[c] = "accepted" /\ IsQuery(http[c]) /\ phase' = [phase EXCEPT ![c] = "asking"]
      /\ fetch' = [fetch EXCEPT ![c] = [w \in Workers |-> "connect"]]
      /\ UNCHANGED <<http, response, received, wire, backlog, serving, matches, strangers, late>>
  BY DEF StartThreads, workerVars
<1>2. http[c] \in Queries
  BY <1>1 DEF Inv, Broker, Queries
<1>3. phase'[c] = "asking" /\ \A w \in Workers : fetch'[c][w] = "connect"
  BY <1>1 DEF Inv, TypeOK
<1>4. \A r \in Requests : r # c => phase'[r] = phase[r] /\ fetch'[r] = fetch[r]
  BY <1>1
<1>5. TypeOK'
  <2>1. phase' \in [Requests -> {"none", "accepted", "asking", "answered"}]
    BY <1>1 DEF Inv, TypeOK
  <2>2. fetch' \in [Requests -> [Workers -> {"none", "connect", "read", "done"}]]
    BY <1>1 DEF Inv, TypeOK
  <2> QED
    BY <1>1, <2>1, <2>2 DEF Inv, TypeOK
<1>6. ASSUME NEW r \in Requests PROVE Broker(r)'
  <2>1. CASE r = c
    BY <1>1, <1>2, <1>3, <2>1 DEF Broker, Answered, Queries
  <2>2. CASE r # c
    BY <1>1, <1>4, <2>2, BrokerStays DEF Inv
  <2> QED
    BY <2>1, <2>2
<1>7. ASSUME NEW r \in Requests, NEW w \in Workers PROVE Link(r, w)'
  <2>1. Waiting(r, w)' => Waiting(r, w)
    BY <1>1, WaitingStays
  <2>2. CASE r = c
    <3>1. fetch[c][w] = "none"
      BY <1>1 DEF Inv, Broker
    <3>2. received[c][w] = <<>> /\ wire[c][w] = <<>> /\ ~Waiting(c, w)
      BY <3>1 DEF Inv, Link
    <3> QED
      BY <1>1, <1>2, <1>3, <2>1, <2>2, <3>2 DEF Link
  <2>3. CASE r # c
    BY <1>1, <1>4, <2>1, <2>3, LinkStays DEF Inv
  <2> QED
    BY <2>2, <2>3
<1>8. \A w \in Workers : Node(w)'
  BY <1>1, NodeStays DEF Inv
<1> QED
  BY <1>5, <1>6, <1>7, <1>8 DEF Inv

\* What the broker has when all threads of a request have ended.
LEMMA AllHeard ==
  ASSUME Inv, NEW r \in Requests, http[r] \in Queries, \A w \in Workers : fetch[r][w] = "done"
  PROVE  HeardOf(http[r], received[r], late[r])
<1>1. received[r] \in [Workers -> Seq(Lines)] /\ late[r] \subseteq Workers
  BY DEF Inv, TypeOK
<1>2. ASSUME NEW w \in Workers
      PROVE  \E n \in 0 .. Len(Sent(http[r], w)) :
               /\ received[r][w] = SubSeq(Sent(http[r], w), 1, n)
               /\ w \in late[r] \/ n = Len(Sent(http[r], w))
  <2>1. /\ HeardPart(Sent(http[r], w), received[r][w])
        /\ w \in late[r] \/ received[r][w] = Sent(http[r], w)
    BY DEF Inv, Link
  <2>2. Sent(http[r], w) \in Seq(Lines)
    BY LinesSent
  <2>3. CASE w \in late[r]
    BY <2>1, <2>3 DEF HeardPart
  <2>4. CASE received[r][w] = Sent(http[r], w)
    <3>1. /\ Len(Sent(http[r], w)) \in 0 .. Len(Sent(http[r], w))
          /\ SubSeq(Sent(http[r], w), 1, Len(Sent(http[r], w))) = Sent(http[r], w)
      BY <2>2
    <3> QED
      BY <2>4, <3>1
  <2> QED
    BY <2>1, <2>3, <2>4
<1> QED
  BY <1>1, <1>2 DEF HeardOf

LEMMA MergeInv == ASSUME Inv, NEW c \in Requests, Merge(c) PROVE Inv'
<1> DEFINE best == BestOfAll(K(http[c]), received[c])
<1>1. /\ phase[c] = "asking" /\ phase' = [phase EXCEPT ![c] = "answered"]
      /\ \A w \in Workers : fetch[c][w] = "done"
      /\ response' = [response EXCEPT ![c] = [status |-> 200, results |-> best]]
      /\ UNCHANGED <<http, fetch, received, wire, backlog, serving, matches, strangers, late>>
  BY DEF Merge, Answer, workerVars
<1>2. http[c] \in Queries
  BY <1>1 DEF Inv, Broker
<1>3. best \in Seq(Lines)
  BY <1>1, <1>2, AllHeard, MergedIsBest
<1>4. /\ phase'[c] = "answered" /\ response'[c].results = best
      /\ \A r \in Requests : r # c => phase'[r] = phase[r] /\ response'[r] = response[r]
  BY <1>1 DEF Inv, TypeOK
<1>5. best = BestOfAll(K(http'[c]), received'[c])
  BY <1>1
<1> HIDE DEF best
<1>6. TypeOK'
  <2>1. phase' \in [Requests -> {"none", "accepted", "asking", "answered"}]
    BY <1>1 DEF Inv, TypeOK
  <2>2. response' \in [Requests -> [status : Nat, results : Seq(Lines)]]
    <3>1. [status |-> 200, results |-> best] \in [status : Nat, results : Seq(Lines)]
      BY <1>3
    <3> QED
      BY <1>1, <3>1 DEF Inv, TypeOK
  <2> QED
    BY <1>1, <2>1, <2>2 DEF Inv, TypeOK
<1>7. ASSUME NEW r \in Requests PROVE Broker(r)'
  <2>1. CASE r = c
    <3>1. http'[c] \in HttpRequests /\ \A w \in Workers : fetch'[c][w] = "done"
      BY <1>1, <1>2 DEF Queries
    <3> QED
      BY <1>4, <1>5, <2>1, <3>1 DEF Broker
  <2>2. CASE r # c
    BY <1>1, <1>4, <2>2, BrokerStays DEF Inv
  <2> QED
    BY <2>1, <2>2
<1>8. ASSUME NEW r \in Requests, NEW w \in Workers PROVE Link(r, w)'
  <2>1. Waiting(r, w)' => Waiting(r, w)
    BY <1>1, WaitingStays
  <2> QED
    BY <1>1, <2>1, LinkStays DEF Inv
<1>9. \A w \in Workers : Node(w)'
  BY <1>1, NodeStays DEF Inv
<1> QED
  BY <1>6, <1>7, <1>8, <1>9 DEF Inv

\* A connection at the end of a backlog.
LEMMA QueueAppends ==
  ASSUME NEW w \in Workers, NEW s \in Requests \cup {Stranger}, backlog[w] \in Seq(Requests \cup {Stranger}),
         backlog'[w] = Append(backlog[w], s), serving'[w] = serving[w]
  PROVE  /\ Len(backlog[w]) \in Nat /\ Len(backlog'[w]) = Len(backlog[w]) + 1
         /\ \A a \in 1 .. Len(backlog[w]) : backlog'[w][a] = backlog[w][a]
         /\ backlog'[w][Len(backlog[w]) + 1] = s
         /\ \A r \in Requests : r # s /\ Waiting(r, w)' => Waiting(r, w)
<1>1. /\ Len(backlog[w]) \in Nat /\ Len(backlog'[w]) = Len(backlog[w]) + 1
      /\ \A a \in 1 .. Len(backlog[w]) : backlog'[w][a] = backlog[w][a]
      /\ backlog'[w][Len(backlog[w]) + 1] = s
  BY AppendProperties
<1>2. ASSUME NEW r \in Requests, r # s, Waiting(r, w)' PROVE Waiting(r, w)
  <2>1. CASE serving'[w] = <<r>>
    BY <2>1 DEF Waiting
  <2>2. CASE \E a \in 1 .. Len(backlog'[w]) : backlog'[w][a] = r
    <3>1. PICK a \in 1 .. Len(backlog'[w]) : backlog'[w][a] = r
      BY <2>2
    <3>2. a # Len(backlog[w]) + 1
      BY <1>1, <1>2, <3>1
    <3>3. a \in 1 .. Len(backlog[w])
      BY <1>1, <3>1, <3>2
    <3> QED
      BY <1>1, <3>1, <3>3 DEF Waiting
  <2> QED
    BY <1>2, <2>1, <2>2 DEF Waiting
<1> QED
  BY <1>1, <1>2

LEMMA NodeAppends ==
  ASSUME NEW w \in Workers, NEW s \in Requests \cup {Stranger}, backlog[w] \in Seq(Requests \cup {Stranger}),
         backlog'[w] = Append(backlog[w], s), serving'[w] = serving[w], matches'[w] = matches[w], http' = http,
         Node(w), s = Stranger \/ ~Waiting(s, w)
  PROVE  Node(w)'
<1>1. /\ Len(backlog[w]) \in Nat /\ Len(backlog'[w]) = Len(backlog[w]) + 1
      /\ \A a \in 1 .. Len(backlog[w]) : backlog'[w][a] = backlog[w][a]
      /\ backlog'[w][Len(backlog[w]) + 1] = s
  BY QueueAppends
<1>2. ASSUME NEW a \in 1 .. Len(backlog'[w])
      PROVE  /\ a \in 1 .. Len(backlog[w]) \/ a = Len(backlog[w]) + 1
             /\ a = Len(backlog[w]) + 1 => backlog'[w][a] = s
  BY <1>1
<1>3. s # Stranger => serving[w] # <<s>> /\ \A a \in 1 .. Len(backlog[w]) : backlog[w][a] # s
  BY DEF Waiting
<1>4. ASSUME NEW a \in 1 .. Len(backlog'[w]), NEW b \in 1 .. Len(backlog'[w]), a # b, backlog'[w][a] = backlog'[w][b]
      PROVE  backlog'[w][a] = Stranger
  <2>1. CASE a \in 1 .. Len(backlog[w]) /\ b \in 1 .. Len(backlog[w])
    BY <1>1, <1>4, <2>1 DEF Node
  <2>2. CASE a = Len(backlog[w]) + 1 /\ b \in 1 .. Len(backlog[w])
    BY <1>1, <1>3, <1>4, <2>2
  <2>3. CASE b = Len(backlog[w]) + 1 /\ a \in 1 .. Len(backlog[w])
    BY <1>1, <1>3, <1>4, <2>3
  <2> QED
    BY <1>2, <1>4, <2>1, <2>2, <2>3
<1>5. ASSUME NEW a \in 1 .. Len(backlog'[w]), serving'[w] = <<backlog'[w][a]>> PROVE backlog'[w][a] = Stranger
  <2>1. CASE a \in 1 .. Len(backlog[w])
    BY <1>1, <1>5, <2>1 DEF Node
  <2>2. CASE a = Len(backlog[w]) + 1
    BY <1>1, <1>3, <1>5, <2>2
  <2> QED
    BY <1>2, <2>1, <2>2
<1>6. \A r \in Requests : serving'[w] = <<r>> =>
       /\ DOMAIN matches'[w] = DOMAIN Chunks[w]
       /\ \A i \in DOMAIN Chunks[w] : matches'[w][i] = <<>> \/ matches'[w][i] = <<Search[http'[r]][w][i]>>
  BY DEF Node
<1> QED
  BY <1>4, <1>5, <1>6 DEF Node

LEMMA ConnectInv == ASSUME Inv, NEW c \in Requests, NEW v \in Workers, Connect(c, v) PROVE Inv'
<1>1. /\ fetch[c][v] = "connect"
      /\ UNCHANGED <<phase, http, response, received, wire, serving, matches, strangers>>
  BY DEF Connect
<1>2. received[c][v] = <<>> /\ wire[c][v] = <<>> /\ ~Waiting(c, v) /\ http[c] \in Queries
  BY <1>1 DEF Inv, Link
<1>3. Sent(http[c], v) \in Seq(Lines)
  BY <1>2, LinesSent
<1>4. Hearing(Sent(http[c], v), <<>>, <<>>)
  <2>1. 0 \in 0 .. Len(Sent(http[c], v)) /\ SubSeq(Sent(http[c], v), 1, 0) = <<>>
    BY <1>3
  <2> QED
    BY <2>1 DEF Hearing
<1>5. HeardPart(Sent(http[c], v), <<>>)
  BY <1>3, <1>4, HearingIsPart
<1>6. Sent(http[c], v)' = Sent(http[c], v)
  BY <1>1 DEF Sent
<1>7. \A r \in Requests : Broker(r)'
  <2> TAKE r \in Requests
  <2>1. CASE r = c
    BY <1>1, <2>1, BrokerWaits DEF Inv
  <2>2. CASE r # c
    <3>1. fetch'[r] = fetch[r]
      BY <2>2 DEF Connect, Inv, TypeOK
    <3> QED
      BY <1>1, <3>1, BrokerStays DEF Inv
  <2> QED
    BY <2>1, <2>2
<1>8. CASE /\ fetch' = [fetch EXCEPT ![c][v] = "read"]
           /\ backlog' = [backlog EXCEPT ![v] = Append(@, c)] /\ UNCHANGED late
  <2>1. /\ fetch'[c][v] = "read" /\ backlog'[v] = Append(backlog[v], c)
        /\ \A r \in Requests, w \in Workers : r # c \/ w # v => fetch'[r][w] = fetch[r][w]
        /\ \A w \in Workers : w # v => backlog'[w] = backlog[w]
    BY <1>8 DEF Inv, TypeOK
  <2>2. backlog[v] \in Seq(Requests \cup {Stranger})
    BY DEF Inv, TypeOK
  <2>3. TypeOK'
    <3>1. fetch' \in [Requests -> [Workers -> {"none", "connect", "read", "done"}]]
      BY <1>8 DEF Inv, TypeOK
    <3>2. Append(backlog[v], c) \in Seq(Requests \cup {Stranger})
      BY <2>2, AppendProperties
    <3>3. backlog' \in [Workers -> Seq(Requests \cup {Stranger})]
      BY <1>8, <3>2 DEF Inv, TypeOK
    <3> QED
      BY <1>1, <1>8, <3>1, <3>3 DEF Inv, TypeOK
  <2>4. ASSUME NEW r \in Requests, NEW w \in Workers PROVE Link(r, w)'
    <3>1. CASE r = c /\ w = v
      BY <1>1, <1>2, <1>4, <1>6, <2>1, <3>1 DEF Link
    <3>2. CASE r # c \/ w # v
      <4>1. Waiting(r, w)' => Waiting(r, w)
        <5>1. CASE w # v
          BY <1>1, <2>1, <5>1, WaitingStays
        <5>2. CASE w = v
          BY <1>1, <2>1, <2>2, <3>2, <5>2, QueueAppends
        <5> QED
          BY <5>1, <5>2
      <4> QED
        BY <1>1, <1>8, <2>1, <3>2, <4>1, LinkStays DEF Inv
    <3> QED
      BY <3>1, <3>2
  <2>5. ASSUME NEW w \in Workers PROVE Node(w)'
    <3>1. CASE w = v
      BY <1>1, <1>2, <2>1, <2>2, <3>1, NodeAppends DEF Inv
    <3>2. CASE w # v
      BY <1>1, <2>1, <3>2, NodeStays DEF Inv
    <3> QED
      BY <3>1, <3>2
  <2> QED
    BY <1>7, <2>3, <2>4, <2>5 DEF Inv
<1>9. CASE /\ fetch' = [fetch EXCEPT ![c][v] = "done"]
           /\ late' = [late EXCEPT ![c] = @ \cup {v}] /\ UNCHANGED backlog
  <2>1. /\ fetch'[c][v] = "done" /\ v \in late'[c]
        /\ \A r \in Requests, w \in Workers : r # c \/ w # v => fetch'[r][w] = fetch[r][w]
        /\ \A r \in Requests : \A w \in late[r] : w \in late'[r]
    BY <1>9 DEF Inv, TypeOK
  <2>2. TypeOK'
    <3>1. fetch' \in [Requests -> [Workers -> {"none", "connect", "read", "done"}]]
      BY <1>9 DEF Inv, TypeOK
    <3>2. late' \in [Requests -> SUBSET Workers]
      BY <1>9 DEF Inv, TypeOK
    <3> QED
      BY <1>1, <1>9, <3>1, <3>2 DEF Inv, TypeOK
  <2>3. ASSUME NEW r \in Requests, NEW w \in Workers PROVE Link(r, w)'
    <3>1. CASE r = c /\ w = v
      BY <1>1, <1>2, <1>5, <1>6, <2>1, <3>1 DEF Link
    <3>2. CASE r # c \/ w # v
      <4>1. Waiting(r, w)' => Waiting(r, w)
        BY <1>1, <1>9, WaitingStays
      <4> QED
        BY <1>1, <2>1, <3>2, <4>1, LinkStays DEF Inv
    <3> QED
      BY <3>1, <3>2
  <2>4. \A w \in Workers : Node(w)'
    BY <1>1, <1>9, NodeStays DEF Inv
  <2> QED
    BY <1>7, <2>2, <2>3, <2>4 DEF Inv
<1> QED
  BY <1>8, <1>9 DEF Connect

LEMMA ReadInv == ASSUME Inv, NEW c \in Requests, NEW v \in Workers, Read(c, v) PROVE Inv'
<1>1. PICK n \in 1 .. Len(wire[c][v]) :
       LET part == SubSeq(wire[c][v], 1, n)
           ends == Last(part) = EndOfResults
       IN /\ received' = [received EXCEPT ![c][v] = @ \o (IF ends THEN Front(part) ELSE part)]
          /\ wire' = [wire EXCEPT ![c][v] = SubSeq(@, n + 1, Len(@))]
          /\ fetch' = [fetch EXCEPT ![c][v] = IF ends THEN "done" ELSE "read"]
  BY DEF Read
<1> DEFINE part == SubSeq(wire[c][v], 1, n)
           rest == SubSeq(wire[c][v], n + 1, Len(wire[c][v]))
           more == IF Last(part) = EndOfResults THEN Front(part) ELSE part
           state == IF Last(part) = EndOfResults THEN "done" ELSE "read"
           heard == received[c][v] \o more
           sent == Sent(http[c], v)
<1>2. /\ received' = [received EXCEPT ![c][v] = heard] /\ wire' = [wire EXCEPT ![c][v] = rest]
      /\ fetch' = [fetch EXCEPT ![c][v] = state]
  BY <1>1
<1>3. /\ fetch[c][v] = "read"
      /\ UNCHANGED <<phase, http, response, backlog, serving, matches, strangers, late>>
  BY DEF Read, workerVars
<1>4. http[c] \in Queries /\ Hearing(sent, received[c][v], wire[c][v])
  BY <1>3 DEF Inv, Link
<1>5. sent \in Seq(Lines)
  BY <1>4, LinesSent
<1>6. /\ Last(part) = EndOfResults => received[c][v] \o Front(part) = sent
      /\ Last(part) # EndOfResults => Hearing(sent, received[c][v] \o part, rest)
  BY <1>4, <1>5, ReadOn
<1>7. wire[c][v] \in Seq(WireLines) /\ wire[c][v] # <<>> /\ n \in Nat /\ n + 1 > 1
  <2>1. wire[c][v] \in Seq(WireLines)
    BY DEF Inv, TypeOK
  <2>2. Len(<<>>) = 0 /\ Len(wire[c][v]) \in Nat
    BY <2>1
  <2>3. n \in Nat /\ n >= 1 /\ Len(wire[c][v]) # 0
    BY <2>2
  <2> QED
    BY <2>1, <2>2, <2>3
<1>8. ~Waiting(c, v)
  BY <1>3, <1>7 DEF Inv, Link
<1>9. rest \in Seq(WireLines)
  <2>1. \A i \in n + 1 .. Len(wire[c][v]) : wire[c][v][i] \in WireLines
    <3> TAKE i \in n + 1 .. Len(wire[c][v])
    <3>1. i \in 1 .. Len(wire[c][v])
      BY <1>7
    <3> QED
      BY <1>7, <3>1, ElementOfSeq
  <2>2. n + 1 \in Int /\ Len(wire[c][v]) \in Int
    BY <1>7
  <2> QED
    BY <2>1, <2>2, SubSeqProperties
<1>10. /\ state = "done" => heard = sent
       /\ state # "done" => state = "read" /\ Hearing(sent, heard, rest)
  BY <1>6
<1>11. heard \in Seq(Lines) /\ HeardPart(sent, heard)
  <2> HIDE DEF heard, sent, rest, state
  <2> QED
    BY <1>5, <1>10, HearingIsPart
<1>12. sent = Sent(http'[c], v)
  BY <1>3
<1> HIDE DEF heard, rest, state, part, more, sent
<1>13. state \in {"read", "done"}
  BY <1>10
<1>14. /\ fetch'[c][v] = state /\ received'[c][v] = heard /\ wire'[c][v] = rest
       /\ \A r \in Requests : \A w \in Workers : r # c \/ w # v =>
            fetch'[r][w] = fetch[r][w] /\ received'[r][w] = received[r][w] /\ wire'[r][w] = wire[r][w]
       /\ \A r \in Requests : r # c => fetch'[r] = fetch[r] /\ received'[r] = received[r]
  BY <1>2 DEF Inv, TypeOK
<1>15. TypeOK'
  <2>1. fetch' \in [Requests -> [Workers -> {"none", "connect", "read", "done"}]]
    BY <1>2, <1>13 DEF Inv, TypeOK
  <2>2. received' \in [Requests -> [Workers -> Seq(Lines)]]
    BY <1>2, <1>11 DEF Inv, TypeOK
  <2>3. wire' \in [Requests -> [Workers -> Seq(WireLines)]]
    BY <1>2, <1>9 DEF Inv, TypeOK
  <2> QED
    BY <1>3, <2>1, <2>2, <2>3 DEF Inv, TypeOK
<1>16. ASSUME NEW r \in Requests PROVE Broker(r)'
  <2>1. CASE r = c
    BY <1>3, <2>1, BrokerWaits DEF Inv
  <2>2. CASE r # c
    BY <1>3, <1>14, <2>2, BrokerStays DEF Inv
  <2> QED
    BY <2>1, <2>2
<1>17. ASSUME NEW r \in Requests, NEW w \in Workers PROVE Link(r, w)'
  <2>1. Waiting(r, w)' => Waiting(r, w)
    BY <1>3, WaitingStays
  <2>2. CASE r = c /\ w = v
    <3>1. http'[c] \in Queries /\ ~Waiting(c, v)'
      BY <1>3, <1>4, <1>8, <2>1, <2>2
    <3> QED
      BY <1>10, <1>11, <1>12, <1>13, <1>14, <2>2, <3>1 DEF Link
  <2>3. CASE r # c \/ w # v
    BY <1>3, <1>14, <2>1, <2>3, LinkStays DEF Inv
  <2> QED
    BY <2>2, <2>3
<1>18. \A w \in Workers : Node(w)'
  BY <1>3, NodeStays DEF Inv
<1> QED
  BY <1>15, <1>16, <1>17, <1>18 DEF Inv

LEMMA TimeOutInv == ASSUME Inv, NEW c \in Requests, NEW v \in Workers, TimeOut(c, v) PROVE Inv'
<1>1. /\ fetch[c][v] = "read" /\ fetch' = [fetch EXCEPT ![c][v] = "done"]
      /\ wire' = [wire EXCEPT ![c][v] = <<>>] /\ late' = [late EXCEPT ![c] = @ \cup {v}]
      /\ UNCHANGED <<phase, http, response, received, backlog, serving, matches, strangers>>
  BY DEF TimeOut, workerVars
<1>2. http[c] \in Queries /\ Hearing(Sent(http[c], v), received[c][v], wire[c][v])
  BY <1>1 DEF Inv, Link
<1>3. HeardPart(Sent(http[c], v), received[c][v])
  BY <1>2, LinesSent, HearingIsPart
<1>4. Sent(http[c], v)' = Sent(http[c], v)
  BY <1>1 DEF Sent
<1>5. /\ fetch'[c][v] = "done" /\ v \in late'[c]
      /\ \A r \in Requests : \A w \in Workers : r # c \/ w # v =>
           fetch'[r][w] = fetch[r][w] /\ wire'[r][w] = wire[r][w]
      /\ \A r \in Requests : r # c => fetch'[r] = fetch[r]
      /\ \A r \in Requests : \A w \in late[r] : w \in late'[r]
  BY <1>1 DEF Inv, TypeOK
<1>6. TypeOK'
  <2>1. fetch' \in [Requests -> [Workers -> {"none", "connect", "read", "done"}]]
    BY <1>1 DEF Inv, TypeOK
  <2>2. wire' \in [Requests -> [Workers -> Seq(WireLines)]]
    <3>1. <<>> \in Seq(WireLines)
      OBVIOUS
    <3> QED
      BY <1>1, <3>1 DEF Inv, TypeOK
  <2>3. late' \in [Requests -> SUBSET Workers]
    BY <1>1 DEF Inv, TypeOK
  <2> QED
    BY <1>1, <2>1, <2>2, <2>3 DEF Inv, TypeOK
<1>7. ASSUME NEW r \in Requests PROVE Broker(r)'
  <2>1. CASE r = c
    BY <1>1, <2>1, BrokerWaits DEF Inv
  <2>2. CASE r # c
    BY <1>1, <1>5, <2>2, BrokerStays DEF Inv
  <2> QED
    BY <2>1, <2>2
<1>8. ASSUME NEW r \in Requests, NEW w \in Workers PROVE Link(r, w)'
  <2>1. Waiting(r, w)' => Waiting(r, w)
    BY <1>1, WaitingStays
  <2>2. CASE r = c /\ w = v
    BY <1>1, <1>2, <1>3, <1>4, <1>5, <2>2 DEF Link
  <2>3. CASE r # c \/ w # v
    BY <1>1, <1>5, <2>1, <2>3, LinkStays DEF Inv
  <2> QED
    BY <2>2, <2>3
<1>9. \A w \in Workers : Node(w)'
  BY <1>1, NodeStays DEF Inv
<1> QED
  BY <1>6, <1>7, <1>8, <1>9 DEF Inv

LEMMA StrangerConnectsInv == ASSUME Inv, NEW v \in Workers, StrangerConnects(v) PROVE Inv'
<1>1. /\ strangers' = strangers + 1 /\ backlog' = [backlog EXCEPT ![v] = Append(@, Stranger)]
      /\ UNCHANGED <<phase, http, response, fetch, received, wire, serving, matches, late>>
  BY DEF StrangerConnects
<1>2. /\ backlog[v] \in Seq(Requests \cup {Stranger}) /\ backlog'[v] = Append(backlog[v], Stranger)
      /\ \A w \in Workers : w # v => backlog'[w] = backlog[w]
  BY <1>1 DEF Inv, TypeOK
<1>3. TypeOK'
  <2>1. Append(backlog[v], Stranger) \in Seq(Requests \cup {Stranger})
    BY <1>2, AppendProperties
  <2>2. backlog' \in [Workers -> Seq(Requests \cup {Stranger})]
    BY <1>1, <2>1 DEF Inv, TypeOK
  <2>3. strangers' \in Nat
    BY <1>1 DEF Inv, TypeOK
  <2> QED
    BY <1>1, <2>2, <2>3 DEF Inv, TypeOK
<1>4. \A r \in Requests : Broker(r)'
  BY <1>1, BrokerStays DEF Inv
<1>5. ASSUME NEW r \in Requests, NEW w \in Workers PROVE Link(r, w)'
  <2>1. Waiting(r, w)' => Waiting(r, w)
    <3>1. CASE w # v
      BY <1>1, <1>2, <3>1, WaitingStays
    <3>2. CASE w = v
      <4>1. r # Stranger
        BY ChunksAssumption
      <4> QED
        BY <1>1, <1>2, <3>2, <4>1, QueueAppends
    <3> QED
      BY <3>1, <3>2
  <2> QED
    BY <1>1, <2>1, LinkStays DEF Inv
<1>6. ASSUME NEW w \in Workers PROVE Node(w)'
  <2>1. CASE w = v
    BY <1>1, <1>2, <2>1, NodeAppends DEF Inv
  <2>2. CASE w # v
    BY <1>1, <1>2, <2>2, NodeStays DEF Inv
  <2> QED
    BY <2>1, <2>2
<1> QED
  BY <1>3, <1>4, <1>5, <1>6 DEF Inv

LEMMA AcceptMasterInv == ASSUME Inv, NEW v \in Workers, AcceptMaster(v) PROVE Inv'
<1> DEFINE s == Head(backlog[v])
           empty == [i \in DOMAIN Chunks[v] |-> <<>>]
<1>1. /\ serving[v] = <<>> /\ backlog[v] # <<>> /\ serving' = [serving EXCEPT ![v] = <<s>>]
      /\ backlog' = [backlog EXCEPT ![v] = Tail(@)] /\ matches' = [matches EXCEPT ![v] = empty]
      /\ UNCHANGED <<phase, http, response, fetch, received, wire, strangers, late>>
  BY DEF AcceptMaster
<1>2. /\ serving'[v] = <<s>> /\ backlog'[v] = Tail(backlog[v]) /\ matches'[v] = empty
      /\ \A w \in Workers : w # v => serving'[w] = serving[w] /\ backlog'[w] = backlog[w] /\ matches'[w] = matches[w]
  BY <1>1 DEF Inv, TypeOK
<1>3. backlog[v] \in Seq(Requests \cup {Stranger})
  BY DEF Inv, TypeOK
<1>4. /\ s \in Requests \cup {Stranger} /\ Tail(backlog[v]) \in Seq(Requests \cup {Stranger})
      /\ Len(Tail(backlog[v])) = Len(backlog[v]) - 1
      /\ \A a \in 1 .. Len(Tail(backlog[v])) : Tail(backlog[v])[a] = backlog[v][a + 1]
  BY <1>1, <1>3, HeadTailProperties
<1>5. Len(backlog[v]) \in Nat /\ 1 \in 1 .. Len(backlog[v]) /\ s = backlog[v][1]
  BY <1>1, <1>3
<1>6. \A a \in 1 .. Len(backlog'[v]) : /\ a + 1 \in 1 .. Len(backlog[v]) /\ a + 1 # 1
                                       /\ backlog'[v][a] = backlog[v][a + 1]
  BY <1>2, <1>4, <1>5
<1> HIDE DEF s
<1>7. empty \in Seq(Seq(Seq(Found))) /\ DOMAIN empty = DOMAIN Chunks[v]
      /\ \A i \in DOMAIN Chunks[v] : empty[i] = <<>>
  <2>1. \A i \in DOMAIN Chunks[v] : <<>> \in Seq(Seq(Found))
    OBVIOUS
  <2>2. empty \in [1 .. Len(Chunks[v]) -> Seq(Seq(Found))] /\ Len(Chunks[v]) \in Nat
    BY <2>1, ChunkTypes
  <2>3. DOMAIN empty = DOMAIN Chunks[v] /\ \A i \in DOMAIN Chunks[v] : empty[i] = <<>>
    OBVIOUS
  <2> HIDE DEF empty
  <2>4. empty \in Seq(Seq(Seq(Found)))
    BY <2>2, IsASeq
  <2> QED
    BY <2>3, <2>4
<1> HIDE DEF empty
<1>8. TypeOK'
  <2>1. <<s>> \in Seq(Requests \cup {Stranger})
    BY <1>4
  <2>2. serving' \in [Workers -> Seq(Requests \cup {Stranger})]
    BY <1>1, <2>1 DEF Inv, TypeOK
  <2>3. backlog' \in [Workers -> Seq(Requests \cup {Stranger})]
    BY <1>1, <1>4 DEF Inv, TypeOK
  <2>4. matches' \in [Workers -> Seq(Seq(Seq(Found)))]
    BY <1>1, <1>7 DEF Inv, TypeOK
  <2> QED
    BY <1>1, <2>2, <2>3, <2>4 DEF Inv, TypeOK
<1>9. \A r \in Requests : Broker(r)'
  BY <1>1, BrokerStays DEF Inv
<1>10. ASSUME NEW r \in Requests, NEW w \in Workers PROVE Link(r, w)'
  <2>1. Waiting(r, w)' => Waiting(r, w)
    <3>1. CASE w # v
      BY <1>2, <3>1, WaitingStays
    <3>2. CASE w = v
      <4>1. serving'[v] = <<r>> => backlog[v][1] = r
        BY <1>2, <1>5
      <4>2. \A a \in 1 .. Len(backlog'[v]) : backlog'[v][a] = r => \E b \in 1 .. Len(backlog[v]) : backlog[v][b] = r
        BY <1>6
      <4> QED
        BY <1>5, <3>2, <4>1, <4>2 DEF Waiting
    <3> QED
      BY <3>1, <3>2
  <2> QED
    BY <1>1, <2>1, LinkStays DEF Inv
<1>11. ASSUME NEW w \in Workers PROVE Node(w)'
  <2>1. CASE w # v
    BY <1>1, <1>2, <2>1, NodeStays DEF Inv
  <2>2. CASE w = v
    <3>1. Node(v)
      BY DEF Inv
    <3>2. \A a, b \in 1 .. Len(backlog'[v]) : a # b /\ backlog'[v][a] = backlog'[v][b] => backlog'[v][a] = Stranger
      <4> TAKE a, b \in 1 .. Len(backlog'[v])
      <4> HAVE a # b /\ backlog'[v][a] = backlog'[v][b]
      <4>1. PICK i \in 1 .. Len(backlog[v]) : i = a + 1 /\ backlog'[v][a] = backlog[v][i]
        BY <1>6
      <4>2. PICK j \in 1 .. Len(backlog[v]) : j = b + 1 /\ backlog'[v][b] = backlog[v][j]
        BY <1>6
      <4>3. i # j
        BY <4>1, <4>2
      <4> QED
        BY <3>1, <4>1, <4>2, <4>3 DEF Node
    <3>3. \A a \in 1 .. Len(backlog'[v]) : serving'[v] = <<backlog'[v][a]>> => backlog'[v][a] = Stranger
      <4> TAKE a \in 1 .. Len(backlog'[v])
      <4> HAVE serving'[v] = <<backlog'[v][a]>>
      <4>1. PICK i \in 1 .. Len(backlog[v]) : i # 1 /\ backlog'[v][a] = backlog[v][i]
        BY <1>6
      <4>2. backlog[v][i] = backlog[v][1]
        BY <1>2, <1>5, <4>1
      <4> QED
        BY <1>5, <3>1, <4>1, <4>2 DEF Node
    <3>4. serving'[v] = <<Head(serving'[v])>> /\ Head(serving'[v]) \in Requests \cup {Stranger}
      BY <1>2, <1>4
    <3>5. \A r \in Requests : serving'[v] = <<r>> =>
            /\ DOMAIN matches'[v] = DOMAIN Chunks[v]
            /\ \A i \in DOMAIN Chunks[v] : matches'[v][i] = <<>> \/ matches'[v][i] = <<Search[http'[r]][v][i]>>
      BY <1>2, <1>7
    <3> QED
      BY <2>2, <3>2, <3>3, <3>4, <3>5 DEF Node
  <2> QED
    BY <2>1, <2>2
<1> QED
  BY <1>8, <1>9, <1>10, <1>11 DEF Inv

\* A worker that serves somebody other than a stranger serves a request.
LEMMA ServedIsRequest ==
  ASSUME Inv, NEW w \in Workers, serving[w] # <<>>, serving[w] # <<Stranger>>
  PROVE  /\ Head(serving[w]) \in Requests /\ serving[w] = <<Head(serving[w])>>
         /\ fetch[Head(serving[w])][w] \in {"read", "done"} /\ http[Head(serving[w])] \in Queries
<1>1. serving[w] = <<Head(serving[w])>> /\ Head(serving[w]) \in Requests \cup {Stranger}
  BY DEF Inv, Node
<1>2. Head(serving[w]) \in Requests
  BY <1>1
<1>3. Waiting(Head(serving[w]), w)
  BY <1>1 DEF Waiting
<1>4. /\ fetch[Head(serving[w])][w] \in {"none", "connect", "read", "done"}
      /\ Link(Head(serving[w]), w)
  BY <1>2 DEF Inv, TypeOK
<1> QED
  BY <1>1, <1>2, <1>3, <1>4 DEF Link

LEMMA SearchChunkInv ==
  ASSUME Inv, NEW v \in Workers, NEW c \in DOMAIN Chunks[v], SearchChunk(v, c) PROVE Inv'
<1> DEFINE q == Head(serving[v])
           found == Search[http[q]][v][c]
<1>1. /\ serving[v] # <<>> /\ serving[v] # <<Stranger>>
      /\ matches' = [matches EXCEPT ![v][c] = <<found>>]
      /\ UNCHANGED <<phase, http, response, fetch, received, wire, backlog, serving, strangers, late>>
  BY DEF SearchChunk
<1>2. q \in Requests /\ serving[v] = <<q>> /\ http[q] \in Queries
  BY <1>1, ServedIsRequest
<1>3. found \in Seq(Found)
  <2>1. found \in Seq(Matches(v))
    BY <1>2, ChunkAnswers
  <2>2. Matches(v) \subseteq Found
    BY DEF Found
  <2> QED
    BY <2>1, <2>2, SeqMonotonic
<1> HIDE DEF found
<1>4. /\ matches'[v] = [matches[v] EXCEPT ![c] = <<found>>]
      /\ \A w \in Workers : w # v => matches'[w] = matches[w]
  BY <1>1 DEF Inv, TypeOK
<1>5. /\ DOMAIN matches[v] = DOMAIN Chunks[v]
      /\ \A i \in DOMAIN Chunks[v] : matches[v][i] = <<>> \/ matches[v][i] = <<Search[http[q]][v][i]>>
  BY <1>2 DEF Inv, Node
<1>6. TypeOK'
  <2>1. matches[v] \in Seq(Seq(Seq(Found))) /\ <<found>> \in Seq(Seq(Found))
    BY <1>3 DEF Inv, TypeOK
  <2>2. c \in 1 .. Len(matches[v])
    BY <1>5, <2>1
  <2>3. [matches[v] EXCEPT ![c] = <<found>>] \in Seq(Seq(Seq(Found)))
    BY <2>1, <2>2, ExceptSeq
  <2>4. matches' \in [Workers -> Seq(Seq(Seq(Found)))]
    <3>1. matches' = [matches EXCEPT ![v] = [matches[v] EXCEPT ![c] = <<found>>]]
      BY <1>1
    <3> QED
      BY <2>3, <3>1 DEF Inv, TypeOK
  <2> QED
    BY <1>1, <2>4 DEF Inv, TypeOK
<1>7. \A r \in Requests : Broker(r)'
  BY <1>1, BrokerStays DEF Inv
<1>8. ASSUME NEW r \in Requests, NEW w \in Workers PROVE Link(r, w)'
  <2>1. Waiting(r, w)' => Waiting(r, w)
    BY <1>1, WaitingStays
  <2> QED
    BY <1>1, <2>1, LinkStays DEF Inv
<1>9. ASSUME NEW w \in Workers PROVE Node(w)'
  <2>1. CASE w # v
    BY <1>1, <1>4, <2>1, NodeStays DEF Inv
  <2>2. CASE w = v
    <3>1. ASSUME NEW r \in Requests, serving'[v] = <<r>>
          PROVE  /\ DOMAIN matches'[v] = DOMAIN Chunks[v]
                 /\ \A i \in DOMAIN Chunks[v] : matches'[v][i] = <<>> \/ matches'[v][i] = <<Search[http'[r]][v][i]>>
      <4>1. r = q
        BY <1>1, <1>2, <3>1
      <4>2. \A i \in DOMAIN Chunks[v] : matches'[v][i] = IF i = c THEN <<found>> ELSE matches[v][i]
        BY <1>4, <1>5
      <4>3. DOMAIN matches'[v] = DOMAIN Chunks[v]
        BY <1>4, <1>5
      <4>4. found = Search[http'[r]][v][c] /\ http' = http
        BY <1>1, <4>1 DEF found
      <4> QED
        BY <1>5, <4>1, <4>2, <4>3, <4>4
    <3> QED
      BY <1>1, <2>2, <3>1 DEF Inv, Node
  <2> QED
    BY <2>1, <2>2
<1> QED
  BY <1>6, <1>7, <1>8, <1>9 DEF Inv

LEMMA ReplyInv == ASSUME Inv, NEW v \in Workers, Reply(v) PROVE Inv'
<1>0. PICK q \in Requests : q = Head(serving[v]) /\ serving[v] = <<q>> /\ http[q] \in Queries
  <2>1. serving[v] # <<>> /\ serving[v] # <<Stranger>>
    BY DEF Reply
  <2> QED
    BY <2>1, ServedIsRequest
<1> DEFINE best == WorkerBest(K(http[q]), [i \in DOMAIN Chunks[v] |-> Head(matches[v][i])])
           lines == [n \in DOMAIN best |-> Line(v, best[n])]
           sent == Sent(http[q], v)
           full == Append(sent, EndOfResults)
<1>1. /\ serving[v] # <<>> /\ serving[v] # <<Stranger>> /\ \A i \in DOMAIN Chunks[v] : matches[v][i] # <<>>
      /\ wire' = IF fetch[q][v] = "read" THEN [wire EXCEPT ![q][v] = Append(lines, EndOfResults)] ELSE wire
      /\ serving' = [serving EXCEPT ![v] = <<>>] /\ matches' = [matches EXCEPT ![v] = <<>>]
      /\ UNCHANGED <<phase, http, response, fetch, received, backlog, strangers, late>>
  BY <1>0 DEF Reply
<1>2. q \in Requests /\ serving[v] = <<q>> /\ http[q] \in Queries
  BY <1>0
<1>3. lines = sent
  <2>1. \A i \in DOMAIN Chunks[v] : matches[v][i] = <<Search[http[q]][v][i]>>
    BY <1>1, <1>2 DEF Inv, Node
  <2>2. \A i \in DOMAIN Chunks[v] : Head(matches[v][i]) = Search[http[q]][v][i]
    BY <2>1
  <2>3. Search[http[q]][v] = [i \in DOMAIN Chunks[v] |-> Search[http[q]][v][i]]
    BY <1>2 DEF Search, Queries
  <2>4. [i \in DOMAIN Chunks[v] |-> Head(matches[v][i])] = Search[http[q]][v]
    BY <2>2, <2>3
  <2>5. best = WorkerBest(K(http[q]), Search[http[q]][v])
    BY <2>4
  <2> QED
    BY <2>5 DEF Sent
<1>4. sent \in Seq(Lines)
  BY <1>2, LinesSent
<1> HIDE DEF lines, best
<1>5. wire' = IF fetch[q][v] = "read" THEN [wire EXCEPT ![q][v] = full] ELSE wire
  BY <1>1, <1>3
<1> HIDE DEF sent
<1>6. full \in Seq(WireLines)
  <2>1. sent \in Seq(WireLines) /\ EndOfResults \in WireLines
    BY <1>4 DEF WireLines
  <2> QED
    BY <2>1, AppendProperties
<1>7. Hearing(sent, <<>>, full)
  <2>1. /\ 0 \in 0 .. Len(sent) /\ SubSeq(sent, 1, 0) = <<>> /\ 0 + 1 = 1 /\ Len(full) = Len(sent) + 1
    BY <1>4
  <2>2. full = SubSeq(full, 1, Len(full))
    BY <1>6
  <2>3. full = SubSeq(Append(sent, EndOfResults), 0 + 1, Len(sent) + 1)
    BY <2>1, <2>2
  <2> QED
    BY <2>1, <2>3 DEF Hearing
<1> HIDE DEF full
<1>8. /\ serving'[v] = <<>>
      /\ \A w \in Workers : w # v => serving'[w] = serving[w] /\ matches'[w] = matches[w]
  BY <1>1 DEF Inv, TypeOK
<1>9. \A r \in Requests, w \in Workers : r # q \/ w # v => wire'[r][w] = wire[r][w]
  BY <1>5 DEF Inv, TypeOK
<1>10. ASSUME NEW r \in Requests, NEW w \in Workers PROVE Waiting(r, w)' => Waiting(r, w)
  <2>1. serving'[w] = <<r>> => serving[w] = <<r>>
    BY <1>8
  <2> QED
    BY <1>1, <2>1 DEF Waiting
<1>11. ~Waiting(q, v)'
  <2>1. \A a \in 1 .. Len(backlog[v]) : backlog[v][a] # q
    <3>1. q # Stranger
      BY <1>2, ChunksAssumption
    <3> QED
      BY <1>2, <3>1 DEF Inv, Node
  <2> QED
    BY <1>1, <1>8, <2>1 DEF Waiting
<1>12. TypeOK'
  <2>1. <<>> \in Seq(Requests \cup {Stranger}) /\ <<>> \in Seq(Seq(Seq(Found)))
    OBVIOUS
  <2>2. serving' \in [Workers -> Seq(Requests \cup {Stranger})]
    BY <1>1, <2>1 DEF Inv, TypeOK
  <2>3. matches' \in [Workers -> Seq(Seq(Seq(Found)))]
    BY <1>1, <2>1 DEF Inv, TypeOK
  <2>4. wire' \in [Requests -> [Workers -> Seq(WireLines)]]
    BY <1>5, <1>6 DEF Inv, TypeOK
  <2> QED
    BY <1>1, <2>2, <2>3, <2>4 DEF Inv, TypeOK
<1>13. \A r \in Requests : Broker(r)'
  BY <1>1, BrokerStays DEF Inv
<1>14. ASSUME NEW r \in Requests, NEW w \in Workers PROVE Link(r, w)'
  <2>1. CASE r # q \/ w # v \/ fetch[r][w] # "read"
    <3>1. wire'[r][w] = wire[r][w]
      BY <1>5, <1>9, <2>1
    <3> QED
      BY <1>1, <1>10, <3>1, LinkStays DEF Inv
  <2>2. CASE r = q /\ w = v /\ fetch[r][w] = "read"
    <3>1. wire'[q][v] = full
      BY <1>2, <1>5, <2>2 DEF Inv, TypeOK
    <3>2. Waiting(q, v)
      BY <1>2 DEF Waiting
    <3>3. received[q][v] = <<>>
      BY <2>2, <3>2 DEF Inv, Link
    <3>4. sent = Sent(http'[q], v)
      BY <1>1 DEF sent
    <3> QED
      BY <1>1, <1>2, <1>7, <1>11, <2>2, <3>1, <3>3, <3>4 DEF Link
  <2> QED
    BY <2>1, <2>2
<1>15. ASSUME NEW w \in Workers PROVE Node(w)'
  <2>1. CASE w # v
    BY <1>1, <1>8, <2>1, NodeStays DEF Inv
  <2>2. CASE w = v
    <3>1. \A x : serving'[v] # <<x>>
      BY <1>8
    <3>2. \A a, b \in 1 .. Len(backlog'[v]) : a # b /\ backlog'[v][a] = backlog'[v][b] => backlog'[v][a] = Stranger
      BY <1>1 DEF Inv, Node
    <3> QED
      BY <1>8, <2>2, <3>1, <3>2 DEF Node
  <2> QED
    BY <2>1, <2>2
<1> QED
  BY <1>12, <1>13, <1>14, <1>15 DEF Inv

LEMMA StepInv == Inv /\ [Next]_vars => Inv'
<1> SUFFICES ASSUME Inv, [Next]_vars PROVE Inv'
  OBVIOUS
<1>1. CASE \E r \in Requests : Accept(r)
  BY <1>1, AcceptInv
<1>2. CASE \E r \in Requests : HandleFrontend(r) \/ StartThreads(r) \/ Merge(r)
  BY <1>2, HandleFrontendInv, StartThreadsInv, MergeInv
<1>3. CASE \E r \in Requests : \E w \in Workers : Connect(r, w) \/ Read(r, w) \/ TimeOut(r, w)
  BY <1>3, ConnectInv, ReadInv, TimeOutInv
<1>4. CASE \E w \in Workers : AcceptMaster(w) \/ Reply(w) \/ StrangerConnects(w)
  BY <1>4, AcceptMasterInv, ReplyInv, StrangerConnectsInv
<1>5. CASE \E w \in Workers : \E i \in DOMAIN Chunks[w] : SearchChunk(w, i)
  BY <1>5, SearchChunkInv
<1>6. CASE UNCHANGED vars
  <2>1. UNCHANGED <<phase, http, response, fetch, received, wire, backlog, serving, matches, strangers, late>>
    BY <1>6 DEF vars, workerVars
  <2>2. \A r \in Requests : Broker(r)'
    BY <2>1, BrokerStays DEF Inv
  <2>3. \A r \in Requests : \A w \in Workers : Link(r, w)'
    BY <2>1, WaitingStays, LinkStays DEF Inv
  <2>4. \A w \in Workers : Node(w)'
    BY <2>1, NodeStays DEF Inv
  <2>5. TypeOK'
    BY <2>1 DEF Inv, TypeOK
  <2> QED
    BY <2>2, <2>3, <2>4, <2>5 DEF Inv
<1> QED
  BY <1>1, <1>2, <1>3, <1>4, <1>5, <1>6 DEF Next, BrokerThread, WorkerNode

\* An answer that is made of what was heard is the best of it.
LEMMA InvAnswers == Inv => AnswerIsBest
<1> SUFFICES ASSUME Inv, NEW r \in Requests, Answered(r)
             PROVE  LET h == http[r]
                        results == response[r].results
                    IN /\ IsBest(results, K(h), LineOf, Matching(h, Workers), Matching(h, Workers \ late[r]))
                       /\ \A i, j \in DOMAIN results :
                            i # j => results[i].url # results[j].url \/ results[i].url = "none"
  BY DEF AnswerIsBest
<1> DEFINE best == BestOfAll(K(http[r]), received[r])
<1>1. (\A w \in Workers : fetch[r][w] = "done") /\ response[r].results = best
  BY DEF Inv, Broker
<1>2. http[r] \in Queries
  BY DEF Inv, Broker, Answered, Queries
<1>3. /\ best \in Seq(Lines)
      /\ IsBest(best, K(http[r]), LineOf, Matching(http[r], Workers), Matching(http[r], Workers \ late[r]))
  BY <1>1, <1>2, AllHeard, MergedIsBest
<1>4. \A i, j \in DOMAIN best : i # j => best[i].url # best[j].url \/ best[i].url = "none"
  BY <1>3, NoUrlTwice
<1> QED
  BY <1>1, <1>3, <1>4

\* Every state that broker and workers reach is of this shape: what a thread of the
\* broker has read is the first lines of what the worker sends for this query, the
\* rest is on its way, not yet made or lost with the connection, and no request is in
\* a worker's queue twice (fetch_from_worker, handle_master_connection).
THEOREM ServingShape == Spec => []Inv
BY InitInv, StepInv, PTL DEF Spec

\* Whatever workers are up to, every answer of the broker is the best k of the
\* documents that match, over all chunks of all workers that were heard to the end,
\* although each chunk, each worker and the broker cut to k on their own and a score
\* is rounded on its way; and no URL is in it twice (fetch_from_worker,
\* handle_frontend, handle_master_connection, GlobalTopKHeap).
THEOREM AnswersAreBest == Spec => []AnswerIsBest
<1>1. Spec => []Inv
  BY ServingShape
<1> QED
  BY <1>1, InvAnswers, PTL
=============================================================================
