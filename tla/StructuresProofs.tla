-------------------------- MODULE StructuresProofs --------------------------
(***************************************************************************)
(* Proofs about the sequential data structures: the tables, for trees of   *)
(* every shape, size and set of keys and for every number of rhashtable    *)
(* entries; the list containers, for every number of nodes and all values; *)
(* and the growing string, for every GROW, all texts and capacities.       *)
(*                                                                         *)
(* The models walk along trees, rings and strings with recursive           *)
(* functions.  What such a function computes is proved here by the least   *)
(* argument for which it would be wrong (Least), and that it exists by     *)
(* giving one or by making a longer one from a shorter one.                *)
(***************************************************************************)
EXTENDS MCStructures, FiniteSetTheorems, WellFoundedInduction, TLAPS

(* Every set of natural numbers that is not empty has a least element.     *)
LEMMA Least ==
  ASSUME NEW S, S \subseteq Nat, S # {}
  PROVE  \E n \in S : \A m \in S : n =< m
<1> DEFINE R == OpToRel(<, Nat)
<1>1. IsWellFoundedOn(R, Nat)
  BY NatLessThanWellFounded
<1>2. \A i, j \in Nat : i < j => <<i, j>> \in R
  BY DEF OpToRel
<1> HIDE DEF R
<1>3. PICK n \in S : \A m \in S : ~(<<m, n>> \in R)
  BY <1>1, WFMin
<1>4. ASSUME NEW m \in S PROVE n =< m
  <2>1. m \in Nat /\ n \in Nat
    OBVIOUS
  <2>2. ~(m < n)
    BY <1>2, <1>3, <2>1
  <2> QED
    BY <2>1, <2>2
<1> QED
  BY <1>4, Zenon

-----------------------------------------------------------------------------
(* The descent of search_node and insert_node, for one key.                *)
IsDescent(d, key) ==
  d = [p \in (1 .. T!Entries + 1) \X (0 .. T!Entries) |->
        IF p[1] > p[2] THEN {[found |-> FALSE, at |-> p[1]]}
        ELSE UNION {IF key < order[r].key THEN d[<<p[1], r - 1>>]
                    ELSE IF key > order[r].key THEN d[<<r + 1, p[2]>>]
                    ELSE {[found |-> TRUE, at |-> r]} : r \in p[1] .. p[2]}]

(* T!descend is such a descent, if there is one.                           *)
LEMMA DescendIs ==
  ASSUME NEW key, \E d : IsDescent(d, key)
  PROVE  \E d : IsDescent(d, key) /\ T!descend(key) = d[<<1, T!Entries>>]
<1> DEFINE g == CHOOSE d : d = [p \in (1 .. T!Entries + 1) \X (0 .. T!Entries) |->
        IF p[1] > p[2] THEN {[found |-> FALSE, at |-> p[1]]}
        ELSE UNION {IF key < order[r].key THEN d[<<p[1], r - 1>>]
                    ELSE IF key > order[r].key THEN d[<<r + 1, p[2]>>]
                    ELSE {[found |-> TRUE, at |-> r]} : r \in p[1] .. p[2]}]
<1>1. IsDescent(g, key)
  BY Zenon DEF IsDescent
<1>2. T!descend(key) = g[<<1, T!Entries>>]
  BY Zenon DEF T!descend
<1> QED
  BY <1>1, <1>2

(* Below root r.                                                           *)
Below(d, key, lo, hi, r) ==
  IF key < order[r].key THEN d[<<lo, r - 1>>]
  ELSE IF key > order[r].key THEN d[<<r + 1, hi>>]
  ELSE {[found |-> TRUE, at |-> r]}

(* What a descent through the places lo to hi comes to: the gap, or what   *)
(* lies below one of the roots.                                            *)
LEMMA Unfold ==
  ASSUME NEW key, NEW d, IsDescent(d, key), Len(order) \in Nat,
         NEW lo \in 1 .. T!Entries + 1, NEW hi \in 0 .. T!Entries
  PROVE  \A x \in d[<<lo, hi>>] :
           IF lo > hi THEN x = [found |-> FALSE, at |-> lo]
           ELSE \E r \in lo .. hi : x \in Below(d, key, lo, hi, r)
<1> DEFINE D == (1 .. T!Entries + 1) \X (0 .. T!Entries)
           V(p) == IF p[1] > p[2] THEN {[found |-> FALSE, at |-> p[1]]}
                   ELSE UNION {IF key < order[r].key THEN d[<<p[1], r - 1>>]
                               ELSE IF key > order[r].key THEN d[<<r + 1, p[2]>>]
                               ELSE {[found |-> TRUE, at |-> r]} : r \in p[1] .. p[2]}
<1>1. <<lo, hi>> \in D
  OBVIOUS
<1>2. <<lo, hi>>[1] = lo /\ <<lo, hi>>[2] = hi
  OBVIOUS
<1>3. d = [p \in D |-> V(p)]
  BY Zenon DEF IsDescent
<1>4. d[<<lo, hi>>] = V(<<lo, hi>>)
  <2> HIDE DEF D, V
  <2> QED BY <1>1, <1>3
<1> QED
  <2> SUFFICES ASSUME NEW x \in d[<<lo, hi>>]
               PROVE  IF lo > hi THEN x = [found |-> FALSE, at |-> lo]
                      ELSE \E r \in lo .. hi : x \in Below(d, key, lo, hi, r)
    OBVIOUS
  <2>1. d[<<lo, hi>>] = IF lo > hi THEN {[found |-> FALSE, at |-> lo]}
                        ELSE UNION {Below(d, key, lo, hi, r) : r \in lo .. hi}
    BY <1>2, <1>4, Zenon DEF Below
  <2>2. CASE lo > hi
    BY <2>1, <2>2
  <2>3. CASE ~(lo > hi)
    BY <2>1, <2>3, Zenon
  <2> QED
    BY <2>2, <2>3

(* The keys in order, as numbers.                                          *)
Sorted ==
  /\ Len(order) \in Nat
  /\ \A i \in 1 .. Len(order) : order[i].key \in Int
  /\ \A i, j \in 1 .. Len(order) : i < j => order[i].key < order[j].key

(* Where a descent between lo and hi may end: at the key, or where the key *)
(* belongs.                                                                *)
Belongs(key, m, lo, hi) ==
  /\ \A i \in lo .. m - 1 : order[i].key < key
  /\ \A i \in m .. hi : order[i].key > key
Ends(key, lo, hi) ==
  {[found |-> TRUE, at |-> k] : k \in {k \in lo .. hi : order[k].key = key}}
    \cup {[found |-> FALSE, at |-> m] : m \in {m \in lo .. hi + 1 : Belongs(key, m, lo, hi)}}

(* Where a descent that steps down from the root r may end.                *)
EndsUnder(key, lo, hi, r) ==
  IF key < order[r].key THEN Ends(key, lo, r - 1)
  ELSE IF key > order[r].key THEN Ends(key, r + 1, hi)
  ELSE {[found |-> TRUE, at |-> r]}

(* A step down from any root does not lead astray.                         *)
LEMMA StepDown ==
  ASSUME Sorted, NEW key \in Int,
         NEW lo \in 1 .. T!Entries + 1, NEW hi \in 0 .. T!Entries, NEW r \in lo .. hi,
         NEW x \in EndsUnder(key, lo, hi, r)
  PROVE  x \in Ends(key, lo, hi)
<1> USE DEF EndsUnder
<1>0. /\ order[r].key \in Int
      /\ \A i \in 1 .. T!Entries : order[i].key \in Int
      /\ \A i, j \in 1 .. T!Entries : i < j => order[i].key < order[j].key
      /\ lo \in Nat /\ hi \in Nat /\ r \in Nat /\ T!Entries \in Nat
  BY DEF Sorted, T!Entries
<1>1. CASE key < order[r].key
  <2>1. x \in Ends(key, lo, r - 1)
    BY <1>1
  <2>2. ASSUME NEW k \in lo .. r - 1, order[k].key = key, x = [found |-> TRUE, at |-> k]
        PROVE  x \in Ends(key, lo, hi)
    <3>1. k \in lo .. hi
      BY <1>0, <2>2
    <3> QED
      BY <2>2, <3>1, Zenon DEF Ends
  <2>3. ASSUME NEW m \in lo .. r, Belongs(key, m, lo, r - 1), x = [found |-> FALSE, at |-> m]
        PROVE  x \in Ends(key, lo, hi)
    <3>1. \A i \in m .. hi : order[i].key > key
      <4> SUFFICES ASSUME NEW i \in m .. hi PROVE order[i].key > key
        OBVIOUS
      <4>1. CASE i =< r - 1
        BY <2>3, <4>1 DEF Belongs
      <4>2. CASE i > r - 1
        BY <1>0, <1>1, <4>2
      <4> QED
        BY <4>1, <4>2
    <3>2. m \in lo .. hi + 1 /\ Belongs(key, m, lo, hi)
      BY <2>3, <3>1 DEF Belongs
    <3> QED
      BY <2>3, <3>2 DEF Ends
  <2>4. \/ \E k \in lo .. r - 1 : order[k].key = key /\ x = [found |-> TRUE, at |-> k]
        \/ \E m \in lo .. r - 1 + 1 : Belongs(key, m, lo, r - 1) /\ x = [found |-> FALSE, at |-> m]
    BY <2>1, Zenon DEF Ends
  <2>5. r - 1 + 1 = r
    BY <1>0
  <2>6. CASE \E k \in lo .. r - 1 : order[k].key = key /\ x = [found |-> TRUE, at |-> k]
    <3>1. PICK k \in lo .. r - 1 : order[k].key = key /\ x = [found |-> TRUE, at |-> k]
      BY <2>6
    <3> QED
      BY <2>2, <3>1
  <2>7. CASE \E m \in lo .. r - 1 + 1 : Belongs(key, m, lo, r - 1) /\ x = [found |-> FALSE, at |-> m]
    <3>1. PICK m \in lo .. r : Belongs(key, m, lo, r - 1) /\ x = [found |-> FALSE, at |-> m]
      BY <2>5, <2>7
    <3> QED
      BY <2>3, <3>1
  <2> QED
    BY <2>4, <2>6, <2>7
<1>2. CASE key > order[r].key
  <2>1. x \in Ends(key, r + 1, hi)
    BY <1>0, <1>2
  <2>2. ASSUME NEW k \in r + 1 .. hi, order[k].key = key, x = [found |-> TRUE, at |-> k]
        PROVE  x \in Ends(key, lo, hi)
    <3>1. k \in lo .. hi
      BY <1>0, <2>2
    <3> QED
      BY <2>2, <3>1, Zenon DEF Ends
  <2>3. ASSUME NEW m \in r + 1 .. hi + 1, Belongs(key, m, r + 1, hi), x = [found |-> FALSE, at |-> m]
        PROVE  x \in Ends(key, lo, hi)
    <3>1. \A i \in lo .. m - 1 : order[i].key < key
      <4> SUFFICES ASSUME NEW i \in lo .. m - 1 PROVE order[i].key < key
        OBVIOUS
      <4>1. CASE i >= r + 1
        BY <2>3, <4>1 DEF Belongs
      <4>2. CASE i < r + 1
        BY <1>0, <1>2, <4>2
      <4> QED
        BY <4>1, <4>2
    <3>2. m \in lo .. hi + 1 /\ Belongs(key, m, lo, hi)
      BY <2>3, <3>1 DEF Belongs
    <3> QED
      BY <2>3, <3>2 DEF Ends
  <2>4. \/ \E k \in r + 1 .. hi : order[k].key = key /\ x = [found |-> TRUE, at |-> k]
        \/ \E m \in r + 1 .. hi + 1 : Belongs(key, m, r + 1, hi) /\ x = [found |-> FALSE, at |-> m]
    BY <2>1, Zenon DEF Ends
  <2>6. CASE \E k \in r + 1 .. hi : order[k].key = key /\ x = [found |-> TRUE, at |-> k]
    <3>1. PICK k \in r + 1 .. hi : order[k].key = key /\ x = [found |-> TRUE, at |-> k]
      BY <2>6
    <3> QED
      BY <2>2, <3>1
  <2>7. CASE \E m \in r + 1 .. hi + 1 : Belongs(key, m, r + 1, hi) /\ x = [found |-> FALSE, at |-> m]
    <3>1. PICK m \in r + 1 .. hi + 1 : Belongs(key, m, r + 1, hi) /\ x = [found |-> FALSE, at |-> m]
      BY <2>7
    <3> QED
      BY <2>3, <3>1
  <2> QED
    BY <2>4, <2>6, <2>7
<1>3. CASE key = order[r].key
  BY <1>0, <1>3 DEF Ends
<1> QED
  BY <1>0, <1>1, <1>2, <1>3

(* A descent exists: Ends is one.                                          *)
LEMMA DescentExists ==
  ASSUME Sorted, NEW key \in Int
  PROVE  \E d : IsDescent(d, key)
<1> DEFINE D == (1 .. T!Entries + 1) \X (0 .. T!Entries)
           d == [p \in D |-> IF p[1] > p[2] THEN {[found |-> FALSE, at |-> p[1]]}
                             ELSE Ends(key, p[1], p[2])]
           N(lo, hi, r) == IF key < order[r].key THEN d[<<lo, r - 1>>]
                           ELSE IF key > order[r].key THEN d[<<r + 1, hi>>]
                           ELSE {[found |-> TRUE, at |-> r]}
<1>0. /\ \A i \in 1 .. T!Entries : order[i].key \in Int
      /\ T!Entries \in Nat
  BY DEF Sorted, T!Entries
<1>1. ASSUME NEW lo \in 1 .. T!Entries + 1, NEW hi \in 0 .. T!Entries, lo =< hi + 1
      PROVE  d[<<lo, hi>>] = Ends(key, lo, hi)
  <2>1. <<lo, hi>> \in D /\ <<lo, hi>>[1] = lo /\ <<lo, hi>>[2] = hi
    OBVIOUS
  <2>2. CASE lo =< hi
    <3>1. ~(lo > hi)
      BY <2>2
    <3> QED
      BY <2>1, <3>1
  <2>3. CASE lo = hi + 1
    <3>1. lo .. hi = {} /\ lo .. hi + 1 = {lo} /\ lo > hi
      BY <2>3
    <3>2. Belongs(key, lo, lo, hi)
      BY <2>3 DEF Belongs
    <3>3. Ends(key, lo, hi) = {[found |-> FALSE, at |-> lo]}
      BY <3>1, <3>2 DEF Ends
    <3> QED
      BY <2>1, <3>1, <3>3
  <2> QED
    BY <1>1, <2>2, <2>3
<1>2. ASSUME NEW lo \in 1 .. T!Entries + 1, NEW hi \in 0 .. T!Entries, lo =< hi
      PROVE  Ends(key, lo, hi) = UNION {N(lo, hi, r) : r \in lo .. hi}
  <2>0. ASSUME NEW r \in lo .. hi
        PROVE  N(lo, hi, r) = EndsUnder(key, lo, hi, r)
    <3>1. /\ r - 1 \in 0 .. T!Entries /\ lo =< r - 1 + 1
          /\ r + 1 \in 1 .. T!Entries + 1 /\ r + 1 =< hi + 1
      BY <1>0
    <3>2. d[<<lo, r - 1>>] = Ends(key, lo, r - 1) /\ d[<<r + 1, hi>>] = Ends(key, r + 1, hi)
      <4> HIDE DEF d
      <4> QED BY <1>1, <3>1
    <3> QED
      BY <3>2, Zenon DEF EndsUnder
  <2> HIDE DEF N
  <2>1. ASSUME NEW r \in lo .. hi, NEW x \in N(lo, hi, r) PROVE x \in Ends(key, lo, hi)
    BY <2>0, <2>1, StepDown
  <2>2. ASSUME NEW x \in Ends(key, lo, hi) PROVE \E r \in lo .. hi : x \in N(lo, hi, r)
    <3>1. ASSUME NEW k \in lo .. hi, order[k].key = key, x = [found |-> TRUE, at |-> k]
          PROVE  x \in N(lo, hi, k)
      BY <2>0, <3>1 DEF EndsUnder
    <3>2. ASSUME NEW m \in lo .. hi + 1, Belongs(key, m, lo, hi), m > lo,
                 x = [found |-> FALSE, at |-> m]
          PROVE  m - 1 \in lo .. hi /\ x \in N(lo, hi, m - 1)
      <4>1. m - 1 \in lo .. hi /\ m - 1 + 1 = m /\ m \in m .. hi + 1
        BY <3>2
      <4>2. order[m - 1].key < key /\ order[m - 1].key \in Int
        BY <1>0, <3>2, <4>1 DEF Belongs
      <4>3. ~(key < order[m - 1].key) /\ key > order[m - 1].key
        BY <4>2
      <4>4. N(lo, hi, m - 1) = Ends(key, m, hi)
        BY <2>0, <4>1, <4>3 DEF EndsUnder
      <4>5. Belongs(key, m, m, hi)
        BY <3>2 DEF Belongs
      <4> QED
        BY <3>2, <4>1, <4>4, <4>5 DEF Ends
    <3>3. ASSUME Belongs(key, lo, lo, hi), x = [found |-> FALSE, at |-> lo]
          PROVE  x \in N(lo, hi, lo)
      <4>1. lo \in lo .. hi /\ lo \in lo .. lo - 1 + 1
        BY <1>2
      <4>2. order[lo].key > key /\ order[lo].key \in Int
        BY <1>0, <3>3, <4>1 DEF Belongs
      <4>3. N(lo, hi, lo) = Ends(key, lo, lo - 1)
        BY <2>0, <4>1, <4>2 DEF EndsUnder
      <4>4. Belongs(key, lo, lo, lo - 1)
        BY DEF Belongs
      <4> QED
        BY <3>3, <4>1, <4>3, <4>4 DEF Ends
    <3>4. \/ \E k \in lo .. hi : order[k].key = key /\ x = [found |-> TRUE, at |-> k]
          \/ \E m \in lo .. hi + 1 : Belongs(key, m, lo, hi) /\ x = [found |-> FALSE, at |-> m]
      BY <2>2, Zenon DEF Ends
    <3>5. CASE \E k \in lo .. hi : order[k].key = key /\ x = [found |-> TRUE, at |-> k]
      BY <3>1, <3>5, Zenon
    <3>6. CASE \E m \in lo .. hi + 1 : Belongs(key, m, lo, hi) /\ x = [found |-> FALSE, at |-> m]
      <4>1. PICK m \in lo .. hi + 1 : Belongs(key, m, lo, hi) /\ x = [found |-> FALSE, at |-> m]
        BY <3>6
      <4>2. m > lo \/ m = lo
        OBVIOUS
      <4>3. lo \in lo .. hi
        BY <1>2
      <4> QED
        BY <3>2, <3>3, <4>1, <4>2, <4>3
    <3> QED
      BY <3>4, <3>5, <3>6
  <2> QED
    BY <2>1, <2>2, Zenon
<1>3. d = [p \in D |-> IF p[1] > p[2] THEN {[found |-> FALSE, at |-> p[1]]}
                       ELSE UNION {N(p[1], p[2], r) : r \in p[1] .. p[2]}]
  <2>1. ASSUME NEW p \in D, ~(p[1] > p[2])
        PROVE  Ends(key, p[1], p[2]) = UNION {N(p[1], p[2], r) : r \in p[1] .. p[2]}
    <3>1. p[1] \in 1 .. T!Entries + 1 /\ p[2] \in 0 .. T!Entries
      OBVIOUS
    <3>2. p[1] =< p[2]
      BY <1>0, <2>1, <3>1
    <3> HIDE DEF N
    <3> QED
      BY <1>2, <3>1, <3>2
  <2> HIDE DEF N, D
  <2> QED
    BY <2>1
<1>4. IsDescent(d, key)
  BY <1>3, Zenon DEF IsDescent
<1> QED
  BY <1>4

(* Every way down ends where it should: by a least counterexample.         *)
LEMMA DescendEnds ==
  ASSUME Sorted, NEW key \in Int
  PROVE  T!descend(key) \subseteq Ends(key, 1, T!Entries)
<1>0. T!Entries \in Nat /\ Len(order) \in Nat
  BY DEF Sorted, T!Entries
<1>1. PICK d : IsDescent(d, key) /\ T!descend(key) = d[<<1, T!Entries>>]
  BY DescentExists, DescendIs
<1> DEFINE Bad(lo, hi) == lo =< hi + 1 /\ ~(d[<<lo, hi>>] \subseteq Ends(key, lo, hi))
           Sizes == {n \in Nat : \E lo \in 1 .. T!Entries + 1, hi \in 0 .. T!Entries :
                                  n = hi + 1 - lo /\ Bad(lo, hi)}
<1>2. ASSUME NEW n \in Sizes, \A m \in Sizes : n =< m PROVE FALSE
  <2>1. PICK lo \in 1 .. T!Entries + 1, hi \in 0 .. T!Entries : n = hi + 1 - lo /\ Bad(lo, hi)
    BY <1>2
  <2>2. /\ lo =< hi + 1 /\ ~(d[<<lo, hi>>] \subseteq Ends(key, lo, hi))
        /\ lo \in Nat /\ hi \in Nat /\ n \in Nat
    BY <1>2, <2>1
  <2>3. PICK x \in d[<<lo, hi>>] : x \notin Ends(key, lo, hi)
    BY <2>2
  <2>4. IF lo > hi THEN x = [found |-> FALSE, at |-> lo]
        ELSE \E r \in lo .. hi : x \in Below(d, key, lo, hi, r)
    BY <1>0, <1>1, <2>3, Unfold
  <2>5. CASE lo > hi
    <3>1. x = [found |-> FALSE, at |-> lo] /\ lo \in lo .. hi + 1
      BY <2>2, <2>3, <2>4, <2>5
    <3>2. Belongs(key, lo, lo, hi)
      BY <2>2, <2>5 DEF Belongs
    <3> QED
      BY <2>3, <3>1, <3>2, Zenon DEF Ends
  <2>6. CASE ~(lo > hi)
    <3>1. PICK r \in lo .. hi : x \in Below(d, key, lo, hi, r)
      BY <2>4, <2>6
    <3>2. /\ r - 1 \in 0 .. T!Entries /\ lo =< r - 1 + 1 /\ r - 1 + 1 - lo \in Nat /\ r - 1 + 1 - lo < n
          /\ r + 1 \in 1 .. T!Entries + 1 /\ r + 1 =< hi + 1 /\ hi + 1 - (r + 1) \in Nat
          /\ hi + 1 - (r + 1) < n
      BY <1>0, <2>1, <2>2
    <3>3. d[<<lo, r - 1>>] \subseteq Ends(key, lo, r - 1)
      <4> SUFFICES ASSUME Bad(lo, r - 1) PROVE FALSE
        BY <3>2
      <4>1. r - 1 + 1 - lo \in Sizes
        BY <3>2
      <4> HIDE DEF Sizes
      <4> QED
        BY <1>2, <2>2, <3>2, <4>1
    <3>4. d[<<r + 1, hi>>] \subseteq Ends(key, r + 1, hi)
      <4> SUFFICES ASSUME Bad(r + 1, hi) PROVE FALSE
        BY <3>2
      <4>1. hi + 1 - (r + 1) \in Sizes
        BY <3>2
      <4> HIDE DEF Sizes
      <4> QED
        BY <1>2, <2>2, <3>2, <4>1
    <3>5. x \in EndsUnder(key, lo, hi, r)
      BY <3>1, <3>3, <3>4, Zenon DEF Below, EndsUnder
    <3>6. x \in Ends(key, lo, hi)
      BY <3>5, StepDown
    <3> QED
      BY <2>3, <3>6
  <2> QED
    BY <2>5, <2>6
<1>3. Sizes = {}
  <2>1. Sizes \subseteq Nat
    OBVIOUS
  <2> HIDE DEF Sizes
  <2> QED
    BY <1>2, <2>1, Least
<1>4. ~Bad(1, T!Entries)
  <2> SUFFICES ASSUME Bad(1, T!Entries) PROVE FALSE
    OBVIOUS
  <2>1. T!Entries + 1 - 1 \in Sizes
    BY <1>0
  <2> QED
    BY <1>3, <2>1
<1> QED
  BY <1>0, <1>1, <1>4

-----------------------------------------------------------------------------
(* What SequencesExt's InsertAt and RemoveAt make of a sequence.           *)
LEMMA InsertAtIs ==
  ASSUME NEW S, NEW s \in Seq(S), NEW e \in S, NEW p \in 1 .. Len(s) + 1
  PROVE  /\ T!InsertAt(s, p, e) \in Seq(S) /\ Len(T!InsertAt(s, p, e)) = Len(s) + 1
         /\ \A i \in 1 .. Len(s) + 1 :
              T!InsertAt(s, p, e)[i] = IF i < p THEN s[i] ELSE IF i = p THEN e ELSE s[i - 1]
<1> DEFINE u == SubSeq(s, 1, p - 1)
           v == SubSeq(s, p, Len(s))
<1>1. u \in Seq(S) /\ Len(u) = p - 1 /\ \A i \in 1 .. p - 1 : u[i] = s[i]
  OBVIOUS
<1>2. v \in Seq(S) /\ Len(v) = Len(s) + 1 - p /\ \A i \in 1 .. Len(s) + 1 - p : v[i] = s[p + i - 1]
  OBVIOUS
<1>3. <<e>> \in Seq(S) /\ Len(<<e>>) = 1 /\ <<e>>[1] = e
  OBVIOUS
<1>4. T!InsertAt(s, p, e) = u \o <<e>> \o v
  BY Zenon DEF T!InsertAt
<1> HIDE DEF u, v
<1> DEFINE w == u \o <<e>>
<1>5. w \in Seq(S) /\ Len(w) = p /\ w[p] = e /\ \A i \in 1 .. p - 1 : w[i] = s[i]
  BY <1>1, <1>3
<1> HIDE DEF w
<1>6. w \o v \in Seq(S) /\ Len(w \o v) = Len(s) + 1
  <2>1. w \in Seq(S) /\ v \in Seq(S) /\ Len(w) = p /\ Len(v) = Len(s) + 1 - p /\ Len(s) \in Nat
    BY <1>2, <1>5
  <2> QED
    BY <2>1
<1>7. ASSUME NEW i \in 1 .. Len(s) + 1
      PROVE  (w \o v)[i] = IF i < p THEN s[i] ELSE IF i = p THEN e ELSE s[i - 1]
  <2>0. w \in Seq(S) /\ v \in Seq(S) /\ Len(w) = p /\ Len(v) = Len(s) + 1 - p /\ Len(s) \in Nat
    BY <1>2, <1>5
  <2>1. CASE i =< p
    <3>1. (w \o v)[i] = w[i]
      BY <2>0, <2>1
    <3> QED
      BY <1>5, <2>1, <3>1
  <2>2. CASE i > p
    <3>1. (w \o v)[i] = v[i - p] /\ i - p \in 1 .. Len(s) + 1 - p /\ p + (i - p) - 1 = i - 1
      BY <2>0, <2>2
    <3> QED
      BY <1>2, <2>2, <3>1
  <2> QED
    BY <2>0, <2>1, <2>2
<1> QED
  BY <1>4, <1>6, <1>7 DEF w

(* And RemoveAt.                                                           *)
LEMMA RemoveAtIs ==
  ASSUME NEW S, NEW s \in Seq(S), NEW p \in 1 .. Len(s)
  PROVE  /\ T!RemoveAt(s, p) \in Seq(S) /\ Len(T!RemoveAt(s, p)) = Len(s) - 1
         /\ \A i \in 1 .. Len(s) - 1 :
              T!RemoveAt(s, p)[i] = IF i < p THEN s[i] ELSE s[i + 1]
<1> DEFINE u == SubSeq(s, 1, p - 1)
           v == SubSeq(s, p + 1, Len(s))
<1>1. u \in Seq(S) /\ Len(u) = p - 1 /\ \A i \in 1 .. p - 1 : u[i] = s[i]
  OBVIOUS
<1>2. v \in Seq(S) /\ Len(v) = Len(s) - p /\ \A i \in 1 .. Len(s) - p : v[i] = s[p + i]
  OBVIOUS
<1>3. T!RemoveAt(s, p) = u \o v
  BY Zenon DEF T!RemoveAt
<1> HIDE DEF u, v
<1>4. u \o v \in Seq(S) /\ Len(u \o v) = Len(s) - 1
  BY <1>1, <1>2
<1>5. ASSUME NEW i \in 1 .. Len(s) - 1
      PROVE  (u \o v)[i] = IF i < p THEN s[i] ELSE s[i + 1]
  <2>0. u \in Seq(S) /\ v \in Seq(S) /\ Len(u) = p - 1 /\ Len(v) = Len(s) - p /\ Len(s) \in Nat
    BY <1>1, <1>2
  <2>1. CASE i < p
    <3>1. (u \o v)[i] = u[i]
      BY <2>0, <2>1
    <3> QED
      BY <1>1, <2>1, <3>1
  <2>2. CASE i >= p
    <3>1. (u \o v)[i] = v[i - (p - 1)] /\ i - (p - 1) \in 1 .. Len(s) - p /\ p + (i - (p - 1)) = i + 1
      BY <2>0, <2>2
    <3> QED
      BY <1>2, <2>2, <3>1
  <2> QED
    BY <2>0, <2>1, <2>2
<1> QED
  BY <1>3, <1>4, <1>5

(* Two parts of a program, one after the other.                            *)
LEMMA ConcatIs ==
  ASSUME NEW S, NEW s \in Seq(S), NEW t \in Seq(S)
  PROVE  /\ s \o t \in Seq(S) /\ Len(s \o t) = Len(s) + Len(t)
         /\ \A i \in 1 .. Len(s) + Len(t) :
              (s \o t)[i] = IF i =< Len(s) THEN s[i] ELSE t[i - Len(s)]
OBVIOUS

-----------------------------------------------------------------------------
(* The programs of the demonstrations: calls with numbers as arguments, of *)
(* which the last one clears, except in that of the interval tree; the     *)
(* only removal of the rhashtable demonstration is its last call but one.  *)
Calls == [op : {"insert", "remove", "search", "clear"}, key : Int, last : Int]

(* A call of a demonstration.                                              *)
LEMMA CallIs ==
  ASSUME NEW op \in {"insert", "remove", "search", "clear"}, NEW k \in Int, NEW l \in Int
  PROVE  /\ T!Call(op, k, l) \in Calls /\ T!Call(op, k, l).op = op
         /\ T!Call(op, k, l).key = k /\ T!Call(op, k, l).last = l
BY DEF T!Call, Calls

(* The calls of map_init.                                                  *)
LEMMA MapProgram ==
  T!map_init \in Seq(Calls) /\ Len(T!map_init) = 4 /\ T!map_init[4].op = "clear"
<1>1. /\ T!Call("insert", 1, 0) \in Calls /\ T!Call("insert", 2, 0) \in Calls
      /\ T!Call("remove", 1, 0) \in Calls /\ T!Call("clear", 0, 0) \in Calls
      /\ T!Call("clear", 0, 0).op = "clear"
  BY CallIs
<1> QED
  BY <1>1 DEF T!map_init

(* The calls of the red-black tree demonstration.                          *)
LEMMA RbtreeProgram ==
  /\ T!rbtree_init_exit \in Seq(Calls) /\ Len(T!rbtree_init_exit) = 7
  /\ T!rbtree_init_exit[7].op = "clear"
<1> DEFINE k == <<100, 200, 150, 220, 300, 110>>
           f == [i \in 1 .. 6 |-> T!Call("insert", k[i], 0)]
           g == <<T!Call("clear", 0, 0)>>
<1>1. \A i \in 1 .. 6 : k[i] \in Int
  OBVIOUS
<1>2. f \in Seq(Calls) /\ Len(f) = 6
  <2> HIDE DEF k
  <2>1. ASSUME NEW i \in 1 .. 6 PROVE T!Call("insert", k[i], 0) \in Calls
    <3>1. k[i] \in Int /\ 0 \in Int
      BY <1>1
    <3> QED
      BY <3>1, CallIs
  <2> QED
    BY <2>1
<1>3. g \in Seq(Calls) /\ Len(g) = 1 /\ g[1].op = "clear"
  BY CallIs
<1>4. T!rbtree_init_exit = f \o g
  BY Zenon DEF T!rbtree_init_exit
<1> HIDE DEF f, g
<1>5. f \o g \in Seq(Calls) /\ Len(f \o g) = 7 /\ (f \o g)[7] = g[1]
  <2>1. f \in Seq(Calls) /\ g \in Seq(Calls) /\ Len(f) = 6 /\ Len(g) = 1
    BY <1>2, <1>3
  <2>2. f \o g \in Seq(Calls) /\ Len(f \o g) = Len(f) + Len(g)
    BY <2>1, ConcatIs
  <2>3. (f \o g)[7] = IF 7 =< Len(f) THEN f[7] ELSE g[7 - Len(f)]
    <3>1. 7 \in 1 .. Len(f) + Len(g)
      BY <2>1
    <3> QED
      BY <2>1, <3>1, ConcatIs
  <2>4. 7 - Len(f) = 1 /\ ~(7 =< Len(f)) /\ Len(f) + Len(g) = 7
    BY <2>1
  <2> QED
    BY <2>2, <2>3, <2>4
<1> QED
  BY <1>3, <1>4, <1>5

(* The calls of the interval tree demonstration.                           *)
LEMMA IntervalProgram ==
  T!interval_tree_test_init \in Seq(Calls)
<1> DEFINE f == [i \in 1 .. 5 |-> T!Call("insert", 10 * (i - 1), 10 * i)]
           g == <<T!Call("remove", 9, 15), T!Call("search", 1, 10), T!Call("search", 15, 25),
                  T!Call("search", 45, 55), T!Call("search", 65, 75)>>
<1>1. f \in Seq(Calls)
  <2>1. \A i \in 1 .. 5 : T!Call("insert", 10 * (i - 1), 10 * i) \in Calls
    BY CallIs
  <2> QED
    BY <2>1
<1>2. g \in Seq(Calls)
  <2>1. /\ T!Call("remove", 9, 15) \in Calls /\ T!Call("search", 1, 10) \in Calls
        /\ T!Call("search", 15, 25) \in Calls /\ T!Call("search", 45, 55) \in Calls
        /\ T!Call("search", 65, 75) \in Calls
    BY CallIs
  <2> QED
    BY <2>1
<1>3. T!interval_tree_test_init = f \o g
  BY Zenon DEF T!interval_tree_test_init
<1> HIDE DEF f, g
<1> QED
  BY <1>1, <1>2, <1>3

(* The calls of the rhashtable demonstration.                              *)
LEMMA RhashtableProgram ==
  /\ T!rhashtable_init \in Seq(Calls) /\ Len(T!rhashtable_init) = RH_ENTRIES + 2
  /\ \A i \in 1 .. RH_ENTRIES : T!rhashtable_init[i].op = "insert"
  /\ T!rhashtable_init[RH_ENTRIES + 1].op = "remove"
  /\ T!rhashtable_init[RH_ENTRIES + 2].op = "clear"
<1> USE StructuresAssumption
<1> DEFINE f == [i \in 1 .. RH_ENTRIES |-> T!Call("insert", i - 1, 0)]
           g == <<T!Call("remove", 1, 0), T!Call("clear", 0, 0)>>
<1>1. f \in Seq(Calls) /\ Len(f) = RH_ENTRIES /\ \A i \in 1 .. RH_ENTRIES : f[i].op = "insert"
  <2>1. \A i \in 1 .. RH_ENTRIES : /\ T!Call("insert", i - 1, 0) \in Calls
                                   /\ T!Call("insert", i - 1, 0).op = "insert"
    BY CallIs
  <2> QED
    BY <2>1
<1>2. g \in Seq(Calls) /\ Len(g) = 2 /\ g[1].op = "remove" /\ g[2].op = "clear"
  <2>1. /\ T!Call("remove", 1, 0) \in Calls /\ T!Call("remove", 1, 0).op = "remove"
        /\ T!Call("clear", 0, 0) \in Calls /\ T!Call("clear", 0, 0).op = "clear"
    BY CallIs
  <2> QED
    BY <2>1
<1>3. T!rhashtable_init = f \o g
  BY Zenon DEF T!rhashtable_init
<1> HIDE DEF f, g
<1>4. /\ f \o g \in Seq(Calls) /\ Len(f \o g) = RH_ENTRIES + 2
      /\ \A i \in 1 .. RH_ENTRIES : (f \o g)[i] = f[i]
      /\ (f \o g)[RH_ENTRIES + 1] = g[1] /\ (f \o g)[RH_ENTRIES + 2] = g[2]
  BY <1>1, <1>2, ConcatIs
<1> QED
  BY <1>1, <1>2, <1>3, <1>4

(* The calls of the demonstration that runs.                               *)
LEMMA ProgramIs ==
  ASSUME demo \in {"map", "rbtree", "interval", "rhashtable"}
  PROVE  /\ T!Program \in Seq(Calls)
         /\ demo # "interval" => T!Program[Len(T!Program)].op = "clear"
         /\ demo = "rhashtable" =>
              /\ Len(T!Program) = RH_ENTRIES + 2
              /\ \A i \in 1 .. RH_ENTRIES : T!Program[i].op = "insert"
              /\ T!Program[RH_ENTRIES + 1].op = "remove"
              /\ T!Program[RH_ENTRIES + 2].op = "clear"
<1>1. CASE demo = "map"
  BY <1>1, MapProgram DEF T!Program
<1>2. CASE demo = "rbtree"
  BY <1>2, RbtreeProgram DEF T!Program
<1>3. CASE demo = "interval"
  BY <1>3, IntervalProgram DEF T!Program
<1>4. CASE demo = "rhashtable"
  BY <1>4, RhashtableProgram DEF T!Program
<1> QED
  BY <1>1, <1>2, <1>3, <1>4

-----------------------------------------------------------------------------
(* The invariant of the tables.                                            *)
Entry == [id : Nat, key : Int, last : Int]

TType ==
  /\ demo \in {"map", "rbtree", "interval", "rhashtable"}
  /\ ip \in Nat /\ made \in Nat
  /\ order \in Seq(Entry)

IdsDiffer ==
  /\ \A i \in 1 .. Len(order) : order[i].id =< made
  /\ \A i, j \in 1 .. Len(order) : order[i].id = order[j].id => i = j

(* What is allocated is in the table, but for what the rhashtable          *)
(* demonstration has removed by its last call but one.                     *)
Lives ==
  /\ demo # "rhashtable" => live = T!Ids
  /\ demo = "rhashtable" =>
       /\ ip > 0 /\ T!Ids \subseteq live
       /\ ip =< RH_ENTRIES + 1 => live = T!Ids
       /\ \E x : live \ T!Ids \subseteq {x}

Over == ip > Len(T!Program) /\ demo # "interval" => order = << >>

TInv == TType /\ IdsDiffer /\ Lives /\ Over /\ (demo = "rbtree" => Sorted)

(* The places that a lookup finds.                                         *)
LEMMA MatchingIn ==
  ASSUME TType, demo = "rbtree" => Sorted, NEW key \in Int, NEW last \in Int
  PROVE  T!matching(key, last) \subseteq 1 .. Len(order)
<1>0. T!Entries = Len(order) /\ Len(order) \in Nat
  BY DEF T!Entries, TType
<1>1. CASE demo = "rbtree"
  <2>1. ASSUME NEW r \in T!descend(key), r.found PROVE r.at \in 1 .. Len(order)
    <3>1. r \in Ends(key, 1, T!Entries)
      BY <1>1, DescendEnds
    <3> QED
      BY <1>0, <2>1, <3>1 DEF Ends
  <2>2. T!matching(key, last) = {r.at : r \in {r \in T!descend(key) : r.found}}
    BY <1>1 DEF T!matching
  <2> QED
    BY <2>1, <2>2
<1>2. CASE demo = "interval"
  <2> DEFINE S == T!overlapping(key, last)
  <2>1. S \subseteq 1 .. Len(order)
    BY <1>0 DEF T!overlapping
  <2>2. T!matching(key, last) = IF S = {} THEN {} ELSE {T!Max(S)}
    BY <1>2 DEF T!matching
  <2> HIDE DEF S
  <2>3. ASSUME S # {} PROVE T!Max(S) \in S
    <3> DEFINE R == {Len(order) - i : i \in S}
    <3>0. \A i \in S : Len(order) - i \in Nat
      BY <1>0, <2>1
    <3>1. R \subseteq Nat /\ R # {}
      BY <2>3, <3>0, Zenon
    <3>2. PICK n \in R : \A m \in R : n =< m
      <4> HIDE DEF R
      <4> QED BY <3>1, Least
    <3>3. PICK x \in S : n = Len(order) - x
      BY <3>2
    <3>4. ASSUME NEW y \in S PROVE x >= y
      <4>1. Len(order) - x =< Len(order) - y
        BY <3>2, <3>3
      <4> QED
        BY <1>0, <2>1, <4>1
    <3>5. \E z \in S : \A y \in S : z >= y
      BY <3>4
    <3> QED
      BY <3>5, Zenon DEF T!Max
  <2> QED
    BY <2>1, <2>2, <2>3
<1>3. CASE demo \notin {"rbtree", "interval"}
  <2> DEFINE S == {i \in 1 .. T!Entries : order[i].key = key}
  <2>1. S \subseteq 1 .. Len(order) /\ S \subseteq Nat
    BY <1>0
  <2>2. T!matching(key, last) = IF S = {} THEN {} ELSE {T!Min(S)}
    BY <1>3 DEF T!matching
  <2> HIDE DEF S
  <2>3. ASSUME S # {} PROVE T!Min(S) \in S
    <3>1. \E z \in S : \A y \in S : z =< y
      BY <2>1, <2>3, Least
    <3> QED
      BY <3>1, Zenon DEF T!Min
  <2> QED
    BY <2>1, <2>2, <2>3
<1> QED
  BY <1>1, <1>2, <1>3

(* What a call may do to a table.                                          *)
Kept == UNCHANGED <<order, live, made>>
PutAt(p, key, last) ==
  /\ order' = T!InsertAt(order, p, [id |-> made + 1, key |-> key, last |-> last])
  /\ live' = live \cup {made + 1} /\ made' = made + 1
  /\ demo = "rbtree" => Belongs(key, p, 1, Len(order))
TakenAt(i) ==
  order' = T!RemoveAt(order, i) /\ live' = live \ T!freed_by_remove(i) /\ made' = made
Cleared == order' = << >> /\ live' = live \ T!Ids /\ made' = made

Does(c) ==
  /\ demo' = demo
  /\ \/ c.op # "clear" /\ Kept /\ (T!Follow \/ (demo = "rhashtable" /\ T!err_exit))
     \/ /\ c.op = "insert" /\ T!Follow
        /\ \E p \in 1 .. Len(order) + 1, key, last \in Int : PutAt(p, key, last)
     \/ c.op = "remove" /\ T!Follow /\ \E i \in 1 .. Len(order) : TakenAt(i)
     \/ c.op = "clear" /\ T!Follow /\ Cleared

(* The numbers up to n are n.                                              *)
LEMMA Upto ==
  ASSUME NEW n \in Nat
  PROVE  IsFiniteSet(1 .. n) /\ Cardinality(1 .. n) = n
<1>1. 1 \in Int /\ n \in Int
  OBVIOUS
<1>2. IsFiniteSet(1 .. n) /\ Cardinality(1 .. n) = IF 1 > n THEN 0 ELSE n - 1 + 1
  BY <1>1, FS_Interval
<1> QED
  BY <1>2

(* Both copies of FiniteSets count alike.                                  *)
LEMMA TablesCount == \A S : T!Cardinality(S) = Cardinality(S)
BY Zenon DEF T!Cardinality, Cardinality

(* What one call does to a table.                                          *)
LEMMA CallEffect ==
  ASSUME TType, demo = "rbtree" => Sorted, NEW c \in Calls, T!Do(c)
  PROVE  Does(c)
<1>0. /\ c.key \in Int /\ c.last \in Int /\ T!Entries = Len(order) /\ Len(order) \in Nat
      /\ c.op \in {"insert", "remove", "search", "clear"}
  BY DEF TType, Calls, T!Entries
<1>k. ASSUME c.op # "clear", T!Nothing \/ T!Fault PROVE Does(c)
  <2>1. demo' = demo /\ Kept /\ T!Follow
    BY <1>k DEF T!Nothing, T!Fault, Kept
  <2> QED
    BY <1>k, <2>1 DEF Does
<1>q. ASSUME c.op = "insert", NEW p \in 1 .. Len(order) + 1, NEW k \in Int, NEW l \in Int,
             T!put(p, k, l), demo = "rbtree" => Belongs(k, p, 1, Len(order))
      PROVE  Does(c)
  <2>1. PutAt(p, k, l) /\ T!Follow /\ demo' = demo
    BY <1>q DEF T!put, PutAt
  <2> QED
    BY <1>q, <2>1 DEF Does
<1>1. CASE c.op = "insert" /\ T!add_element(c.key)
  <2>1. 1 \in 1 .. Len(order) + 1 /\ demo # "rbtree"
    BY <1>0, <1>1 DEF T!add_element
  <2>2. T!put(1, c.key, c.key) \/ T!Nothing
    BY <1>1 DEF T!add_element
  <2> QED
    BY <1>0, <1>1, <1>k, <1>q, <2>1, <2>2
<1>2. CASE c.op = "insert" /\ T!insert_node(c.key)
  <2>1. demo = "rbtree" /\ Sorted
    BY <1>2 DEF T!insert_node
  <2>2. PICK r \in T!descend(c.key) :
          \/ r.found /\ T!Nothing
          \/ ~r.found /\ (T!put(r.at, c.key, c.key) \/ T!Fault)
    BY <1>2 DEF T!insert_node
  <2>3. r \in Ends(c.key, 1, T!Entries)
    BY <1>0, <2>1, DescendEnds
  <2>4. CASE T!Nothing \/ T!Fault
    BY <1>2, <1>k, <2>4
  <2>5. CASE ~r.found /\ T!put(r.at, c.key, c.key)
    <3>1. r.at \in 1 .. Len(order) + 1 /\ Belongs(c.key, r.at, 1, Len(order))
      BY <1>0, <2>3, <2>5 DEF Ends
    <3> QED
      BY <1>0, <1>2, <1>q, <2>5, <3>1
  <2> QED
    BY <2>2, <2>4, <2>5
<1>3. CASE c.op = "insert" /\ T!insert(c.key, c.last)
  <2> DEFINE S == {i \in 1 .. T!Entries : order[i].key =< c.key}
  <2>1. demo = "interval" /\ (T!put(T!Cardinality(S) + 1, c.key, c.last) \/ T!Nothing)
    BY <1>3, Zenon DEF T!insert
  <2>2. T!Cardinality(S) + 1 \in 1 .. Len(order) + 1
    <3>1. S \subseteq 1 .. Len(order)
      BY <1>0
    <3> HIDE DEF S
    <3>2. IsFiniteSet(1 .. Len(order)) /\ Cardinality(1 .. Len(order)) = Len(order)
      BY <1>0, Upto
    <3>3. IsFiniteSet(S) /\ Cardinality(S) =< Len(order)
      BY <3>1, <3>2, FS_Subset
    <3>4. Cardinality(S) \in Nat
      BY <3>3, FS_CardinalityType
    <3> QED
      BY <1>0, <3>3, <3>4, TablesCount
  <2> HIDE DEF S
  <2> QED
    BY <1>0, <1>3, <1>k, <1>q, <2>1, <2>2
<1>4. CASE c.op = "insert" /\ T!rhashtable_insert_fast(c.key)
  <2>1. demo = "rhashtable" /\ 1 \in 1 .. Len(order) + 1
    BY <1>0, <1>4 DEF T!rhashtable_insert_fast
  <2>2. CASE T!put(1, c.key, c.key)
    BY <1>0, <1>4, <1>q, <2>1, <2>2
  <2>3. CASE T!err_exit /\ UNCHANGED <<demo, order, live, made, oops>>
    BY <1>4, <2>1, <2>3 DEF Kept, Does
  <2> QED
    BY <1>4, <2>2, <2>3 DEF T!rhashtable_insert_fast
<1>5. CASE c.op = "remove" /\ T!remove(c.key, c.last)
  <2>1. CASE \E i \in T!matching(c.key, c.last) :
               /\ order' = T!RemoveAt(order, i)
               /\ live' = live \ T!freed_by_remove(i)
               /\ T!Follow /\ UNCHANGED <<demo, made, oops>>
    <3>1. PICK i \in T!matching(c.key, c.last) :
               /\ order' = T!RemoveAt(order, i)
               /\ live' = live \ T!freed_by_remove(i)
               /\ T!Follow /\ UNCHANGED <<demo, made, oops>>
      BY <2>1
    <3>2. i \in 1 .. Len(order)
      BY <1>0, <3>1, MatchingIn
    <3>3. TakenAt(i)
      BY <3>1 DEF TakenAt
    <3> QED
      BY <1>5, <3>1, <3>2, <3>3 DEF Does
  <2>2. CASE T!Nothing \/ T!Fault
    BY <1>5, <1>k, <2>2
  <2> QED
    BY <1>5, <2>1, <2>2 DEF T!remove
<1>6. CASE c.op = "search" /\ T!search(c.key, c.last)
  BY <1>6, <1>k DEF T!search
<1>7. CASE c.op = "clear" /\ T!clear
  BY <1>7 DEF T!clear, T!freed_by_clear, Cleared, Does
<1> QED
  BY <1>1, <1>2, <1>3, <1>4, <1>5, <1>6, <1>7 DEF T!Do

(* What a step does: as what call does, and where the demonstration goes.  *)
LEMMA StepEffect ==
  ASSUME TInv, T!Next
  PROVE  /\ demo' = demo /\ ip' \in Nat
         /\ \/ Kept
            \/ \E p \in 1 .. Len(order) + 1, key, last \in Int : PutAt(p, key, last)
            \/ /\ \E i \in 1 .. Len(order) : TakenAt(i)
               /\ demo = "rhashtable" => ip = RH_ENTRIES + 1 /\ ip' = RH_ENTRIES + 2
            \/ Cleared
         /\ demo = "rhashtable" => ip' > 0 /\ (ip' =< RH_ENTRIES + 1 => ip =< RH_ENTRIES + 1)
         /\ ip' > Len(T!Program) /\ demo # "interval" => order' = << >>
<1> USE StructuresAssumption
<1>0. /\ TType /\ (demo = "rbtree" => Sorted) /\ ip \in Nat
      /\ demo \in {"map", "rbtree", "interval", "rhashtable"}
      /\ demo = "rhashtable" => ip > 0
  BY DEF TInv, TType, Lives
<1>p. /\ T!Program \in Seq(Calls) /\ Len(T!Program) \in Nat
      /\ demo # "interval" => T!Program[Len(T!Program)].op = "clear"
      /\ demo = "rhashtable" =>
           /\ Len(T!Program) = RH_ENTRIES + 2
           /\ \A i \in 1 .. RH_ENTRIES : T!Program[i].op = "insert"
           /\ T!Program[RH_ENTRIES + 1].op = "remove"
           /\ T!Program[RH_ENTRIES + 2].op = "clear"
  BY <1>0, ProgramIs
<1>1. CASE ip \in DOMAIN T!Program /\ T!Do(T!Program[ip])
  <2> DEFINE c == T!Program[ip]
  <2>1. ip \in 1 .. Len(T!Program) /\ c \in Calls /\ T!Do(c)
    BY <1>1, <1>p
  <2>2. /\ ip = Len(T!Program) /\ demo # "interval" => c.op = "clear"
        /\ demo = "rhashtable" /\ c.op = "remove" => ip = RH_ENTRIES + 1
    BY <1>p, <2>1
  <2> HIDE DEF c
  <2>3. /\ demo' = demo
        /\ \/ c.op # "clear" /\ Kept /\ (T!Follow \/ (demo = "rhashtable" /\ T!err_exit))
           \/ /\ c.op = "insert" /\ T!Follow
              /\ \E p \in 1 .. Len(order) + 1, key, last \in Int : PutAt(p, key, last)
           \/ c.op = "remove" /\ T!Follow /\ \E i \in 1 .. Len(order) : TakenAt(i)
           \/ c.op = "clear" /\ T!Follow /\ Cleared
    BY <1>0, <2>1, CallEffect DEF Does
  <2>4. T!Follow => ip' = ip + 1
    BY <2>1 DEF T!Follow
  <2>5. T!err_exit => ip' = Len(T!Program)
    BY DEF T!err_exit
  <2>6. Cleared => order' = << >>
    BY DEF Cleared
  <2>7. ip' = ip + 1 \/ (demo = "rhashtable" /\ ip' = RH_ENTRIES + 2)
    BY <1>p, <2>3, <2>4, <2>5
  <2>8. ip' \in Nat /\ (demo = "rhashtable" => ip' > 0 /\ (ip' =< RH_ENTRIES + 1 => ip =< RH_ENTRIES + 1))
    BY <1>0, <2>7
  <2>9. ASSUME ip' > Len(T!Program), demo # "interval" PROVE order' = << >>
    <3>1. ip' = ip + 1 /\ ip = Len(T!Program)
      BY <1>p, <2>1, <2>7, <2>9
    <3> QED
      BY <2>2, <2>3, <2>6, <2>9, <3>1
  <2>10. c.op = "remove" /\ T!Follow /\ demo = "rhashtable"
           => ip = RH_ENTRIES + 1 /\ ip' = RH_ENTRIES + 2
    BY <2>2, <2>4
  <2> QED
    BY <2>3, <2>8, <2>9, <2>10
<1>2. CASE ip = 0 /\ \E k, l \in Keys : k =< l /\ T!AnyCall(k, l)
  <2>1. PICK k, l \in Keys : T!AnyCall(k, l)
    BY <1>2
  <2>2. PICK c \in Calls : T!Do(c)
    <3>1. /\ T!Call("insert", k, l) \in Calls /\ T!Call("remove", k, l) \in Calls
          /\ T!Call("search", k, l) \in Calls /\ T!Call("clear", k, l) \in Calls
      BY CallIs
    <3> QED
      BY <2>1, <3>1, Zenon DEF T!AnyCall
  <2>3. demo # "rhashtable"
    BY <1>0, <1>2
  <2>4. /\ demo' = demo /\ T!Follow
        /\ \/ Kept
           \/ \E p \in 1 .. Len(order) + 1, key, last \in Int : PutAt(p, key, last)
           \/ \E i \in 1 .. Len(order) : TakenAt(i)
           \/ Cleared
    <3>1. Does(c)
      BY <1>0, <2>2, CallEffect
    <3> QED
      BY <2>3, <3>1 DEF Does
  <2>5. ip' = 0
    BY <1>2, <2>4 DEF T!Follow
  <2>6. ip' \in Nat /\ ~(ip' > Len(T!Program))
    BY <1>p, <2>5
  <2> QED
    BY <2>3, <2>4, <2>6, Zenon
<1> QED
  BY <1>1, <1>2 DEF T!Next

(* The entries of a table.                                                 *)
LEMMA Rows ==
  ASSUME TInv
  PROVE  /\ order \in Seq(Entry) /\ made \in Nat /\ Len(order) \in Nat /\ IdsDiffer
         /\ \A i \in 1 .. Len(order) : order[i].id \in Nat /\ order[i].key \in Int
<1>1. order \in Seq(Entry) /\ made \in Nat /\ IdsDiffer
  BY DEF TInv, TType
<1>2. \A i \in 1 .. Len(order) : order[i] \in Entry
  BY <1>1
<1>3. \A x \in Entry : x.id \in Nat /\ x.key \in Int
  BY DEF Entry
<1> QED
  BY <1>1, <1>2, <1>3

(* A new entry keeps the invariant.                                        *)
LEMMA PutKeeps ==
  ASSUME TInv, demo' = demo, NEW p \in 1 .. Len(order) + 1, NEW key \in Int, NEW last \in Int,
         PutAt(p, key, last)
  PROVE  /\ order' \in Seq(Entry) /\ made' \in Nat /\ IdsDiffer'
         /\ T!Ids' = T!Ids \cup {made + 1} /\ live' = live \cup {made + 1}
         /\ (demo = "rbtree" => Sorted)'
<1> DEFINE e == [id |-> made + 1, key |-> key, last |-> last]
           n == Len(order)
<1>0. /\ order \in Seq(Entry) /\ made \in Nat /\ n \in Nat /\ IdsDiffer
      /\ \A i \in 1 .. n : order[i].id \in Nat /\ order[i].key \in Int
  BY Rows
<1>1. e \in Entry /\ e.id = made + 1 /\ e.key = key
  BY <1>0 DEF Entry
<1>2. /\ order' \in Seq(Entry) /\ Len(order') = n + 1
      /\ \A i \in 1 .. n + 1 :
           order'[i] = IF i < p THEN order[i] ELSE IF i = p THEN e ELSE order[i - 1]
  <2> HIDE DEF e
  <2>1. order' = T!InsertAt(order, p, e)
    BY DEF PutAt, e
  <2>2. /\ T!InsertAt(order, p, e) \in Seq(Entry) /\ Len(T!InsertAt(order, p, e)) = Len(order) + 1
        /\ \A i \in 1 .. Len(order) + 1 : T!InsertAt(order, p, e)[i]
                    = IF i < p THEN order[i] ELSE IF i = p THEN e ELSE order[i - 1]
    BY <1>0, <1>1, InsertAtIs
  <2> QED
    BY <2>1, <2>2
<1> HIDE DEF e, n
<1>3. p \in Nat /\ p >= 1 /\ p =< n + 1 /\ made' = made + 1 /\ live' = live \cup {made + 1}
  BY <1>0 DEF n, PutAt
<1>4. \A i \in 1 .. n : order[i].id =< made
  BY <1>0 DEF IdsDiffer, n
<1>5. \A i \in 1 .. n + 1 : /\ i < p => i \in 1 .. n /\ order'[i] = order[i]
                            /\ i = p => order'[i] = e
                            /\ i > p => i - 1 \in 1 .. n /\ order'[i] = order[i - 1]
  BY <1>0, <1>2, <1>3
<1>6. \A i \in 1 .. n : /\ i < p => i \in 1 .. n + 1 /\ order'[i] = order[i]
                        /\ i >= p => i + 1 \in 1 .. n + 1 /\ order'[i + 1] = order[i]
  BY <1>0, <1>2, <1>3
<1>7. IdsDiffer'
  <2>1. ASSUME NEW i \in 1 .. n + 1 PROVE order'[i].id =< made + 1
    <3>1. CASE i = p
      BY <1>0, <1>1, <1>5, <3>1
    <3>2. CASE i # p
      <4>1. PICK k \in 1 .. n : order'[i] = order[k]
        BY <1>0, <1>3, <1>5, <3>2
      <4> QED
        BY <1>0, <1>4, <4>1
    <3> QED
      BY <3>1, <3>2
  <2>2. ASSUME NEW i \in 1 .. n + 1, NEW j \in 1 .. n + 1, order'[i].id = order'[j].id PROVE i = j
    <3>1. \A k, l \in 1 .. n : order[k].id = order[l].id => k = l
      BY <1>0 DEF IdsDiffer, n
    <3>2. \A k \in 1 .. n : order[k].id # made + 1
      BY <1>0, <1>4
    <3> DEFINE from(k) == IF k < p THEN k ELSE k - 1
    <3>3. \A k \in 1 .. n + 1 : k # p => from(k) \in 1 .. n /\ order'[k] = order[from(k)]
      BY <1>0, <1>3, <1>5
    <3>4. i # p /\ j # p /\ from(i) = from(j) => i = j
      BY <1>0, <1>3
    <3> HIDE DEF from
    <3>5. i = p => j = p
      BY <1>1, <1>5, <2>2, <3>2, <3>3
    <3>6. j = p => i = p
      BY <1>1, <1>5, <2>2, <3>2, <3>3
    <3>7. i # p /\ j # p => from(i) = from(j)
      BY <2>2, <3>1, <3>3
    <3> QED
      BY <3>4, <3>5, <3>6, <3>7
  <2> QED
    BY <1>2, <1>3, <2>1, <2>2 DEF IdsDiffer
<1>8. T!Ids' = T!Ids \cup {made + 1}
  <2>0. DOMAIN order = 1 .. n /\ DOMAIN order' = 1 .. n + 1
    BY <1>0, <1>2 DEF n
  <2>1. ASSUME NEW i \in 1 .. n + 1 PROVE order'[i].id \in T!Ids \cup {made + 1}
    BY <1>1, <1>3, <1>5, <2>0 DEF T!Ids
  <2>2. ASSUME NEW i \in 1 .. n PROVE order[i].id \in T!Ids'
    <3>1. CASE i < p
      BY <1>6, <2>0, <3>1 DEF T!Ids
    <3>2. CASE i >= p
      <4>1. i + 1 \in 1 .. n + 1 /\ order'[i + 1] = order[i]
        BY <1>6, <3>2
      <4> QED
        BY <2>0, <4>1 DEF T!Ids
    <3> QED
      BY <1>3, <3>1, <3>2
  <2>3. made + 1 \in T!Ids'
    <3>1. p \in 1 .. n + 1 /\ order'[p] = e
      BY <1>0, <1>3, <1>5
    <3> QED
      BY <1>1, <2>0, <3>1 DEF T!Ids
  <2> QED
    BY <2>0, <2>1, <2>2, <2>3 DEF T!Ids
<1>9. ASSUME demo = "rbtree" PROVE Sorted'
  <2>1. /\ \A i \in 1 .. p - 1 : order[i].key < key
        /\ \A i \in p .. n : order[i].key > key
    BY <1>9 DEF PutAt, Belongs, n
  <2>2. \A i, j \in 1 .. n : i < j => order[i].key < order[j].key
    BY <1>9 DEF TInv, Sorted, n
  <2>3. ASSUME NEW i \in 1 .. n + 1 PROVE order'[i].key \in Int
    BY <1>0, <1>1, <1>3, <1>5
  <2>4. ASSUME NEW i \in 1 .. n + 1, NEW j \in 1 .. n + 1, i < j
        PROVE  order'[i].key < order'[j].key
    <3>1. CASE j < p
      BY <1>0, <1>3, <1>5, <2>2, <2>4, <3>1, SMTT(20)
    <3>2. CASE j = p
      <4>1. i \in 1 .. p - 1 /\ order'[i] = order[i] /\ order'[j] = e
        BY <1>0, <1>3, <1>5, <2>4, <3>2
      <4> QED
        BY <1>1, <2>1, <4>1
    <3>3. CASE j > p /\ i < p
      <4>1. i \in 1 .. n /\ j - 1 \in 1 .. n /\ i < j - 1
            /\ order'[i] = order[i] /\ order'[j] = order[j - 1]
        BY <1>0, <1>3, <1>5, <2>4, <3>3
      <4> QED
        BY <2>2, <4>1
    <3>4. CASE j > p /\ i = p
      <4>1. j - 1 \in p .. n /\ order'[i] = e /\ order'[j] = order[j - 1] /\ order[j - 1].key \in Int
        BY <1>0, <1>3, <1>5, <2>4, <3>4
      <4> QED
        BY <1>1, <2>1, <4>1
    <3>5. CASE j > p /\ i > p
      <4>1. i - 1 \in 1 .. n /\ j - 1 \in 1 .. n /\ i - 1 < j - 1
            /\ order'[i] = order[i - 1] /\ order'[j] = order[j - 1]
        BY <1>0, <1>3, <1>5, <2>4, <3>5
      <4> QED
        BY <2>2, <4>1
    <3> QED
      BY <1>0, <1>3, <3>1, <3>2, <3>3, <3>4, <3>5
  <2> QED
    BY <1>0, <1>2, <2>3, <2>4 DEF Sorted
<1> QED
  BY <1>0, <1>2, <1>3, <1>7, <1>8, <1>9

(* So does taking an entry out.                                            *)
LEMMA TakeKeeps ==
  ASSUME TInv, demo' = demo, NEW p \in 1 .. Len(order), TakenAt(p)
  PROVE  /\ order' \in Seq(Entry) /\ made' \in Nat /\ IdsDiffer'
         /\ T!Ids' = T!Ids \ {order[p].id} /\ live' = live \ T!freed_by_remove(p)
         /\ (demo = "rbtree" => Sorted)'
<1> DEFINE n == Len(order)
<1>0. /\ order \in Seq(Entry) /\ made \in Nat /\ n \in Nat /\ IdsDiffer
      /\ \A i \in 1 .. n : order[i].id \in Nat /\ order[i].key \in Int
  BY Rows
<1>1. order' = T!RemoveAt(order, p) /\ made' = made /\ live' = live \ T!freed_by_remove(p)
  BY DEF TakenAt
<1>2. /\ order' \in Seq(Entry) /\ Len(order') = n - 1
      /\ \A i \in 1 .. n - 1 : order'[i] = IF i < p THEN order[i] ELSE order[i + 1]
  BY <1>0, <1>1, RemoveAtIs
<1>3. p \in Nat /\ p >= 1 /\ p =< n
  BY <1>0
<1> HIDE DEF n
<1>4. \A i \in 1 .. n - 1 : /\ i < p => i \in 1 .. n /\ order'[i] = order[i]
                            /\ i >= p => i + 1 \in 1 .. n /\ order'[i] = order[i + 1]
  BY <1>0, <1>2, <1>3
<1>5. \A i \in 1 .. n : /\ i < p => i \in 1 .. n - 1 /\ order'[i] = order[i]
                        /\ i > p => i - 1 \in 1 .. n - 1 /\ order'[i - 1] = order[i]
  BY <1>0, <1>2, <1>3
<1>6. \A k, l \in 1 .. n : order[k].id = order[l].id => k = l
  BY <1>0 DEF IdsDiffer, n
<1>7. IdsDiffer'
  <2>1. ASSUME NEW i \in 1 .. n - 1 PROVE order'[i].id =< made
    BY <1>0, <1>3, <1>4, SMTT(20) DEF IdsDiffer, n
  <2>2. ASSUME NEW i \in 1 .. n - 1, NEW j \in 1 .. n - 1, order'[i].id = order'[j].id PROVE i = j
    <3> DEFINE from(k) == IF k < p THEN k ELSE k + 1
    <3>1. \A k \in 1 .. n - 1 : from(k) \in 1 .. n /\ order'[k] = order[from(k)]
      BY <1>0, <1>3, <1>4
    <3>2. from(i) = from(j) => i = j
      BY <1>0, <1>3
    <3> HIDE DEF from
    <3> QED
      BY <1>6, <2>2, <3>1, <3>2
  <2> QED
    BY <1>1, <1>2, <2>1, <2>2 DEF IdsDiffer
<1>8. T!Ids' = T!Ids \ {order[p].id}
  <2>0. DOMAIN order = 1 .. n /\ DOMAIN order' = 1 .. n - 1
    BY <1>0, <1>2 DEF n
  <2>1. ASSUME NEW i \in 1 .. n - 1 PROVE order'[i].id \in T!Ids \ {order[p].id}
    <3>1. PICK j \in 1 .. n : j # p /\ order'[i] = order[j]
      <4>1. CASE i < p
        BY <1>0, <1>3, <1>4, <4>1
      <4>2. CASE i >= p
        <5>1. i + 1 \in 1 .. n /\ i + 1 # p /\ order'[i] = order[i + 1]
          BY <1>0, <1>3, <1>4, <4>2
        <5> QED
          BY <5>1
      <4> QED
        BY <1>0, <1>3, <4>1, <4>2
    <3>2. order[j].id # order[p].id
      BY <1>3, <1>6, <3>1 DEF n
    <3> QED
      BY <2>0, <3>1, <3>2 DEF T!Ids
  <2>2. ASSUME NEW i \in 1 .. n, i # p PROVE order[i].id \in T!Ids'
    <3>1. PICK j \in 1 .. n - 1 : order'[j] = order[i]
      <4>1. CASE i < p
        BY <1>5, <4>1
      <4>2. CASE i > p
        <5>1. i - 1 \in 1 .. n - 1 /\ order'[i - 1] = order[i]
          BY <1>5, <4>2
        <5> QED
          BY <5>1
      <4> QED
        BY <1>3, <2>2, <4>1, <4>2
    <3> QED
      BY <2>0, <3>1 DEF T!Ids
  <2> QED
    BY <2>0, <2>1, <2>2 DEF T!Ids
<1>9. ASSUME demo = "rbtree" PROVE Sorted'
  <2>2. \A i, j \in 1 .. n : i < j => order[i].key < order[j].key
    BY <1>9 DEF TInv, Sorted, n
  <2>3. ASSUME NEW i \in 1 .. n - 1 PROVE order'[i].key \in Int
    <3>1. CASE i < p
      BY <1>0, <1>4, <3>1
    <3>2. CASE i >= p
      <4>1. i + 1 \in 1 .. n /\ order'[i] = order[i + 1]
        BY <1>4, <3>2
      <4> QED
        BY <1>0, <4>1
    <3> QED
      BY <1>3, <3>1, <3>2
  <2>4. ASSUME NEW i \in 1 .. n - 1, NEW j \in 1 .. n - 1, i < j
        PROVE  order'[i].key < order'[j].key
    <3> DEFINE from(k) == IF k < p THEN k ELSE k + 1
    <3>1. \A k \in 1 .. n - 1 : from(k) \in 1 .. n /\ order'[k] = order[from(k)]
      BY <1>0, <1>3, <1>4
    <3>2. from(i) < from(j)
      BY <1>0, <1>3, <2>4
    <3> HIDE DEF from
    <3> QED
      BY <2>2, <3>1, <3>2
  <2>5. Len(order') = n - 1 /\ n - 1 \in Nat
    BY <1>0, <1>2, <1>3
  <2>6. \A i \in 1 .. n - 1 : order'[i].key \in Int
    BY <2>3
  <2>7. \A i, j \in 1 .. n - 1 : i < j => order'[i].key < order'[j].key
    BY <2>4
  <2> QED
    BY <2>5, <2>6, <2>7, Zenon DEF Sorted
<1> QED
  BY <1>0, <1>1, <1>2, <1>7, <1>8, <1>9

(* Every step of a demonstration, and every other call, keeps the          *)
(* invariant.                                                              *)
LEMMA TablesStep ==
  ASSUME TInv, T!Next
  PROVE  TInv'
<1> USE StructuresAssumption
<1>0. /\ TType /\ IdsDiffer /\ Lives /\ (demo = "rbtree" => Sorted) /\ ip \in Nat
      /\ demo \in {"map", "rbtree", "interval", "rhashtable"} /\ order \in Seq(Entry) /\ made \in Nat
  BY DEF TInv, TType
<1>1. /\ demo' = demo /\ ip' \in Nat
      /\ demo = "rhashtable" => ip' > 0 /\ (ip' =< RH_ENTRIES + 1 => ip =< RH_ENTRIES + 1)
      /\ ip' > Len(T!Program) /\ demo # "interval" => order' = << >>
  BY StepEffect
<1>2. Over'
  <2>1. T!Program' = T!Program
    BY <1>1 DEF T!Program
  <2> QED
    BY <1>1, <2>1 DEF Over
<1>3. ASSUME order' \in Seq(Entry), made' \in Nat, IdsDiffer', (demo = "rbtree" => Sorted)', Lives'
      PROVE  TInv'
  BY <1>0, <1>1, <1>2, <1>3 DEF TInv, TType
<1>4. CASE Kept
  <2>1. order' = order /\ live' = live /\ made' = made
    BY <1>4 DEF Kept
  <2>2. T!Ids' = T!Ids
    BY <2>1 DEF T!Ids
  <2>3. Lives'
    BY <1>0, <1>1, <2>1, <2>2 DEF Lives
  <2>4. IdsDiffer' /\ (demo = "rbtree" => Sorted)'
    BY <1>0, <1>1, <2>1 DEF IdsDiffer, Sorted
  <2> QED
    BY <1>0, <1>3, <2>1, <2>3, <2>4
<1>5. ASSUME NEW p \in 1 .. Len(order) + 1, NEW key \in Int, NEW last \in Int, PutAt(p, key, last)
      PROVE  TInv'
  <2>1. /\ order' \in Seq(Entry) /\ made' \in Nat /\ IdsDiffer'
        /\ T!Ids' = T!Ids \cup {made + 1} /\ live' = live \cup {made + 1}
        /\ (demo = "rbtree" => Sorted)'
    BY <1>1, <1>5, PutKeeps
  <2>2. Lives'
    BY <1>0, <1>1, <2>1 DEF Lives
  <2> QED
    BY <1>3, <2>1, <2>2
<1>6. ASSUME NEW p \in 1 .. Len(order), TakenAt(p),
             demo = "rhashtable" => ip = RH_ENTRIES + 1 /\ ip' = RH_ENTRIES + 2
      PROVE  TInv'
  <2>1. /\ order' \in Seq(Entry) /\ made' \in Nat /\ IdsDiffer'
        /\ T!Ids' = T!Ids \ {order[p].id} /\ live' = live \ T!freed_by_remove(p)
        /\ (demo = "rbtree" => Sorted)'
    BY <1>1, <1>6, TakeKeeps
  <2>2. CASE demo # "rhashtable"
    <3>1. live' = live \ {order[p].id}
      BY <2>1, <2>2 DEF T!freed_by_remove
    <3>2. Lives'
      BY <1>0, <1>1, <2>1, <2>2, <3>1 DEF Lives
    <3> QED
      BY <1>3, <2>1, <3>2
  <2>3. CASE demo = "rhashtable"
    <3>1. live' = live /\ live = T!Ids
      BY <1>0, <1>6, <2>1, <2>3 DEF T!freed_by_remove, Lives
    <3>2. live' \ T!Ids' \subseteq {order[p].id} /\ T!Ids' \subseteq live'
      BY <2>1, <3>1
    <3>3. Lives'
      BY <1>1, <1>6, <2>3, <3>2, SMTT(20) DEF Lives
    <3> QED
      BY <1>3, <2>1, <3>3
  <2> QED
    BY <2>2, <2>3
<1>7. CASE Cleared
  <2>1. order' = << >> /\ live' = live \ T!Ids /\ made' = made
    BY <1>7 DEF Cleared
  <2>2. T!Ids' = {} /\ order' \in Seq(Entry) /\ Len(order') = 0
    BY <2>1 DEF T!Ids
  <2>3. Lives'
    BY <1>0, <1>1, <2>1, <2>2 DEF Lives
  <2>4. IdsDiffer' /\ (demo = "rbtree" => Sorted)'
    BY <2>2 DEF IdsDiffer, Sorted
  <2> QED
    BY <1>0, <1>3, <2>1, <2>2, <2>3, <2>4
<1> QED
  BY <1>4, <1>5, <1>6, <1>7, StepEffect

(* The invariant of the tables holds for any keys, any number of calls and *)
(* any number of entries of the rhashtable demonstration.                  *)
THEOREM TablesInv == T!Spec => []TInv
<1>1. ASSUME T!Init PROVE TInv
  <2>1. /\ order = << >> /\ live = {} /\ made = 0 /\ ip \in {0, 1} /\ (demo = "rhashtable" => ip = 1)
        /\ demo \in {"map", "rbtree", "interval", "rhashtable"}
    BY <1>1 DEF T!Init
  <2>2. T!Ids = {} /\ Len(order) = 0 /\ order \in Seq(Entry)
    BY <2>1 DEF T!Ids
  <2>3. TType /\ IdsDiffer /\ Sorted
    BY <2>1, <2>2 DEF TType, IdsDiffer, Sorted
  <2>4. Lives
    BY <2>1, <2>2 DEF Lives
  <2>5. Over
    BY <2>1 DEF Over
  <2> QED
    BY <2>3, <2>4, <2>5 DEF TInv
<1>2. ASSUME TInv, [T!Next]_(T!vars) PROVE TInv'
  <2>1. CASE UNCHANGED T!vars
    <3>1. UNCHANGED <<demo, ip, order, live, made>>
      BY <2>1 DEF T!vars
    <3>2. TType' /\ IdsDiffer'
      BY <1>2, <3>1 DEF TInv, TType, IdsDiffer
    <3>3. T!Ids' = T!Ids /\ Len(T!Program)' = Len(T!Program)
      BY <3>1 DEF T!Ids, T!Program
    <3>4. Lives'
      BY <1>2, <3>1, <3>3 DEF TInv, Lives
    <3>5. Over'
      BY <1>2, <3>1, <3>3 DEF TInv, Over
    <3>6. (demo = "rbtree" => Sorted)'
      BY <1>2, <3>1 DEF TInv, Sorted
    <3> QED
      BY <3>2, <3>4, <3>5, <3>6 DEF TInv
  <2> QED
    BY <1>2, <2>1, TablesStep
<1> QED
  BY <1>1, <1>2, PTL DEF T!Spec

(* insert_node and search_node come to the right place in a tree of any    *)
(* shape and any size, with any keys, and so the tree stays sorted.        *)
THEOREM TreeFindsTheorem == T!Spec => []TreeFinds
<1>1. ASSUME TInv PROVE TreeFinds
  <2> SUFFICES ASSUME demo = "rbtree"
               PROVE  /\ \A i, j \in 1 .. T!Entries : i < j => order[i].key < order[j].key
                      /\ \A key \in Keys : \A r \in T!descend(key) :
                           IF r.found THEN order[r.at].key = key
                           ELSE /\ \A i \in 1 .. r.at - 1 : order[i].key < key
                                /\ \A i \in r.at .. T!Entries : order[i].key > key
    BY DEF TreeFinds, T!TreeFinds
  <2>1. Sorted
    BY <1>1 DEF TInv
  <2>2. ASSUME NEW key \in Keys, NEW r \in T!descend(key)
        PROVE  IF r.found THEN order[r.at].key = key
               ELSE /\ \A i \in 1 .. r.at - 1 : order[i].key < key
                    /\ \A i \in r.at .. T!Entries : order[i].key > key
    <3>1. r \in Ends(key, 1, T!Entries)
      BY <2>1, DescendEnds, StructuresAssumption
    <3> QED
      BY <3>1 DEF Ends, Belongs
  <2> QED
    BY <2>1, <2>2 DEF Sorted, T!Entries
<1> QED
  BY <1>1, TablesInv, PTL

(* Whatever the calls, what is allocated is in its table; the rhashtable   *)
(* demonstration loses one entry, and the others but that of the interval  *)
(* tree leave nothing.                                                     *)
THEOREM EntriesAccountedTheorem == T!Spec => []EntriesAccounted
<1>1. ASSUME TInv PROVE EntriesAccounted
  <2>0. /\ order \in Seq(Entry) /\ Len(order) \in Nat /\ IdsDiffer /\ Lives /\ Over
    BY <1>1, Rows DEF TInv
  <2>1. T!Cardinality(T!Ids) = T!Entries
    <3> DEFINE f == [i \in 1 .. Len(order) |-> order[i].id]
    <3>1. T!Ids = {order[i].id : i \in 1 .. Len(order)}
      BY <2>0 DEF T!Ids
    <3>2. f \in Bijection(1 .. Len(order), T!Ids)
      BY <2>0, <3>1 DEF IdsDiffer, Bijection, Injection, Surjection, IsInjective
    <3>3. ExistsBijection(1 .. Len(order), T!Ids)
      BY <3>2 DEF ExistsBijection
    <3>4. IsFiniteSet(1 .. Len(order)) /\ Cardinality(1 .. Len(order)) = Len(order)
      BY <2>0, Upto
    <3>5. Cardinality(T!Ids) = Len(order)
      BY <3>3, <3>4, FS_Bijection
    <3> QED
      BY <3>5, TablesCount DEF T!Entries
  <2>2. T!Cardinality(live \ T!Ids) =< 1
    <3>1. PICK x : live \ T!Ids \subseteq {x}
      BY <2>0 DEF Lives
    <3>2. IsFiniteSet({x}) /\ Cardinality({x}) = 1
      BY FS_Singleton
    <3>3. Cardinality(live \ T!Ids) =< 1
      BY <3>1, <3>2, FS_Subset
    <3> QED
      BY <3>3, TablesCount
  <2> QED
    BY <2>0, <2>1, <2>2 DEF EntriesAccounted, T!EntriesAccounted, Lives, Over
<1> QED
  BY <1>1, TablesInv, PTL

-----------------------------------------------------------------------------
(* The containers.  q lists the nodes of a ring of n nodes in their order, *)
(* from the head, which is at 0 and at n + 1.                              *)
Ring(q, n) ==
  /\ n \in Nat /\ q \in [0 .. n + 1 -> 0 .. MaxNodes]
  /\ q[0] = 0 /\ q[n + 1] = 0
  /\ \A i \in 1 .. n : q[i] \in live
  /\ \A i, j \in 1 .. n : q[i] = q[j] => i = j
  /\ \A i \in 0 .. n : next[q[i]] = q[i + 1] /\ prev[q[i + 1]] = q[i]

(* The types of the pointers, the values and the nodes.                    *)
Pointers ==
  /\ next \in [0 .. MaxNodes -> 0 .. MaxNodes + 1]
  /\ prev \in [0 .. MaxNodes -> 0 .. MaxNodes + 1]
Memory ==
  /\ Pointers
  /\ live \subseteq 1 .. MaxNodes
  /\ value \in [1 .. MaxNodes -> Values \cup Int]

(* A list_add or list_del sets two pointers of a kind.                     *)
LEMMA TwoPointers ==
  ASSUME NEW A, NEW B, NEW f \in [A -> B], NEW x \in A, NEW y \in A, NEW u \in B, NEW v \in B,
         NEW g, g = [f EXCEPT ![x] = u, ![y] = v]
  PROVE  g \in [A -> B] /\ \A z \in A : g[z] = IF z = y THEN v ELSE IF z = x THEN u ELSE f[z]
OBVIOUS

(* The places of a ring are told apart by their nodes, with the head at    *)
(* either of its ends.                                                     *)
LEMMA NoNodeTwice ==
  ASSUME Memory, NEW q, NEW n, Ring(q, n)
  PROVE  /\ \A i, j \in 0 .. n : q[i] = q[j] => i = j
         /\ \A i, j \in 1 .. n + 1 : q[i] = q[j] => i = j
<1>1. n \in Nat /\ q[0] = 0 /\ q[n + 1] = 0 /\ \A i, j \in 1 .. n : q[i] = q[j] => i = j
  BY DEF Ring
<1>2. \A i \in 1 .. n : q[i] # 0
  BY StructuresAssumption DEF Ring, Memory
<1> QED
  BY <1>1, <1>2

(* list_add of a node that is not in the ring, behind the node at place j. *)
LEMMA RingGrows ==
  ASSUME Memory, NEW q, NEW n, Ring(q, n), NEW j \in 0 .. n,
         NEW m \in (1 .. MaxNodes) \ live, C!list_add(m, q[j]), live' = live \cup {m},
         NEW r, r = [i \in 0 .. n + 2 |-> IF i =< j THEN q[i] ELSE IF i = j + 1 THEN m ELSE q[i - 1]]
  PROVE  Pointers' /\ Ring(r, n + 1)'
<1> USE StructuresAssumption
<1>1. n \in Nat /\ q \in [0 .. n + 1 -> 0 .. MaxNodes] /\ q[0] = 0 /\ q[n + 1] = 0
  BY DEF Ring
<1>2. \A i \in 0 .. n : next[q[i]] = q[i + 1] /\ prev[q[i + 1]] = q[i]
  BY DEF Ring
<1>3. \A i \in 1 .. n : q[i] \in live
  BY DEF Ring
<1>4. \A i \in 0 .. n + 1 : q[i] # m
  BY <1>1, <1>3, SMTT(20)
<1>5. /\ \A i, k \in 0 .. n : q[i] = q[k] => i = k
      /\ \A i, k \in 1 .. n + 1 : q[i] = q[k] => i = k
  BY NoNodeTwice
<1>6. m \in 0 .. MaxNodes /\ q[j] \in 0 .. MaxNodes /\ q[j + 1] \in 0 .. MaxNodes /\ next[q[j]] = q[j + 1]
  BY <1>1, <1>2
<1>7. /\ next' \in [0 .. MaxNodes -> 0 .. MaxNodes + 1]
      /\ \A x \in 0 .. MaxNodes :
           next'[x] = IF x = m THEN q[j + 1] ELSE IF x = q[j] THEN m ELSE next[x]
  <2>1. next' = [next EXCEPT ![q[j]] = m, ![m] = q[j + 1]]
    BY <1>6 DEF C!list_add
  <2>2. next \in [0 .. MaxNodes -> 0 .. MaxNodes + 1]
    BY DEF Memory, Pointers
  <2>3. m \in 0 .. MaxNodes + 1 /\ q[j + 1] \in 0 .. MaxNodes + 1
    BY <1>6
  <2> QED
    BY <1>6, <2>1, <2>2, <2>3, TwoPointers
<1>8. /\ prev' \in [0 .. MaxNodes -> 0 .. MaxNodes + 1]
      /\ \A x \in 0 .. MaxNodes :
           prev'[x] = IF x = q[j + 1] THEN m ELSE IF x = m THEN q[j] ELSE prev[x]
  <2>1. prev' = [prev EXCEPT ![m] = q[j], ![q[j + 1]] = m]
    BY <1>6 DEF C!list_add
  <2>2. prev \in [0 .. MaxNodes -> 0 .. MaxNodes + 1]
    BY DEF Memory, Pointers
  <2>3. m \in 0 .. MaxNodes + 1 /\ q[j] \in 0 .. MaxNodes + 1
    BY <1>6
  <2> QED
    BY <1>6, <2>1, <2>2, <2>3, TwoPointers
<1>9. ASSUME NEW i \in 0 .. n + 2
      PROVE  r[i] = IF i =< j THEN q[i] ELSE IF i = j + 1 THEN m ELSE q[i - 1]
  OBVIOUS
<1>10. r \in [0 .. (n + 1) + 1 -> 0 .. MaxNodes] /\ r[0] = 0 /\ r[(n + 1) + 1] = 0
  BY <1>1, <1>6
<1>11. \A i \in 1 .. n + 1 : r[i] \in live'
  BY <1>1, <1>3, <1>9
<1>12. \A i, k \in 1 .. n + 1 : r[i] = r[k] => i = k
  BY <1>1, <1>4, <1>5, <1>9
<1>13. ASSUME NEW i \in 0 .. n + 1 PROVE next'[r[i]] = r[i + 1] /\ prev'[r[i + 1]] = r[i]
  <2>1. CASE i < j
    <3>1. r[i] = q[i] /\ r[i + 1] = q[i + 1] /\ i \in 0 .. n /\ i + 1 \in 0 .. n /\ i + 1 \in 1 .. n + 1
      BY <1>1, <1>9, <2>1
    <3>2. q[i] # q[j] /\ q[i + 1] # q[j + 1] /\ q[i] # m /\ q[i + 1] # m
      BY <1>1, <1>4, <1>5, <2>1, <3>1
    <3>3. q[i] \in 0 .. MaxNodes /\ q[i + 1] \in 0 .. MaxNodes
      BY <1>1, <3>1
    <3>4. next[q[i]] = q[i + 1] /\ prev[q[i + 1]] = q[i]
      BY <1>2, <3>1
    <3>5. next'[q[i]] = next[q[i]]
      BY <1>7, <3>2, <3>3
    <3>6. prev'[q[i + 1]] = prev[q[i + 1]]
      BY <1>8, <3>2, <3>3
    <3> QED
      BY <3>1, <3>4, <3>5, <3>6
  <2>2. CASE i = j
    <3>1. r[i] = q[j] /\ r[i + 1] = m
      BY <1>1, <1>9, <2>2
    <3>2. q[j] # m /\ q[j + 1] # m
      BY <1>1, <1>4
    <3> QED
      BY <1>6, <1>7, <1>8, <3>1, <3>2
  <2>3. CASE i = j + 1
    <3>1. r[i] = m /\ r[i + 1] = q[j + 1]
      BY <1>1, <1>9, <2>3
    <3> QED
      BY <1>6, <1>7, <1>8, <3>1
  <2>4. CASE i > j + 1
    <3>1. r[i] = q[i - 1] /\ r[i + 1] = q[i] /\ i - 1 \in 0 .. n /\ i \in 1 .. n + 1 /\ i - 1 # j /\ i # j + 1
      BY <1>1, <1>9, <2>4
    <3>2. q[i - 1] # q[j] /\ q[i] # q[j + 1] /\ q[i - 1] # m /\ q[i] # m
      BY <1>1, <1>4, <1>5, <3>1
    <3>3. q[i - 1] \in 0 .. MaxNodes /\ q[i] \in 0 .. MaxNodes
      BY <1>1, <3>1
    <3>4. next[q[i - 1]] = q[i] /\ prev[q[i]] = q[i - 1]
      BY <1>2, <3>1
    <3>5. next'[q[i - 1]] = next[q[i - 1]]
      BY <1>7, <3>2, <3>3
    <3>6. prev'[q[i]] = prev[q[i]]
      BY <1>8, <3>2, <3>3
    <3> QED
      BY <3>1, <3>4, <3>5, <3>6
  <2> QED
    BY <1>1, <2>1, <2>2, <2>3, <2>4
<1>14. n + 1 \in Nat
  BY <1>1
<1> QED
  BY <1>7, <1>8, <1>10, <1>11, <1>12, <1>13, <1>14 DEF Ring, Pointers

(* list_del of the node at place j.                                        *)
LEMMA RingShrinks ==
  ASSUME Memory, NEW q, NEW n, Ring(q, n), NEW j \in 1 .. n, C!list_del(q[j]),
         live' = live \ {q[j]} \/ live' = live,
         NEW r, r = [i \in 0 .. n |-> IF i < j THEN q[i] ELSE q[i + 1]]
  PROVE  Pointers' /\ Ring(r, n - 1)'
<1> USE StructuresAssumption
<1>1. n \in Nat /\ q \in [0 .. n + 1 -> 0 .. MaxNodes] /\ q[0] = 0 /\ q[n + 1] = 0
  BY DEF Ring
<1>2. \A i \in 0 .. n : next[q[i]] = q[i + 1] /\ prev[q[i + 1]] = q[i]
  BY DEF Ring
<1>3. \A i \in 1 .. n : q[i] \in live
  BY DEF Ring
<1>5. /\ \A i, k \in 0 .. n : q[i] = q[k] => i = k
      /\ \A i, k \in 1 .. n + 1 : q[i] = q[k] => i = k
  BY NoNodeTwice
<1>6. /\ q[j] \in 0 .. MaxNodes /\ q[j - 1] \in 0 .. MaxNodes /\ q[j + 1] \in 0 .. MaxNodes
      /\ next[q[j]] = q[j + 1] /\ prev[q[j]] = q[j - 1]
  <2>1. j - 1 \in 0 .. n /\ (j - 1) + 1 = j
    BY <1>1
  <2> QED
    BY <1>1, <1>2, <2>1
<1>7. /\ next' \in [0 .. MaxNodes -> 0 .. MaxNodes + 1]
      /\ \A x \in 0 .. MaxNodes :
           next'[x] = IF x = q[j] THEN MaxNodes + 1 ELSE IF x = q[j - 1] THEN q[j + 1] ELSE next[x]
  <2>1. next' = [next EXCEPT ![q[j - 1]] = q[j + 1], ![q[j]] = MaxNodes + 1]
    BY <1>6 DEF C!list_del, C!POISON
  <2>2. next \in [0 .. MaxNodes -> 0 .. MaxNodes + 1]
    BY DEF Memory, Pointers
  <2>3. q[j + 1] \in 0 .. MaxNodes + 1 /\ MaxNodes + 1 \in 0 .. MaxNodes + 1
    BY <1>6
  <2> QED
    BY <1>6, <2>1, <2>2, <2>3, TwoPointers
<1>8. /\ prev' \in [0 .. MaxNodes -> 0 .. MaxNodes + 1]
      /\ \A x \in 0 .. MaxNodes :
           prev'[x] = IF x = q[j] THEN MaxNodes + 1 ELSE IF x = q[j + 1] THEN q[j - 1] ELSE prev[x]
  <2>1. prev' = [prev EXCEPT ![q[j + 1]] = q[j - 1], ![q[j]] = MaxNodes + 1]
    BY <1>6 DEF C!list_del, C!POISON
  <2>2. prev \in [0 .. MaxNodes -> 0 .. MaxNodes + 1]
    BY DEF Memory, Pointers
  <2>3. q[j - 1] \in 0 .. MaxNodes + 1 /\ MaxNodes + 1 \in 0 .. MaxNodes + 1
    BY <1>6
  <2> QED
    BY <1>6, <2>1, <2>2, <2>3, TwoPointers
<1>9. ASSUME NEW i \in 0 .. n PROVE r[i] = IF i < j THEN q[i] ELSE q[i + 1]
  OBVIOUS
<1>10. n - 1 \in Nat /\ r \in [0 .. (n - 1) + 1 -> 0 .. MaxNodes] /\ r[0] = 0 /\ r[(n - 1) + 1] = 0
  BY <1>1
<1>11. ASSUME NEW i \in 1 .. n - 1 PROVE r[i] \in live'
  <2>1. r[i] \in live /\ r[i] # q[j]
    BY <1>1, <1>3, <1>5, <1>9
  <2> QED
    BY <2>1
<1>12. \A i, k \in 1 .. n - 1 : r[i] = r[k] => i = k
  BY <1>1, <1>5, <1>9
<1>13. ASSUME NEW i \in 0 .. n - 1 PROVE next'[r[i]] = r[i + 1] /\ prev'[r[i + 1]] = r[i]
  <2>1. CASE i < j - 1
    <3>1. r[i] = q[i] /\ r[i + 1] = q[i + 1] /\ i \in 0 .. n /\ i + 1 \in 1 .. n + 1 /\ i # j /\ i + 1 # j /\ i # j - 1
      BY <1>1, <1>9, <2>1
    <3>2. q[i] # q[j] /\ q[i] # q[j - 1] /\ q[i + 1] # q[j] /\ q[i + 1] # q[j + 1]
      BY <1>1, <1>5, <3>1
    <3>3. q[i] \in 0 .. MaxNodes /\ q[i + 1] \in 0 .. MaxNodes
      BY <1>1, <3>1
    <3>4. next[q[i]] = q[i + 1] /\ prev[q[i + 1]] = q[i]
      BY <1>2, <3>1
    <3> QED
      BY <1>7, <1>8, <3>1, <3>2, <3>3, <3>4
  <2>2. CASE i = j - 1
    <3>1. r[i] = q[j - 1] /\ r[i + 1] = q[j + 1]
      BY <1>1, <1>9, <2>2
    <3>2. q[j - 1] # q[j] /\ q[j + 1] # q[j]
      BY <1>1, <1>5
    <3> QED
      BY <1>6, <1>7, <1>8, <3>1, <3>2
  <2>3. CASE i > j - 1
    <3>1. r[i] = q[i + 1] /\ r[i + 1] = q[(i + 1) + 1] /\ i + 1 \in 1 .. n /\ (i + 1) + 1 \in 1 .. n + 1
          /\ i + 1 # j /\ i + 1 # j - 1 /\ (i + 1) + 1 # j /\ (i + 1) + 1 # j + 1
      BY <1>1, <1>9, <2>3
    <3>2. q[i + 1] # q[j] /\ q[i + 1] # q[j - 1] /\ q[(i + 1) + 1] # q[j] /\ q[(i + 1) + 1] # q[j + 1]
      BY <1>1, <1>5, <3>1
    <3>3. q[i + 1] \in 0 .. MaxNodes /\ q[(i + 1) + 1] \in 0 .. MaxNodes
      BY <1>1, <3>1
    <3>4. next[q[i + 1]] = q[(i + 1) + 1] /\ prev[q[(i + 1) + 1]] = q[i + 1]
      BY <1>2, <3>1
    <3> QED
      BY <1>7, <1>8, <3>1, <3>2, <3>3, <3>4
  <2> QED
    BY <1>1, <2>1, <2>2, <2>3
<1> QED
  BY <1>1, <1>7, <1>8, <1>10, <1>11, <1>12, <1>13 DEF Ring, Pointers

(* The steps from the head: there is such a function of every length.      *)
Hops(h, N) == h = [i \in 0 .. N |-> IF i = 0 THEN C!HEAD ELSE next[h[i - 1]]]

(* One is made from that of the length before.                             *)
LEMMA HopsExist == \A N \in Nat : \E h : Hops(h, N)
<1> DEFINE Bad == {N \in Nat : ~\E h : Hops(h, N)}
<1>1. 0 \notin Bad
  <2>1. Hops([i \in 0 .. 0 |-> C!HEAD], 0)
    BY DEF Hops
  <2> QED BY <2>1
<1>2. ASSUME NEW n \in Bad, \A m \in Bad : n =< m PROVE FALSE
  <2>1. n - 1 \in Nat /\ n - 1 \notin Bad
    BY <1>1, <1>2
  <2>2. PICK h : Hops(h, n - 1)
    BY <2>1
  <2> DEFINE g == [i \in 0 .. n |-> IF i = n THEN next[h[n - 1]] ELSE h[i]]
  <2>3. ASSUME NEW i \in 0 .. n PROVE g[i] = IF i = 0 THEN C!HEAD ELSE next[g[i - 1]]
    <3>1. ASSUME NEW k \in 0 .. n - 1 PROVE h[k] = IF k = 0 THEN C!HEAD ELSE next[h[k - 1]]
      BY <2>2, Zenon DEF Hops
    <3>2. n \in Nat /\ n > 0
      BY <2>1
    <3>3. CASE i < n
      <4>1. i \in 0 .. n - 1 /\ g[i] = h[i] /\ (i # 0 => g[i - 1] = h[i - 1])
        BY <3>2, <3>3
      <4> QED BY <3>1, <4>1
    <3>4. CASE i = n
      <4>1. i # 0 /\ g[i] = next[h[n - 1]] /\ g[i - 1] = h[n - 1]
        BY <3>2, <3>4
      <4> QED BY <4>1
    <3> QED BY <3>2, <3>3, <3>4
  <2>4. Hops(g, n)
    BY <2>3 DEF Hops
  <2> QED
    BY <2>4
<1>3. Bad = {}
  <2>1. Bad \subseteq Nat
    OBVIOUS
  <2> HIDE DEF Bad
  <2> QED BY <1>2, <2>1, Least
<1> QED
  BY <1>3

(* Hop is the function that its definition describes.                      *)
LEMMA HopIs ==
  /\ C!Hop(0) = 0
  /\ \A i \in 1 .. MaxNodes + 1 : C!Hop(i) = next[C!Hop(i - 1)]
<1> DEFINE g == CHOOSE h : h = [i \in 0 .. MaxNodes + 1 |-> IF i = 0 THEN C!HEAD ELSE next[h[i - 1]]]
<1>1. \E h : Hops(h, MaxNodes + 1)
  <2>1. MaxNodes + 1 \in Nat
    BY StructuresAssumption
  <2> QED BY <2>1, HopsExist
<1>2. Hops(g, MaxNodes + 1)
  BY <1>1, Zenon DEF Hops
<1>3. \A n : C!Hop(n) = g[n]
  BY Zenon DEF C!Hop
<1> HIDE DEF g
<1>4. ASSUME NEW i \in 0 .. MaxNodes + 1 PROVE g[i] = IF i = 0 THEN C!HEAD ELSE next[g[i - 1]]
  BY <1>2, Zenon DEF Hops
<1>5. C!HEAD = 0
  BY DEF C!HEAD
<1> QED
  BY <1>3, <1>4, <1>5, StructuresAssumption

(* No ring has more nodes than there are.                                  *)
LEMMA RingBounded ==
  ASSUME Memory, NEW q, NEW n, Ring(q, n)
  PROVE  n =< MaxNodes
<1>1. n \in Nat /\ \A i \in 1 .. n : q[i] \in 1 .. MaxNodes
  BY DEF Ring, Memory
<1> DEFINE f == [i \in 1 .. n |-> q[i]]
<1>2. f \in Injection(1 .. n, 1 .. MaxNodes)
  <2>1. f \in [1 .. n -> 1 .. MaxNodes]
    BY <1>1
  <2>2. \A i, j \in 1 .. n : f[i] = f[j] => i = j
    BY DEF Ring
  <2> QED
    BY <2>1, <2>2 DEF Injection, IsInjective
<1>3. /\ IsFiniteSet(1 .. MaxNodes) /\ Cardinality(1 .. MaxNodes) = MaxNodes
      /\ IsFiniteSet(1 .. n) /\ Cardinality(1 .. n) = n
  <2>1. MaxNodes \in Int /\ n \in Int /\ 1 \in Int
    BY <1>1, StructuresAssumption
  <2>2. /\ IsFiniteSet(1 .. MaxNodes) /\ IsFiniteSet(1 .. n)
        /\ Cardinality(1 .. MaxNodes) = IF 1 > MaxNodes THEN 0 ELSE MaxNodes - 1 + 1
        /\ Cardinality(1 .. n) = IF 1 > n THEN 0 ELSE n - 1 + 1
    BY <2>1, FS_Interval
  <2> QED
    BY <1>1, <2>2, StructuresAssumption
<1> HIDE DEF f
<1> QED
  BY <1>2, <1>3, FS_Injection

(* What the calls find in a ring: where the hops lead, how many nodes      *)
(* list_for_each visits and that the head is neither poisoned nor, unless  *)
(* there are no nodes, linked to itself.                                   *)
LEMMA Walk ==
  ASSUME Memory, NEW q, NEW n, Ring(q, n)
  PROVE  /\ n \in 0 .. MaxNodes
         /\ \A i \in 0 .. n + 1 : C!Hop(i) = q[i]
         /\ C!Length = n
         /\ ~C!Detached
         /\ C!list_empty <=> n = 0
         /\ next[0] = q[1] /\ prev[0] = q[n]
<1> USE StructuresAssumption
<1>1. n \in 0 .. MaxNodes
  <2>1. n \in Nat
    BY DEF Ring
  <2> QED
    BY <2>1, RingBounded
<1>2. q \in [0 .. n + 1 -> 0 .. MaxNodes] /\ q[0] = 0 /\ q[n + 1] = 0
  BY DEF Ring
<1>3. \A i \in 0 .. n : next[q[i]] = q[i + 1] /\ prev[q[i + 1]] = q[i]
  BY DEF Ring
<1>4. \A i \in 1 .. n : q[i] # 0
  BY DEF Ring, Memory
<1>5. \A i \in 0 .. n + 1 : C!Hop(i) = q[i]
  <2> DEFINE Bad == {i \in 0 .. n + 1 : C!Hop(i) # q[i]}
  <2>1. ASSUME NEW i \in Bad, \A m \in Bad : i =< m PROVE FALSE
    <3>1. i \in 0 .. n + 1 /\ C!Hop(i) # q[i]
      OBVIOUS
    <3>2. i # 0
      BY <1>2, <3>1, HopIs
    <3>3. i \in 1 .. MaxNodes + 1 /\ i - 1 \in 0 .. n /\ (i - 1) + 1 = i
      BY <1>1, <3>1, <3>2
    <3>4. i - 1 \notin Bad
      <4> HIDE DEF Bad
      <4> QED BY <2>1, <3>3, <3>1
    <3>5. C!Hop(i - 1) = q[i - 1]
      BY <1>1, <3>3, <3>4
    <3> QED
      BY <1>3, <3>1, <3>3, <3>5, HopIs
  <2>2. Bad = {}
    <3>1. Bad \subseteq Nat
      BY <1>1
    <3> HIDE DEF Bad
    <3> QED BY <2>1, <3>1, Least
  <2> QED
    BY <2>2
<1>6. next[0] = q[1] /\ prev[0] = q[n]
  <2>1. 0 \in 0 .. n /\ n \in 0 .. n
    BY <1>1
  <2> QED
    BY <1>1, <1>2, <1>3, <2>1
<1>7. q[1] \in 0 .. MaxNodes /\ (q[1] = 0 <=> n = 0)
  BY <1>1, <1>2, <1>4
<1>8. ~C!Detached /\ (C!list_empty <=> n = 0)
  BY <1>6, <1>7 DEF C!Detached, C!list_empty, C!HEAD, C!POISON
<1>9. C!Length = n
  <2> DEFINE P(k) == C!Hop(k + 1) = C!HEAD /\ \A i \in 1 .. k : C!Hop(i) # C!HEAD
  <2>1. P(n)
    BY <1>1, <1>2, <1>4, <1>5 DEF C!HEAD
  <2>2. ASSUME NEW k \in 0 .. MaxNodes, P(k) PROVE k = n
    <3>1. CASE k < n
      <4>1. k + 1 \in 1 .. n /\ k + 1 \in 0 .. n + 1
        BY <1>1, <3>1
      <4> QED
        BY <1>4, <1>5, <2>2, <4>1 DEF C!HEAD
    <3>2. CASE k > n
      <4>1. n + 1 \in 1 .. k
        BY <1>1, <3>2
      <4> QED
        BY <2>1, <2>2, <4>1
    <3> QED
      BY <1>1, <3>1, <3>2
  <2>3. C!Length = CHOOSE k \in 0 .. MaxNodes : P(k)
    BY Zenon DEF C!Length
  <2> HIDE DEF P
  <2> QED
    BY <1>1, <2>1, <2>2, <2>3
<1> QED
  BY <1>1, <1>5, <1>6, <1>8, <1>9


-----------------------------------------------------------------------------
(* What the calls do to a ring.                                            *)
Ready(q, n) ==
  /\ Memory /\ Ring(q, n)
  /\ kind \in {"list", "queue", "stack"}
  /\ count \in Nat
  /\ kind # "list" => count = n

Unmoved == UNCHANGED <<kind, next, prev, value, live, count>>
Declined == Unmoved /\ result' = << >>
Faulted == Unmoved /\ result' = << >> /\ oops' = TRUE

(* A node with the value v behind the one at place j.                      *)
Grown(q, n, j, v) ==
  \E m \in (1 .. MaxNodes) \ live :
  \E r : /\ r = [i \in 0 .. n + 2 |-> IF i =< j THEN q[i] ELSE IF i = j + 1 THEN m ELSE q[i - 1]]
         /\ Memory' /\ Ring(r, n + 1)'
         /\ value' = [value EXCEPT ![m] = v] /\ live' = live \cup {m}
         /\ kind' = kind /\ oops' = oops /\ result' = << >>

(* The node at place j is unlinked.                                        *)
Shrunk(q, n, j) ==
  \E r : /\ r = [i \in 0 .. n |-> IF i < j THEN q[i] ELSE q[i + 1]]
         /\ Memory' /\ Ring(r, n - 1)'
         /\ kind' = kind /\ oops' = oops

(* add_node behind a node of the ring, or a fault.                         *)
LEMMA AddNodeIs ==
  ASSUME NEW q, NEW n, Memory, Ring(q, n), NEW j \in 0 .. n, NEW v \in Values \cup Int, NEW c,
         C!add_node(v, q[j], c)
  PROVE  Faulted \/ (Grown(q, n, j, v) /\ count' = c)
<1>1. CASE C!Fault
  BY <1>1 DEF C!Fault, C!NoResult, C!ring, Faulted, Unmoved
<1>2. CASE ~C!Fault
  <2>1. PICK m :
          /\ m = CHOOSE k \in C!Nodes \ live : \A o \in C!Nodes \ live : k =< o
          /\ live # C!Nodes /\ C!list_add(m, q[j])
          /\ value' = [value EXCEPT ![m] = v] /\ live' = live \cup {m}
          /\ count' = c /\ result' = << >> /\ kind' = kind /\ oops' = oops
    BY <1>2, Zenon DEF C!add_node, C!NoResult
  <2>2. C!Nodes = 1 .. MaxNodes
    BY DEF C!Nodes
  <2>3. m \in (1 .. MaxNodes) \ live
    <3> DEFINE S == (1 .. MaxNodes) \ live
    <3>1. S \subseteq Nat
      OBVIOUS
    <3>2. S # {}
      BY <2>1, <2>2 DEF Memory
    <3>3. m = CHOOSE k \in S : \A o \in S : k =< o
      BY <2>1, <2>2, Zenon DEF S
    <3> HIDE DEF S
    <3>4. \E k \in S : \A o \in S : k =< o
      BY <3>1, <3>2, Least
    <3>5. m \in S
      BY <3>3, <3>4, Zenon
    <3> QED
      BY <3>5 DEF S
  <2> DEFINE r == [i \in 0 .. n + 2 |-> IF i =< j THEN q[i] ELSE IF i = j + 1 THEN m ELSE q[i - 1]]
  <2>4. Pointers' /\ Ring(r, n + 1)'
    BY <2>1, <2>3, RingGrows
  <2>5. Memory'
    <3>1. value' \in [1 .. MaxNodes -> Values \cup Int]
      BY <2>1, <2>3 DEF Memory
    <3>2. live' \subseteq 1 .. MaxNodes
      BY <2>1, <2>3 DEF Memory
    <3> QED
      BY <2>4, <3>1, <3>2 DEF Memory
  <2> HIDE DEF r
  <2>6. r = [i \in 0 .. n + 2 |-> IF i =< j THEN q[i] ELSE IF i = j + 1 THEN m ELSE q[i - 1]]
    BY DEF r
  <2>7. Grown(q, n, j, v)
    BY <2>1, <2>3, <2>4, <2>5, <2>6, Zenon DEF Grown
  <2> QED
    BY <2>1, <2>7
<1> QED
  BY <1>1, <1>2

(* link_list_push, enqueue and stack_push: at the end, or at the front of  *)
(* a stack.                                                                *)
LEMMA PushIs ==
  ASSUME NEW q, NEW n, Ready(q, n), NEW v \in Values \cup Int, C!push(v)
  PROVE  \/ Faulted
         \/ Grown(q, n, IF kind = "stack" THEN 0 ELSE n, v) /\ count' = count + 1
<1>1. Memory /\ Ring(q, n)
  BY DEF Ready
<1>2. n \in Nat /\ q[0] = 0
  BY <1>1 DEF Ring
<1>3. ~C!Detached /\ prev[0] = q[n]
  BY <1>1, Walk
<1>4. C!add_node(v, C!entry, count + 1)
  BY <1>3 DEF C!push
<1>5. C!entry = q[IF kind = "stack" THEN 0 ELSE n]
  BY <1>2, <1>3 DEF C!entry, C!HEAD
<1> DEFINE j == IF kind = "stack" THEN 0 ELSE n
<1>6. j \in 0 .. n
  BY <1>2
<1>7. C!add_node(v, q[j], count + 1)
  BY <1>4, <1>5, Zenon
<1> HIDE DEF j
<1>8. Faulted \/ (Grown(q, n, j, v) /\ count' = count + 1)
  BY <1>1, <1>6, <1>7, AddNodeIs
<1> QED
  BY <1>8 DEF j

(* link_list_pop, dequeue and stack_pop: the first node goes, if there is  *)
(* one and the count is not 0.                                             *)
LEMMA PopIs ==
  ASSUME NEW q, NEW n, Ready(q, n), C!pop
  PROVE  \/ (n = 0 \/ count = 0) /\ Declined /\ oops' = oops
         \/ /\ n > 0 /\ count > 0 /\ Shrunk(q, n, 1)
            /\ result' = <<value[q[1]]>>
            /\ live' = live \ {q[1]} /\ value' = [value EXCEPT ![q[1]] = 0]
            /\ count' = count - 1
<1>1. Memory /\ Ring(q, n) /\ count \in Nat
  BY DEF Ready
<1>2. n \in Nat /\ n \in 0 .. MaxNodes
  BY <1>1, Walk
<1>3. ~C!Detached /\ (C!list_empty <=> n = 0) /\ next[0] = q[1]
  BY <1>1, Walk
<1>4. CASE n = 0 \/ count = 0
  <2>1. C!Nothing
    BY <1>3, <1>4 DEF C!pop
  <2> QED
    BY <1>4, <2>1 DEF C!Nothing, C!NoResult, C!ring, Declined, Unmoved
<1>5. CASE ~(n = 0 \/ count = 0)
  <2>1. /\ C!list_del(q[1])
        /\ result' = <<value[q[1]]>>
        /\ live' = live \ {q[1]} /\ value' = [value EXCEPT ![q[1]] = 0]
        /\ count' = count - 1 /\ kind' = kind /\ oops' = oops
    BY <1>3, <1>5 DEF C!pop, C!HEAD
  <2>2. n > 0 /\ count > 0 /\ 1 \in 1 .. n
    BY <1>1, <1>2, <1>5
  <2> DEFINE r == [i \in 0 .. n |-> IF i < 1 THEN q[i] ELSE q[i + 1]]
  <2>3. Pointers' /\ Ring(r, n - 1)'
    BY <1>1, <2>1, <2>2, RingShrinks
  <2>4. q[1] \in 1 .. MaxNodes
    BY <1>1, <2>2 DEF Ring, Memory
  <2>5. Memory'
    <3>1. value' \in [1 .. MaxNodes -> Values \cup Int]
      BY <1>1, <2>1, <2>4 DEF Memory
    <3>2. live' \subseteq 1 .. MaxNodes
      BY <1>1, <2>1 DEF Memory
    <3> QED
      BY <2>3, <3>1, <3>2 DEF Memory
  <2> HIDE DEF r
  <2>6. r = [i \in 0 .. n |-> IF i < 1 THEN q[i] ELSE q[i + 1]]
    BY DEF r
  <2>7. Shrunk(q, n, 1)
    BY <2>1, <2>3, <2>5, <2>6, Zenon DEF Shrunk
  <2> QED
    BY <2>1, <2>2, <2>7
<1> QED
  BY <1>4, <1>5

(* The tests of link_list_get, link_list_insert and link_list_remove: the  *)
(* place that they find.                                                   *)
Place(n, i) == i \in 0 .. n - 1 /\ i < count

(* link_list_insert: behind the successor of the node at the index, which  *)
(* may be the head.                                                        *)
LEMMA InsertIs ==
  ASSUME NEW q, NEW n, Ready(q, n), NEW i \in Int, NEW v \in Values \cup Int, C!insert(i, v)
  PROVE  \/ ~Place(n, i) /\ Declined /\ oops' = oops
         \/ Place(n, i) /\ Faulted
         \/ /\ Place(n, i) /\ count' = count
            /\ Grown(q, n, IF i + 2 = n + 1 THEN 0 ELSE i + 2, v)
<1>1. Memory /\ Ring(q, n) /\ count \in Nat
  BY DEF Ready
<1>2. n \in 0 .. MaxNodes /\ ~C!Detached /\ (C!list_empty <=> n = 0) /\ C!Length = n
  BY <1>1, Walk
<1>3. CASE ~Place(n, i)
  <2>1. C!Nothing
    BY <1>1, <1>2, <1>3 DEF C!insert, C!At, Place
  <2> QED
    BY <1>3, <2>1 DEF C!Nothing, C!NoResult, C!ring, Declined, Unmoved
<1>4. CASE Place(n, i)
  <2>1. ~(count = 0 \/ C!list_empty \/ i >= count) /\ i \in 0 .. C!Length - 1
    BY <1>1, <1>2, <1>4 DEF Place
  <2>2. C!add_node(v, next[C!Hop(i + 1)], count)
    BY <1>2, <2>1 DEF C!insert, C!At
  <2>3. C!Hop(i + 1) = q[i + 1]
    <3>1. i + 1 \in 0 .. n + 1
      BY <1>2, <1>4 DEF Place
    <3> QED BY <1>1, <3>1, Walk
  <2>4. next[q[i + 1]] = q[(i + 1) + 1]
    <3>1. i + 1 \in 0 .. n
      BY <1>2, <1>4 DEF Place
    <3> QED BY <1>1, <3>1 DEF Ring
  <2> DEFINE j == IF i + 2 = n + 1 THEN 0 ELSE i + 2
  <2>5. j \in 0 .. n
    BY <1>2, <1>4 DEF Place
  <2>6. q[(i + 1) + 1] = q[j]
    <3>1. (i + 1) + 1 = i + 2
      OBVIOUS
    <3>2. q[0] = 0 /\ q[n + 1] = 0
      BY <1>1 DEF Ring
    <3> QED BY <3>1, <3>2
  <2> HIDE DEF j
  <2>7. C!add_node(v, q[j], count)
    BY <2>2, <2>3, <2>4, <2>6
  <2>8. Faulted \/ (Grown(q, n, j, v) /\ count' = count)
    BY <1>1, <2>5, <2>7, AddNodeIs
  <2> QED
    BY <1>4, <2>8 DEF j
<1> QED
  BY <1>3, <1>4

(* link_list_remove: the successor of the node at the index goes, which    *)
(* may be the head.                                                        *)
LEMMA RemoveIs ==
  ASSUME NEW q, NEW n, Ready(q, n), NEW i \in Int, C!remove(i)
  PROVE  \/ ~Place(n, i) /\ Declined /\ oops' = oops
         \/ /\ Place(n, i) /\ i = n - 1
            /\ Memory' /\ C!Detached' /\ kind' = kind /\ result' = << >>
            /\ UNCHANGED <<value, live, count, oops>>
         \/ /\ Place(n, i) /\ i + 2 \in 1 .. n /\ Shrunk(q, n, i + 2) /\ result' = << >>
            /\ UNCHANGED <<value, live, count>>
<1> USE StructuresAssumption
<1>1. Memory /\ Ring(q, n) /\ count \in Nat
  BY DEF Ready
<1>2. n \in 0 .. MaxNodes /\ ~C!Detached /\ (C!list_empty <=> n = 0) /\ C!Length = n
  BY <1>1, Walk
<1>3. CASE ~Place(n, i)
  <2>1. C!Nothing
    BY <1>1, <1>2, <1>3 DEF C!remove, C!At, Place
  <2> QED
    BY <1>3, <2>1 DEF C!Nothing, C!NoResult, C!ring, Declined, Unmoved
<1>4. CASE Place(n, i)
  <2>1. ~(count = 0 \/ C!list_empty \/ i >= count) /\ i \in 0 .. C!Length - 1
    BY <1>1, <1>2, <1>4 DEF Place
  <2>2. /\ C!list_del(next[C!Hop(i + 1)])
        /\ result' = << >> /\ UNCHANGED <<kind, value, live, count, oops>>
    BY <1>2, <2>1 DEF C!remove, C!At, C!NoResult
  <2>3. C!Hop(i + 1) = q[i + 1]
    <3>1. i + 1 \in 0 .. n + 1
      BY <1>2, <1>4 DEF Place
    <3> QED BY <1>1, <3>1, Walk
  <2>4. next[q[i + 1]] = q[(i + 1) + 1]
    <3>1. i + 1 \in 0 .. n
      BY <1>2, <1>4 DEF Place
    <3> QED BY <1>1, <3>1 DEF Ring
  <2>5. (i + 1) + 1 = i + 2
    OBVIOUS
  <2>6. C!list_del(q[i + 2])
    BY <2>2, <2>3, <2>4, <2>5
  <2>7. CASE i = n - 1
    <3>1. q[i + 2] = 0
      <4>1. i + 2 = n + 1
        BY <1>2, <2>7
      <4> QED BY <1>1, <4>1 DEF Ring
    <3>2. /\ next' = [next EXCEPT ![prev[0]] = next[0], ![0] = MaxNodes + 1]
          /\ prev' = [prev EXCEPT ![next[0]] = prev[0], ![0] = MaxNodes + 1]
      BY <2>6, <3>1 DEF C!list_del, C!POISON
    <3>3. /\ next \in [0 .. MaxNodes -> 0 .. MaxNodes + 1]
          /\ prev \in [0 .. MaxNodes -> 0 .. MaxNodes + 1]
      BY <1>1 DEF Memory, Pointers
    <3>4. next[0] \in 0 .. MaxNodes /\ prev[0] \in 0 .. MaxNodes
      <4>1. next[0] = q[1] /\ prev[0] = q[n]
        BY <1>1, Walk
      <4>2. q \in [0 .. n + 1 -> 0 .. MaxNodes] /\ 1 \in 0 .. n + 1 /\ n \in 0 .. n + 1
        BY <1>1, <1>2 DEF Ring
      <4> QED BY <4>1, <4>2
    <3>5. MaxNodes + 1 \in 0 .. MaxNodes + 1 /\ next[0] \in 0 .. MaxNodes + 1 /\ prev[0] \in 0 .. MaxNodes + 1 /\ 0 \in 0 .. MaxNodes
      BY <3>4
    <3>6. next' \in [0 .. MaxNodes -> 0 .. MaxNodes + 1] /\ next'[0] = MaxNodes + 1
      BY <3>2, <3>3, <3>4, <3>5, TwoPointers
    <3>7. prev' \in [0 .. MaxNodes -> 0 .. MaxNodes + 1]
      BY <3>2, <3>3, <3>4, <3>5, TwoPointers
    <3>8. Memory' /\ C!Detached'
      BY <1>1, <2>2, <3>6, <3>7 DEF Memory, Pointers, C!Detached, C!HEAD, C!POISON
    <3> QED
      BY <1>4, <2>2, <2>7, <3>8
  <2>8. CASE i # n - 1
    <3>1. i + 2 \in 1 .. n
      BY <1>2, <1>4, <2>8 DEF Place
    <3> DEFINE r == [k \in 0 .. n |-> IF k < i + 2 THEN q[k] ELSE q[k + 1]]
    <3>2. Pointers' /\ Ring(r, n - 1)'
      BY <1>1, <2>2, <2>6, <3>1, RingShrinks
    <3>3. Memory'
      BY <1>1, <2>2, <3>2 DEF Memory
    <3> HIDE DEF r
    <3>4. r = [k \in 0 .. n |-> IF k < i + 2 THEN q[k] ELSE q[k + 1]]
      BY DEF r
    <3>5. Shrunk(q, n, i + 2)
      BY <2>2, <3>2, <3>3, <3>4, Zenon DEF Shrunk
    <3> QED
      BY <1>4, <2>2, <3>1, <3>5
  <2> QED
    BY <2>7, <2>8
<1> QED
  BY <1>3, <1>4

(* link_list_get changes nothing and gives a value of the ring, if any.    *)
LEMMA GetIs ==
  ASSUME NEW q, NEW n, Ready(q, n), NEW i \in Int, C!get(i)
  PROVE  Unmoved /\ (result' = << >> \/ \E k \in 1 .. n : result' = <<value[q[k]]>>)
<1>1. Memory /\ Ring(q, n) /\ count \in Nat
  BY DEF Ready
<1>2. /\ n \in 0 .. MaxNodes /\ ~C!Detached /\ (C!list_empty <=> n = 0) /\ C!Length = n
      /\ prev[0] = q[n]
  BY <1>1, Walk
<1>3. CASE count = 0 \/ C!list_empty \/ i >= count
  <2>1. C!Nothing
    BY <1>3 DEF C!get, C!At
  <2> QED
    BY <2>1 DEF C!Nothing, C!NoResult, C!ring, Unmoved
<1>4. CASE ~(count = 0 \/ C!list_empty \/ i >= count)
  <2>1. CASE i \in 0 .. n - 1
    <3>1. result' = <<value[C!Hop(i + 1)]>> /\ Unmoved
      BY <1>2, <1>4, <2>1 DEF C!get, C!At, C!ring, Unmoved
    <3>2. i + 1 \in 1 .. n /\ C!Hop(i + 1) = q[i + 1]
      <4>1. i + 1 \in 1 .. n /\ i + 1 \in 0 .. n + 1
        BY <1>2, <2>1
      <4> QED BY <1>1, <4>1, Walk
    <3> QED
      BY <3>1, <3>2
  <2>2. CASE i \notin 0 .. n - 1
    <3>1. result' = <<value[prev[0]]>> /\ Unmoved
      BY <1>2, <1>4, <2>2 DEF C!get, C!At, C!ring, C!HEAD, Unmoved
    <3>2. n \in 1 .. n
      BY <1>2, <1>4
    <3> QED
      BY <1>2, <3>1, <3>2
  <2> QED
    BY <2>1, <2>2
<1> QED
  BY <1>3, <1>4

(* to_string changes nothing and gives the values, if any.                 *)
LEMMA ToStringIs ==
  ASSUME NEW q, NEW n, Ready(q, n), C!to_string
  PROVE  \/ Declined
         \/ Unmoved /\ result' = C!Contents
<1>1. CASE C!Nothing \/ C!Fault
  BY <1>1 DEF C!Nothing, C!Fault, C!NoResult, C!ring, Unmoved, Declined
<1>2. CASE ~(C!Nothing \/ C!Fault)
  BY <1>2 DEF C!to_string, C!ring, Unmoved
<1> QED
  BY <1>1, <1>2

(* del_link_list, del_queue and del_stack leave no container and all nodes *)
(* allocated.                                                              *)
LEMMA DelIs ==
  ASSUME NEW q, NEW n, Ready(q, n), C!del
  PROVE  /\ kind' = "none" /\ count' = 0 /\ result' = << >>
         /\ Memory' /\ UNCHANGED <<live, oops>>
<1>1. Memory /\ ~C!Detached
  BY Walk DEF Ready
<1>2. /\ kind' = "none" /\ count' = 0 /\ result' = << >> /\ UNCHANGED <<value, live, oops>>
      /\ next' = [k \in {C!HEAD} \cup C!Nodes |-> C!POISON]
      /\ prev' = [k \in {C!HEAD} \cup C!Nodes |-> C!POISON]
  BY <1>1 DEF C!del, C!NoResult
<1>3. {C!HEAD} \cup C!Nodes = 0 .. MaxNodes /\ C!POISON \in 0 .. MaxNodes + 1
  BY StructuresAssumption DEF C!HEAD, C!Nodes, C!POISON
<1>4. Memory'
  BY <1>1, <1>2, <1>3 DEF Memory, Pointers
<1> QED
  BY <1>2, <1>4

(* add_link_list, add_queue and add_stack make an empty ring, or fault.    *)
LEMMA AddIs ==
  ASSUME NEW k, Memory, C!add(k)
  PROVE  /\ kind = "none" /\ result' = << >> /\ live' = live
         /\ \/ Faulted
            \/ /\ kind' = k /\ count' = 0 /\ oops' = oops /\ Memory'
               /\ \E q : Ring(q, 0)'
<1> USE StructuresAssumption
<1>1. CASE C!Fault
  BY <1>1 DEF C!add, C!Fault, C!NoResult, C!ring, Faulted, Unmoved
<1>2. CASE ~C!Fault
  <2>1. /\ kind = "none" /\ result' = << >> /\ kind' = k /\ count' = 0
        /\ next' = [next EXCEPT ![0] = 0] /\ prev' = [prev EXCEPT ![0] = 0]
        /\ UNCHANGED <<value, live, oops>>
    BY <1>2 DEF C!add, C!NoResult, C!HEAD
  <2>2. Memory' /\ next'[0] = 0 /\ prev'[0] = 0
    BY <2>1 DEF Memory, Pointers
  <2> DEFINE q == [i \in 0 .. 1 |-> 0]
  <2>3. q \in [0 .. 0 + 1 -> 0 .. MaxNodes] /\ q[0] = 0 /\ q[0 + 1] = 0
    OBVIOUS
  <2>4. Ring(q, 0)'
    <3> HIDE DEF q
    <3> QED BY <2>2, <2>3 DEF Ring
  <2> QED
    BY <2>1, <2>2, <2>4
<1> QED
  BY <1>1, <1>2

-----------------------------------------------------------------------------
(* A call with an int as its index and something to store as its value.    *)
Proper(c) == c.index \in Int /\ c.value \in Values \cup Int

(* A call that changes no pointer keeps the ring.                          *)
LEMMA UnmovedReady ==
  ASSUME NEW q, NEW n, Ready(q, n), Unmoved
  PROVE  Ready(q, n)'
<1>1. Memory'
  BY DEF Ready, Unmoved, Memory, Pointers
<1>2. Ring(q, n)'
  BY DEF Ready, Unmoved, Ring
<1> QED
  BY <1>1, <1>2 DEF Ready, Unmoved

(* There are finitely many nodes.                                          *)
LEMMA LiveCount ==
  ASSUME Memory
  PROVE  IsFiniteSet(live) /\ Cardinality(live) \in Nat
<1>1. IsFiniteSet(1 .. MaxNodes)
  BY FS_Interval, StructuresAssumption
<1> QED
  BY <1>1, FS_Subset, FS_CardinalityType DEF Memory

(* A ring that has grown is a ring, and one more node is allocated.        *)
LEMMA GrownReady ==
  ASSUME NEW q, NEW n, Ready(q, n), NEW j, NEW v, Grown(q, n, j, v),
         count' \in Nat, kind # "list" => count' = n + 1
  PROVE  /\ \E r : Ready(r, n + 1)'
         /\ Cardinality(live)' = Cardinality(live) + 1
         /\ kind' = kind /\ oops' = oops /\ result' = << >>
<1>1. PICK m \in (1 .. MaxNodes) \ live :
      \E r : /\ Memory' /\ Ring(r, n + 1)' /\ live' = live \cup {m}
             /\ kind' = kind /\ oops' = oops /\ result' = << >>
  BY Zenon DEF Grown
<1>2. PICK r : Memory' /\ Ring(r, n + 1)'
  BY <1>1
<1>3. kind' \in {"list", "queue", "stack"}
  BY <1>1 DEF Ready
<1>4. Ready(r, n + 1)'
  BY <1>1, <1>2, <1>3 DEF Ready
<1>5. IsFiniteSet(live)
  BY LiveCount DEF Ready
<1>6. Cardinality(live \cup {m}) = Cardinality(live) + 1
  BY <1>5, FS_AddElement
<1> QED
  BY <1>1, <1>4, <1>6

(* A ring that has shrunk is a ring.                                       *)
LEMMA ShrunkReady ==
  ASSUME NEW q, NEW n, Ready(q, n), NEW j, Shrunk(q, n, j),
         count' \in Nat, kind # "list" => count' = n - 1
  PROVE  \E r : Ready(r, n - 1)'
<1>1. PICK r : Memory' /\ Ring(r, n - 1)' /\ kind' = kind
  BY Zenon DEF Shrunk
<1>2. kind' \in {"list", "queue", "stack"}
  BY <1>1 DEF Ready
<1>3. Ready(r, n - 1)'
  BY <1>1, <1>2 DEF Ready
<1> QED
  BY <1>3

(* A list whose head has been unlinked stays as it is.                     *)
LEMMA BrokenStays ==
  ASSUME kind = "list", C!Detached, NEW c, C!Do(c)
  PROVE  Unmoved /\ (result' = << >> \/ result' = <<count>>)
<1>1. CASE C!Nothing \/ C!Fault
  BY <1>1 DEF C!Nothing, C!Fault, C!NoResult, C!ring, Unmoved
<1>2. CASE C!len
  BY <1>2 DEF C!len, C!ring, Unmoved
<1>3. ~C!add(c.op)
  BY DEF C!add
<1>4. C!link_list(c)
  BY <1>3 DEF C!Do, C!queue, C!stack
<1>5. C!common(c) => C!Nothing \/ C!Fault \/ C!len
  BY DEF C!common, C!push, C!pop, C!to_string, C!del
<1>6. C!get(c.index) => C!Nothing \/ C!Fault
  BY DEF C!get, C!At
<1>7. C!insert(c.index, c.value) => C!Nothing \/ C!Fault
  BY DEF C!insert, C!At
<1>8. C!remove(c.index) => C!Nothing \/ C!Fault
  BY DEF C!remove, C!At
<1> QED
  BY <1>1, <1>2, <1>4, <1>5, <1>6, <1>7, <1>8 DEF C!link_list

(* The calls that can be made of a container.                              *)
LEMMA DoIs ==
  ASSUME NEW c, C!Do(c), kind \in {"list", "queue", "stack"}
  PROVE  \/ c.op = "push" /\ C!push(c.value)
         \/ c.op = "pop" /\ C!pop
         \/ c.op = "len" /\ C!len
         \/ c.op = "to_string" /\ C!to_string
         \/ c.op = "del" /\ C!del
         \/ c.op = "get" /\ kind = "list" /\ C!get(c.index)
         \/ c.op = "insert" /\ kind = "list" /\ C!insert(c.index, c.value)
         \/ c.op = "remove" /\ kind = "list" /\ C!remove(c.index)
<1>1. ~C!add(c.op)
  BY DEF C!add
<1>2. C!link_list(c) \/ C!queue(c) \/ C!stack(c)
  BY <1>1 DEF C!Do
<1> HIDE DEF C!push, C!pop, C!len, C!to_string, C!del, C!get, C!insert, C!remove
<1> QED
  BY <1>2, Zenon DEF C!link_list, C!queue, C!stack, C!common

(* The container after a call.                                             *)
Whole ==
  /\ Memory /\ count \in Nat
  /\ kind \in {"none", "list", "queue", "stack"}
  /\ \/ kind = "none"
     \/ kind = "list" /\ C!Detached
     \/ \E q, n : Ready(q, n)

(* A container with a ring is whole.                                       *)
LEMMA ReadyWhole ==
  ASSUME NEW q, NEW n, Ready(q, n)'
  PROVE  Whole'
<1>1. (kind \in {"list", "queue", "stack"})' /\ Memory' /\ (count \in Nat)'
  BY DEF Ready
<1>2. (\E r, m : Ready(r, m))'
  BY Zenon
<1> QED
  BY <1>1, <1>2 DEF Whole

(* Every call of a container with a ring leaves a whole container.         *)
LEMMA ReadyStep ==
  ASSUME NEW q, NEW n, Ready(q, n), NEW c, Proper(c), C!Do(c)
  PROVE  Whole'
<1>1. kind \in {"list", "queue", "stack"} /\ count \in Nat /\ n \in Nat /\ (kind # "list" => count = n)
  BY DEF Ready, Ring
<1>2. c.index \in Int /\ c.value \in Values \cup Int
  BY DEF Proper
<1>3. ASSUME Unmoved PROVE Whole'
  BY <1>3, UnmovedReady, ReadyWhole
<1>4. CASE C!push(c.value)
  <2>1. CASE Faulted
    BY <2>1, <1>3 DEF Faulted
  <2>2. CASE ~Faulted
    <3> DEFINE j == IF kind = "stack" THEN 0 ELSE n
    <3>1. Grown(q, n, j, c.value) /\ count' = count + 1
      BY <1>2, <1>4, <2>2, PushIs
    <3> HIDE DEF j
    <3>2. PICK k, v : Grown(q, n, k, v)
      BY <3>1, Zenon
    <3>3. \E r : Ready(r, n + 1)'
      BY <1>1, <3>1, <3>2, GrownReady
    <3> QED
      BY <3>3, ReadyWhole
  <2> QED
    BY <2>1, <2>2
<1>5. CASE C!pop
  <2>1. CASE Declined
    BY <2>1, <1>3 DEF Declined
  <2>2. CASE ~Declined
    <3>1. n > 0 /\ count > 0 /\ Shrunk(q, n, 1) /\ count' = count - 1
      BY <1>5, <2>2, PopIs
    <3>2. \E r : Ready(r, n - 1)'
      BY <1>1, <3>1, ShrunkReady
    <3> QED
      BY <3>2, ReadyWhole
  <2> QED
    BY <2>1, <2>2
<1>6. CASE C!len
  BY <1>3, <1>6 DEF C!len, C!ring, Unmoved
<1>7. CASE C!to_string
  BY <1>3, <1>7, ToStringIs DEF Declined
<1>8. CASE C!del
  BY <1>8, DelIs DEF Whole
<1>9. CASE C!get(c.index)
  BY <1>2, <1>3, <1>9, GetIs
<1>10. CASE kind = "list" /\ C!insert(c.index, c.value)
  <2>1. CASE Unmoved
    BY <2>1, <1>3
  <2>2. CASE ~Unmoved
    <3>1. count' = count /\ \E k, v : Grown(q, n, k, v)
      BY <1>2, <1>10, <2>2, InsertIs, Zenon DEF Declined, Faulted
    <3>2. PICK k, v : Grown(q, n, k, v)
      BY <3>1
    <3>3. \E r : Ready(r, n + 1)'
      BY <1>1, <1>10, <3>1, <3>2, GrownReady
    <3> QED
      BY <3>3, ReadyWhole
  <2> QED
    BY <2>1, <2>2
<1>11. CASE kind = "list" /\ C!remove(c.index)
  <2>1. CASE Unmoved
    BY <2>1, <1>3
  <2>2. CASE Memory' /\ C!Detached' /\ kind' = kind /\ count' = count
    BY <1>1, <1>11, <2>2 DEF Whole
  <2>3. CASE count' = count /\ \E k : Shrunk(q, n, k)
    <3>1. \E r : Ready(r, n - 1)'
      BY <1>1, <1>11, <2>3, ShrunkReady
    <3> QED
      BY <3>1, ReadyWhole
  <2> QED
    BY <1>2, <1>11, <2>1, <2>2, <2>3, RemoveIs, Zenon DEF Declined
<1> QED
  BY <1>1, <1>4, <1>5, <1>6, <1>7, <1>8, <1>9, <1>10, <1>11, DoIs

-----------------------------------------------------------------------------
(* The calls that list_init makes, and what it has made by each of them:   *)
(* the container, its nodes, its count and the nodes that are allocated.   *)
(* The node that link_list_insert adds is not counted, and the one that    *)
(* link_list_remove unlinks stays allocated.                               *)
KindAt(i) ==
  IF i \in {1, 15, 27, 39} THEN "none"
  ELSE IF i < 15 THEN "list" ELSE IF i < 27 THEN "queue" ELSE "stack"
SizeAt(i) ==
  CASE i \in {3, 11, 12, 17, 23, 24, 29, 35, 36} -> 1
    [] i \in {4, 9, 10, 18, 21, 22, 30, 33, 34} -> 2
    [] i \in {5, 7, 8, 19, 20, 31, 32} -> 3
    [] i = 6 -> 4
    [] OTHER -> 0
CountAt(i) == IF i = 6 THEN 3 ELSE SizeAt(i)
LiveAt(i) == IF i =< 6 THEN SizeAt(i) ELSE SizeAt(i) + 1

ListOps == {"list", "queue", "stack", "push", "pop", "len", "to_string", "del", "insert", "remove"}
ListCalls == [op : ListOps, index : Int, value : Int]

(* A call of list_init.                                                    *)
LEMMA ListCallIs ==
  ASSUME NEW o \in ListOps, NEW i \in Int, NEW v \in Int
  PROVE  /\ C!Call(o, i, v) \in ListCalls
         /\ C!Call(o, i, v).op = o /\ C!Call(o, i, v).index = i
BY DEF C!Call, ListCalls

(* A sequence of four calls.                                               *)
LEMMA FourCalls ==
  ASSUME NEW S, NEW w \in S, NEW x \in S, NEW y \in S, NEW z \in S, NEW s, s = <<w, x, y, z>>
  PROVE  s \in Seq(S) /\ Len(s) = 4 /\ s[1] = w /\ s[2] = x /\ s[3] = y /\ s[4] = z
OBVIOUS

(* The calls of list_init, one by one.                                     *)
LEMMA ListInitIs ==
  /\ Len(C!list_init) = 38 /\ DOMAIN C!list_init = 1 .. 38
  /\ \A i \in {1, 15, 27} : C!list_init[i].op = KindAt(i + 1)
  /\ \A i \in {2, 3, 4, 16, 17, 18, 28, 29, 30} : C!list_init[i].op = "push"
  /\ C!list_init[5].op = "insert" /\ C!list_init[5].index = 1
  /\ C!list_init[6].op = "remove" /\ C!list_init[6].index = 2
  /\ \A i \in {7, 19, 31} : C!list_init[i].op = "to_string"
  /\ \A i \in {8, 10, 12, 20, 22, 24, 32, 34, 36} : C!list_init[i].op = "pop"
  /\ \A i \in {9, 11, 13, 21, 23, 25, 33, 35, 37} : C!list_init[i].op = "len"
  /\ \A i \in {14, 26, 38} : C!list_init[i].op = "del"
  /\ \A i \in 1 .. 38 : Proper(C!list_init[i])
<1> DEFINE S == ListCalls
           I == <<C!Call("insert", 1, 4), C!Call("remove", 2, 0)>>
           P == C!Printed
           A == C!Pushed("list")
           B == C!Pushed("queue")
           D == C!Pushed("stack")
<1>1. ASSUME NEW k \in ListOps
      PROVE  /\ C!Pushed(k) \in Seq(S) /\ Len(C!Pushed(k)) = 4
             /\ C!Pushed(k)[1].op = k
             /\ \A i \in 2 .. 4 : C!Pushed(k)[i].op = "push"
  <2>1. /\ C!Call(k, 0, 0) \in S /\ C!Call(k, 0, 0).op = k
        /\ C!Call("push", 0, 1) \in S /\ C!Call("push", 0, 1).op = "push"
        /\ C!Call("push", 0, 2) \in S /\ C!Call("push", 0, 2).op = "push"
        /\ C!Call("push", 0, 3) \in S /\ C!Call("push", 0, 3).op = "push"
    <3>1. \A o \in ListOps, i \in Int, v \in Int :
            /\ C!Call(o, i, v) \in ListCalls
            /\ C!Call(o, i, v).op = o /\ C!Call(o, i, v).index = i
      BY ListCallIs
    <3> HIDE DEF ListCalls
    <3> QED BY <3>1 DEF ListOps
  <2>2. C!Pushed(k) = <<C!Call(k, 0, 0), C!Call("push", 0, 1), C!Call("push", 0, 2), C!Call("push", 0, 3)>>
    BY Zenon DEF C!Pushed
  <2> HIDE DEF S
  <2>3. /\ C!Pushed(k) \in Seq(S) /\ Len(C!Pushed(k)) = 4
        /\ C!Pushed(k)[1] = C!Call(k, 0, 0) /\ C!Pushed(k)[2] = C!Call("push", 0, 1)
        /\ C!Pushed(k)[3] = C!Call("push", 0, 2) /\ C!Pushed(k)[4] = C!Call("push", 0, 3)
    BY <2>1, <2>2, FourCalls
  <2> QED
    BY <2>1, <2>3
<1>2. /\ P \in Seq(S) /\ Len(P) = 8
      /\ P[1].op = "to_string" /\ P[2].op = "pop" /\ P[3].op = "len" /\ P[4].op = "pop"
      /\ P[5].op = "len" /\ P[6].op = "pop" /\ P[7].op = "len" /\ P[8].op = "del"
  <2>1. /\ C!Call("to_string", 0, 0) \in S /\ C!Call("to_string", 0, 0).op = "to_string"
        /\ C!Call("pop", 0, 0) \in S /\ C!Call("pop", 0, 0).op = "pop"
        /\ C!Call("len", 0, 0) \in S /\ C!Call("len", 0, 0).op = "len"
        /\ C!Call("del", 0, 0) \in S /\ C!Call("del", 0, 0).op = "del"
    <3>1. \A o \in ListOps, i \in Int, v \in Int :
            /\ C!Call(o, i, v) \in ListCalls
            /\ C!Call(o, i, v).op = o /\ C!Call(o, i, v).index = i
      BY ListCallIs
    <3> HIDE DEF ListCalls
    <3> QED BY <3>1 DEF ListOps
  <2> HIDE DEF S
  <2> QED
    BY <2>1 DEF C!Printed
<1>3. /\ P[1].op = "to_string" /\ P[2].op = "pop" /\ P[3].op = "len" /\ P[4].op = "pop"
      /\ P[5].op = "len" /\ P[6].op = "pop" /\ P[7].op = "len" /\ P[8].op = "del"
  BY <1>2
<1>4. /\ I \in Seq(S) /\ Len(I) = 2 /\ I[1].op = "insert" /\ I[1].index = 1
      /\ I[2].op = "remove" /\ I[2].index = 2
  <2>1. /\ C!Call("insert", 1, 4) \in S /\ C!Call("insert", 1, 4).op = "insert" /\ C!Call("insert", 1, 4).index = 1
        /\ C!Call("remove", 2, 0) \in S /\ C!Call("remove", 2, 0).op = "remove" /\ C!Call("remove", 2, 0).index = 2
    <3>1. \A o \in ListOps, i \in Int, v \in Int :
            /\ C!Call(o, i, v) \in ListCalls
            /\ C!Call(o, i, v).op = o /\ C!Call(o, i, v).index = i
      BY ListCallIs
    <3> HIDE DEF ListCalls
    <3> QED BY <3>1 DEF ListOps
  <2> HIDE DEF S
  <2> QED
    BY <2>1
<1>5. C!list_init = A \o I \o P \o B \o P \o D \o P
  BY Zenon DEF C!list_init
<1>6. /\ A \in Seq(S) /\ Len(A) = 4 /\ B \in Seq(S) /\ Len(B) = 4 /\ D \in Seq(S) /\ Len(D) = 4
      /\ A[1].op = "list" /\ B[1].op = "queue" /\ D[1].op = "stack"
      /\ \A i \in 2 .. 4 : A[i].op = "push" /\ B[i].op = "push" /\ D[i].op = "push"
  <2>1. "list" \in ListOps /\ "queue" \in ListOps /\ "stack" \in ListOps
    BY DEF ListOps
  <2> HIDE DEF S
  <2> QED
    BY <1>1, <2>1
<1> HIDE DEF A, B, D, P, I, S
<1> DEFINE s1 == A \o I
           s2 == s1 \o P
           s3 == s2 \o B
           s4 == s3 \o P
           s5 == s4 \o D
           s6 == s5 \o P
<1>7. A \in Seq(S) /\ I \in Seq(S) /\ Len(A) = 4 /\ Len(I) = 2
  BY <1>4, <1>6
<1>8. /\ s1 \in Seq(S) /\ Len(s1) = Len(A) + Len(I)
      /\ \A i \in 1 .. Len(A) + Len(I) :
           s1[i] = IF i =< Len(A) THEN A[i] ELSE I[i - Len(A)]
  BY <1>7, ConcatIs
<1> HIDE DEF s1
<1>9. s1 \in Seq(S) /\ Len(s1) = 6
  BY <1>7, <1>8
<1>10. ASSUME NEW i \in 1 .. 4 PROVE s1[i] = A[i]
  <2>1. i \in 1 .. Len(A) + Len(I) /\ i =< Len(A)
    BY <1>7
  <2> QED
    BY <2>1, <1>8
<1>11. /\ s1[5] = I[1] /\ s1[6] = I[2]
  BY <1>7, <1>8
<1>12. s1 \in Seq(S) /\ P \in Seq(S) /\ Len(s1) = 6 /\ Len(P) = 8
  BY <1>2, <1>9
<1>13. /\ s2 \in Seq(S) /\ Len(s2) = Len(s1) + Len(P)
      /\ \A i \in 1 .. Len(s1) + Len(P) :
           s2[i] = IF i =< Len(s1) THEN s1[i] ELSE P[i - Len(s1)]
  BY <1>12, ConcatIs
<1> HIDE DEF s2
<1>14. s2 \in Seq(S) /\ Len(s2) = 14
  BY <1>12, <1>13
<1>15. ASSUME NEW i \in 1 .. 6 PROVE s2[i] = s1[i]
  <2>1. i \in 1 .. Len(s1) + Len(P) /\ i =< Len(s1)
    BY <1>12
  <2> QED
    BY <2>1, <1>13
<1>16. /\ s2[7] = P[1] /\ s2[8] = P[2] /\ s2[9] = P[3] /\ s2[10] = P[4]
       /\ s2[11] = P[5] /\ s2[12] = P[6] /\ s2[13] = P[7] /\ s2[14] = P[8]
  BY <1>12, <1>13
<1>17. s2 \in Seq(S) /\ B \in Seq(S) /\ Len(s2) = 14 /\ Len(B) = 4
  BY <1>6, <1>14
<1>18. /\ s3 \in Seq(S) /\ Len(s3) = Len(s2) + Len(B)
      /\ \A i \in 1 .. Len(s2) + Len(B) :
           s3[i] = IF i =< Len(s2) THEN s2[i] ELSE B[i - Len(s2)]
  BY <1>17, ConcatIs
<1> HIDE DEF s3
<1>19. s3 \in Seq(S) /\ Len(s3) = 18
  BY <1>17, <1>18
<1>20. ASSUME NEW i \in 1 .. 14 PROVE s3[i] = s2[i]
  <2>1. i \in 1 .. Len(s2) + Len(B) /\ i =< Len(s2)
    BY <1>17
  <2> QED
    BY <2>1, <1>18
<1>21. /\ s3[15] = B[1] /\ s3[16] = B[2] /\ s3[17] = B[3] /\ s3[18] = B[4]
  BY <1>17, <1>18
<1>22. s3 \in Seq(S) /\ P \in Seq(S) /\ Len(s3) = 18 /\ Len(P) = 8
  BY <1>2, <1>19
<1>23. /\ s4 \in Seq(S) /\ Len(s4) = Len(s3) + Len(P)
      /\ \A i \in 1 .. Len(s3) + Len(P) :
           s4[i] = IF i =< Len(s3) THEN s3[i] ELSE P[i - Len(s3)]
  BY <1>22, ConcatIs
<1> HIDE DEF s4
<1>24. s4 \in Seq(S) /\ Len(s4) = 26
  BY <1>22, <1>23
<1>25. ASSUME NEW i \in 1 .. 18 PROVE s4[i] = s3[i]
  <2>1. i \in 1 .. Len(s3) + Len(P) /\ i =< Len(s3)
    BY <1>22
  <2> QED
    BY <2>1, <1>23
<1>26. /\ s4[19] = P[1] /\ s4[20] = P[2] /\ s4[21] = P[3] /\ s4[22] = P[4]
       /\ s4[23] = P[5] /\ s4[24] = P[6] /\ s4[25] = P[7] /\ s4[26] = P[8]
  BY <1>22, <1>23
<1>27. s4 \in Seq(S) /\ D \in Seq(S) /\ Len(s4) = 26 /\ Len(D) = 4
  BY <1>6, <1>24
<1>28. /\ s5 \in Seq(S) /\ Len(s5) = Len(s4) + Len(D)
      /\ \A i \in 1 .. Len(s4) + Len(D) :
           s5[i] = IF i =< Len(s4) THEN s4[i] ELSE D[i - Len(s4)]
  BY <1>27, ConcatIs
<1> HIDE DEF s5
<1>29. s5 \in Seq(S) /\ Len(s5) = 30
  BY <1>27, <1>28
<1>30. ASSUME NEW i \in 1 .. 26 PROVE s5[i] = s4[i]
  <2>1. i \in 1 .. Len(s4) + Len(D) /\ i =< Len(s4)
    BY <1>27
  <2> QED
    BY <2>1, <1>28
<1>31. /\ s5[27] = D[1] /\ s5[28] = D[2] /\ s5[29] = D[3] /\ s5[30] = D[4]
  BY <1>27, <1>28
<1>32. s5 \in Seq(S) /\ P \in Seq(S) /\ Len(s5) = 30 /\ Len(P) = 8
  BY <1>2, <1>29
<1>33. /\ s6 \in Seq(S) /\ Len(s6) = Len(s5) + Len(P)
      /\ \A i \in 1 .. Len(s5) + Len(P) :
           s6[i] = IF i =< Len(s5) THEN s5[i] ELSE P[i - Len(s5)]
  BY <1>32, ConcatIs
<1> HIDE DEF s6
<1>34. s6 \in Seq(S) /\ Len(s6) = 38
  BY <1>32, <1>33
<1>35. ASSUME NEW i \in 1 .. 30 PROVE s6[i] = s5[i]
  <2>1. i \in 1 .. Len(s5) + Len(P) /\ i =< Len(s5)
    BY <1>32
  <2> QED
    BY <2>1, <1>33
<1>36. /\ s6[31] = P[1] /\ s6[32] = P[2] /\ s6[33] = P[3] /\ s6[34] = P[4]
       /\ s6[35] = P[5] /\ s6[36] = P[6] /\ s6[37] = P[7] /\ s6[38] = P[8]
  BY <1>32, <1>33
<1>37. C!list_init = s6
  BY <1>5, Zenon DEF s1, s2, s3, s4, s5, s6
<1>38. /\ s6[1] = A[1] /\ s6[2] = A[2] /\ s6[3] = A[3] /\ s6[4] = A[4]
  BY <1>10, <1>15, <1>20, <1>25, <1>30, <1>35
<1>39. /\ s6[5] = I[1] /\ s6[6] = I[2]
  BY <1>11, <1>15, <1>20, <1>25, <1>30, <1>35
<1>40. /\ s6[7] = P[1] /\ s6[8] = P[2] /\ s6[9] = P[3] /\ s6[10] = P[4]
       /\ s6[11] = P[5] /\ s6[12] = P[6] /\ s6[13] = P[7] /\ s6[14] = P[8]
  BY <1>16, <1>20, <1>25, <1>30, <1>35
<1>41. /\ s6[15] = B[1] /\ s6[16] = B[2] /\ s6[17] = B[3] /\ s6[18] = B[4]
  BY <1>21, <1>25, <1>30, <1>35
<1>42. /\ s6[19] = P[1] /\ s6[20] = P[2] /\ s6[21] = P[3] /\ s6[22] = P[4]
       /\ s6[23] = P[5] /\ s6[24] = P[6] /\ s6[25] = P[7] /\ s6[26] = P[8]
  BY <1>26, <1>30, <1>35
<1>43. /\ s6[27] = D[1] /\ s6[28] = D[2] /\ s6[29] = D[3] /\ s6[30] = D[4]
  BY <1>31, <1>35
<1>44. /\ s6[31] = P[1] /\ s6[32] = P[2] /\ s6[33] = P[3] /\ s6[34] = P[4]
       /\ s6[35] = P[5] /\ s6[36] = P[6] /\ s6[37] = P[7] /\ s6[38] = P[8]
  BY <1>36
<1>45. \A i \in 1 .. 38 : Proper(s6[i])
  <2>1. \A x \in S : Proper(x)
    BY DEF S, ListCalls, Proper
  <2>2. ASSUME NEW i \in 1 .. 38 PROVE s6[i] \in S
    <3>1. i \in 1 .. Len(s6) /\ s6 \in Seq(S)
      BY <1>34
    <3> QED BY <3>1
  <2> QED
    BY <2>1, <2>2
<1>46. DOMAIN s6 = 1 .. 38 /\ Len(s6) = 38
  BY <1>34
<1>47. \A i \in {1, 15, 27} : s6[i].op = KindAt(i + 1)
  BY <1>6, <1>38, <1>41, <1>43 DEF KindAt
<1>48. \A i \in {2, 3, 4, 16, 17, 18, 28, 29, 30} : s6[i].op = "push"
  BY <1>6, <1>38, <1>41, <1>43
<1>49. s6[5].op = "insert" /\ s6[5].index = 1 /\ s6[6].op = "remove" /\ s6[6].index = 2
  BY <1>4, <1>39
<1>50. \A i \in {7, 19, 31} : s6[i].op = "to_string"
  BY <1>3, <1>40, <1>42, <1>44
<1>51. \A i \in {8, 10, 12, 20, 22, 24, 32, 34, 36} : s6[i].op = "pop"
  BY <1>3, <1>40, <1>42, <1>44
<1>52. \A i \in {9, 11, 13, 21, 23, 25, 33, 35, 37} : s6[i].op = "len"
  BY <1>3, <1>40, <1>42, <1>44
<1>53. \A i \in {14, 26, 38} : s6[i].op = "del"
  BY <1>3, <1>40, <1>42, <1>44
<1> QED
  BY <1>37, <1>45, <1>46, <1>47, <1>48, <1>49, <1>50, <1>51, <1>52, <1>53

(* How the table goes on.                                                  *)
LEMMA SizeIs ==
  /\ \A i \in {3, 11, 12, 17, 23, 24, 29, 35, 36} : SizeAt(i) = 1
  /\ \A i \in {4, 9, 10, 18, 21, 22, 30, 33, 34} : SizeAt(i) = 2
  /\ \A i \in {5, 7, 8, 19, 20, 31, 32} : SizeAt(i) = 3
  /\ SizeAt(6) = 4
  /\ \A i \in {1, 2, 13, 14, 15, 16, 25, 26, 27, 28, 37, 38, 39} : SizeAt(i) = 0
<1>1. \A i \in {3, 11, 12, 17, 23, 24, 29, 35, 36} : SizeAt(i) = 1
  BY DEF SizeAt
<1>2. \A i \in {4, 9, 10, 18, 21, 22, 30, 33, 34} : SizeAt(i) = 2
  BY DEF SizeAt
<1>3. \A i \in {5, 7, 8, 19, 20, 31, 32} : SizeAt(i) = 3
  BY DEF SizeAt
<1>4. SizeAt(6) = 4
  BY DEF SizeAt
<1>5. \A i \in {1, 2, 13, 14, 15, 16, 25, 26, 27, 28, 37, 38, 39} : SizeAt(i) = 0
  BY DEF SizeAt
<1> QED
  BY <1>1, <1>2, <1>3, <1>4, <1>5

(* After a new container.                                                  *)
LEMMA TableAdd ==
  ASSUME NEW i \in {1, 15, 27}
  PROVE  /\ KindAt(i) = "none" /\ KindAt(i + 1) \in {"list", "queue", "stack"}
         /\ SizeAt(i + 1) = 0 /\ CountAt(i + 1) = 0 /\ LiveAt(i + 1) = LiveAt(i)
BY SizeIs DEF KindAt, CountAt, LiveAt

(* After a push.                                                           *)
LEMMA TablePush ==
  ASSUME NEW i \in {2, 3, 4, 16, 17, 18, 28, 29, 30}
  PROVE  /\ KindAt(i + 1) = KindAt(i) /\ SizeAt(i + 1) = SizeAt(i) + 1
         /\ CountAt(i + 1) = CountAt(i) + 1 /\ LiveAt(i + 1) = LiveAt(i) + 1
BY SizeIs DEF KindAt, CountAt, LiveAt

(* After a call that only looks.                                           *)
LEMMA TableKeep ==
  ASSUME NEW i \in {7, 9, 11, 13, 19, 21, 23, 25, 31, 33, 35, 37}
  PROVE  /\ KindAt(i + 1) = KindAt(i) /\ SizeAt(i + 1) = SizeAt(i)
         /\ CountAt(i + 1) = CountAt(i) /\ LiveAt(i + 1) = LiveAt(i)
BY SizeIs DEF KindAt, CountAt, LiveAt

(* After a pop.                                                            *)
LEMMA TablePop ==
  ASSUME NEW i \in {8, 10, 12, 20, 22, 24, 32, 34, 36}
  PROVE  /\ KindAt(i + 1) = KindAt(i) /\ SizeAt(i) > 0 /\ CountAt(i) > 0 /\ SizeAt(i + 1) = SizeAt(i) - 1
         /\ CountAt(i + 1) = CountAt(i) - 1 /\ LiveAt(i + 1) = LiveAt(i) - 1
BY SizeIs DEF KindAt, CountAt, LiveAt

(* After the end of a container.                                           *)
LEMMA TableDel ==
  ASSUME NEW i \in {14, 26, 38}
  PROVE  KindAt(i + 1) = "none" /\ LiveAt(i + 1) = LiveAt(i)
BY SizeIs DEF KindAt, CountAt, LiveAt

(* The state in which list_init makes its i-th call.                       *)
Stage(i) ==
  /\ kind = KindAt(i)
  /\ Cardinality(live) = LiveAt(i)
  /\ kind # "none" => count = CountAt(i) /\ \E q : Ready(q, SizeAt(i))

(* The inductive invariant: the container is whole, list_init has made     *)
(* what its table says unless a fault has stopped it, and its ring is      *)
(* never broken.                                                           *)
ContainersInv ==
  /\ Whole
  /\ ip \in 0 .. 39
  /\ ip # 0 => /\ kind # "none" => \E q, n : Ready(q, n)
               /\ oops => ip =< 38
               /\ ~oops => Stage(ip)

(* What one call of list_init leaves for the next one.                     *)
Advanced(i) ==
  /\ (kind # "none" => \E q, n : Ready(q, n))'
  /\ oops' => i < 38
  /\ ~oops' => Stage(i + 1)'

(* A fault stops list_init where it is, with its ring intact.              *)
LEMMA AdvancedFault ==
  ASSUME NEW i \in 1 .. 37, NEW q, NEW n, Ready(q, n), Faulted
  PROVE  Advanced(i)
<1>1. Ready(q, n)'
  BY UnmovedReady DEF Faulted
<1>2. (kind # "none" => \E r, m : Ready(r, m))'
  BY <1>1, Zenon
<1>3. oops' = TRUE /\ i < 38
  BY DEF Faulted
<1> QED
  BY <1>2, <1>3 DEF Advanced

(* A call of list_init that leaves the ring that the table has for the     *)
(* next one.                                                               *)
LEMMA AdvancedReady ==
  ASSUME NEW i \in 1 .. 38, NEW q, Ready(q, SizeAt(i + 1))', kind' = KindAt(i + 1),
         Cardinality(live)' = LiveAt(i + 1), count' = CountAt(i + 1), oops' => i < 38
  PROVE  Advanced(i)
<1>1. (kind # "none" => \E r, m : Ready(r, m))'
  BY Zenon
<1>2. (\E r : Ready(r, SizeAt(i + 1)))'
  BY Zenon
<1>3. Stage(i + 1)'
  BY <1>2 DEF Stage
<1> QED
  BY <1>1, <1>3 DEF Advanced

(* Every call of list_init takes it to the next state of the table.        *)
LEMMA ListStep ==
  ASSUME NEW i \in 1 .. 38, Memory, count \in Nat, ~oops, Stage(i), C!Do(C!list_init[i])
  PROVE  Advanced(i)
<1> DEFINE c == C!list_init[i]
<1>1. Proper(c)
  BY ListInitIs
<1>2. c.index \in Int /\ c.value \in Values \cup Int
  BY <1>1 DEF Proper
<1>3. IsFiniteSet(live)
  BY LiveCount
<1>4. CASE i \in {1, 15, 27}
  <2>1. kind = "none" /\ KindAt(i + 1) \in {"list", "queue", "stack"} /\ SizeAt(i + 1) = 0
        /\ CountAt(i + 1) = 0 /\ LiveAt(i + 1) = LiveAt(i)
    BY <1>4, TableAdd DEF Stage
  <2>2. C!add(KindAt(i + 1))
    <3>1. c.op = KindAt(i + 1)
      BY <1>4, ListInitIs
    <3>2. C!Do(c)
      OBVIOUS
    <3> HIDE DEF c
    <3> QED
      BY <2>1, <3>1, <3>2 DEF C!Do, C!link_list, C!queue, C!stack
  <2>3. PICK k : k = KindAt(i + 1)
    OBVIOUS
  <2>4. /\ result' = << >> /\ live' = live
        /\ \/ Faulted
           \/ kind' = k /\ count' = 0 /\ oops' = oops /\ Memory' /\ \E q : Ring(q, 0)'
    BY <2>2, <2>3, AddIs
  <2>5. CASE Faulted
    <3>1. kind' = "none" /\ oops' = TRUE
      BY <2>1, <2>5 DEF Faulted, Unmoved
    <3> QED
      BY <1>4, <3>1 DEF Advanced
  <2>6. CASE ~Faulted
    <3>1. PICK q : Ring(q, 0)'
      BY <2>4, <2>6
    <3>2. Ready(q, 0)'
      BY <2>1, <2>3, <2>4, <2>6, <3>1 DEF Ready
    <3>3. Cardinality(live)' = LiveAt(i + 1)
      BY <2>1, <2>4 DEF Stage
    <3> QED
      BY <2>1, <2>3, <2>4, <2>6, <3>2, <3>3, AdvancedReady
  <2> QED
    BY <2>5, <2>6
<1>5. CASE i \notin {1, 15, 27}
  <2>1. KindAt(i) # "none"
    BY <1>5 DEF KindAt
  <2>2. PICK q : Ready(q, SizeAt(i))
    BY <2>1 DEF Stage
  <2>3. PICK n : n = SizeAt(i)
    OBVIOUS
  <2>4. Ready(q, n) /\ n \in Nat /\ kind \in {"list", "queue", "stack"}
    BY <2>2, <2>3 DEF Ready, Ring
  <2>5. kind = KindAt(i) /\ Cardinality(live) = LiveAt(i) /\ count = CountAt(i)
        /\ (kind # "list" => count = n)
    BY <2>1, <2>4 DEF Stage, Ready
  <2>6. C!Do(c)
    OBVIOUS
  <2> HIDE DEF c
  <2>7. CASE i \in {2, 3, 4, 16, 17, 18, 28, 29, 30}
    <3>1. c.op = "push"
      BY <2>7, ListInitIs DEF c
    <3>2. /\ KindAt(i + 1) = KindAt(i) /\ SizeAt(i + 1) = SizeAt(i) + 1
          /\ CountAt(i + 1) = CountAt(i) + 1 /\ LiveAt(i + 1) = LiveAt(i) + 1
      BY <2>7, TablePush
    <3>3. C!push(c.value)
      BY <2>4, <2>6, <3>1, DoIs
    <3>4. i \in 1 .. 37
      BY <2>7
    <3>5. CASE Faulted
      BY <2>4, <3>4, <3>5, AdvancedFault
    <3>6. CASE ~Faulted
      <4> DEFINE j == IF kind = "stack" THEN 0 ELSE n
      <4>1. Grown(q, n, j, c.value) /\ count' = count + 1
        BY <1>2, <2>4, <3>3, <3>6, PushIs
      <4> HIDE DEF j
      <4>2. PICK k, v : Grown(q, n, k, v)
        BY <4>1, Zenon
      <4>3. count' \in Nat /\ (kind # "list" => count' = n + 1)
        BY <2>5, <4>1
      <4>4. /\ \E r : Ready(r, n + 1)'
            /\ Cardinality(live)' = Cardinality(live) + 1 /\ kind' = kind /\ oops' = oops
        BY <2>4, <4>2, <4>3, GrownReady
      <4>5. PICK r : Ready(r, n + 1)'
        BY <4>4
      <4>6. n + 1 = SizeAt(i + 1)
        BY <2>3, <3>2
      <4>7. Ready(r, SizeAt(i + 1))'
        BY <4>5, <4>6
      <4> QED
        BY <2>5, <3>2, <4>1, <4>4, <4>7, AdvancedReady
    <3> QED
      BY <3>5, <3>6
  <2>8. CASE i \in {7, 9, 11, 13, 19, 21, 23, 25, 31, 33, 35, 37}
    <3>1. /\ KindAt(i + 1) = KindAt(i) /\ SizeAt(i + 1) = SizeAt(i)
          /\ CountAt(i + 1) = CountAt(i) /\ LiveAt(i + 1) = LiveAt(i)
      BY <2>8, TableKeep
    <3>2. c.op = "to_string" \/ c.op = "len"
      BY <2>8, ListInitIs DEF c
    <3>3. C!to_string \/ C!len
      BY <2>4, <2>6, <3>2, DoIs
    <3>4. Unmoved
      <4>1. CASE C!to_string
        BY <2>4, <4>1, ToStringIs DEF Declined
      <4>2. CASE C!len
        BY <4>2 DEF C!len, C!ring, Unmoved
      <4> QED
        BY <3>3, <4>1, <4>2
    <3>5. Ready(q, SizeAt(i + 1))'
      BY <2>3, <2>4, <3>1, <3>4, UnmovedReady
    <3>6. kind' = kind /\ live' = live /\ count' = count
      BY <3>4 DEF Unmoved
    <3> QED
      BY <2>5, <2>8, <3>1, <3>5, <3>6, AdvancedReady
  <2>9. CASE i \in {8, 10, 12, 20, 22, 24, 32, 34, 36}
    <3>1. /\ KindAt(i + 1) = KindAt(i) /\ SizeAt(i) > 0 /\ CountAt(i) > 0 /\ SizeAt(i + 1) = SizeAt(i) - 1
          /\ CountAt(i + 1) = CountAt(i) - 1 /\ LiveAt(i + 1) = LiveAt(i) - 1
      BY <2>9, TablePop
    <3>2. c.op = "pop"
      BY <2>9, ListInitIs DEF c
    <3>3. C!pop
      BY <2>4, <2>6, <3>2, DoIs
    <3>4. n > 0 /\ count > 0 /\ n # 0 /\ count # 0
      BY <2>3, <2>4, <2>5, <3>1
    <3>5. Shrunk(q, n, 1) /\ live' = live \ {q[1]} /\ count' = count - 1
      BY <2>4, <3>3, <3>4, PopIs
    <3>6. count' \in Nat /\ (kind # "list" => count' = n - 1)
      BY <2>5, <3>4, <3>5
    <3>7. PICK r : Ready(r, n - 1)'
      BY <2>4, <3>5, <3>6, ShrunkReady
    <3>8. Ready(r, SizeAt(i + 1))'
      <4>1. n - 1 = SizeAt(i + 1)
        BY <2>3, <3>1
      <4> QED BY <3>7, <4>1
    <3>9. kind' = kind /\ oops' = oops
      BY <3>5 DEF Shrunk
    <3>10. Cardinality(live)' = Cardinality(live) - 1
      <4>1. q[1] \in live
        BY <2>4, <3>4 DEF Ready, Ring
      <4> QED BY <1>3, <3>5, <4>1, FS_RemoveElement
    <3> QED
      BY <2>5, <3>1, <3>5, <3>8, <3>9, <3>10, AdvancedReady
  <2>10. CASE i \in {14, 26, 38}
    <3>1. c.op = "del" /\ KindAt(i + 1) = "none" /\ LiveAt(i + 1) = LiveAt(i)
      <4>1. c.op = "del"
        BY <2>10, ListInitIs DEF c
      <4>2. KindAt(i + 1) = "none" /\ LiveAt(i + 1) = LiveAt(i)
        BY <2>10, TableDel
      <4> QED BY <4>1, <4>2
    <3>2. C!del
      BY <2>4, <2>6, <3>1, DoIs
    <3>3. kind' = "none" /\ live' = live /\ oops' = oops
      BY <2>4, <3>2, DelIs
    <3> QED
      BY <2>5, <3>1, <3>3 DEF Advanced, Stage
  <2>11. CASE i = 5
    <3>1. c.op = "insert" /\ c.index = 1
      BY <2>11, ListInitIs DEF c
    <3>2. C!insert(c.index, c.value)
      BY <2>4, <2>6, <3>1, DoIs
    <3>3. n = 3 /\ count = 3 /\ LiveAt(5) = 3 /\ kind = "list"
      BY <2>3, <2>5, <2>11 DEF SizeAt, CountAt, LiveAt, KindAt
    <3>4. SizeAt(6) = 4 /\ CountAt(6) = 3 /\ LiveAt(6) = 4 /\ KindAt(6) = "list"
      BY DEF SizeAt, CountAt, LiveAt, KindAt
    <3>5. CASE Faulted
      BY <2>4, <2>11, <3>5, AdvancedFault
    <3>6. CASE ~Faulted
      <4>1. Place(n, c.index)
        BY <3>1, <3>3 DEF Place
      <4>2. count' = count /\ \E k, v : Grown(q, n, k, v)
        BY <1>2, <2>4, <3>2, <3>6, <4>1, InsertIs, Zenon
      <4>3. PICK k, v : Grown(q, n, k, v)
        BY <4>2
      <4>4. count' \in Nat /\ (kind # "list" => count' = n + 1)
        BY <3>3, <4>2
      <4>5. /\ \E r : Ready(r, n + 1)'
            /\ Cardinality(live)' = Cardinality(live) + 1 /\ kind' = kind /\ oops' = oops
        BY <2>4, <4>3, <4>4, GrownReady
      <4>6. PICK r : Ready(r, n + 1)'
        BY <4>5
      <4>7. Ready(r, SizeAt(i + 1))'
        <5>1. n + 1 = SizeAt(i + 1)
          BY <2>11, <3>3, <3>4
        <5> QED BY <4>6, <5>1
      <4>8. i + 1 = 6
        BY <2>11
      <4>9. kind' = KindAt(i + 1) /\ Cardinality(live)' = LiveAt(i + 1) /\ count' = CountAt(i + 1)
        BY <2>5, <2>11, <3>3, <3>4, <4>2, <4>5, <4>8
      <4> QED
        BY <4>5, <4>7, <4>9, AdvancedReady
    <3> QED
      BY <3>5, <3>6
  <2>12. CASE i = 6
    <3>1. c.op = "remove" /\ c.index = 2
      BY <2>12, ListInitIs DEF c
    <3>2. C!remove(c.index)
      BY <2>4, <2>6, <3>1, DoIs
    <3>3. n = 4 /\ count = 3 /\ LiveAt(6) = 4 /\ kind = "list"
      BY <2>3, <2>5, <2>12 DEF SizeAt, CountAt, LiveAt, KindAt
    <3>4. SizeAt(7) = 3 /\ CountAt(7) = 3 /\ LiveAt(7) = 4 /\ KindAt(7) = "list"
      BY DEF SizeAt, CountAt, LiveAt, KindAt
    <3>5. Place(n, c.index) /\ c.index # n - 1
      BY <3>1, <3>3 DEF Place
    <3>6. Shrunk(q, n, c.index + 2) /\ live' = live /\ count' = count
      BY <1>2, <2>4, <3>2, <3>5, RemoveIs
    <3>7. PICK k : Shrunk(q, n, k)
      BY <3>6, Zenon
    <3>8. count' \in Nat
      BY <3>3, <3>6
    <3>9. PICK r : Ready(r, n - 1)'
      BY <2>4, <3>3, <3>7, <3>8, ShrunkReady
    <3>10. kind' = kind /\ oops' = oops
      BY <3>7 DEF Shrunk
    <3>11. i + 1 = 7 /\ n - 1 = 3
      BY <2>12, <3>3
    <3>12. Ready(r, SizeAt(i + 1))'
      <4>1. n - 1 = SizeAt(i + 1)
        BY <3>4, <3>11
      <4> QED BY <3>9, <4>1
    <3>13. kind' = KindAt(i + 1) /\ Cardinality(live)' = LiveAt(i + 1) /\ count' = CountAt(i + 1)
      BY <2>5, <2>12, <3>3, <3>4, <3>6, <3>10, <3>11
    <3> QED
      BY <3>10, <3>12, <3>13, AdvancedReady
  <2> QED
    BY <1>5, <2>7, <2>8, <2>9, <2>10, <2>11, <2>12
<1> QED
  BY <1>4, <1>5

(* The calls of other users.                                               *)
LEMMA CallsAreProper == \A c \in C!Calls : Proper(c)
<1>1. ASSUME NEW c \in C!Calls
      PROVE  \E o, i, v : c = C!Call(o, i, v) /\ i \in Int /\ v \in Values \cup Int
  <2>1. \A i \in C!Indexes : i \in Int
    BY StructuresAssumption DEF C!Indexes
  <2>2. CASE \E o : c = C!Call(o, 0, 0)
    BY <2>2
  <2>3. CASE \E v \in Values : c = C!Call("push", 0, v)
    BY <2>3
  <2>4. CASE \E i \in C!Indexes, v \in Values : c = C!Call("insert", i, v)
    BY <2>1, <2>4
  <2>5. CASE \E o : \E i \in C!Indexes : c = C!Call(o, i, 0)
    BY <2>1, <2>5
  <2> QED
    BY <2>2, <2>3, <2>4, <2>5 DEF C!Calls
<1>2. ASSUME NEW o, NEW i \in Int, NEW v \in Values \cup Int PROVE Proper(C!Call(o, i, v))
  BY DEF C!Call, Proper
<1> QED
  BY <1>1, <1>2

(* The containers before the first call.                                   *)
LEMMA ContainersInit == C!Init => ContainersInv
<1> SUFFICES ASSUME C!Init PROVE ContainersInv
  OBVIOUS
<1> USE StructuresAssumption
<1>1. {C!HEAD} \cup C!Nodes = 0 .. MaxNodes /\ C!POISON \in 0 .. MaxNodes + 1 /\ C!Nodes = 1 .. MaxNodes
  BY DEF C!HEAD, C!Nodes, C!POISON
<1>2. Memory
  BY <1>1 DEF C!Init, Memory, Pointers
<1>3. kind = "none" /\ count = 0 /\ oops = FALSE /\ live = {} /\ ip \in {0, 1}
  BY DEF C!Init
<1>4. Whole
  BY <1>2, <1>3 DEF Whole
<1>5. Stage(1)
  <2>1. Cardinality(live) = 0
    BY <1>3, FS_EmptySet
  <2> QED
    BY <1>3, <2>1 DEF Stage, KindAt, LiveAt, SizeAt
<1> QED
  BY <1>3, <1>4, <1>5 DEF ContainersInv

(* Every call leaves a whole container.                                    *)
LEMMA WholeStep ==
  ASSUME Whole, NEW c, Proper(c), C!Do(c)
  PROVE  Whole'
<1>1. CASE kind = "none"
  <2>1. PICK k : k = c.op
    OBVIOUS
  <2>2. C!add(k) /\ k \in {"list", "queue", "stack"}
    BY <1>1, <2>1 DEF C!Do, C!link_list, C!queue, C!stack
  <2>3. Memory
    BY DEF Whole
  <2>4. CASE Faulted
    BY <1>1, <2>4 DEF Faulted, Unmoved, Whole, Memory, Pointers
  <2>5. CASE kind' = k /\ count' = 0 /\ Memory' /\ \E q : Ring(q, 0)'
    <3>1. PICK q : Ring(q, 0)'
      BY <2>5
    <3>2. Ready(q, 0)'
      BY <2>2, <2>5, <3>1 DEF Ready
    <3> QED
      BY <3>2, ReadyWhole
  <2> QED
    BY <2>2, <2>3, <2>4, <2>5, AddIs
<1>2. CASE kind = "list" /\ C!Detached
  <2>1. Unmoved
    BY <1>2, BrokenStays
  <2>2. Memory'
    BY <2>1 DEF Whole, Unmoved, Memory, Pointers
  <2>3. C!Detached' /\ kind' = "list" /\ count' \in Nat
    BY <1>2, <2>1 DEF C!Detached, Unmoved, Whole
  <2> QED
    BY <2>2, <2>3 DEF Whole
<1>3. CASE \E q, n : Ready(q, n)
  BY <1>3, ReadyStep
<1> QED
  BY <1>1, <1>2, <1>3 DEF Whole

(* Every step of the containers keeps the invariant.                       *)
LEMMA ContainersStep ==
  ASSUME ContainersInv, [C!Next]_(C!vars)
  PROVE  ContainersInv'
<1>1. CASE UNCHANGED C!vars
  <2>1. UNCHANGED <<kind, next, prev, value, live, count, result, oops, ip>>
    BY <1>1 DEF C!vars, C!ring
  <2>2. ASSUME NEW q, NEW n, Ready(q, n) PROVE Ready(q, n)'
    BY <2>1, <2>2, UnmovedReady DEF Unmoved
  <2>3. (\E q, n : Ready(q, n)) => (\E q, n : Ready(q, n))'
    BY <2>2
  <2>4. Stage(ip) => Stage(ip)'
    BY <2>1 DEF Stage, Memory, Pointers, Ready, Ring
  <2>5. Memory' /\ (C!Detached => C!Detached')
    BY <2>1 DEF ContainersInv, Whole, Memory, Pointers, C!Detached
  <2>6. Whole'
    BY <2>1, <2>3, <2>5 DEF ContainersInv, Whole
  <2> QED
    BY <2>1, <2>3, <2>4, <2>6 DEF ContainersInv
<1>2. CASE ~oops /\ ip = 0 /\ ip' = ip /\ \E c \in C!Calls : C!Do(c)
  <2>1. PICK c \in C!Calls : C!Do(c)
    BY <1>2
  <2>2. Whole'
    BY <2>1, CallsAreProper, WholeStep DEF ContainersInv
  <2> QED
    BY <1>2, <2>2 DEF ContainersInv
<1>3. CASE ~oops /\ ip \in DOMAIN C!list_init /\ C!Do(C!list_init[ip]) /\ ip' = ip + 1
  <2>1. PICK i : i = ip
    OBVIOUS
  <2>2. i \in 1 .. 38 /\ C!Do(C!list_init[i]) /\ ip' = i + 1 /\ ip' \in 1 .. 39
    BY <1>3, <2>1, ListInitIs
  <2>3. Stage(i) /\ Memory /\ count \in Nat /\ Whole
    BY <1>3, <2>1, <2>2 DEF ContainersInv, Whole
  <2>4. Whole'
    BY <2>2, <2>3, ListInitIs, WholeStep
  <2>5. Advanced(i)
    BY <1>3, <2>2, <2>3, ListStep
  <2>6. ~oops' => Stage(ip)'
    <3>1. Stage(i + 1)' => Stage(ip)'
      BY <2>2 DEF Stage, Ready
    <3> QED BY <2>5, <3>1 DEF Advanced
  <2>7. oops' => ip' =< 38
    BY <2>2, <2>5 DEF Advanced
  <2>8. (kind # "none" => \E q, n : Ready(q, n))'
    BY <2>5 DEF Advanced
  <2> QED
    BY <2>2, <2>4, <2>6, <2>7, <2>8 DEF ContainersInv
<1> QED
  BY <1>1, <1>2, <1>3 DEF C!Next

(* The invariant holds for every number of nodes, all values and every     *)
(* order of calls of container.c.                                          *)
THEOREM ContainersInvariant == C!Spec => []ContainersInv
<1>1. C!Init => ContainersInv
  BY ContainersInit
<1>2. ContainersInv /\ [C!Next]_(C!vars) => ContainersInv'
  BY ContainersStep
<1> QED
  BY <1>1, <1>2, PTL DEF C!Spec

(* What the invariant says of the ring and of what list_init leaves        *)
(* behind.                                                                 *)
LEMMA RingShows ==
  ASSUME ContainersInv
  PROVE  C!RingIntact /\ C!ListInitLeaksOne
<1>1. ASSUME NEW q, NEW n, Ready(q, n)
      PROVE  \E k \in 0 .. MaxNodes :
               LET members == {C!Hop(i) : i \in 1 .. k} IN
               /\ C!Hop(k + 1) = C!HEAD /\ C!HEAD \notin members /\ C!Cardinality(members) = k
               /\ members \subseteq live
               /\ \A m \in members \cup {C!HEAD} : prev[next[m]] = m
               /\ kind # "list" => count = k
  <2> DEFINE M == {C!Hop(i) : i \in 1 .. n}
  <2>1. Memory /\ Ring(q, n) /\ (kind # "list" => count = n)
    BY <1>1 DEF Ready
  <2>2. n \in 0 .. MaxNodes /\ \A i \in 0 .. n + 1 : C!Hop(i) = q[i]
    BY <2>1, Walk
  <2>3. q \in [0 .. n + 1 -> 0 .. MaxNodes] /\ q[0] = 0 /\ q[n + 1] = 0
    BY <2>1 DEF Ring
  <2>4. \A i \in 1 .. n : q[i] \in live /\ q[i] # 0
    BY <2>1 DEF Ring, Memory
  <2>5. \A i \in 0 .. n : prev[next[q[i]]] = q[i]
    BY <2>1 DEF Ring
  <2>6. ASSUME NEW m PROVE m \in M <=> \E i \in 1 .. n : m = q[i]
    BY <2>2
  <2>7. Cardinality(M) = n
    <3> DEFINE f == [i \in 1 .. n |-> q[i]]
    <3>1. \A i \in 1 .. n : f[i] = q[i] /\ f[i] \in M
      BY <2>6
    <3>2. f \in [1 .. n -> M]
      BY <3>1
    <3>3. \A i, j \in 1 .. n : f[i] = f[j] => i = j
      BY <2>1, <3>1 DEF Ring
    <3>4. \A m \in M : \E i \in 1 .. n : f[i] = m
      BY <2>6, <3>1
    <3> HIDE DEF f, M
    <3>5. f \in Bijection(1 .. n, M)
      BY <3>2, <3>3, <3>4 DEF Bijection, Injection, Surjection, IsInjective
    <3>6. IsFiniteSet(1 .. n) /\ Cardinality(1 .. n) = n
      <4>1. n \in Nat /\ n \in Int /\ 1 \in Int
        BY <2>2
      <4>2. IsFiniteSet(1 .. n) /\ Cardinality(1 .. n) = IF 1 > n THEN 0 ELSE n - 1 + 1
        BY <4>1, FS_Interval
      <4> QED BY <4>1, <4>2
    <3>7. \E g : g \in Bijection(1 .. n, M)
      BY <3>5
    <3> QED
      BY <3>6, <3>7, FS_Bijection DEF ExistsBijection
  <2>8. C!Cardinality(M) = n
    <3>1. \A S : C!Cardinality(S) = Cardinality(S)
      BY Zenon DEF C!Cardinality, Cardinality
    <3> HIDE DEF M
    <3> QED BY <2>7, <3>1
  <2>9. C!HEAD = 0
    BY DEF C!HEAD
  <2> HIDE DEF M
  <2>10. 0 \notin M /\ M \subseteq live
    BY <2>4, <2>6
  <2>11. \A m \in M \cup {0} : prev[next[m]] = m
    <3>1. 0 \in 0 .. n
      BY <2>2
    <3> QED BY <2>2, <2>3, <2>5, <2>6, <3>1
  <2>12. C!Hop(n + 1) = 0
    <3>1. n + 1 \in 0 .. n + 1
      BY <2>2
    <3> QED BY <2>2, <2>3, <3>1
  <2>13. /\ C!Hop(n + 1) = C!HEAD /\ C!HEAD \notin M /\ C!Cardinality(M) = n
         /\ M \subseteq live
         /\ \A m \in M \cup {C!HEAD} : prev[next[m]] = m
         /\ kind # "list" => count = n
    BY <2>1, <2>8, <2>9, <2>10, <2>11, <2>12
  <2> QED
    BY <2>2, <2>13, Zenon DEF M
<1>2. C!RingIntact
  <2>1. kind # "none" => (C!Detached /\ kind = "list") \/ \E q, n : Ready(q, n)
    BY DEF ContainersInv, Whole
  <2> QED
    BY <1>1, <2>1, Zenon DEF C!RingIntact
<1>3. C!ListInitLeaksOne
  <2>1. ASSUME ip > 0, kind # "none" PROVE ~C!Detached
    <3>1. ip # 0
      BY <2>1 DEF ContainersInv
    <3>2. PICK q, n : Ready(q, n)
      BY <2>1, <3>1 DEF ContainersInv
    <3> QED
      BY <3>2, Walk DEF Ready
  <2>2. ASSUME ip > 38 PROVE Cardinality(live) = 1
    <3>1. ip = 39 /\ ip # 0 /\ ~(ip =< 38)
      BY <2>2 DEF ContainersInv
    <3>2. Stage(39)
      BY <3>1 DEF ContainersInv
    <3> QED
      BY <3>2 DEF Stage, LiveAt, SizeAt
  <2>3. Len(C!list_init) = 38 /\ \A S : C!Cardinality(S) = Cardinality(S)
    <3>1. \A S : C!Cardinality(S) = Cardinality(S)
      BY Zenon DEF C!Cardinality, Cardinality
    <3> QED BY <3>1, ListInitIs
  <2> QED
    BY <2>1, <2>2, <2>3 DEF C!ListInitLeaksOne
<1> QED
  BY <1>2, <1>3

(* Whatever is pushed, popped, inserted and removed (container.c), the     *)
(* head and the nodes form one ring in both directions with the right      *)
(* count, unless link_list_remove has unlinked the head of a list;         *)
(* list_init never does that and leaks one node.                           *)
THEOREM RingTheorem == C!Spec => []RingIntact
<1>1. ContainersInv => RingIntact
  BY RingShows DEF RingIntact
<1> QED
  BY <1>1, ContainersInvariant, PTL

-----------------------------------------------------------------------------
(* A container is the sequence it stands for.                              *)
Elements == Values \cup Int
Listed(q, n) == [i \in 1 .. n |-> value[q[i]]]
Broken == kind # "none" /\ C!Detached

(* The values of a ring, as a sequence.                                    *)
LEMMA ListedIs ==
  ASSUME NEW q, NEW n, Ready(q, n)
  PROVE  /\ Listed(q, n) \in Seq(Elements) /\ Len(Listed(q, n)) = n
         /\ \A i \in 1 .. n : Listed(q, n)[i] = value[q[i]]
<1>1. n \in Nat /\ \A i \in 1 .. n : q[i] \in 1 .. MaxNodes
  BY DEF Ready, Ring, Memory
<1>2. \A i \in 1 .. n : value[q[i]] \in Elements
  BY <1>1 DEF Ready, Memory, Elements
<1> QED
  BY <1>1, <1>2 DEF Listed

(* What a ring holds is what list_for_each visits, in every state.         *)
Seen == \A q, n : Ready(q, n) => C!Contents = Listed(q, n) /\ ~Broken

(* By the walk along the ring.                                             *)
LEMMA SeenAlways == Seen
<1> SUFFICES ASSUME NEW q, NEW n, Ready(q, n) PROVE C!Contents = Listed(q, n) /\ ~Broken
  BY DEF Seen
<1>1. Memory /\ Ring(q, n) /\ kind # "none"
  BY DEF Ready
<1>2. n \in 0 .. MaxNodes /\ C!Length = n /\ ~C!Detached /\ \A i \in 0 .. n + 1 : C!Hop(i) = q[i]
  BY <1>1, Walk
<1>3. \A i \in 1 .. n : C!Hop(i) = q[i]
  BY <1>2
<1>4. C!Contents = [i \in 1 .. n |-> value[C!Hop(i)]]
  BY <1>1, <1>2 DEF C!Contents
<1>5. [i \in 1 .. n |-> value[C!Hop(i)]] = [i \in 1 .. n |-> value[q[i]]]
  BY <1>3
<1> QED
  BY <1>2, <1>4, <1>5 DEF Listed, Broken

(* And so it does after a step.                                            *)
LEMMA SeenThen == Seen'
BY SeenAlways, PTL

(* A call that changes no pointer leaves the same sequence.                *)
LEMMA UnmovedSame ==
  ASSUME Whole, Unmoved
  PROVE  C!Contents' = C!Contents /\ Broken' = Broken /\ kind' = kind
<1>1. CASE kind = "none" \/ C!Detached
  <2>1. (kind = "none" \/ C!Detached)'
    BY <1>1 DEF Unmoved, C!Detached
  <2>2. C!Contents = << >> /\ C!Contents' = << >>
    BY <1>1, <2>1 DEF C!Contents
  <2> QED
    BY <2>2 DEF Unmoved, Broken, C!Detached
<1>2. CASE \E q, n : Ready(q, n)
  <2>1. PICK q, n : Ready(q, n)
    BY <1>2
  <2>2. Ready(q, n)'
    BY <2>1, UnmovedReady
  <2>3. C!Contents = Listed(q, n) /\ C!Contents' = Listed(q, n)'
    BY <2>1, <2>2, SeenAlways, SeenThen DEF Seen
  <2>4. Listed(q, n)' = Listed(q, n)
    BY DEF Listed, Unmoved
  <2> QED
    BY <2>3, <2>4 DEF Unmoved, Broken, C!Detached
<1> QED
  BY <1>1, <1>2 DEF Whole

(* A sequence without the value at one place.                              *)
LEMMA WithoutIs ==
  ASSUME NEW S, NEW s \in Seq(S), NEW p \in 1 .. Len(s), NEW t \in Seq(S), Len(t) = Len(s) - 1,
         \A i \in 1 .. Len(s) - 1 : t[i] = IF i < p THEN s[i] ELSE s[i + 1]
  PROVE  C!Sequence!Without(s, p) = t
<1>1. C!Sequence!Without(s, p) = T!RemoveAt(s, p)
  BY Zenon DEF C!Sequence!Without, T!RemoveAt
<1>2. /\ T!RemoveAt(s, p) \in Seq(S) /\ Len(T!RemoveAt(s, p)) = Len(s) - 1
      /\ \A i \in 1 .. Len(s) - 1 : T!RemoveAt(s, p)[i] = IF i < p THEN s[i] ELSE s[i + 1]
  BY RemoveAtIs
<1> DEFINE u == T!RemoveAt(s, p)
<1> HIDE DEF u
<1>3. u \in Seq(S) /\ Len(u) = Len(t) /\ \A i \in 1 .. Len(t) : u[i] = t[i]
  BY <1>2 DEF u
<1>4. u = t
  BY <1>3
<1> QED
  BY <1>1, <1>4 DEF u

(* The sequence that a ring stands for after it has grown at place j is    *)
(* the old one with one value more, at j + 1.                              *)
LEMMA GrownIs ==
  ASSUME NEW q, NEW n, Ready(q, n), NEW j \in 0 .. n, NEW v \in Elements, Grown(q, n, j, v),
         count' \in Nat, kind # "list" => count' = n + 1
  PROVE  /\ C!Contents \in Seq(Elements) /\ Len(C!Contents) = n
         /\ C!Contents' \in Seq(Elements) /\ Len(C!Contents') = n + 1
         /\ C!Sequence!Without(C!Contents', j + 1) = C!Contents
         /\ ~Broken /\ ~Broken' /\ kind' = kind /\ result' = << >>
<1>1. PICK m \in (1 .. MaxNodes) \ live :
      \E r : /\ r = [i \in 0 .. n + 2 |-> IF i =< j THEN q[i] ELSE IF i = j + 1 THEN m ELSE q[i - 1]]
             /\ Memory' /\ Ring(r, n + 1)'
             /\ value' = [value EXCEPT ![m] = v] /\ live' = live \cup {m}
             /\ kind' = kind /\ oops' = oops /\ result' = << >>
  BY Zenon DEF Grown
<1>2. PICK r :
        /\ r = [i \in 0 .. n + 2 |-> IF i =< j THEN q[i] ELSE IF i = j + 1 THEN m ELSE q[i - 1]]
        /\ Memory' /\ Ring(r, n + 1)' /\ value' = [value EXCEPT ![m] = v]
        /\ kind' = kind /\ result' = << >>
  BY <1>1
<1>3. Ready(r, n + 1)'
  BY <1>2 DEF Ready
<1>4. C!Contents = Listed(q, n) /\ C!Contents' = Listed(r, n + 1)' /\ ~Broken /\ ~Broken'
  BY <1>3, SeenAlways, SeenThen DEF Seen
<1> DEFINE old == C!Contents
           new == C!Contents'
<1>5. n \in Nat /\ (\A i \in 1 .. n : q[i] \in 1 .. MaxNodes /\ q[i] # m) /\ value \in [1 .. MaxNodes -> Elements]
  BY DEF Ready, Ring, Memory, Elements
<1>6. /\ old \in Seq(Elements) /\ Len(old) = n
      /\ \A i \in 1 .. n : old[i] = value[q[i]]
  BY <1>4, ListedIs
<1>7. \A i \in 1 .. n + 1 : value'[r[i]] = IF i =< j THEN value[q[i]] ELSE IF i = j + 1 THEN v ELSE value[q[i - 1]]
  <2> SUFFICES ASSUME NEW i \in 1 .. n + 1
               PROVE  value'[r[i]] = IF i =< j THEN value[q[i]] ELSE IF i = j + 1 THEN v ELSE value[q[i - 1]]
    OBVIOUS
  <2>1. CASE i =< j
    BY <1>2, <1>5, <2>1
  <2>2. CASE i = j + 1
    BY <1>2, <1>5, <2>2
  <2>3. CASE i > j + 1
    <3>1. i - 1 \in 1 .. n /\ r[i] = q[i - 1] /\ ~(i =< j) /\ i # j + 1
      BY <1>2, <1>5, <2>3
    <3>2. q[i - 1] \in 1 .. MaxNodes /\ q[i - 1] # m
      BY <1>5, <3>1
    <3> QED
      BY <1>2, <1>5, <3>1, <3>2
  <2> QED
    BY <1>5, <2>1, <2>2, <2>3
<1>8. new = [i \in 1 .. n + 1 |-> value'[r[i]]]
  BY <1>4 DEF Listed
<1>9. \A i \in 1 .. n + 1 : value'[r[i]] \in Elements
  BY <1>5, <1>7
<1> HIDE DEF old, new
<1>10. new \in Seq(Elements) /\ Len(new) = n + 1
  BY <1>5, <1>8, <1>9
<1>11. \A i \in 1 .. n : old[i] = IF i < j + 1 THEN new[i] ELSE new[i + 1]
  <2> SUFFICES ASSUME NEW i \in 1 .. n
               PROVE  old[i] = IF i < j + 1 THEN new[i] ELSE new[i + 1]
    OBVIOUS
  <2>1. i \in 1 .. n + 1 /\ i + 1 \in 1 .. n + 1 /\ (i + 1) - 1 = i
    BY <1>5
  <2>2. new[i] = value'[r[i]] /\ new[i + 1] = value'[r[i + 1]]
    BY <1>8, <2>1
  <2> QED
    BY <1>5, <1>6, <1>7, <2>1, <2>2
<1>12. C!Sequence!Without(new, j + 1) = old
  <2>1. j + 1 \in 1 .. Len(new) /\ Len(old) = Len(new) - 1 /\ Len(new) - 1 = n
    BY <1>5, <1>6, <1>10
  <2> QED
    BY <1>6, <1>10, <1>11, <2>1, WithoutIs
<1> QED
  BY <1>2, <1>4, <1>6, <1>10, <1>12 DEF old, new

(* The sequence after the node at place j has gone is the old one without  *)
(* the value at j.                                                         *)
LEMMA ShrunkIs ==
  ASSUME NEW q, NEW n, Ready(q, n), NEW j \in 1 .. n, Shrunk(q, n, j),
         count' \in Nat, kind # "list" => count' = n - 1,
         value' = value \/ value' = [value EXCEPT ![q[j]] = 0]
  PROVE  /\ C!Contents \in Seq(Elements) /\ Len(C!Contents) = n
         /\ C!Contents' \in Seq(Elements) /\ Len(C!Contents') = n - 1
         /\ \A i \in 1 .. n : C!Contents[i] = value[q[i]]
         /\ \A i \in 1 .. n - 1 : C!Contents'[i] = IF i < j THEN C!Contents[i] ELSE C!Contents[i + 1]
         /\ ~Broken /\ ~Broken' /\ kind' = kind
<1>1. PICK r :
        /\ r = [i \in 0 .. n |-> IF i < j THEN q[i] ELSE q[i + 1]]
        /\ Memory' /\ Ring(r, n - 1)' /\ kind' = kind
  BY Zenon DEF Shrunk
<1>2. Ready(r, n - 1)'
  BY <1>1 DEF Ready
<1>3. C!Contents = Listed(q, n) /\ C!Contents' = Listed(r, n - 1)' /\ ~Broken /\ ~Broken'
  BY <1>2, SeenAlways, SeenThen DEF Seen
<1> DEFINE old == C!Contents
           new == C!Contents'
<1>4. n \in Nat /\ (\A i \in 1 .. n : q[i] \in 1 .. MaxNodes) /\ value \in [1 .. MaxNodes -> Elements]
  BY DEF Ready, Ring, Memory, Elements
<1>5. \A i \in 1 .. n : q[i] = q[j] => i = j
  BY DEF Ready, Ring
<1>6. /\ old \in Seq(Elements) /\ Len(old) = n
      /\ \A i \in 1 .. n : old[i] = value[q[i]]
  BY <1>3, ListedIs
<1>7. \A i \in 1 .. n : i # j => value'[q[i]] = value[q[i]]
  BY <1>4, <1>5
<1>8. \A i \in 1 .. n - 1 : value'[r[i]] = IF i < j THEN value[q[i]] ELSE value[q[i + 1]]
  <2> SUFFICES ASSUME NEW i \in 1 .. n - 1
               PROVE  value'[r[i]] = IF i < j THEN value[q[i]] ELSE value[q[i + 1]]
    OBVIOUS
  <2>1. i \in 1 .. n /\ i + 1 \in 1 .. n /\ i \in 0 .. n
    BY <1>4
  <2> QED
    BY <1>1, <1>4, <1>7, <2>1
<1>9. new = [i \in 1 .. n - 1 |-> value'[r[i]]]
  BY <1>3 DEF Listed
<1>10. \A i \in 1 .. n - 1 : value'[r[i]] \in Elements
  BY <1>4, <1>8
<1> HIDE DEF old, new
<1>11. new \in Seq(Elements) /\ Len(new) = n - 1
  BY <1>4, <1>9, <1>10
<1>12. \A i \in 1 .. n - 1 : new[i] = IF i < j THEN old[i] ELSE old[i + 1]
  <2> SUFFICES ASSUME NEW i \in 1 .. n - 1
               PROVE  new[i] = IF i < j THEN old[i] ELSE old[i + 1]
    OBVIOUS
  <2>1. i \in 1 .. n /\ i + 1 \in 1 .. n
    BY <1>4
  <2> QED
    BY <1>6, <1>8, <1>9, <2>1
<1> QED
  BY <1>1, <1>3, <1>6, <1>11, <1>12 DEF old, new

(* A call without an effect and a result is a Refuse.                      *)
LEMMA RefusedIs ==
  ASSUME Whole, Unmoved, result' = << >>
  PROVE  C!Sequence!Next
<1>1. C!Contents' = C!Contents /\ Broken' = Broken /\ kind' = kind
  BY UnmovedSame
<1>2. C!Sequence!Refuse
  BY <1>1 DEF C!Sequence!Refuse, Broken
<1> QED
  BY <1>2 DEF C!Sequence!Next

(* link_list_len, queue_len and stack_len are a Count.                     *)
LEMMA CountedIs ==
  ASSUME Whole, kind # "none", Unmoved, result' = <<count>>
  PROVE  C!Sequence!Next
<1>1. C!Contents' = C!Contents /\ Broken' = Broken /\ kind' = kind
  BY UnmovedSame
<1>2. Len(result') = 1 /\ result'[1] = count
  OBVIOUS
<1>3. count \in IF kind = "list" THEN Nat ELSE {Len(C!Contents)}
  <2>1. CASE kind = "list"
    BY <2>1 DEF Whole
  <2>2. CASE kind # "list"
    <3>1. PICK q, n : Ready(q, n)
      BY <2>2 DEF Whole
    <3>2. C!Contents = Listed(q, n) /\ Len(Listed(q, n)) = n
      BY <3>1, SeenAlways, ListedIs DEF Seen
    <3>3. count = n
      BY <2>2, <3>1 DEF Ready
    <3> QED
      BY <2>2, <3>2, <3>3
  <2> QED
    BY <2>1, <2>2
<1>4. C!Sequence!Count
  BY <1>1, <1>2, <1>3 DEF C!Sequence!Count, Broken
<1> QED
  BY <1>4 DEF C!Sequence!Next

(* link_list_get and to_string are a Look.                                 *)
LEMMA LookedIs ==
  ASSUME NEW q, NEW n, Ready(q, n), Whole, Unmoved,
         result' = C!Contents \/ \E k \in 1 .. n : result' = <<value[q[k]]>>
  PROVE  C!Sequence!Next
<1>1. C!Contents' = C!Contents /\ Broken' = Broken /\ kind' = kind
  BY UnmovedSame
<1>2. C!Contents = Listed(q, n) /\ ~Broken
  BY SeenAlways DEF Seen
<1>3. DOMAIN C!Contents = 1 .. n /\ \A k \in 1 .. n : C!Contents[k] = value[q[k]]
  BY <1>2 DEF Listed
<1>4. result' = C!Contents \/ \E k \in DOMAIN C!Contents : result' = <<C!Contents[k]>>
  BY <1>3
<1>5. C!Sequence!Look
  BY <1>1, <1>4 DEF C!Sequence!Look, Broken
<1> QED
  BY <1>2, <1>5 DEF C!Sequence!Next, Broken

(* The calls that add a node are a Grow, at the front of a stack and at    *)
(* the end of a queue.                                                     *)
LEMMA GrewIs ==
  ASSUME NEW q, NEW n, Ready(q, n), NEW j \in 0 .. n, NEW v \in Elements, Grown(q, n, j, v),
         count' \in Nat, kind # "list" => count' = n + 1,
         kind = "stack" => j = 0, kind = "queue" => j = n
  PROVE  C!Sequence!Next
<1>1. /\ C!Contents' \in Seq(Elements) /\ Len(C!Contents') = n + 1
      /\ C!Sequence!Without(C!Contents', j + 1) = C!Contents
      /\ ~Broken /\ ~Broken' /\ kind' = kind /\ result' = << >>
  BY GrownIs
<1>2. n \in Nat
  BY DEF Ready, Ring
<1>3. j + 1 \in DOMAIN C!Contents' /\ (kind = "stack" => j + 1 = 1) /\ (kind = "queue" => j + 1 = Len(C!Contents'))
  BY <1>1, <1>2
<1>4. C!Sequence!Grow
  BY <1>1, <1>3 DEF C!Sequence!Grow, Broken
<1> QED
  BY <1>1, <1>4 DEF C!Sequence!Next, Broken

(* A sequence without its first value.                                     *)
LEMMA TailIs ==
  ASSUME NEW S, NEW s \in Seq(S), NEW t \in Seq(S), s # << >>, Len(t) = Len(s) - 1,
         \A i \in 1 .. Len(s) - 1 : t[i] = s[i + 1]
  PROVE  t = Tail(s)
<1> DEFINE u == Tail(s)
<1>1. u \in Seq(S) /\ Len(u) = Len(s) - 1 /\ \A i \in 1 .. Len(s) - 1 : u[i] = s[i + 1]
  OBVIOUS
<1> HIDE DEF u
<1>2. t = u
  BY <1>1
<1> QED
  BY <1>2 DEF u

(* A pop that takes a node out is a Pop.                                   *)
LEMMA PoppedIs ==
  ASSUME NEW q, NEW n, Ready(q, n), n > 0, Shrunk(q, n, 1),
         count' \in Nat, kind # "list" => count' = n - 1,
         value' = [value EXCEPT ![q[1]] = 0], result' = <<value[q[1]]>>
  PROVE  C!Sequence!Next
<1>1. n \in Nat /\ 1 \in 1 .. n
  BY DEF Ready, Ring
<1>2. /\ C!Contents \in Seq(Elements) /\ Len(C!Contents) = n
      /\ C!Contents' \in Seq(Elements) /\ Len(C!Contents') = n - 1
      /\ \A i \in 1 .. n : C!Contents[i] = value[q[i]]
      /\ \A i \in 1 .. n - 1 : C!Contents'[i] = IF i < 1 THEN C!Contents[i] ELSE C!Contents[i + 1]
      /\ ~Broken /\ ~Broken' /\ kind' = kind
  BY <1>1, ShrunkIs
<1>3. C!Contents # << >> /\ Head(C!Contents) = value[q[1]]
  BY <1>1, <1>2
<1>4. C!Contents' = Tail(C!Contents)
  <2>1. \A i \in 1 .. Len(C!Contents) - 1 : C!Contents'[i] = C!Contents[i + 1]
    BY <1>1, <1>2
  <2> QED
    BY <1>2, <1>3, <2>1, TailIs
<1>5. C!Sequence!Pop
  BY <1>2, <1>3, <1>4 DEF C!Sequence!Pop, Broken
<1> QED
  BY <1>2, <1>5 DEF C!Sequence!Next, Broken

(* A link_list_remove that unlinks a node is a Remove.                     *)
LEMMA RemovedIs ==
  ASSUME NEW q, NEW n, Ready(q, n), kind = "list", NEW j \in 1 .. n, Shrunk(q, n, j),
         count' \in Nat, value' = value, result' = << >>
  PROVE  C!Sequence!Next
<1>1. n \in Nat
  BY DEF Ready, Ring
<1>2. /\ C!Contents \in Seq(Elements) /\ Len(C!Contents) = n
      /\ C!Contents' \in Seq(Elements) /\ Len(C!Contents') = n - 1
      /\ \A i \in 1 .. n - 1 : C!Contents'[i] = IF i < j THEN C!Contents[i] ELSE C!Contents[i + 1]
      /\ ~Broken /\ ~Broken' /\ kind' = kind
  BY ShrunkIs
<1>3. C!Sequence!Without(C!Contents, j) = C!Contents'
  BY <1>1, <1>2, WithoutIs
<1>4. j \in DOMAIN C!Contents
  BY <1>1, <1>2
<1>5. C!Sequence!Remove
  BY <1>2, <1>3, <1>4 DEF C!Sequence!Remove, Broken
<1> QED
  BY <1>2, <1>5 DEF C!Sequence!Next, Broken

(* Every call of a container with a ring is a step of the sequence.        *)
LEMMA SequenceReadyStep ==
  ASSUME Whole, NEW q, NEW n, Ready(q, n), NEW c, Proper(c), C!Do(c)
  PROVE  C!Sequence!Next
<1>1. kind \in {"list", "queue", "stack"} /\ count \in Nat /\ n \in Nat /\ (kind # "list" => count = n)
  BY DEF Ready, Ring
<1>2. c.index \in Int /\ c.value \in Values \cup Int /\ c.value \in Elements
  BY DEF Proper, Elements
<1>3. ASSUME Unmoved, result' = << >> PROVE C!Sequence!Next
  BY <1>3, RefusedIs
<1>4. CASE C!push(c.value)
  <2>1. CASE Faulted
    BY <1>3, <2>1 DEF Faulted
  <2>2. CASE ~Faulted
    <3>1. Grown(q, n, IF kind = "stack" THEN 0 ELSE n, c.value) /\ count' = count + 1
      BY <1>2, <1>4, <2>2, PushIs
    <3>2. PICK j, v : /\ j = IF kind = "stack" THEN 0 ELSE n
                      /\ v = c.value /\ Grown(q, n, j, v)
      BY <3>1, Zenon
    <3>3. /\ j \in 0 .. n /\ v \in Elements /\ count' \in Nat /\ (kind # "list" => count' = n + 1)
          /\ (kind = "stack" => j = 0) /\ (kind = "queue" => j = n)
      BY <1>1, <1>2, <3>1, <3>2
    <3> QED
      BY <3>2, <3>3, GrewIs
  <2> QED
    BY <2>1, <2>2
<1>5. CASE C!pop
  <2>1. CASE Declined
    BY <1>3, <2>1 DEF Declined
  <2>2. CASE ~Declined
    <3>1. /\ n > 0 /\ count > 0 /\ Shrunk(q, n, 1) /\ count' = count - 1
          /\ result' = <<value[q[1]]>> /\ value' = [value EXCEPT ![q[1]] = 0]
      BY <1>5, <2>2, PopIs
    <3>2. count' \in Nat /\ (kind # "list" => count' = n - 1)
      BY <1>1, <3>1
    <3> QED
      BY <3>1, <3>2, PoppedIs
  <2> QED
    BY <2>1, <2>2
<1>6. CASE C!len
  <2>1. Unmoved /\ result' = <<count>>
    BY <1>6 DEF C!len, C!ring, Unmoved
  <2> QED
    BY <1>1, <2>1, CountedIs
<1>7. CASE C!to_string
  <2>1. Declined \/ (Unmoved /\ result' = C!Contents)
    BY <1>7, ToStringIs
  <2> QED
    BY <1>3, <2>1, LookedIs DEF Declined
<1>8. CASE C!del
  <2>1. kind' = "none" /\ result' = << >>
    BY <1>8, DelIs
  <2>2. C!Contents' = << >> /\ ~Broken'
    BY <2>1 DEF C!Contents, Broken
  <2>3. ~Broken
    BY SeenAlways DEF Seen
  <2>4. C!Sequence!Delete
    BY <1>1, <2>1, <2>2, <2>3 DEF C!Sequence!Delete, Broken
  <2> QED
    BY <2>3, <2>4 DEF C!Sequence!Next, Broken
<1>9. CASE C!get(c.index)
  <2>1. Unmoved /\ (result' = << >> \/ \E k \in 1 .. n : result' = <<value[q[k]]>>)
    BY <1>2, <1>9, GetIs
  <2> QED
    BY <1>3, <2>1, LookedIs
<1>10. CASE kind = "list" /\ C!insert(c.index, c.value)
  <2>1. CASE Declined \/ Faulted
    BY <1>3, <2>1 DEF Declined, Faulted
  <2>2. CASE ~(Declined \/ Faulted)
    <3>1. /\ Place(n, c.index) /\ count' = count
          /\ Grown(q, n, IF c.index + 2 = n + 1 THEN 0 ELSE c.index + 2, c.value)
      BY <1>2, <1>10, <2>2, InsertIs
    <3>2. PICK j, v : /\ j = IF c.index + 2 = n + 1 THEN 0 ELSE c.index + 2
                      /\ v = c.value /\ Grown(q, n, j, v)
      BY <3>1, Zenon
    <3>3. j \in 0 .. n /\ v \in Elements /\ count' \in Nat
      BY <1>1, <1>2, <3>1, <3>2 DEF Place
    <3> QED
      BY <1>10, <3>2, <3>3, GrewIs
  <2> QED
    BY <2>1, <2>2
<1>11. CASE kind = "list" /\ C!remove(c.index)
  <2>1. CASE Declined
    BY <1>3, <2>1 DEF Declined
  <2>2. CASE C!Detached' /\ kind' = kind /\ result' = << >>
    <3>1. Broken' /\ C!Contents' = << >>
      BY <1>11, <2>2 DEF Broken, C!Contents
    <3>2. ~Broken
      BY SeenAlways DEF Seen
    <3>3. C!Sequence!Break
      BY <1>11, <2>2, <3>1 DEF C!Sequence!Break, Broken
    <3> QED
      BY <3>2, <3>3 DEF C!Sequence!Next, Broken
  <2>3. CASE /\ c.index + 2 \in 1 .. n /\ Shrunk(q, n, c.index + 2) /\ result' = << >>
             /\ UNCHANGED <<value, live, count>>
    <3>1. PICK j \in 1 .. n : Shrunk(q, n, j)
      BY <2>3, Zenon
    <3>2. count' \in Nat /\ value' = value /\ result' = << >>
      BY <1>1, <2>3
    <3> QED
      BY <1>11, <3>1, <3>2, RemovedIs
  <2> QED
    BY <1>2, <1>11, <2>1, <2>2, <2>3, RemoveIs
<1> QED
  BY <1>1, <1>4, <1>5, <1>6, <1>7, <1>8, <1>9, <1>10, <1>11, DoIs

(* Every call is a step of the sequence.                                   *)
LEMMA SequenceStep ==
  ASSUME Whole, NEW c, Proper(c), C!Do(c)
  PROVE  C!Sequence!Next
<1>1. CASE kind = "none"
  <2>1. PICK k : k = c.op
    OBVIOUS
  <2>2. C!add(k) /\ k \in {"list", "queue", "stack"}
    BY <1>1, <2>1 DEF C!Do, C!link_list, C!queue, C!stack
  <2>3. Memory
    BY DEF Whole
  <2>4. CASE Faulted
    BY <2>4, RefusedIs DEF Faulted
  <2>5. CASE kind' = k /\ count' = 0 /\ Memory' /\ result' = << >> /\ \E q : Ring(q, 0)'
    <3>1. PICK q : Ring(q, 0)'
      BY <2>5
    <3>2. Ready(q, 0)'
      BY <2>2, <2>5, <3>1 DEF Ready
    <3>3. C!Contents' = Listed(q, 0)' /\ ~Broken'
      BY <3>2, SeenThen DEF Seen
    <3>4. Listed(q, 0)' = << >>
      BY DEF Listed
    <3>5. C!Contents = << >> /\ ~Broken
      BY <1>1 DEF C!Contents, Broken
    <3>6. C!Sequence!Create
      BY <1>1, <2>2, <2>5, <3>3, <3>4, <3>5 DEF C!Sequence!Create, Broken
    <3> QED
      BY <3>5, <3>6 DEF C!Sequence!Next, Broken
  <2> QED
    BY <2>2, <2>3, <2>4, <2>5, AddIs
<1>2. CASE kind = "list" /\ C!Detached
  <2>1. Unmoved /\ (result' = << >> \/ result' = <<count>>)
    BY <1>2, BrokenStays
  <2> QED
    BY <1>2, <2>1, RefusedIs, CountedIs
<1>3. CASE \E q, n : Ready(q, n)
  BY <1>3, SequenceReadyStep
<1> QED
  BY <1>1, <1>2, <1>3 DEF Whole

(* The containers of container.c, pointers and all, implement the sequence *)
(* of values that their users see: for every number of nodes and all       *)
(* values, each value comes out once and in order, and one call changes    *)
(* one place, until link_list_remove unlinks the head of a list.           *)
THEOREM SequenceTheorem == C!Spec => ImplementsSequence
<1>1. C!Init => C!Sequence!Init
  <2> SUFFICES ASSUME C!Init PROVE C!Sequence!Init
    OBVIOUS
  <2>1. kind = "none" /\ result = << >>
    BY DEF C!Init
  <2>2. C!Contents = << >>
    BY <2>1 DEF C!Contents
  <2> QED
    BY <2>1, <2>2 DEF C!Sequence!Init
<1>2. ContainersInv /\ [C!Next]_(C!vars) => [C!Sequence!Next]_(C!Sequence!abstract)
  <2> SUFFICES ASSUME ContainersInv, [C!Next]_(C!vars)
               PROVE  [C!Sequence!Next]_(C!Sequence!abstract)
    OBVIOUS
  <2>1. Whole
    BY DEF ContainersInv
  <2>2. CASE UNCHANGED C!vars
    <3>1. Unmoved /\ result' = result
      BY <2>2 DEF C!vars, C!ring, Unmoved
    <3>2. C!Contents' = C!Contents /\ Broken' = Broken /\ kind' = kind
      BY <2>1, <3>1, UnmovedSame
    <3> QED
      BY <3>1, <3>2 DEF C!Sequence!abstract, Broken
  <2>3. CASE \E c \in C!Calls : C!Do(c)
    BY <2>1, <2>3, CallsAreProper, SequenceStep
  <2>4. CASE ip \in DOMAIN C!list_init /\ C!Do(C!list_init[ip])
    <3>1. PICK c : c = C!list_init[ip]
      OBVIOUS
    <3>2. Proper(c) /\ C!Do(c)
      BY <2>4, <3>1, ListInitIs
    <3> QED
      BY <2>1, <3>2, SequenceStep
  <2> QED
    BY <2>2, <2>3, <2>4 DEF C!Next
<1> QED
  BY <1>1, <1>2, ContainersInvariant, PTL
     DEF C!Spec, ImplementsSequence, C!ImplementsSequence, C!Sequence!Spec

-----------------------------------------------------------------------------
(* The growing string.                                                     *)
USE StringViewAssumption

(* What one turn of the loop of string_growup does to the capacity: it     *)
(* stays a natural number, and if it gets larger it is at most HALF.       *)
LEMMA GrownBounded ==
  ASSUME NEW c \in Nat
  PROVE  grown(c) \in Nat /\ (grown(c) =< HALF \/ grown(c) =< c)
<1>1. CASE c =< GROW
  BY <1>1 DEF grown
<1>2. CASE c > GROW /\ c =< HALF
  <2>1. c \div 2 \in Nat /\ c % 2 \in Nat /\ c = 2 * (c \div 2) + (c % 2)
    OBVIOUS
  <2>2. grown(c) = (c \div 2) + (c % 2)
    BY <1>2 DEF grown
  <2> QED BY <2>1, <2>2
<1>3. CASE c > HALF
  <2>1. c \div 4 \in Nat /\ c % 4 \in Nat /\ c = 4 * (c \div 4) + (c % 4)
    OBVIOUS
  <2>2. ~(c =< GROW) /\ ~(c =< HALF)
    BY <1>3
  <2>3. grown(c) = (c \div 4) + (c % 4)
    BY <2>2 DEF grown
  <2> QED BY <2>1, <2>3
<1> QED BY <1>1, <1>2, <1>3

(* The string that has not been made yet has no characters.                *)
LEMMA EmptyText == << >> \in Seq(Chars)
OBVIOUS

(* The lengths that the loop and the appending compare are numbers.        *)
LEMMA Lengths ==
  ASSUME TypeOK
  PROVE  len \in Nat /\ Len(arg) \in Nat
BY DEF TypeOK, len

(* Every variable of the string keeps its type.                            *)
THEOREM TypeCorrect == Spec => []TypeOK
<1>1. Init => TypeOK
  <2>1. Init => overrun \in BOOLEAN
    BY DEF Init
  <2>2. Init => cap \in Nat /\ size \in Nat
    BY DEF Init
  <2> QED BY EmptyText, <2>1, <2>2 DEF Init, TypeOK
<1>2. TypeOK /\ [Next]_vars => TypeOK'
  <2> SUFFICES ASSUME TypeOK, [Next]_vars PROVE TypeOK'
    OBVIOUS
  <2> USE DEF TypeOK
  <2>1. CASE string_new_cap
    BY <2>1 DEF string_new_cap
  <2>2. CASE string_free
    BY <2>2, EmptyText DEF string_free
  <2>3. CASE string_join
    BY <2>3 DEF string_join
  <2>4. CASE string_growup
    BY <2>4, GrownBounded DEF string_growup
  <2>5. CASE krealloc
    BY <2>5 DEF krealloc
  <2>6. CASE strncat
    BY <2>6, EmptyText DEF strncat
  <2>7. CASE Clobbered
    BY <2>7 DEF Clobbered
  <2>8. CASE UNCHANGED vars
    BY <2>8 DEF vars
  <2> QED
    BY <2>1, <2>2, <2>3, <2>4, <2>5, <2>6, <2>7, <2>8 DEF Next
<1> QED
  BY <1>1, <1>2, PTL DEF Spec

(* string_join never writes outside of the buffer, whatever string_growup  *)
(* did to the capacity on its way.                                         *)
THEOREM JoinCorrect == Spec => []JoinStaysInside
<1>1. Init => JoinStaysInside
  BY DEF Init, JoinStaysInside
<1>2. TypeOK /\ JoinStaysInside /\ [Next]_vars => JoinStaysInside'
  <2> SUFFICES ASSUME TypeOK, JoinStaysInside, [Next]_vars PROVE JoinStaysInside'
    OBVIOUS
  <2> USE Lengths DEF JoinStaysInside, len
  <2>1. CASE string_new_cap
    <3>1. PICK t \in Texts, c \in Caps :
            /\ str' = t /\ cap' = c /\ size' = c
            /\ overrun' = (Len(t) >= c)
            /\ pc' = IF c = 0 THEN "oops" ELSE "ready"
      BY <2>1 DEF string_new_cap
    <3>2. Len(t) \in Nat /\ c \in Nat
      OBVIOUS
    <3>3. ~(Len(t) >= c) => Len(t) < c
      BY <3>2
    <3>4. ~overrun' => ~(Len(t) >= c)
      BY <3>1, Zenon
    <3> QED BY <3>1, <3>3, <3>4
  <2>2. CASE string_free
    BY <2>2 DEF string_free
  <2>3. CASE string_join
    BY <2>3 DEF string_join, needs_growth, TypeOK
  <2>4. CASE string_growup
    BY <2>4 DEF string_growup
  <2>5. CASE krealloc
    BY <2>5 DEF krealloc
  <2>6. CASE strncat
    BY <2>6 DEF strncat, TypeOK
  <2>7. CASE Clobbered
    BY <2>7 DEF Clobbered
  <2>8. CASE UNCHANGED vars
    BY <2>8 DEF vars
  <2> QED
    BY <2>1, <2>2, <2>3, <2>4, <2>5, <2>6, <2>7, <2>8 DEF Next
<1> QED
  BY <1>1, <1>2, TypeCorrect, PTL DEF Spec

(* do_div leaves the quotient in s->cap and returns the remainder, so      *)
(* above GROW string_growup makes the capacity smaller: a join that has to *)
(* grow the string to HALF characters or more never leaves the loop.       *)
LongGrowthNeverEnds ==
  pc = "grow" /\ len + Len(arg) >= HALF => len + Len(arg) >= cap

(* A join that has to grow the string to HALF characters or more never     *)
(* leaves string_growup: the capacity does not get past the result.        *)
THEOREM GrowthCorrect == Spec => []LongGrowthNeverEnds
<1>1. Init => LongGrowthNeverEnds
  BY DEF Init, LongGrowthNeverEnds
<1>2. TypeOK /\ LongGrowthNeverEnds /\ [Next]_vars => LongGrowthNeverEnds'
  <2> SUFFICES ASSUME TypeOK, LongGrowthNeverEnds, [Next]_vars
               PROVE  LongGrowthNeverEnds'
    OBVIOUS
  <2> USE DEF LongGrowthNeverEnds, len
  <2>1. CASE string_new_cap
    BY <2>1 DEF string_new_cap
  <2>2. CASE string_free
    BY <2>2 DEF string_free
  <2>3. CASE string_join
    BY <2>3 DEF string_join, needs_growth
  <2>4. CASE string_growup
    <3>1. cap \in Nat /\ grown(cap) \in Nat
          /\ (grown(cap) =< HALF \/ grown(cap) =< cap)
      BY GrownBounded DEF TypeOK
    <3>2. len + Len(arg) \in Nat
      BY Lengths
    <3> QED BY <2>4, <3>1, <3>2 DEF string_growup
  <2>5. CASE krealloc
    BY <2>5 DEF krealloc
  <2>6. CASE strncat
    BY <2>6 DEF strncat
  <2>7. CASE Clobbered
    BY <2>7 DEF Clobbered
  <2>8. CASE UNCHANGED vars
    BY <2>8 DEF vars
  <2> QED
    BY <2>1, <2>2, <2>3, <2>4, <2>5, <2>6, <2>7, <2>8 DEF Next
<1> QED
  BY <1>1, <1>2, TypeCorrect, PTL DEF Spec

-----------------------------------------------------------------------------
(* The searches.  O is the set of places where the text occurs, L the last *)
(* place that is looked at.                                                *)
IsUp(f, n, L, O) ==
  f = [i \in 0 .. n + 1 |-> IF i > L THEN -1 ELSE IF i \in O THEN i ELSE f[i + 1]]
FirstFrom(i, v, L, O) ==
  \/ v = -1 /\ \A j \in i .. L : j \notin O
  \/ v \in i .. L /\ v \in O /\ \A j \in i .. v - 1 : j \notin O

(* The scan upwards finds the first occurrence: by the least distance from *)
(* the end of a place from which it does not.                              *)
LEMMA UpFinds ==
  ASSUME NEW n \in Nat, NEW L \in 0 .. n, NEW O, NEW f, IsUp(f, n, L, O)
  PROVE  \A i \in 0 .. n + 1 : FirstFrom(i, f[i], L, O)
<1> DEFINE Bad == {d \in 0 .. n + 1 : ~FirstFrom(n + 1 - d, f[n + 1 - d], L, O)}
<1>1. ASSUME NEW i \in 0 .. n + 1
      PROVE  f[i] = IF i > L THEN -1 ELSE IF i \in O THEN i ELSE f[i + 1]
  BY Zenon DEF IsUp
<1>2. ASSUME NEW d \in Bad, \A m \in Bad : d =< m PROVE FALSE
  <2>1. d \in 0 .. n + 1 /\ ~FirstFrom(n + 1 - d, f[n + 1 - d], L, O)
    OBVIOUS
  <2> DEFINE i == n + 1 - d
  <2>2. i \in 0 .. n + 1 /\ n + 1 - i = d
    BY <2>1
  <2>3. CASE i > L
    <3>1. f[i] = -1
      BY <1>1, <2>2, <2>3
    <3>2. FirstFrom(i, -1, L, O)
      BY <2>2, <2>3 DEF FirstFrom
    <3> QED
      BY <2>1, <3>1, <3>2
  <2>4. CASE i =< L /\ i \in O
    <3>1. f[i] = i
      BY <1>1, <2>2, <2>4
    <3>2. FirstFrom(i, i, L, O)
      BY <2>2, <2>4 DEF FirstFrom
    <3> QED
      BY <2>1, <3>1, <3>2
  <2>5. CASE i =< L /\ i \notin O
    <3>1. f[i] = f[i + 1]
      BY <1>1, <2>2, <2>5
    <3>2. d - 1 \in 0 .. n + 1 /\ n + 1 - (d - 1) = i + 1 /\ d - 1 < d
      BY <2>1, <2>2, <2>5
    <3>3. d - 1 \notin Bad
      <4> HIDE DEF Bad
      <4> QED BY <1>2, <2>1, <3>2
    <3>4. FirstFrom(i + 1, f[i + 1], L, O)
      BY <3>2, <3>3
    <3>5. FirstFrom(i, f[i + 1], L, O)
      <4>1. ASSUME \A j \in i + 1 .. L : j \notin O PROVE \A j \in i .. L : j \notin O
        BY <2>2, <2>5, <4>1
      <4>2. ASSUME NEW v \in i + 1 .. L, \A j \in i + 1 .. v - 1 : j \notin O
            PROVE  v \in i .. L /\ \A j \in i .. v - 1 : j \notin O
        BY <2>2, <2>5, <4>2
      <4> HIDE DEF i
      <4> QED
        BY <3>4, <4>1, <4>2 DEF FirstFrom
    <3> QED
      BY <2>1, <3>1, <3>5
  <2> QED
    BY <2>2, <2>3, <2>4, <2>5
<1>3. Bad = {}
  <2>1. Bad \subseteq Nat
    OBVIOUS
  <2> HIDE DEF Bad
  <2> QED
    BY <1>2, <2>1, Least
<1>4. ASSUME NEW i \in 0 .. n + 1 PROVE FirstFrom(i, f[i], L, O)
  <2>1. n + 1 - i \in 0 .. n + 1 /\ n + 1 - (n + 1 - i) = i
    OBVIOUS
  <2> QED
    BY <1>3, <2>1
<1> QED
  BY <1>4

(* There is such a scan: the first occurrence is one.                      *)
LEMMA UpExists ==
  ASSUME NEW n \in Nat, NEW L \in 0 .. n, NEW O
  PROVE  \E f : IsUp(f, n, L, O)
<1> DEFINE V(i) == CHOOSE v : FirstFrom(i, v, L, O)
<1> DEFINE f == [i \in 0 .. n + 1 |-> V(i)]
<1>1. ASSUME NEW i \in 0 .. n + 1, NEW v, NEW w, FirstFrom(i, v, L, O), FirstFrom(i, w, L, O)
      PROVE  v = w
  BY <1>1 DEF FirstFrom
<1>2. ASSUME NEW i \in 0 .. n + 1 PROVE \E v : FirstFrom(i, v, L, O)
  <2> DEFINE S == {j \in i .. L : j \in O}
  <2>1. CASE S = {}
    <3>1. FirstFrom(i, -1, L, O)
      BY <2>1 DEF FirstFrom
    <3> QED
      BY <3>1
  <2>2. CASE S # {}
    <3>1. S \subseteq Nat
      OBVIOUS
    <3>2. PICK v \in S : \A m \in S : v =< m
      <4> HIDE DEF S
      <4> QED BY <2>2, <3>1, Least
    <3>3. \A j \in i .. v - 1 : j \notin O
      BY <3>2
    <3>4. FirstFrom(i, v, L, O)
      BY <3>2, <3>3 DEF FirstFrom
    <3> QED
      BY <3>4
  <2> QED
    BY <2>1, <2>2
<1>3. ASSUME NEW i \in 0 .. n + 1, NEW v, FirstFrom(i, v, L, O) PROVE f[i] = v
  <2>1. FirstFrom(i, f[i], L, O)
    BY <1>3, Zenon
  <2> HIDE DEF f
  <2> QED
    BY <1>1, <1>3, <2>1
<1>4. ASSUME NEW i \in 0 .. n + 1 PROVE FirstFrom(i, f[i], L, O)
  BY <1>2, Zenon
<1>5. f = [i \in 0 .. n + 1 |-> f[i]]
  <2> HIDE DEF V
  <2> QED OBVIOUS
<1> HIDE DEF f
<1>6. ASSUME NEW i \in 0 .. n + 1
      PROVE  f[i] = IF i > L THEN -1 ELSE IF i \in O THEN i ELSE f[i + 1]
  <2>1. CASE i > L
    <3>1. FirstFrom(i, -1, L, O)
      BY <2>1 DEF FirstFrom
    <3> QED
      BY <1>3, <2>1, <3>1
  <2>2. CASE i =< L /\ i \in O
    <3>1. FirstFrom(i, i, L, O)
      BY <2>2 DEF FirstFrom
    <3> QED
      BY <1>3, <2>2, <3>1
  <2>3. CASE i =< L /\ i \notin O
    <3>1. i + 1 \in 0 .. n + 1
      BY <2>3
    <3>2. FirstFrom(i + 1, f[i + 1], L, O)
      BY <1>4, <3>1
    <3>3. FirstFrom(i, f[i + 1], L, O)
      <4>1. ASSUME \A j \in i + 1 .. L : j \notin O PROVE \A j \in i .. L : j \notin O
        BY <2>3, <4>1
      <4>2. ASSUME NEW v \in i + 1 .. L, \A j \in i + 1 .. v - 1 : j \notin O
            PROVE  v \in i .. L /\ \A j \in i .. v - 1 : j \notin O
        BY <2>3, <4>2
      <4> QED
        BY <3>2, <4>1, <4>2 DEF FirstFrom
    <3> QED
      BY <1>3, <2>3, <3>3
  <2> QED
    BY <2>1, <2>2, <2>3
<1>7. f = [i \in 0 .. n + 1 |-> IF i > L THEN -1 ELSE IF i \in O THEN i ELSE f[i + 1]]
  BY <1>5, <1>6
<1> QED
  BY <1>7, Zenon DEF IsUp

(* The same for the scan downwards and the last occurrence.                *)
IsDown(f, n, O) ==
  f = [i \in -1 .. n |-> IF i < 0 THEN -1 ELSE IF i \in O THEN i ELSE f[i - 1]]
LastUpTo(i, v, O) ==
  \/ v = -1 /\ \A j \in 0 .. i : j \notin O
  \/ v \in 0 .. i /\ v \in O /\ \A j \in v + 1 .. i : j \notin O

(* What the scan downwards says of a place it says of the next one, unless *)
(* the text occurs there.                                                  *)
LEMMA DownOne ==
  ASSUME NEW i \in Nat, NEW v, NEW O, i \notin O, LastUpTo(i - 1, v, O)
  PROVE  LastUpTo(i, v, O)
<1>1. ASSUME \A j \in 0 .. i - 1 : j \notin O PROVE \A j \in 0 .. i : j \notin O
  BY <1>1
<1>2. ASSUME v \in 0 .. i - 1, \A j \in v + 1 .. i - 1 : j \notin O
      PROVE  v \in 0 .. i /\ \A j \in v + 1 .. i : j \notin O
  BY <1>2
<1> QED
  BY <1>1, <1>2 DEF LastUpTo

(* The scan downwards finds the last occurrence.                           *)
LEMMA DownFinds ==
  ASSUME NEW n \in Nat, NEW O, NEW f, IsDown(f, n, O)
  PROVE  \A i \in -1 .. n : LastUpTo(i, f[i], O)
<1> DEFINE Bad == {d \in 0 .. n + 1 : ~LastUpTo(d - 1, f[d - 1], O)}
<1>1. ASSUME NEW i \in -1 .. n
      PROVE  f[i] = IF i < 0 THEN -1 ELSE IF i \in O THEN i ELSE f[i - 1]
  BY Zenon DEF IsDown
<1>2. ASSUME NEW d \in Bad, \A m \in Bad : d =< m PROVE FALSE
  <2>1. d \in 0 .. n + 1 /\ ~LastUpTo(d - 1, f[d - 1], O)
    OBVIOUS
  <2> DEFINE i == d - 1
  <2>2. i \in -1 .. n
    BY <2>1
  <2>3. CASE i < 0
    <3>1. f[i] = -1
      BY <1>1, <2>2, <2>3
    <3>2. LastUpTo(i, -1, O)
      BY <2>2, <2>3 DEF LastUpTo
    <3> QED
      BY <2>1, <3>1, <3>2
  <2>4. CASE i >= 0 /\ i \in O
    <3>1. f[i] = i
      BY <1>1, <2>2, <2>4
    <3>2. LastUpTo(i, i, O)
      BY <2>2, <2>4 DEF LastUpTo
    <3> QED
      BY <2>1, <3>1, <3>2
  <2>5. CASE i >= 0 /\ i \notin O
    <3>1. f[i] = f[i - 1]
      BY <1>1, <2>2, <2>5
    <3>2. i \in Nat /\ i \in 0 .. n + 1 /\ i < d
      BY <2>1, <2>2, <2>5
    <3>3. i \notin Bad
      <4> HIDE DEF Bad
      <4> QED BY <1>2, <2>1, <3>2
    <3>4. LastUpTo(i - 1, f[i - 1], O)
      BY <3>2, <3>3
    <3>5. LastUpTo(i, f[i - 1], O)
      BY <2>5, <3>2, <3>4, DownOne
    <3> QED
      BY <2>1, <3>1, <3>5
  <2> QED
    BY <2>2, <2>3, <2>4, <2>5
<1>3. Bad = {}
  <2>1. Bad \subseteq Nat
    OBVIOUS
  <2> HIDE DEF Bad
  <2> QED
    BY <1>2, <2>1, Least
<1>4. ASSUME NEW i \in -1 .. n PROVE LastUpTo(i, f[i], O)
  <2>1. i + 1 \in 0 .. n + 1 /\ (i + 1) - 1 = i
    OBVIOUS
  <2>2. \A d \in 0 .. n + 1 : LastUpTo(d - 1, f[d - 1], O)
    BY <1>3
  <2>3. PICK d \in 0 .. n + 1 : d - 1 = i
    BY <2>1
  <2> QED
    BY <2>2, <2>3
<1> QED
  BY <1>4

(* There is a scan downwards.                                              *)
LEMMA DownExists ==
  ASSUME NEW n \in Nat, NEW O
  PROVE  \E f : IsDown(f, n, O)
<1> DEFINE V(i) == CHOOSE v : LastUpTo(i, v, O)
<1> DEFINE f == [i \in -1 .. n |-> V(i)]
<1>1. ASSUME NEW i \in -1 .. n, NEW v, NEW w, LastUpTo(i, v, O), LastUpTo(i, w, O)
      PROVE  v = w
  BY <1>1 DEF LastUpTo
<1>2. ASSUME NEW i \in -1 .. n PROVE \E v : LastUpTo(i, v, O)
  <2> DEFINE S == {d \in 0 .. i : i - d \in O}
  <2>1. CASE S = {}
    <3>1. ASSUME NEW j \in 0 .. i PROVE j \notin O
      <4>1. i - j \in 0 .. i /\ i - (i - j) = j
        OBVIOUS
      <4> QED BY <2>1, <4>1
    <3>2. LastUpTo(i, -1, O)
      BY <3>1 DEF LastUpTo
    <3> QED
      BY <3>2
  <2>2. CASE S # {}
    <3>1. S \subseteq Nat
      OBVIOUS
    <3>2. PICK d \in S : \A m \in S : d =< m
      <4> HIDE DEF S
      <4> QED BY <2>2, <3>1, Least
    <3>3. ASSUME NEW j \in i - d + 1 .. i PROVE j \notin O
      <4>1. d \in 0 .. i /\ i - j \in 0 .. i /\ i - j < d /\ i - (i - j) = j
        BY <3>2
      <4>2. i - j \notin S
        <5> HIDE DEF S
        <5> QED BY <3>2, <4>1
      <4> QED BY <4>1, <4>2
    <3>4. LastUpTo(i, i - d, O)
      BY <3>2, <3>3 DEF LastUpTo
    <3> QED
      BY <3>4
  <2> QED
    BY <2>1, <2>2
<1>3. ASSUME NEW i \in -1 .. n, NEW v, LastUpTo(i, v, O) PROVE f[i] = v
  <2>1. LastUpTo(i, f[i], O)
    BY <1>3, Zenon
  <2> HIDE DEF f
  <2> QED
    BY <1>1, <1>3, <2>1
<1>4. ASSUME NEW i \in -1 .. n PROVE LastUpTo(i, f[i], O)
  BY <1>2, Zenon
<1>5. f = [i \in -1 .. n |-> f[i]]
  <2> HIDE DEF V
  <2> QED OBVIOUS
<1> HIDE DEF f
<1>6. ASSUME NEW i \in -1 .. n
      PROVE  f[i] = IF i < 0 THEN -1 ELSE IF i \in O THEN i ELSE f[i - 1]
  <2>1. CASE i < 0
    <3>1. LastUpTo(i, -1, O)
      BY <2>1 DEF LastUpTo
    <3> QED
      BY <1>3, <2>1, <3>1
  <2>2. CASE i >= 0 /\ i \in O
    <3>1. LastUpTo(i, i, O)
      BY <2>2 DEF LastUpTo
    <3> QED
      BY <1>3, <2>2, <3>1
  <2>3. CASE i >= 0 /\ i \notin O
    <3>1. i \in Nat /\ i - 1 \in -1 .. n
      BY <2>3
    <3>2. LastUpTo(i - 1, f[i - 1], O)
      BY <1>4, <3>1
    <3>3. LastUpTo(i, f[i - 1], O)
      BY <2>3, <3>1, <3>2, DownOne
    <3> QED
      BY <1>3, <2>3, <3>3
  <2> QED
    BY <2>1, <2>2, <2>3
<1>7. f = [i \in -1 .. n |-> IF i < 0 THEN -1 ELSE IF i \in O THEN i ELSE f[i - 1]]
  BY <1>5, <1>6
<1> QED
  BY <1>7, Zenon DEF IsDown

(* Where t occurs in s, as strncmp finds it.                               *)
Found(s, t) == {j \in Int : matches(s, j, t)}

(* string_index is the first of these places up to the last one where t    *)
(* can be.                                                                 *)
LEMMA IndexIs ==
  ASSUME NEW s \in Seq(Chars), NEW t \in Seq(Chars), Len(t) =< Len(s)
  PROVE  FirstFrom(0, string_index(s, t), Len(s) - Len(t), Found(s, t))
<1> DEFINE n == Len(s)
           L == Len(s) - Len(t)
           Scan(f) == f = [i \in 0 .. Len(s) + 1 |->
                             IF i > Len(s) - Len(t) THEN -1
                             ELSE IF matches(s, i, t) THEN i ELSE f[i + 1]]
<1>1. n \in Nat /\ Len(t) \in Nat /\ L \in 0 .. n
  OBVIOUS
<1>2. ASSUME NEW f PROVE Scan(f) <=> IsUp(f, n, L, Found(s, t))
  <2>1. \A i \in 0 .. n + 1 : i \in Found(s, t) <=> matches(s, i, t)
    BY <1>1 DEF Found
  <2>2. [i \in 0 .. Len(s) + 1 |->
           IF i > Len(s) - Len(t) THEN -1 ELSE IF matches(s, i, t) THEN i ELSE f[i + 1]]
        = [i \in 0 .. n + 1 |-> IF i > L THEN -1 ELSE IF i \in Found(s, t) THEN i ELSE f[i + 1]]
    BY <2>1, Zenon
  <2> QED
    BY <2>2, Zenon DEF IsUp
<1>3. ~(Len(t) > Len(s))
  BY <1>1
<1>4. string_index(s, t) = (CHOOSE f : Scan(f))[0]
  BY <1>3, Zenon DEF string_index
<1> HIDE DEF Scan, n, L
<1>5. \E f : Scan(f)
  BY <1>1, <1>2, UpExists, Zenon
<1>6. Scan(CHOOSE f : Scan(f))
  BY <1>5, Zenon
<1>7. PICK f : Scan(f) /\ string_index(s, t) = f[0]
  BY <1>4, <1>6, Zenon
<1>8. IsUp(f, n, L, Found(s, t))
  BY <1>2, <1>7
<1>9. \A i \in 0 .. n + 1 : FirstFrom(i, f[i], L, Found(s, t))
  BY <1>1, <1>8, UpFinds
<1>10. 0 \in 0 .. n + 1
  BY <1>1
<1> QED
  BY <1>7, <1>9, <1>10 DEF L

(* string_last_index is the last of them.                                  *)
LEMMA LastIndexIs ==
  ASSUME NEW s \in Seq(Chars), NEW t \in Seq(Chars), Len(t) =< Len(s)
  PROVE  LastUpTo(Len(s) - Len(t), string_last_index(s, t), Found(s, t))
<1> DEFINE n == Len(s)
           L == Len(s) - Len(t)
           Scan(f) == f = [i \in -1 .. Len(s) |->
                             IF i < 0 THEN -1
                             ELSE IF matches(s, i, t) THEN i ELSE f[i - 1]]
<1>1. n \in Nat /\ Len(t) \in Nat /\ L \in 0 .. n
  OBVIOUS
<1>2. ASSUME NEW f PROVE Scan(f) <=> IsDown(f, n, Found(s, t))
  <2>1. \A i \in -1 .. n : i \in Found(s, t) <=> matches(s, i, t)
    BY <1>1 DEF Found
  <2>2. [i \in -1 .. Len(s) |->
           IF i < 0 THEN -1 ELSE IF matches(s, i, t) THEN i ELSE f[i - 1]]
        = [i \in -1 .. n |-> IF i < 0 THEN -1 ELSE IF i \in Found(s, t) THEN i ELSE f[i - 1]]
    BY <2>1, Zenon
  <2> QED
    BY <2>2, Zenon DEF IsDown
<1>3. ~(Len(t) > Len(s))
  BY <1>1
<1>4. string_last_index(s, t) = (CHOOSE f : Scan(f))[L]
  BY <1>3, Zenon DEF string_last_index
<1> HIDE DEF Scan, n, L
<1>5. \E f : Scan(f)
  BY <1>1, <1>2, DownExists, Zenon
<1>6. Scan(CHOOSE f : Scan(f))
  BY <1>5, Zenon
<1>7. PICK f : Scan(f) /\ string_last_index(s, t) = f[L]
  BY <1>4, <1>6, Zenon
<1>8. IsDown(f, n, Found(s, t))
  BY <1>2, <1>7
<1>9. \A i \in -1 .. n : LastUpTo(i, f[i], Found(s, t))
  BY <1>1, <1>8, DownFinds
<1>10. L \in -1 .. n
  BY <1>1
<1> QED
  BY <1>7, <1>9, <1>10 DEF L

(* A text occurs at a place where it can be if the characters from there   *)
(* on are the text's.                                                      *)
LEMMA MatchIs ==
  ASSUME NEW s \in Seq(Chars), NEW t \in Seq(Chars), NEW i \in 0 .. Len(s) - Len(t)
  PROVE  SubSeq(s, i + 1, i + Len(t)) = t <=> matches(s, i, t)
<1> DEFINE m == Len(t)
           u == SubSeq(s, i + 1, i + m)
<1>1. Len(s) \in Nat /\ m \in Nat /\ i \in Nat /\ i + m =< Len(s)
  OBVIOUS
<1>2. u \in Seq(Chars) /\ Len(u) = m /\ \A j \in 1 .. m : u[j] = s[i + j]
  BY <1>1
<1>3. ASSUME u = t PROVE matches(s, i, t)
  <2>1. ASSUME NEW j \in 1 .. m PROVE i + j =< Len(s) /\ u[j] = s[i + j]
    <3>1. u[j] = s[i + j]
      BY <1>2
    <3> HIDE DEF u, m
    <3>2. i + j =< Len(s)
      BY <1>1
    <3> QED
      BY <3>1, <3>2
  <2> HIDE DEF u
  <2> QED
    BY <1>3, <2>1 DEF matches
<1>4. ASSUME matches(s, i, t) PROVE u = t
  <2>1. \A j \in 1 .. m : u[j] = t[j]
    BY <1>2, <1>4 DEF matches
  <2> HIDE DEF u
  <2> QED
    BY <1>2, <2>1
<1> QED
  BY <1>3, <1>4

(* The places where t occurs in s are those of Found between 0 and the     *)
(* last one where t can be.                                                *)
LEMMA OccurrencesAre ==
  ASSUME NEW s \in Seq(Chars), NEW t \in Seq(Chars)
  PROVE  \A i : i \in Occurrences(s, t) <=> i \in 0 .. Len(s) - Len(t) /\ i \in Found(s, t)
<1>1. ASSUME NEW i \in 0 .. Len(s) - Len(t)
      PROVE  SubSeq(s, i + 1, i + Len(t)) = t <=> i \in Found(s, t)
  BY MatchIs DEF Found
<1> HIDE DEF Found
<1> QED
  BY <1>1 DEF Occurrences

(* What SearchesAgree says of one text.                                    *)
LEMMA SearchesOne ==
  ASSUME NEW s \in Seq(Chars), NEW t \in Seq(Chars),
         NEW first, first = string_index(s, t),
         NEW last, last = string_last_index(s, t),
         NEW occ, occ = Occurrences(s, t)
  PROVE  /\ occ = {} => first = -1 /\ last = -1
         /\ occ # {} => first \in occ /\ last \in occ /\ \A i \in occ : first =< i /\ i =< last
         /\ string_has_substring(s, t) <=> occ # {}
         /\ string_has_prefix(s, t) <=> 0 \in occ
         /\ string_has_suffix(s, t) <=> Len(s) - Len(t) \in occ
         /\ first >= 0 /\ t # << >> => string_substring(s, first, first + Len(t)) = t
<1> DEFINE L == Len(s) - Len(t)
           O == Found(s, t)
<1>1. Len(s) \in Nat /\ Len(t) \in Nat /\ L \in Int
  OBVIOUS
<1>2. \A i : i \in occ <=> i \in 0 .. L /\ i \in O
  BY OccurrencesAre
<1>3. CASE Len(t) > Len(s)
  <2>1. first = -1 /\ last = -1
    BY <1>3 DEF string_index, string_last_index
  <2>2. occ = {} /\ 0 \notin occ /\ L \notin occ
    BY <1>1, <1>2, <1>3
  <2>3. ~string_has_substring(s, t) /\ ~string_has_prefix(s, t) /\ ~string_has_suffix(s, t)
    BY <1>1, <1>3 DEF string_has_substring, string_has_prefix, string_has_suffix
  <2> QED
    BY <2>1, <2>2, <2>3
<1>4. CASE Len(t) =< Len(s)
  <2>1. L \in Nat /\ L =< Len(s)
    BY <1>1, <1>4
  <2>2. FirstFrom(0, first, L, O) /\ LastUpTo(L, last, O)
    BY <1>4, IndexIs, LastIndexIs
  <2>3. ASSUME NEW i \in Int PROVE i \in O <=> matches(s, i, t)
    BY DEF Found
  <2> HIDE DEF L, O
  <2>4. occ = {} => first = -1 /\ last = -1
    BY <1>2, <2>1, <2>2 DEF FirstFrom, LastUpTo
  <2>5. occ # {} => first \in 0 .. L /\ first \in O /\ \A j \in 0 .. first - 1 : j \notin O
    BY <1>2, <2>1, <2>2 DEF FirstFrom
  <2>6. occ # {} => last \in 0 .. L /\ last \in O /\ \A j \in last + 1 .. L : j \notin O
    BY <1>2, <2>1, <2>2 DEF LastUpTo
  <2>7. occ # {} => first \in occ /\ last \in occ /\ \A i \in occ : first =< i /\ i =< last
    BY <1>2, <2>1, <2>5, <2>6
  <2>8. string_has_prefix(s, t) <=> 0 \in occ
    BY <1>2, <1>4, <2>1, <2>3 DEF string_has_prefix
  <2>9. string_has_suffix(s, t) <=> L \in occ
    BY <1>2, <1>4, <2>1, <2>3 DEF string_has_suffix, L
  <2>10. string_has_substring(s, t) <=> occ # {}
    <3>1. ASSUME NEW i \in occ PROVE string_has_substring(s, t)
      <4>1. i \in 0 .. Len(s) /\ matches(s, i, t)
        BY <1>1, <1>2, <2>1, <2>3, <3>1
      <4> QED
        BY <1>4, <4>1 DEF string_has_substring
    <3>2. ASSUME string_has_substring(s, t) PROVE occ # {}
      <4>1. PICK i \in 0 .. Len(s) : matches(s, i, t)
        BY <3>2 DEF string_has_substring
      <4>2. CASE Len(t) = 0
        <5>1. matches(s, 0, t)
          BY <4>2 DEF matches
        <5> QED
          BY <1>2, <2>1, <2>3, <5>1
      <4>3. CASE Len(t) # 0
        <5>1. Len(t) \in 1 .. Len(t) /\ i + Len(t) =< Len(s)
          BY <1>1, <4>1, <4>3 DEF matches
        <5>2. i \in 0 .. L
          BY <1>1, <4>1, <5>1 DEF L
        <5> QED
          BY <1>2, <2>3, <4>1, <5>2
      <4> QED
        BY <4>2, <4>3
    <3> QED
      BY <3>1, <3>2
  <2>11. ASSUME first >= 0, t # << >> PROVE string_substring(s, first, first + Len(t)) = t
    <3>1. first \in 0 .. L /\ first \in O
      BY <2>2, <2>11 DEF FirstFrom
    <3>2. Len(t) > 0
      BY <2>11
    <3>3. matches(s, first, t)
      BY <2>1, <2>3, <3>1
    <3>4. ~(first < 0 \/ first + Len(t) > Len(s) \/ first >= first + Len(t))
      BY <1>1, <3>1, <3>2 DEF L
    <3>5. (first + Len(t)) - first = Len(t)
      BY <1>1, <3>1, <2>1
    <3>6. string_substring(s, first, first + Len(t)) = [j \in 1 .. Len(t) |-> s[first + j]]
      BY <3>4, <3>5 DEF string_substring
    <3>7. \A j \in 1 .. Len(t) : s[first + j] = t[j]
      BY <3>3 DEF matches
    <3>8. t = [j \in 1 .. Len(t) |-> t[j]]
      OBVIOUS
    <3> QED
      BY <3>6, <3>7, <3>8
  <2> QED
    BY <2>4, <2>7, <2>8, <2>9, <2>10, <2>11 DEF L
<1> QED
  BY <1>1, <1>3, <1>4

(* The searches agree with each other and with what an occurrence is, for  *)
(* whatever the string has grown to and whatever is looked for.            *)
THEOREM SearchesTheorem == Spec => []SearchesAgree
<1>1. ASSUME TypeOK PROVE SearchesAgree
  <2> SUFFICES ASSUME NEW t \in Texts
               PROVE  LET occ == Occurrences(str, t)
                          first == string_index(str, t)
                          last == string_last_index(str, t)
                      IN /\ IF occ = {} THEN first = -1 /\ last = -1
                            ELSE /\ first \in occ /\ last \in occ
                                 /\ \A i \in occ : first =< i /\ i =< last
                         /\ string_has_substring(str, t) <=> occ # {}
                         /\ string_has_prefix(str, t) <=> 0 \in occ
                         /\ string_has_suffix(str, t) <=> Len(str) - Len(t) \in occ
                         /\ first >= 0 /\ t # << >> => string_substring(str, first, first + Len(t)) = t
    BY Zenon DEF SearchesAgree
  <2>1. str \in Seq(Chars) /\ t \in Seq(Chars)
    BY <1>1 DEF TypeOK
  <2> QED
    BY <2>1, SearchesOne
<1> QED
  BY <1>1, TypeCorrect, PTL
=============================================================================
