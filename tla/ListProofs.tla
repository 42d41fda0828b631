----------------------------- MODULE ListProofs -----------------------------
(***************************************************************************)
(* What the lists of the platform rest on, for every list and every        *)
(* number: filtering keeps order and loses nothing, sorting permutes,      *)
(* every item is on one page, and the pager tells which pages there are.   *)
(***************************************************************************)
EXTENDS Lists, Paging, FiniteSetTheorems, SequenceTheorems, TLAPS

\* A list has as many pages as its items fill, and its last page is not empty.
THEOREM PagesSuffice ==
  ASSUME NEW items \in Nat, NEW pageSize \in Nat \ {0}
  PROVE  /\ PageCount(items, pageSize) \in Nat \ {0}
         /\ items <= PageCount(items, pageSize) * pageSize
         /\ items # 0 => (PageCount(items, pageSize) - 1) * pageSize < items
<1> DEFINE q == (items + pageSize - 1) \div pageSize
<1>1. q \in Int /\ q * pageSize <= items + pageSize - 1 /\ items + pageSize - 1 < (q + 1) * pageSize
  OBVIOUS
<1> QED  BY <1>1 DEF PageCount, Greatest

(***************************************************************************)
(* Filtering and sorting put the elements of a list in places.             *)
(***************************************************************************)

\* place names every element of S once, from the first to the n-th.
Numbers(place, n, S) ==
  /\ place \in [1..n -> S]
  /\ \A k, l \in 1..n : place[k] = place[l] => k = l
  /\ \A i \in S : \E k \in 1..n : place[k] = i

\* The sets below[i] form a chain, in which every element adds itself.
Chain(below, S) ==
  /\ below \in [S -> SUBSET S]
  /\ \A i \in S : i \notin below[i]
  /\ \A i, j \in S : i # j =>
       \/ i \in below[j] /\ below[i] \subseteq below[j]
       \/ j \in below[i] /\ below[j] \subseteq below[i]

\* The number of elements below an element is its rank: the first is 1, no two
\* are the same, none is missing, and they follow the chain.
Ranked(below, S) ==
  /\ \A i \in S : Cardinality(below[i]) \in Nat /\ Cardinality(below[i]) + 1 \in 1..Cardinality(S)
  /\ \A i, j \in S : i \in below[j] => Cardinality(below[i]) < Cardinality(below[j])
  /\ \A i, j \in S : Cardinality(below[i]) = Cardinality(below[j]) => i = j
  /\ \A k \in 1..Cardinality(S) : \E i \in S : Cardinality(below[i]) + 1 = k

\* Counting what is below the elements of a finite set numbers them.
LEMMA Ranks ==
  ASSUME NEW S, IsFiniteSet(S), NEW below, Chain(below, S)
  PROVE  Ranked(below, S)
<1> DEFINE n == Cardinality(S)
           rank == [i \in S |-> Cardinality(below[i]) + 1]
<1>1. n \in Nat
  BY FS_CardinalityType
<1>2. ASSUME NEW i \in S
      PROVE  IsFiniteSet(below[i]) /\ Cardinality(below[i]) \in Nat /\ Cardinality(below[i]) + 1 \in 1..n
  <2>1. below[i] \in SUBSET S /\ below[i] # S
    BY DEF Chain
  <2>2. /\ IsFiniteSet(below[i]) /\ Cardinality(below[i]) <= n
        /\ n = Cardinality(below[i]) => S = below[i]
    BY <2>1, FS_Subset
  <2>3. Cardinality(below[i]) \in Nat
    BY <2>2, FS_CardinalityType
  <2> QED  BY <1>1, <2>1, <2>2, <2>3
<1>3. ASSUME NEW i \in S, NEW j \in S, i \in below[j], below[i] \subseteq below[j]
      PROVE  Cardinality(below[i]) < Cardinality(below[j])
  <2>1. below[i] \in SUBSET below[j] /\ below[i] # below[j]
    BY <1>3 DEF Chain
  <2>2. /\ Cardinality(below[i]) <= Cardinality(below[j])
        /\ Cardinality(below[j]) = Cardinality(below[i]) => below[j] = below[i]
    BY <1>2, <2>1, FS_Subset
  <2> QED  BY <1>2, <2>1, <2>2
<1>4. ASSUME NEW i \in S, NEW j \in S, i \in below[j]
      PROVE  Cardinality(below[i]) < Cardinality(below[j])
  <2>1. ~(j \in below[i] /\ below[j] \subseteq below[i]) /\ i # j
    BY <1>4 DEF Chain
  <2>2. below[i] \subseteq below[j]
    BY <2>1 DEF Chain
  <2> QED  BY <1>3, <1>4, <2>2
<1>5. ASSUME NEW i \in S, NEW j \in S, Cardinality(below[i]) = Cardinality(below[j])
      PROVE  i = j
  <2> SUFFICES ASSUME i # j PROVE FALSE
    OBVIOUS
  <2>1. i \in below[j] \/ j \in below[i]
    BY DEF Chain
  <2> QED  BY <1>2, <1>4, <1>5, <2>1
<1>6. rank \in Surjection(S, 1..n)
  <2>1. rank \in [S -> 1..n]
    BY <1>2
  <2>2. rank \in Injection(S, 1..n)
    <3>1. ASSUME NEW i \in S, NEW j \in S, rank[i] = rank[j] PROVE i = j
      <4>1. Cardinality(below[i]) + 1 = Cardinality(below[j]) + 1
        BY <3>1
      <4> QED  BY <1>2, <1>5, <4>1
    <3> QED  BY <2>1, <3>1 DEF Injection, IsInjective
  <2>3. IsFiniteSet(1..n) /\ Cardinality(1..n) = n
    BY <1>1, FS_Interval
  <2> QED  BY <2>2, <2>3, FS_Injection
<1>7. \A k \in 1..n : \E i \in S : rank[i] = k
  BY <1>6 DEF Surjection
<1> QED  BY <1>2, <1>4, <1>5, <1>7 DEF Ranked

\* What the element of each rank is numbers the set along the chain.
LEMMA InPlace ==
  ASSUME NEW S, IsFiniteSet(S), NEW below, Chain(below, S), NEW place,
         place \in [1..Cardinality(S) -> S],
         \A k \in 1..Cardinality(S) : Cardinality(below[place[k]]) + 1 = k
  PROVE  /\ Numbers(place, Cardinality(S), S)
         /\ \A k, l \in 1..Cardinality(S) : k < l => place[k] \in below[place[l]]
<1> DEFINE m == Cardinality(S)
<1>1. Ranked(below, S)
  BY Ranks
<1>2. m \in Nat
  BY FS_CardinalityType
<1>3. \A i \in S : Cardinality(below[i]) \in Nat /\ Cardinality(below[i]) + 1 \in 1..m
  BY <1>1 DEF Ranked
<1>4. Numbers(place, m, S)
  <2>1. place \in [1..m -> S]
    OBVIOUS
  <2>2. ASSUME NEW k \in 1..m, NEW l \in 1..m, place[k] = place[l] PROVE k = l
    BY <2>2
  <2>3. ASSUME NEW i \in S PROVE \E k \in 1..m : place[k] = i
    <3>1. PICK k \in 1..m : k = Cardinality(below[i]) + 1
      BY <1>3
    <3>2. place[k] \in S /\ Cardinality(below[place[k]]) + 1 = Cardinality(below[i]) + 1
      BY <3>1
    <3>3. Cardinality(below[place[k]]) = Cardinality(below[i])
      BY <1>3, <3>2
    <3> QED  BY <1>1, <3>2, <3>3 DEF Ranked
  <2> QED  BY <2>1, <2>2, <2>3 DEF Numbers
<1>5. ASSUME NEW k \in 1..m, NEW l \in 1..m, k < l PROVE place[k] \in below[place[l]]
  <2>1. place[k] \in S /\ place[l] \in S /\ place[k] # place[l]
    BY <1>4, <1>5 DEF Numbers
  <2>2. ~(place[l] \in below[place[k]])
    <3> SUFFICES ASSUME place[l] \in below[place[k]] PROVE FALSE
      OBVIOUS
    <3>1. Cardinality(below[place[l]]) < Cardinality(below[place[k]])
      BY <1>1, <2>1 DEF Ranked
    <3>2. Cardinality(below[place[l]]) \in Nat /\ Cardinality(below[place[k]]) \in Nat
      BY <1>3, <2>1
    <3>3. Cardinality(below[place[l]]) + 1 = l /\ Cardinality(below[place[k]]) + 1 = k
      OBVIOUS
    <3> QED  BY <1>5, <3>1, <3>2, <3>3
  <2> QED  BY <2>1, <2>2 DEF Chain
<1> QED  BY <1>4, <1>5

\* What Array.filter makes of a list of n elements: those at the positions in
\* keep, in their order.
IsSelection(list, s, n, keep) ==
  /\ IsFiniteSet(keep) /\ Cardinality(keep) \in 0..n
  /\ \E place :
       /\ Numbers(place, Cardinality(keep), keep)
       /\ list = [k \in 1..Cardinality(keep) |-> s[place[k]]]
       /\ \A k, l \in 1..Cardinality(keep) : k < l => place[k] < place[l]

LEMMA SelectedAre ==
  ASSUME NEW s, NEW n \in Nat, NEW keep \in SUBSET (1..n)
  PROVE  IsSelection(Selected(s, keep), s, n, keep)
<1> DEFINE m == Cardinality(keep)
<1>1. IsFiniteSet(keep) /\ m \in Nat /\ m <= n
  <2>1. IsFiniteSet(1..n) /\ Cardinality(1..n) = n
    BY FS_Interval
  <2> QED  BY <2>1, FS_Subset, FS_CardinalityType
<1>2. PICK below : below = [i \in keep |-> {j \in keep : j < i}]
  OBVIOUS
<1>3. Chain(below, keep)
  <2>1. below \in [keep -> SUBSET keep]
    BY <1>2
  <2>2. \A i \in keep : i \notin below[i]
    BY <1>2
  <2>3. \A i, j \in keep : i < j => i \in below[j] /\ below[i] \subseteq below[j]
    <3> SUFFICES ASSUME NEW i \in keep, NEW j \in keep, i < j
                 PROVE  i \in below[j] /\ below[i] \subseteq below[j]
      OBVIOUS
    <3>1. ASSUME NEW k \in keep, k < i PROVE k < j
      <4>1. k \in Int /\ i \in Int /\ j \in Int
        OBVIOUS
      <4> QED  BY <3>1, <4>1
    <3>2. below[i] = {k \in keep : k < i} /\ below[j] = {k \in keep : k < j}
      BY <1>2
    <3> QED  BY <3>1, <3>2
  <2>4. \A i, j \in keep : i # j => i < j \/ j < i
    OBVIOUS
  <2> QED  BY <2>1, <2>2, <2>3, <2>4 DEF Chain
<1> DEFINE Nth(k) == CHOOSE i \in keep : Cardinality({j \in keep : j < i}) + 1 = k
<1>4. ASSUME NEW k \in 1..m
      PROVE  Nth(k) \in keep /\ Cardinality(below[Nth(k)]) + 1 = k
  <2>1. Ranked(below, keep)
    BY <1>1, <1>3, Ranks
  <2>2. PICK i \in keep : Cardinality(below[i]) + 1 = k
    BY <2>1 DEF Ranked
  <2>3. Cardinality({j \in keep : j < i}) + 1 = k
    BY <1>2, <2>2
  <2>4. Nth(k) \in keep /\ Cardinality({j \in keep : j < Nth(k)}) + 1 = k
    BY <2>3
  <2> QED  BY <1>2, <2>4
<1> HIDE DEF Nth
<1>5. PICK place : place = [k \in 1..m |-> Nth(k)]
  OBVIOUS
<1>6. /\ Numbers(place, m, keep)
      /\ \A k, l \in 1..m : k < l => place[k] \in below[place[l]]
  <2>1. place \in [1..m -> keep] /\ \A k \in 1..m : Cardinality(below[place[k]]) + 1 = k
    BY <1>4, <1>5
  <2> QED  BY <1>1, <1>3, <2>1, InPlace
<1>7. \A k, l \in 1..m : k < l => place[k] < place[l]
  BY <1>2, <1>6 DEF Numbers
<1>8. Selected(s, keep) = [k \in 1..m |-> s[place[k]]]
  BY <1>5 DEF Selected, Nth
<1> QED  BY <1>1, <1>6, <1>7, <1>8 DEF IsSelection

LEMMA SelectedLength ==
  ASSUME NEW s, NEW n \in Nat, NEW keep \in SUBSET (1..n)
  PROVE  Len(Selected(s, keep)) = Cardinality(keep)
<1>1. PICK list : list = Selected(s, keep)
  OBVIOUS
<1>2. IsSelection(list, s, n, keep)
  BY <1>1, SelectedAre
<1>3. Cardinality(keep) \in Nat
  BY <1>2 DEF IsSelection
<1> QED  BY <1>1, <1>2, <1>3 DEF IsSelection

\* What is filtered out is what is not kept: nothing is left if nothing is kept,
\* what is left first is kept, and all that is kept is left.
IsFiltered(list, s, keep) ==
  /\ list = <<>> <=> keep = {}
  /\ keep # {} => \E k \in keep : list[1] = s[k]
  /\ Elements(list) = {s[k] : k \in keep}

LEMMA FilteredAre ==
  ASSUME NEW s, NEW n \in Nat, NEW keep \in SUBSET (1..n)
  PROVE  IsFiltered(Selected(s, keep), s, keep)
<1>1. PICK list : list = Selected(s, keep)
  OBVIOUS
<1>2. IsSelection(list, s, n, keep)
  BY <1>1, SelectedAre
<1>3. PICK m : m = Cardinality(keep) /\ m \in Nat /\ IsFiniteSet(keep)
  BY <1>2 DEF IsSelection
<1>4. PICK place : Numbers(place, m, keep) /\ list = [k \in 1..m |-> s[place[k]]]
  BY <1>2, <1>3 DEF IsSelection
<1>5. m = 0 <=> keep = {}
  BY <1>3, FS_EmptySet
<1>6. list = <<>> <=> m = 0
  <2>1. ASSUME m # 0 PROVE list # <<>>
    <3>1. 1 \in DOMAIN list
      BY <1>3, <1>4, <2>1
    <3> QED  BY <3>1
  <2>2. ASSUME m = 0 PROVE list = <<>>
    <3>1. 1..m = {}
      BY <2>2
    <3> QED  BY <1>4, <3>1
  <2> QED  BY <2>1, <2>2
<1>7. keep # {} => \E k \in keep : list[1] = s[k]
  <2> SUFFICES ASSUME keep # {} PROVE list[1] = s[place[1]] /\ place[1] \in keep
    OBVIOUS
  <2>1. m \in Nat /\ m # 0
    BY <1>3, <1>5
  <2>2. 1 \in 1..m
    BY <2>1
  <2> QED  BY <1>4, <2>2 DEF Numbers
<1>8. Elements(list) = {s[k] : k \in keep}
  <2>1. Elements(list) = {list[k] : k \in 1..m}
    BY <1>4 DEF Elements
  <2>2. \A k \in 1..m : place[k] \in keep /\ list[k] = s[place[k]]
    BY <1>4 DEF Numbers
  <2>3. \A i \in keep : \E k \in 1..m : place[k] = i
    BY <1>4 DEF Numbers
  <2>4. \A k \in 1..m : list[k] \in {s[i] : i \in keep}
    BY <2>2
  <2>5. \A i \in keep : s[i] \in {list[k] : k \in 1..m}
    BY <2>2, <2>3
  <2> QED  BY <2>1, <2>4, <2>5
<1> QED  BY <1>1, <1>5, <1>6, <1>7, <1>8 DEF IsFiltered

\* What Array.sort makes of a list of n elements: each of them in one place, by
\* the keys in the direction asked for, and equals in their order.
IsSorting(list, s, n, keys, direction) ==
  \E place :
    /\ Numbers(place, n, 1..n)
    /\ list = [k \in 1..n |-> s[place[k]]]
    /\ \A k, l \in 1..n : k < l =>
         \/ keys[place[k]] = keys[place[l]] /\ place[k] < place[l]
         \/ keys[place[k]] < keys[place[l]] /\ direction = "asc"
         \/ keys[place[l]] < keys[place[k]] /\ direction = "desc"

LEMMA SortedIs ==
  ASSUME NEW n \in Nat, NEW s, DOMAIN s = 1..n, NEW keys \in [1..n -> Int],
         NEW direction \in {"asc", "desc"}
  PROVE  IsSorting(SortedBy(s, keys, direction), s, n, keys, direction)
<1> DEFINE D == 1..n
           First(i, j) == \/ keys[i] = keys[j] /\ i < j
                          \/ keys[i] < keys[j] /\ direction = "asc"
                          \/ keys[j] < keys[i] /\ direction = "desc"
<1>1. IsFiniteSet(D) /\ Cardinality(D) = n
  BY FS_Interval
<1>2. PICK below : below = [i \in D |-> {j \in D : First(j, i)}]
  OBVIOUS
<1>3. Chain(below, D)
  <2>1. below \in [D -> SUBSET D]
    BY <1>2
  <2>2. \A i \in D : ~First(i, i)
    OBVIOUS
  <2>3. \A i, j \in D : i # j => First(i, j) \/ First(j, i)
    OBVIOUS
  <2>4. ASSUME NEW i \in D, NEW j \in D, First(i, j) PROVE i \in below[j] /\ below[i] \subseteq below[j]
    <3>1. \A k \in D : First(k, i) => First(k, j)
      BY <2>4
    <3> HIDE DEF First
    <3> QED  BY <1>2, <2>4, <3>1
  <2>5. \A i \in D : i \notin below[i]
    BY <1>2, <2>2
  <2> HIDE DEF First, D
  <2> QED  BY <2>1, <2>3, <2>4, <2>5 DEF Chain
<1> DEFINE Nth(k) == CHOOSE i \in D : Cardinality({j \in D : First(j, i)}) + 1 = k
<1>4. ASSUME NEW k \in D
      PROVE  Nth(k) \in D /\ Cardinality(below[Nth(k)]) + 1 = k
  <2> HIDE DEF First
  <2>1. Ranked(below, D)
    BY <1>1, <1>3, Ranks
  <2>2. PICK i \in D : Cardinality(below[i]) + 1 = k
    BY <1>1, <2>1 DEF Ranked
  <2>3. Cardinality({j \in D : First(j, i)}) + 1 = k
    BY <1>2, <2>2
  <2>4. Nth(k) \in D /\ Cardinality({j \in D : First(j, Nth(k))}) + 1 = k
    BY <2>3
  <2> QED  BY <1>2, <2>4
<1> HIDE DEF Nth
<1>5. PICK place : place = [k \in D |-> Nth(k)]
  OBVIOUS
<1>6. /\ Numbers(place, n, D)
      /\ \A k, l \in D : k < l => place[k] \in below[place[l]]
  <2>1. place \in [D -> D] /\ \A k \in D : Cardinality(below[place[k]]) + 1 = k
    BY <1>4, <1>5
  <2>2. D = 1..Cardinality(D)
    BY <1>1
  <2> HIDE DEF D
  <2>3. /\ Numbers(place, Cardinality(D), D)
        /\ \A k, l \in 1..Cardinality(D) : k < l => place[k] \in below[place[l]]
    BY <1>1, <1>3, <2>1, <2>2, InPlace
  <2> QED  BY <1>1, <2>3 DEF D
<1>7. ASSUME NEW k \in D, NEW l \in D, k < l PROVE First(place[k], place[l])
  <2> HIDE DEF First
  <2> QED  BY <1>2, <1>6, <1>7 DEF Numbers
<1>8. SortedBy(s, keys, direction) = [k \in D |-> s[place[k]]]
  BY <1>5 DEF SortedBy, Nth
<1> QED  BY <1>6, <1>7, <1>8 DEF IsSorting

\* A sorted list has the elements of the list, and as many.
LEMMA SortedElements ==
  ASSUME NEW n \in Nat, NEW s, DOMAIN s = 1..n, NEW keys, NEW direction, NEW list,
         IsSorting(list, s, n, keys, direction)
  PROVE  /\ list \in Seq(Elements(s)) /\ Len(list) = n
         /\ Elements(list) = Elements(s)
         /\ (\A i, j \in 1..n : s[i] = s[j] => i = j) => \A i, j \in 1..n : list[i] = list[j] => i = j
<1>1. PICK place : Numbers(place, n, 1..n) /\ list = [k \in 1..n |-> s[place[k]]]
  BY DEF IsSorting
<1>2. /\ \A k \in 1..n : place[k] \in 1..n
      /\ \A k, l \in 1..n : place[k] = place[l] => k = l
      /\ \A i \in 1..n : \E k \in 1..n : place[k] = i
  BY <1>1 DEF Numbers
<1>3. \A k \in 1..n : s[place[k]] \in Elements(s)
  BY <1>2 DEF Elements
<1>4. list \in Seq(Elements(s)) /\ Len(list) = n /\ DOMAIN list = 1..n
  BY <1>1, <1>3
<1>5. Elements(list) = Elements(s)
  <2>1. \A k \in 1..n : list[k] = s[place[k]]
    BY <1>1
  <2>2. ASSUME NEW i \in 1..n PROVE \E k \in 1..n : list[k] = s[i]
    <3>1. PICK k \in 1..n : place[k] = i
      BY <1>2
    <3>2. list[k] = s[i]
      BY <2>1, <3>1
    <3> QED  BY <3>2
  <2>3. ASSUME NEW x PROVE x \in Elements(list) <=> x \in Elements(s)
    <3>1. x \in Elements(list) <=> \E k \in 1..n : list[k] = x
      BY <1>4 DEF Elements
    <3>2. x \in Elements(s) <=> \E k \in 1..n : s[k] = x
      BY DEF Elements
    <3>3. ASSUME NEW k \in 1..n, list[k] = x PROVE \E i \in 1..n : s[i] = x
      <4>1. place[k] \in 1..n /\ s[place[k]] = x
        BY <1>2, <2>1, <3>3
      <4> QED  BY <4>1
    <3>4. ASSUME NEW i \in 1..n, s[i] = x PROVE \E k \in 1..n : list[k] = x
      BY <2>2, <3>4
    <3> QED  BY <3>1, <3>2, <3>3, <3>4
  <2> QED  BY <2>3
<1> QED  BY <1>1, <1>2, <1>4, <1>5

\* Sorted or not, it is a list of as many.
LEMMA SortedLength ==
  ASSUME NEW n \in Nat, NEW s, DOMAIN s = 1..n, NEW keys, NEW direction
  PROVE  /\ SortedBy(s, keys, direction) \in Seq(Elements(SortedBy(s, keys, direction)))
         /\ Len(SortedBy(s, keys, direction)) = n
<1> DEFINE First(i, j) == \/ keys[i] = keys[j] /\ i < j
                          \/ keys[i] < keys[j] /\ direction = "asc"
                          \/ keys[j] < keys[i] /\ direction = "desc"
           Nth(k) == s[CHOOSE i \in DOMAIN s : Cardinality({j \in DOMAIN s : First(j, i)}) + 1 = k]
<1>1. SortedBy(s, keys, direction) = [k \in 1..n |-> Nth(k)]
  BY DEF SortedBy
<1> HIDE DEF Nth
<1>2. PICK list : list = [k \in 1..n |-> Nth(k)]
  OBVIOUS
<1>3. DOMAIN list = 1..n /\ \A k \in 1..n : list[k] \in Elements(list)
  BY <1>2 DEF Elements
<1>4. list \in Seq(Elements(list)) /\ Len(list) = n
  BY <1>2, <1>3
<1> QED  BY <1>1, <1>2, <1>4

(***************************************************************************)
(* Pages.                                                                  *)
(***************************************************************************)

\* A page that exists holds the items from its first to its last position,
\* and of a list that is not empty it holds some.
LEMMA PageIs ==
  ASSUME NEW T, NEW v \in Seq(T), NEW size \in Nat \ {0},
         NEW p \in 0..(PageCount(Len(v), size) - 1)
  PROVE  /\ PageOf(v, p, size) = SubSeq(v, p * size + 1, Least((p + 1) * size, Len(v)))
         /\ Elements(PageOf(v, p, size)) = {v[i] : i \in {i \in 1..Len(v) : p * size < i /\ i <= (p + 1) * size}}
         /\ v # <<>> => PageOf(v, p, size) # <<>>
<1> DEFINE n == Len(v)
           m == PageCount(n, size)
           a == p * size
           b == Least((p + 1) * size, n)
           page == SubSeq(v, a + 1, b)
<1>1. n \in Nat /\ m \in Nat \ {0} /\ p \in Nat /\ p <= m - 1
  BY PagesSuffice
<1>2. a \in Nat /\ (p + 1) * size = a + size /\ a + size \in Nat
  <2>1. \A x, y \in Nat : x * y \in Nat /\ (x + 1) * y = x * y + y
    OBVIOUS
  <2> QED  BY <1>1, <2>1
<1>3. /\ b \in Nat /\ b <= n /\ b <= a + size
      /\ \A i \in Int : i <= n /\ i <= a + size => i <= b
  BY <1>1, <1>2 DEF Least
<1>4. n # 0 => a < n
  <2> SUFFICES ASSUME n # 0 PROVE a < n
    OBVIOUS
  <2>1. (m - 1) * size < n
    BY <1>1, PagesSuffice
  <2>2. \A x, y, z \in Nat : x <= y => x * z <= y * z /\ x * z \in Int /\ y * z \in Int
    OBVIOUS
  <2>3. a <= (m - 1) * size /\ (m - 1) * size \in Int
    BY <1>1, <2>2
  <2> HIDE DEF m, n, a
  <2> QED  BY <1>1, <1>2, <2>1, <2>3
<1>5. n # 0 => a < b
  BY <1>1, <1>2, <1>3, <1>4 DEF Least
<1>6. \A i \in (a + 1)..b : i \in 1..n /\ v[i] \in T
  BY <1>1, <1>2, <1>3
<1> HIDE DEF a, b, m
<1>7. /\ page \in Seq(T) /\ Len(page) = (IF a + 1 <= b THEN b - a ELSE 0)
      /\ \A i \in 1..(b - a) : page[i] = v[a + i]
  <2>1. a + 1 \in Int /\ b \in Int
    BY <1>2, <1>3
  <2>2. /\ page \in Seq(T) /\ Len(page) = (IF a + 1 <= b THEN b - (a + 1) + 1 ELSE 0)
        /\ \A i \in 1..(b - (a + 1) + 1) : page[i] = v[a + 1 + i - 1]
    BY <1>6, <2>1, SubSeqProperties
  <2>3. b - (a + 1) + 1 = b - a
    BY <1>2, <1>3
  <2>4. ASSUME NEW i \in 1..(b - a) PROVE page[i] = v[a + i]
    <3>1. a + 1 + i - 1 = a + i
      BY <1>2, <1>3
    <3>2. page[i] = v[a + 1 + i - 1]
      BY <2>2, <2>3
    <3> QED  BY <3>1, <3>2
  <2> HIDE DEF page
  <2> QED  BY <2>2, <2>3, <2>4
<1>8. page # <<>> \/ n = 0
  BY <1>2, <1>3, <1>5, <1>7
<1>9. Elements(page) = {v[i] : i \in {i \in 1..n : a < i /\ i <= a + size}}
  <2>1. ASSUME NEW i \in DOMAIN page
        PROVE  \E j \in 1..n : a < j /\ j <= a + size /\ page[i] = v[j]
    <3>1. i \in 1..(b - a)
      BY <1>2, <1>3, <1>7
    <3>2. a + i \in 1..n /\ a < a + i /\ a + i <= a + size
      BY <1>1, <1>2, <1>3, <3>1
    <3> QED  BY <1>7, <3>1, <3>2
  <2>2. ASSUME NEW j \in 1..n, a < j, j <= a + size
        PROVE  \E i \in DOMAIN page : page[i] = v[j]
    <3>1. j - a \in 1..(b - a) /\ a + (j - a) = j
      BY <1>1, <1>2, <1>3, <2>2
    <3>2. DOMAIN page = 1..(b - a)
      BY <1>2, <1>3, <1>7, <3>1
    <3> QED  BY <1>7, <3>1, <3>2
  <2> HIDE DEF page, n
  <2> QED  BY <2>1, <2>2 DEF Elements
<1>10. PageOf(v, p, size) = page
  BY DEF PageOf, page, a, b
<1>11. v # <<>> => n # 0
  OBVIOUS
<1> QED  BY <1>2, <1>8, <1>9, <1>10, <1>11 DEF a, b

PagesOf(v, size) == [p \in 0..(PageCount(Len(v), size) - 1) |-> PageOf(v, p, size)]

EachOnOnePage(v, pages) ==
  \A x \in Elements(v) : Cardinality({p \in DOMAIN pages : x \in Elements(pages[p])}) = 1

\* Every item of a list without doubles is on one of its pages, and on no
\* other.
LEMMA OnOnePageOnly ==
  ASSUME NEW T, NEW v \in Seq(T), NEW size \in Nat \ {0},
         \A i, j \in 1..Len(v) : v[i] = v[j] => i = j
  PROVE  EachOnOnePage(v, PagesOf(v, size))
<1>0. SUFFICES ASSUME NEW x, x \in Elements(v)
               PROVE  Cardinality({p \in DOMAIN PagesOf(v, size) : x \in Elements(PagesOf(v, size)[p])}) = 1
  BY DEF EachOnOnePage
<1> DEFINE n == Len(v)
           m == PageCount(n, size)
           pages == PagesOf(v, size)
<1> HIDE DEF pages
<1>1. PICK i \in 1..n : v[i] = x
  BY <1>0 DEF Elements
<1>2. n \in Nat /\ m \in Nat \ {0} /\ n <= m * size
  <2>1. n \in Nat
    OBVIOUS
  <2> HIDE DEF n
  <2> QED  BY <2>1, PagesSuffice
<1>3. PICK q \in Int : q * size < i /\ i <= q * size + size
  <2>1. \A z \in Int : \E d \in Int : d * size <= z /\ z < d * size + size
    <3> TAKE z \in Int
    <3>1. (z \div size) \in Int /\ (z \div size) * size <= z /\ z < (z \div size) * size + size
      OBVIOUS
    <3> QED  BY <3>1
  <2>2. PICK d \in Int : d * size <= i - 1 /\ i - 1 < d * size + size
    <3>1. PICK z \in Int : z = i - 1
      OBVIOUS
    <3>2. PICK d \in Int : d * size <= z /\ z < d * size + size
      BY <2>1
    <3> QED  BY <3>1, <3>2
  <2>3. d * size \in Int
    OBVIOUS
  <2>4. d * size < i /\ i <= d * size + size
    BY <2>2, <2>3
  <2> QED  BY <2>4
<1>4. \A y, z \in Int : y * size \in Int /\ (y < z => y * size + size <= z * size)
  OBVIOUS
<1>5. q \in 0..(m - 1)
  <2>1. 0 * size = 0 /\ m * size \in Int /\ q * size \in Int
    BY <1>2, <1>4
  <2>2. ~(q < 0)
    BY <1>3, <1>4, <2>1
  <2>3. ~(m - 1 < q)
    <3>1. m - 1 < q => m < q \/ m = q
      BY <1>2
    <3> HIDE DEF m, n
    <3>2. m < q => m * size + size <= q * size
      BY <1>2, <1>4
    <3> QED  BY <1>1, <1>2, <1>3, <2>1, <3>1, <3>2
  <2> QED  BY <1>2, <2>2, <2>3
<1>6. ASSUME NEW p \in 0..(m - 1)
      PROVE  x \in Elements(PageOf(v, p, size)) <=> p = q
  <2>1. (p + 1) * size = p * size + size
    BY <1>2
  <2>2. Elements(PageOf(v, p, size)) = {v[j] : j \in {j \in 1..n : p * size < j /\ j <= p * size + size}}
    BY <2>1, PageIs
  <2>3. x \in Elements(PageOf(v, p, size)) <=> p * size < i /\ i <= p * size + size
    BY <1>1, <2>2
  <2>4. p < q => p * size + size <= q * size
    BY <1>4
  <2>5. q < p => q * size + size <= p * size
    BY <1>4
  <2>6. p * size \in Int /\ q * size \in Int /\ p \in Int
    BY <1>4
  <2>7. p = q \/ p < q \/ q < p
    BY <2>6
  <2> HIDE DEF m, n
  <2> QED  BY <1>1, <1>3, <2>3, <2>4, <2>5, <2>6, <2>7
<1>7. {p \in DOMAIN pages : x \in Elements(pages[p])} = {q}
  <2> HIDE DEF m, n, pages
  <2>1. pages = [p \in 0..(m - 1) |-> PageOf(v, p, size)]
    BY DEF m, n, pages, PagesOf
  <2> QED  BY <1>5, <1>6, <2>1
<1> QED  BY <1>7, FS_Singleton DEF pages

(***************************************************************************)
(* Concatenation of sequences of numbers.                                  *)
(***************************************************************************)
LEMMA Concat ==
  ASSUME NEW s \in Seq(Int), NEW t \in Seq(Int)
  PROVE  /\ s \o t \in Seq(Int)
         /\ Len(s \o t) = Len(s) + Len(t)
         /\ \A i \in 1..Len(s) : (s \o t)[i] = s[i]
         /\ \A i \in 1..Len(t) : (s \o t)[Len(s) + i] = t[i]
  OBVIOUS


LEMMA One ==
  ASSUME NEW x \in Int
  PROVE  <<x>> \in Seq(Int) /\ Len(<<x>>) = 1 /\ <<x>>[1] = x
  OBVIOUS

LEMMA SpanIsSeq ==
  ASSUME NEW first \in Int, NEW last \in Int, first <= last + 1
  PROVE  /\ Span(first, last) \in Seq(Int)
         /\ Len(Span(first, last)) = last - first + 1
         /\ DOMAIN Span(first, last) = 1..(last - first + 1)
         /\ \A i \in 1..(last - first + 1) : Span(first, last)[i] = first + i - 1
<1>1. last - first + 1 \in Nat
  OBVIOUS
<1> QED  BY <1>1 DEF Span

\* The pieces of a range and where they lie in it.
Joined(x, a, m, b, y) == <<x>> \o a \o m \o b \o <<y>>

LiesIn(x, a, m, b, y, r) ==
  /\ r \in Seq(Int)
  /\ Len(r) = Len(a) + Len(m) + Len(b) + 2
  /\ r[1] = x
  /\ \A i \in 1..Len(a) : r[1 + i] = a[i]
  /\ \A i \in 1..Len(m) : r[1 + Len(a) + i] = m[i]
  /\ \A i \in 1..Len(b) : r[1 + Len(a) + Len(m) + i] = b[i]
  /\ r[Len(a) + Len(m) + Len(b) + 2] = y

LEMMA Pieces ==
  ASSUME NEW x \in Int, NEW y \in Int,
         NEW a \in Seq(Int), NEW m \in Seq(Int), NEW b \in Seq(Int)
  PROVE  LiesIn(x, a, m, b, y, Joined(x, a, m, b, y))
<1> PICK r : r = Joined(x, a, m, b, y)
  OBVIOUS
<1> PICK k \in Nat, n \in Nat, l \in Nat : Len(a) = k /\ Len(m) = n /\ Len(b) = l
  OBVIOUS
<1>1. PICK r1 : r1 = <<x>> \o a
  OBVIOUS
<1>2. PICK r2 : r2 = r1 \o m
  OBVIOUS
<1>3. PICK r3 : r3 = r2 \o b
  OBVIOUS
<1>4. r = r3 \o <<y>>
  BY <1>1, <1>2, <1>3, Zenon DEF Joined
<1>5. PICK k1 \in Nat : k1 = 1 + k
  OBVIOUS
<1>6. PICK k2 \in Nat : k2 = k1 + n
  OBVIOUS
<1>7. PICK k3 \in Nat : k3 = k2 + l
  OBVIOUS
<1>8. /\ r1 \in Seq(Int) /\ Len(r1) = k1
      /\ r1[1] = x /\ \A i \in 1..k : r1[1 + i] = a[i]
  <2>1. <<x>> \in Seq(Int) /\ Len(<<x>>) = 1 /\ <<x>>[1] = x
    BY One
  <2>2. /\ <<x>> \o a \in Seq(Int) /\ Len(<<x>> \o a) = Len(<<x>>) + Len(a)
        /\ \A i \in 1..Len(<<x>>) : (<<x>> \o a)[i] = <<x>>[i]
        /\ \A i \in 1..Len(a) : (<<x>> \o a)[Len(<<x>>) + i] = a[i]
    BY <2>1, Concat
  <2> QED  BY <1>1, <1>5, <2>1, <2>2
<1>9. /\ r2 \in Seq(Int) /\ Len(r2) = k2
      /\ \A i \in 1..k1 : r2[i] = r1[i]
      /\ \A i \in 1..n : r2[k1 + i] = m[i]
  <2>1. /\ r1 \o m \in Seq(Int) /\ Len(r1 \o m) = Len(r1) + Len(m)
        /\ \A i \in 1..Len(r1) : (r1 \o m)[i] = r1[i]
        /\ \A i \in 1..Len(m) : (r1 \o m)[Len(r1) + i] = m[i]
    BY <1>8, Concat
  <2> QED  BY <1>2, <1>6, <1>8, <2>1, Zenon
<1>10. /\ r3 \in Seq(Int) /\ Len(r3) = k3
       /\ \A i \in 1..k2 : r3[i] = r2[i]
       /\ \A i \in 1..l : r3[k2 + i] = b[i]
  <2>1. /\ r2 \o b \in Seq(Int) /\ Len(r2 \o b) = Len(r2) + Len(b)
        /\ \A i \in 1..Len(r2) : (r2 \o b)[i] = r2[i]
        /\ \A i \in 1..Len(b) : (r2 \o b)[Len(r2) + i] = b[i]
    BY <1>9, Concat
  <2> QED  BY <1>3, <1>7, <1>9, <2>1, Zenon
<1>11. /\ r \in Seq(Int) /\ Len(r) = k3 + 1
       /\ \A i \in 1..k3 : r[i] = r3[i]
       /\ r[k3 + 1] = y
  <2>1. <<y>> \in Seq(Int) /\ Len(<<y>>) = 1 /\ <<y>>[1] = y
    BY One
  <2>2. /\ r3 \o <<y>> \in Seq(Int) /\ Len(r3 \o <<y>>) = Len(r3) + Len(<<y>>)
        /\ \A i \in 1..Len(r3) : (r3 \o <<y>>)[i] = r3[i]
        /\ \A i \in 1..Len(<<y>>) : (r3 \o <<y>>)[Len(r3) + i] = <<y>>[i]
    BY <1>10, <2>1, Concat
  <2>3. 1 \in 1..1
    OBVIOUS
  <2>4. (r3 \o <<y>>)[k3 + 1] = <<y>>[1]
    BY <1>10, <2>1, <2>2, <2>3, Zenon
  <2> QED  BY <1>4, <1>10, <2>1, <2>2, <2>4, Zenon
<1>12. k1 = 1 + k /\ k2 = 1 + k + n /\ k3 = 1 + k + n + l
  BY <1>5, <1>6, <1>7
<1>13. ASSUME NEW i \in 1..k1 PROVE r[i] = r1[i]
  <2>1. i \in 1..k1 /\ i \in 1..k2 /\ i \in 1..k3
    BY <1>12
  <2> QED  BY <1>9, <1>10, <1>11, <2>1, ZenonT(60)
<1>14. ASSUME NEW i \in 1..n PROVE r[1 + k + i] = m[i]
  <2>1. k1 + i \in 1..k2 /\ k1 + i \in 1..k3 /\ 1 + k + i = k1 + i
    BY <1>12
  <2> QED  BY <1>9, <1>10, <1>11, <2>1, ZenonT(60)
<1>15. ASSUME NEW i \in 1..l PROVE r[1 + k + n + i] = b[i]
  <2>1. k2 + i \in 1..k3 /\ 1 + k + n + i = k2 + i
    BY <1>12
  <2> QED  BY <1>10, <1>11, <2>1, ZenonT(60)
<1>16. r[1] = x
  <2>1. 1 \in 1..k1
    BY <1>12
  <2> QED  BY <1>8, <1>13, <2>1, ZenonT(60)
<1>17. ASSUME NEW i \in 1..k PROVE r[1 + i] = a[i]
  <2>1. 1 + i \in 1..k1
    BY <1>12
  <2> QED  BY <1>8, <1>13, <2>1, ZenonT(60)
<1>18. Len(r) = k + n + l + 2 /\ k3 + 1 = k + n + l + 2
  BY <1>11, <1>12
<1>19. /\ r \in Seq(Int) /\ Len(r) = k + n + l + 2 /\ r[1] = x
       /\ \A i \in 1..k : r[1 + i] = a[i]
       /\ \A i \in 1..n : r[1 + k + i] = m[i]
       /\ \A i \in 1..l : r[1 + k + n + i] = b[i]
       /\ r[k + n + l + 2] = y
  BY <1>11, <1>14, <1>15, <1>16, <1>17, <1>18, Zenon
<1>20. LiesIn(x, a, m, b, y, r)
  BY <1>19, Zenon DEF LiesIn
<1> QED  BY <1>20

(***************************************************************************)
(* The pager.                                                              *)
(***************************************************************************)
\* Up to seven pages are all offered.
LEMMA AllPages ==
  ASSUME NEW total \in 1..7, NEW current \in 0..(total - 1)
  PROVE  PagerTellsPages(current, total)
<1> DEFINE range == GetPageRange(current, total)
<1>1. range = Span(0, total - 1)
  BY DEF GetPageRange
<1> HIDE DEF range
<1>2. /\ Len(range) = total /\ DOMAIN range = 1..total
      /\ \A i \in 1..total : range[i] = i - 1
  <2>1. 0 \in Int /\ total - 1 \in Int /\ 0 <= (total - 1) + 1 /\ (total - 1) - 0 + 1 = total
    OBVIOUS
  <2>2. /\ Len(Span(0, total - 1)) = (total - 1) - 0 + 1
        /\ DOMAIN Span(0, total - 1) = 1..((total - 1) - 0 + 1)
        /\ \A i \in 1..((total - 1) - 0 + 1) : Span(0, total - 1)[i] = 0 + i - 1
    BY <2>1, SpanIsSeq
  <2> QED  BY <1>1, <2>1, <2>2
<1>3. PageLinks(current, total) = 0..(total - 1)
  <2>1. PageLinks(current, total) = {range[i] : i \in DOMAIN range} \ {Ellipsis}
    BY DEF PageLinks, range
  <2>2. ASSUME NEW x \in 0..(total - 1) PROVE x \in {range[i] : i \in DOMAIN range}
    <3>1. x + 1 \in DOMAIN range /\ range[x + 1] = x
      BY <1>2
    <3> QED  BY <3>1
  <2>3. ASSUME NEW x \in {range[i] : i \in DOMAIN range} PROVE x \in 0..(total - 1)
    BY <1>2
  <2>4. Ellipsis \notin 0..(total - 1)
    BY DEF Ellipsis
  <2> QED  BY <2>1, <2>2, <2>3, <2>4, Zenon
<1> QED  BY <1>2, <1>3 DEF PagerTellsPages, Ellipsis, range

\* Of more than seven pages, the first, the last and the neighbours are offered.
LEMMA SomePages ==
  ASSUME NEW total \in Nat, total > 7, NEW current \in 0..(total - 1)
  PROVE  PagerTellsPages(current, total)
<1> DEFINE first == Greatest(1, current - 1)
           last == Least(total - 2, current + 1)
           a == IF current > 2 THEN <<Ellipsis>> ELSE <<>>
           b == IF current < total - 3 THEN <<Ellipsis>> ELSE <<>>
           n == last - first + 1
           range == GetPageRange(current, total)
<1>1. range = <<0>> \o a \o Span(first, last) \o b \o <<total - 1>>
  BY DEF GetPageRange
<1>2. /\ first \in Int /\ last \in Int /\ first <= last
      /\ 1 <= first /\ last <= total - 2
      /\ current = 0 => first = 1
      /\ current > 0 => first <= current
      /\ current < total - 1 => current <= last
      /\ current <= 2 => first = 1
      /\ current > 2 => first > 1
      /\ current >= total - 3 => last = total - 2
      /\ current < total - 3 => last < total - 2
  BY DEF Greatest, Least
<1>3. /\ a \in Seq(Int) /\ b \in Seq(Int)
      /\ current > 2 => Len(a) = 1 /\ a[1] = Ellipsis
      /\ ~(current > 2) => Len(a) = 0
      /\ current < total - 3 => Len(b) = 1 /\ b[1] = Ellipsis
      /\ ~(current < total - 3) => Len(b) = 0
  BY DEF Ellipsis
<1> HIDE DEF first, last, a, b, range
<1>4. /\ range \in Seq(Int)
      /\ Len(range) = Len(a) + n + Len(b) + 2
      /\ range[1] = 0
      /\ \A i \in 1..Len(a) : range[1 + i] = a[i]
      /\ \A i \in 1..n : range[1 + Len(a) + i] = first + i - 1
      /\ \A i \in 1..Len(b) : range[1 + Len(a) + n + i] = b[i]
      /\ range[Len(a) + n + Len(b) + 2] = total - 1
  <2>1. first <= last + 1 /\ total - 1 \in Int /\ 0 \in Int
    BY <1>2
  <2>2. /\ Span(first, last) \in Seq(Int) /\ Len(Span(first, last)) = n
        /\ \A i \in 1..n : Span(first, last)[i] = first + i - 1
    BY <1>2, <2>1, SpanIsSeq
  <2>3. n \in Nat /\ Len(a) \in Nat /\ Len(b) \in Nat
    BY <1>2, <1>3
  <2> HIDE DEF n
  <2>4. PICK m \in Seq(Int) : /\ m = Span(first, last) /\ Len(m) = n
                              /\ \A i \in 1..n : m[i] = first + i - 1
    BY <2>2
  <2>5. range = Joined(0, a, m, b, total - 1)
    BY <1>1, <2>4, Zenon DEF Joined
  <2>6. a \in Seq(Int) /\ b \in Seq(Int)
    BY <1>3
  <2>7. LiesIn(0, a, m, b, total - 1, range)
    BY <2>1, <2>4, <2>5, <2>6, Pieces
  <2> QED  BY <2>3, <2>4, <2>7 DEF LiesIn
<1> DEFINE p == Len(a)
           q == Len(b)
<1>5. /\ p \in {0, 1} /\ q \in {0, 1} /\ n \in Nat \ {0}
      /\ (p = 1) <=> (current > 2)
      /\ (q = 1) <=> (current < total - 3)
  BY <1>2, <1>3
<1>6. DOMAIN range = 1..(p + n + q + 2) /\ Len(range) = p + n + q + 2
  BY <1>4
<1>7. p = 1 => range[2] = Ellipsis
  BY <1>3, <1>4, <1>5
<1>8. \A i \in (2 + p)..(1 + p + n) : range[i] = first + (i - p) - 2
  <2> SUFFICES ASSUME NEW i \in (2 + p)..(1 + p + n) PROVE range[i] = first + (i - p) - 2
    OBVIOUS
  <2>1. i - p - 1 \in 1..n /\ 1 + Len(a) + (i - p - 1) = i
    BY <1>2, <1>5
  <2>2. range[1 + Len(a) + (i - p - 1)] = first + (i - p - 1) - 1
    BY <1>4, <2>1
  <2> QED  BY <1>2, <1>5, <2>1, <2>2
<1>9. q = 1 => range[2 + p + n] = Ellipsis
  <2>1. q = 1 => range[1 + Len(a) + n + 1] = b[1] /\ b[1] = Ellipsis
    BY <1>3, <1>4, <1>5
  <2> QED  BY <1>5, <2>1
<1>10. range[1] = 0 /\ range[p + n + q + 2] = total - 1
  BY <1>4
<1> HIDE DEF p, q, n
<1>11. last = first + n - 1
  BY <1>2 DEF n
<1>12. \A i \in DOMAIN range :
         \/ i = 1
         \/ p = 1 /\ i = 2
         \/ i \in (2 + p)..(1 + p + n)
         \/ q = 1 /\ i = 2 + p + n
         \/ i = p + n + q + 2
  BY <1>5, <1>6
<1>13. \A i \in DOMAIN range :
         range[i] = Ellipsis <=> (p = 1 /\ i = 2) \/ (q = 1 /\ i = 2 + p + n)
  BY <1>2, <1>5, <1>6, <1>7, <1>8, <1>9, <1>10, <1>12 DEF Ellipsis
<1>14. PageLinks(current, total) = {range[i] : i \in DOMAIN range} \ {Ellipsis}
  BY DEF PageLinks, range
<1>15. {0, current, total - 1} \subseteq PageLinks(current, total)
  <2>1. \E i \in DOMAIN range : range[i] = 0
    BY <1>5, <1>6, <1>10
  <2>2. \E i \in DOMAIN range : range[i] = total - 1
    BY <1>5, <1>6, <1>10
  <2>3. \E i \in DOMAIN range : range[i] = current
    <3>1. CASE current = 0
      BY <2>1, <3>1
    <3>2. CASE current = total - 1
      BY <2>2, <3>2
    <3>3. CASE 0 < current /\ current < total - 1
      <4> DEFINE i == current - first + 2 + p
      <4>1. i \in (2 + p)..(1 + p + n)
        BY <1>2, <1>5, <1>11, <3>3
      <4>2. i \in DOMAIN range
        BY <1>5, <1>6, <4>1
      <4>3. range[i] = current
        BY <1>2, <1>5, <1>8, <4>1
      <4> QED  BY <4>2, <4>3
    <3> QED  BY <3>1, <3>2, <3>3
  <2>4. 0 # Ellipsis /\ current # Ellipsis /\ total - 1 # Ellipsis
    BY DEF Ellipsis
  <2> QED  BY <1>14, <2>1, <2>2, <2>3, <2>4
<1>16. PageLinks(current, total) \subseteq 0..(total - 1)
  <2> SUFFICES ASSUME NEW i \in DOMAIN range, range[i] # Ellipsis PROVE range[i] \in 0..(total - 1)
    BY <1>14
  <2> QED  BY <1>2, <1>5, <1>6, <1>8, <1>10, <1>11, <1>12, <1>13
<1>17. \A i \in 1..(Len(range) - 1) :
         range[i] # Ellipsis /\ range[i + 1] # Ellipsis => range[i + 1] = range[i] + 1
  <2> SUFFICES ASSUME NEW i \in 1..(Len(range) - 1), range[i] # Ellipsis, range[i + 1] # Ellipsis
               PROVE  range[i + 1] = range[i] + 1
    OBVIOUS
  <2>1. i \in DOMAIN range /\ i + 1 \in DOMAIN range
    BY <1>5, <1>6
  <2>2. CASE i = 1
    <3>1. p = 0
      BY <1>5, <1>13, <2>1, <2>2
    <3>2. first = 1
      BY <1>2, <1>5, <3>1
    <3>3. range[2] = 1
      BY <1>5, <1>8, <3>1, <3>2
    <3> QED  BY <1>10, <2>2, <3>3
  <2>3. CASE i \in (2 + p)..(p + n)
    <3>1. range[i] = first + (i - p) - 2 /\ range[i + 1] = first + (i + 1 - p) - 2
      BY <1>5, <1>8, <2>3
    <3> QED  BY <1>2, <1>5, <3>1
  <2>4. CASE i = 1 + p + n
    <3>1. q = 0
      BY <1>5, <1>13, <2>1, <2>4
    <3>2. last = total - 2
      BY <1>2, <1>5, <3>1
    <3>3. range[i] = last
      BY <1>2, <1>5, <1>8, <1>11, <2>4
    <3>4. range[i + 1] = total - 1
      BY <1>5, <1>10, <2>4, <3>1
    <3> QED  BY <3>2, <3>3, <3>4
  <2>5. i = 1 \/ i \in (2 + p)..(p + n) \/ i = 1 + p + n
    BY <1>5, <1>6, <1>13, <2>1
  <2> QED  BY <2>2, <2>3, <2>4, <2>5
<1>18. ASSUME NEW i \in DOMAIN range, range[i] = Ellipsis
       PROVE  /\ i - 1 \in DOMAIN range /\ i + 1 \in DOMAIN range
              /\ range[i - 1] # Ellipsis /\ range[i - 1] + 1 < range[i + 1]
  <2>1. CASE p = 1 /\ i = 2
    <3>1. range[1] = 0 /\ range[3] = first /\ first > 1
      BY <1>2, <1>5, <1>8, <1>10, <2>1
    <3> QED  BY <1>2, <1>5, <1>6, <2>1, <3>1 DEF Ellipsis
  <2>2. CASE q = 1 /\ i = 2 + p + n
    <3>1. range[1 + p + n] = last
      BY <1>2, <1>5, <1>8, <1>11
    <3>2. range[3 + p + n] = total - 1 /\ last < total - 2
      BY <1>2, <1>5, <1>10, <2>2
    <3>3. last # Ellipsis
      BY <1>2 DEF Ellipsis
    <3> QED  BY <1>2, <1>5, <1>6, <2>2, <3>1, <3>2, <3>3
  <2> QED  BY <1>13, <1>18, <2>1, <2>2
<1> QED  BY <1>15, <1>16, <1>17, <1>18 DEF PagerTellsPages, range

\* Whatever the number of pages and whichever is shown, the pager offers the
\* first page, the last and the current one, in order, and an ellipsis exactly
\* where pages are left out (numbered-pagination.tsx).
THEOREM PagerTellsAll ==
  \A total \in Nat \ {0} : \A current \in 0..(total - 1) : PagerTellsPages(current, total)
<1> SUFFICES ASSUME NEW total \in Nat \ {0}, NEW current \in 0..(total - 1)
             PROVE  PagerTellsPages(current, total)
  OBVIOUS
<1>1. CASE total <= 7
  BY <1>1, AllPages
<1>2. CASE total > 7
  BY <1>2, SomePages
<1> QED  BY <1>1, <1>2
=============================================================================
