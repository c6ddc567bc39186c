---------------------------- MODULE ViewsProofs -----------------------------
(***************************************************************************)
(* What is shown of the piles: graphs and paths, views, searches and the   *)
(* to-do list, for any rows, texts, queries and limits.                    *)
(***************************************************************************)
EXTENDS PilesProofs, WellFoundedInduction

------------------------------------------------------------------------------
(* Numbers, finite sets and orders.                                           *)

\* A set of numbers that is not empty has a least one.
LEMMA LeastNat ==
  ASSUME NEW T \in SUBSET Nat, T # {}
  PROVE  \E x \in T : \A y \in T : x <= y
<1> DEFINE R == {ss \in Nat \X Nat : ss[1] < ss[2]}
<1>1. R = OpToRel(<, Nat)
  BY DEF OpToRel
<1>2. IsWellFoundedOn(R, Nat)
  BY NatLessThanWellFounded, <1>1, Zenon
<1> HIDE DEF R
<1>3. PICK x \in T : \A y \in T : ~ (<<y, x>> \in R)
  BY <1>2, WFMin, Zenon
<1>4. ASSUME NEW y \in T PROVE x <= y
  <2>1. ~ (y < x)
    BY <1>3 DEF R
  <2>2. QED
    BY <2>1
<1>5. QED
  BY <1>4

LEMMA NatSetInduction ==
  ASSUME NEW T, 0 \in T, \A n \in Nat : n \in T => n + 1 \in T
  PROVE  \A n \in Nat : n \in T
<1> DEFINE Bad == {n \in Nat : n \notin T}
<1>1. SUFFICES ASSUME Bad # {} PROVE FALSE
  OBVIOUS
<1>2. PICK x \in Bad : \A y \in Bad : x <= y
  BY <1>1, LeastNat
<1>3. x # 0 /\ x - 1 \in Nat /\ x - 1 \notin Bad
  BY <1>2
<1>4. x - 1 \in T
  BY <1>3
<1>5. (x - 1) + 1 \in T
  BY <1>3, <1>4
<1>6. QED
  BY <1>2, <1>5

LEMMA UpTo == \A n \in Nat : IsFiniteSet(1..n) /\ Cardinality(1..n) = n
  BY FS_Interval

\* R puts the elements of S in an order.
IsOrder(R, S) ==
  /\ \A x \in S : <<x, x>> \notin R
  /\ \A x, y \in S : x # y => <<x, y>> \in R \/ <<y, x>> \in R
  /\ \A x, y, z \in S : <<x, y>> \in R /\ <<y, z>> \in R => <<x, z>> \in R

Rank(x, R, S) == Cardinality({y \in S : <<y, x>> \in R})

\* The places of the elements of a finite set are 0 .. n - 1, in its order.
LEMMA Ranks ==
  ASSUME NEW S, IsFiniteSet(S), NEW R, IsOrder(R, S)
  PROVE  /\ Cardinality(S) \in Nat
         /\ \A x \in S : Rank(x, R, S) \in 0..(Cardinality(S) - 1)
         /\ \A x, y \in S : <<x, y>> \in R <=> Rank(x, R, S) < Rank(y, R, S)
         /\ \A x, y \in S : Rank(x, R, S) = Rank(y, R, S) => x = y
         /\ \A k \in 0..(Cardinality(S) - 1) : \E x \in S : Rank(x, R, S) = k
<1> DEFINE before(x) == {y \in S : <<y, x>> \in R}
           place == [x \in S |-> Rank(x, R, S)]
           n == Cardinality(S)
<1>1. n \in Nat
  BY FS_CardinalityType
<1>2. ASSUME NEW x \in S PROVE Rank(x, R, S) \in 0..(n - 1)
  <2>1. before(x) \in SUBSET S /\ before(x) # S
    BY DEF IsOrder
  <2>2. IsFiniteSet(before(x)) /\ Cardinality(before(x)) <= n /\ Cardinality(before(x)) # n
    BY <2>1, FS_Subset
  <2>3. Cardinality(before(x)) \in Nat
    BY <2>2, FS_CardinalityType
  <2>4. QED
    BY <1>1, <2>2, <2>3 DEF Rank
<1>3. ASSUME NEW x \in S, NEW y \in S, <<x, y>> \in R PROVE Rank(x, R, S) < Rank(y, R, S)
  <2>1. before(x) \in SUBSET before(y) /\ before(x) # before(y)
    <3>1. x \in before(y) /\ x \notin before(x)
      BY <1>3 DEF IsOrder
    <3>2. \A z \in before(x) : z \in before(y)
      BY <1>3 DEF IsOrder
    <3>3. QED
      BY <3>1, <3>2
  <2>2. IsFiniteSet(before(y))
    BY FS_Subset
  <2>3. Cardinality(before(x)) <= Cardinality(before(y)) /\ Cardinality(before(x)) # Cardinality(before(y))
    BY <2>1, <2>2, FS_Subset
  <2>4. QED
    BY <1>2, <2>3 DEF Rank
<1>4. \A x, y \in S : Rank(x, R, S) = Rank(y, R, S) => x = y
  <2>1. SUFFICES ASSUME NEW x \in S, NEW y \in S, Rank(x, R, S) = Rank(y, R, S), x # y PROVE FALSE
    OBVIOUS
  <2>2. <<x, y>> \in R \/ <<y, x>> \in R
    BY <2>1 DEF IsOrder
  <2>3. QED
    BY <1>1, <1>2, <1>3, <2>1, <2>2
<1>5. \A x, y \in S : <<x, y>> \in R <=> Rank(x, R, S) < Rank(y, R, S)
  <2>1. SUFFICES ASSUME NEW x \in S, NEW y \in S, Rank(x, R, S) < Rank(y, R, S), <<x, y>> \notin R PROVE FALSE
    BY <1>3
  <2>2. x # y
    BY <2>1, <1>2, <1>1
  <2>3. <<y, x>> \in R
    BY <2>1, <2>2 DEF IsOrder
  <2>4. QED
    BY <1>1, <1>2, <1>3, <2>1, <2>3
<1>6. place \in Injection(S, 0..(n - 1))
  BY <1>2, <1>4 DEF Injection, IsInjective
<1>7. IsFiniteSet(0..(n - 1)) /\ Cardinality(0..(n - 1)) = n
  BY <1>1, FS_Interval
<1>8. place \in Surjection(S, 0..(n - 1))
  BY <1>6, <1>7, FS_Injection
<1>9. \A k \in 0..(n - 1) : \E x \in S : Rank(x, R, S) = k
  BY <1>8 DEF Surjection
<1>10. QED
  BY <1>1, <1>2, <1>4, <1>5, <1>9

\* A finite set that is not empty has a first element.
LEMMA FirstOne ==
  ASSUME NEW S, IsFiniteSet(S), S # {}, NEW R, IsOrder(R, S)
  PROVE  \E x \in S : \A y \in S : x = y \/ <<x, y>> \in R
<1>1. Cardinality(S) \in Nat /\ Cardinality(S) # 0
  BY FS_CardinalityType, FS_EmptySet
<1>2. PICK x \in S : Rank(x, R, S) = 0
  BY <1>1, Ranks
<1>3. ASSUME NEW y \in S, x # y PROVE <<x, y>> \in R
  <2>1. Rank(y, R, S) \in 0..(Cardinality(S) - 1) /\ Rank(y, R, S) # Rank(x, R, S)
    BY <1>3, Ranks
  <2>2. QED
    BY <1>1, <1>2, <2>1, Ranks
<1>4. QED
  BY <1>3

\* The first n are at most n; they are there if there is one at all.
Few(S, R, n) == {x \in S : Rank(x, R, S) < n}

LEMMA FirstFew ==
  ASSUME NEW S, IsFiniteSet(S), NEW R, IsOrder(R, S), NEW n \in Nat
  PROVE  /\ Few(S, R, n) \subseteq S /\ IsFiniteSet(Few(S, R, n)) /\ Cardinality(Few(S, R, n)) <= n
         /\ n > 0 /\ S # {} => Few(S, R, n) # {}
<1>0. PICK T : T = Few(S, R, n)
  OBVIOUS
<1> USE <1>0 DEF Few
<1> DEFINE place == [x \in T |-> Rank(x, R, S)]
<1>1. \A x \in S : Rank(x, R, S) \in 0..(Cardinality(S) - 1)
  BY Ranks
<1>2. place \in [T -> 0..(n - 1)]
  BY <1>1
<1>3. \A x, y \in T : place[x] = place[y] => x = y
  BY Ranks
<1>4. place \in Injection(T, 0..(n - 1))
  BY <1>2, <1>3 DEF Injection, IsInjective
<1>5. IsFiniteSet(0..(n - 1)) /\ Cardinality(0..(n - 1)) = n
  BY FS_Interval
<1>6. IsFiniteSet(T) /\ Cardinality(T) <= n
  BY <1>4, <1>5, FS_Injection
<1>7. ASSUME n > 0, S # {} PROVE T # {}
  <2>1. Cardinality(S) \in Nat /\ Cardinality(S) # 0
    BY <1>7, FS_CardinalityType, FS_EmptySet
  <2>2. PICK x \in S : Rank(x, R, S) = 0
    BY <2>1, Ranks
  <2>3. QED
    BY <1>7, <2>2
<1>8. QED
  BY <1>6, <1>7

\* The elements of S one after the other.
InOrder(S, R) == [n \in 1..Cardinality(S) |-> CHOOSE x \in S : Rank(x, R, S) = n - 1]

IsListing(s, S, R) ==
  /\ s \in Seq(S) /\ Len(s) = Cardinality(S) /\ Cardinality(S) \in Nat
  /\ \A x \in S : \E n \in 1..Len(s) : s[n] = x
  /\ \A i, j \in 1..Len(s) : i < j <=> <<s[i], s[j]>> \in R
  /\ \A i, j \in 1..Len(s) : s[i] = s[j] => i = j

LEMMA Listed ==
  ASSUME NEW S, IsFiniteSet(S), NEW R, IsOrder(R, S)
  PROVE  IsListing(InOrder(S, R), S, R)
<1> DEFINE n == Cardinality(S)
           s == InOrder(S, R)
<1>1. n \in Nat
  BY Ranks
<1>2. ASSUME NEW i \in 1..n PROVE s[i] \in S /\ Rank(s[i], R, S) = i - 1
  <2>1. \E x \in S : Rank(x, R, S) = i - 1
    BY <1>1, Ranks
  <2>2. s[i] = CHOOSE x \in S : Rank(x, R, S) = i - 1
    BY DEF InOrder
  <2>3. QED
    BY <2>1, <2>2
<1>3. s = [i \in 1..n |-> s[i]]
  BY DEF InOrder
<1>4. s \in [1..n -> S]
  BY <1>2, <1>3
<1>5. s \in Seq(S) /\ Len(s) = n
  BY <1>1, <1>4
<1>6. ASSUME NEW x \in S PROVE \E i \in 1..Len(s) : s[i] = x
  <2>1. Rank(x, R, S) \in 0..(n - 1)
    BY Ranks
  <2>2. Rank(x, R, S) + 1 \in 1..n
    BY <1>1, <2>1
  <2>3. s[Rank(x, R, S) + 1] \in S /\ Rank(s[Rank(x, R, S) + 1], R, S) = Rank(x, R, S)
    BY <1>2, <2>1, <2>2
  <2>4. s[Rank(x, R, S) + 1] = x
    BY <2>3, Ranks
  <2>5. QED
    BY <1>5, <2>2, <2>4
<1>7. ASSUME NEW i \in 1..Len(s), NEW j \in 1..Len(s)
      PROVE (i < j <=> <<s[i], s[j]>> \in R) /\ (s[i] = s[j] => i = j)
  <2>1. <<s[i], s[j]>> \in R <=> Rank(s[i], R, S) < Rank(s[j], R, S)
    BY <1>2, <1>5, Ranks
  <2>2. QED
    BY <1>2, <1>5, <2>1
<1> HIDE DEF s
<1>8. QED
  BY <1>1, <1>5, <1>6, <1>7 DEF IsListing, s

\* The places of a list in their order.
Upward(places) == {p \in places \X places : p[1] < p[2]}

LEMMA UpwardOrder == \A places \in SUBSET Int : IsOrder(Upward(places), places)
  BY DEF IsOrder, Upward

\* What is picked from a list.
Places(places) == InOrder(places, Upward(places))
PickedFrom(list, places) == [n \in DOMAIN Places(places) |-> list[Places(places)[n]]]

Picks(s, order, list, places) ==
  /\ Len(s) = Cardinality(places) /\ Cardinality(places) \in Nat /\ Len(order) = Len(s)
  /\ \A n \in 1..Len(s) : order[n] \in places /\ s[n] = list[order[n]]
  /\ \A i \in places : \E n \in 1..Len(s) : order[n] = i
  /\ \A m, n \in 1..Len(s) : (m < n <=> order[m] < order[n]) /\ (order[m] = order[n] => m = n)

LEMMA PickedList ==
  ASSUME NEW X, NEW list \in Seq(X), NEW places \in SUBSET (1..Len(list))
  PROVE  /\ PickedFrom(list, places) \in Seq(X)
         /\ Picks(PickedFrom(list, places), Places(places), list, places)
<1>1. IsFiniteSet(1..Len(list))
  BY FS_Interval
<1>2. IsFiniteSet(places)
  BY <1>1, FS_Subset
<1>3. IsOrder(Upward(places), places)
  BY UpwardOrder
<1>00. PICK order : order = Places(places)
  OBVIOUS
<1>0. PICK s : s = PickedFrom(list, places)
  OBVIOUS
<1>4. IsListing(order, places, Upward(places))
  BY <1>00, <1>2, <1>3, Listed DEF Places
<1>5. s = [n \in DOMAIN order |-> list[order[n]]]
  BY <1>0, <1>00 DEF PickedFrom
<1>6. /\ DOMAIN order = 1..Len(order) /\ \A n \in 1..Len(order) : order[n] \in places
      /\ Len(order) = Cardinality(places) /\ Cardinality(places) \in Nat
  BY <1>4 DEF IsListing
<1>7. s \in [1..Len(order) -> X]
  <2>1. ASSUME NEW n \in 1..Len(order) PROVE list[order[n]] \in X
    <3>1. order[n] \in 1..Len(list)
      BY <1>6
    <3>2. QED
      BY <3>1
  <2>2. QED
    BY <1>5, <1>6, <2>1
<1>8. s \in Seq(X) /\ Len(s) = Len(order)
  BY <1>6, <1>7
<1>9. \A i, j \in 1..Len(order) : (i < j <=> order[i] < order[j]) /\ (order[i] = order[j] => i = j)
  BY <1>4, <1>6 DEF Upward, IsListing
<1>10. \A i \in places : \E n \in 1..Len(order) : order[n] = i
  BY <1>4 DEF IsListing
<1>11. Picks(s, order, list, places)
  BY <1>5, <1>6, <1>8, <1>9, <1>10 DEF Picks
<1>12. QED
  BY <1>0, <1>00, <1>8, <1>11

Elements(s) == {s[i] : i \in 1..Len(s)}

LEMMA CountElements ==
  ASSUME NEW X, NEW s \in Seq(X)
  PROVE  /\ IsFiniteSet(Elements(s)) /\ Cardinality(Elements(s)) \in Nat /\ Cardinality(Elements(s)) <= Len(s)
         /\ (\A i, j \in 1..Len(s) : s[i] = s[j] => i = j) <=> Cardinality(Elements(s)) = Len(s)
<1> DEFINE f == [i \in 1..Len(s) |-> s[i]]
<1>1. f \in Surjection(1..Len(s), Elements(s))
  <2>1. f \in [1..Len(s) -> Elements(s)]
    BY DEF Elements
  <2>2. \A x \in Elements(s) : \E i \in 1..Len(s) : f[i] = x
    BY DEF Elements
  <2>3. QED
    BY <2>1, <2>2 DEF Surjection
<1>2. Len(s) \in Nat /\ IsFiniteSet(1..Len(s)) /\ Cardinality(1..Len(s)) = Len(s)
  BY UpTo
<1>3. /\ IsFiniteSet(Elements(s)) /\ Cardinality(Elements(s)) <= Len(s)
      /\ Cardinality(Elements(s)) = Len(s) <=> f \in Injection(1..Len(s), Elements(s))
  BY <1>1, <1>2, FS_Surjection
<1>4. f \in Injection(1..Len(s), Elements(s)) <=> \A i, j \in 1..Len(s) : s[i] = s[j] => i = j
  BY <1>1 DEF Injection, IsInjective, Surjection
<1>5. Cardinality(Elements(s)) \in Nat
  BY <1>3, FS_CardinalityType
<1>6. QED
  BY <1>3, <1>4, <1>5

\* The first places of the elements of a list are picked once each.
NewPlaces(list) == {n \in 1..Len(list) : \A m \in 1..(n - 1) : list[m] # list[n]}
IsOnce(s, list) == Elements(s) = Elements(list) /\ \A i, j \in 1..Len(s) : s[i] = s[j] => i = j

LEMMA FirstPlaces ==
  ASSUME NEW X, NEW list \in Seq(X)
  PROVE  /\ PickedFrom(list, NewPlaces(list)) \in Seq(X)
         /\ IsOnce(PickedFrom(list, NewPlaces(list)), list)
<1>01. PICK places : places = NewPlaces(list)
  OBVIOUS
<1>02. PICK s : s = PickedFrom(list, places)
  OBVIOUS
<1> USE <1>01 DEF NewPlaces
<1>00. PICK order : order = Places(places)
  OBVIOUS
<1>0. Len(list) \in Nat /\ places \in SUBSET (1..Len(list))
  OBVIOUS
<1>1. s \in Seq(X) /\ Picks(s, order, list, places)
  BY <1>00, <1>02, <1>0, PickedList
<1>2. ASSUME NEW i \in 1..Len(s), NEW j \in 1..Len(s), s[i] = s[j] PROVE i = j
  <2>1. /\ order[i] \in places /\ order[j] \in places /\ list[order[i]] = list[order[j]]
        /\ order[i] \in Nat /\ order[j] \in Nat
    BY <1>0, <1>1, <1>2 DEF Picks
  <2>2. ~(order[i] < order[j])
    BY <2>1
  <2>3. ~(order[j] < order[i])
    BY <2>1, SMTT(30)
  <2>4. order[i] = order[j]
    BY <2>1, <2>2, <2>3
  <2>5. QED
    BY <1>1, <2>4 DEF Picks
<1>3. ASSUME NEW x \in Elements(list) PROVE x \in Elements(s)
  <2> DEFINE here == {i \in 1..Len(list) : list[i] = x}
  <2>1. here \in SUBSET Nat /\ here # {}
    BY <1>3 DEF Elements
  <2>2. PICK i \in here : \A j \in here : i <= j
    BY <2>1, LeastNat
  <2>3. i \in places
    BY <2>2
  <2>4. PICK n \in 1..Len(s) : order[n] = i
    BY <1>1, <2>3 DEF Picks
  <2>5. s[n] = x
    BY <1>1, <2>2, <2>4 DEF Picks
  <2>6. QED
    BY <2>5 DEF Elements
<1>4. ASSUME NEW i \in 1..Len(s) PROVE s[i] \in Elements(list)
  <2>1. order[i] \in 1..Len(list) /\ s[i] = list[order[i]]
    BY <1>0, <1>1 DEF Picks
  <2>2. QED
    BY <2>1 DEF Elements
<1>5. Elements(s) \subseteq Elements(list)
  BY <1>4 DEF Elements
<1>6. IsOnce(s, list)
  BY <1>2, <1>3, <1>5 DEF IsOnce
<1>7. QED
  BY <1>02, <1>1, <1>6

------------------------------------------------------------------------------
(* Search.                                                                    *)

LEMMA SameFinding ==
  /\ \A S : Finding!Cardinality(S) = Cardinality(S)
  /\ \A s : Finding!ToSet(s) = {s[i] : i \in DOMAIN s}
  BY DEF Finding!Cardinality, Cardinality, Finding!ToSet

LEMMA FindingPicked ==
  \A list, places : Finding!Picked(list, places) = PickedFrom(list, places)
<1>1. TAKE list, places
<1>2. ASSUME NEW x \in places
      PROVE  Finding!Cardinality({y \in places : y < x}) = Rank(x, Upward(places), places)
  <2>1. {y \in places : y < x} = {y \in places : <<y, x>> \in Upward(places)}
    BY DEF Upward
  <2>2. QED
    BY <2>1, SameFinding DEF Rank
<1>3. Finding!InTurn(places) = InOrder(places, Upward(places))
  BY <1>2, SameFinding DEF Finding!InTurn, Finding!Sorted, InOrder
<1>4. QED
  BY <1>3 DEF Finding!Picked, PickedFrom, Places

Latest(S) == {p \in S \X S : s2[p[1]] > s2[p[2]]}

\* The first n of a finite set in an order.
Leading(M, R, n) == SubSeq(InOrder(M, R), 1, IF n < Cardinality(M) THEN n ELSE Cardinality(M))

Leads(f, M, n) ==
  /\ f \in Seq(M) /\ (\A i, j \in 1..Len(f) : f[i] = f[j] => i = j)
  /\ Len(f) = n \/ Elements(f) = M

LEMMA Cut ==
  ASSUME NEW M, IsFiniteSet(M), NEW R, IsOrder(R, M), NEW n \in Nat
  PROVE  Leads(Leading(M, R, n), M, n)
<1>01. PICK k : k = IF n < Cardinality(M) THEN n ELSE Cardinality(M)
  OBVIOUS
<1>02. PICK f : f = Leading(M, R, n)
  OBVIOUS
<1>1. PICK s : s = InOrder(M, R)
  OBVIOUS
<1>2. IsListing(s, M, R)
  BY <1>1, Listed
<1>3. k \in Nat /\ k <= Len(s) /\ (k = n \/ k = Len(s)) /\ k - 1 + 1 = k
  BY <1>01, <1>2 DEF IsListing
<1>4. \A i \in 1..k : s[i] \in M
  BY <1>2, <1>3 DEF IsListing
<1>5. /\ SubSeq(s, 1, k) \in Seq(M) /\ Len(SubSeq(s, 1, k)) = IF 1 <= k THEN k - 1 + 1 ELSE 0
      /\ \A i \in 1..(k - 1 + 1) : SubSeq(s, 1, k)[i] = s[1 + i - 1]
  BY <1>3, <1>4, SubSeqProperties
<1>6. f \in Seq(M) /\ Len(f) = k /\ \A i \in 1..k : f[i] = s[i]
  BY <1>01, <1>02, <1>1, <1>3, <1>5 DEF Leading
<1>7. ASSUME k = Len(s) PROVE Elements(f) = M
  BY <1>2, <1>6, <1>7 DEF Elements, IsListing
<1>8. Leads(f, M, n)
  BY <1>2, <1>3, <1>6, <1>7 DEF IsListing, Leads
<1>9. QED
  BY <1>02, <1>8

\* The rows that a statement returns.
LEMMA FetchedRows ==
  ASSUME Finding!SearchInv, NEW S \in SUBSET Finding!Rows, NEW n \in Nat,
         NEW M, M = {x \in S : s1[x].found /\ Finding!Selected(x)}, NEW f, f = Finding!Fetched(S, n)
  PROVE  /\ IsFiniteSet(M) /\ Cardinality(M) \in Nat
         /\ Leads(f, M, n)
<1>00. PICK later : later = Latest(M)
  OBVIOUS
<1>1. IsFiniteSet(M) /\ Cardinality(M) \in Nat
  <2>1. IsFiniteSet(Finding!Rows) /\ M \in SUBSET Finding!Rows
    BY SearchAssumption DEF Finding!Rows
  <2>2. QED
    BY <2>1, FS_Subset, FS_CardinalityType
<1>2. IsOrder(later, M)
  <2>1. \A x, y \in M : s2[x] \in Nat /\ s2[y] \in Nat /\ (s2[x] = s2[y] => x = y)
    BY DEF Finding!SearchInv, Finding!Aged
  <2>2. QED
    BY <1>00, <2>1 DEF IsOrder, Latest
<1>3. ASSUME NEW x \in M
      PROVE  Finding!Cardinality({y \in M : s2[y] > s2[x]}) = Rank(x, later, M)
  <2>1. {y \in M : s2[y] > s2[x]} = {y \in M : <<y, x>> \in later}
    BY <1>00 DEF Latest
  <2>2. QED
    BY <2>1, SameFinding DEF Rank
<1>4. Finding!Sorted(M, LAMBDA x, y : s2[x] > s2[y]) = InOrder(M, later)
  <2>1. \A i : (CHOOSE x \in M : Finding!Cardinality({y \in M : s2[y] > s2[x]}) = i - 1)
               = (CHOOSE x \in M : Rank(x, later, M) = i - 1)
    BY <1>3, Zenon
  <2>2. Finding!Cardinality(M) = Cardinality(M)
    BY SameFinding
  <2>3. QED
    BY <2>1, <2>2 DEF Finding!Sorted, InOrder
<1>5. f = Leading(M, later, n)
  <2>1. f = Finding!Latest(M, n)
    BY DEF Finding!Fetched
  <2>2. Finding!Latest(M, n) =
          SubSeq(Finding!Sorted(M, LAMBDA x, y : s2[x] > s2[y]), 1, Finding!Least(n, Finding!Cardinality(M)))
    BY DEF Finding!Latest
  <2>3. QED
    BY <1>4, <2>1, <2>2, SameFinding DEF Finding!Least, Leading
<1>6. Leads(Leading(M, later, n), M, n)
  BY <1>1, <1>2, Cut
<1>7. QED
  BY <1>1, <1>5, <1>6

\* A result still passes while only rows change that have been noted.
LEMMA PassesStill ==
  ASSUME Finding!SearchInv, s4' = s4, s10 \subseteq s10', \A x \in Finding!Rows \ s10' : s1'[x] = s1[x],
         NEW r, Finding!Passes(r)
  PROVE  Finding!Passes(r)'
<1>1. ASSUME r.kind \in {"session", "source_capture"}
      PROVE  /\ r.id \in Finding!RowsOf(r.kind)'
             /\ r.id \notin s10' => Finding!Selected(r.id)' /\ (r.kind = "session" => Finding!Kept(r.id)')
  <2>1. r.id \in Finding!RowsOf(r.kind) /\ r.id \in Finding!Rows
    BY <1>1 DEF Finding!Passes, Finding!RowsOf, Finding!Rows
  <2>2. ASSUME r.id \notin s10'
        PROVE  Finding!Selected(r.id)' /\ (r.kind = "session" => Finding!Kept(r.id)')
    <3>1. s1'[r.id] = s1[r.id] /\ r.id \notin s10
      BY <2>1, <2>2
    <3>2. Finding!Selected(r.id) /\ (r.kind = "session" => Finding!Kept(r.id))
      BY <1>1, <3>1 DEF Finding!Passes
    <3>3. QED
      BY <3>1, <3>2 DEF Finding!Selected, Finding!Kept
  <2>3. QED
    BY <2>1, <2>2 DEF Finding!RowsOf
<1>2. r \in Finding!Found /\ r.kind \in s4'.kinds
  BY DEF Finding!Passes
<1>3. QED
  BY <1>1, <1>2 DEF Finding!Passes

\* More results, and more changed rows, hide nothing of a kind.
LEMMA ListsStill ==
  ASSUME Finding!SearchInv, s4' = s4, s4 \in Queries, s10 \subseteq s10',
         \A x \in Finding!Rows \ s10' : s1'[x] = s1[x],
         NEW T, s7' \in Seq(T), Elements(s7) \subseteq Elements(s7'),
         NEW kind, Finding!ListsAll(kind)
  PROVE  Finding!ListsAll(kind)'
<1>1. s7 \in Seq(Finding!Found)
  BY DEF Finding!SearchInv, Finding!RowsPass
<1>2. Finding!ToSet(s7) = Elements(s7) /\ Finding!ToSet(s7)' = Elements(s7')
  BY <1>1, SameFinding DEF Elements, Finding!ToSet
<1>3. Cardinality(Elements(s7)) <= Cardinality(Elements(s7'))
  BY CountElements, FS_Subset
<1>4. Cardinality(Elements(s7)) \in Nat /\ Cardinality(Elements(s7')) \in Nat /\ s4.limit \in Nat
  BY <1>1, CountElements, SearchAssumption
<1>5. SUFFICES ASSUME kind \in s4'.kinds /\ s4'.account = None /\ s4'.tag = None
               PROVE  \/ s4'.limit <= Cardinality(Elements(s7'))
                      \/ \A x \in Finding!RowsOf(kind)' \ s10' :
                           s1'[x].found /\ Finding!Selected(x)' => Finding!Result(kind, x)' \in Elements(s7')
  BY <1>2, SameFinding DEF Finding!ListsAll
<1>6. CASE s4.limit <= Cardinality(Elements(s7))
  BY <1>3, <1>4, <1>6
<1>7. CASE \A x \in Finding!RowsOf(kind) \ s10 :
             s1[x].found /\ Finding!Selected(x) => Finding!Result(kind, x) \in Elements(s7)
  <2>1. SUFFICES ASSUME NEW x \in Finding!RowsOf(kind) \ s10', s1'[x].found, Finding!Selected(x)'
                 PROVE  Finding!Result(kind, x) \in Elements(s7')
    BY DEF Finding!RowsOf, Finding!Result
  <2>2. s1'[x] = s1[x] /\ x \notin s10
    BY <2>1 DEF Finding!RowsOf, Finding!Rows
  <2>3. s1[x].found /\ Finding!Selected(x)
    BY <2>1, <2>2 DEF Finding!Selected
  <2>4. QED
    BY <1>7, <2>1, <2>2, <2>3
<1>8. QED
  BY <1>2, <1>5, <1>6, <1>7, SameFinding DEF Finding!ListsAll

\* Results that are added to those by rows.
LEMMA RowsAdded ==
  ASSUME Finding!SearchInv, UNCHANGED <<s1, s4, s10>>, s4 \in Queries,
         NEW more \in Seq(Finding!Found), \A i \in 1..Len(more) : Finding!Passes(more[i]), s7' = s7 \o more
  PROVE  /\ s7' \in Seq(Finding!Found) /\ (\A i \in DOMAIN s7 : Finding!Passes(s7[i]))'
         /\ Elements(s7) \subseteq Elements(s7') /\ Elements(more) \subseteq Elements(s7')
         /\ \A kind : Finding!ListsAll(kind) => Finding!ListsAll(kind)'
<1>1. s7 \in Seq(Finding!Found) /\ \A i \in 1..Len(s7) : Finding!Passes(s7[i])
  BY DEF Finding!SearchInv, Finding!RowsPass
<1>2. /\ s7' \in Seq(Finding!Found) /\ Len(s7') = Len(s7) + Len(more)
      /\ \A i \in 1..(Len(s7) + Len(more)) : s7'[i] = IF i <= Len(s7) THEN s7[i] ELSE more[i - Len(s7)]
  BY <1>1, ConcatProperties
<1>3. Len(s7) \in Nat /\ Len(more) \in Nat
  BY <1>1
<1>4. ASSUME NEW i \in 1..Len(s7') PROVE Finding!Passes(s7[i])'
  <2>0. PICK result : result = s7'[i]
    OBVIOUS
  <2>1. Finding!Passes(result)
    <3>1. CASE i <= Len(s7)
      BY <2>0, <1>1, <1>2, <1>3, <3>1
    <3>2. CASE i > Len(s7)
      <4>1. i - Len(s7) \in 1..Len(more) /\ s7'[i] = more[i - Len(s7)]
        BY <1>2, <1>3, <3>2
      <4>2. QED
        BY <2>0, <4>1
    <3>3. QED
      BY <1>2, <1>3, <3>1, <3>2
  <2>2. Finding!Passes(result)'
    BY <2>1, PassesStill
  <2>3. QED
    BY <2>0, <2>2 DEF Finding!Passes
<1>5. Elements(s7) \subseteq Elements(s7')
  BY <1>2, <1>3 DEF Elements
<1>6. Elements(more) \subseteq Elements(s7')
  <2>1. SUFFICES ASSUME NEW j \in 1..Len(more) PROVE more[j] \in Elements(s7')
    BY DEF Elements
  <2>2. j + Len(s7) \in 1..Len(s7') /\ s7'[j + Len(s7)] = more[j]
    BY <1>2, <1>3
  <2>3. QED
    BY <2>2 DEF Elements
<1>7. \A kind : Finding!ListsAll(kind) => Finding!ListsAll(kind)'
  BY <1>2, <1>5, ListsStill
<1>8. QED
  BY <1>2, <1>4, <1>5, <1>6, <1>7

\* Steps that leave rows as they are.
LEMMA PassesSame ==
  ASSUME Finding!SearchInv, UNCHANGED <<s1, s4, s10>>
  PROVE  \A r : Finding!Passes(r) => Finding!Passes(r)'
<1>1. s10 \subseteq s10' /\ \A x \in Finding!Rows \ s10' : s1'[x] = s1[x]
  OBVIOUS
<1>2. QED
  BY <1>1, PassesStill

\* What a search says at its end it says nothing of before.
LEMMA NotEnded ==
  ASSUME s5' # "end"
  PROVE  Finding!FiltersHold' /\ Finding!NothingHidden'
  BY DEF Finding!FiltersHold, Finding!NothingHidden

LEMMA FindingStart == Finding!Init => Finding!SearchInv
<1> SUFFICES ASSUME Finding!Init PROVE Finding!SearchInv
  OBVIOUS
<1> USE DEF Finding!Init
<1>1. Finding!TypeOK
  BY DEF Finding!TypeOK
<1>2. Finding!Aged
  BY SearchAssumption DEF Finding!Aged, Finding!Rows
<1>3. Finding!RowsPass /\ Finding!NotesPass /\ Finding!AllListed
  BY DEF Finding!RowsPass, Finding!NotesPass, Finding!AllListed
<1>4. Finding!FiltersHold /\ Finding!NothingHidden
  BY DEF Finding!FiltersHold, Finding!NothingHidden
<1>5. QED
  BY <1>1, <1>2, <1>3, <1>4 DEF Finding!SearchInv

LEMMA BeginFinds == ASSUME Finding!SearchInv, NEW q \in Queries, Finding!Begin(q) PROVE Finding!SearchInv'
<1> USE DEF Finding!Begin, Finding!SearchInv
<1>1. Finding!TypeOK'
  BY DEF Finding!TypeOK
<1>2. Finding!Aged'
  BY DEF Finding!Aged, Finding!Rows
<1>3. Finding!RowsPass' /\ Finding!NotesPass' /\ Finding!AllListed'
  BY DEF Finding!RowsPass, Finding!NotesPass, Finding!AllListed
<1>4. Finding!FiltersHold' /\ Finding!NothingHidden'
  BY NotEnded
<1>5. QED
  BY <1>1, <1>2, <1>3, <1>4

\* The results that a statement gives are added to those before.
LEMMA Reads ==
  ASSUME Finding!SearchInv, UNCHANGED <<s1, s2, s3, s4, s6, s8, s9, s10>>, s4 \in Queries,
         s5 \in {"sessions", "facts", "captures", "list"},
         s5' \in {"facts", "captures", "list", "vault"},
         NEW more \in Seq(Finding!Found), \A i \in 1..Len(more) : Finding!Passes(more[i]), s7' = s7 \o more,
         s5 = "sessions" => Finding!ListsAll("session")',
         s5 \in {"sessions", "facts"} => s5' \in {"facts", "captures"},
         s5 = "captures" => Finding!ListsAll("source_capture")'
  PROVE  Finding!SearchInv'
<1>1. Finding!TypeOK'
  BY DEF Finding!SearchInv, Finding!TypeOK
<1>2. Finding!Aged'
  BY DEF Finding!SearchInv, Finding!Aged, Finding!Rows
<1>3. /\ s7' \in Seq(Finding!Found) /\ (\A i \in DOMAIN s7 : Finding!Passes(s7[i]))'
      /\ \A kind : Finding!ListsAll(kind) => Finding!ListsAll(kind)'
  BY RowsAdded
<1>4. Finding!RowsPass'
  BY <1>3 DEF Finding!RowsPass, Finding!Found, Finding!Rows
<1>5. Finding!NotesPass'
  BY DEF Finding!SearchInv, Finding!NotesPass
<1>6. Finding!AllListed'
  BY <1>3 DEF Finding!SearchInv, Finding!AllListed
<1>7. QED
  BY <1>1, <1>2, <1>4, <1>5, <1>6, NotEnded DEF Finding!SearchInv

\* A list of which everything is picked leads as it did.
LEMMA PickedAll ==
  ASSUME NEW M, NEW n \in Nat, NEW f, Leads(f, M, n)
  PROVE  Leads(PickedFrom(f, 1..Len(f)), M, n)
<1>000. PICK all : all = 1..Len(f)
  OBVIOUS
<1>0. PICK s : s = PickedFrom(f, all)
  OBVIOUS
<1>00. PICK order : order = Places(all)
  OBVIOUS
<1>1. f \in Seq(M) /\ Len(f) \in Nat
  BY DEF Leads
<1>2. s \in Seq(M) /\ Picks(s, order, f, all)
  <2>1. all \in SUBSET (1..Len(f))
    BY <1>000
  <2>2. PickedFrom(f, all) \in Seq(M) /\ Picks(PickedFrom(f, all), Places(all), f, all)
    BY <1>1, <2>1, PickedList
  <2>3. QED
    BY <1>0, <1>00, <2>2
<1>3. Cardinality(all) = Len(f)
  BY <1>000, <1>1, UpTo
<1>4. Len(s) = Len(f)
  BY <1>2, <1>3 DEF Picks
<1>5. ASSUME NEW i \in 1..Len(s), NEW j \in 1..Len(s), s[i] = s[j] PROVE i = j
  <2>1. /\ order[i] \in 1..Len(f) /\ order[j] \in 1..Len(f)
        /\ f[order[i]] = s[i] /\ f[order[j]] = s[j]
    BY <1>000, <1>2 DEF Picks
  <2>2. order[i] = order[j]
    BY <1>5, <2>1 DEF Leads
  <2>3. QED
    BY <1>2, <2>2 DEF Picks
<1>6. Elements(s) = Elements(f)
  <2>1. ASSUME NEW i \in 1..Len(s) PROVE s[i] \in Elements(f)
    BY <1>000, <1>2 DEF Picks, Elements
  <2>2. ASSUME NEW i \in 1..Len(f) PROVE f[i] \in Elements(s)
    BY <1>000, <1>2 DEF Picks, Elements
  <2>3. QED
    BY <2>1, <2>2 DEF Elements
<1>7. QED
  BY <1>000, <1>0, <1>2, <1>4, <1>5, <1>6 DEF Leads

\* What a statement returns is all of its kind, or as much as was asked for.
LEMMA ListsNew ==
  ASSUME Finding!SearchInv, UNCHANGED <<s1, s4, s10>>, s4 \in Queries,
         NEW kind \in {"session", "source_capture"},
         NEW M, M = {x \in Finding!RowsOf(kind) : s1[x].found /\ Finding!Selected(x)},
         NEW f, Leads(f, M, s4.limit),
         NEW more, more = [i \in 1..Len(f) |-> Finding!Result(kind, f[i])], more \in Seq(Finding!Found),
         s7' = s7 \o more
  PROVE  Finding!ListsAll(kind)'
<1>1. s7 \in Seq(Finding!Found)
  BY DEF Finding!SearchInv, Finding!RowsPass
<1>2. s7' \in Seq(Finding!Found) /\ Elements(more) \subseteq Elements(s7')
  <2>1. /\ s7' \in Seq(Finding!Found) /\ Len(s7') = Len(s7) + Len(more)
        /\ \A i \in 1..(Len(s7) + Len(more)) : s7'[i] = IF i <= Len(s7) THEN s7[i] ELSE more[i - Len(s7)]
    BY <1>1, ConcatProperties
  <2>2. ASSUME NEW j \in 1..Len(more) PROVE more[j] \in Elements(s7')
    <3>1. j + Len(s7) \in 1..Len(s7') /\ s7'[j + Len(s7)] = more[j]
      BY <1>1, <2>1
    <3>2. QED
      BY <3>1 DEF Elements
  <2>3. QED
    BY <2>1, <2>2, ZenonT(40) DEF Elements
<1>3. /\ IsFiniteSet(Elements(s7')) /\ Cardinality(Elements(s7')) \in Nat
      /\ Cardinality(Elements(more)) \in Nat /\ Cardinality(Elements(more)) <= Cardinality(Elements(s7'))
  <2>1. IsFiniteSet(Elements(s7')) /\ Cardinality(Elements(s7')) \in Nat /\ Cardinality(Elements(more)) \in Nat
    BY <1>2, CountElements
  <2>2. QED
    BY <1>2, <2>1, FS_Subset
<1>4. Finding!ToSet(s7)' = Elements(s7')
  <2>1. DOMAIN s7' = 1..Len(s7')
    BY <1>2
  <2>2. QED
    BY <2>1 DEF Elements, Finding!ToSet
<1>5. f \in Seq(M) /\ Len(f) \in Nat /\ Len(more) = Len(f)
  BY DEF Leads
<1>6. CASE Len(f) = s4.limit
  <2>1. \A i, j \in 1..Len(more) : more[i] = more[j] => i = j
    BY <1>5 DEF Leads, Finding!Result
  <2>2. Cardinality(Elements(more)) = s4.limit
    BY <1>5, <1>6, <2>1, CountElements
  <2>3. QED
    BY <1>3, <1>4, <2>2, SameFinding DEF Finding!ListsAll
<1>7. CASE Elements(f) = M
  <2>1. SUFFICES ASSUME NEW x \in Finding!RowsOf(kind), s1[x].found, Finding!Selected(x)
                 PROVE  Finding!Result(kind, x) \in Elements(s7')
    BY <1>4 DEF Finding!ListsAll, Finding!RowsOf, Finding!Selected, Finding!Result
  <2>2. PICK i \in 1..Len(f) : f[i] = x
    BY <1>7, <2>1 DEF Elements
  <2>3. more[i] = Finding!Result(kind, x) /\ i \in 1..Len(more)
    BY <1>5, <2>2
  <2>4. QED
    BY <1>2, <2>3 DEF Elements
<1>8. QED
  BY <1>6, <1>7 DEF Leads

\* Rows of a kind that are selected pass as results.
LEMMA RowPasses ==
  ASSUME Finding!SearchInv, NEW kind \in {"session", "source_capture"}, kind \in s4.kinds,
         NEW x \in Finding!RowsOf(kind), Finding!Selected(x), kind = "session" => Finding!Kept(x)
  PROVE  Finding!Passes(Finding!Result(kind, x)) /\ Finding!Result(kind, x) \in Finding!Found
<1>1. Finding!Result(kind, x) \in Finding!Found
  BY DEF Finding!Result, Finding!Found, Finding!RowsOf, Finding!Rows
<1>2. Finding!Result(kind, x).kind = kind /\ Finding!Result(kind, x).id = x
  BY DEF Finding!Result
<1>3. QED
  BY <1>1, <1>2 DEF Finding!Passes

LEMMA ReadSessionsFinds == ASSUME Finding!SearchInv, Finding!ReadSessions PROVE Finding!SearchInv'
<1> USE DEF Finding!ReadSessions, Finding!Goto
<1>1. s4 \in Queries /\ s7 = <<>> /\ s4.limit \in Nat
  BY SearchAssumption DEF Finding!SearchInv, Finding!RowsPass
<1>2. CASE "session" \notin s4.kinds
  <2>0. PICK more : more = <<>>
    OBVIOUS
  <2>1. s7' = s7 \o more /\ more \in Seq(Finding!Found) /\ \A i \in 1..Len(more) : Finding!Passes(more[i])
    BY <1>1, <1>2, <2>0
  <2>2. Finding!ListsAll("session")'
    BY <1>2 DEF Finding!ListsAll
  <2>3. QED
    BY <1>1, <2>1, <2>2, Reads
<1>3. CASE "session" \in s4.kinds
  <2>0. PICK M : M = {x \in SearchSessions : s1[x].found /\ Finding!Selected(x)}
    OBVIOUS
  <2>00. PICK f : f = Finding!Fetched(SearchSessions, Finding!FetchLimit)
    OBVIOUS
  <2>1. Finding!FetchLimit \in Nat
    BY <1>1 DEF Finding!FetchLimit
  <2>2. Leads(f, M, Finding!FetchLimit)
    BY <2>0, <2>00, <2>1, FetchedRows DEF Finding!Rows
  <2>3. f \in Seq(M) /\ DOMAIN f = 1..Len(f) /\ Len(f) \in Nat
    BY <2>2 DEF Leads
  <2>4. PICK places : places = {i \in DOMAIN f : Finding!Kept(f[i])}
    OBVIOUS
  <2>5. PICK picked : picked = PickedFrom(f, places)
    OBVIOUS
  <2>6. PICK more : more = [i \in DOMAIN picked |-> Finding!Result("session", picked[i])]
    OBVIOUS
  <2>7. s7' = more
    BY <1>3, <2>00, <2>4, <2>5, <2>6, FindingPicked DEF Finding!Results
  <2>8. picked \in Seq(M) /\ Picks(picked, Places(places), f, places)
    BY <2>3, <2>4, <2>5, PickedList
  <2>9. DOMAIN picked = 1..Len(picked) /\ Len(picked) \in Nat
    BY <2>8
  <2>10. \A i \in 1..Len(picked) :
           Finding!Passes(Finding!Result("session", picked[i])) /\ Finding!Result("session", picked[i]) \in Finding!Found
    <3>1. TAKE i \in 1..Len(picked)
    <3>2. picked[i] \in M /\ Finding!Kept(picked[i])
      BY <2>4, <2>8, <2>9 DEF Picks
    <3>3. picked[i] \in Finding!RowsOf("session") /\ Finding!Selected(picked[i])
      BY <2>0, <3>2 DEF Finding!RowsOf
    <3>4. QED
      BY <1>3, <3>2, <3>3, RowPasses
  <2>11. more \in Seq(Finding!Found) /\ Len(more) = Len(picked) /\ \A i \in 1..Len(more) : Finding!Passes(more[i])
    BY <2>6, <2>9, <2>10
  <2>12. s7' = s7 \o more
    BY <1>1, <2>7, <2>11
  <2>13. Finding!ListsAll("session")'
    <3>1. SUFFICES ASSUME s4.account = None, s4.tag = None PROVE Finding!ListsAll("session")'
      BY DEF Finding!ListsAll
    <3>2. Finding!FetchLimit = s4.limit /\ places = 1..Len(f)
      BY <2>3, <2>4, <3>1 DEF Finding!FetchLimit, Finding!Kept
    <3>3. Leads(picked, M, s4.limit)
      BY <1>1, <2>2, <2>5, <3>2, PickedAll
    <3>4. M = {x \in Finding!RowsOf("session") : s1[x].found /\ Finding!Selected(x)}
      BY <2>0 DEF Finding!RowsOf
    <3>5. more = [i \in 1..Len(picked) |-> Finding!Result("session", picked[i])]
      BY <2>6, <2>9
    <3>6. QED
      BY <1>1, <2>11, <2>12, <3>3, <3>4, <3>5, ListsNew
  <2>14. QED
    BY <1>1, <2>11, <2>12, <2>13, Reads
<1>4. QED
  BY <1>2, <1>3

\* The elements of a finite set in some order.
LEMMA SomeOrder ==
  ASSUME NEW S, IsFiniteSet(S), NEW order \in Finding!SetToSeqs(S)
  PROVE  order \in Seq(S)
<1>1. Cardinality(S) \in Nat
  BY FS_CardinalityType
<1>2. order \in [1..Cardinality(S) -> S]
  BY SameFinding DEF Finding!SetToSeqs
<1>3. QED
  BY <1>1, <1>2

\* Entities are results, whatever their facts.
LEMMA EntityPasses ==
  ASSUME "entity" \in s4.kinds, NEW e \in UNION {new.entities : new \in Items}
  PROVE  Finding!Passes(Finding!Result("entity", e)) /\ Finding!Result("entity", e) \in Finding!Found
<1>1. Finding!Result("entity", e) \in Finding!Found
  BY DEF Finding!Result, Finding!Found
<1>2. Finding!Result("entity", e).kind = "entity"
  BY DEF Finding!Result
<1>3. QED
  BY <1>1, <1>2 DEF Finding!Passes

LEMMA ReadFactsFinds == ASSUME Finding!SearchInv, Finding!ReadFacts PROVE Finding!SearchInv'
<1> USE DEF Finding!ReadFacts, Finding!Goto
<1>1. s4 \in Queries /\ s7 \in Seq(Finding!Found) /\ s1 \in [Finding!Rows -> Items]
  BY DEF Finding!SearchInv, Finding!RowsPass, Finding!TypeOK
<1>2. PICK fetched \in SUBSET SearchSessions :
        \E order \in Finding!SetToSeqs(UNION {s1[x].entities : x \in {y \in fetched : Finding!Kept(y)}}) :
          s7' = IF "entity" \in s4.kinds THEN s7 \o Finding!Results("entity", order) ELSE s7
  OBVIOUS
<1>3. PICK entities : entities = UNION {s1[x].entities : x \in {y \in fetched : Finding!Kept(y)}}
  OBVIOUS
<1>4. PICK order \in Finding!SetToSeqs(entities) :
        s7' = IF "entity" \in s4.kinds THEN s7 \o Finding!Results("entity", order) ELSE s7
  BY <1>2, <1>3
<1>5. entities \subseteq UNION {new.entities : new \in Items} /\ IsFiniteSet(entities)
  <2>1. PICK kept : kept = {y \in fetched : Finding!Kept(y)}
    OBVIOUS
  <2>2. IsFiniteSet(kept) /\ kept \subseteq Finding!Rows
    <3>1. IsFiniteSet(Finding!Rows) /\ kept \subseteq Finding!Rows
      BY <2>1, SearchAssumption DEF Finding!Rows
    <3>2. QED
      BY <3>1, FS_Subset
  <2>3. PICK sets : sets = {s1[x].entities : x \in kept}
    OBVIOUS
  <2>4. IsFiniteSet(sets)
    <3>1. PICK f : f = [x \in kept |-> s1[x].entities]
      OBVIOUS
    <3>2. f \in Surjection(kept, sets)
      BY <2>3, <3>1 DEF Surjection
    <3>3. QED
      BY <2>2, <3>2, FS_Surjection
  <2>5. \A T \in sets : IsFiniteSet(T) /\ T \subseteq UNION {new.entities : new \in Items}
    BY <1>1, <2>2, <2>3, SearchAssumption
  <2>6. IsFiniteSet(UNION sets)
    BY <2>4, <2>5, FS_UNION
  <2>7. entities = UNION sets
    BY <1>3, <2>1, <2>3
  <2>8. QED
    BY <2>5, <2>6, <2>7
<1>6. order \in Seq(entities)
  BY <1>4, <1>5, SomeOrder
<1>7. CASE "entity" \notin s4.kinds
  <2>0. PICK more : more = <<>>
    OBVIOUS
  <2>1. s7' = s7 \o more /\ more \in Seq(Finding!Found) /\ \A i \in 1..Len(more) : Finding!Passes(more[i])
    BY <1>1, <1>4, <1>7, <2>0
  <2>2. QED
    BY <1>1, <2>1, Reads
<1>8. CASE "entity" \in s4.kinds
  <2>1. PICK more : more = Finding!Results("entity", order)
    OBVIOUS
  <2>2. \A i \in 1..Len(order) : /\ Finding!Passes(Finding!Result("entity", order[i]))
                                 /\ Finding!Result("entity", order[i]) \in Finding!Found
    BY <1>5, <1>6, <1>8, EntityPasses
  <2>3. more \in Seq(Finding!Found) /\ \A i \in 1..Len(more) : Finding!Passes(more[i])
    <3>1. DOMAIN order = 1..Len(order) /\ Len(order) \in Nat
      BY <1>6
    <3>2. more = [i \in 1..Len(order) |-> Finding!Result("entity", order[i])]
      BY <2>1, <3>1 DEF Finding!Results
    <3>3. QED
      BY <2>2, <3>1, <3>2
  <2>4. s7' = s7 \o more
    BY <1>4, <1>8, <2>1
  <2>5. QED
    BY <1>1, <2>3, <2>4, Reads
<1>9. QED
  BY <1>7, <1>8

LEMMA ReadCapturesFinds == ASSUME Finding!SearchInv, Finding!ReadCaptures PROVE Finding!SearchInv'
<1> USE DEF Finding!ReadCaptures, Finding!Goto
<1>1. s4 \in Queries /\ s4.limit \in Nat /\ s7 \in Seq(Finding!Found)
  BY SearchAssumption DEF Finding!SearchInv, Finding!RowsPass
<1>2. CASE "source_capture" \notin s4.kinds
  <2>0. PICK more : more = <<>>
    OBVIOUS
  <2>1. s7' = s7 \o more /\ more \in Seq(Finding!Found) /\ \A i \in 1..Len(more) : Finding!Passes(more[i])
    BY <1>1, <1>2, <2>0
  <2>2. Finding!ListsAll("source_capture")'
    BY <1>2 DEF Finding!ListsAll
  <2>3. QED
    BY <1>1, <2>1, <2>2, Reads
<1>3. CASE "source_capture" \in s4.kinds
  <2>1. PICK M : M = {x \in SearchCaptures : s1[x].found /\ Finding!Selected(x)}
    OBVIOUS
  <2>2. PICK f : f = Finding!Fetched(SearchCaptures, s4.limit)
    OBVIOUS
  <2>3. Leads(f, M, s4.limit)
    BY <1>1, <2>1, <2>2, FetchedRows DEF Finding!Rows
  <2>4. f \in Seq(M) /\ DOMAIN f = 1..Len(f) /\ Len(f) \in Nat
    BY <2>3 DEF Leads
  <2>5. PICK more : more = [i \in 1..Len(f) |-> Finding!Result("source_capture", f[i])]
    OBVIOUS
  <2>6. s7' = s7 \o more
    BY <1>3, <2>2, <2>4, <2>5 DEF Finding!Results
  <2>7. \A i \in 1..Len(f) : /\ Finding!Passes(Finding!Result("source_capture", f[i]))
                             /\ Finding!Result("source_capture", f[i]) \in Finding!Found
    <3>1. TAKE i \in 1..Len(f)
    <3>2. f[i] \in Finding!RowsOf("source_capture") /\ Finding!Selected(f[i])
      BY <2>1, <2>4 DEF Finding!RowsOf
    <3>3. QED
      BY <1>3, <3>2, RowPasses
  <2>8. more \in Seq(Finding!Found) /\ \A i \in 1..Len(more) : Finding!Passes(more[i])
    BY <2>4, <2>5, <2>7
  <2>9. M = {x \in Finding!RowsOf("source_capture") : s1[x].found /\ Finding!Selected(x)}
    BY <2>1 DEF Finding!RowsOf
  <2>10. Finding!ListsAll("source_capture")'
    BY <1>1, <2>3, <2>5, <2>6, <2>8, <2>9, ListsNew
  <2>11. QED
    BY <1>1, <2>6, <2>8, <2>10, Reads
<1>4. QED
  BY <1>2, <1>3

LEMMA ReadListFinds == ASSUME Finding!SearchInv, Finding!ReadList PROVE Finding!SearchInv'
<1> USE DEF Finding!ReadList, Finding!Goto
<1>1. s4 \in Queries /\ s7 \in Seq(Finding!Found)
  BY DEF Finding!SearchInv, Finding!RowsPass
<1>2. PICK listed : listed = Finding!Result("todo_list", None)
  OBVIOUS
<1>3. PICK more : more = IF s7' = s7 THEN <<>> ELSE <<listed>>
  OBVIOUS
<1>4. listed \in Finding!Found /\ listed.kind = "todo_list"
  BY <1>2 DEF Finding!Result, Finding!Found
<1>5. s7' = s7 \o more
  BY <1>1, <1>2, <1>3, <1>4
<1>6. more \in Seq(Finding!Found) /\ \A i \in 1..Len(more) : Finding!Passes(more[i])
  <2>1. CASE more = <<>>
    BY <2>1
  <2>2. CASE s7' # s7
    <3>1. more = <<listed>> /\ "todo_list" \in s4.kinds
      BY <1>3, <2>2
    <3>2. Finding!Passes(listed)
      BY <1>4, <3>1 DEF Finding!Passes
    <3>3. QED
      BY <1>4, <3>1, <3>2
  <2>3. QED
    BY <1>3, <2>1, <2>2
<1>7. QED
  BY <1>1, <1>5, <1>6, Reads

LEMMA GrepFinds ==
  ASSUME Finding!SearchInv, NEW found \in UNION {Finding!SetToSeqs(S) : S \in SUBSET Paths}, Finding!Grep(found)
  PROVE  Finding!SearchInv'
<1> USE DEF Finding!Grep, Finding!Goto
<1>1. Finding!TypeOK'
  BY DEF Finding!SearchInv, Finding!TypeOK
<1>2. Finding!Aged'
  BY DEF Finding!SearchInv, Finding!Aged, Finding!Rows
<1>3. Finding!RowsPass'
  BY PassesSame DEF Finding!SearchInv, Finding!RowsPass, Finding!Found, Finding!Rows
<1>4. s6' \in Seq(Paths)
  <2>1. PICK S \in SUBSET Paths : found \in Finding!SetToSeqs(S)
    OBVIOUS
  <2>2. IsFiniteSet(S)
    BY SearchAssumption, FS_Subset
  <2>3. found \in Seq(S)
    BY <2>1, <2>2, SomeOrder
  <2>4. found \in Seq(Paths)
    BY <2>3
  <2>5. QED
    BY <2>4
<1>5. Finding!NotesPass'
  BY <1>4 DEF Finding!SearchInv, Finding!NotesPass
<1>6. Finding!AllListed'
  BY DEF Finding!SearchInv, Finding!AllListed, Finding!ListsAll, Finding!RowsOf, Finding!Selected
<1>7. QED
  BY <1>1, <1>2, <1>3, <1>5, <1>6, NotEnded DEF Finding!SearchInv

\* What is at a path is a result that passes, or nothing.
LEMMA AtPathPasses ==
  ASSUME Finding!SearchInv, NEW kind \in {"session", "source_capture"}, NEW found \in Finding!Resolved(kind),
         NEW i \in DOMAIN s6
  PROVE  found[i] = None \/ Finding!Passes(found[i])
<1>1. found[i] \in Finding!AtPath(s6[i], kind)
  BY DEF Finding!Resolved
<1>2. SUFFICES ASSUME found[i] # None PROVE Finding!Passes(found[i])
  OBVIOUS
<1>3. PICK x \in Finding!RowsOf(kind) : /\ found[i] = Finding!Result(kind, x) /\ kind \in s4.kinds
                                         /\ Finding!Selected(x) /\ (x \in SearchSessions => Finding!Kept(x))
  BY <1>1, <1>2 DEF Finding!AtPath
<1>4. kind = "session" => Finding!Kept(x)
  BY <1>3 DEF Finding!RowsOf
<1>5. QED
  BY <1>3, <1>4, RowPasses

\* Steps that only look up notes.
LEMMA Looks ==
  ASSUME Finding!SearchInv, UNCHANGED <<s1, s2, s3, s4, s6, s7, s9, s10>>, s4 \in Queries,
         s5 \in {"resolve", "pages"}, s5' \in {"pages", "merge"}, Finding!NotesPass'
  PROVE  Finding!SearchInv'
<1>1. Finding!TypeOK'
  BY DEF Finding!SearchInv, Finding!TypeOK
<1>2. Finding!Aged'
  BY DEF Finding!SearchInv, Finding!Aged, Finding!Rows
<1>3. Finding!RowsPass'
  BY PassesSame DEF Finding!SearchInv, Finding!RowsPass, Finding!Found, Finding!Rows
<1>4. Finding!AllListed'
  BY DEF Finding!SearchInv, Finding!AllListed, Finding!ListsAll, Finding!RowsOf, Finding!Selected
<1>5. QED
  BY <1>1, <1>2, <1>3, <1>4, NotEnded DEF Finding!SearchInv

LEMMA ResolveSessionsFinds == ASSUME Finding!SearchInv, Finding!ResolveSessions PROVE Finding!SearchInv'
<1> USE DEF Finding!ResolveSessions, Finding!Goto
<1>1. s8' \in Finding!Resolved("session") /\ s6 \in Seq(Paths) /\ s4 \in Queries
  BY DEF Finding!SearchInv, Finding!NotesPass
<1>2. PICK found : found = s8'
  OBVIOUS
<1>3. \A i \in DOMAIN s6 : found[i] = None \/ Finding!Passes(found[i])
  BY <1>1, <1>2, AtPathPasses
<1>4. DOMAIN found = DOMAIN s6
  BY <1>1, <1>2 DEF Finding!Resolved
<1>5. \A i \in DOMAIN s6 : found[i] = None \/ Finding!Passes(found[i])'
  BY <1>3, PassesSame
<1>6. Finding!NotesPass'
  BY <1>1, <1>2, <1>4, <1>5 DEF Finding!NotesPass
<1>7. QED
  BY <1>1, <1>6, Looks

LEMMA ResolveCapturesFinds == ASSUME Finding!SearchInv, Finding!ResolveCaptures PROVE Finding!SearchInv'
<1> USE DEF Finding!ResolveCaptures, Finding!Goto
<1>1. /\ s6 \in Seq(Paths) /\ s4 \in Queries
      /\ DOMAIN s8 = DOMAIN s6 /\ \A i \in DOMAIN s6 : s8[i] = None \/ Finding!Passes(s8[i])
  BY DEF Finding!SearchInv, Finding!NotesPass
<1>2. PICK found \in Finding!Resolved("source_capture") :
        LET either == [i \in DOMAIN s6 |-> IF s8[i] # None THEN s8[i] ELSE found[i]]
        IN s8' = Finding!Picked(either, {i \in DOMAIN s6 : either[i] # None})
  OBVIOUS
<1>3. PICK either : either = [i \in DOMAIN s6 |-> IF s8[i] # None THEN s8[i] ELSE found[i]]
  OBVIOUS
<1>4. PICK places : places = {i \in DOMAIN s6 : either[i] # None}
  OBVIOUS
<1>5. PICK picked : picked = PickedFrom(either, places)
  OBVIOUS
<1>6. s8' = picked
  BY <1>2, <1>3, <1>4, <1>5, FindingPicked
<1>7. \A i \in DOMAIN s6 : either[i] = None \/ Finding!Passes(either[i])
  BY <1>1, <1>3, AtPathPasses
<1>8. \A i \in DOMAIN s6 : either[i] \in Finding!Found \cup {None}
  BY <1>7 DEF Finding!Passes
<1>9. DOMAIN s6 = 1..Len(s6) /\ Len(s6) \in Nat
  BY <1>1
<1>10. either \in Seq(Finding!Found \cup {None}) /\ Len(either) = Len(s6)
  <2>1. either = [i \in 1..Len(s6) |-> either[i]]
    BY <1>3, <1>9
  <2>2. QED
    BY <1>8, <1>9, <2>1
<1>11. picked \in Seq(Finding!Found \cup {None}) /\ Picks(picked, Places(places), either, places)
  BY <1>4, <1>5, <1>9, <1>10, PickedList
<1>12. ASSUME NEW i \in 1..Len(picked) PROVE Finding!Passes(picked[i]) /\ picked[i] \in Finding!Found
  <2>1. PICK n \in places : picked[i] = either[n]
    BY <1>11 DEF Picks
  <2>2. Finding!Passes(either[n])
    BY <1>4, <1>7
  <2>3. QED
    BY <2>1, <2>2 DEF Finding!Passes
<1>13. picked \in Seq(Finding!Found) /\ DOMAIN picked = 1..Len(picked)
  BY <1>11, <1>12
<1>14. \A i \in DOMAIN picked : Finding!Passes(picked[i])'
  BY <1>12, <1>13, PassesSame
<1>15. Finding!NotesPass'
  BY <1>1, <1>6, <1>13, <1>14 DEF Finding!NotesPass, Finding!Found, Finding!Rows
<1>16. QED
  BY <1>1, <1>15, Looks

\* Both lists, each result once.
LEMMA Merged ==
  ASSUME Finding!SearchInv, s5 = "merge", NEW all, all = Finding!Distinct(s8 \o s7)
  PROVE  /\ all \in Seq(Finding!Found) /\ Elements(s7) \subseteq Elements(all)
         /\ \A i, j \in 1..Len(all) : all[i] = all[j] => i = j
         /\ \A i \in 1..Len(all) : Finding!Passes(all[i])
<1>1. /\ s7 \in Seq(Finding!Found) /\ (\A i \in DOMAIN s7 : Finding!Passes(s7[i]))
      /\ s8 \in Seq(Finding!Found) /\ (\A i \in DOMAIN s8 : Finding!Passes(s8[i]))
  BY DEF Finding!SearchInv, Finding!RowsPass, Finding!NotesPass
<1>2. PICK both : both = s8 \o s7
  OBVIOUS
<1>3. /\ both \in Seq(Finding!Found) /\ Len(both) = Len(s8) + Len(s7)
      /\ \A i \in 1..(Len(s8) + Len(s7)) : both[i] = IF i <= Len(s8) THEN s8[i] ELSE s7[i - Len(s8)]
  BY <1>1, <1>2, ConcatProperties
<1>4. ASSUME NEW i \in 1..Len(both) PROVE Finding!Passes(both[i])
  <2>1. CASE i <= Len(s8)
    BY <1>1, <1>3, <2>1
  <2>2. CASE i > Len(s8)
    <3>1. i - Len(s8) \in DOMAIN s7 /\ both[i] = s7[i - Len(s8)]
      BY <1>1, <1>3, <2>2
    <3>2. QED
      BY <1>1, <3>1
  <2>3. QED
    BY <1>1, <1>3, <2>1, <2>2
<1>5. Elements(s7) \subseteq Elements(both)
  <2>1. ASSUME NEW j \in 1..Len(s7) PROVE s7[j] \in Elements(both)
    <3>0. PICK n : n = j + Len(s8)
      OBVIOUS
    <3>00. n \in 1..(Len(s8) + Len(s7)) /\ ~(n <= Len(s8)) /\ n - Len(s8) = j
      BY <1>1, <3>0
    <3>1. n \in 1..Len(both) /\ both[n] = s7[j]
      BY <1>3, <3>00
    <3>2. QED
      BY <3>1 DEF Elements
  <2>2. QED
    BY <2>1 DEF Elements
<1>6. NewPlaces(both) = {n \in DOMAIN both : \A m \in 1..(n - 1) : both[m] # both[n]}
  BY <1>3 DEF NewPlaces
<1>7. all = PickedFrom(both, NewPlaces(both))
  BY <1>2, <1>6, FindingPicked DEF Finding!Distinct
<1>8. /\ all \in Seq(Finding!Found) /\ Elements(all) = Elements(both)
      /\ \A i, j \in 1..Len(all) : all[i] = all[j] => i = j
  BY <1>3, <1>7, FirstPlaces DEF IsOnce
<1>9. ASSUME NEW i \in 1..Len(all) PROVE Finding!Passes(all[i])
  <2>1. all[i] \in Elements(both)
    BY <1>8 DEF Elements
  <2>2. PICK j \in 1..Len(both) : both[j] = all[i]
    BY <2>1 DEF Elements
  <2>3. Finding!Passes(both[j])
    BY <1>4
  <2>4. QED
    BY <2>2, <2>3
<1>10. QED
  BY <1>5, <1>8, <1>9

LEMMA MergeFinds == ASSUME Finding!SearchInv, Finding!Merge PROVE Finding!SearchInv'
<1> USE DEF Finding!Merge
<1>1. Finding!TypeOK' /\ s4 \in Queries /\ s4.limit \in Nat /\ s7 \in Seq(Finding!Found) /\ s7' = s7
  BY SearchAssumption DEF Finding!SearchInv, Finding!TypeOK, Finding!RowsPass
<1>2. Finding!Aged'
  BY DEF Finding!SearchInv, Finding!Aged, Finding!Rows
<1>3. Finding!RowsPass'
  BY PassesSame DEF Finding!SearchInv, Finding!RowsPass, Finding!Found, Finding!Rows
<1>4. Finding!NotesPass'
  BY PassesSame DEF Finding!SearchInv, Finding!NotesPass, Finding!Found, Finding!Rows
<1>5. Finding!ListsAll("session")' /\ Finding!ListsAll("source_capture")'
  BY DEF Finding!SearchInv, Finding!AllListed, Finding!ListsAll, Finding!RowsOf, Finding!Selected
<1>6. Finding!AllListed'
  BY <1>5 DEF Finding!AllListed
<1>7. PICK all : all = Finding!Distinct(s8 \o s7)
  OBVIOUS
<1>8. /\ all \in Seq(Finding!Found) /\ Elements(s7) \subseteq Elements(all)
      /\ \A i, j \in 1..Len(all) : all[i] = all[j] => i = j
      /\ \A i \in 1..Len(all) : Finding!Passes(all[i])
  BY <1>7, Merged
<1>9. PICK k : k = IF s4.limit < Len(all) THEN s4.limit ELSE Len(all)
  OBVIOUS
<1>10. k \in Nat /\ k <= Len(all) /\ k <= s4.limit /\ (k < s4.limit => k = Len(all)) /\ k - 1 + 1 = k
  BY <1>1, <1>8, <1>9
<1>11. PICK few : few = SubSeq(all, 1, k)
  OBVIOUS
<1>12. s9' = few
  BY <1>7, <1>9, <1>11 DEF Finding!Least
<1>13. few \in Seq(Finding!Found) /\ Len(few) = k /\ \A i \in 1..k : few[i] = all[i]
  <2>1. \A i \in 1..k : all[i] \in Finding!Found
    BY <1>8, <1>10
  <2>2. /\ SubSeq(all, 1, k) \in Seq(Finding!Found) /\ Len(SubSeq(all, 1, k)) = IF 1 <= k THEN k - 1 + 1 ELSE 0
        /\ \A i \in 1..(k - 1 + 1) : SubSeq(all, 1, k)[i] = all[1 + i - 1]
    BY <1>8, <1>10, <2>1, SubSeqProperties
  <2>3. QED
    BY <1>10, <1>11, <2>2
<1>14. Finding!FiltersHold'
  <2>1. Finding!IsInjective(few)
    BY <1>8, <1>10, <1>13 DEF Finding!IsInjective
  <2>2. \A i \in DOMAIN few : Finding!Passes(few[i])'
    BY <1>8, <1>10, <1>13, PassesSame
  <2>3. Finding!IsInjective(s9)'
    BY <1>12, <2>1 DEF Finding!IsInjective
  <2>4. QED
    BY <1>10, <1>12, <1>13, <2>2, <2>3 DEF Finding!FiltersHold, Finding!Passes
<1>15. Finding!NothingHidden'
  <2>1. SUFFICES ASSUME k < s4.limit, s4.account = None, s4.tag = None,
                        NEW x \in Finding!Rows \ s10, s1[x].found, Finding!Selected(x),
                        Finding!Kind(x) \in s4.kinds
                 PROVE  \E i \in DOMAIN few : few[i] = Finding!Result(Finding!Kind(x), x)
    BY <1>12, <1>13, ZenonT(40) DEF Finding!NothingHidden, Finding!Rows, Finding!Selected, Finding!Kind, Finding!Result
  <2>2. PICK kind \in {"session", "source_capture"} : kind = Finding!Kind(x)
    BY DEF Finding!Kind
  <2>3. x \in Finding!RowsOf(kind) /\ Finding!ListsAll(kind)
    BY <2>2 DEF Finding!Kind, Finding!RowsOf, Finding!Rows, Finding!SearchInv, Finding!AllListed
  <2>4. Finding!ToSet(s7) = Elements(s7)
    BY <1>1, SameFinding DEF Elements
  <2>5. Cardinality(Elements(s7)) <= Len(all) /\ Cardinality(Elements(s7)) \in Nat
    <3>1. IsFiniteSet(Elements(all)) /\ Cardinality(Elements(all)) \in Nat /\ Cardinality(Elements(all)) <= Len(all)
      BY <1>8, CountElements
    <3>2. Cardinality(Elements(s7)) \in Nat /\ Cardinality(Elements(s7)) <= Cardinality(Elements(all))
      BY <1>1, <1>8, <3>1, FS_Subset, CountElements
    <3>3. QED
      BY <1>8, <3>1, <3>2
  <2>6. ~ (s4.limit <= Cardinality(Elements(s7)))
    BY <1>1, <1>8, <1>10, <2>1, <2>5
  <2>7. Finding!Result(kind, x) \in Elements(s7)
    BY <2>1, <2>2, <2>3, <2>4, <2>6, SameFinding DEF Finding!ListsAll
  <2>8. PICK i \in 1..Len(all) : all[i] = Finding!Result(kind, x)
    BY <1>8, <2>7 DEF Elements
  <2>9. i \in DOMAIN few /\ few[i] = all[i]
    BY <1>10, <1>13, <2>1
  <2>10. QED
    BY <2>2, <2>8, <2>9
<1>16. QED
  BY <1>1, <1>2, <1>3, <1>4, <1>6, <1>14, <1>15 DEF Finding!SearchInv

\* A finite set of numbers that is not empty has a greatest one.
LEMMA GreatestNat ==
  ASSUME NEW T \in SUBSET Nat, IsFiniteSet(T), T # {}
  PROVE  \E x \in T : \A y \in T : x >= y
<1>1. PICK R : R = {p \in T \X T : p[1] > p[2]}
  OBVIOUS
<1>2. IsOrder(R, T)
  BY <1>1 DEF IsOrder
<1>3. PICK x \in T : \A y \in T : x = y \/ <<x, y>> \in R
  BY <1>2, FirstOne
<1>4. \A y \in T : x \in Nat /\ y \in Nat /\ (x = y \/ x > y)
  BY <1>1, <1>3
<1>5. QED
  BY <1>4

LEMMA EditFinds ==
  ASSUME Finding!SearchInv, NEW x \in Finding!Rows, NEW new \in Items, Finding!Edit(x, new)
  PROVE  Finding!SearchInv'
<1> USE DEF Finding!Edit
<1>1. /\ s10 \subseteq s10' /\ (\A y \in Finding!Rows \ s10' : s1'[y] = s1[y]) /\ s4' = s4 /\ s4 \in Queries
      /\ s7 \in Seq(Finding!Found) /\ s7' = s7 /\ s7' \in Seq(Finding!Found)
      /\ s5' = s5 /\ s5 \notin {"idle", "end"}
  BY DEF Finding!SearchInv, Finding!TypeOK, Finding!RowsPass
<1>2. Finding!TypeOK'
  BY <1>1 DEF Finding!SearchInv, Finding!TypeOK, Finding!Rows
<1>3. Finding!Aged'
  <2>1. s2 \in [Finding!Rows -> Nat] /\ (\A y, z \in Finding!Rows : s2[y] = s2[z] => y = z)
    BY DEF Finding!SearchInv, Finding!Aged
  <2>2. PICK ages : ages = {s2[y] : y \in Finding!Rows}
    OBVIOUS
  <2>3. ages \in SUBSET Nat /\ ages # {} /\ IsFiniteSet(ages)
    <3>1. s2 \in Surjection(Finding!Rows, ages)
      BY <2>1, <2>2 DEF Surjection
    <3>2. IsFiniteSet(Finding!Rows)
      BY SearchAssumption DEF Finding!Rows
    <3>3. QED
      BY <2>1, <2>2, <3>1, <3>2, FS_Surjection
  <2>4. PICK oldest : oldest = Finding!Max(ages)
    OBVIOUS
  <2>5. oldest \in Nat /\ \A y \in ages : oldest >= y
    <3>1. \E z \in ages : \A y \in ages : z >= y
      BY <2>3, GreatestNat
    <3>2. oldest \in ages /\ \A y \in ages : oldest >= y
      BY <2>4, <3>1, Zenon DEF Finding!Max
    <3>3. QED
      BY <2>3, <3>2
  <2>6. s2' = [s2 EXCEPT ![x] = 1 + oldest]
    BY <2>2, <2>4
  <2>7. \A y \in Finding!Rows : s2[y] \in Nat /\ s2[y] # 1 + oldest
    <3>1. TAKE y \in Finding!Rows
    <3>2. s2[y] \in Nat /\ s2[y] \in ages
      BY <2>1, <2>2
    <3>3. oldest >= s2[y]
      BY <2>5, <3>2
    <3>4. QED
      BY <2>5, <3>2, <3>3
  <2>8. s2' \in [Finding!Rows -> Nat] /\ \A y, z \in Finding!Rows : s2'[y] = s2'[z] => y = z
    BY <2>1, <2>5, <2>6, <2>7, SMTT(30)
  <2>9. QED
    BY <2>8 DEF Finding!Aged, Finding!Rows
<1>4. \A r : Finding!Passes(r) => Finding!Passes(r)'
  BY <1>1, PassesStill
<1>5. Finding!RowsPass'
  BY <1>1, <1>4 DEF Finding!SearchInv, Finding!RowsPass, Finding!Found, Finding!Rows
<1>6. Finding!NotesPass'
  BY <1>1, <1>4 DEF Finding!SearchInv, Finding!NotesPass, Finding!Found, Finding!Rows
<1>7. \A kind : Finding!ListsAll(kind) => Finding!ListsAll(kind)'
  <2>1. Elements(s7) \subseteq Elements(s7')
    BY <1>1
  <2>2. QED
    BY <1>1, <2>1, ListsStill
<1>8. Finding!AllListed'
  BY <1>1, <1>7 DEF Finding!SearchInv, Finding!AllListed
<1>9. QED
  BY <1>1, <1>2, <1>3, <1>5, <1>6, <1>8, NotEnded DEF Finding!SearchInv

LEMMA SearchSteps == ASSUME Finding!SearchInv, Finding!Next PROVE Finding!SearchInv'
  BY BeginFinds, ReadSessionsFinds, ReadFactsFinds, ReadCapturesFinds, ReadListFinds, GrepFinds,
     ResolveSessionsFinds, ResolveCapturesFinds, MergeFinds, EditFinds DEF Finding!Next

LEMMA SearchStays ==
  ASSUME Finding!SearchInv, UNCHANGED <<s1, s2, s3, s4, s5, s6, s7, s8, s9, s10>>
  PROVE  Finding!SearchInv'
<1>1. Finding!TypeOK' /\ Finding!Aged'
  BY DEF Finding!SearchInv, Finding!TypeOK, Finding!Aged, Finding!Rows
<1>2. Finding!RowsPass'
  BY PassesSame DEF Finding!SearchInv, Finding!RowsPass, Finding!Found, Finding!Rows
<1>3. Finding!NotesPass'
  BY PassesSame DEF Finding!SearchInv, Finding!NotesPass, Finding!Found, Finding!Rows
<1>4. Finding!AllListed'
  BY DEF Finding!SearchInv, Finding!AllListed, Finding!ListsAll, Finding!RowsOf, Finding!Selected
<1>5. Finding!FiltersHold'
  BY DEF Finding!SearchInv, Finding!FiltersHold, Finding!Selected, Finding!Kept, Finding!IsInjective
<1>6. Finding!NothingHidden'
  BY DEF Finding!SearchInv, Finding!NothingHidden, Finding!Selected, Finding!Kind, Finding!Result, Finding!Rows
<1>7. QED
  BY <1>1, <1>2, <1>3, <1>4, <1>5, <1>6 DEF Finding!SearchInv

------------------------------------------------------------------------------
(* Views.                                                                     *)

\* The terms of a fact that are listed with a source are some of those that it mentions, and
\* none only if it mentions none.
LEMMA MatchesAre ==
  ASSUME s1 \in [Shelved -> Holdings], NEW f \in Shelved, NEW s \in Shelved
  PROVE  /\ Shelves!Matches(f, s) \subseteq s1[f].terms \cap s1[s].words
         /\ s1[f].terms \cap s1[s].words # {} => Shelves!Matches(f, s) # {}
<1>1. PICK M : M = s1[f].terms \cap s1[s].words
  OBVIOUS
<1>2. PICK R : R = {p \in M \X M : p[1] < p[2]}
  OBVIOUS
<1>3. M \subseteq Nat /\ IsFiniteSet(M)
  <2>1. s1[s].words \subseteq Nat /\ IsFiniteSet(s1[s].words)
    BY ViewsAssumption
  <2>2. QED
    BY <1>1, <2>1, FS_Subset
<1>4. IsOrder(R, M)
  BY <1>2, <1>3 DEF IsOrder
<1>5. PICK T : T = Few(M, R, MatchLimit)
  OBVIOUS
<1>6. T \subseteq M /\ (M # {} => T # {})
  <2>1. MatchLimit \in Nat /\ MatchLimit > 0
    BY ViewsAssumption
  <2>2. QED
    BY <1>3, <1>4, <1>5, <2>1, FirstFew
<1>7. Shelves!Matches(f, s) = T
  <2>1. ASSUME NEW x \in M
        PROVE  Shelves!Cardinality({y \in M : y < x}) = Rank(x, R, M)
    <3>1. {y \in M : y < x} = {y \in M : <<y, x>> \in R}
      BY <1>2
    <3>2. QED
      BY <3>1 DEF Rank, Shelves!Cardinality, Cardinality
  <2>2. Shelves!Matches(f, s) = {x \in M : Shelves!Cardinality({y \in M : y < x}) < MatchLimit}
    BY <1>1 DEF Shelves!Matches, Shelves!First
  <2>3. QED
    BY <1>5, <2>1, <2>2 DEF Few
<1>8. QED
  BY <1>1, <1>6, <1>7

LEMMA MatchesStay ==
  ASSUME s1' = s1
  PROVE  /\ \A f, s : Shelves!Matches(f, s)' = Shelves!Matches(f, s)
         /\ \A kind : Shelves!InPile(kind)' = Shelves!InPile(kind)
BY DEF Shelves!Matches, Shelves!First, Shelves!InPile

\* What is said of the facts does not change while the conversations do not.
LEMMA FoundStays ==
  ASSUME s1' = s1
  PROVE  /\ \A s : Shelves!Told(s)' = Shelves!Told(s) /\ Shelves!Found(s)' = Shelves!Found(s)
         /\ Shelves!Mentioning' = Shelves!Mentioning
<1>1. \A s : Shelves!Told(s)' = Shelves!Told(s)
  BY MatchesStay DEF Shelves!Told
<1>2. \A s : Shelves!Found(s)' = Shelves!Found(s)
  BY MatchesStay DEF Shelves!Found
<1>3. Shelves!Mentioning' = Shelves!Mentioning
  BY <1>1, MatchesStay DEF Shelves!Mentioning
<1>4. QED
  BY <1>1, <1>2, <1>3

\* When every fact has been looked at, a source that mentions one is linked.
LEMMA LinkedWhenLooked ==
  ASSUME Shelves!TypeOK, Shelves!LinkedSoFar, s2 = {},
         NEW s \in Shelved \ (Shelves!InPile("factual") \cup Shelves!InPile("discarded"))
  PROVE  /\ (s \in DOMAIN s3 <=> Shelves!Told(s) # {})
         /\ s \in DOMAIN s3 =>
              /\ s3[s] = Shelves!Found(s)
              /\ s3[s] \subseteq Shelves!Told(s)
              /\ \A f \in Shelves!InPile("factual") :
                   s1[f].terms \cap Shelves!Told(s) # {} => s1[f].terms \cap s3[s] # {}
<1>2. PICK told : told = (UNION {s1[f].terms : f \in Shelves!InPile("factual")}) \cap s1[s].words
  OBVIOUS
<1>3. PICK found : found = UNION {Shelves!Matches(f, s) : f \in Shelves!InPile("factual")}
  OBVIOUS
<1>4. (s \in DOMAIN s3 <=> found # {}) /\ (s \in DOMAIN s3 => s3[s] = found)
  BY <1>3 DEF Shelves!LinkedSoFar
<1>5. \A f \in Shelves!InPile("factual") :
        /\ Shelves!Matches(f, s) \subseteq s1[f].terms \cap s1[s].words
        /\ s1[f].terms \cap s1[s].words # {} => Shelves!Matches(f, s) # {}
  <2>1. TAKE f \in Shelves!InPile("factual")
  <2>2. f \in Shelved /\ s \in Shelved /\ s1 \in [Shelved -> Holdings]
    BY DEF Shelves!InPile, Shelves!TypeOK
  <2>3. QED
    BY <2>2, MatchesAre
<1>01. PICK all : all = UNION {s1[f].terms : f \in Shelves!InPile("factual")}
  OBVIOUS
<1>001. \A w : w \in all <=> \E f \in Shelves!InPile("factual") : w \in s1[f].terms
  BY <1>01, Zenon
<1>002. told = all \cap s1[s].words
  BY <1>01, <1>2
<1>02. /\ \A w \in told : w \in s1[s].words /\ \E f \in Shelves!InPile("factual") : w \in s1[f].terms
       /\ \A w \in s1[s].words : \A f \in Shelves!InPile("factual") : w \in s1[f].terms => w \in told
  BY <1>001, <1>002
<1>03. \A w : w \in found <=> \E f \in Shelves!InPile("factual") : w \in Shelves!Matches(f, s)
  BY <1>3, Zenon
<1>6. found \subseteq told
  BY <1>02, <1>03, <1>5
<1>7. ASSUME NEW f \in Shelves!InPile("factual"), s1[f].terms \cap told # {}
      PROVE  s1[f].terms \cap found # {}
  <2>0. PICK v \in s1[f].terms : v \in told
    BY <1>7
  <2>1. v \in s1[f].terms \cap s1[s].words
    BY <1>02, <2>0
  <2>2. PICK w : w \in Shelves!Matches(f, s)
    BY <1>5, <2>1
  <2>3. w \in s1[f].terms /\ w \in found
    BY <1>03, <1>5, <2>2
  <2>4. QED
    BY <2>3
<1>8. told # {} => found # {}
  <2>1. SUFFICES ASSUME NEW w \in told PROVE found # {}
    OBVIOUS
  <2>2. PICK f \in Shelves!InPile("factual") : w \in s1[f].terms
    BY <1>02
  <2>3. QED
    BY <1>7, <2>2
<1>9. QED
  BY <1>2, <1>3, <1>4, <1>6, <1>7, <1>8 DEF Shelves!Told, Shelves!Found

LEMMA AllLinked ==
  ASSUME Shelves!TypeOK, Shelves!LinkedSoFar, s2 = {}
  PROVE  /\ DOMAIN s3 = Shelves!Mentioning
         /\ \A s \in DOMAIN s3 :
              /\ s3[s] = Shelves!Found(s)
              /\ s3[s] \subseteq Shelves!Told(s)
              /\ \A f \in Shelves!InPile("factual") :
                   s1[f].terms \cap Shelves!Told(s) # {} => s1[f].terms \cap s3[s] # {}
<1>1. DOMAIN s3 \subseteq Shelved \ (Shelves!InPile("factual") \cup Shelves!InPile("discarded"))
  BY DEF Shelves!TypeOK, Shelves!LinkedSoFar
<1>2. QED
  BY <1>1, LinkedWhenLooked DEF Shelves!Mentioning

\* The promise of the listing, of what is listed, of what there is, and of what each says.
IsSourceList(list, mention, facts, held, told, found) ==
  /\ DOMAIN list \subseteq mention
  /\ IF Cardinality(mention) <= SourceLimit THEN DOMAIN list = mention
     ELSE /\ Cardinality(DOMAIN list) = SourceLimit
          /\ \A s \in DOMAIN list, t \in mention \ DOMAIN list : ~(Cardinality(found[t]) > Cardinality(found[s]))
  /\ \A s \in DOMAIN list :
       /\ list[s] \subseteq told[s]
       /\ \A f \in facts : held[f].terms \cap told[s] # {} => held[f].terms \cap list[s] # {}

AllTold == [s \in Shelved |-> Shelves!Told(s)]
AllFound == [s \in Shelved |-> Shelves!Found(s)]

ShelfListing == s6 # None => IsSourceList(s6, Shelves!Mentioning, Shelves!InPile("factual"), s1, AllTold, AllFound)

LEMMA ListingIs == Shelves!SourcesLinked <=> ShelfListing
<1>1. \A S : Shelves!Cardinality(S) = Cardinality(S)
  BY DEF Shelves!Cardinality, Cardinality
<1>2. Shelves!Mentioning \subseteq Shelved
  BY DEF Shelves!Mentioning
<1>3. \A s \in Shelved : AllTold[s] = Shelves!Told(s) /\ AllFound[s] = Shelves!Found(s)
  BY DEF AllTold, AllFound
<1>4. ASSUME s6 # None
      PROVE  Shelves!SourcesLinked <=>
               IsSourceList(s6, Shelves!Mentioning, Shelves!InPile("factual"), s1, AllTold, AllFound)
  <2>1. CASE ~(DOMAIN s6 \subseteq Shelves!Mentioning)
    BY <1>4, <2>1 DEF Shelves!SourcesLinked, IsSourceList
  <2>2. CASE DOMAIN s6 \subseteq Shelves!Mentioning
    <3>1. \A s \in DOMAIN s6 : AllTold[s] = Shelves!Told(s) /\ AllFound[s] = Shelves!Found(s)
      BY <1>2, <1>3, <2>2
    <3>2. \A t \in Shelves!Mentioning : AllFound[t] = Shelves!Found(t)
      BY <1>2, <1>3
    <3>3. QED
      BY <1>1, <1>4, <2>2, <3>1, <3>2 DEF Shelves!SourcesLinked, IsSourceList
  <2>3. QED
    BY <2>1, <2>2
<1>5. QED
  BY <1>4 DEF Shelves!SourcesLinked, ShelfListing

\* What the view has listed stays true while the conversations do not change.
LEMMA AllStays ==
  ASSUME s1' = s1
  PROVE  /\ AllTold' = AllTold /\ AllFound' = AllFound /\ Shelves!Mentioning' = Shelves!Mentioning
         /\ Shelves!InPile("factual")' = Shelves!InPile("factual")
BY FoundStays, MatchesStay DEF AllTold, AllFound

LEMMA SourcesStay ==
  ASSUME Shelves!SourcesLinked, UNCHANGED <<s1, s6>>
  PROVE  Shelves!SourcesLinked'
<1>1. ShelfListing' <=> ShelfListing
  BY AllStays DEF ShelfListing
<1>2. (Shelves!SourcesLinked <=> ShelfListing)'
  BY ListingIs, PTL
<1>3. QED
  BY <1>1, <1>2, ListingIs

LEMMA ShelfStart == Shelves!Init => Shelves!ViewsInv
<1> SUFFICES ASSUME Shelves!Init PROVE Shelves!ViewsInv
  OBVIOUS
<1>1. Shelves!TypeOK
  BY DEF Shelves!Init, Shelves!TypeOK, Shelves!InPile
<1>2. Shelves!LinkedSoFar
  BY DEF Shelves!Init, Shelves!LinkedSoFar
<1>3. Shelves!IdeasJoined /\ Shelves!SourcesLinked
  BY DEF Shelves!Init, Shelves!IdeasJoined, Shelves!SourcesLinked
<1>4. QED
  BY <1>1, <1>2, <1>3 DEF Shelves!ViewsInv

\* What has been said of the ideas stays true while they do.
LEMMA IdeasStay ==
  ASSUME Shelves!IdeasJoined, UNCHANGED <<s1, s4>>
  PROVE  Shelves!IdeasJoined'
BY DEF Shelves!IdeasJoined, Shelves!InPile, Shelves!Cardinality

LEMMA LinkFactHolds == ASSUME Shelves!ViewsInv, Shelves!LinkFact PROVE Shelves!ViewsInv'
<1>1. /\ s1 \in [Shelved -> Holdings] /\ s2 \subseteq Shelves!InPile("factual") /\ s2 # {}
      /\ DOMAIN s3 \subseteq Shelved \ Shelves!InPile("factual") /\ UNCHANGED <<s1, s4, s6>>
  BY DEF Shelves!ViewsInv, Shelves!TypeOK, Shelves!LinkFact
<1>2. PICK fact : fact = Shelves!Min(s2)
  OBVIOUS
<1>3. fact \in s2
  <2>1. s2 \in SUBSET Nat
    BY <1>1, ViewsAssumption DEF Shelves!InPile
  <2>2. \E x \in s2 : \A y \in s2 : x <= y
    BY <1>1, <2>1, LeastNat
  <2>3. QED
    BY <1>2, <2>2, Zenon DEF Shelves!Min
<1>4. PICK links : links = Shelves!FactualLinks(fact)
  OBVIOUS
<1>5. s2' = s2 \ {fact}
  BY <1>2 DEF Shelves!LinkFact
<1>6. s3' = [s \in DOMAIN s3 \cup links |->
               IF s \in links THEN (IF s \in DOMAIN s3 THEN s3[s] ELSE {}) \cup Shelves!Matches(fact, s)
               ELSE IF s \in DOMAIN s3 THEN s3[s] ELSE {}]
  BY <1>2, <1>4 DEF Shelves!LinkFact, Shelves!Merged
<1>7. \A s \in Shelved \ (Shelves!InPile("factual") \cup Shelves!InPile("discarded")) :
        s \in links <=> Shelves!Matches(fact, s) # {}
  BY <1>4 DEF Shelves!FactualLinks, Shelves!InPile
<1>8. links \subseteq Shelved /\ links \cap Shelves!InPile("factual") = {} /\ links \cap Shelves!InPile("discarded") = {}
  BY <1>4 DEF Shelves!FactualLinks, Shelves!InPile
<1>9. Shelves!TypeOK'
  BY <1>1, <1>5, <1>6, <1>8, MatchesStay DEF Shelves!ViewsInv, Shelves!TypeOK
<1>10. Shelves!LinkedSoFar'
  <2>1. DOMAIN s3' \cap Shelves!InPile("discarded") = {}
    BY <1>6, <1>8 DEF Shelves!ViewsInv, Shelves!LinkedSoFar
  <2>2. ASSUME NEW s \in Shelved \ (Shelves!InPile("factual") \cup Shelves!InPile("discarded")),
               NEW found, found = UNION {Shelves!Matches(f, s) : f \in Shelves!InPile("factual") \ s2'}
        PROVE  (s \in DOMAIN s3' <=> found # {}) /\ (s \in DOMAIN s3' => s3'[s] = found)
    <3>1. PICK before : before = UNION {Shelves!Matches(f, s) : f \in Shelves!InPile("factual") \ s2}
      OBVIOUS
    <3>2. (s \in DOMAIN s3 <=> before # {}) /\ (s \in DOMAIN s3 => s3[s] = before)
      BY <3>1 DEF Shelves!ViewsInv, Shelves!LinkedSoFar
    <3>3. found = before \cup Shelves!Matches(fact, s)
      BY <1>1, <1>3, <1>5, <2>2, <3>1
    <3>4. s \in links <=> Shelves!Matches(fact, s) # {}
      BY <1>7
    <3>5. QED
      BY <1>6, <3>2, <3>3, <3>4
  <2>3. \A s : UNION {Shelves!Matches(f, s)' : f \in Shelves!InPile("factual") \ s2'}
              = UNION {Shelves!Matches(f, s) : f \in Shelves!InPile("factual") \ s2'}
    BY <1>1, MatchesStay
  <2>4. /\ Shelves!InPile("factual")' = Shelves!InPile("factual")
        /\ Shelves!InPile("discarded")' = Shelves!InPile("discarded")
    BY <1>1, MatchesStay
  <2>5. \A s \in Shelved \ (Shelves!InPile("factual") \cup Shelves!InPile("discarded")) :
          LET found == UNION {Shelves!Matches(f, s)' : f \in Shelves!InPile("factual") \ s2'}
          IN (s \in DOMAIN s3' <=> found # {}) /\ (s \in DOMAIN s3' => s3'[s] = found)
    <3>1. TAKE s \in Shelved \ (Shelves!InPile("factual") \cup Shelves!InPile("discarded"))
    <3>2. PICK found : found = UNION {Shelves!Matches(f, s) : f \in Shelves!InPile("factual") \ s2'}
      OBVIOUS
    <3>3. (s \in DOMAIN s3' <=> found # {}) /\ (s \in DOMAIN s3' => s3'[s] = found)
      BY <2>2, <3>2
    <3>4. QED
      BY <2>3, <3>2, <3>3
  <2>6. QED
    BY <2>1, <2>4, <2>5 DEF Shelves!LinkedSoFar
<1>11. Shelves!IdeasJoined'
  BY <1>1, IdeasStay DEF Shelves!ViewsInv
<1>12. Shelves!SourcesLinked'
  BY <1>1, SourcesStay DEF Shelves!ViewsInv
<1>13. QED
  BY <1>9, <1>10, <1>11, <1>12 DEF Shelves!ViewsInv

LEMMA ListSourcesHolds == ASSUME Shelves!ViewsInv, Shelves!ListSources PROVE Shelves!ViewsInv'
<1>1. UNCHANGED <<s1, s2, s3, s4, s5>> /\ s2 = {}
  BY DEF Shelves!ListSources
<1>2. PICK S \in SUBSET DOMAIN s3 :
        /\ IF Shelves!Cardinality(DOMAIN s3) <= SourceLimit
           THEN S = DOMAIN s3 ELSE Shelves!Cardinality(S) = SourceLimit
        /\ \A s \in S, t \in DOMAIN s3 \ S : ~Shelves!SourceBefore(t, s)
        /\ s6' = [s \in S |-> s3[s]]
  BY DEF Shelves!ListSources
<1>3. /\ DOMAIN s3 = Shelves!Mentioning
      /\ \A s \in DOMAIN s3 :
           /\ s3[s] = Shelves!Found(s)
           /\ s3[s] \subseteq Shelves!Told(s)
           /\ \A f \in Shelves!InPile("factual") :
                s1[f].terms \cap Shelves!Told(s) # {} => s1[f].terms \cap s3[s] # {}
  BY <1>1, AllLinked DEF Shelves!ViewsInv
<1>4. \A s \in S, t \in DOMAIN s3 \ S : ~(Shelves!Cardinality(Shelves!Found(t)) > Shelves!Cardinality(Shelves!Found(s)))
  <2>1. TAKE s \in S, t \in DOMAIN s3 \ S
  <2>2. s \in DOMAIN s3 /\ t \in DOMAIN s3
    BY <1>2
  <2>3. s3[s] = Shelves!Found(s) /\ s3[t] = Shelves!Found(t)
    BY <1>3, <2>2
  <2>4. ~(Shelves!Cardinality(s3[t]) > Shelves!Cardinality(s3[s]))
    BY <1>2, <2>1 DEF Shelves!SourceBefore, Shelves!Terms
  <2>5. QED
    BY <2>3, <2>4
<1>5. PICK all : all = Shelves!Mentioning
  OBVIOUS
<1>6. DOMAIN s6' = S /\ \A s \in S : s6'[s] = s3[s]
  BY <1>2
<1>7. Shelves!SourcesLinked'
  <2>1. \A T : Shelves!Cardinality(T) = Cardinality(T)
    BY DEF Shelves!Cardinality, Cardinality
  <2>2. all \subseteq Shelved
    BY <1>5 DEF Shelves!Mentioning
  <2>3. \A s \in all : AllTold[s] = Shelves!Told(s) /\ AllFound[s] = Shelves!Found(s)
    BY <2>2 DEF AllTold, AllFound
  <2>4. IsSourceList(s6', all, Shelves!InPile("factual"), s1, AllTold, AllFound)
    <3>1. S \subseteq all /\ DOMAIN s6' = S
      BY <1>2, <1>3, <1>5, <1>6
    <3>2. IF Cardinality(all) <= SourceLimit THEN S = all ELSE Cardinality(S) = SourceLimit
      BY <1>2, <1>3, <1>5, <2>1
    <3>3. \A s \in S, t \in all \ S : ~(Cardinality(AllFound[t]) > Cardinality(AllFound[s]))
      BY <1>3, <1>4, <1>5, <2>1, <2>3, <3>1
    <3>4. ASSUME NEW s \in S
          PROVE  /\ s6'[s] \subseteq AllTold[s]
                 /\ \A f \in Shelves!InPile("factual") :
                      s1[f].terms \cap AllTold[s] # {} => s1[f].terms \cap s6'[s] # {}
      <4>1. s \in DOMAIN s3 /\ s6'[s] = s3[s] /\ AllTold[s] = Shelves!Told(s)
        BY <1>2, <1>6, <2>3, <3>1
      <4>2. QED
        BY <1>3, <4>1
    <3>5. QED
      BY <3>1, <3>2, <3>3, <3>4 DEF IsSourceList
  <2>5. ShelfListing'
    BY <1>1, <1>5, <2>4, AllStays DEF ShelfListing
  <2>6. (Shelves!SourcesLinked <=> ShelfListing)'
    BY ListingIs, PTL
  <2>7. QED
    BY <2>5, <2>6
<1>8. Shelves!TypeOK' /\ Shelves!LinkedSoFar'
  BY <1>1, MatchesStay DEF Shelves!ViewsInv, Shelves!TypeOK, Shelves!LinkedSoFar
<1>9. QED
  BY <1>1, <1>7, <1>8, IdeasStay DEF Shelves!ViewsInv

LEMMA ViewJournalHolds == ASSUME Shelves!ViewsInv, Shelves!ViewJournal PROVE Shelves!ViewsInv'
<1>1. UNCHANGED <<s1, s2, s3, s4, s6>>
  BY DEF Shelves!ViewJournal
<1>2. Shelves!TypeOK' /\ Shelves!LinkedSoFar' /\ Shelves!SourcesLinked'
  BY <1>1, MatchesStay, SourcesStay DEF Shelves!ViewsInv, Shelves!TypeOK, Shelves!LinkedSoFar
<1>3. QED
  BY <1>1, <1>2, IdeasStay DEF Shelves!ViewsInv

\* What a text speaks of is an idea, and not the one that says it.
LEMMA TargetIsOther ==
  ASSUME s1 \in [Shelved -> Holdings], NEW words, NEW source, Shelves!BestIdeaTarget(words, source) # None
  PROVE  Shelves!BestIdeaTarget(words, source) \in Shelves!OtherIdeas(source)
<1>1. PICK fit : fit = {c \in Shelves!OtherIdeas(source) : words # {} /\ Shelves!Likeness(words, c) > 0}
  OBVIOUS
<1>2. fit \subseteq Shelves!OtherIdeas(source) /\ fit \subseteq Shelved /\ fit \subseteq Nat /\ IsFiniteSet(fit)
  <2>1. fit \subseteq Shelves!OtherIdeas(source) /\ fit \subseteq Shelved
    BY <1>1 DEF Shelves!OtherIdeas, Shelves!InPile
  <2>2. QED
    BY <2>1, ViewsAssumption, FS_Subset
<1>3. \A c \in fit : Shelves!Likeness(words, c) \in Nat
  <2>1. TAKE c \in fit
  <2>2. IsFiniteSet(words \cap s1[c].words)
    <3>1. IsFiniteSet(s1[c].words)
      BY <1>2, ViewsAssumption
    <3>2. QED
      BY <3>1, FS_Subset
  <2>3. Cardinality(words \cap s1[c].words) \in Nat
    BY <2>2, FS_CardinalityType
  <2>4. QED
    BY <2>3 DEF Shelves!Likeness, Shelves!Cardinality, Cardinality
<1>4. PICK R : R = {p \in fit \X fit :
                      \/ Shelves!Likeness(words, p[1]) > Shelves!Likeness(words, p[2])
                      \/ (Shelves!Likeness(words, p[1]) = Shelves!Likeness(words, p[2]) /\ p[1] > p[2])}
  OBVIOUS
<1>5. \A x, y \in fit : <<x, y>> \in R <=>
        \/ Shelves!Likeness(words, x) > Shelves!Likeness(words, y)
        \/ (Shelves!Likeness(words, x) = Shelves!Likeness(words, y) /\ x > y)
  BY <1>4
<1>6. IsOrder(R, fit)
  BY <1>2, <1>3, <1>5 DEF IsOrder
<1>7. fit # {}
  BY <1>1 DEF Shelves!BestIdeaTarget
<1>8. PICK x \in fit : \A y \in fit : x = y \/ <<x, y>> \in R
  BY <1>2, <1>6, <1>7, FirstOne
<1>9. \A y \in fit : \/ Shelves!Likeness(words, x) > Shelves!Likeness(words, y)
                     \/ (Shelves!Likeness(words, x) = Shelves!Likeness(words, y) /\ x >= y)
  <2>1. TAKE y \in fit
  <2>2. CASE x = y
    BY <1>2, <2>2
  <2>3. CASE <<x, y>> \in R
    BY <1>2, <1>5, <2>3
  <2>4. QED
    BY <1>8, <2>2, <2>3
<1>10. PICK target : target = CHOOSE c \in fit : \A y \in fit :
                       \/ Shelves!Likeness(words, c) > Shelves!Likeness(words, y)
                       \/ (Shelves!Likeness(words, c) = Shelves!Likeness(words, y) /\ c >= y)
  OBVIOUS
<1>11. target \in fit
  BY <1>9, <1>10, Zenon
<1>12. Shelves!BestIdeaTarget(words, source) = target
  BY <1>1, <1>7, <1>10 DEF Shelves!BestIdeaTarget
<1>13. QED
  BY <1>2, <1>11, <1>12

LEMMA ThreadEdgesAre ==
  ASSUME NEW c \in Shelves!InPile("ideas"), \E d \in Shelves!Mates(c) : d > c
  PROVE  \E p \in Shelves!Mates(c) : /\ p > c /\ \A q \in Shelves!Mates(c) : q > c => p <= q
                             /\ p = Shelves!Min({q \in Shelves!Mates(c) : q > c})
<1>1. PICK later : later = {q \in Shelves!Mates(c) : q > c}
  OBVIOUS
<1>2. later \in SUBSET Nat /\ later # {}
  BY <1>1, ViewsAssumption DEF Shelves!Mates, Shelves!InPile
<1>3. \E p \in later : \A q \in later : p <= q
  BY <1>2, LeastNat
<1>4. PICK p : p = Shelves!Min(later)
  OBVIOUS
<1>5. p \in later /\ \A q \in later : p <= q
  BY <1>3, <1>4, Zenon DEF Shelves!Min
<1>6. QED
  BY <1>1, <1>4, <1>5

LEMMA EdgesAre ==
  ASSUME s1 \in [Shelved -> Holdings], NEW e \in Shelves!ThreadEdges \cup Shelves!RelationEdges
  PROVE  /\ e \in [source : Shelved, target : Shelved, relation : {"builds_on", "validates", "counters"}]
         /\ e.source # e.target
<1>1. CASE e \in Shelves!ThreadEdges
  <2>1. PICK c \in Shelves!InPile("ideas") :
          /\ \E d \in Shelves!Mates(c) : d > c
          /\ e = Shelves!Idea(Shelves!Min({q \in Shelves!Mates(c) : q > c}), c, "builds_on")
    BY <1>1 DEF Shelves!ThreadEdges, Shelves!Mates
  <2>2. PICK p \in Shelves!Mates(c) : p > c /\ e = Shelves!Idea(p, c, "builds_on")
    BY <2>1, ThreadEdgesAre
  <2>3. p \in Shelved /\ c \in Shelved /\ p # c
    <3>1. p \in Shelved /\ c \in Shelved
      BY <2>2 DEF Shelves!Mates, Shelves!InPile
    <3>2. QED
      BY <2>2, <3>1, ViewsAssumption
  <2>4. QED
    BY <2>2, <2>3 DEF Shelves!Idea
<1>2. CASE e \in Shelves!RelationEdges
  <2>1. PICK c \in Shelves!InPile("ideas") : \E claim \in s1[c].relations :
          LET aim == Shelves!BestIdeaTarget(claim.words, c) IN
          /\ aim # None
          /\ e = IF claim.relation = "builds_on" THEN Shelves!Idea(aim, c, "builds_on")
                 ELSE Shelves!Idea(c, aim, claim.relation)
    <3>1. PICK claims : claims = UNION {{c} \X s1[c].relations : c \in Shelves!InPile("ideas")}
      OBVIOUS
    <3>2. PICK k \in claims :
            /\ Shelves!BestIdeaTarget(k[2].words, k[1]) # None
            /\ e = IF k[2].relation = "builds_on"
                   THEN Shelves!Idea(Shelves!BestIdeaTarget(k[2].words, k[1]), k[1], "builds_on")
                   ELSE Shelves!Idea(k[1], Shelves!BestIdeaTarget(k[2].words, k[1]), k[2].relation)
      BY <1>2, <3>1 DEF Shelves!RelationEdges
    <3>3. PICK c \in Shelves!InPile("ideas") : k \in {c} \X s1[c].relations
      BY <3>1
    <3>4. k[1] = c /\ k[2] \in s1[c].relations
      BY <3>3
    <3>5. QED
      BY <3>2, <3>4
  <2>01. PICK claim \in s1[c].relations :
          LET aim == Shelves!BestIdeaTarget(claim.words, c) IN
          /\ aim # None
          /\ e = IF claim.relation = "builds_on" THEN Shelves!Idea(aim, c, "builds_on")
                 ELSE Shelves!Idea(c, aim, claim.relation)
    BY <2>1
  <2>02. PICK aim : aim = Shelves!BestIdeaTarget(claim.words, c)
    OBVIOUS
  <2>2. aim \in Shelves!OtherIdeas(c)
    BY <2>01, <2>02, TargetIsOther
  <2>3. aim \in Shelved /\ aim # c /\ c \in Shelved
    BY <2>2 DEF Shelves!OtherIdeas, Shelves!InPile
  <2>4. claim.relation \in {"builds_on", "validates", "counters"}
    BY <2>3, ViewsAssumption
  <2>5. QED
    BY <2>01, <2>02, <2>3, <2>4 DEF Shelves!Idea
<1>3. QED
  BY <1>1, <1>2


LEMMA ViewIdeasHolds == ASSUME Shelves!ViewsInv, Shelves!ViewIdeas PROVE Shelves!ViewsInv'
<1>1. UNCHANGED <<s1, s2, s3, s5, s6>> /\ s1 \in [Shelved -> Holdings]
  BY DEF Shelves!ViewIdeas, Shelves!ViewsInv, Shelves!TypeOK
<1>2. PICK edges : edges = Shelves!ThreadEdges \cup Shelves!RelationEdges
  OBVIOUS
<1>3. s4'.edges = edges
  BY <1>2 DEF Shelves!ViewIdeas
<1>4. \A e \in edges : /\ e \in [source : Shelved, target : Shelved, relation : {"builds_on", "validates", "counters"}]
                        /\ e.source # e.target
  BY <1>1, <1>2, EdgesAre
<1>5. \A g \in s4'.projects : \A c \in g.sessions :
        g = [label |-> Shelves!ProjectOf(c).label,
             sessions |-> {d \in Shelves!InPile("ideas") : Shelves!ProjectOf(d).label = Shelves!ProjectOf(c).label}]
  <2>1. TAKE g \in s4'.projects
  <2>2. PICK rows : rows = {<<Shelves!ProjectOf(c).label, c>> : c \in Shelves!InPile("ideas")}
    OBVIOUS
  <2>3. \E l : g = [label |-> l, sessions |-> {r[2] : r \in {q \in rows : q[1] = l}}]
    BY <2>2 DEF Shelves!ViewIdeas, Shelves!GroupsBy, Shelves!First
  <2>4. PICK l : g = [label |-> l, sessions |-> {r[2] : r \in {q \in rows : q[1] = l}}]
    BY <2>3
  <2>5. {r[2] : r \in {q \in rows : q[1] = l}} = {d \in Shelves!InPile("ideas") : Shelves!ProjectOf(d).label = l}
    <3>1. \A d \in Shelves!InPile("ideas") : Shelves!ProjectOf(d).label = l =>
            <<l, d>> \in {q \in rows : q[1] = l} /\ <<l, d>>[2] = d
      BY <2>2
    <3>2. \A q \in rows : q[2] \in Shelves!InPile("ideas") /\ q[1] = Shelves!ProjectOf(q[2]).label
      BY <2>2
    <3>3. ASSUME NEW d \in {r[2] : r \in {q \in rows : q[1] = l}}
          PROVE  d \in {x \in Shelves!InPile("ideas") : Shelves!ProjectOf(x).label = l}
      <4>1. PICK q \in rows : q[1] = l /\ d = q[2]
        BY <3>3
      <4>2. QED
        BY <3>2, <4>1
    <3>4. ASSUME NEW d \in {x \in Shelves!InPile("ideas") : Shelves!ProjectOf(x).label = l}
          PROVE  d \in {r[2] : r \in {q \in rows : q[1] = l}}
      BY <3>1, <3>4, Zenon
    <3>5. QED
      BY <3>3, <3>4
  <2>6. QED
    BY <2>4, <2>5
<1>6. ASSUME NEW c \in Shelves!InPile("ideas"), NEW d \in Shelves!Mates(c), c > d,
             NEW S \in SUBSET Shelved, c \in S,
             \A e \in edges : e.relation = "builds_on" /\ e.source \in S => e.target \in S
      PROVE  d \in S
  <2>1. SUFFICES ASSUME d \notin S PROVE FALSE
    OBVIOUS
  <2>2. PICK missed : missed = {q \in Shelves!Mates(c) : q < c /\ q \notin S}
    OBVIOUS
  <2>3. missed \in SUBSET Nat /\ IsFiniteSet(missed) /\ d \in missed /\ c \in Nat
    <3>1. missed \subseteq Shelved /\ c \in Shelved
      BY <2>2 DEF Shelves!Mates, Shelves!InPile
    <3>2. d \in missed
      BY <1>6, <2>1, <2>2, <3>1, ViewsAssumption DEF Shelves!Mates, Shelves!InPile
    <3>3. QED
      BY <3>1, <3>2, ViewsAssumption, FS_Subset
  <2>4. PICK t \in missed : \A q \in missed : t >= q
    BY <2>3, GreatestNat
  <2>5. c \in Shelves!Mates(t) /\ t \in Shelves!InPile("ideas") /\ Shelves!Mates(t) \subseteq Shelves!Mates(c) /\ c > t
    BY <2>2, <2>3, <2>4 DEF Shelves!Mates
  <2>6. PICK p \in Shelves!Mates(t) : /\ p > t /\ \A q \in Shelves!Mates(t) : q > t => p <= q
                              /\ p = Shelves!Min({q \in Shelves!Mates(t) : q > t})
    BY <2>5, ThreadEdgesAre
  <2>7. p <= c /\ p \in Shelves!Mates(c) /\ p \in Nat /\ t \in Nat
    BY <2>3, <2>5, <2>6, ViewsAssumption DEF Shelves!Mates, Shelves!InPile
  <2>8. p \in S
    <3>1. CASE p = c
      BY <1>6, <3>1
    <3>2. CASE p < c /\ p \notin S
      <4>1. p \in missed
        BY <2>2, <2>7, <3>2
      <4>2. QED
        BY <2>4, <2>6, <2>7, <4>1
    <3>3. QED
      BY <2>3, <2>7, <3>1, <3>2
  <2>9. Shelves!Idea(p, t, "builds_on") \in edges
    <3>1. Shelves!Idea(p, t, "builds_on") \in Shelves!ThreadEdges
      BY <2>5, <2>6 DEF Shelves!ThreadEdges, Shelves!Mates
    <3>2. QED
      BY <1>2, <3>1
  <2>10. t \in S
    BY <1>6, <2>8, <2>9 DEF Shelves!Idea
  <2>11. QED
    BY <2>2, <2>4, <2>10
<1>7. Shelves!IdeasJoined'
  <2>1. PICK chain : chain = {<<e.source, e.target>> : e \in {f \in edges : f.relation = "builds_on"}}
    OBVIOUS
  <2>2. PICK projects : projects = s4'.projects
    OBVIOUS
  <2>3. ASSUME NEW c \in Shelves!InPile("ideas"), NEW d \in Shelves!InPile("ideas"),
               c > d, s1[c].thread = s1[d].thread, NEW g \in projects, {c, d} \subseteq g.sessions,
               NEW S \in SUBSET Shelved, c \in S, \A link \in chain : link[1] \in S => link[2] \in S
        PROVE  d \in S
    <3>1. Shelves!ProjectOf(d).label = Shelves!ProjectOf(c).label
      BY <1>5, <2>2, <2>3
    <3>2. d \in Shelves!Mates(c)
      BY <2>3, <3>1 DEF Shelves!Mates
    <3>3. \A e \in edges : e.relation = "builds_on" /\ e.source \in S => e.target \in S
      <4>1. TAKE e \in edges
      <4>2. HAVE e.relation = "builds_on" /\ e.source \in S
      <4>3. PICK link : link = <<e.source, e.target>>
        OBVIOUS
      <4>4. link \in chain /\ link[1] = e.source /\ link[2] = e.target
        BY <2>1, <4>2, <4>3
      <4>5. QED
        BY <2>3, <4>2, <4>4
    <3>4. QED
      BY <1>6, <2>3, <3>2, <3>3
  <2>4. ASSUME NEW c \in Shelves!InPile("ideas")
        PROVE  Cardinality({g \in projects : c \in g.sessions}) <= 1
    <3>1. PICK own : own = [label |-> Shelves!ProjectOf(c).label,
                            sessions |-> {d \in Shelves!InPile("ideas") :
                                            Shelves!ProjectOf(d).label = Shelves!ProjectOf(c).label}]
      OBVIOUS
    <3>2. {g \in projects : c \in g.sessions} \subseteq {own}
      BY <1>5, <2>2, <3>1
    <3>3. IsFiniteSet({own}) /\ Cardinality({own}) = 1
      BY FS_Singleton
    <3>4. QED
      BY <3>2, <3>3, FS_Subset
  <2>5. Shelves!InPile("ideas")' = Shelves!InPile("ideas")
    BY <1>1, MatchesStay
  <2>6. \A c, d \in Shelves!InPile("ideas") :
          c > d /\ s1[c].thread = s1[d].thread /\ (\E g \in projects : {c, d} \subseteq g.sessions) =>
            \A S \in SUBSET Shelved : c \in S /\ (\A link \in chain : link[1] \in S => link[2] \in S) => d \in S
    BY <2>3
  <2>7. \A c \in Shelves!InPile("ideas") : Shelves!Cardinality({g \in projects : c \in g.sessions}) <= 1
    BY <2>4 DEF Shelves!Cardinality, Cardinality
  <2>8. chain = {<<e.source, e.target>> : e \in {f \in s4'.edges : f.relation = "builds_on"}}
    BY <1>3, <2>1
  <2>9. QED
    BY <1>1, <1>3, <1>4, <2>2, <2>5, <2>6, <2>7, <2>8 DEF Shelves!IdeasJoined
<1>8. Shelves!TypeOK'
  BY <1>1, <1>3, <1>4, MatchesStay DEF Shelves!ViewsInv, Shelves!TypeOK
<1>9. Shelves!LinkedSoFar' /\ Shelves!SourcesLinked'
  BY <1>1, MatchesStay, SourcesStay DEF Shelves!ViewsInv, Shelves!LinkedSoFar
<1>10. QED
  BY <1>7, <1>8, <1>9 DEF Shelves!ViewsInv

LEMMA ViewSteps == ASSUME Shelves!ViewsInv, Shelves!Next PROVE Shelves!ViewsInv'
  BY LinkFactHolds, ListSourcesHolds, ViewIdeasHolds, ViewJournalHolds DEF Shelves!Next

LEMMA ViewsStay == ASSUME Shelves!ViewsInv, UNCHANGED <<s1, s2, s3, s4, s5, s6>> PROVE Shelves!ViewsInv'
<1>1. Shelves!TypeOK' /\ Shelves!LinkedSoFar' /\ Shelves!SourcesLinked'
  BY MatchesStay, SourcesStay DEF Shelves!ViewsInv, Shelves!TypeOK, Shelves!LinkedSoFar
<1>2. QED
  BY <1>1, IdeasStay DEF Shelves!ViewsInv

------------------------------------------------------------------------------
(* The to-do list.                                                            *)

\* The places of a stretch of a list follow one another.
LEMMA Consecutive ==
  ASSUME NEW a \in Nat, NEW m \in Nat
  PROVE  Places((a + 1)..(a + m)) = [k \in 1..m |-> a + k]
<1>1. PICK S : S = (a + 1)..(a + m)
  OBVIOUS
<1>2. IsFiniteSet(S) /\ Cardinality(S) = m
  BY <1>1, FS_Interval
<1>3. IsOrder(Upward(S), S)
  BY <1>1, UpwardOrder
<1>4. ASSUME NEW k \in 1..m PROVE a + k \in S /\ Rank(a + k, Upward(S), S) = k - 1
  <2>1. a + k \in S
    BY <1>1
  <2>2. {y \in S : <<y, a + k>> \in Upward(S)} = (a + 1)..(a + k - 1)
    BY <1>1, <2>1 DEF Upward
  <2>3. Cardinality((a + 1)..(a + k - 1)) = k - 1
    BY FS_Interval
  <2>4. QED
    BY <2>1, <2>2, <2>3 DEF Rank
<1>5. ASSUME NEW k \in 1..m PROVE a + k = CHOOSE x \in S : Rank(x, Upward(S), S) = k - 1
  <2>1. PICK x : x = CHOOSE y \in S : Rank(y, Upward(S), S) = k - 1
    OBVIOUS
  <2>2. x \in S /\ Rank(x, Upward(S), S) = k - 1
    BY <1>4, <2>1, Zenon
  <2>3. x = a + k
    BY <1>2, <1>3, <1>4, <2>2, Ranks
  <2>4. QED
    BY <2>1, <2>3
<1>6. Places(S) = [k \in 1..m |-> a + k]
  BY <1>2, <1>5 DEF Places, InOrder
<1>7. QED
  BY <1>1, <1>6

\* What is picked from a list are the elements at those places; all of it is the list.
LEMMA PickedElements ==
  ASSUME NEW X, NEW list \in Seq(X), NEW places \in SUBSET (1..Len(list))
  PROVE  /\ Elements(PickedFrom(list, places)) = {list[i] : i \in places}
         /\ places = 1..Len(list) => PickedFrom(list, places) = list
<1>1. PICK order : order = Places(places)
  OBVIOUS
<1>2. PICK s : s = PickedFrom(list, places)
  OBVIOUS
<1>3. s \in Seq(X) /\ Picks(s, order, list, places)
  BY <1>1, <1>2, PickedList
<1>4. Elements(s) = {list[i] : i \in places}
  <2>1. ASSUME NEW n \in 1..Len(s) PROVE s[n] \in {list[i] : i \in places}
    BY <1>3, ZenonT(40) DEF Picks
  <2>2. ASSUME NEW i \in places PROVE list[i] \in Elements(s)
    BY <1>3 DEF Picks, Elements
  <2>3. QED
    BY <2>1, <2>2 DEF Elements
<1>5. ASSUME places = 1..Len(list) PROVE s = list
  <2>1. Len(list) \in Nat /\ 0 + Len(list) = Len(list)
    OBVIOUS
  <2>2. Places((0 + 1)..(0 + Len(list))) = [k \in 1..Len(list) |-> 0 + k]
    BY <2>1, Consecutive
  <2>3. order = [k \in 1..Len(list) |-> k]
    BY <1>1, <1>5, <2>1, <2>2
  <2>4. Len(s) = Len(list)
    BY <1>3, <1>5, <2>1, UpTo DEF Picks
  <2>5. \A n \in 1..Len(list) : s[n] = list[n]
    BY <1>3, <2>3, <2>4 DEF Picks
  <2>6. QED
    BY <1>3, <2>1, <2>4, <2>5
<1>6. QED
  BY <1>2, <1>4, <1>5

LEMMA SameTodo == \A S : Todo!Cardinality(S) = Cardinality(S)
  BY DEF Todo!Cardinality, Cardinality

LEMMA TodoPicked ==
  /\ \A places : Todo!InTurn(places) = Places(places)
  /\ \A list, places : Todo!Picked(list, places) = PickedFrom(list, places)
  /\ \A s : Todo!ToSet(s) = {s[i] : i \in DOMAIN s}
<1>1. ASSUME NEW places, NEW x \in places
      PROVE  Todo!Cardinality({y \in places : y < x}) = Rank(x, Upward(places), places)
  <2>1. {y \in places : y < x} = {y \in places : <<y, x>> \in Upward(places)}
    BY DEF Upward
  <2>2. QED
    BY <2>1, SameTodo DEF Rank
<1>2. ASSUME NEW places PROVE Todo!InTurn(places) = Places(places)
  BY <1>1, SameTodo DEF Todo!InTurn, Todo!Sorted, Places, InOrder
<1>3. QED
  BY <1>2 DEF Todo!Picked, PickedFrom, Todo!ToSet

Entries == [text : Texts, done : BOOLEAN, deadline : Nat \cup {None}]

\* Every item has a key, and no two have the same.
Clean(list) ==
  /\ \A i \in 1..Len(list) : Todo!Key(list[i]) # <<>>
  /\ \A i, j \in 1..Len(list) : Todo!Key(list[i]) = Todo!Key(list[j]) => i = j

IsSanitized(s, list) ==
  /\ s \in Seq(Entries) /\ Clean(s)
  /\ Todo!Distinct(list) => s = PickedFrom(list, Todo!Keyed(list))
  /\ Clean(list) => s = list

LEMMA SanitizedIs ==
  ASSUME NEW list \in Seq(Entries)
  PROVE  IsSanitized(Todo!Sanitized(list), list)
<1>1. PICK places : places = Todo!Keyed(list)
  OBVIOUS
<1>2. places \in SUBSET (1..Len(list)) /\ DOMAIN list = 1..Len(list) /\ Len(list) \in Nat
  BY <1>1 DEF Todo!Keyed
<1>3. PICK keyed : keyed = PickedFrom(list, places)
  OBVIOUS
<1>4. PICK place : place = Places(places)
  OBVIOUS
<1>5. keyed \in Seq(Entries) /\ Picks(keyed, place, list, places) /\ DOMAIN keyed = 1..Len(keyed) /\ Len(keyed) \in Nat
  BY <1>2, <1>3, <1>4, PickedList
<1>6. \A i \in 1..Len(keyed) : Todo!Key(keyed[i]) # <<>>
  BY <1>1, <1>5 DEF Picks, Todo!Keyed
<1>7. PICK firsts : firsts = Todo!Firsts(keyed)
  OBVIOUS
<1>07. firsts = {i \in DOMAIN keyed : \A j \in 1..(i - 1) : Todo!Key(keyed[j]) # Todo!Key(keyed[i])}
  BY <1>7 DEF Todo!Firsts
<1>8. PICK order : order = Places(firsts)
  OBVIOUS
<1>9. /\ IsListing(order, firsts, Upward(firsts)) /\ Len(order) \in Nat
      /\ DOMAIN order = 1..Len(order) /\ \A n \in 1..Len(order) : order[n] \in firsts /\ order[n] \in 1..Len(keyed)
  <2>1. IsFiniteSet(1..Len(keyed))
    BY FS_Interval, <1>5
  <2>2. firsts \subseteq 1..Len(keyed)
    BY <1>5, <1>07
  <2>02. firsts \in SUBSET Int
    BY <1>5, <2>2
  <2>03. IsOrder(Upward(firsts), firsts)
    BY <2>02, UpwardOrder
  <2>3. IsFiniteSet(firsts) /\ IsOrder(Upward(firsts), firsts)
    BY <2>1, <2>2, <2>03, FS_Subset
  <2>4. IsListing(order, firsts, Upward(firsts))
    BY <1>8, <2>3, Listed DEF Places
  <2>5. order \in Seq(firsts)
    BY <2>4 DEF IsListing
  <2>6. Len(order) \in Nat /\ DOMAIN order = 1..Len(order) /\ \A n \in 1..Len(order) : order[n] \in firsts
    BY <2>5
  <2>7. QED
    BY <2>2, <2>4, <2>6
<1>10. PICK final : final = [i \in DOMAIN keyed |-> Todo!LastLike(keyed, i)]
  OBVIOUS
<1>11. ASSUME NEW i \in 1..Len(keyed)
       PROVE  final[i] \in 1..Len(keyed) /\ Todo!Key(keyed[final[i]]) = Todo!Key(keyed[i])
  <2>1. PICK same : same = {j \in 1..Len(keyed) : Todo!Key(keyed[j]) = Todo!Key(keyed[i])}
    OBVIOUS
  <2>2. same \in SUBSET Nat /\ IsFiniteSet(same) /\ i \in same
    <3>1. same \subseteq 1..Len(keyed) /\ i \in same
      BY <2>1
    <3>2. IsFiniteSet(1..Len(keyed))
      BY <1>5, FS_Interval
    <3>3. IsFiniteSet(same)
      BY <3>1, <3>2, FS_Subset
    <3>4. QED
      BY <1>5, <3>1, <3>3
  <2>3. PICK j \in same : \A k \in same : j >= k
    BY <2>2, GreatestNat
  <2>4. /\ j \in DOMAIN keyed /\ Todo!Key(keyed[j]) = Todo!Key(keyed[i])
        /\ \A k \in (j + 1)..Len(keyed) : Todo!Key(keyed[k]) # Todo!Key(keyed[i])
    <3>1. ASSUME NEW k \in (j + 1)..Len(keyed), Todo!Key(keyed[k]) = Todo!Key(keyed[i]) PROVE FALSE
      <4>1. k \in same /\ ~(j >= k)
        BY <2>1, <2>2, <3>1
      <4>2. QED
        BY <2>3, <4>1
    <3>2. QED
      BY <1>5, <2>1, <3>1
  <2>5. final[i] = CHOOSE n \in DOMAIN keyed :
                     /\ Todo!Key(keyed[n]) = Todo!Key(keyed[i])
                     /\ \A k \in (n + 1)..Len(keyed) : Todo!Key(keyed[k]) # Todo!Key(keyed[i])
    BY <1>5, <1>10 DEF Todo!LastLike
  <2>6. final[i] \in DOMAIN keyed /\ Todo!Key(keyed[final[i]]) = Todo!Key(keyed[i])
    BY <2>4, <2>5, Zenon
  <2>7. QED
    BY <1>5, <2>6
<1>12. PICK s : s = [n \in DOMAIN order |-> keyed[final[order[n]]]]
  OBVIOUS
<1>13. Todo!Sanitized(list) = s
  <2>1. \A n \in DOMAIN order : final[order[n]] = Todo!LastLike(keyed, order[n])
    BY <1>5, <1>9, <1>10
  <2>2. Todo!Picked(list, Todo!Keyed(list)) = keyed /\ Todo!InTurn(firsts) = order
    BY <1>1, <1>3, <1>8, TodoPicked
  <2>3. QED
    BY <1>7, <1>12, <2>1, <2>2 DEF Todo!Sanitized
<1>14. /\ s \in Seq(Entries) /\ Len(s) = Len(order)
       /\ \A n \in 1..Len(order) : Todo!Key(s[n]) = Todo!Key(keyed[order[n]]) /\ s[n] = keyed[final[order[n]]]
  <2>1. \A n \in 1..Len(order) : s[n] = keyed[final[order[n]]] /\ final[order[n]] \in 1..Len(keyed)
    BY <1>9, <1>11, <1>12
  <2>2. \A n \in 1..Len(order) : s[n] \in Entries
    BY <1>5, <2>1
  <2>3. s \in Seq(Entries) /\ Len(s) = Len(order)
    BY <1>9, <1>12, <2>2
  <2>4. QED
    BY <1>9, <1>11, <2>1, <2>3
<1>15. Clean(s)
  <2>1. \A n \in 1..Len(s) : Todo!Key(s[n]) # <<>>
    BY <1>6, <1>9, <1>14
  <2>2. ASSUME NEW n \in 1..Len(s), NEW m \in 1..Len(s), Todo!Key(s[n]) = Todo!Key(s[m]) PROVE n = m
    <3>1. /\ order[n] \in firsts /\ order[m] \in firsts /\ order[n] \in 1..Len(keyed) /\ order[m] \in 1..Len(keyed)
          /\ Todo!Key(keyed[order[n]]) = Todo!Key(keyed[order[m]])
      BY <1>9, <1>14, <2>2
    <3>02. \A i \in firsts, j \in 1..Len(keyed) : j < i => Todo!Key(keyed[j]) # Todo!Key(keyed[i])
      BY <1>5, <1>07
    <3>2. ~(order[n] < order[m])
      BY <3>1, <3>02
    <3>3. ~(order[m] < order[n])
      BY <3>1, <3>02
    <3>4. order[n] = order[m]
      BY <1>5, <3>1, <3>2, <3>3
    <3>5. QED
      BY <1>9, <1>14, <3>4 DEF IsListing
  <2>3. QED
    BY <2>1, <2>2 DEF Clean
<1>16. ASSUME Todo!Distinct(list) PROVE s = keyed
  <2>1. \A i, j \in 1..Len(keyed) : Todo!Key(keyed[i]) = Todo!Key(keyed[j]) => i = j
    <3>1. TAKE i, j \in 1..Len(keyed)
    <3>2. /\ place[i] \in places /\ place[j] \in places /\ keyed[i] = list[place[i]] /\ keyed[j] = list[place[j]]
          /\ place[i] = place[j] => i = j
      BY <1>5 DEF Picks
    <3>3. QED
      BY <1>1, <1>16, <3>2 DEF Todo!Distinct
  <2>2. firsts = 1..Len(keyed)
    BY <1>5, <1>07, <2>1
  <2>3. order = [k \in 1..Len(keyed) |-> k]
    <3>1. 0 + Len(keyed) = Len(keyed)
      BY <1>5
    <3>2. Places((0 + 1)..(0 + Len(keyed))) = [k \in 1..Len(keyed) |-> 0 + k]
      BY <1>5, Consecutive
    <3>3. QED
      BY <1>5, <1>8, <2>2, <3>1, <3>2
  <2>4. Len(order) = Len(keyed)
    BY <1>5, <1>9, <2>2, UpTo DEF IsListing
  <2>5. \A n \in 1..Len(keyed) : s[n] = keyed[n]
    <3>1. TAKE n \in 1..Len(keyed)
    <3>2. order[n] = n
      BY <2>3
    <3>3. s[n] = keyed[final[n]] /\ final[n] \in 1..Len(keyed) /\ Todo!Key(keyed[final[n]]) = Todo!Key(keyed[n])
      BY <1>11, <1>14, <2>4, <3>2
    <3>4. final[n] = n
      BY <2>1, <3>3
    <3>5. QED
      BY <3>3, <3>4
  <2>6. QED
    BY <1>5, <1>14, <2>4, <2>5
<1>17. ASSUME Clean(list) PROVE s = list
  <2>1. Todo!Distinct(list) /\ places = 1..Len(list)
    BY <1>1, <1>2, <1>17 DEF Clean, Todo!Distinct, Todo!Keyed
  <2>2. keyed = list
    BY <1>2, <1>3, <2>1, PickedElements
  <2>3. QED
    BY <1>16, <2>1, <2>2
<1>18. IsSanitized(s, list)
  BY <1>1, <1>3, <1>14, <1>15, <1>16, <1>17 DEF IsSanitized
<1>19. QED
  BY <1>13, <1>18

Listing(S) == {p \in S \X S : Todo!ListedBefore(p[1], p[2])}

\* The order of the list is one of all items that are not done.
LEMMA ListedItems ==
  ASSUME NEW S, IsFiniteSet(S), S \subseteq Entries, \A x \in S : ~x.done
  PROVE  IsListing(Todo!InListing(S), S, Listing(S))
<1>1. \A x \in S : /\ x.text \in Texts /\ x.text.rank \in Nat /\ x.deadline \in Nat \cup {None}
                   /\ x = [text |-> x.text, done |-> FALSE, deadline |-> x.deadline]
  BY TodoAssumption DEF Entries
<1>2. \A x, y \in S : <<x, y>> \in Listing(S) <=> Todo!ListedBefore(x, y)
  BY DEF Listing
<1>3. \A x, y \in S : x.text.rank = y.text.rank /\ x.deadline = y.deadline => x = y
  BY <1>1, TodoAssumption
<1>4. IsOrder(Listing(S), S)
  <2>1. \A x \in S : ~Todo!ListedBefore(x, x)
    BY <1>1, TodoAssumption DEF Todo!ListedBefore
  <2>2. \A x, y, z \in S : Todo!ListedBefore(x, y) /\ Todo!ListedBefore(y, z) => Todo!ListedBefore(x, z)
    BY <1>1, TodoAssumption DEF Todo!ListedBefore
  <2>3. \A x, y \in S : x = y \/ Todo!ListedBefore(x, y) \/ Todo!ListedBefore(y, x)
    BY <1>1, <1>3, TodoAssumption DEF Todo!ListedBefore
  <2>4. QED
    BY <1>2, <2>1, <2>2, <2>3 DEF IsOrder
<1>5. Todo!InListing(S) = InOrder(S, Listing(S))
  <2>1. ASSUME NEW x \in S
        PROVE  Todo!Cardinality({y \in S : Todo!ListedBefore(y, x)}) = Rank(x, Listing(S), S)
    <3>1. {y \in S : Todo!ListedBefore(y, x)} = {y \in S : <<y, x>> \in Listing(S)}
      BY <1>2
    <3>2. QED
      BY <3>1, SameTodo DEF Rank
  <2>2. QED
    BY <2>1, SameTodo DEF Todo!InListing, Todo!Sorted, InOrder
<1>6. QED
  BY <1>4, <1>5, Listed

IsRendered(r, list) ==
  /\ r \in Seq(Entries) /\ Clean(r) /\ Elements(r) = Elements(Todo!Sanitized(list))
  /\ Todo!Rendered(r) = r

LEMMA RenderedIs ==
  ASSUME NEW list \in Seq(Entries)
  PROVE  IsRendered(Todo!Rendered(list), list)
<1>1. PICK kept : kept = Todo!Sanitized(list)
  OBVIOUS
<1>2. kept \in Seq(Entries) /\ Clean(kept) /\ DOMAIN kept = 1..Len(kept) /\ Len(kept) \in Nat
  BY <1>1, SanitizedIs DEF IsSanitized
<1>3. PICK active : active = {item \in Elements(kept) : ~item.done}
  OBVIOUS
<1>4. PICK A : A = Todo!InListing(active)
  OBVIOUS
<1>5. IsListing(A, active, Listing(active)) /\ active \subseteq Entries
  <2>1. Elements(kept) \subseteq Entries /\ IsFiniteSet(Elements(kept))
    <3>1. Elements(kept) \subseteq Entries
      BY <1>2 DEF Elements
    <3>2. QED
      BY <1>2, <3>1, CountElements
  <2>2. active \subseteq Elements(kept) /\ \A x \in active : ~x.done
    BY <1>3
  <2>3. IsFiniteSet(active) /\ active \subseteq Entries
    BY <2>1, <2>2, FS_Subset
  <2>4. QED
    BY <1>4, <2>2, <2>3, ListedItems
<1>6. PICK places : places = {i \in DOMAIN kept : kept[i].done}
  OBVIOUS
<1>7. PICK order : order = Places(places)
  OBVIOUS
<1>8. PICK D : D = PickedFrom(kept, places)
  OBVIOUS
<1>9. places \in SUBSET (1..Len(kept))
  BY <1>2, <1>6
<1>10. D \in Seq(Entries) /\ Picks(D, order, kept, places) /\ Elements(D) = {kept[i] : i \in places}
  BY <1>2, <1>7, <1>8, <1>9, PickedList, PickedElements
<1>11. PICK r : r = A \o D
  OBVIOUS
<1>12. PICK a, m : a = Len(A) /\ m = Len(D)
  OBVIOUS
<1>13. A \in Seq(Entries) /\ a \in Nat /\ m \in Nat /\ A \in Seq(active)
  BY <1>5, <1>10, <1>12 DEF IsListing
<1>14. /\ r \in Seq(Entries) /\ Len(r) = a + m /\ DOMAIN r = 1..(a + m)
       /\ \A i \in 1..(a + m) : r[i] = IF i <= a THEN A[i] ELSE D[i - a]
  BY <1>10, <1>11, <1>12, <1>13, ConcatProperties
<1>15. Todo!Rendered(list) = r
  <2>1. Todo!ToSet(kept) = Elements(kept)
    BY <1>2, TodoPicked DEF Elements
  <2>2. Todo!Picked(kept, places) = D
    BY <1>8, TodoPicked
  <2>3. QED
    BY <1>1, <1>3, <1>4, <1>6, <1>11, <2>1, <2>2 DEF Todo!Rendered
<1>16. \A i \in 1..a : r[i] = A[i] /\ r[i] \in active /\ r[i] \in Elements(kept) /\ ~r[i].done
  BY <1>3, <1>12, <1>13, <1>14
<1>17. \A i \in (a + 1)..(a + m) :
         /\ r[i] = D[i - a] /\ i - a \in 1..m /\ order[i - a] \in places
         /\ r[i] = kept[order[i - a]] /\ r[i] \in Elements(kept) /\ r[i].done
  <2>1. TAKE i \in (a + 1)..(a + m)
  <2>2. i - a \in 1..m /\ r[i] = D[i - a]
    BY <1>13, <1>14
  <2>3. order[i - a] \in places /\ D[i - a] = kept[order[i - a]]
    BY <1>10, <1>12, <2>2 DEF Picks
  <2>4. order[i - a] \in 1..Len(kept) /\ kept[order[i - a]].done
    BY <1>6, <1>9, <2>3
  <2>5. QED
    BY <2>2, <2>3, <2>4 DEF Elements
<1>18. Elements(r) = Elements(kept)
  <2>1. ASSUME NEW i \in 1..(a + m) PROVE r[i] \in Elements(kept)
    <3>1. i \in 1..a \/ i \in (a + 1)..(a + m)
      BY <1>13
    <3>2. QED
      BY <1>16, <1>17, <3>1
  <2>2. ASSUME NEW i \in 1..Len(kept) PROVE kept[i] \in Elements(r)
    <3>1. CASE kept[i].done
      <4>1. kept[i] \in Elements(D)
        BY <1>2, <1>6, <1>10, <3>1
      <4>2. PICK n \in 1..m : D[n] = kept[i]
        BY <1>12, <4>1 DEF Elements
      <4>3. PICK k : k = a + n
        OBVIOUS
      <4>4. k \in (a + 1)..(a + m) /\ k - a = n /\ k \in 1..Len(r)
        BY <1>13, <1>14, <4>3
      <4>5. r[k] = kept[i]
        BY <1>17, <4>2, <4>4
      <4>6. QED
        BY <4>4, <4>5 DEF Elements
    <3>2. CASE ~kept[i].done
      <4>1. kept[i] \in active
        BY <1>3, <3>2 DEF Elements
      <4>2. PICK n \in 1..a : A[n] = kept[i]
        BY <1>5, <1>12, <4>1 DEF IsListing
      <4>3. r[n] = kept[i] /\ n \in 1..Len(r)
        BY <1>13, <1>14, <1>16, <4>2
      <4>4. QED
        BY <4>3 DEF Elements
    <3>3. QED
      BY <3>1, <3>2
  <2>3. QED
    BY <1>14, <2>1, <2>2 DEF Elements
<1>19. \A x, y \in Elements(kept) : Todo!Key(x) # <<>> /\ (Todo!Key(x) = Todo!Key(y) => x = y)
  BY <1>2 DEF Elements, Clean
<1>20. ASSUME NEW i \in 1..(a + m), NEW j \in 1..(a + m), r[i] = r[j] PROVE i = j
  <2>1. CASE i \in 1..a /\ j \in 1..a
    BY <1>5, <1>12, <1>16, <1>20, <2>1 DEF IsListing
  <2>2. CASE i \in (a + 1)..(a + m) /\ j \in (a + 1)..(a + m)
    <3>1. order[i - a] = order[j - a]
      <4>1. /\ order[i - a] \in 1..Len(kept) /\ order[j - a] \in 1..Len(kept)
            /\ kept[order[i - a]] = kept[order[j - a]]
        BY <1>9, <1>17, <1>20, <2>2
      <4>2. QED
        BY <1>2, <4>1 DEF Clean
    <3>2. i - a = j - a
      BY <1>10, <1>12, <1>17, <2>2, <3>1 DEF Picks
    <3>3. QED
      BY <1>13, <3>2
  <2>3. CASE i \in 1..a /\ j \in (a + 1)..(a + m)
    BY <1>16, <1>17, <1>20, <2>3
  <2>4. CASE j \in 1..a /\ i \in (a + 1)..(a + m)
    BY <1>16, <1>17, <1>20, <2>4
  <2>5. QED
    BY <1>13, <2>1, <2>2, <2>3, <2>4
<1>21. Clean(r)
  <2>1. \A i \in 1..(a + m) : r[i] \in Elements(kept)
    BY <1>14, <1>18 DEF Elements
  <2>2. QED
    BY <1>14, <1>19, <1>20, <2>1 DEF Clean
<1>22. Todo!Rendered(r) = r
  <2>1. Todo!Sanitized(r) = r
    BY <1>14, <1>21, SanitizedIs DEF IsSanitized
  <2>2. Todo!ToSet(r) = Elements(kept)
    <3>1. Todo!ToSet(r) = Elements(r)
      BY <1>14, TodoPicked DEF Elements
    <3>2. QED
      BY <1>18, <3>1
  <2>3. {i \in DOMAIN r : r[i].done} = (a + 1)..(a + m)
    BY <1>13, <1>14, <1>16, <1>17
  <2>4. PickedFrom(r, (a + 1)..(a + m)) = D
    <3>1. PICK steps : steps = Places((a + 1)..(a + m))
      OBVIOUS
    <3>2. steps = [k \in 1..m |-> a + k]
      BY <1>13, <3>1, Consecutive
    <3>3. PICK picked : picked = PickedFrom(r, (a + 1)..(a + m))
      OBVIOUS
    <3>4. picked = [k \in DOMAIN steps |-> r[steps[k]]]
      BY <3>1, <3>3 DEF PickedFrom
    <3>5. \A k \in 1..m : a + k \in (a + 1)..(a + m) /\ (a + k) - a = k
      BY <1>13
    <3>6. picked = [k \in 1..m |-> D[k]]
      BY <1>17, <3>2, <3>4, <3>5
    <3>7. D = [k \in 1..m |-> D[k]]
      BY <1>10, <1>12
    <3>8. QED
      BY <3>3, <3>6, <3>7
  <2>5. Todo!Picked(r, {i \in DOMAIN r : r[i].done}) = D
    BY <2>3, <2>4, TodoPicked
  <2>6. Todo!InListing({item \in Todo!ToSet(r) : ~item.done}) = A
    BY <1>3, <1>4, <2>2
  <2>7. QED
    BY <1>11, <2>1, <2>5, <2>6 DEF Todo!Rendered
<1>23. QED
  BY <1>1, <1>14, <1>15, <1>18, <1>21, <1>22 DEF IsRendered

\* A key is within itself.
LEMMA WithinItself == ASSUME NEW text \in Texts PROVE Todo!Within(text.key, text.key)
<1>1. PICK key : key = text.key
  OBVIOUS
<1>2. key \in Seq(Nat) /\ Len(key) \in Nat
  BY <1>1, TodoAssumption
<1>3. SubSeq(key, 0 + 1, 0 + Len(key)) = key
  <2>1. \A i \in 1..Len(key) : key[i] \in Nat
    BY <1>2
  <2>2. /\ SubSeq(key, 1, Len(key)) \in Seq(Nat)
        /\ Len(SubSeq(key, 1, Len(key))) = IF 1 <= Len(key) THEN Len(key) - 1 + 1 ELSE 0
        /\ \A i \in 1..(Len(key) - 1 + 1) : SubSeq(key, 1, Len(key))[i] = key[1 + i - 1]
    BY <1>2, <2>1, SubSeqProperties
  <2>3. PICK all : all = SubSeq(key, 1, Len(key))
    OBVIOUS
  <2>4. all \in Seq(Nat) /\ Len(all) = Len(key) /\ \A i \in 1..Len(key) : all[i] = key[i]
    BY <1>2, <2>2, <2>3
  <2>5. all = key
    <3>1. all = [i \in 1..Len(key) |-> all[i]] /\ key = [i \in 1..Len(key) |-> key[i]]
      BY <1>2, <2>4
    <3>2. QED
      BY <2>4, <3>1
  <2>6. QED
    BY <1>2, <2>3, <2>5
<1>4. QED
  BY <1>1, <1>2, <1>3 DEF Todo!Within

\* What an item is found by.
LEMMA FoundItem ==
  ASSUME s1 \in Seq(Entries), NEW text \in Texts, NEW f, f = Todo!Find(text)
  PROVE  /\ f \in 0..Len(s1)
         /\ f # 0 =>
              /\ Todo!Within(Todo!Key(s1[f]), text.key) \/ Todo!Within(text.key, Todo!Key(s1[f]))
              /\ Todo!Key(s1[f]) = text.key \/ \A i \in 1..Len(s1) : Todo!Key(s1[i]) # text.key
         /\ f = 0 => text.key = <<>> \/ \A i \in 1..Len(s1) : Todo!Key(s1[i]) # text.key
<1>1. DOMAIN s1 = 1..Len(s1) /\ Len(s1) \in Nat
  OBVIOUS
<1>2. PICK places : places = IF Todo!Same(text) # {} THEN Todo!Same(text) ELSE Todo!Like(text)
  OBVIOUS
<1>3. places \in SUBSET (1..Len(s1))
  BY <1>1, <1>2 DEF Todo!Same, Todo!Like
<1>4. CASE text.key = <<>>
  BY <1>1, <1>4 DEF Todo!Find
<1>5. CASE text.key # <<>> /\ places = {}
  <2>1. f = 0 /\ Todo!Same(text) = {}
    BY <1>2, <1>5 DEF Todo!Find, Todo!FirstAt
  <2>2. QED
    BY <1>1, <2>1 DEF Todo!Same
<1>6. CASE text.key # <<>> /\ places # {}
  <2>1. places \in SUBSET Nat
    BY <1>1, <1>3
  <2>2. \E x \in places : \A y \in places : x <= y
    BY <1>6, <2>1, LeastNat
  <2>3. f = CHOOSE x \in places : \A y \in places : x <= y
    BY <1>2, <1>6 DEF Todo!Find, Todo!FirstAt
  <2>4. f \in places
    BY <2>2, <2>3, Zenon
  <2>5. f \in 1..Len(s1)
    BY <1>3, <2>4
  <2>6. CASE Todo!Same(text) # {}
    <3>1. Todo!Key(s1[f]) = text.key
      BY <1>2, <2>4, <2>6 DEF Todo!Same
    <3>2. Todo!Within(text.key, text.key)
      BY WithinItself
    <3>3. QED
      BY <1>1, <2>5, <3>1, <3>2
  <2>7. CASE Todo!Same(text) = {}
    <3>1. f \in Todo!Like(text) /\ \A i \in 1..Len(s1) : Todo!Key(s1[i]) # text.key
      BY <1>1, <1>2, <2>4, <2>7 DEF Todo!Same
    <3>2. QED
      BY <1>1, <2>5, <3>1 DEF Todo!Like
  <2>8. QED
    BY <2>6, <2>7
<1>7. QED
  BY <1>4, <1>5, <1>6

\* A list after a request: the item lost is at most one, and so is the one that is new.
IsAfter(new, list, lost, won) ==
  /\ new \in Seq(Entries)
  /\ Elements(list) \subseteq Elements(new) \cup lost /\ Elements(new) \subseteq Elements(list) \cup won
  /\ won \subseteq Elements(new)
  /\ Todo!Distinct(list) => Todo!Distinct(new)

LEMMA ItemAppended ==
  ASSUME NEW list \in Seq(Entries), NEW e \in Entries,
         Todo!Key(e) = <<>> \/ \A i \in 1..Len(list) : Todo!Key(list[i]) # Todo!Key(e)
  PROVE  IsAfter(Append(list, e), list, {}, {e})
<1>1. PICK new : new = Append(list, e)
  OBVIOUS
<1>2. /\ new \in Seq(Entries) /\ Len(new) = Len(list) + 1 /\ Len(list) \in Nat
      /\ (\A i \in 1..Len(list) : new[i] = list[i]) /\ new[Len(list) + 1] = e
      /\ DOMAIN new = 1..(Len(list) + 1) /\ DOMAIN list = 1..Len(list)
  BY <1>1, AppendProperties
<1>3. Elements(list) \subseteq Elements(new) /\ Elements(new) \subseteq Elements(list) \cup {e} /\ e \in Elements(new)
  <2>1. ASSUME NEW i \in 1..Len(list) PROVE list[i] \in Elements(new)
    BY <1>2 DEF Elements
  <2>2. ASSUME NEW i \in 1..Len(new) PROVE new[i] \in Elements(list) \cup {e}
    <3>1. i \in 1..Len(list) \/ i = Len(list) + 1
      BY <1>2
    <3>2. QED
      BY <1>2, <3>1 DEF Elements
  <2>3. e \in Elements(new)
    <3>1. Len(list) + 1 \in 1..Len(new)
      BY <1>2
    <3>2. QED
      BY <1>2, <3>1 DEF Elements
  <2>4. QED
    BY <2>1, <2>2, <2>3 DEF Elements
<1>4. ASSUME Todo!Distinct(list) PROVE Todo!Distinct(new)
  <2>1. SUFFICES ASSUME NEW i \in 1..(Len(list) + 1), NEW j \in 1..(Len(list) + 1), Todo!Key(new[i]) # <<>>,
                        Todo!Key(new[i]) = Todo!Key(new[j])
                 PROVE  i = j
    BY <1>2 DEF Todo!Distinct, Todo!Keyed
  <2>2. CASE i \in 1..Len(list) /\ j \in 1..Len(list)
    BY <1>2, <1>4, <2>1, <2>2 DEF Todo!Distinct, Todo!Keyed
  <2>3. CASE i \in 1..Len(list) /\ j = Len(list) + 1
    BY <1>2, <2>1, <2>3
  <2>4. CASE i = Len(list) + 1 /\ j \in 1..Len(list)
    BY <1>2, <2>1, <2>4
  <2>5. QED
    BY <1>2, <2>2, <2>3, <2>4
<1>5. QED
  BY <1>1, <1>2, <1>3, <1>4 DEF IsAfter

LEMMA ItemReplaced ==
  ASSUME NEW list \in Seq(Entries), NEW e \in Entries, NEW f \in 1..Len(list),
         \/ Todo!Key(e) \in {<<>>, Todo!Key(list[f])}
         \/ \A i \in 1..Len(list) : Todo!Key(list[i]) # Todo!Key(e)
  PROVE  IsAfter([list EXCEPT ![f] = e], list, {list[f]}, {e})
<1>1. PICK new : new = [list EXCEPT ![f] = e]
  OBVIOUS
<1>2. /\ new \in Seq(Entries) /\ Len(new) = Len(list) /\ Len(list) \in Nat
      /\ (\A i \in 1..Len(list) : new[i] = IF i = f THEN e ELSE list[i])
      /\ DOMAIN new = 1..Len(list) /\ DOMAIN list = 1..Len(list)
  BY <1>1
<1>3. Elements(list) \subseteq Elements(new) \cup {list[f]} /\ Elements(new) \subseteq Elements(list) \cup {e}
      /\ e \in Elements(new)
  <2>1. ASSUME NEW i \in 1..Len(list) PROVE list[i] \in Elements(new) \cup {list[f]}
    BY <1>2 DEF Elements
  <2>2. ASSUME NEW i \in 1..Len(new) PROVE new[i] \in Elements(list) \cup {e}
    BY <1>2 DEF Elements
  <2>3. QED
    BY <1>2, <2>1, <2>2 DEF Elements
<1>4. ASSUME Todo!Distinct(list) PROVE Todo!Distinct(new)
  <2>1. SUFFICES ASSUME NEW i \in 1..Len(list), NEW j \in 1..Len(list), Todo!Key(new[i]) # <<>>,
                        Todo!Key(new[i]) = Todo!Key(new[j])
                 PROVE  i = j
    BY <1>2 DEF Todo!Distinct, Todo!Keyed
  <2>2. \A m, n \in 1..Len(list) : Todo!Key(list[m]) # <<>> /\ Todo!Key(list[m]) = Todo!Key(list[n]) => m = n
    BY <1>2, <1>4 DEF Todo!Distinct, Todo!Keyed
  <2>3. QED
    BY <1>2, <2>1, <2>2
<1>5. QED
  BY <1>1, <1>2, <1>3, <1>4 DEF IsAfter

LEMMA ItemRemoved ==
  ASSUME NEW list \in Seq(Entries), NEW f \in 1..Len(list)
  PROVE  IsAfter(Todo!RemoveAt(list, f), list, {list[f]}, {})
<1>0. /\ Len(list) \in Nat /\ DOMAIN list = 1..Len(list) /\ f - 1 \in Nat /\ Len(list) - f \in Nat
      /\ f \in Nat /\ f <= Len(list)
  OBVIOUS
<1>1. PICK a : a = SubSeq(list, 1, f - 1)
  OBVIOUS
<1>2. PICK b : b = SubSeq(list, f + 1, Len(list))
  OBVIOUS
<1>3. a \in Seq(Entries) /\ Len(a) = f - 1 /\ \A i \in 1..(f - 1) : a[i] = list[i]
  <2>1. \A i \in 1..(f - 1) : list[i] \in Entries
    BY <1>0
  <2>2. /\ SubSeq(list, 1, f - 1) \in Seq(Entries)
        /\ Len(SubSeq(list, 1, f - 1)) = IF 1 <= f - 1 THEN f - 1 - 1 + 1 ELSE 0
        /\ \A i \in 1..(f - 1 - 1 + 1) : SubSeq(list, 1, f - 1)[i] = list[1 + i - 1]
    BY <1>0, <2>1, SubSeqProperties
  <2>3. QED
    BY <1>0, <1>1, <2>2
<1>4. b \in Seq(Entries) /\ Len(b) = Len(list) - f /\ \A i \in 1..(Len(list) - f) : b[i] = list[f + i]
  <2>1. \A i \in (f + 1)..Len(list) : list[i] \in Entries
    BY <1>0
  <2>2. /\ SubSeq(list, f + 1, Len(list)) \in Seq(Entries)
        /\ Len(SubSeq(list, f + 1, Len(list))) = IF f + 1 <= Len(list) THEN Len(list) - (f + 1) + 1 ELSE 0
        /\ \A i \in 1..(Len(list) - (f + 1) + 1) : SubSeq(list, f + 1, Len(list))[i] = list[f + 1 + i - 1]
    BY <1>0, <2>1, SubSeqProperties
  <2>3. Len(list) - (f + 1) + 1 = Len(list) - f /\ \A i \in 1..(Len(list) - f) : f + 1 + i - 1 = f + i
    BY <1>0
  <2>4. Len(b) = Len(list) - f
    <3>1. CASE f + 1 <= Len(list)
      BY <1>2, <2>2, <2>3, <3>1
    <3>2. CASE ~(f + 1 <= Len(list))
      <4>1. \A m, k \in Nat : k <= m /\ ~(k + 1 <= m) => m - k = 0
        OBVIOUS
      <4>1a. Len(list) - f = 0
        BY <1>0, <3>2, <4>1
      <4>2. QED
        BY <1>2, <2>2, <3>2, <4>1a
    <3>3. QED
      BY <3>1, <3>2
  <2>5. \A i \in 1..(Len(list) - f) : b[i] = list[f + i]
    BY <1>2, <2>2, <2>3
  <2>6. QED
    BY <1>2, <2>2, <2>4, <2>5
<1>5. PICK new : new = a \o b
  OBVIOUS
<1>6. /\ new \in Seq(Entries) /\ Len(new) = Len(a) + Len(b)
      /\ \A i \in 1..(Len(a) + Len(b)) : new[i] = IF i <= Len(a) THEN a[i] ELSE b[i - Len(a)]
  BY <1>3, <1>4, <1>5, ConcatProperties
<1>7. Len(new) = Len(list) - 1
  BY <1>0, <1>3, <1>4, <1>6
<1>8. ASSUME NEW i \in 1..Len(new) PROVE new[i] = list[IF i < f THEN i ELSE i + 1]
  <2>1. CASE i < f
    <3>1. i <= Len(a) /\ i \in 1..(f - 1) /\ i \in 1..(Len(a) + Len(b))
      BY <1>0, <1>3, <1>4, <1>7, <2>1
    <3>2. QED
      BY <1>3, <1>6, <2>1, <3>1
  <2>2. CASE ~(i < f)
    <3>1. ~(i <= Len(a)) /\ i - Len(a) \in 1..(Len(list) - f) /\ f + (i - Len(a)) = i + 1 /\ i \in 1..(Len(a) + Len(b))
      BY <1>0, <1>3, <1>4, <1>7, <2>2
    <3>2. QED
      BY <1>4, <1>6, <2>2, <3>1
  <2>3. QED
    BY <2>1, <2>2
<1>9. new \in Seq(Entries) /\ DOMAIN new = 1..Len(new) /\ Len(new) \in Nat
  BY <1>6
<1>10. Elements(new) \subseteq Elements(list)
  <2>1. ASSUME NEW i \in 1..Len(new) PROVE new[i] \in Elements(list)
    <3>1. (IF i < f THEN i ELSE i + 1) \in 1..Len(list)
      BY <1>0, <1>7
    <3>2. QED
      BY <1>8, <3>1 DEF Elements
  <2>2. QED
    BY <2>1 DEF Elements
<1>11. Elements(list) \subseteq Elements(new) \cup {list[f]}
  <2>1. ASSUME NEW i \in 1..Len(list), i # f PROVE list[i] \in Elements(new)
    <3>1. PICK k : k = IF i < f THEN i ELSE i - 1
      OBVIOUS
    <3>2. k \in 1..Len(new) /\ (IF k < f THEN k ELSE k + 1) = i
      BY <1>0, <1>7, <2>1, <3>1
    <3>3. new[k] = list[i]
      BY <1>8, <3>2
    <3>4. QED
      BY <3>2, <3>3 DEF Elements
  <2>2. QED
    BY <2>1 DEF Elements
<1>12. ASSUME Todo!Distinct(list) PROVE Todo!Distinct(new)
  <2>1. SUFFICES ASSUME NEW i \in 1..Len(new), NEW j \in 1..Len(new), Todo!Key(new[i]) # <<>>,
                        Todo!Key(new[i]) = Todo!Key(new[j])
                 PROVE  i = j
    BY <1>9 DEF Todo!Distinct, Todo!Keyed
  <2>2. PICK m : m = IF i < f THEN i ELSE i + 1
    OBVIOUS
  <2>3. PICK n : n = IF j < f THEN j ELSE j + 1
    OBVIOUS
  <2>4. m \in 1..Len(list) /\ n \in 1..Len(list) /\ (m = n => i = j)
    BY <1>0, <1>7, <2>2, <2>3
  <2>5. new[i] = list[m] /\ new[j] = list[n]
    BY <1>8, <2>2, <2>3
  <2>6. m = n
    BY <1>0, <1>12, <2>1, <2>4, <2>5 DEF Todo!Distinct, Todo!Keyed
  <2>7. QED
    BY <2>4, <2>6
<1>13. IsAfter(new, list, {list[f]}, {})
  BY <1>9, <1>10, <1>11, <1>12 DEF IsAfter
<1>14. QED
  BY <1>1, <1>2, <1>5, <1>13 DEF Todo!RemoveAt


\* An item that a request takes for the one it names.
IsNamed(e, text) ==
  /\ Todo!Within(Todo!Key(e), text.key) \/ Todo!Within(text.key, Todo!Key(e))
  /\ Todo!Key(e) # text.key => \A other \in Elements(s1) : Todo!Key(other) # text.key

\* What a request makes of the list: an item is lost, another is there.
IsAnswer(new, kind, text, lost, won) ==
  /\ IsAfter(new, s1, lost, won)
  /\ kind = "remove" => won = {}
  /\ \A e \in won : e.text = text \/ \E i \in 1..Len(s1) : e.text = s1[i].text
  /\ \A e \in lost : IsNamed(e, text)
  /\ kind = "add" => \E e \in won : e.text = text /\ ~e.done
  /\ kind \in {"complete", "reopen"} =>
       \E e \in won : /\ e.done = (kind = "complete")
                      /\ Todo!Within(Todo!Key(e), text.key) \/ Todo!Within(text.key, Todo!Key(e))

HasAnswer(new, kind, text) ==
  \E lost, won : IsAnswer(new, kind, text, lost, won) /\ (\E x : lost \subseteq {x}) /\ (\E x : won \subseteq {x})

LEMMA AppliedIs ==
  ASSUME s1 \in Seq(Entries), NEW kind \in {"add", "remove", "complete", "reopen"}, NEW text \in Texts
  PROVE  HasAnswer(Todo!Applied(kind, text), kind, text)
<1>1. PICK f : f = Todo!Find(text)
  OBVIOUS
<1>2. PICK new : new = Todo!Applied(kind, text)
  OBVIOUS
<1>3. /\ f \in 0..Len(s1) /\ Len(s1) \in Nat /\ DOMAIN s1 = 1..Len(s1)
      /\ f # 0 =>
           /\ Todo!Within(Todo!Key(s1[f]), text.key) \/ Todo!Within(text.key, Todo!Key(s1[f]))
           /\ Todo!Key(s1[f]) = text.key \/ \A i \in 1..Len(s1) : Todo!Key(s1[i]) # text.key
      /\ f = 0 => text.key = <<>> \/ \A i \in 1..Len(s1) : Todo!Key(s1[i]) # text.key
  BY <1>1, FoundItem
<1>10. f # 0 => \A e \in {s1[f]} : IsNamed(e, text)
  BY <1>3 DEF IsNamed, Elements
<1>4. SUFFICES \E lost, won : IsAnswer(new, kind, text, lost, won) /\ (\E x : lost \subseteq {x}) /\ (\E x : won \subseteq {x})
  BY <1>2 DEF HasAnswer
<1>5. CASE f = 0 /\ kind # "remove"
  <2>1. PICK e : e = [text |-> text, done |-> kind = "complete", deadline |-> None]
    OBVIOUS
  <2>2. new = Append(s1, e)
    BY <1>1, <1>2, <1>5, <2>1
       DEF Todo!Applied, Todo!AddItem, Todo!MarkItem, Todo!NewItem
  <2>3. e \in Entries /\ Todo!Key(e) = text.key /\ e.text = text /\ e.done = (kind = "complete")
    BY <2>1 DEF Entries, Todo!Key
  <2>4. IsAfter(Append(s1, e), s1, {}, {e})
    BY <1>3, <1>5, <2>3, ItemAppended
  <2>5. Todo!Within(Todo!Key(e), text.key)
    BY <2>3, WithinItself
  <2>6. IsAnswer(new, kind, text, {}, {e})
    <3>1. IsAfter(new, s1, {}, {e}) /\ (kind = "remove" => {e} = {})
      BY <1>5, <2>2, <2>4
    <3>2. \A x \in {e} : x.text = text \/ \E i \in 1..Len(s1) : x.text = s1[i].text
      BY <2>3
    <3>3. kind = "add" => \E x \in {e} : x.text = text /\ ~x.done
      BY <2>3
    <3>4. kind \in {"complete", "reopen"} =>
            \E x \in {e} : /\ x.done = (kind = "complete")
                           /\ Todo!Within(Todo!Key(x), text.key) \/ Todo!Within(text.key, Todo!Key(x))
      <4>1. HAVE kind \in {"complete", "reopen"}
      <4>2. WITNESS e \in {e}
      <4>3. QED
        BY <2>3, <2>5
    <3>5. \A x \in {} : IsNamed(x, text)
      OBVIOUS
    <3>6. QED
      BY <3>1, <3>2, <3>3, <3>4, <3>5, Zenon DEF IsAnswer
  <2>7. QED
    <3>1. PICK none : none = {}
      OBVIOUS
    <3>2. none \subseteq {text} /\ {e} \subseteq {e} /\ IsAnswer(new, kind, text, none, {e})
      BY <2>6, <3>1
    <3>3. QED
      BY <3>2, Zenon
<1>6. CASE f = 0 /\ kind = "remove"
  <2>1. new = s1
    BY <1>1, <1>2, <1>6 DEF Todo!Applied, Todo!RemoveItem
  <2>2. IsAnswer(new, kind, text, {}, {})
    BY <1>6, <2>1 DEF IsAnswer, IsAfter
  <2>3. QED
    <3>1. PICK none : none = {}
      OBVIOUS
    <3>2. none \subseteq {text} /\ IsAnswer(new, kind, text, none, none)
      BY <2>2, <3>1
    <3>3. QED
      BY <3>2, Zenon
<1>7. CASE f # 0 /\ kind = "remove"
  <2>1. new = Todo!RemoveAt(s1, f)
    BY <1>1, <1>2, <1>7 DEF Todo!Applied, Todo!RemoveItem
  <2>2. f \in 1..Len(s1)
    BY <1>3, <1>7
  <2>3. IsAfter(new, s1, {s1[f]}, {})
    BY <2>1, <2>2, ItemRemoved
  <2>4. IsAnswer(new, kind, text, {s1[f]}, {})
    <3>1. kind # "add" /\ kind \notin {"complete", "reopen"}
      BY <1>7
    <3>2. \A x \in {} : x.text = text \/ \E i \in 1..Len(s1) : x.text = s1[i].text
      OBVIOUS
    <3>3. \A x \in {s1[f]} : IsNamed(x, text)
      BY <1>7, <1>10
    <3>4. QED
      BY <2>3, <3>1, <3>2, <3>3, Zenon DEF IsAnswer
  <2>5. QED
    <3>1. PICK none : none = {}
      OBVIOUS
    <3>2. {s1[f]} \subseteq {s1[f]} /\ none \subseteq {text} /\ IsAnswer(new, kind, text, {s1[f]}, none)
      BY <2>4, <3>1
    <3>3. QED
      BY <3>2, Zenon
<1>8. CASE f # 0 /\ kind # "remove"
  <2>1. f \in 1..Len(s1) /\ s1[f] \in Entries
    BY <1>3, <1>8
  <2>2. PICK e : e = [text |-> IF kind = "add" THEN text ELSE s1[f].text, done |-> kind = "complete",
                     deadline |-> s1[f].deadline]
    OBVIOUS
  <2>3. /\ e \in Entries /\ e.done = (kind = "complete") /\ e.text = (IF kind = "add" THEN text ELSE s1[f].text)
        /\ Todo!Key(e) = (IF kind = "add" THEN text.key ELSE Todo!Key(s1[f]))
    BY <2>1, <2>2 DEF Entries, Todo!Key
  <2>4. new = [s1 EXCEPT ![f] = e]
    <3>1. s1[f] = [text |-> s1[f].text, done |-> s1[f].done, deadline |-> s1[f].deadline]
      BY <2>1 DEF Entries
    <3>2. CASE kind = "add"
      <4>1. new = [s1 EXCEPT ![f].done = FALSE, ![f].text = text]
        BY <1>1, <1>2, <1>8, <3>2 DEF Todo!Applied, Todo!AddItem
      <4>2. new = [s1 EXCEPT ![f] = [text |-> text, done |-> FALSE, deadline |-> s1[f].deadline]]
        <5>1. PICK x : x = s1[f]
          OBVIOUS
        <5>2. [[x EXCEPT !.done = FALSE] EXCEPT !.text = text] = [text |-> text, done |-> FALSE, deadline |-> x.deadline]
          <6>1. PICK y : y = [x EXCEPT !.done = FALSE]
            OBVIOUS
          <6>2. y = [text |-> x.text, done |-> FALSE, deadline |-> x.deadline]
            BY <3>1, <5>1, <6>1
          <6>3. PICK z : z = [y EXCEPT !.text = text]
            OBVIOUS
          <6>4. z = [text |-> text, done |-> FALSE, deadline |-> x.deadline]
            BY <6>2, <6>3
          <6>5. QED
            BY <6>1, <6>3, <6>4
        <5>3. new = [s1 EXCEPT ![f] = [[x EXCEPT !.done = FALSE] EXCEPT !.text = text]]
          BY <1>3, <2>1, <4>1, <5>1
        <5>4. QED
          BY <5>1, <5>2, <5>3
      <4>3. e = [text |-> text, done |-> FALSE, deadline |-> s1[f].deadline]
        BY <2>2, <3>2
      <4>4. QED
        BY <4>2, <4>3
    <3>3. CASE kind # "add"
      <4>1. new = [s1 EXCEPT ![f].done = (kind = "complete")]
        BY <1>1, <1>2, <1>8, <3>3 DEF Todo!Applied, Todo!MarkItem
      <4>2. new = [s1 EXCEPT ![f] = [text |-> s1[f].text, done |-> (kind = "complete"), deadline |-> s1[f].deadline]]
        <5>1. PICK x : x = s1[f]
          OBVIOUS
        <5>2. [x EXCEPT !.done = (kind = "complete")]
                = [text |-> x.text, done |-> (kind = "complete"), deadline |-> x.deadline]
          BY <3>1, <5>1
        <5>3. new = [s1 EXCEPT ![f] = [x EXCEPT !.done = (kind = "complete")]]
          BY <1>3, <2>1, <4>1, <5>1
        <5>4. QED
          BY <5>1, <5>2, <5>3
      <4>3. e = [text |-> s1[f].text, done |-> (kind = "complete"), deadline |-> s1[f].deadline]
        BY <2>2, <3>3
      <4>4. QED
        BY <4>2, <4>3
    <3>4. QED
      BY <3>2, <3>3
  <2>5. IsAfter([s1 EXCEPT ![f] = e], s1, {s1[f]}, {e})
    BY <1>3, <1>8, <2>1, <2>3, ItemReplaced
  <2>6. kind # "add" => Todo!Within(Todo!Key(e), text.key) \/ Todo!Within(text.key, Todo!Key(e))
    BY <1>3, <1>8, <2>3
  <2>7. IsAnswer(new, kind, text, {s1[f]}, {e})
    <3>1. IsAfter(new, s1, {s1[f]}, {e}) /\ (kind = "remove" => {e} = {})
      BY <1>8, <2>4, <2>5
    <3>2. \A x \in {e} : x.text = text \/ \E i \in 1..Len(s1) : x.text = s1[i].text
      BY <2>1, <2>3
    <3>3. kind = "add" => \E x \in {e} : x.text = text /\ ~x.done
      BY <2>3
    <3>4. kind \in {"complete", "reopen"} =>
            \E x \in {e} : /\ x.done = (kind = "complete")
                           /\ Todo!Within(Todo!Key(x), text.key) \/ Todo!Within(text.key, Todo!Key(x))
      <4>1. HAVE kind \in {"complete", "reopen"}
      <4>2. WITNESS e \in {e}
      <4>3. QED
        BY <2>3, <2>6, <4>1
    <3>5. \A x \in {s1[f]} : IsNamed(x, text)
      BY <1>8, <1>10
    <3>6. QED
      BY <3>1, <3>2, <3>3, <3>4, <3>5, Zenon DEF IsAnswer
  <2>8. QED
    <3>1. {s1[f]} \subseteq {s1[f]} /\ {e} \subseteq {e}
      OBVIOUS
    <3>2. QED
      BY <2>7, <3>1, Zenon
<1>9. QED
  BY <1>5, <1>6, <1>7, <1>8

\* A list that has every item once loses none when it is written.
LEMMA WrittenList ==
  ASSUME NEW list \in Seq(Entries)
  PROVE  /\ Todo!Rendered(list) \in Seq(Entries)
         /\ Todo!ToSet(Todo!Rendered(list)) = Elements(Todo!Rendered(list))
         /\ Todo!Distinct(list) =>
              /\ Elements(Todo!Rendered(list)) = {list[i] : i \in Todo!Keyed(list)}
              /\ Len(Todo!Rendered(list)) = Cardinality(Todo!Keyed(list))
<1>1. PICK r : r = Todo!Rendered(list)
  OBVIOUS
<1>2. r \in Seq(Entries) /\ Clean(r) /\ Elements(r) = Elements(Todo!Sanitized(list))
  BY <1>1, RenderedIs DEF IsRendered
<1>3. Todo!ToSet(r) = Elements(r)
  BY <1>2, TodoPicked DEF Elements
<1>4. ASSUME Todo!Distinct(list)
      PROVE  Elements(r) = {list[i] : i \in Todo!Keyed(list)} /\ Len(r) = Cardinality(Todo!Keyed(list))
  <2>1. PICK places : places = Todo!Keyed(list)
    OBVIOUS
  <2>2. places \in SUBSET (1..Len(list)) /\ Len(list) \in Nat
    BY <2>1 DEF Todo!Keyed
  <2>3. Elements(r) = {list[i] : i \in places}
    BY <1>2, <1>4, <2>1, <2>2, SanitizedIs, PickedElements DEF IsSanitized
  <2>4. \A i, j \in 1..Len(r) : r[i] = r[j] => i = j
    BY <1>2 DEF Clean
  <2>5. Cardinality(Elements(r)) = Len(r)
    BY <1>2, <2>4, CountElements
  <2>6. PICK g : g = [i \in places |-> list[i]]
    OBVIOUS
  <2>7. g \in Bijection(places, Elements(r))
    <3>1. \A i, j \in places : list[i] = list[j] => i = j
      BY <1>4, <2>1 DEF Todo!Distinct
    <3>2. g \in Injection(places, Elements(r))
      BY <2>3, <2>6, <3>1 DEF Injection, IsInjective
    <3>3. g \in Surjection(places, Elements(r))
      BY <2>3, <2>6 DEF Surjection
    <3>4. QED
      BY <3>2, <3>3 DEF Bijection, Injection, Surjection
  <2>8. IsFiniteSet(places)
    <3>1. IsFiniteSet(1..Len(list))
      BY <2>2, FS_Interval
    <3>2. QED
      BY <2>2, <3>1, FS_Subset
  <2>9. Cardinality(places) = Cardinality(Elements(r))
    BY <2>7, <2>8, FS_Bijection DEF ExistsBijection
  <2>10. QED
    BY <2>1, <2>3, <2>5, <2>9
<1>5. QED
  BY <1>1, <1>2, <1>3, <1>4

LEMMA RequestAnswered ==
  ASSUME Todo!TodoInv, NEW kind \in {"add", "remove", "complete", "reopen"}, NEW text \in Texts,
         Todo!Request(kind, text)
  PROVE  Todo!TodoInv'
<1>1. s1 \in Seq(Entries) /\ s3 \in 0..MaxRequests
  BY DEF Todo!TodoInv, Todo!TypeOK, Entries
<1>2. PICK new : new = s1'
  OBVIOUS
<1>3. /\ new = Todo!Applied(kind, text) /\ s2' = [kind |-> kind, text |-> text, before |-> s1]
      /\ s3' = s3 + 1 /\ s3 < MaxRequests
  BY <1>2 DEF Todo!Request
<1>4. PICK lost, won : /\ IsAnswer(new, kind, text, lost, won)
                       /\ \E x : lost \subseteq {x}
                       /\ \E x : won \subseteq {x}
  <2>1. HasAnswer(Todo!Applied(kind, text), kind, text)
    BY <1>1, AppliedIs
  <2>2. QED
    BY <1>3, <2>1, Zenon DEF HasAnswer
<1>5. IsAfter(new, s1, lost, won) /\ new \in Seq(Entries)
  BY <1>4 DEF IsAnswer, IsAfter
<1>6. Todo!TypeOK'
  BY <1>1, <1>2, <1>3, <1>5, TodoAssumption DEF Todo!TypeOK, Entries
<1>7. Todo!NoneMerged'
  <2>1. Todo!Distinct(s1) => Todo!Distinct(new) /\ Len(Todo!Rendered(new)) = Cardinality(Todo!Keyed(new))
    BY <1>5, WrittenList DEF IsAfter
  <2>2. s2'.before = s1
    BY <1>3
  <2>3. QED
    BY <1>2, <2>1, <2>2, SameTodo DEF Todo!NoneMerged
<1>8. Todo!AskedIsListed'
  <2>1. SUFFICES ASSUME text.key # <<>>, Todo!Distinct(s1), Todo!Keyed(s1) = DOMAIN s1
                 PROVE  LET shown == Todo!ToSet(Todo!Rendered(new))
                            shownBefore == Todo!ToSet(Todo!Rendered(s1)) IN
                        /\ Cardinality(shownBefore \ shown) <= 1
                        /\ \A item \in shownBefore \ shown :
                             /\ Todo!Within(Todo!Key(item), text.key) \/ Todo!Within(text.key, Todo!Key(item))
                             /\ Todo!Key(item) # text.key =>
                                  \A other \in Todo!ToSet(s1) : Todo!Key(other) # text.key
                        /\ Cardinality(shown \ shownBefore) <= IF kind = "remove" THEN 0 ELSE 1
                        /\ kind = "add" => \E item \in shown : item.text = text /\ ~item.done
                        /\ kind \in {"complete", "reopen"} =>
                             \E item \in shown :
                               /\ item.done = (kind = "complete")
                               /\ Todo!Within(Todo!Key(item), text.key) \/ Todo!Within(text.key, Todo!Key(item))
    BY <1>2, <1>3, SameTodo DEF Todo!AskedIsListed
  <2>2. PICK shown : shown = Todo!ToSet(Todo!Rendered(new))
    OBVIOUS
  <2>3. PICK before : before = Todo!ToSet(Todo!Rendered(s1))
    OBVIOUS
  <2>4. DOMAIN s1 = 1..Len(s1) /\ DOMAIN new = 1..Len(new)
    BY <1>1, <1>5
  <2>5. before = Elements(s1)
    BY <1>1, <2>1, <2>3, <2>4, WrittenList DEF Elements
  <2>6. \A e \in won : e.text.key # <<>>
    BY <1>4, <2>1, <2>4 DEF IsAnswer, Todo!Keyed, Todo!Key
  <2>7. \A e \in Elements(s1) : e.text.key # <<>>
    BY <2>1, <2>4 DEF Elements, Todo!Keyed, Todo!Key
  <2>8. \A i \in 1..Len(new) : Todo!Key(new[i]) # <<>>
    BY <1>5, <2>6, <2>7 DEF IsAfter, Elements, Todo!Key
  <2>9. Todo!Keyed(new) = 1..Len(new) /\ Todo!Distinct(new)
    BY <1>5, <2>1, <2>4, <2>8 DEF Todo!Keyed, IsAfter
  <2>10. shown = Elements(new)
    BY <1>5, <2>2, <2>9, WrittenList DEF Elements
  <2>11. \A T, x : T \subseteq {x} => Cardinality(T) <= 1
    <3>1. TAKE T, x
    <3>2. HAVE T \subseteq {x}
    <3>3. IsFiniteSet({x}) /\ Cardinality({x}) = 1
      BY FS_Singleton
    <3>4. QED
      BY <3>2, <3>3, FS_Subset
  <2>12. before \ shown \subseteq lost /\ shown \ before \subseteq won /\ won \subseteq shown
    BY <1>5, <2>5, <2>10 DEF IsAfter
  <2>13. Cardinality(before \ shown) <= 1
    BY <1>4, <2>11, <2>12
  <2>14. Cardinality(shown \ before) <= IF kind = "remove" THEN 0 ELSE 1
    <3>1. CASE kind = "remove"
      <4>1. shown \ before = {}
        BY <1>4, <2>12, <3>1 DEF IsAnswer
      <4>2. QED
        BY <3>1, <4>1, FS_EmptySet
    <3>2. CASE kind # "remove"
      BY <1>4, <2>11, <2>12, <3>2
    <3>3. QED
      BY <3>1, <3>2
  <2>15. \A item \in before \ shown : IsNamed(item, text)
    BY <1>4, <2>12 DEF IsAnswer
  <2>16. Todo!ToSet(s1) = Elements(s1)
    BY <1>1, TodoPicked DEF Elements
  <2>17. QED
    BY <1>4, <2>2, <2>3, <2>12, <2>13, <2>14, <2>15, <2>16 DEF IsAnswer, IsNamed
<1>9. Todo!RenderedOnce'
  BY <1>2, <1>5, RenderedIs DEF Todo!RenderedOnce, IsRendered
<1>10. QED
  BY <1>6, <1>7, <1>8, <1>9 DEF Todo!TodoInv

\* Where nothing was asked since, the list is as it was.
LEMMA ListRests ==
  ASSUME NEW new \in Seq(Entries), s1' = new, s2' = [kind |-> "none", text |-> None, before |-> new],
         s3' \in 0..MaxRequests
  PROVE  Todo!TodoInv'
<1>1. Todo!TypeOK'
  BY DEF Todo!TypeOK, Entries
<1>2. Todo!NoneMerged'
  BY WrittenList, SameTodo DEF Todo!NoneMerged
<1>3. Todo!AskedIsListed'
  BY DEF Todo!AskedIsListed
<1>4. Todo!RenderedOnce'
  BY RenderedIs DEF Todo!RenderedOnce, IsRendered
<1>5. QED
  BY <1>1, <1>2, <1>3, <1>4 DEF Todo!TodoInv

LEMMA TodoStart == Todo!Init => Todo!TodoInv
<1> SUFFICES ASSUME Todo!Init PROVE Todo!TodoInv
  OBVIOUS
<1>1. s1 \in Seq(Entries)
  BY TodoAssumption DEF Todo!Init, Entries
<1>2. Todo!TypeOK
  BY <1>1, TodoAssumption DEF Todo!Init, Todo!TypeOK, Entries
<1>3. Todo!NoneMerged
  BY <1>1, WrittenList, SameTodo DEF Todo!Init, Todo!NoneMerged
<1>4. Todo!AskedIsListed
  BY DEF Todo!Init, Todo!AskedIsListed
<1>5. Todo!RenderedOnce
  BY <1>1, RenderedIs DEF Todo!RenderedOnce, IsRendered
<1>6. QED
  BY <1>2, <1>3, <1>4, <1>5 DEF Todo!TodoInv

LEMMA TodoSteps == ASSUME Todo!TodoInv, Todo!Next PROVE Todo!TodoInv'
<1>1. CASE Todo!Rewrite
  <2>1. PICK new : new = s1'
    OBVIOUS
  <2>2. new \in Seq(Entries)
    BY <1>1, <2>1, RenderedIs DEF Todo!Rewrite, Todo!TodoInv, Todo!TypeOK, Entries, IsRendered
  <2>3. s2' = [kind |-> "none", text |-> None, before |-> new] /\ s3' \in 0..MaxRequests
    BY <1>1, <2>1 DEF Todo!Rewrite, Todo!TodoInv, Todo!TypeOK
  <2>4. QED
    BY <2>1, <2>2, <2>3, ListRests
<1>2. QED
  BY <1>1, RequestAnswered DEF Todo!Next

LEMMA TodoStays == ASSUME Todo!TodoInv, UNCHANGED <<s1, s2, s3>> PROVE Todo!TodoInv'
  BY DEF Todo!TodoInv, Todo!TypeOK, Todo!NoneMerged, Todo!AskedIsListed, Todo!RenderedOnce, Todo!Cardinality

-----------------------------------------------------------------------------
(* Graphs: s1 is the library, s2 the graph, s3 its communities and s4 the     *)
(* search for paths.                                                          *)

LEMMA SameGraph ==
  \A S : Explore!Cardinality(S) = Cardinality(S) /\ (Explore!IsFiniteSet(S) <=> IsFiniteSet(S))
  BY DEF Explore!Cardinality, Cardinality, Explore!IsFiniteSet, IsFiniteSet

LEMMA ImageFinite ==
  ASSUME NEW S, IsFiniteSet(S), NEW f
  PROVE  IsFiniteSet({f[x] : x \in S})
<1>1. PICK g : g = [x \in S |-> f[x]]
  OBVIOUS
<1>2. g \in Surjection(S, {f[x] : x \in S})
  BY <1>1 DEF Surjection
<1>3. QED
  BY <1>2, FS_Surjection

\* An edge has a weight and a cost.
LEMMA Weights ==
  ASSUME NEW e, e.weight \in Nat
  PROVE  Explore!Weight(e) \in Nat \ {0} /\ Explore!EdgeCost(e) \in Nat
<1>1. PICK T : T = {e.weight, 1}
  OBVIOUS
<1>2. \E x \in T : \A y \in T : x >= y
  BY <1>1
<1>3. PICK m : m = Explore!Max(T)
  OBVIOUS
<1>4. m = CHOOSE x \in T : \A y \in T : x >= y
  BY <1>3 DEF Explore!Max
<1>5. m \in T /\ \A y \in T : m >= y
  BY <1>2, <1>4, Zenon
<1>6. m \in Nat \ {0}
  BY <1>1, <1>5
<1>7. Explore!Weight(e) = m
  BY <1>1, <1>3 DEF Explore!Weight
<1>8. CostScale \div (m + 1) \in Nat
  BY <1>6, ExplorerAssumption
<1>9. QED
  BY <1>6, <1>7, <1>8 DEF Explore!EdgeCost

\* Edges that differ in their label or in an end have an order.
EdgeOrder(T) == {p \in T \X T : Explore!EdgeBefore(p[1], p[2])}

AreEdges(T) ==
  /\ \A e \in T : e.weight \in Nat /\ e.label \in Nat /\ e.source \in Nat /\ e.target \in Nat
  /\ \A e, f \in T : e.label = f.label /\ e.source = f.source /\ e.target = f.target => e = f

LEMMA EdgesFirst ==
  ASSUME NEW T, IsFiniteSet(T), AreEdges(T)
  PROVE  /\ Explore!FirstEdges(T) \subseteq T
         /\ IsFiniteSet(Explore!FirstEdges(T)) /\ Cardinality(Explore!FirstEdges(T)) <= EdgeLimit
<1>1. PICK R : R = EdgeOrder(T)
  OBVIOUS
<1>2. \A e, f \in T : <<e, f>> \in R <=> Explore!EdgeBefore(e, f)
  BY <1>1 DEF EdgeOrder
<1>3. IsOrder(R, T)
  <2>1. \A e \in T : <<e, e>> \notin R
    BY <1>2 DEF AreEdges, Explore!EdgeBefore
  <2>2. \A e, f \in T : e # f => <<e, f>> \in R \/ <<f, e>> \in R
    BY <1>2 DEF AreEdges, Explore!EdgeBefore
  <2>3. \A e, f, g \in T : <<e, f>> \in R /\ <<f, g>> \in R => <<e, g>> \in R
    BY <1>2 DEF AreEdges, Explore!EdgeBefore
  <2>4. QED
    BY <2>1, <2>2, <2>3 DEF IsOrder
<1>4. Explore!FirstEdges(T) = Few(T, R, EdgeLimit)
  <2>1. \A e \in T : {f \in T : Explore!EdgeBefore(f, e)} = {f \in T : <<f, e>> \in R}
    BY <1>2
  <2>2. \A e \in T : Explore!Cardinality({f \in T : Explore!EdgeBefore(f, e)}) = Rank(e, R, T)
    BY <2>1, SameGraph DEF Rank
  <2>3. Explore!FirstEdges(T) = {e \in T : Explore!Cardinality({f \in T : Explore!EdgeBefore(f, e)}) < EdgeLimit}
    BY DEF Explore!FirstEdges, Explore!First
  <2>4. QED
    BY <2>2, <2>3 DEF Few
<1>5. QED
  BY <1>3, <1>4, FirstFew, ExplorerAssumption

\* The facts of some conversations.
LEMMA FactsAre ==
  ASSUME s1 \in [Conversations -> Contents], NEW S \in SUBSET Conversations
  PROVE  /\ IsFiniteSet(S) /\ IsFiniteSet(Explore!Facts(S))
         /\ \A f \in Explore!Facts(S) : /\ f = <<f[1], f[2], f[3]>> /\ f[1] \in Nat \ {0} /\ f[2] \in Nat
                                       /\ f[3] \in Nat \ {0}
<1>1. IsFiniteSet(S)
  BY ExplorerAssumption, FS_Subset
<1>2. PICK held : held = [c \in S |-> s1[c].facts]
  OBVIOUS
<1>3. IsFiniteSet({held[c] : c \in S})
  BY <1>1, ImageFinite
<1>4. \A T \in {held[c] : c \in S} : IsFiniteSet(T)
  BY <1>2, ExplorerAssumption
<1>5. IsFiniteSet(UNION {held[c] : c \in S})
  BY <1>3, <1>4, FS_UNION
<1>6. {held[c] : c \in S} = {s1[c].facts : c \in S}
  BY <1>2
<1>7. \A f \in Explore!Facts(S) : \E c \in S : f \in s1[c].facts
  BY DEF Explore!Facts
<1>8. QED
  BY <1>1, <1>5, <1>6, <1>7, ExplorerAssumption DEF Explore!Facts

\* The entities that most facts name, and the newest conversations.
LEMMA EndsFirst ==
  ASSUME s1 \in [Conversations -> Contents], NEW S \in SUBSET Conversations
  PROVE  /\ Explore!FirstEnds(S) \subseteq Nat \ {0}
         /\ IsFiniteSet(Explore!FirstEnds(S)) /\ Cardinality(Explore!FirstEnds(S)) <= NodeLimit
<1>1. PICK facts : facts = Explore!Facts(S)
  OBVIOUS
<1>2. IsFiniteSet(S) /\ IsFiniteSet(facts) /\ \A f \in facts : f[1] \in Nat \ {0} /\ f[3] \in Nat \ {0}
  BY <1>1, FactsAre
<1>3. PICK T : T = Explore!Ends(S)
  OBVIOUS
<1>4. T = {f[1] : f \in facts} \cup {f[3] : f \in facts}
  BY <1>1, <1>3 DEF Explore!Ends
<1>5. T \subseteq Nat \ {0}
  BY <1>2, <1>4
<1>6. IsFiniteSet(T)
  <2>1. PICK subject : subject = [f \in facts |-> f[1]]
    OBVIOUS
  <2>2. PICK object : object = [f \in facts |-> f[3]]
    OBVIOUS
  <2>3. IsFiniteSet({subject[f] : f \in facts}) /\ IsFiniteSet({object[f] : f \in facts})
    BY <1>2, ImageFinite
  <2>4. {subject[f] : f \in facts} = {f[1] : f \in facts} /\ {object[f] : f \in facts} = {f[3] : f \in facts}
    BY <2>1, <2>2
  <2>5. QED
    BY <1>4, <2>3, <2>4, FS_Union
<1>7. \A n \in T : Explore!Cardinality(Explore!Mentions(S, n)) \in Nat
  <2>1. TAKE n \in T
  <2>2. IsFiniteSet({1, 3})
    <3>1. IsFiniteSet({1} \cup {3})
      BY FS_Singleton, FS_Union
    <3>2. QED
      BY <3>1
  <2>3. IsFiniteSet(S \X (facts \X {1, 3}))
    <3>1. IsFiniteSet(facts \X {1, 3})
      BY <1>2, <2>2, FS_Product
    <3>2. QED
      BY <1>2, <3>1, FS_Product
  <2>4. PICK all : all = S \X facts \X {1, 3}
    OBVIOUS
  <2>5. IsFiniteSet(all)
    <3>1. PICK pack : pack = [t \in S \X (facts \X {1, 3}) |-> <<t[1], t[2][1], t[2][2]>>]
      OBVIOUS
    <3>2. IsFiniteSet({pack[t] : t \in S \X (facts \X {1, 3})})
      BY <2>3, ImageFinite
    <3>3. \A x \in all : x \in {pack[t] : t \in S \X (facts \X {1, 3})}
      <4>1. TAKE x \in all
      <4>2. x = <<x[1], x[2], x[3]>> /\ x[1] \in S /\ x[2] \in facts /\ x[3] \in {1, 3}
        BY <2>4
      <4>3. PICK t : t = <<x[1], <<x[2], x[3]>>>>
        OBVIOUS
      <4>4. t \in S \X (facts \X {1, 3}) /\ pack[t] = <<x[1], x[2], x[3]>>
        BY <3>1, <4>2, <4>3
      <4>5. t \in S \X (facts \X {1, 3}) /\ x = pack[t]
        BY <4>2, <4>4
      <4>6. QED
        BY <4>5, Zenon
    <3>4. all \subseteq {pack[t] : t \in S \X (facts \X {1, 3})}
      BY <3>3
    <3>5. QED
      BY <3>2, <3>4, FS_Subset
  <2>6. Explore!Mentions(S, n) \in SUBSET all
    BY <1>1, <2>4 DEF Explore!Mentions
  <2>7. IsFiniteSet(Explore!Mentions(S, n))
    BY <2>5, <2>6, FS_Subset
  <2>8. QED
    BY <2>7, FS_CardinalityType, SameGraph
<1>8. PICK R : R = {p \in T \X T : Explore!MoreOften(S, p[1], p[2])}
  OBVIOUS
<1>9. \A m, n \in T : <<m, n>> \in R <=>
        \/ Explore!Cardinality(Explore!Mentions(S, m)) > Explore!Cardinality(Explore!Mentions(S, n))
        \/ /\ Explore!Cardinality(Explore!Mentions(S, m)) = Explore!Cardinality(Explore!Mentions(S, n))
           /\ m < n
  BY <1>8 DEF Explore!MoreOften
<1>10. IsOrder(R, T)
  BY <1>5, <1>7, <1>9 DEF IsOrder
<1>11. Explore!FirstEnds(S) = Few(T, R, NodeLimit)
  <2>1. \A n \in T : {m \in T : Explore!MoreOften(S, m, n)} = {m \in T : <<m, n>> \in R}
    BY <1>8
  <2>2. \A n \in T : Explore!Cardinality({m \in T : Explore!MoreOften(S, m, n)}) = Rank(n, R, T)
    BY <2>1, SameGraph DEF Rank
  <2>3. Explore!FirstEnds(S) = {n \in T : Explore!Cardinality({m \in T : Explore!MoreOften(S, m, n)}) < NodeLimit}
    BY <1>3 DEF Explore!FirstEnds, Explore!First
  <2>4. QED
    BY <2>2, <2>3 DEF Few
<1>12. QED
  BY <1>5, <1>6, <1>10, <1>11, FirstFew, ExplorerAssumption

LEMMA NewestFirst ==
  ASSUME NEW S \in SUBSET Conversations
  PROVE  /\ Explore!Newest(S) \subseteq S /\ S \subseteq Nat \ {0}
         /\ IsFiniteSet(Explore!Newest(S)) /\ Cardinality(Explore!Newest(S)) <= NodeLimit
<1>1. IsFiniteSet(S) /\ S \subseteq Nat \ {0}
  BY ExplorerAssumption, FS_Subset
<1>2. PICK R : R = Upward(S)
  OBVIOUS
<1>3. IsOrder(R, S)
  BY <1>1, <1>2, UpwardOrder
<1>4. Explore!Newest(S) = Few(S, R, NodeLimit)
  <2>1. \A n \in S : {m \in S : m < n} = {m \in S : <<m, n>> \in R}
    BY <1>2 DEF Upward
  <2>2. \A n \in S : Explore!Cardinality({m \in S : m < n}) = Rank(n, R, S)
    BY <2>1, SameGraph DEF Rank
  <2>3. Explore!Newest(S) = {n \in S : Explore!Cardinality({m \in S : m < n}) < NodeLimit}
    BY DEF Explore!Newest, Explore!First
  <2>4. QED
    BY <2>2, <2>3 DEF Few
<1>5. QED
  BY <1>1, <1>3, <1>4, FirstFew, ExplorerAssumption

LEMMA FactualIsSound ==
  ASSUME s1 \in [Conversations -> Contents], NEW S \in SUBSET Conversations
  PROVE  Explore!Sound(Explore!FactualGraph(S))
<1>1. PICK nodes : nodes = Explore!FirstEnds(S)
  OBVIOUS
<1>2. nodes \subseteq Nat \ {0} /\ IsFiniteSet(nodes) /\ Cardinality(nodes) <= NodeLimit
  BY <1>1, EndsFirst
<1>3. PICK facts : facts = {f \in Explore!Facts(S) : {f[1], f[3]} \subseteq nodes}
  OBVIOUS
<1>4. /\ IsFiniteSet(facts) /\ facts \subseteq Explore!Facts(S)
      /\ \A f \in facts : f = <<f[1], f[2], f[3]>> /\ f[1] \in nodes /\ f[2] \in Nat /\ f[3] \in nodes
  <2>1. facts \in SUBSET Explore!Facts(S)
    BY <1>3
  <2>2. IsFiniteSet(facts)
    BY <2>1, FactsAre, FS_Subset
  <2>3. QED
    BY <1>3, <2>1, <2>2, FactsAre
<1>5. \A f : Explore!Tellers(S, f) \in SUBSET Conversations /\ Explore!Cardinality(Explore!Tellers(S, f)) \in Nat
  <2>1. TAKE f
  <2>2. Explore!Tellers(S, f) \in SUBSET Conversations
    BY DEF Explore!Tellers
  <2>3. IsFiniteSet(Explore!Tellers(S, f))
    BY <2>2, ExplorerAssumption, FS_Subset
  <2>4. QED
    BY <2>2, <2>3, FS_CardinalityType, SameGraph
<1>6. PICK edge : edge = [f \in facts |-> Explore!FactEdge(S, f)]
  OBVIOUS
<1>7. PICK T : T = {edge[f] : f \in facts}
  OBVIOUS
<1>8. IsFiniteSet(T)
  BY <1>4, <1>7, ImageFinite
<1>9. \A f \in facts : /\ edge[f].source = f[1] /\ edge[f].label = f[2] /\ edge[f].target = f[3]
                       /\ edge[f] \in [source : nodes, label : Nat, target : nodes, weight : Nat,
                                       sessions : SUBSET Conversations]
  BY <1>4, <1>5, <1>6 DEF Explore!FactEdge
<1>10. \A e \in T : e \in [source : nodes, label : Nat, target : nodes, weight : Nat, sessions : SUBSET Conversations]
  BY <1>7, <1>9
<1>11. \A e, f \in T : e.label = f.label /\ e.source = f.source /\ e.target = f.target => e = f
  <2>1. TAKE e, f \in T
  <2>2. PICK a \in facts : e = edge[a]
    BY <1>7
  <2>3. PICK b \in facts : f = edge[b]
    BY <1>7
  <2>4. HAVE e.label = f.label /\ e.source = f.source /\ e.target = f.target
  <2>5. a[1] = b[1] /\ a[2] = b[2] /\ a[3] = b[3]
    BY <1>9, <2>2, <2>3, <2>4
  <2>6. a = b
    BY <1>4, <2>5
  <2>7. QED
    BY <2>2, <2>3, <2>6
<1>12. AreEdges(T)
  BY <1>2, <1>10, <1>11 DEF AreEdges
<1>13. PICK edges : edges = Explore!FirstEdges(T)
  OBVIOUS
<1>14. edges \subseteq T /\ IsFiniteSet(edges) /\ Cardinality(edges) <= EdgeLimit
  BY <1>8, <1>12, <1>13, EdgesFirst
<1>15. PICK g : g = Explore!FactualGraph(S)
  OBVIOUS
<1>16. /\ g.nodes = nodes /\ g.edges = edges
       /\ g.sessions = [n \in nodes |-> {c \in S : \E f \in s1[c].facts : n \in {f[1], f[3]}}]
  <2>1. T = {Explore!FactEdge(S, f) : f \in {h \in Explore!Facts(S) : {h[1], h[3]} \subseteq nodes}}
    BY <1>3, <1>6, <1>7
  <2>2. QED
    BY <1>1, <1>13, <1>15, <2>1 DEF Explore!FactualGraph
<1>17. g.sessions \in [nodes -> SUBSET Conversations]
  BY <1>16
<1>18. Explore!Sound(g)
  BY <1>2, <1>10, <1>11, <1>14, <1>16, <1>17, SameGraph DEF Explore!Sound, Explore!Peripheral
<1>19. QED
  BY <1>15, <1>18

LEMMA InTurnIs == \A places : Explore!InTurn(places) = Places(places)
<1>1. ASSUME NEW places, NEW x \in places
      PROVE  Explore!Cardinality({y \in places : y < x}) = Rank(x, Upward(places), places)
  <2>1. {y \in places : y < x} = {y \in places : <<y, x>> \in Upward(places)}
    BY DEF Upward
  <2>2. QED
    BY <2>1, SameGraph DEF Rank
<1>2. QED
  BY <1>1, SameGraph DEF Explore!InTurn, Explore!Sorted, Places, InOrder

LEMMA SharedIs ==
  ASSUME s1 \in [Conversations -> Contents], NEW c \in Conversations, NEW d \in Conversations,
         Cardinality(Explore!Shared(c, d)) >= 2
  PROVE  /\ Explore!SharedEdge(c, d).source = c /\ Explore!SharedEdge(c, d).target = d
         /\ Explore!SharedEdge(c, d).label \in Nat /\ Explore!SharedEdge(c, d).weight \in Nat
         /\ Explore!SharedEdge(c, d).sessions = {c, d}
         /\ Explore!SharedEdge(c, d) \in [source : {c}, label : Nat, target : {d}, weight : Nat,
                                         sessions : SUBSET Conversations]
<1>1. PICK words : words = Explore!Shared(c, d)
  OBVIOUS
<1>2. words \subseteq Nat /\ IsFiniteSet(words)
  <2>1. words \in SUBSET s1[c].words
    BY <1>1 DEF Explore!Shared
  <2>2. s1[c].words \subseteq Nat /\ IsFiniteSet(s1[c].words)
    BY ExplorerAssumption
  <2>3. QED
    BY <2>1, <2>2, FS_Subset
<1>3. Cardinality(words) \in Nat /\ Cardinality(words) >= 2
  BY <1>1, <1>2, FS_CardinalityType
<1>4. PICK sorted : sorted = Explore!InTurn(words)
  OBVIOUS
<1>5. sorted = Places(words)
  BY <1>4, InTurnIs
<1>6. sorted \in Seq(words) /\ Len(sorted) = Cardinality(words)
  <2>1. IsOrder(Upward(words), words)
    BY <1>2, UpwardOrder
  <2>2. IsListing(InOrder(words, Upward(words)), words, Upward(words))
    BY <1>2, <2>1, Listed
  <2>3. IsListing(sorted, words, Upward(words))
    BY <1>5, <2>2, Zenon DEF Places
  <2>4. QED
    BY <2>3 DEF IsListing
<1>7. sorted[1] \in Nat /\ sorted[2] \in Nat /\ (Cardinality(words) > 2 => sorted[3] \in Nat)
  <2>1. \A i \in 1..Cardinality(words) : sorted[i] \in Nat
    <3>1. \A i \in 1..Len(sorted) : sorted[i] \in words
      BY <1>6, ElementOfSeq
    <3>2. QED
      BY <1>2, <1>6, <3>1
  <2>2. PICK n \in Nat : n = Cardinality(words)
    BY <1>3
  <2>3. 1 \in 1..n /\ 2 \in 1..n /\ (n > 2 => 3 \in 1..n)
    BY <1>3, <2>2
  <2>4. QED
    BY <2>1, <2>2, <2>3
<1>8. PICK label : label = Explore!SharedLabel(words)
  OBVIOUS
<1>9. label \in Nat
  <2>1. label = 100 * sorted[1] + 10 * sorted[2] + IF Cardinality(words) > 2 THEN sorted[3] ELSE 0
    BY <1>4, <1>8, SameGraph DEF Explore!SharedLabel
  <2>2. QED
    BY <1>7, <2>1
<1>10. PICK weight : weight = Explore!Min({Cardinality(words), 8})
  OBVIOUS
<1>11. weight \in Nat
  <2>1. PICK T : T = {Cardinality(words), 8}
    OBVIOUS
  <2>2. T \in SUBSET Nat /\ T # {}
    BY <1>3, <2>1
  <2>3. \E x \in T : \A y \in T : x <= y
    BY <2>2, LeastNat
  <2>4. weight = CHOOSE x \in T : \A y \in T : x <= y
    BY <1>10, <2>1 DEF Explore!Min
  <2>5. weight \in T
    BY <2>3, <2>4, Zenon
  <2>6. QED
    BY <2>2, <2>5
<1>12. Explore!SharedEdge(c, d) =
         [source |-> c, label |-> label, target |-> d, weight |-> weight, sessions |-> {c, d}]
  BY <1>1, <1>8, <1>10, SameGraph DEF Explore!SharedEdge
<1>13. QED
  BY <1>9, <1>11, <1>12

LEMMA SimilarityIsSound ==
  ASSUME s1 \in [Conversations -> Contents], NEW S \in SUBSET Conversations
  PROVE  Explore!Sound(Explore!SimilarityGraph(S))
<1>1. PICK nodes : nodes = Explore!Newest(S)
  OBVIOUS
<1>2. /\ nodes \subseteq Nat \ {0} /\ nodes \subseteq Conversations
      /\ IsFiniteSet(nodes) /\ Cardinality(nodes) <= NodeLimit
  BY <1>1, NewestFirst
<1>3. PICK pairs : pairs = {p \in nodes \X nodes : p[1] < p[2] /\ Cardinality(Explore!Shared(p[1], p[2])) >= 2}
  OBVIOUS
<1>4. IsFiniteSet(pairs)
  <2>1. IsFiniteSet(nodes \X nodes)
    BY <1>2, FS_Product
  <2>2. pairs \in SUBSET (nodes \X nodes)
    BY <1>3
  <2>3. QED
    BY <2>1, <2>2, FS_Subset
<1>5. PICK edge : edge = [p \in pairs |-> Explore!SharedEdge(p[1], p[2])]
  OBVIOUS
<1>6. PICK T : T = {edge[p] : p \in pairs}
  OBVIOUS
<1>7. IsFiniteSet(T)
  BY <1>4, <1>6, ImageFinite
<1>8. \A p \in pairs : /\ p = <<p[1], p[2]>> /\ edge[p].source = p[1] /\ edge[p].target = p[2]
                       /\ edge[p] \in [source : nodes, label : Nat, target : nodes, weight : Nat,
                                       sessions : SUBSET Conversations]
  <2>1. TAKE p \in pairs
  <2>1a. p \in nodes \X nodes /\ Cardinality(Explore!Shared(p[1], p[2])) >= 2
    BY <1>3
  <2>1b. p = <<p[1], p[2]>> /\ p[1] \in nodes /\ p[2] \in nodes
    BY <2>1a
  <2>2. /\ p = <<p[1], p[2]>> /\ p[1] \in nodes /\ p[2] \in nodes /\ p[1] \in Conversations
        /\ p[2] \in Conversations /\ Cardinality(Explore!Shared(p[1], p[2])) >= 2
    BY <1>2, <2>1a, <2>1b
  <2>3. PICK e : e = Explore!SharedEdge(p[1], p[2])
    OBVIOUS
  <2>4. /\ e.source = p[1] /\ e.target = p[2]
        /\ e \in [source : {p[1]}, label : Nat, target : {p[2]}, weight : Nat, sessions : SUBSET Conversations]
    BY <2>2, <2>3, SharedIs
  <2>5. QED
    BY <1>5, <2>2, <2>3, <2>4
<1>9. \A e \in T : e \in [source : nodes, label : Nat, target : nodes, weight : Nat, sessions : SUBSET Conversations]
  BY <1>6, <1>8
<1>10. \A e, f \in T : e.label = f.label /\ e.source = f.source /\ e.target = f.target => e = f
  <2>1. TAKE e, f \in T
  <2>2. PICK a \in pairs : e = edge[a]
    BY <1>6
  <2>3. PICK b \in pairs : f = edge[b]
    BY <1>6
  <2>4. HAVE e.label = f.label /\ e.source = f.source /\ e.target = f.target
  <2>5. a = b
    BY <1>8, <2>2, <2>3, <2>4
  <2>6. QED
    BY <2>2, <2>3, <2>5
<1>11. AreEdges(T)
  BY <1>2, <1>9, <1>10 DEF AreEdges
<1>12. PICK edges : edges = Explore!FirstEdges(T)
  OBVIOUS
<1>13. edges \subseteq T /\ IsFiniteSet(edges) /\ Cardinality(edges) <= EdgeLimit
  BY <1>7, <1>11, <1>12, EdgesFirst
<1>14. PICK g : g = Explore!SimilarityGraph(S)
  OBVIOUS
<1>15. g.nodes = nodes /\ g.edges = edges /\ g.sessions = [n \in nodes |-> {n}]
  <2>1. pairs = {p \in nodes \X nodes : p[1] < p[2] /\ Explore!Cardinality(Explore!Shared(p[1], p[2])) >= 2}
    BY <1>3, SameGraph
  <2>2. T = {Explore!SharedEdge(p[1], p[2]) : p \in pairs}
    BY <1>5, <1>6
  <2>3. QED
    BY <1>1, <1>12, <1>14, <2>1, <2>2 DEF Explore!SimilarityGraph
<1>16. g.sessions \in [nodes -> SUBSET Conversations]
  BY <1>2, <1>15
<1>17. Explore!Sound(g)
  BY <1>2, <1>9, <1>10, <1>13, <1>15, <1>16, SameGraph DEF Explore!Sound, Explore!Peripheral
<1>18. QED
  BY <1>14, <1>17

\* Neighbours and connections.
LEMMA NeighborsAre ==
  ASSUME NEW g, NEW m \in g.nodes, NEW n \in g.nodes
  PROVE  /\ Explore!Neighbors(g, n) \subseteq g.nodes
         /\ m \in Explore!Neighbors(g, n) <=> n \in Explore!Neighbors(g, m)
<1>1. Explore!Between(g, m, n) = Explore!Between(g, n, m)
  <2>1. {m, n} = {n, m}
    OBVIOUS
  <2>2. QED
    BY <2>1 DEF Explore!Between
<1>2. QED
  BY <1>1 DEF Explore!Neighbors, Explore!Adjacent

LEMMA ConnectedAll ==
  ASSUME NEW g, NEW a \in g.nodes, NEW b \in g.nodes
  PROVE  /\ Explore!Connected(g, a, a)
         /\ b \in Explore!Neighbors(g, a) => Explore!Connected(g, a, b)
         /\ Explore!Connected(g, a, b) => Explore!Connected(g, b, a)
         /\ \A c : Explore!Connected(g, a, b) /\ Explore!Connected(g, b, c) => Explore!Connected(g, a, c)
<1>1. Explore!Connected(g, a, a)
  BY DEF Explore!Connected
<1>2. b \in Explore!Neighbors(g, a) => Explore!Connected(g, a, b)
  BY DEF Explore!Connected
<1>3. ASSUME Explore!Connected(g, a, b) PROVE Explore!Connected(g, b, a)
  <2>1. SUFFICES ASSUME NEW S \in SUBSET g.nodes, b \in S, \A x \in S : Explore!Neighbors(g, x) \subseteq S, a \notin S
                 PROVE  FALSE
    BY DEF Explore!Connected
  <2>2. PICK T : T = g.nodes \ S
    OBVIOUS
  <2>3. \A x \in T : Explore!Neighbors(g, x) \subseteq T
    <3>1. TAKE x \in T
    <3>2. ASSUME NEW y \in Explore!Neighbors(g, x) PROVE y \in T
      <4>1. y \in g.nodes /\ x \in g.nodes /\ x \notin S
        BY <2>2, NeighborsAre
      <4>2. x \in Explore!Neighbors(g, y)
        BY <3>2, <4>1, NeighborsAre
      <4>3. y \notin S
        BY <2>1, <4>1, <4>2
      <4>4. QED
        BY <2>2, <4>1, <4>3
    <3>3. QED
      BY <3>2
  <2>4. T \in SUBSET g.nodes /\ a \in T /\ b \notin T
    BY <2>1, <2>2
  <2>5. QED
    BY <1>3, <2>3, <2>4 DEF Explore!Connected
<1>4. \A c : Explore!Connected(g, a, b) /\ Explore!Connected(g, b, c) => Explore!Connected(g, a, c)
  BY DEF Explore!Connected
<1>5. QED
  BY <1>1, <1>2, <1>3, <1>4

\* Votes can be counted.
LEMMA ScoreIsNat ==
  ASSUME NEW g, Explore!Sound(g), NEW community, NEW n, NEW c
  PROVE  Explore!Score(g, community, n, c) \in Nat
<1>1. PICK edges : edges = UNION {Explore!Between(g, m, n) : m \in {x \in Explore!Neighbors(g, n) : community[x] = c}}
  OBVIOUS
<1>2. edges \subseteq g.edges
  BY <1>1 DEF Explore!Between
<1>3. IsFiniteSet(g.edges) /\ \A e \in g.edges : Explore!Weight(e) \in Nat \ {0}
  BY Weights, SameGraph DEF Explore!Sound
<1>4. IsFiniteSet(edges)
  BY <1>2, <1>3, FS_Subset
<1>5. PICK votes : votes = [e \in edges |-> {e} \X (1..Explore!Weight(e))]
  OBVIOUS
<1>6. IsFiniteSet({votes[e] : e \in edges})
  BY <1>4, ImageFinite
<1>7. \A T \in {votes[e] : e \in edges} : IsFiniteSet(T)
  <2>1. ASSUME NEW e \in edges PROVE IsFiniteSet({e} \X (1..Explore!Weight(e)))
    <3>1. IsFiniteSet({e}) /\ IsFiniteSet(1..Explore!Weight(e))
      BY <1>2, <1>3, FS_Singleton, UpTo
    <3>2. QED
      BY <3>1, FS_Product
  <2>2. QED
    BY <1>5, <2>1
<1>8. IsFiniteSet(UNION {votes[e] : e \in edges})
  BY <1>6, <1>7, FS_UNION
<1>9. {votes[e] : e \in edges} = {{e} \X (1..Explore!Weight(e)) : e \in edges}
  BY <1>5
<1>10. IsFiniteSet(Explore!Votes(edges))
  BY <1>8, <1>9 DEF Explore!Votes
<1>11. Explore!Score(g, community, n, c) = Cardinality(Explore!Votes(edges))
  BY <1>1, SameGraph DEF Explore!Score
<1>12. QED
  BY <1>10, <1>11, FS_CardinalityType

\* A node with neighbours gets the community of one of them.
LEMMA BestIsOption ==
  ASSUME NEW g, Explore!Sound(g), NEW community \in [g.nodes -> g.nodes \cup {0}], NEW n \in g.nodes,
         Explore!Neighbors(g, n) # {}
  PROVE  Explore!BestCommunity(g, community, n) \in Explore!Options(g, community, n)
<1>1. PICK options : options = Explore!Options(g, community, n)
  OBVIOUS
<1>2. options # {} /\ IsFiniteSet(options) /\ options \subseteq Nat
  <2>1. Explore!Neighbors(g, n) \in SUBSET g.nodes
    BY DEF Explore!Neighbors
  <2>2. g.nodes \subseteq Nat /\ IsFiniteSet(g.nodes)
    BY SameGraph DEF Explore!Sound
  <2>3. IsFiniteSet(Explore!Neighbors(g, n))
    BY <2>1, <2>2, FS_Subset
  <2>4. IsFiniteSet({community[m] : m \in Explore!Neighbors(g, n)})
    BY <2>3, ImageFinite
  <2>5. QED
    BY <1>1, <2>1, <2>2, <2>4 DEF Explore!Options
<1>3. PICK score : score = [c \in options |-> Explore!Score(g, community, n, c)]
  OBVIOUS
<1>4. PICK scores : scores = {score[c] : c \in options}
  OBVIOUS
<1>5. scores \in SUBSET Nat /\ IsFiniteSet(scores) /\ scores # {}
  <2>1. scores \in SUBSET Nat
    BY <1>3, <1>4, ScoreIsNat
  <2>2. QED
    BY <1>2, <1>4, <2>1, ImageFinite
<1>6. PICK most \in scores : \A s \in scores : most >= s
  BY <1>5, GreatestNat
<1>7. PICK top \in options : most = score[top]
  BY <1>4
<1>8. PICK best : best = Explore!Best(g, community, n)
  OBVIOUS
<1>9. best = {c \in options : \A d \in options : score[c] >= score[d]}
  BY <1>1, <1>3, <1>8 DEF Explore!Best
<1>10. top \in best /\ best \subseteq options
  BY <1>4, <1>6, <1>7, <1>9
<1>11. best \in SUBSET Nat /\ IsFiniteSet(best) /\ best # {}
  BY <1>2, <1>10, FS_Subset
<1>12. \E x \in best : \A y \in best : x >= y
  BY <1>11, GreatestNat
<1>13. PICK greatest : greatest = Explore!Max(best)
  OBVIOUS
<1>14. greatest = CHOOSE x \in best : \A y \in best : x >= y
  BY <1>13 DEF Explore!Max
<1>15. greatest \in best
  BY <1>12, <1>14, Zenon
<1>16. Explore!BestCommunity(g, community, n) = IF community[n] \in best THEN community[n] ELSE greatest
  BY <1>8, <1>13 DEF Explore!BestCommunity
<1>17. QED
  BY <1>1, <1>10, <1>15, <1>16

\* A round visits someone who is left.
LEMMA NextIsLeft ==
  ASSUME NEW g, Explore!Sound(g), NEW left \in SUBSET g.nodes, left # {}
  PROVE  Explore!NextOf(g, left) \in left
<1>1. IsFiniteSet(left) /\ left \subseteq Nat /\ IsFiniteSet(g.nodes)
  BY FS_Subset, SameGraph DEF Explore!Sound
<1>2. \A x \in left : Explore!Cardinality(Explore!Neighbors(g, x)) \in Nat /\ Explore!Cardinality(g.sessions[x]) \in Nat
  <2>1. TAKE x \in left
  <2>2. Explore!Neighbors(g, x) \in SUBSET g.nodes
    BY DEF Explore!Neighbors
  <2>3. IsFiniteSet(Explore!Neighbors(g, x))
    BY <1>1, <2>2, FS_Subset
  <2>4. g.sessions[x] \in SUBSET Conversations
    BY DEF Explore!Sound
  <2>5. IsFiniteSet(g.sessions[x])
    BY <2>4, ExplorerAssumption, FS_Subset
  <2>6. QED
    BY <2>3, <2>5, FS_CardinalityType, SameGraph
<1>3. PICK R : R = {p \in left \X left : Explore!RankedBefore(g, p[1], p[2])}
  OBVIOUS
<1>4. \A x, y \in left : <<x, y>> \in R <=>
        \/ Explore!Cardinality(Explore!Neighbors(g, x)) > Explore!Cardinality(Explore!Neighbors(g, y))
        \/ /\ Explore!Cardinality(Explore!Neighbors(g, x)) = Explore!Cardinality(Explore!Neighbors(g, y))
           /\ \/ Explore!Cardinality(g.sessions[x]) > Explore!Cardinality(g.sessions[y])
              \/ Explore!Cardinality(g.sessions[x]) = Explore!Cardinality(g.sessions[y]) /\ x < y
  BY <1>3 DEF Explore!RankedBefore
<1>5. IsOrder(R, left)
  BY <1>1, <1>2, <1>4 DEF IsOrder
<1>6. PICK x \in left : \A y \in left : x = y \/ <<x, y>> \in R
  BY <1>1, <1>5, FirstOne
<1>7. \A y \in left : x = y \/ Explore!RankedBefore(g, x, y)
  BY <1>3, <1>6
<1>8. QED
  BY <1>7, Zenon DEF Explore!NextOf

\* Communities as a graph starts with them, each node its own.
LEMMA SpreadStarts ==
  ASSUME NEW g, Explore!Sound(g), NEW p,
         p = [community |-> [n \in g.nodes |-> n], round |-> 1, visited |-> {}, changed |-> FALSE, done |-> g.nodes = {}]
  PROVE  Explore!Spreading(g, p)
<1>1. /\ p.community = [n \in g.nodes |-> n] /\ p.round = 1 /\ p.visited = {}
      /\ p.changed = FALSE /\ (p.done <=> g.nodes = {}) /\ p.done \in BOOLEAN
  OBVIOUS
<1>2. 0 \notin g.nodes
  BY DEF Explore!Sound, Explore!Peripheral
<1>3. \A n \in g.nodes : p.community[n] = n /\ n # 0 /\ Explore!Connected(g, n, n) /\ ~p.done /\ n \notin p.visited
  BY <1>1, <1>2, ConnectedAll
<1>4. p.community \in [g.nodes -> g.nodes \cup {Explore!Peripheral}]
  BY <1>1
<1>5. QED
  BY <1>1, <1>3, <1>4 DEF Explore!Spreading, Explore!Peripheral

\* A visit keeps what was found of the communities.
LEMMA VisitSpreads ==
  ASSUME NEW g, Explore!Sound(g), NEW p, Explore!Spreading(g, p), ~p.done,
         NEW n \in g.nodes \ p.visited
  PROVE  Explore!Spreading(g, Explore!Visited(g, p, n))
<1>1. PICK to : to = Explore!BestCommunity(g, p.community, n)
  OBVIOUS
<1>2. PICK changed : changed = (p.changed \/ to # p.community[n])
  OBVIOUS
<1>3. PICK last : last = (g.nodes \ p.visited = {n})
  OBVIOUS
<1>4. PICK done : done = (last /\ (~changed \/ p.round = Rounds))
  OBVIOUS
<1>5. PICK q : q = Explore!Visited(g, p, n)
  OBVIOUS
<1>6. /\ q.community = [p.community EXCEPT ![n] = to]
      /\ q.round = (IF last THEN p.round + 1 ELSE p.round)
      /\ q.visited = (IF last THEN {} ELSE p.visited \cup {n})
      /\ q.changed = (changed /\ (last => done))
      /\ q.done = done
  BY <1>1, <1>2, <1>3, <1>4, <1>5 DEF Explore!Visited, Explore!Changed
<1>7. changed \in BOOLEAN /\ last \in BOOLEAN /\ done \in BOOLEAN
  BY <1>2, <1>3, <1>4
<1>8. /\ p.community \in [g.nodes -> g.nodes \cup {0}] /\ p.visited \subseteq g.nodes
      /\ p.round \in Nat \ {0} /\ p.changed \in BOOLEAN /\ p.visited # g.nodes
      /\ \A x \in g.nodes :
           /\ p.community[x] = 0 => Explore!Neighbors(g, x) = {}
           /\ p.community[x] # 0 => Explore!Connected(g, x, p.community[x])
           /\ (p.round > 1 \/ x \in p.visited) /\ Explore!Neighbors(g, x) = {} => p.community[x] = 0
           /\ ~p.changed /\ x \in p.visited => Explore!BestCommunity(g, p.community, x) = p.community[x]
  BY DEF Explore!Spreading, Explore!Peripheral
<1>9. \A x \in g.nodes : q.community[x] = IF x = n THEN to ELSE p.community[x]
  BY <1>6, <1>8
<1>10. /\ to \in g.nodes \cup {0} /\ (to = 0 <=> Explore!Neighbors(g, n) = {})
       /\ to # 0 => Explore!Connected(g, n, to)
  <2>1. CASE Explore!Neighbors(g, n) = {}
    BY <1>1, <2>1 DEF Explore!BestCommunity, Explore!Peripheral
  <2>2. CASE Explore!Neighbors(g, n) # {}
    <3>1. PICK m \in Explore!Neighbors(g, n) : to = p.community[m]
      BY <1>1, <1>8, <2>2, BestIsOption DEF Explore!Options
    <3>2. m \in g.nodes /\ n \in Explore!Neighbors(g, m)
      BY <3>1, NeighborsAre DEF Explore!Neighbors
    <3>3. to # 0 /\ Explore!Connected(g, m, to)
      BY <1>8, <3>1, <3>2
    <3>4. Explore!Connected(g, n, m)
      BY <3>1, <3>2, ConnectedAll
    <3>5. Explore!Connected(g, n, to)
      BY <3>2, <3>3, <3>4, ConnectedAll
    <3>6. QED
      BY <1>8, <2>2, <3>1, <3>2, <3>3, <3>5
  <2>3. QED
    BY <2>1, <2>2
<1>11. q.community \in [g.nodes -> g.nodes \cup {0}] /\ q.visited \subseteq g.nodes /\ q.round \in Nat \ {0}
       /\ q.changed \in BOOLEAN /\ q.done \in BOOLEAN
  BY <1>6, <1>7, <1>8, <1>10
<1>12. ~q.done => q.visited # g.nodes
  <2>1. CASE last
    BY <1>6, <2>1
  <2>2. CASE ~last
    <3>1. \E x \in g.nodes \ p.visited : x # n
      BY <1>3, <2>2
    <3>2. QED
      BY <1>6, <2>2, <3>1
  <2>3. QED
    BY <2>1, <2>2
<1>13. q.done => q.round > 1
  <2>1. SUFFICES ASSUME q.done PROVE q.round > 1
    OBVIOUS
  <2>2. last
    BY <1>4, <1>6, <2>1
  <2>3. q.round = p.round + 1 /\ p.round \in Nat \ {0}
    BY <1>6, <1>8, <2>2
  <2>4. QED
    BY <2>3
<1>14. ASSUME NEW x \in g.nodes
       PROVE  /\ q.community[x] = 0 => Explore!Neighbors(g, x) = {}
              /\ q.community[x] # 0 => Explore!Connected(g, x, q.community[x])
              /\ (q.round > 1 \/ x \in q.visited) /\ Explore!Neighbors(g, x) = {} => q.community[x] = 0
              /\ ~q.changed /\ (q.done \/ x \in q.visited) => Explore!BestCommunity(g, q.community, x) = q.community[x]
  <2>1. (q.community[x] = 0 => Explore!Neighbors(g, x) = {})
        /\ (q.community[x] # 0 => Explore!Connected(g, x, q.community[x]))
    BY <1>8, <1>9, <1>10
  <2>2. ASSUME q.round > 1 \/ x \in q.visited, Explore!Neighbors(g, x) = {} PROVE q.community[x] = 0
    <3>1. CASE x = n
      BY <1>9, <1>10, <2>2, <3>1
    <3>2. CASE x # n
      <4>1. p.round > 1 \/ x \in p.visited
        <5>1. CASE last
          BY <1>3, <3>2, <5>1
        <5>2. CASE ~last
          BY <1>6, <2>2, <3>2, <5>2
        <5>3. QED
          BY <5>1, <5>2
      <4>2. QED
        BY <1>8, <1>9, <2>2, <3>2, <4>1
    <3>3. QED
      BY <3>1, <3>2
  <2>3. ASSUME ~q.changed, q.done \/ x \in q.visited
        PROVE  Explore!BestCommunity(g, q.community, x) = q.community[x]
    <3>1. ~changed
      BY <1>4, <1>6, <1>7, <2>3
    <3>2. ~p.changed /\ to = p.community[n]
      BY <1>2, <3>1
    <3>3. q.community = p.community
      BY <1>6, <1>8, <3>2
    <3>4. x = n \/ x \in p.visited
      BY <1>3, <1>4, <1>6, <2>3
    <3>5. QED
      BY <1>1, <1>8, <3>2, <3>3, <3>4
  <2>4. QED
    BY <2>1, <2>2, <2>3
<1>15. Explore!Spreading(g, q)
  BY <1>11, <1>12, <1>13, <1>14 DEF Explore!Spreading, Explore!Peripheral
<1>16. QED
  BY <1>5, <1>15

\* What is found when the last round is over.
LEMMA SpreadIsDone ==
  ASSUME Explore!Settled => Explore!Sound(s2) /\ Explore!Spreading(s2, s3)
  PROVE  Explore!CommunitiesHold
<1>1. SUFFICES ASSUME Explore!Settled, Explore!Sound(s2), Explore!Spreading(s2, s3)
               PROVE  Explore!CommunitiesHold
  BY DEF Explore!CommunitiesHold
<1>2. s3.done /\ (s3.round > 1 \/ s2.nodes = {}) /\ s3.community \in [s2.nodes -> s2.nodes \cup {0}]
  BY <1>1 DEF Explore!Settled, Explore!Spreading, Explore!Peripheral
<1>3. \A n \in s2.nodes : /\ s3.community[n] = 0 <=> Explore!Neighbors(s2, n) = {}
                          /\ s3.community[n] # 0 => Explore!Connected(s2, n, s3.community[n])
                          /\ ~s3.changed => Explore!BestCommunity(s2, s3.community, n) = s3.community[n]
  BY <1>1, <1>2 DEF Explore!Spreading, Explore!Peripheral
<1>4. ASSUME NEW m \in s2.nodes, NEW n \in s2.nodes, s3.community[m] = s3.community[n], s3.community[m] # 0
      PROVE  Explore!Connected(s2, m, n)
  <2>1. PICK c : c = s3.community[m]
    OBVIOUS
  <2>2. c \in s2.nodes /\ Explore!Connected(s2, m, c) /\ Explore!Connected(s2, n, c)
    BY <1>2, <1>3, <1>4, <2>1
  <2>3. Explore!Connected(s2, c, n)
    BY <2>2, ConnectedAll
  <2>4. QED
    BY <2>2, <2>3, ConnectedAll
<1>5. QED
  BY <1>3, <1>4 DEF Explore!CommunitiesHold, Explore!Peripheral

\* Sums along a sequence of costs.
IsSum(f, legs, n) == f = [i \in 1..n |-> IF i = 1 THEN 0 ELSE f[i - 1] + legs[i - 1]]

HasSum(legs, n) == \E f \in [1..n -> Nat] : IsSum(f, legs, n)

LEMMA SumsExist ==
  ASSUME NEW legs \in [Nat -> Nat]
  PROVE  \A n \in Nat : HasSum(legs, n)
<1>1. PICK T : T = {n \in Nat : HasSum(legs, n)}
  OBVIOUS
<1>2. 0 \in T
  <2>1. PICK f : f = [i \in 1..0 |-> 0]
    OBVIOUS
  <2>2. f \in [1..0 -> Nat] /\ IsSum(f, legs, 0)
    BY <2>1 DEF IsSum
  <2>3. QED
    BY <1>1, <2>2 DEF HasSum
<1>3. ASSUME NEW n \in Nat, n \in T PROVE n + 1 \in T
  <2>1. PICK f \in [1..n -> Nat] : IsSum(f, legs, n)
    BY <1>1, <1>3 DEF HasSum
  <2>2. PICK h : h = [i \in 1..(n + 1) |-> IF i <= n THEN f[i] ELSE IF n = 0 THEN 0 ELSE f[n] + legs[n]]
    OBVIOUS
  <2>3. \A i \in 1..n : f[i] = IF i = 1 THEN 0 ELSE f[i - 1] + legs[i - 1]
    BY <2>1 DEF IsSum
  <2>4. h \in [1..(n + 1) -> Nat]
    <3>1. ASSUME NEW i \in 1..(n + 1) PROVE h[i] \in Nat
      <4>1. CASE i \in 1..n
        BY <2>1, <2>2, <4>1, SMTT(30)
      <4>2. CASE i = n + 1
        <5>1. h[i] = (IF n = 0 THEN 0 ELSE f[n] + legs[n]) /\ (n # 0 => n \in 1..n)
          BY <2>2, <4>2
        <5>2. n # 0 => f[n] \in Nat /\ legs[n] \in Nat
          BY <2>1, <5>1
        <5>3. CASE n = 0
          BY <5>1, <5>3
        <5>4. CASE n # 0
          <6>1. f[n] \in Nat /\ legs[n] \in Nat
            BY <5>2, <5>4
          <6>2. PICK a \in Nat, b \in Nat : a = f[n] /\ b = legs[n]
            BY <6>1
          <6>3. h[i] = a + b
            BY <5>1, <5>4, <6>2
          <6>4. QED
            BY <6>3
        <5>5. QED
          BY <5>3, <5>4
      <4>3. QED
        BY <4>1, <4>2
    <3>2. QED
      BY <2>2, <3>1
  <2>5. ASSUME NEW i \in 1..(n + 1) PROVE h[i] = IF i = 1 THEN 0 ELSE h[i - 1] + legs[i - 1]
    <3>1. CASE i \in 1..n
      <4>1. h[i] = f[i] /\ (i # 1 => i - 1 \in 1..n /\ h[i - 1] = f[i - 1])
        BY <2>2, <3>1
      <4>2. QED
        BY <2>3, <3>1, <4>1
    <3>2. CASE i = n + 1
      <4>1. h[i] = (IF n = 0 THEN 0 ELSE f[n] + legs[n]) /\ (n # 0 => n \in 1..n /\ h[n] = f[n]) /\ (n = 0 <=> i = 1) /\ i - 1 = n
        BY <2>2, <3>2
      <4>2. QED
        BY <3>2, <4>1
    <3>3. QED
      BY <3>1, <3>2
  <2>6. IsSum(h, legs, n + 1)
    <3>1. h = [i \in 1..(n + 1) |-> h[i]]
      BY <2>4
    <3>2. QED
      BY <2>5, <3>1 DEF IsSum
  <2>7. HasSum(legs, n + 1)
    BY <2>4, <2>6, Zenon DEF HasSum
  <2>8. QED
    BY <1>1, <2>7
<1>4. \A n \in Nat : n \in T
  BY <1>2, <1>3, NatSetInduction
<1>5. QED
  BY <1>1, <1>4

\* A path, and the cost of its next leg.
IsPath(g, p) == p \in Seq(g.nodes) /\ \A i \in 1..(Len(p) - 1) : Explore!Adjacent(g, p[i], p[i + 1])

LEMMA LegIsCheapest ==
  ASSUME NEW g, Explore!Sound(g), NEW p, NEW i, Explore!Adjacent(g, p[i], p[i + 1])
  PROVE  /\ Explore!LegCost(g, p, i) \in Nat
         /\ \A e \in Explore!Between(g, p[i], p[i + 1]) : Explore!LegCost(g, p, i) <= Explore!EdgeCost(e)
         /\ \E e \in Explore!Between(g, p[i], p[i + 1]) : Explore!LegCost(g, p, i) = Explore!EdgeCost(e)
<1>1. PICK edges : edges = Explore!Between(g, p[i], p[i + 1])
  OBVIOUS
<1>2. edges # {} /\ \A e \in edges : Explore!EdgeCost(e) \in Nat
  BY <1>1, Weights DEF Explore!Adjacent, Explore!Between, Explore!Sound
<1>3. PICK T : T = {Explore!EdgeCost(e) : e \in edges}
  OBVIOUS
<1>4. \E x \in T : \A y \in T : x <= y
  BY <1>2, <1>3, LeastNat
<1>5. PICK leg : leg = Explore!LegCost(g, p, i)
  OBVIOUS
<1>6. leg = CHOOSE x \in T : \A y \in T : x <= y
  BY <1>1, <1>3, <1>5 DEF Explore!LegCost, Explore!Min
<1>7. leg \in T /\ \A y \in T : leg <= y
  BY <1>4, <1>6, Zenon
<1>8. QED
  BY <1>1, <1>2, <1>3, <1>5, <1>7

\* What a path costs up to each of its nodes.
LEMMA FaresAre ==
  ASSUME NEW g, Explore!Sound(g), NEW p, IsPath(g, p), p # <<>>
  PROVE  /\ Explore!Fares(g, p) \in [1..Len(p) -> Nat] /\ Explore!Fares(g, p)[1] = 0
         /\ \A n \in 1..(Len(p) - 1) : Explore!Fares(g, p)[n + 1] = Explore!Fares(g, p)[n] + Explore!LegCost(g, p, n)
<1>1. PICK len \in Nat \ {0} : len = Len(p)
  BY DEF IsPath
<1>2. PICK legs : legs = [i \in Nat |-> IF i \in 1..(len - 1) THEN Explore!LegCost(g, p, i) ELSE 0]
  OBVIOUS
<1>3. legs \in [Nat -> Nat]
  BY <1>1, <1>2, LegIsCheapest DEF IsPath
<1>4. PICK f \in [1..len -> Nat] : IsSum(f, legs, len)
  BY <1>1, <1>3, SumsExist DEF HasSum
<1>5. PICK fares : fares = CHOOSE h : h = [n \in 1..len |-> IF n = 1 THEN 0 ELSE h[n - 1] + Explore!LegCost(g, p, n - 1)]
  OBVIOUS
<1>6. fares = Explore!Fares(g, p)
  BY <1>1, <1>5 DEF Explore!Fares
<1>7. f = [n \in 1..len |-> IF n = 1 THEN 0 ELSE f[n - 1] + Explore!LegCost(g, p, n - 1)]
  <2>1. \A n \in 1..len : n # 1 => legs[n - 1] = Explore!LegCost(g, p, n - 1)
    BY <1>1, <1>2
  <2>2. f = [n \in 1..len |-> IF n = 1 THEN 0 ELSE f[n - 1] + legs[n - 1]]
    BY <1>4 DEF IsSum
  <2>3. QED
    BY <2>1, <2>2
<1>8. fares = [n \in 1..len |-> IF n = 1 THEN 0 ELSE fares[n - 1] + Explore!LegCost(g, p, n - 1)]
  BY <1>5, <1>7, Zenon
<1>9. \A n \in 1..len : fares[n] = IF n = 1 THEN 0 ELSE fares[n - 1] + Explore!LegCost(g, p, n - 1)
  BY <1>8
<1>10. \A n \in Nat : n \in {m \in Nat : m \in 1..len => fares[m] \in Nat}
  <2>1. PICK T : T = {m \in Nat : m \in 1..len => fares[m] \in Nat}
    OBVIOUS
  <2>2. 0 \in T
    BY <2>1
  <2>3. ASSUME NEW n \in Nat, n \in T PROVE n + 1 \in T
    <3>1. SUFFICES ASSUME n + 1 \in 1..len PROVE fares[n + 1] \in Nat
      BY <2>1
    <3>2. CASE n = 0
      BY <1>9, <3>1, <3>2
    <3>3. CASE n # 0
      <4>1. n \in 1..(len - 1) /\ n \in 1..len /\ n + 1 # 1 /\ (n + 1) - 1 = n
        BY <1>1, <3>1, <3>3
      <4>2. fares[n] \in Nat /\ Explore!LegCost(g, p, n) \in Nat
        BY <1>1, <2>1, <2>3, <4>1, LegIsCheapest DEF IsPath
      <4>3. fares[n + 1] = fares[n] + Explore!LegCost(g, p, n)
        BY <1>9, <3>1, <4>1
      <4>4. QED
        BY <4>2, <4>3
    <3>4. QED
      BY <3>2, <3>3
  <2>4. QED
    BY <2>1, <2>2, <2>3, NatSetInduction
<1>11. fares \in [1..len -> Nat] /\ fares[1] = 0
  BY <1>1, <1>8, <1>9, <1>10
<1>12. ASSUME NEW n \in 1..(len - 1) PROVE fares[n + 1] = fares[n] + Explore!LegCost(g, p, n)
  <2>1. n + 1 \in 1..len /\ n + 1 # 1 /\ (n + 1) - 1 = n
    BY <1>1
  <2>2. QED
    BY <1>9, <2>1
<1>13. QED
  BY <1>1, <1>6, <1>11, <1>12

\* Costs do not fall along a path.
LEMMA FaresRise ==
  ASSUME NEW g, Explore!Sound(g), NEW p, IsPath(g, p), p # <<>>, NEW m \in 1..Len(p), NEW n \in 1..Len(p), m <= n
  PROVE  Explore!Fares(g, p)[m] <= Explore!Fares(g, p)[n]
<1>1. PICK fares : fares = Explore!Fares(g, p)
  OBVIOUS
<1>2. PICK len \in Nat : len = Len(p)
  BY DEF IsPath
<1>3. fares \in [1..len -> Nat] /\ \A i \in 1..(len - 1) : fares[i + 1] = fares[i] + Explore!LegCost(g, p, i)
  BY <1>1, <1>2, FaresAre
<1>4. \A i \in 1..(len - 1) : fares[i] <= fares[i + 1]
  <2>1. TAKE i \in 1..(len - 1)
  <2>2. Explore!LegCost(g, p, i) \in Nat
    BY <1>2, LegIsCheapest DEF IsPath
  <2>3. fares[i] \in Nat /\ fares[i + 1] = fares[i] + Explore!LegCost(g, p, i)
    BY <1>2, <1>3
  <2>4. QED
    BY <2>2, <2>3
<1>5. PICK T : T = {k \in Nat : m + k \in 1..len => fares[m] <= fares[m + k]}
  OBVIOUS
<1>6. m \in 1..len /\ n \in 1..len /\ fares[m] \in Nat
  BY <1>2, <1>3
<1>7. 0 \in T
  BY <1>5, <1>6
<1>8. ASSUME NEW k \in Nat, k \in T PROVE k + 1 \in T
  <2>1. SUFFICES ASSUME m + (k + 1) \in 1..len PROVE fares[m] <= fares[m + (k + 1)]
    BY <1>5
  <2>2. m + k \in 1..(len - 1) /\ m + k \in 1..len /\ (m + k) + 1 = m + (k + 1)
    BY <1>6, <2>1
  <2>3. fares[m] <= fares[m + k] /\ fares[m + k] <= fares[(m + k) + 1]
    BY <1>4, <1>5, <1>8, <2>2
  <2>4. fares[m + k] \in Nat /\ fares[m + (k + 1)] \in Nat
    BY <1>3, <2>1, <2>2
  <2>5. QED
    BY <1>6, <2>2, <2>3, <2>4
<1>9. \A k \in Nat : k \in T
  BY <1>7, <1>8, NatSetInduction
<1>10. n - m \in Nat /\ m + (n - m) = n
  BY <1>6
<1>11. QED
  BY <1>1, <1>5, <1>6, <1>9, <1>10

\* The beginning of a path costs what it costs there.
LEMMA FaresAgree ==
  ASSUME NEW g, Explore!Sound(g), NEW p, IsPath(g, p), NEW q, IsPath(g, q), q # <<>>, Len(q) <= Len(p),
         \A i \in 1..Len(q) : q[i] = p[i], NEW n \in 1..Len(q)
  PROVE  Explore!Fares(g, q)[n] = Explore!Fares(g, p)[n]
<1>1. PICK a : a = Explore!Fares(g, q)
  OBVIOUS
<1>2. PICK b : b = Explore!Fares(g, p)
  OBVIOUS
<1>3. PICK l \in Nat \ {0} : l = Len(q)
  BY DEF IsPath
<1>4. Len(p) \in Nat /\ l <= Len(p) /\ p # <<>>
  BY <1>3 DEF IsPath
<1>5. /\ a[1] = 0 /\ \A i \in 1..(l - 1) : a[i + 1] = a[i] + Explore!LegCost(g, q, i)
      /\ b[1] = 0 /\ \A i \in 1..(Len(p) - 1) : b[i + 1] = b[i] + Explore!LegCost(g, p, i)
  BY <1>1, <1>2, <1>3, <1>4, FaresAre
<1>6. \A i \in 1..(l - 1) : Explore!LegCost(g, q, i) = Explore!LegCost(g, p, i) /\ i \in 1..(Len(p) - 1)
  <2>1. TAKE i \in 1..(l - 1)
  <2>2. i \in 1..l /\ i + 1 \in 1..l /\ i \in 1..(Len(p) - 1)
    BY <1>3, <1>4
  <2>3. q[i] = p[i] /\ q[i + 1] = p[i + 1]
    BY <1>3, <2>2
  <2>4. QED
    BY <2>2, <2>3 DEF Explore!LegCost
<1>7. PICK T : T = {k \in Nat : k \in 1..l => a[k] = b[k]}
  OBVIOUS
<1>8. 0 \in T
  BY <1>7
<1>9. ASSUME NEW k \in Nat, k \in T PROVE k + 1 \in T
  <2>1. CASE k = 0
    BY <1>5, <1>7, <2>1
  <2>2. CASE k # 0 /\ k + 1 \in 1..l
    <3>1. k \in 1..(l - 1) /\ k \in 1..l
      BY <1>3, <2>2
    <3>2. a[k] = b[k] /\ a[k + 1] = a[k] + Explore!LegCost(g, q, k) /\ b[k + 1] = b[k] + Explore!LegCost(g, p, k)
      BY <1>5, <1>6, <1>7, <1>9, <3>1
    <3>3. QED
      BY <1>6, <1>7, <3>1, <3>2
  <2>3. CASE k + 1 \notin 1..l
    BY <1>7, <2>3
  <2>4. QED
    BY <2>1, <2>2, <2>3
<1>10. \A k \in Nat : k \in T
  BY <1>8, <1>9, NatSetInduction
<1>11. n \in Nat /\ n \in 1..l
  BY <1>3
<1>12. QED
  BY <1>1, <1>2, <1>7, <1>10, <1>11

Entered(g) == [cost : Nat, tick : Nat, path : Seq(g.nodes), edges : Seq(g.edges)]

\* Where an edge leads to that does not lead back.
LEMMA WaysLeadOn ==
  ASSUME NEW g, Explore!Sound(g), NEW path \in Seq(g.nodes), path # <<>>, NEW e \in Explore!Ways(g, path),
         NEW here, here = path[Len(path)], NEW far, far = Explore!Far(e, here)
  PROVE  /\ e \in g.edges /\ here \in g.nodes /\ far \in g.nodes /\ \A i \in 1..Len(path) : path[i] # far
         /\ Explore!Adjacent(g, here, far) /\ e \in Explore!Between(g, here, far)
<1>1. DOMAIN path = 1..Len(path) /\ Len(path) \in Nat \ {0} /\ Len(path) \in 1..Len(path)
  OBVIOUS
<1>2. here \in g.nodes
  BY <1>1
<1>3. e \in g.edges /\ here \in {e.source, e.target} /\ \A i \in 1..Len(path) : path[i] # far
  BY <1>1 DEF Explore!Ways, Explore!End
<1>4. e.source \in g.nodes /\ e.target \in g.nodes
  BY <1>3 DEF Explore!Sound
<1>5. far \in g.nodes /\ {e.source, e.target} = {here, far}
  BY <1>3, <1>4 DEF Explore!Far
<1>6. here # far
  BY <1>1, <1>3
<1>7. e \in Explore!Between(g, here, far)
  BY <1>3, <1>5 DEF Explore!Between
<1>8. QED
  BY <1>2, <1>3, <1>5, <1>6, <1>7 DEF Explore!Adjacent

LEMMA PathUnderWay ==
  ASSUME NEW g, Explore!Sound(g), NEW w, NEW entry \in Entered(g), Explore!UnderWay(g, w, entry)
  PROVE  IsPath(g, entry.path) /\ entry.path # <<>> /\ Len(entry.path) \in Nat \ {0}
<1>1. entry.path \in Seq(g.nodes) /\ entry.edges \in Seq(g.edges)
  BY DEF Entered
<1>2. Len(entry.path) = Len(entry.edges) + 1 /\ Len(entry.edges) \in Nat
  BY <1>1 DEF Explore!UnderWay
<1>3. QED
  BY <1>1, <1>2 DEF IsPath, Explore!UnderWay

\* An extension of a path is under way, and no cheaper.
LEMMA ExtendedIs ==
  ASSUME NEW g, Explore!Sound(g), NEW w, NEW tick \in Nat, NEW entry \in Entered(g), Explore!UnderWay(g, w, entry),
         ~(Len(entry.edges) >= MaxHops), NEW e \in Explore!Ways(g, entry.path)
  PROVE  /\ Explore!Extended(g, tick, entry, e) \in Entered(g)
         /\ Explore!UnderWay(g, w, Explore!Extended(g, tick, entry, e))
         /\ entry.cost <= Explore!Extended(g, tick, entry, e).cost
<1>1. PICK path : path = entry.path
  OBVIOUS
<1>2. PICK len \in Nat \ {0} : len = Len(path)
  BY <1>1, PathUnderWay
<1>3. /\ path \in Seq(g.nodes) /\ path # <<>> /\ IsPath(g, path) /\ DOMAIN path = 1..len
      /\ entry.edges \in Seq(g.edges) /\ len = Len(entry.edges) + 1 /\ Len(entry.edges) \in Nat
      /\ path[1] = w.source /\ entry.cost \in Nat /\ entry.cost >= Explore!Fares(g, path)[len]
      /\ \A i, j \in 1..len : path[i] = path[j] => i = j
  <2>1. path \in Seq(g.nodes) /\ entry.edges \in Seq(g.edges) /\ entry.cost \in Nat
    BY <1>1 DEF Entered
  <2>2. path # <<>> /\ IsPath(g, path)
    BY <1>1, PathUnderWay
  <2>3. DOMAIN path = 1..len /\ Len(entry.edges) \in Nat
    BY <1>2, <2>1
  <2>4. /\ len = Len(entry.edges) + 1 /\ path[1] = w.source
        /\ \A i, j \in 1..len : path[i] = path[j] => i = j
    BY <1>1, <1>2, <2>3 DEF Explore!UnderWay
  <2>5. entry.cost >= Explore!Fares(g, path)[len]
    BY <1>1, <1>2 DEF Explore!UnderWay, Explore!Fare
  <2>6. QED
    BY <2>1, <2>2, <2>3, <2>4, <2>5
<1>4. PICK here : here = path[len]
  OBVIOUS
<1>5. PICK far : far = Explore!Far(e, here)
  OBVIOUS
<1>6. /\ e \in g.edges /\ here \in g.nodes /\ far \in g.nodes /\ \A i \in 1..len : path[i] # far
      /\ Explore!Adjacent(g, here, far) /\ e \in Explore!Between(g, here, far)
  BY <1>1, <1>2, <1>3, <1>4, <1>5, WaysLeadOn
<1>7. PICK new : new = Append(path, far)
  OBVIOUS
<1>8. /\ new \in Seq(g.nodes) /\ Len(new) = len + 1 /\ DOMAIN new = 1..(len + 1)
      /\ (\A i \in 1..len : new[i] = path[i]) /\ new[len + 1] = far
  BY <1>2, <1>3, <1>6, <1>7, AppendProperties
<1>9. PICK edges : edges = Append(entry.edges, e)
  OBVIOUS
<1>10. edges \in Seq(g.edges) /\ Len(edges) = len
  <2>1. PICK s \in Seq(g.edges) : s = entry.edges
    BY <1>3
  <2>2. edges = Append(s, e)
    BY <1>9, <2>1
  <2>3. edges \in Seq(g.edges) /\ Len(edges) = Len(s) + 1
    BY <1>6, <2>2, AppendProperties
  <2>4. QED
    BY <1>3, <2>1, <2>3
<1>11. Explore!EdgeCost(e) \in Nat
  BY <1>6, Weights DEF Explore!Sound
<1>12. PICK later : later = tick + Explore!Cardinality({f \in Explore!Ways(g, entry.path) : Explore!EdgeBefore(f, e)})
  OBVIOUS
<1>13. later \in Nat
  <2>1. PICK earlier : earlier = {f \in Explore!Ways(g, entry.path) : Explore!EdgeBefore(f, e)}
    OBVIOUS
  <2>2. earlier \in SUBSET g.edges /\ IsFiniteSet(g.edges)
    BY <2>1, SameGraph DEF Explore!Ways, Explore!Sound
  <2>3. IsFiniteSet(earlier)
    BY <2>2, FS_Subset
  <2>4. Cardinality(earlier) \in Nat /\ later = tick + Cardinality(earlier)
    BY <1>12, <2>1, <2>3, FS_CardinalityType, SameGraph
  <2>5. QED
    BY <2>4
<1>14. PICK x : x = Explore!Extended(g, tick, entry, e)
  OBVIOUS
<1>15. x = [cost |-> entry.cost + Explore!EdgeCost(e), tick |-> later, path |-> new, edges |-> edges]
  <2>1. Explore!End(entry.path) = here
    BY <1>1, <1>2, <1>4 DEF Explore!End
  <2>2. QED
    BY <1>1, <1>5, <1>7, <1>9, <1>12, <1>14, <2>1 DEF Explore!Extended
<1>16. x \in Entered(g)
  BY <1>3, <1>8, <1>10, <1>11, <1>13, <1>15 DEF Entered
<1>17. \A i \in 1..len : Explore!Adjacent(g, new[i], new[i + 1])
  <2>1. TAKE i \in 1..len
  <2>2. CASE i = len
    BY <1>2, <1>4, <1>6, <1>8, <2>2
  <2>3. CASE i # len
    <3>1. i \in 1..(len - 1) /\ i + 1 \in 1..len
      BY <1>2, <2>3
    <3>2. Explore!Adjacent(g, path[i], path[i + 1])
      BY <1>2, <1>3, <3>1 DEF IsPath
    <3>3. QED
      BY <1>8, <3>1, <3>2
  <2>4. QED
    BY <2>2, <2>3
<1>18. IsPath(g, new) /\ new # <<>>
  BY <1>2, <1>8, <1>17 DEF IsPath
<1>19. \A i, j \in 1..(len + 1) : new[i] = new[j] => i = j
  <2>1. \A i \in 1..(len + 1) : i \in 1..len \/ i = len + 1
    BY <1>2
  <2>2. QED
    BY <1>3, <1>6, <1>8, <2>1
<1>20. x.cost >= Explore!Fares(g, new)[len + 1]
  <2>1. PICK fares : fares = Explore!Fares(g, new)
    OBVIOUS
  <2>2. fares \in [1..(len + 1) -> Nat] /\ fares[len + 1] = fares[len] + Explore!LegCost(g, new, len)
    <3>1. len \in 1..(Len(new) - 1)
      BY <1>2, <1>8
    <3>2. QED
      BY <1>8, <1>18, <2>1, <3>1, FaresAre
  <2>3. fares[len] = Explore!Fares(g, path)[len]
    <3>1. len \in 1..Len(path) /\ Len(path) <= Len(new) /\ \A i \in 1..Len(path) : path[i] = new[i]
      BY <1>2, <1>8
    <3>2. QED
      BY <1>3, <1>18, <2>1, <3>1, FaresAgree, SMTT(30)
  <2>4. Explore!LegCost(g, new, len) \in Nat /\ Explore!LegCost(g, new, len) <= Explore!EdgeCost(e)
    <3>1. len \in 1..len
      BY <1>2
    <3>2. Explore!Adjacent(g, new[len], new[len + 1]) /\ e \in Explore!Between(g, new[len], new[len + 1])
      BY <1>4, <1>6, <1>8, <1>17, <3>1
    <3>3. QED
      BY <3>2, LegIsCheapest
  <2>5. len \in 1..(len + 1) /\ fares[len] \in Nat
    BY <1>2, <2>2
  <2>6. QED
    BY <1>3, <1>11, <1>15, <2>1, <2>2, <2>3, <2>4, <2>5
<1>21. Explore!UnderWay(g, w, x)
  <2>1. x.path = new /\ x.edges = edges
    BY <1>15
  <2>2. Len(x.path) = Len(x.edges) + 1 /\ Len(x.edges) <= MaxHops
    BY <1>3, <1>8, <1>10, <2>1, ExplorerAssumption
  <2>3. x.path[1] = w.source
    BY <1>2, <1>3, <1>8, <2>1
  <2>4. x.cost >= Explore!Fare(g, x.path)
    BY <1>8, <1>20, <2>1 DEF Explore!Fare
  <2>5. (\A i, j \in DOMAIN x.path : x.path[i] = x.path[j] => i = j)
        /\ \A i \in 1..(Len(x.path) - 1) : Explore!Adjacent(g, x.path[i], x.path[i + 1])
    BY <1>2, <1>8, <1>17, <1>19, <2>1
  <2>6. QED
    BY <2>2, <2>3, <2>4, <2>5 DEF Explore!UnderWay
<1>22. QED
  BY <1>3, <1>11, <1>14, <1>15, <1>16, <1>21

\* A route is a path that visits no node twice.
LEMMA RouteIs ==
  ASSUME NEW g, Explore!Sound(g), NEW source, NEW target, NEW route \in Explore!Routes(g, source, target)
  PROVE  /\ route \in Seq(g.nodes) /\ IsPath(g, route) /\ route # <<>>
         /\ Len(route) \in Nat /\ 2 <= Len(route) /\ Len(route) <= MaxHops + 1 /\ DOMAIN route = 1..Len(route)
         /\ route[1] = source /\ route[Len(route)] = target
         /\ \A i, j \in 1..Len(route) : route[i] = route[j] => i = j
<1>1. PICK k \in 2..(MaxHops + 1) : route \in [1..k -> g.nodes]
  BY DEF Explore!Routes
<1>2. k \in Nat /\ 2 <= k /\ k <= MaxHops + 1
  BY <1>1, ExplorerAssumption
<1>3. route \in Seq(g.nodes) /\ Len(route) = k /\ DOMAIN route = 1..k
  BY <1>1, <1>2
<1>4. /\ route[1] = source /\ route[Len(route)] = target
      /\ \A i, j \in DOMAIN route : route[i] = route[j] => i = j
      /\ \A i \in 1..(Len(route) - 1) : Explore!Adjacent(g, route[i], route[i + 1])
  BY DEF Explore!Routes, Explore!End
<1>5. IsPath(g, route)
  BY <1>3, <1>4 DEF IsPath
<1>6. route # <<>>
  BY <1>2, <1>3
<1>7. QED
  BY <1>2, <1>3, <1>4, <1>5, <1>6

\* A beginning of a route ends with it, or has an extension that is one.
LEMMA BeginningLeadsOn ==
  ASSUME NEW g, Explore!Sound(g), NEW w, NEW tick \in Nat, NEW entry \in Entered(g), Explore!UnderWay(g, w, entry),
         NEW source, NEW target, NEW route \in Explore!Routes(g, source, target), Explore!LeadsTo(g, entry, route)
  PROVE  /\ Explore!End(entry.path) = target => entry.path = route
         /\ Explore!End(entry.path) # target =>
              /\ ~(Len(entry.edges) >= MaxHops)
              /\ \E e \in Explore!Ways(g, entry.path) : Explore!LeadsTo(g, Explore!Extended(g, tick, entry, e), route)
<1>1. PICK path : path = entry.path
  OBVIOUS
<1>2. PICK len \in Nat \ {0} : len = Len(path)
  BY <1>1, PathUnderWay
<1>3. PICK k \in Nat : k = Len(route)
  BY RouteIs
<1>4. /\ route \in Seq(g.nodes) /\ IsPath(g, route) /\ route # <<>> /\ 2 <= k /\ k <= MaxHops + 1
      /\ DOMAIN route = 1..k /\ route[k] = target /\ \A i, j \in 1..k : route[i] = route[j] => i = j
  BY <1>3, RouteIs
<1>5. /\ path \in Seq(g.nodes) /\ path # <<>> /\ DOMAIN path = 1..len /\ entry.edges \in Seq(g.edges)
      /\ Len(entry.edges) \in Nat /\ len = Len(entry.edges) + 1 /\ entry.cost \in Nat
  <2>1. path \in Seq(g.nodes) /\ entry.edges \in Seq(g.edges) /\ entry.cost \in Nat
    BY <1>1 DEF Entered
  <2>2. path # <<>>
    BY <1>1, PathUnderWay
  <2>3. len = Len(entry.edges) + 1
    BY <1>1, <1>2 DEF Explore!UnderWay
  <2>4. Len(entry.edges) \in Nat
    BY <2>1
  <2>5. DOMAIN path = 1..len
    BY <1>2, <2>1
  <2>6. QED
    BY <2>1, <2>2, <2>3, <2>4, <2>5
<1>6. len <= k /\ (\A i \in 1..len : path[i] = route[i]) /\ entry.cost = Explore!Fares(g, route)[len]
  BY <1>1, <1>2, <1>3, <1>5 DEF Explore!LeadsTo
<1>7. len \in 1..len /\ len \in 1..k /\ k \in 1..k
  BY <1>2, <1>3, <1>4, <1>6
<1>8. PICK here : here = path[len]
  OBVIOUS
<1>9. Explore!End(entry.path) = here /\ here = route[len]
  BY <1>1, <1>2, <1>6, <1>7, <1>8 DEF Explore!End
<1>10. ASSUME here = target PROVE path = route
  <2>1. len = k
    BY <1>4, <1>7, <1>9, <1>10
  <2>2. QED
    BY <1>2, <1>3, <1>4, <1>5, <1>6, <2>1, SeqEqual
<1>11. ASSUME here # target
       PROVE  /\ ~(Len(entry.edges) >= MaxHops)
              /\ \E e \in Explore!Ways(g, entry.path) : Explore!LeadsTo(g, Explore!Extended(g, tick, entry, e), route)
  <2>1. len # k
    BY <1>4, <1>9, <1>11
  <2>2. len < k /\ len \in 1..(k - 1) /\ len + 1 \in 1..k
    BY <1>2, <1>6, <2>1
  <2>3. ~(Len(entry.edges) >= MaxHops)
    BY <1>2, <1>4, <1>5, <2>2, ExplorerAssumption
  <2>4. PICK far : far = route[len + 1]
    OBVIOUS
  <2>5. Explore!Adjacent(g, route[len], route[len + 1])
    BY <1>3, <1>4, <2>2 DEF IsPath
  <2>6. PICK e \in Explore!Between(g, route[len], route[len + 1]) : Explore!LegCost(g, route, len) = Explore!EdgeCost(e)
    BY <2>5, LegIsCheapest
  <2>7. e \in g.edges /\ {e.source, e.target} = {here, far} /\ here # far
    BY <1>9, <2>4, <2>5, <2>6 DEF Explore!Between, Explore!Adjacent
  <2>8. Explore!Far(e, here) = far /\ here \in {e.source, e.target}
    BY <2>7 DEF Explore!Far
  <2>9. \A i \in 1..len : path[i] # far
    <3>1. TAKE i \in 1..len
    <3>2. i \in 1..k /\ i # len + 1
      BY <1>2, <2>2
    <3>3. QED
      BY <1>4, <1>6, <2>2, <2>4, <3>2
  <2>10. e \in Explore!Ways(g, entry.path)
    BY <1>1, <1>5, <1>9, <2>7, <2>8, <2>9 DEF Explore!Ways
  <2>11. PICK x : x = Explore!Extended(g, tick, entry, e)
    OBVIOUS
  <2>12. x.path = Append(path, far) /\ x.cost = entry.cost + Explore!EdgeCost(e)
    BY <1>1, <1>9, <2>8, <2>11 DEF Explore!Extended
  <2>13. far \in g.nodes
    BY <1>4, <2>2, <2>4
  <2>14. /\ Len(x.path) = len + 1 /\ DOMAIN x.path = 1..(len + 1)
         /\ (\A i \in 1..len : x.path[i] = path[i]) /\ x.path[len + 1] = far
    BY <1>2, <1>5, <2>12, <2>13, AppendProperties
  <2>15. \A i \in DOMAIN x.path : x.path[i] = route[i]
    <3>1. \A i \in 1..(len + 1) : i \in 1..len \/ i = len + 1
      BY <1>2
    <3>2. QED
      BY <1>6, <2>4, <2>14, <3>1
  <2>16. x.cost = Explore!Fares(g, route)[len + 1]
    <3>1. Explore!Fares(g, route)[len + 1] = Explore!Fares(g, route)[len] + Explore!LegCost(g, route, len)
      BY <1>3, <1>4, <2>2, FaresAre
    <3>2. QED
      BY <1>6, <2>6, <2>12, <3>1
  <2>17. Len(x.path) <= Len(route)
    BY <1>2, <1>3, <2>2, <2>14
  <2>18. Explore!LeadsTo(g, x, route)
    BY <2>14, <2>15, <2>16, <2>17 DEF Explore!LeadsTo
  <2>19. QED
    BY <2>3, <2>10, <2>11, <2>18
<1>12. QED
  BY <1>1, <1>9, <1>10, <1>11

\* What leads to a route costs no more than it.
LEMMA BeginningIsNoDearer ==
  ASSUME NEW g, Explore!Sound(g), NEW w, NEW entry \in Entered(g), Explore!UnderWay(g, w, entry),
         NEW source, NEW target, NEW route \in Explore!Routes(g, source, target), Explore!LeadsTo(g, entry, route)
  PROVE  entry.cost <= Explore!Fare(g, route)
<1>1. PICK k \in Nat : k = Len(route)
  BY RouteIs
<1>2. PICK len \in Nat \ {0} : len = Len(entry.path)
  BY PathUnderWay
<1>3. len <= k /\ entry.cost = Explore!Fares(g, route)[len]
  BY <1>1, <1>2 DEF Explore!LeadsTo
<1>4. len \in 1..k /\ k \in 1..k /\ IsPath(g, route) /\ route # <<>>
  BY <1>1, <1>2, <1>3, RouteIs
<1>5. Explore!Fares(g, route)[len] <= Explore!Fares(g, route)[k]
  BY <1>1, <1>3, <1>4, FaresRise
<1>6. QED
  BY <1>1, <1>3, <1>5 DEF Explore!Fare

\* A path under way that has arrived is a route.
LEMMA ArrivalIsRoute ==
  ASSUME NEW g, Explore!Sound(g), NEW w, NEW entry \in Entered(g), Explore!UnderWay(g, w, entry),
         w.source # w.target, Explore!End(entry.path) = w.target
  PROVE  entry.path \in Explore!Routes(g, w.source, w.target)
<1>1. PICK path : path = entry.path
  OBVIOUS
<1>2. PICK len \in Nat \ {0} : len = Len(path)
  BY <1>1, PathUnderWay
<1>3. path \in Seq(g.nodes) /\ entry.edges \in Seq(g.edges) /\ DOMAIN path = 1..len
  BY <1>1, <1>2 DEF Entered
<1>4. Len(entry.edges) \in Nat
  BY <1>3
<1>5. /\ len = Len(entry.edges) + 1 /\ Len(entry.edges) <= MaxHops /\ path[1] = w.source /\ Explore!End(path) = w.target
      /\ (\A i, j \in DOMAIN path : path[i] = path[j] => i = j)
      /\ \A i \in 1..(Len(path) - 1) : Explore!Adjacent(g, path[i], path[i + 1])
  BY <1>1, <1>2 DEF Explore!UnderWay
<1>6. len # 1
  BY <1>2, <1>5 DEF Explore!End
<1>7. len \in 2..(MaxHops + 1)
  BY <1>2, <1>4, <1>5, <1>6, ExplorerAssumption
<1>8. path \in [1..len -> g.nodes]
  BY <1>2, <1>3
<1>9. path \in UNION {[1..k -> g.nodes] : k \in 2..(MaxHops + 1)}
  BY <1>7, <1>8
<1>10. QED
  BY <1>1, <1>5, <1>9 DEF Explore!Routes

\* What a search for paths has, when its ends differ.
Forward(g, w) ==
  /\ \A entry \in w.queue : Explore!UnderWay(g, w, entry)
  /\ \A i \in DOMAIN w.found : w.found[i].path \in Explore!Routes(g, w.source, w.target)
  /\ \A i \in DOMAIN w.found : w.found[i].cost = Explore!Fare(g, w.found[i].path)
  /\ \A i, j \in DOMAIN w.found : w.found[i].path = w.found[j].path => i = j
  /\ \A i, j \in DOMAIN w.found : i < j => w.found[i].cost <= w.found[j].cost
  /\ \A i \in DOMAIN w.found, entry \in w.queue : w.found[i].cost <= entry.cost

Covered(g, w, route) ==
  \/ \E i \in DOMAIN w.found : w.found[i].path = route
  \/ \E entry \in w.queue : Explore!LeadsTo(g, entry, route)

LEMMA WalkIs ==
  ASSUME NEW g, NEW w, Explore!Walking(g, w), w.queue # {}
  PROVE  /\ w \in Explore!Walks(g) /\ w.source # w.target /\ Forward(g, w)
         /\ \A route \in Explore!Routes(g, w.source, w.target) : Covered(g, w, route)
<1>1. w \in Explore!Walks(g) /\ w.source # w.target
  BY DEF Explore!Walking
<1>2. Forward(g, w)
  BY <1>1 DEF Explore!Walking, Forward
<1>3. \A route \in Explore!Routes(g, w.source, w.target) : Covered(g, w, route)
  BY <1>1 DEF Explore!Walking, Covered
<1>4. QED
  BY <1>1, <1>2, <1>3

LEMMA WalkFrom ==
  ASSUME NEW g, NEW w, w \in Explore!Walks(g), w.source # w.target, Forward(g, w),
         \A route \in Explore!Routes(g, w.source, w.target) : Covered(g, w, route)
  PROVE  Explore!Walking(g, w)
BY DEF Explore!Walking, Forward, Covered

LEMMA WalkFields ==
  ASSUME NEW g, NEW w \in Explore!Walks(g)
  PROVE  /\ w.source \in g.nodes /\ w.target \in g.nodes /\ w.tick \in Nat /\ w.queue \subseteq Entered(g)
         /\ w.found \in Seq([path : Seq(g.nodes), cost : Nat, evidence : SUBSET Conversations])
         /\ DOMAIN w.found = 1..Len(w.found) /\ Len(w.found) \in Nat
<1>1. /\ w.source \in g.nodes /\ w.target \in g.nodes /\ w.tick \in Nat /\ w.queue \subseteq Entered(g)
      /\ w.found \in Seq([path : Seq(g.nodes), cost : Nat, evidence : SUBSET Conversations])
  BY DEF Explore!Walks, Entered
<1>2. DOMAIN w.found = 1..Len(w.found) /\ Len(w.found) \in Nat
  <2>1. PICK s \in Seq([path : Seq(g.nodes), cost : Nat, evidence : SUBSET Conversations]) : s = w.found
    BY <1>1
  <2>2. DOMAIN s = 1..Len(s) /\ Len(s) \in Nat
    BY LenProperties
  <2>3. QED
    BY <2>1, <2>2
<1>3. QED
  BY <1>1, <1>2

\* An entry that goes no further leaves the others.
LEMMA LeavingEntry ==
  ASSUME NEW g, Explore!Sound(g), NEW w, Explore!Walking(g, w), NEW entry \in w.queue, NEW v,
         v = [w EXCEPT !.queue = w.queue \ {entry}],
         \A route \in Explore!Routes(g, w.source, w.target) :
           Explore!LeadsTo(g, entry, route) => \E i \in DOMAIN w.found : w.found[i].path = route
  PROVE  Explore!Walking(g, v) /\ v.found = w.found
<1>1. /\ w \in Explore!Walks(g) /\ w.source # w.target /\ Forward(g, w)
      /\ \A route \in Explore!Routes(g, w.source, w.target) : Covered(g, w, route)
  BY WalkIs
<1>2. /\ v \in Explore!Walks(g) /\ v.source = w.source /\ v.target = w.target /\ v.found = w.found
      /\ v.queue = w.queue \ {entry}
  BY <1>1 DEF Explore!Walks
<1>3. \A e \in v.queue : e \in w.queue /\ Explore!UnderWay(g, v, e)
  BY <1>1, <1>2 DEF Forward, Explore!UnderWay
<1>4. Forward(g, v)
  <2>1. v.source = w.source /\ v.target = w.target /\ v.found = w.found
    BY <1>2
  <2>2. \A i \in DOMAIN v.found : v.found[i].path \in Explore!Routes(g, v.source, v.target)
    BY <1>1, <2>1 DEF Forward
  <2>3. \A i \in DOMAIN v.found : v.found[i].cost = Explore!Fare(g, v.found[i].path)
    BY <1>1, <2>1 DEF Forward
  <2>4. \A i, j \in DOMAIN v.found : v.found[i].path = v.found[j].path => i = j
    BY <1>1, <2>1 DEF Forward
  <2>5. \A i, j \in DOMAIN v.found : i < j => v.found[i].cost <= v.found[j].cost
    BY <1>1, <2>1 DEF Forward
  <2>6. \A i \in DOMAIN v.found, e \in v.queue : v.found[i].cost <= e.cost
    BY <1>1, <1>3, <2>1 DEF Forward
  <2>7. \A e \in v.queue : Explore!UnderWay(g, v, e)
    BY <1>3
  <2>8. QED
    BY <2>2, <2>3, <2>4, <2>5, <2>6, <2>7 DEF Forward
<1>5. ASSUME NEW route \in Explore!Routes(g, v.source, v.target) PROVE Covered(g, v, route)
  <2>1. Covered(g, w, route)
    BY <1>1, <1>2
  <2>2. CASE Explore!LeadsTo(g, entry, route)
    BY <1>2, <2>2 DEF Covered
  <2>3. CASE ~Explore!LeadsTo(g, entry, route)
    <3>1. CASE \E i \in DOMAIN w.found : w.found[i].path = route
      BY <1>2, <3>1 DEF Covered
    <3>2. CASE \E e \in w.queue : Explore!LeadsTo(g, e, route)
      <4>1. PICK e \in w.queue : Explore!LeadsTo(g, e, route)
        BY <3>2
      <4>2. e # entry
        BY <2>3, <4>1
      <4>3. e \in v.queue
        BY <1>2, <4>1, <4>2
      <4>4. QED
        BY <4>1, <4>3 DEF Covered
    <3>3. QED
      BY <2>1, <3>1, <3>2 DEF Covered
  <2>4. QED
    BY <2>2, <2>3
<1>6. QED
  BY <1>1, <1>2, <1>4, <1>5, WalkFrom

Arrived(entry) ==
  [path |-> entry.path, cost |-> entry.cost, evidence |-> UNION {entry.edges[i].sessions : i \in DOMAIN entry.edges}]

Reporting(w, entry) == [w EXCEPT !.queue = w.queue \ {entry}, !.found = Append(w.found, Arrived(entry))]

\* A cheapest entry that has arrived is a cheapest route, and reported once.
LEMMA ArrivalReported ==
  ASSUME NEW g, Explore!Sound(g), NEW w, Explore!Walking(g, w), NEW entry \in w.queue,
         \A f \in w.queue : entry.cost <= f.cost, Explore!End(entry.path) = w.target,
         ~(\E i \in DOMAIN w.found : w.found[i].path = entry.path)
  PROVE  Explore!Walking(g, Reporting(w, entry)) /\ Len(Reporting(w, entry).found) = Len(w.found) + 1
<1>1. PICK new : new = Arrived(entry)
  OBVIOUS
<1>2. PICK v : v = Reporting(w, entry)
  OBVIOUS
<1>3. /\ w \in Explore!Walks(g) /\ w.source # w.target /\ Forward(g, w)
      /\ \A route \in Explore!Routes(g, w.source, w.target) : Covered(g, w, route)
  BY WalkIs
<1>4. PICK X : X = [path : Seq(g.nodes), cost : Nat, evidence : SUBSET Conversations]
  OBVIOUS
<1>5. PICK found \in Seq(X) : found = w.found
  BY <1>3, <1>4, WalkFields
<1>6. PICK n \in Nat : n = Len(found)
  OBVIOUS
<1>7. DOMAIN found = 1..n
  BY <1>6
<1>8. entry \in Entered(g) /\ Explore!UnderWay(g, w, entry) /\ w.queue \subseteq Entered(g)
  BY <1>3, WalkFields DEF Forward
<1>9. entry.path \in Seq(g.nodes) /\ entry.edges \in Seq(g.edges) /\ entry.cost \in Nat
  BY <1>8 DEF Entered
<1>10. new \in X
  <2>1. PICK s \in Seq(g.edges) : s = entry.edges
    BY <1>9
  <2>2. \A i \in DOMAIN s : s[i] \in g.edges
    OBVIOUS
  <2>3. \A i \in DOMAIN s : s[i].sessions \subseteq Conversations
    BY <2>2 DEF Explore!Sound
  <2>4. UNION {entry.edges[i].sessions : i \in DOMAIN entry.edges} \subseteq Conversations
    BY <2>1, <2>3
  <2>5. QED
    BY <1>4, <1>9, <2>4, <1>1 DEF Arrived
<1>11. PICK longer : longer = Append(found, new)
  OBVIOUS
<1>12. /\ longer \in Seq(X) /\ Len(longer) = n + 1 /\ DOMAIN longer = 1..(n + 1)
       /\ (\A i \in 1..n : longer[i] = found[i]) /\ longer[n + 1] = new
  BY <1>6, <1>10, <1>11, AppendProperties
<1>13. /\ v \in Explore!Walks(g) /\ v.source = w.source /\ v.target = w.target /\ v.found = longer
       /\ v.queue = w.queue \ {entry}
  <2>1. v = [w EXCEPT !.queue = w.queue \ {entry}, !.found = longer]
    BY <1>1, <1>2, <1>5, <1>11 DEF Reporting
  <2>2. longer \in Seq([path : Seq(g.nodes), cost : Nat, evidence : SUBSET Conversations])
    BY <1>4, <1>12
  <2>3. QED
    BY <1>3, <2>1, <2>2 DEF Explore!Walks
<1>14. new.path \in Explore!Routes(g, w.source, w.target)
  BY <1>3, <1>8, ArrivalIsRoute, <1>1 DEF Arrived
<1>15. new.cost = Explore!Fare(g, new.path)
  <2>1. PICK route : route = entry.path
    OBVIOUS
  <2>2. route \in Explore!Routes(g, w.source, w.target) /\ new.path = route /\ new.cost = entry.cost
    BY <1>14, <2>1, <1>1 DEF Arrived
  <2>3. Covered(g, w, route)
    BY <1>3, <2>2
  <2>4. PICK f \in w.queue : Explore!LeadsTo(g, f, route)
    BY <2>1, <2>3 DEF Covered
  <2>5. f \in Entered(g) /\ Explore!UnderWay(g, w, f)
    BY <1>3, <1>8, <2>4 DEF Forward
  <2>6. f.cost <= Explore!Fare(g, route)
    BY <2>2, <2>4, <2>5, BeginningIsNoDearer
  <2>7. entry.cost <= f.cost /\ f.cost \in Nat
    BY <2>4, <2>5 DEF Entered
  <2>8. entry.cost >= Explore!Fare(g, route)
    BY <1>8, <2>1 DEF Explore!UnderWay
  <2>9. Explore!Fare(g, route) \in Nat
    <3>1. route \in Seq(g.nodes) /\ IsPath(g, route) /\ route # <<>> /\ Len(route) \in 1..Len(route)
      BY <2>2, RouteIs
    <3>2. Explore!Fares(g, route) \in [1..Len(route) -> Nat]
      BY <3>1, FaresAre
    <3>3. QED
      BY <3>1, <3>2 DEF Explore!Fare
  <2>10. entry.cost = Explore!Fare(g, route)
    BY <1>9, <2>6, <2>7, <2>8, <2>9
  <2>11. QED
    BY <2>2, <2>10
<1>16. \A i \in 1..(n + 1) : i \in 1..n \/ i = n + 1
  BY <1>6
<1>17. \A e \in v.queue : e \in w.queue /\ Explore!UnderWay(g, v, e)
  BY <1>3, <1>13 DEF Forward, Explore!UnderWay
<1>18. Forward(g, v)
  <2>1. /\ \A i \in 1..n : found[i].path \in Explore!Routes(g, w.source, w.target)
        /\ \A i \in 1..n : found[i].cost = Explore!Fare(g, found[i].path)
        /\ \A i, j \in 1..n : found[i].path = found[j].path => i = j
        /\ \A i, j \in 1..n : i < j => found[i].cost <= found[j].cost
        /\ \A i \in 1..n, e \in w.queue : found[i].cost <= e.cost
    BY <1>3, <1>5, <1>7 DEF Forward
  <2>2. \A i \in 1..n : found[i].path # new.path
    BY <1>5, <1>7, <1>1 DEF Arrived
  <2>3. /\ \A i \in 1..(n + 1) : longer[i].path \in Explore!Routes(g, w.source, w.target)
        /\ \A i \in 1..(n + 1) : longer[i].cost = Explore!Fare(g, longer[i].path)
    BY <1>12, <1>14, <1>15, <1>16, <2>1
  <2>4. \A i, j \in 1..(n + 1) : longer[i].path = longer[j].path => i = j
    BY <1>12, <1>16, <2>1, <2>2
  <2>5. \A i, j \in 1..(n + 1) : i < j => longer[i].cost <= longer[j].cost
    <3>1. TAKE i, j \in 1..(n + 1)
    <3>2. HAVE i < j
    <3>3. i \in 1..n
      BY <1>6, <3>2
    <3>4. CASE j \in 1..n
      BY <1>12, <2>1, <3>2, <3>3, <3>4
    <3>5. CASE j = n + 1
      BY <1>12, <2>1, <3>3, <3>5, <1>1 DEF Arrived
    <3>6. QED
      BY <1>16, <3>4, <3>5
  <2>6. \A i \in 1..(n + 1), e \in v.queue : longer[i].cost <= e.cost
    <3>1. TAKE i \in 1..(n + 1), e \in v.queue
    <3>2. e \in w.queue
      BY <1>17
    <3>3. CASE i \in 1..n
      BY <1>12, <2>1, <3>2, <3>3
    <3>4. CASE i = n + 1
      BY <1>12, <3>2, <3>4, <1>1 DEF Arrived
    <3>5. QED
      BY <1>16, <3>3, <3>4
  <2>7. DOMAIN v.found = 1..(n + 1) /\ v.found = longer
    BY <1>12, <1>13
  <2>8. QED
    BY <1>13, <1>17, <2>3, <2>4, <2>5, <2>6, <2>7 DEF Forward
<1>19. ASSUME NEW route \in Explore!Routes(g, v.source, v.target) PROVE Covered(g, v, route)
  <2>1. Covered(g, w, route) /\ route \in Explore!Routes(g, w.source, w.target)
    BY <1>3, <1>13
  <2>2. DOMAIN v.found = 1..(n + 1) /\ n + 1 \in 1..(n + 1) /\ \A i \in 1..n : i \in 1..(n + 1)
    BY <1>6, <1>12, <1>13
  <2>3. CASE \E i \in DOMAIN w.found : w.found[i].path = route
    <3>1. PICK i \in 1..n : found[i].path = route
      BY <1>5, <1>7, <2>3
    <3>2. v.found[i].path = route
      BY <1>12, <1>13, <3>1
    <3>3. QED
      BY <2>2, <3>2 DEF Covered
  <2>4. CASE \E e \in w.queue : Explore!LeadsTo(g, e, route)
    <3>1. PICK e \in w.queue : Explore!LeadsTo(g, e, route)
      BY <2>4
    <3>2. CASE e = entry
      <4>1. entry.path = route
        BY <1>8, <2>1, <3>1, <3>2, BeginningLeadsOn
      <4>2. v.found[n + 1].path = route
        BY <1>12, <1>13, <4>1, <1>1 DEF Arrived
      <4>3. QED
        BY <2>2, <4>2 DEF Covered
    <3>3. CASE e # entry
      <4>1. e \in v.queue
        BY <1>13, <3>1, <3>3
      <4>2. QED
        BY <3>1, <4>1 DEF Covered
    <3>4. QED
      BY <3>2, <3>3
  <2>5. QED
    BY <2>1, <2>3, <2>4 DEF Covered
<1>20. v.source # v.target
  BY <1>3, <1>13
<1>21. Explore!Walking(g, v)
  BY <1>13, <1>18, <1>19, <1>20, WalkFrom
<1>22. QED
  BY <1>2, <1>5, <1>6, <1>12, <1>13, <1>21

\* The ways on from a path, each an entry of its own.
LEMMA ExtensionsAre ==
  ASSUME NEW g, Explore!Sound(g), NEW tick \in Nat, NEW entry
  PROVE  /\ Explore!Cardinality(Explore!Extensions(g, tick, entry)) \in Nat
         /\ \A x \in Explore!Extensions(g, tick, entry) :
              \E e \in Explore!Ways(g, entry.path) : x = Explore!Extended(g, tick, entry, e)
         /\ \A e \in Explore!Ways(g, entry.path) :
              Explore!Extended(g, tick, entry, e) \in Explore!Extensions(g, tick, entry)
<1>1. PICK ways : ways = Explore!Ways(g, entry.path)
  OBVIOUS
<1>2. ways \subseteq g.edges /\ IsFiniteSet(g.edges)
  BY <1>1, SameGraph DEF Explore!Ways, Explore!Sound
<1>3. IsFiniteSet(ways)
  BY <1>2, FS_Subset
<1>4. PICK f : f = [e \in ways |-> Explore!Extended(g, tick, entry, e)]
  OBVIOUS
<1>5. PICK more : more = Explore!Extensions(g, tick, entry)
  OBVIOUS
<1>6. more = {f[e] : e \in ways}
  <2>1. more = {Explore!Extended(g, tick, entry, e) : e \in ways}
    BY <1>1, <1>5 DEF Explore!Extensions
  <2>2. \A e \in ways : f[e] = Explore!Extended(g, tick, entry, e)
    BY <1>4
  <2>3. QED
    BY <2>1, <2>2
<1>7. IsFiniteSet(more)
  BY <1>3, <1>6, ImageFinite
<1>8. Cardinality(more) \in Nat
  BY <1>7, FS_CardinalityType
<1>9. \A e \in ways : f[e] = Explore!Extended(g, tick, entry, e)
  BY <1>4
<1>10. QED
  BY <1>1, <1>5, <1>6, <1>8, <1>9, SameGraph, SMTT(30)

Extending(g, w, entry) ==
  [w EXCEPT !.queue = (w.queue \ {entry}) \cup Explore!Extensions(g, w.tick, entry),
            !.tick = w.tick + Explore!Cardinality(Explore!Extensions(g, w.tick, entry))]

\* A cheapest entry that has not arrived is replaced by its extensions.
LEMMA EntryExtended ==
  ASSUME NEW g, Explore!Sound(g), NEW w, Explore!Walking(g, w), NEW entry \in w.queue,
         \A f \in w.queue : entry.cost <= f.cost, Explore!End(entry.path) # w.target,
         ~(Len(entry.edges) >= MaxHops)
  PROVE  Explore!Walking(g, Extending(g, w, entry)) /\ Extending(g, w, entry).found = w.found
<1>1. PICK more : more = Explore!Extensions(g, w.tick, entry)
  OBVIOUS
<1>2. PICK v : v = Extending(g, w, entry)
  OBVIOUS
<1>3. /\ w \in Explore!Walks(g) /\ w.source # w.target /\ Forward(g, w)
      /\ \A route \in Explore!Routes(g, w.source, w.target) : Covered(g, w, route)
  BY WalkIs
<1>4. PICK tick \in Nat : tick = w.tick
  BY <1>3, WalkFields
<1>5. entry \in Entered(g) /\ Explore!UnderWay(g, w, entry) /\ w.queue \subseteq Entered(g)
  BY <1>3, WalkFields DEF Forward
<1>6. PICK size \in Nat : size = Explore!Cardinality(more)
  BY <1>1, <1>4, ExtensionsAre
<1>7. \A x \in more : x \in Entered(g) /\ Explore!UnderWay(g, w, x) /\ entry.cost <= x.cost
  <2>1. TAKE x \in more
  <2>2. PICK e \in Explore!Ways(g, entry.path) : x = Explore!Extended(g, tick, entry, e)
    BY <1>1, <1>4, ExtensionsAre
  <2>3. QED
    BY <1>4, <1>5, <2>2, ExtendedIs
<1>8. PICK queue : queue = (w.queue \ {entry}) \cup more
  OBVIOUS
<1>9. queue \subseteq Entered(g) /\ \A e \in queue : e \in w.queue \/ e \in more
  BY <1>5, <1>7, <1>8
<1>10. /\ v \in Explore!Walks(g) /\ v.source = w.source /\ v.target = w.target /\ v.found = w.found
      /\ v.queue = queue
  <2>1. v = [w EXCEPT !.queue = queue, !.tick = tick + size]
    BY <1>1, <1>2, <1>4, <1>6, <1>8 DEF Extending
  <2>2. queue \in SUBSET [cost : Nat, tick : Nat, path : Seq(g.nodes), edges : Seq(g.edges)]
    BY <1>9 DEF Entered
  <2>3. tick + size \in Nat
    BY <1>4, <1>6
  <2>4. QED
    BY <1>3, <2>1, <2>2, <2>3 DEF Explore!Walks
<1>11. \A e \in v.queue : Explore!UnderWay(g, v, e)
  <2>1. TAKE e \in v.queue
  <2>2. Explore!UnderWay(g, w, e)
    BY <1>3, <1>7, <1>9, <1>10 DEF Forward
  <2>3. QED
    BY <1>10, <2>2 DEF Explore!UnderWay
<1>12. Forward(g, v)
  <2>1. v.source = w.source /\ v.target = w.target /\ v.found = w.found
    BY <1>10
  <2>2. \A i \in DOMAIN v.found : v.found[i].path \in Explore!Routes(g, v.source, v.target)
    BY <1>3, <2>1 DEF Forward
  <2>3. \A i \in DOMAIN v.found : v.found[i].cost = Explore!Fare(g, v.found[i].path)
    BY <1>3, <2>1 DEF Forward
  <2>4. \A i, j \in DOMAIN v.found : v.found[i].path = v.found[j].path => i = j
    BY <1>3, <2>1 DEF Forward
  <2>5. \A i, j \in DOMAIN v.found : i < j => v.found[i].cost <= v.found[j].cost
    BY <1>3, <2>1 DEF Forward
  <2>6. \A i \in DOMAIN v.found, e \in v.queue : v.found[i].cost <= e.cost
    <3>1. TAKE i \in DOMAIN v.found, e \in v.queue
    <3>2. i \in DOMAIN w.found /\ v.found[i].cost = w.found[i].cost
      BY <2>1
    <3>3. CASE e \in w.queue
      BY <1>3, <3>2, <3>3 DEF Forward
    <3>4. CASE e \in more
      <4>1. w.found[i].cost <= entry.cost
        BY <1>3, <3>2 DEF Forward
      <4>2. entry.cost <= e.cost /\ entry.cost \in Nat /\ e.cost \in Nat
        BY <1>5, <1>7, <3>4 DEF Entered
      <4>3. w.found[i].cost \in Nat
        <5>1. PICK s \in Seq([path : Seq(g.nodes), cost : Nat, evidence : SUBSET Conversations]) : s = w.found
          BY <1>3, WalkFields
        <5>2. i \in 1..Len(s)
          BY <3>2, <5>1
        <5>3. s[i] \in [path : Seq(g.nodes), cost : Nat, evidence : SUBSET Conversations]
          BY <5>2, ElementOfSeq
        <5>4. QED
          BY <5>1, <5>3
      <4>4. QED
        BY <3>2, <4>1, <4>2, <4>3
    <3>5. QED
      BY <1>9, <1>10, <3>3, <3>4
  <2>7. QED
    BY <1>11, <2>2, <2>3, <2>4, <2>5, <2>6 DEF Forward
<1>13. ASSUME NEW route \in Explore!Routes(g, v.source, v.target) PROVE Covered(g, v, route)
  <2>1. Covered(g, w, route) /\ route \in Explore!Routes(g, w.source, w.target)
    BY <1>3, <1>10
  <2>2. CASE \E i \in DOMAIN w.found : w.found[i].path = route
    BY <1>10, <2>2 DEF Covered
  <2>3. CASE \E e \in w.queue : Explore!LeadsTo(g, e, route)
    <3>1. PICK e \in w.queue : Explore!LeadsTo(g, e, route)
      BY <2>3
    <3>2. CASE e = entry
      <4>1. PICK way \in Explore!Ways(g, entry.path) : Explore!LeadsTo(g, Explore!Extended(g, tick, entry, way), route)
        BY <1>5, <2>1, <3>1, <3>2, BeginningLeadsOn
      <4>2. PICK x : x = Explore!Extended(g, tick, entry, way)
        OBVIOUS
      <4>3. x \in more /\ Explore!LeadsTo(g, x, route)
        BY <1>1, <1>4, <4>1, <4>2, ExtensionsAre
      <4>4. x \in v.queue
        BY <1>8, <1>10, <4>3
      <4>5. QED
        BY <4>3, <4>4 DEF Covered
    <3>3. CASE e # entry
      <4>1. e \in v.queue
        BY <1>8, <1>10, <3>1, <3>3
      <4>2. QED
        BY <3>1, <4>1 DEF Covered
    <3>4. QED
      BY <3>2, <3>3
  <2>4. QED
    BY <2>1, <2>2, <2>3 DEF Covered
<1>14. v.source # v.target
  BY <1>3, <1>10
<1>15. QED
  BY <1>2, <1>10, <1>12, <1>13, <1>14, WalkFrom

\* One entry is the first to be taken off.
LEMMA FirstEntry ==
  ASSUME NEW g, NEW queue \in SUBSET Entered(g), queue # {},
         NEW entry, entry = CHOOSE e \in queue : \A f \in queue : Explore!PopBefore(e, f)
  PROVE  entry \in queue /\ \A f \in queue : entry.cost <= f.cost
<1>1. \A e \in queue : e.cost \in Nat /\ e.tick \in Nat
  BY DEF Entered
<1>2. PICK costs : costs = {e.cost : e \in queue}
  OBVIOUS
<1>3. PICK least \in costs : \A y \in costs : least <= y
  <2>1. costs \subseteq Nat /\ costs # {}
    BY <1>1, <1>2
  <2>2. QED
    BY <2>1, LeastNat
<1>4. PICK ticks : ticks = {e.tick : e \in {f \in queue : f.cost = least}}
  OBVIOUS
<1>5. ticks \subseteq Nat /\ ticks # {}
  BY <1>1, <1>2, <1>3, <1>4
<1>6. PICK first \in ticks : \A y \in ticks : first <= y
  BY <1>5, LeastNat
<1>7. PICK e \in queue : e.cost = least /\ e.tick = first
  BY <1>4, <1>6
<1>8. \A f \in queue : Explore!PopBefore(e, f)
  <2>1. TAKE f \in queue
  <2>2. least <= f.cost /\ least \in Nat /\ f.cost \in Nat
    BY <1>1, <1>2, <1>3, <1>7
  <2>3. f.cost = least => first <= f.tick
    BY <1>4, <1>6
  <2>4. QED
    BY <1>7, <2>2, <2>3 DEF Explore!PopBefore
<1>9. \E d \in queue : \A f \in queue : Explore!PopBefore(d, f)
  BY <1>7, <1>8
<1>10. entry \in queue /\ \A f \in queue : Explore!PopBefore(entry, f)
  BY <1>9, Zenon
<1>11. \A f \in queue : entry.cost <= f.cost
  BY <1>1, <1>10 DEF Explore!PopBefore
<1>12. QED
  BY <1>10, <1>11

\* A step of a search.
LEMMA PoppedWalks ==
  ASSUME NEW g, Explore!Sound(g), NEW w, Explore!Walking(g, w), NEW entry \in w.queue,
         \A f \in w.queue : entry.cost <= f.cost, Len(w.found) < PathLimit
  PROVE  Explore!Walking(g, Explore!Popped(g, w, entry)) /\ Len(Explore!Popped(g, w, entry).found) <= PathLimit
<1>1. PICK v : v = Explore!Popped(g, w, entry)
  OBVIOUS
<1>2. w \in Explore!Walks(g) /\ w.source # w.target /\ Forward(g, w)
  BY WalkIs
<1>3. Len(w.found) \in Nat
  BY <1>2, WalkFields
<1>4. PICK rest : rest = w.queue \ {entry}
  OBVIOUS
<1>5. entry \in Entered(g) /\ Explore!UnderWay(g, w, entry) /\ w.tick \in Nat
  BY <1>2, WalkFields DEF Forward
<1>6. CASE Explore!End(entry.path) = w.target
  <2>1. v = [w EXCEPT !.queue = rest, !.found = Explore!Reported(w.found, entry)]
    BY <1>1, <1>4, <1>6 DEF Explore!Popped
  <2>2. CASE \E i \in DOMAIN w.found : w.found[i].path = entry.path
    <3>1. Explore!Reported(w.found, entry) = w.found
      BY <2>2 DEF Explore!Reported
    <3>2. v = [w EXCEPT !.queue = rest]
      BY <1>2, <2>1, <3>1 DEF Explore!Walks
    <3>3. \A route \in Explore!Routes(g, w.source, w.target) :
            Explore!LeadsTo(g, entry, route) => \E i \in DOMAIN w.found : w.found[i].path = route
      BY <1>5, <1>6, <2>2, BeginningLeadsOn
    <3>4. Explore!Walking(g, v) /\ v.found = w.found
      BY <1>4, <3>2, <3>3, LeavingEntry
    <3>5. QED
      BY <1>1, <1>3, <3>4, ExplorerAssumption
  <2>3. CASE ~(\E i \in DOMAIN w.found : w.found[i].path = entry.path)
    <3>1. PICK new : new = Arrived(entry)
      OBVIOUS
    <3>2. Explore!Reported(w.found, entry) = Append(w.found, new)
      BY <2>3, <3>1 DEF Explore!Reported, Arrived
    <3>3. v = Reporting(w, entry)
      BY <1>4, <2>1, <3>1, <3>2 DEF Reporting
    <3>4. Explore!Walking(g, Reporting(w, entry)) /\ Len(Reporting(w, entry).found) = Len(w.found) + 1
      BY <1>6, <2>3, ArrivalReported
    <3>5. QED
      BY <1>1, <1>3, <3>3, <3>4, ExplorerAssumption
  <2>4. QED
    BY <2>2, <2>3
<1>7. CASE Explore!End(entry.path) # w.target /\ Len(entry.edges) >= MaxHops
  <2>1. v = [w EXCEPT !.queue = rest]
    BY <1>1, <1>4, <1>7 DEF Explore!Popped
  <2>2. \A route \in Explore!Routes(g, w.source, w.target) : ~Explore!LeadsTo(g, entry, route)
    BY <1>5, <1>7, BeginningLeadsOn
  <2>3. Explore!Walking(g, v) /\ v.found = w.found
    BY <1>4, <2>1, <2>2, LeavingEntry
  <2>4. QED
    BY <1>1, <1>3, <2>3, ExplorerAssumption
<1>8. CASE Explore!End(entry.path) # w.target /\ ~(Len(entry.edges) >= MaxHops)
  <2>1. PICK more : more = Explore!Extensions(g, w.tick, entry)
    OBVIOUS
  <2>2. v = [w EXCEPT !.queue = rest \cup more, !.tick = w.tick + Explore!Cardinality(more)]
    BY <1>1, <1>4, <1>8, <2>1 DEF Explore!Popped
  <2>3. v = Extending(g, w, entry)
    BY <1>4, <2>1, <2>2 DEF Extending
  <2>4. Explore!Walking(g, Extending(g, w, entry)) /\ Extending(g, w, entry).found = w.found
    BY <1>8, EntryExtended
  <2>5. QED
    BY <1>1, <1>3, <2>3, <2>4, ExplorerAssumption
<1>9. QED
  BY <1>6, <1>7, <1>8

LEMMA OneNode ==
  ASSUME NEW S, NEW x \in S, NEW p, p = <<x>>
  PROVE  p \in Seq(S) /\ Len(p) = 1 /\ p[1] = x /\ DOMAIN p = {1} /\ p # <<>>
<1>1. p \in Seq(S)
  OBVIOUS
<1>2. Len(p) = 1 /\ p[1] = x
  OBVIOUS
<1>3. DOMAIN p = 1..1
  OBVIOUS
<1>4. p # <<>>
  OBVIOUS
<1>5. QED
  BY <1>1, <1>2, <1>3, <1>4

\* What has fields is there.
LEMMA GraphIsThere == \A a, b, c : [nodes |-> a, sessions |-> b, edges |-> c] # Explore!Absent
<1>1. TAKE a, b, c
<1>2. "nodes" \in DOMAIN [nodes |-> a, sessions |-> b, edges |-> c] /\ DOMAIN << >> = {}
  OBVIOUS
<1>3. QED
  BY <1>2 DEF Explore!Absent

LEMMA SpreadIsThere ==
  \A a, b, c, d, e : [community |-> a, round |-> b, visited |-> c, changed |-> d, done |-> e] # Explore!Absent
<1>1. TAKE a, b, c, d, e
<1>2. /\ "done" \in DOMAIN [community |-> a, round |-> b, visited |-> c, changed |-> d, done |-> e]
      /\ DOMAIN << >> = {}
  OBVIOUS
<1>3. QED
  BY <1>2 DEF Explore!Absent

LEMMA VisitedIsThere == \A g, p, n : Explore!Visited(g, p, n) # Explore!Absent
  BY SpreadIsThere DEF Explore!Visited

LEMMA WalkRecord ==
  ASSUME NEW N, NEW a \in N, NEW b \in N, NEW t \in Nat, NEW Q, NEW q \in Q, NEW F, NEW f \in F
  PROVE  [source |-> a, target |-> b, tick |-> t, found |-> f, queue |-> q]
           \in [source : N, target : N, tick : Nat, queue : Q, found : F]
  OBVIOUS

\* A search begins where it is asked to.
LEMMA WalkBegins ==
  ASSUME NEW g, Explore!Sound(g), NEW source \in g.nodes, NEW target \in g.nodes, NEW w,
         w = [source |-> source, target |-> target, tick |-> 1, found |-> <<>>,
              queue |-> IF source = target THEN {}
                        ELSE {[cost |-> 0, tick |-> 0, path |-> <<source>>, edges |-> <<>>]}]
  PROVE  Explore!Walking(g, w) /\ Len(w.found) <= PathLimit
<1>1. PICK entry : entry = [cost |-> 0, tick |-> 0, path |-> <<source>>, edges |-> <<>>]
  OBVIOUS
<1>2. entry.path \in Seq(g.nodes) /\ entry.edges \in Seq(g.edges)
  BY <1>1
<1>3. entry \in Entered(g)
  BY <1>1, <1>2 DEF Entered
<1>4. PICK queue : queue = (IF source = target THEN {} ELSE {entry})
  OBVIOUS
<1>5. queue \in SUBSET Entered(g)
  BY <1>3, <1>4
<1>6. w = [source |-> source, target |-> target, tick |-> 1, found |-> <<>>, queue |-> queue]
  BY <1>1, <1>4
<1>7. PICK found : found = <<>>
  OBVIOUS
<1>8. /\ found \in Seq([path : Seq(g.nodes), cost : Nat, evidence : SUBSET Conversations])
      /\ Len(found) = 0 /\ DOMAIN found = {}
  BY <1>7
<1>9. w.source = source /\ w.target = target /\ w.tick = 1 /\ w.found = found /\ w.queue = queue
  BY <1>6, <1>7
<1>10. w \in Explore!Walks(g)
  <2>1. queue \in SUBSET [cost : Nat, tick : Nat, path : Seq(g.nodes), edges : Seq(g.edges)]
    BY <1>5 DEF Entered
  <2>2. PICK one \in Nat : one = 1
    OBVIOUS
  <2>3. w = [source |-> source, target |-> target, tick |-> one, found |-> found, queue |-> queue]
    BY <1>6, <1>7, <2>2
  <2>4. found \in Seq([path : Seq(g.nodes), cost : Nat, evidence : SUBSET Conversations])
    BY <1>8
  <2>5. PICK queues : queues = SUBSET [cost : Nat, tick : Nat, path : Seq(g.nodes), edges : Seq(g.edges)]
    OBVIOUS
  <2>6. PICK finds : finds = Seq([path : Seq(g.nodes), cost : Nat, evidence : SUBSET Conversations])
    OBVIOUS
  <2>7. queue \in queues /\ found \in finds
    BY <2>1, <2>4, <2>5, <2>6
  <2>8. w \in [source : g.nodes, target : g.nodes, tick : Nat, queue : queues, found : finds]
    <3>1. one \in Nat /\ source \in g.nodes /\ target \in g.nodes
      BY <2>2
    <3>2. [source |-> source, target |-> target, tick |-> one, found |-> found, queue |-> queue]
            \in [source : g.nodes, target : g.nodes, tick : Nat, queue : queues, found : finds]
      BY <2>7, <3>1, WalkRecord, Zenon
    <3>3. QED
      BY <2>3, <3>2, Zenon
  <2>9. QED
    BY <2>5, <2>6, <2>8 DEF Explore!Walks
<1>11. Len(w.found) <= PathLimit
  BY <1>8, <1>9, ExplorerAssumption
<1>12. CASE source = target
  <2>1. w.queue = {} /\ w.found = <<>> /\ w.source = w.target
    BY <1>4, <1>7, <1>9, <1>12
  <2>2. QED
    BY <1>10, <1>11, <2>1 DEF Explore!Walking
<1>13. CASE source # target
  <2>1. queue = {entry}
    BY <1>4, <1>13
  <2>2. PICK path : path = <<source>>
    OBVIOUS
  <2>3. path \in Seq(g.nodes) /\ Len(path) = 1 /\ path # <<>> /\ path[1] = source /\ DOMAIN path = {1}
    BY <2>2, OneNode
  <2>4. entry.path = path /\ entry.cost = 0 /\ entry.edges = <<>> /\ Len(entry.edges) = 0
    BY <1>1, <2>2
  <2>5. IsPath(g, path)
    BY <2>3 DEF IsPath
  <2>6. Explore!Fares(g, path)[1] = 0
    BY <2>3, <2>5, FaresAre
  <2>7. Explore!UnderWay(g, w, entry)
    <3>1. entry.cost >= Explore!Fare(g, entry.path)
      <4>1. Explore!Fare(g, path) = 0
        BY <2>3, <2>6 DEF Explore!Fare
      <4>2. QED
        BY <2>4, <4>1
    <3>2. Len(entry.path) = Len(entry.edges) + 1 /\ Len(entry.edges) <= MaxHops /\ entry.path[1] = w.source
      BY <1>9, <2>3, <2>4, ExplorerAssumption
    <3>3. /\ \A i, j \in DOMAIN entry.path : entry.path[i] = entry.path[j] => i = j
          /\ \A i \in 1..(Len(entry.path) - 1) : Explore!Adjacent(g, entry.path[i], entry.path[i + 1])
      <4>1. \A i, j \in DOMAIN path : i = j
        BY <2>3
      <4>2. 1..(Len(path) - 1) = {}
        BY <2>3
      <4>3. QED
        BY <2>4, <4>1, <4>2
    <3>4. QED
      BY <3>1, <3>2, <3>3 DEF Explore!UnderWay
  <2>8. Forward(g, w)
    BY <1>8, <1>9, <2>1, <2>7 DEF Forward
  <2>9. ASSUME NEW route \in Explore!Routes(g, w.source, w.target) PROVE Covered(g, w, route)
    <3>1. /\ IsPath(g, route) /\ route # <<>> /\ Len(route) \in Nat /\ 2 <= Len(route) /\ route[1] = source
      BY <1>9, RouteIs
    <3>2. Explore!Fares(g, route)[1] = 0
      BY <3>1, FaresAre
    <3>3. Explore!LeadsTo(g, entry, route)
      <4>1. Len(path) <= Len(route) /\ \A i \in DOMAIN path : path[i] = route[i]
        BY <2>3, <3>1
      <4>2. entry.cost = Explore!Fares(g, route)[Len(path)]
        BY <2>3, <2>4, <3>2
      <4>3. QED
        BY <2>4, <4>1, <4>2 DEF Explore!LeadsTo
    <3>4. QED
      BY <1>9, <2>1, <3>3 DEF Covered
  <2>10. QED
    BY <1>9, <1>10, <1>11, <1>13, <2>8, <2>9, WalkFrom
<1>14. QED
  BY <1>12, <1>13

\* A search that has ended has found the cheapest routes.
LEMMA WalkIsDone ==
  ASSUME s4 # Explore!Absent => /\ Explore!Sound(s2) /\ Explore!Walking(s2, s4)
                                /\ Len(s4.found) <= PathLimit
  PROVE  Explore!PathsAreCheapest
<1>1. SUFFICES ASSUME s4 # Explore!Absent, ~Explore!WalkGoesOn, s4.source # s4.target
               PROVE  Explore!PathsAreCheapest
  BY DEF Explore!PathsAreCheapest
<1>2. PICK g : g = s2
  OBVIOUS
<1>3. PICK w : w = s4
  OBVIOUS
<1>4. Explore!Sound(g) /\ Explore!Walking(g, w) /\ Len(w.found) <= PathLimit /\ w.source # w.target
  BY <1>1, <1>2, <1>3
<1>5. w \in Explore!Walks(g) /\ Forward(g, w) /\ \A route \in Explore!Routes(g, w.source, w.target) : Covered(g, w, route)
  <2>1. w \in Explore!Walks(g)
    BY <1>4 DEF Explore!Walking
  <2>2. Forward(g, w)
    BY <1>4 DEF Explore!Walking, Forward
  <2>3. \A route \in Explore!Routes(g, w.source, w.target) : Covered(g, w, route)
    BY <1>4 DEF Explore!Walking, Covered
  <2>4. QED
    BY <2>1, <2>2, <2>3
<1>6. PICK s \in Seq([path : Seq(g.nodes), cost : Nat, evidence : SUBSET Conversations]) : s = w.found
  BY <1>5, WalkFields
<1>7. PICK n \in Nat : n = Len(s)
  OBVIOUS
<1>8. DOMAIN s = 1..n /\ n <= PathLimit
  BY <1>4, <1>6, <1>7
<1>9. w.queue = {} \/ n = PathLimit
  BY <1>1, <1>3, <1>6, <1>7, <1>8, ExplorerAssumption DEF Explore!WalkGoesOn
<1>10. PICK routes : routes = Explore!Routes(g, w.source, w.target)
  OBVIOUS
<1>11. PICK paths : paths = [i \in 1..n |-> s[i].path]
  OBVIOUS
<1>12. \A i \in 1..n : s[i].cost \in Nat /\ paths[i] = s[i].path
  <2>1. TAKE i \in 1..n
  <2>2. s[i] \in [path : Seq(g.nodes), cost : Nat, evidence : SUBSET Conversations]
    BY <1>7, ElementOfSeq
  <2>3. QED
    BY <1>11, <2>2
<1>13. PICK found : found = {s[i].path : i \in DOMAIN s}
  OBVIOUS
<1>14. /\ \A i \in 1..n : s[i].path \in routes /\ s[i].cost = Explore!Fare(g, s[i].path)
       /\ \A i, j \in 1..n : s[i].path = s[j].path => i = j
       /\ \A i, j \in 1..n : i < j => s[i].cost <= s[j].cost
       /\ \A i \in 1..n, e \in w.queue : s[i].cost <= e.cost
  BY <1>5, <1>6, <1>8, <1>10 DEF Forward
<1>15. found \subseteq routes
  BY <1>8, <1>13, <1>14
<1>16. Cardinality(found) = n
  <2>1. paths \in Seq(routes) /\ Len(paths) = n
    BY <1>7, <1>11, <1>14
  <2>2. Elements(paths) = found
    BY <1>8, <1>12, <1>13, <2>1 DEF Elements
  <2>3. \A i, j \in 1..Len(paths) : paths[i] = paths[j] => i = j
    BY <1>12, <1>14, <2>1
  <2>4. QED
    BY <2>1, <2>2, <2>3, CountElements
<1>17. n < PathLimit => found = routes
  <2>1. SUFFICES ASSUME n < PathLimit, NEW route \in routes PROVE route \in found
    BY <1>15
  <2>2. w.queue = {}
    BY <1>7, <1>9, <2>1, ExplorerAssumption
  <2>3. Covered(g, w, route)
    BY <1>5, <1>10
  <2>4. \E i \in DOMAIN s : s[i].path = route
    BY <1>6, <2>2, <2>3 DEF Covered
  <2>5. QED
    BY <1>13, <2>4
<1>18. ASSUME NEW p \in routes \ found, NEW q \in found PROVE Explore!Fare(g, p) >= Explore!Fare(g, q)
  <2>1. PICK i \in 1..n : s[i].path = q
    BY <1>8, <1>13
  <2>2. s[i].cost = Explore!Fare(g, q) /\ s[i].cost \in Nat
    BY <1>12, <1>14, <2>1
  <2>3. Covered(g, w, p) /\ p \in Explore!Routes(g, w.source, w.target)
    BY <1>5, <1>10
  <2>4. ~(\E j \in DOMAIN w.found : w.found[j].path = p)
    BY <1>6, <1>13
  <2>5. PICK e \in w.queue : Explore!LeadsTo(g, e, p)
    BY <2>3, <2>4 DEF Covered
  <2>6. e \in Entered(g) /\ Explore!UnderWay(g, w, e)
    BY <1>5, <2>5, WalkFields DEF Forward
  <2>7. e.cost <= Explore!Fare(g, p)
    BY <1>4, <2>3, <2>5, <2>6, BeginningIsNoDearer
  <2>8. s[i].cost <= e.cost /\ e.cost \in Nat
    BY <1>14, <2>1, <2>5, <2>6 DEF Entered
  <2>9. Explore!Fare(g, p) \in Nat
    <3>1. IsPath(g, p) /\ p # <<>> /\ Len(p) \in 1..Len(p)
      BY <1>4, <2>3, RouteIs
    <3>2. Explore!Fares(g, p) \in [1..Len(p) -> Nat]
      BY <1>4, <3>1, FaresAre
    <3>3. QED
      BY <3>1, <3>2 DEF Explore!Fare
  <2>10. QED
    BY <2>2, <2>7, <2>8, <2>9
<1>19. /\ routes = Explore!Routes(s2, s4.source, s4.target) /\ s = s4.found /\ g = s2
       /\ found = {s4.found[i].path : i \in DOMAIN s4.found}
  BY <1>2, <1>3, <1>6, <1>10, <1>13
<1>20. QED
  BY <1>7, <1>8, <1>14, <1>15, <1>16, <1>17, <1>18, <1>19, SameGraph DEF Explore!PathsAreCheapest

-----------------------------------------------------------------------------
(* The steps of a graph.                                                      *)

LEMMA ExplorerStart == Explore!Init => Explore!ExplorerInv
BY DEF Explore!Init, Explore!ExplorerInv, Explore!TypeOK

\* What a graph and its communities are.
LEMMA GraphTyped ==
  ASSUME NEW g, Explore!Sound(g), NEW p, Explore!Spreading(g, p)
  PROVE  /\ Explore!Cardinality(g.nodes) <= NodeLimit /\ Explore!Cardinality(g.edges) <= EdgeLimit
         /\ \A e \in g.edges : {e.source, e.target} \subseteq g.nodes
         /\ p.community \in [g.nodes -> g.nodes \cup {Explore!Peripheral}]
<1>1. Explore!Cardinality(g.nodes) <= NodeLimit /\ Explore!Cardinality(g.edges) <= EdgeLimit
  BY DEF Explore!Sound
<1>2. \A e \in g.edges : {e.source, e.target} \subseteq g.nodes
  BY DEF Explore!Sound
<1>3. QED
  BY <1>1, <1>2 DEF Explore!Spreading

LEMMA BuildGraphHolds ==
  ASSUME Explore!ExplorerInv, NEW scope \in Scopes, Explore!BuildGraph(scope)
  PROVE  Explore!ExplorerInv'
<1>1. /\ s1 \in [Conversations -> Contents] /\ s1' = s1 /\ s4' = s4
      /\ s2 = Explore!Absent /\ s3 = Explore!Absent /\ s4 = Explore!Absent
  BY DEF Explore!ExplorerInv, Explore!TypeOK, Explore!BuildGraph, Explore!Settled
<1>2. PICK S : S = Explore!InScope(scope)
  OBVIOUS
<1>3. S \in SUBSET Conversations
  BY <1>2 DEF Explore!InScope
<1>4. s2' = Explore!FactualGraph(S) \/ s2' = Explore!SimilarityGraph(S)
  BY <1>2 DEF Explore!BuildGraph, Explore!GraphOf
<1>5. Explore!Sound(s2')
  BY <1>1, <1>3, <1>4, FactualIsSound, SimilarityIsSound
<1>6. s3' = [community |-> [n \in s2'.nodes |-> n], round |-> 1, visited |-> {},
             changed |-> FALSE, done |-> s2'.nodes = {}]
  BY DEF Explore!BuildGraph
<1>7. Explore!Spreading(s2', s3')
  BY <1>5, <1>6, SpreadStarts
<1>8. s2' # Explore!Absent /\ s3' # Explore!Absent
  BY <1>4, <1>6, GraphIsThere, SpreadIsThere DEF Explore!FactualGraph, Explore!SimilarityGraph
<1>9. Explore!TypeOK'
  BY <1>1, <1>5, <1>7, GraphTyped, SameGraph DEF Explore!TypeOK
<1>10. QED
  BY <1>1, <1>5, <1>7, <1>8, <1>9 DEF Explore!ExplorerInv

LEMMA VisitHolds == ASSUME Explore!ExplorerInv, Explore!Visit PROVE Explore!ExplorerInv'
<1>1. /\ s1 \in [Conversations -> Contents] /\ s1' = s1 /\ s2' = s2 /\ s4' = s4
      /\ s2 # Explore!Absent /\ s3 # Explore!Absent /\ ~s3.done /\ s4 = Explore!Absent
  BY DEF Explore!ExplorerInv, Explore!TypeOK, Explore!Visit, Explore!Settled
<1>2. Explore!Sound(s2) /\ Explore!Spreading(s2, s3)
  BY <1>1 DEF Explore!ExplorerInv
<1>3. PICK left : left = s2.nodes \ s3.visited
  OBVIOUS
<1>4. left \in SUBSET s2.nodes /\ left # {}
  BY <1>1, <1>2, <1>3 DEF Explore!Spreading
<1>5. PICK n : n = Explore!NextOf(s2, left)
  OBVIOUS
<1>6. n \in s2.nodes \ s3.visited
  BY <1>2, <1>3, <1>4, <1>5, NextIsLeft
<1>7. s3' = Explore!Visited(s2, s3, n)
  BY <1>3, <1>5 DEF Explore!Visit
<1>8. Explore!Spreading(s2, s3')
  BY <1>1, <1>2, <1>6, <1>7, VisitSpreads
<1>9. s3' # Explore!Absent
  BY <1>7, VisitedIsThere
<1>10. Explore!TypeOK'
  BY <1>1, <1>2, <1>8, GraphTyped, SameGraph DEF Explore!TypeOK
<1>11. QED
  BY <1>1, <1>2, <1>8, <1>9, <1>10 DEF Explore!ExplorerInv

LEMMA BeginWalkHolds ==
  ASSUME Explore!ExplorerInv, s2 # Explore!Absent, NEW source \in s2.nodes, NEW target \in s2.nodes,
         Explore!BeginWalk(source, target)
  PROVE  Explore!ExplorerInv'
<1>1. /\ s1 \in [Conversations -> Contents] /\ s1' = s1 /\ s2' = s2 /\ s3' = s3
      /\ s3 # Explore!Absent /\ Explore!Settled /\ Explore!Sound(s2) /\ Explore!Spreading(s2, s3)
  BY DEF Explore!ExplorerInv, Explore!TypeOK, Explore!BeginWalk
<1>2. s4' = [source |-> source, target |-> target, tick |-> 1, found |-> <<>>,
             queue |-> IF source = target THEN {}
                       ELSE {[cost |-> 0, tick |-> 0, path |-> <<source>>, edges |-> <<>>]}]
  BY DEF Explore!BeginWalk
<1>3. Explore!Walking(s2, s4') /\ Len(s4'.found) <= PathLimit
  BY <1>1, <1>2, WalkBegins
<1>4. Explore!TypeOK'
  BY <1>1, <1>3, GraphTyped, SameGraph DEF Explore!TypeOK
<1>5. QED
  BY <1>1, <1>3, <1>4 DEF Explore!ExplorerInv, Explore!Settled

LEMMA PopHolds == ASSUME Explore!ExplorerInv, Explore!Pop PROVE Explore!ExplorerInv'
<1>1. /\ s1 \in [Conversations -> Contents] /\ s1' = s1 /\ s2' = s2 /\ s3' = s3
      /\ s4 # Explore!Absent /\ Explore!Settled /\ s3 # Explore!Absent /\ s2 # Explore!Absent
      /\ Explore!Sound(s2) /\ Explore!Spreading(s2, s3) /\ Explore!Walking(s2, s4)
      /\ s4.queue # {} /\ Len(s4.found) < PathLimit
  BY DEF Explore!ExplorerInv, Explore!TypeOK, Explore!Pop, Explore!WalkGoesOn, Explore!Settled
<1>2. PICK entry : entry = CHOOSE e \in s4.queue : \A f \in s4.queue : Explore!PopBefore(e, f)
  OBVIOUS
<1>3. s4.queue \in SUBSET Entered(s2)
  BY <1>1, WalkIs, WalkFields
<1>4. entry \in s4.queue /\ \A f \in s4.queue : entry.cost <= f.cost
  BY <1>1, <1>2, <1>3, FirstEntry
<1>5. s4' = Explore!Popped(s2, s4, entry)
  BY <1>2 DEF Explore!Pop
<1>6. Explore!Walking(s2, s4') /\ Len(s4'.found) <= PathLimit
  BY <1>1, <1>4, <1>5, PoppedWalks
<1>7. Explore!TypeOK'
  BY <1>1, <1>6, GraphTyped, SameGraph DEF Explore!TypeOK
<1>8. QED
  BY <1>1, <1>6, <1>7 DEF Explore!ExplorerInv, Explore!Settled

LEMMA ExplorerSteps == ASSUME Explore!ExplorerInv, Explore!Next PROVE Explore!ExplorerInv'
  BY BuildGraphHolds, VisitHolds, BeginWalkHolds, PopHolds DEF Explore!Next

LEMMA ExplorerStays == ASSUME Explore!ExplorerInv, UNCHANGED <<s1, s2, s3, s4>> PROVE Explore!ExplorerInv'
  BY DEF Explore!ExplorerInv, Explore!TypeOK, Explore!Settled

LEMMA GraphHolds == ASSUME Explore!ExplorerInv PROVE Explore!CommunitiesHold /\ Explore!PathsAreCheapest
<1>1. Explore!Settled => Explore!Sound(s2) /\ Explore!Spreading(s2, s3)
  BY DEF Explore!ExplorerInv, Explore!Settled
<1>2. s4 # Explore!Absent => /\ Explore!Sound(s2) /\ Explore!Walking(s2, s4)
                             /\ Len(s4.found) <= PathLimit
  BY <1>1 DEF Explore!ExplorerInv, Explore!TypeOK
<1>3. QED
  BY <1>1, <1>2, SpreadIsDone, WalkIsDone

-----------------------------------------------------------------------------
(* The parts in the run.                                                   *)

ViewsKept ==
  /\ part = "graph" => Explore!ExplorerInv
  /\ part = "shelf" => Shelves!ViewsInv
  /\ part = "search" => Finding!SearchInv
  /\ part = "list" => Todo!TodoInv

LEMMA ViewsStart == PilesInit => ViewsKept
  BY ExplorerStart, ShelfStart, FindingStart, TodoStart DEF PilesInit, ViewsKept

LEMMA ViewsStep == ViewsKept /\ PilesStep => ViewsKept'
<1> SUFFICES ASSUME ViewsKept, PilesStep PROVE ViewsKept'
  OBVIOUS
<1>1. CASE ShelfNext
  BY <1>1, ViewSteps DEF ShelfNext, ViewsKept
<1>2. CASE SearchNext
  BY <1>2, SearchSteps DEF SearchNext, ViewsKept
<1>3. CASE ListNext
  BY <1>3, TodoSteps DEF ListNext, ViewsKept
<1>4. CASE GraphNext
  BY <1>4, ExplorerSteps DEF GraphNext, ViewsKept
<1>5. CASE RoutingNext \/ SortingNext \/ RunsNext
  BY <1>5 DEF RoutingNext, SortingNext, RunsNext, ViewsKept
<1>6. CASE UNCHANGED <<part, vars, state>>
  <2>1. part' = part /\ UNCHANGED <<s1, s2, s3>> /\ UNCHANGED <<s1, s2, s3, s4>> /\ UNCHANGED <<s1, s2, s3, s4, s5, s6>>
        /\ UNCHANGED <<s1, s2, s3, s4, s5, s6, s7, s8, s9, s10>>
    BY <1>6 DEF state
  <2>2. QED
    BY <2>1, ExplorerStays, ViewsStay, SearchStays, TodoStays DEF ViewsKept
<1>7. QED
  BY <1>1, <1>2, <1>3, <1>4, <1>5, <1>6 DEF PilesStep

LEMMA ViewsAlways == PilesSpec => []ViewsKept
<1>1. QED
  BY ViewsStart, ViewsStep, PTL DEF PilesSpec, PilesStep

\* Whatever a pile holds, its graph's communities are parts of one component each and a search
\* for paths ends with the cheapest simple ones; its shelf links every source and joins ideas
\* as they ask; a search returns what its filters ask for, and hides within its limit nothing
\* that is found and can be shown, whichever rows, list or notes are edited while it reads them
\* one after the other; and its list of tasks loses none and takes up every one asked for.
\* (services/explorer.py: _detect_communities, _build_graph_path; services/search.py:
\* search_graph; services/todo.py: apply_todo_completions and the renderers)
THEOREM ViewsCorrect == PilesSpec => []ViewsHold
<1>1. ViewsKept => ViewsHold
  BY GraphHolds
  DEF ViewsKept, ViewsHold, Shelves!ViewsInv, Finding!SearchInv, Todo!TodoInv
<1>2. QED
  BY <1>1, ViewsAlways, PTL

\* Types of every part: limits on what is shown are kept, no request holds a row that another
\* holds, no built-in pile is ever inactive, and rows, lists and answers keep their shape.
\* (services/processing.py, restructure.py, orchestrator.py, explorer.py, search.py, todo.py)
THEOREM PilesTypeCorrect == PilesSpec => []TypesOK
<1>1. ViewsKept /\ (TypeOK /\ (part = "sorting" => Sorting!TypeOK) /\ (part = "runs" => Runs!TypeOK))
        => TypesOK
  BY DEF ViewsKept, TypesOK, Explore!ExplorerInv, Shelves!ViewsInv, Finding!SearchInv, Todo!TodoInv
<1>2. QED
  BY <1>1, ViewsAlways, RowTypesAlways, PTL
=============================================================================
