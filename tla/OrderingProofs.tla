--------------------------- MODULE OrderingProofs ---------------------------
(***************************************************************************)
(* Lemmas about numbers, and about what is sorted: that there is a sorted  *)
(* sequence, and that there is but one.                                    *)
(***************************************************************************)
EXTENDS Ordering, FiniteSetTheorems, WellFoundedInduction, TLAPS

(***************************************************************************)
(* Numbers                                                                 *)
(***************************************************************************)
\* Sets of numbers have a smallest member.
LEMMA SmallestMember ==
    ASSUME NEW T, T \subseteq Nat, T # {}
    PROVE  \E x \in T : \A y \in T : x <= y
<1> DEFINE less == OpToRel(<, Nat)
<1>1. IsWellFoundedOn(less, Nat)
  BY NatLessThanWellFounded
<1>2. \A x, y \in Nat : y < x => <<y, x>> \in less
  BY DEF OpToRel
<1> HIDE DEF less
<1>3. PICK x \in T : \A y \in T : <<y, x>> \notin less
  BY <1>1, WFMin
<1>4. x \in Nat /\ \A y \in T : y \in Nat
  OBVIOUS
<1>5. \A y \in T : ~(y < x)
  BY <1>2, <1>3, <1>4
<1> QED
  BY <1>4, <1>5

\* Induction, for sets of numbers
LEMMA AllNumbers ==
    ASSUME NEW T, T \subseteq Nat, 0 \in T, \A n \in T : n + 1 \in T
    PROVE  T = Nat
<1> SUFFICES ASSUME Nat \ T # {} PROVE FALSE
  OBVIOUS
<1>1. PICK x \in Nat \ T : \A y \in Nat \ T : x <= y
  <2> DEFINE rest == Nat \ T
  <2>1. rest \subseteq Nat /\ rest # {}
    OBVIOUS
  <2> HIDE DEF rest
  <2>2. PICK x \in rest : \A y \in rest : x <= y
    BY <2>1, SmallestMember
  <2> QED
    BY <2>2 DEF rest
<1>2. x - 1 \in Nat /\ x - 1 \notin Nat \ T
  BY <1>1
<1> QED
  BY <1>1, <1>2

\* Finite sets have a greatest member.
LEMMA GreatestMember ==
    ASSUME NEW T, T \subseteq Nat, IsFiniteSet(T), T # {}
    PROVE  \E x \in T : \A y \in T : y <= x
<1> DEFINE above(x) == {y \in T : y > x}
           counts == {Cardinality(above(x)) : x \in T}
<1>1. \A x \in T : IsFiniteSet(above(x)) /\ Cardinality(above(x)) \in Nat
  <2> SUFFICES ASSUME NEW x \in T
               PROVE  IsFiniteSet(above(x)) /\ Cardinality(above(x)) \in Nat
    OBVIOUS
  <2>1. above(x) \in SUBSET T
    OBVIOUS
  <2> HIDE DEF above
  <2> QED
    BY <2>1, FS_Subset, FS_CardinalityType
<1>2. counts \subseteq Nat /\ counts # {}
  BY <1>1
<1>3. PICK n \in counts : \A k \in counts : n <= k
  <2> HIDE DEF counts
  <2> QED
    BY <1>2, SmallestMember
<1>4. PICK x \in T : n = Cardinality(above(x))
  BY <1>3
<1>5. ASSUME NEW y \in T, y > x PROVE FALSE
  <2>0. x \in Nat /\ y \in Nat /\ \A z \in T : z \in Nat
    OBVIOUS
  <2>1. /\ \A z \in above(y) : z \in above(x)
        /\ y \in above(x) /\ y \notin above(y)
    BY <1>5, <2>0
  <2>2. Cardinality(above(y)) \in Nat /\ Cardinality(above(x)) \in Nat
    BY <1>1
  <2> HIDE DEF above
  <2>3. Cardinality(above(y)) <= Cardinality(above(x)) /\ Cardinality(above(y)) # Cardinality(above(x))
    BY <1>1, <2>1, FS_Subset
  <2>4. n <= Cardinality(above(y))
    BY <1>3
  <2> QED
    BY <1>4, <2>2, <2>3, <2>4
<1> QED
  BY <1>5

\* A sequence of different members, as many as there are, has them all.
LEMMA ListsAll ==
    ASSUME NEW S, IsFiniteSet(S), NEW s \in [1..Cardinality(S) -> S],
           \A i, j \in 1..Cardinality(S) : i < j => s[i] # s[j]
    PROVE  \A x \in S : \E i \in 1..Cardinality(S) : s[i] = x
<1> DEFINE n == Cardinality(S)
<1>1. n \in Nat /\ IsFiniteSet(1..n) /\ Cardinality(1..n) = n
  BY FS_CardinalityType, FS_Interval
<1>2. \A i, j \in 1..n : s[i] = s[j] => i = j
  <2> SUFFICES ASSUME NEW i \in 1..n, NEW j \in 1..n, s[i] = s[j], i # j
               PROVE  FALSE
    OBVIOUS
  <2>1. i < j \/ j < i
    BY <1>1
  <2> QED
    BY <2>1
<1>3. s \in Injection(1..n, S)
  BY <1>2 DEF Injection, IsInjective
<1>4. s \in Surjection(1..n, S)
  BY <1>1, <1>3, FS_Injection
<1> QED
  BY <1>4 DEF Surjection

(***************************************************************************)
(* Sorted sequences.  The order is the relation R, a set of pairs.         *)
(***************************************************************************)
StrictOrder(S, R) ==
    /\ \A x \in S : <<x, x>> \notin R
    /\ \A x, y, z \in S : <<x, y>> \in R /\ <<y, z>> \in R => <<x, z>> \in R

InOrder(s, S, R) ==
    /\ s \in [1..Cardinality(S) -> S]
    /\ \A i, j \in 1..Cardinality(S) : i < j => s[i] # s[j] /\ <<s[j], s[i]>> \notin R

\* If what is left without some member can be put in order, there is a member
\* that none comes before.
LEMMA FirstMember ==
    ASSUME NEW S, IsFiniteSet(S), NEW R, StrictOrder(S, R), NEW x \in S,
           NEW t, InOrder(t, S \ {x}, R)
    PROVE  \E y \in S : \A z \in S : <<z, y>> \notin R
<1> DEFINE rest == S \ {x}
           n == Cardinality(rest)
<1>1. n \in Nat /\ (n = 0 => S = {x})
  <2>1. IsFiniteSet(rest)
    BY FS_RemoveElement
  <2>2. n \in Nat /\ (n = 0 <=> rest = {})
    BY <2>1, FS_CardinalityType, FS_EmptySet
  <2> QED
    BY <2>2
<1>2. /\ t \in [1..n -> rest]
      /\ \A i, j \in 1..n : i < j => t[i] # t[j] /\ <<t[j], t[i]>> \notin R
  BY DEF InOrder
<1>3. \A z \in rest : \E i \in 1..n : t[i] = z
  <2>1. IsFiniteSet(rest)
    BY FS_RemoveElement
  <2>2. \A i, j \in 1..n : i < j => t[i] # t[j]
    BY <1>2
  <2> HIDE DEF rest
  <2>3. t \in [1..Cardinality(rest) -> rest]
    BY <1>2
  <2>4. \A i, j \in 1..Cardinality(rest) : i < j => t[i] # t[j]
    BY <2>2
  <2>5. \A z \in rest : \E i \in 1..Cardinality(rest) : t[i] = z
    BY <2>1, <2>3, <2>4, ListsAll
  <2> QED
    BY <2>5
<1>4. CASE n = 0
  BY <1>1, <1>4 DEF StrictOrder
<1>5. CASE n # 0
  <2>1. 1 \in 1..n /\ t[1] \in S
    <3>1. 1 \in 1..n
      <4> HIDE DEF n
      <4> QED
        BY <1>1, <1>5
    <3> QED
      BY <1>2, <3>1
  <2>2. \A z \in rest : <<z, t[1]>> \notin R
    <3> SUFFICES ASSUME NEW z \in rest PROVE <<z, t[1]>> \notin R
      OBVIOUS
    <3>1. PICK i \in 1..n : t[i] = z
      BY <1>3
    <3>2. i = 1 \/ 1 < i
      BY <3>1
    <3> QED
      BY <1>1, <1>2, <2>1, <3>1, <3>2 DEF StrictOrder
  <2> HIDE DEF rest, n
  <2>3. CASE <<x, t[1]>> \in R
    <3>1. \A z \in S : <<z, x>> \notin R
      BY <2>1, <2>2, <2>3 DEF StrictOrder, rest
    <3> QED
      BY <3>1
  <2>4. CASE <<x, t[1]>> \notin R
    <3>1. \A z \in S : <<z, t[1]>> \notin R
      BY <2>2, <2>4 DEF rest
    <3> QED
      BY <2>1, <3>1
  <2> QED
    BY <2>3, <2>4
<1> QED
  BY <1>4, <1>5

\* Every finite set can be put in order.
LEMMA OrderExists ==
    ASSUME NEW S, IsFiniteSet(S), NEW R, StrictOrder(S, R)
    PROVE  \E s : InOrder(s, S, R)
<1> DEFINE fits(k) == \A U \in SUBSET S : Cardinality(U) = k => \E s : InOrder(s, U, R)
           T == {k \in Nat : fits(k)}
<1>1. \A U \in SUBSET S : /\ IsFiniteSet(U) /\ Cardinality(U) \in Nat
                          /\ Cardinality(U) = 0 <=> U = {}
                          /\ StrictOrder(U, R)
  <2> SUFFICES ASSUME NEW U \in SUBSET S
               PROVE  /\ IsFiniteSet(U) /\ Cardinality(U) \in Nat
                      /\ Cardinality(U) = 0 <=> U = {}
                      /\ StrictOrder(U, R)
    OBVIOUS
  <2>1. IsFiniteSet(U)
    BY FS_Subset
  <2>2. StrictOrder(U, R)
    BY DEF StrictOrder
  <2> QED
    BY <2>1, <2>2, FS_CardinalityType, FS_EmptySet
<1>2. fits(0)
  <2> SUFFICES ASSUME NEW U \in SUBSET S, Cardinality(U) = 0 PROVE \E s : InOrder(s, U, R)
    OBVIOUS
  <2>1. U = {}
    BY <1>1
  <2>2. InOrder([i \in 1..0 |-> i], U, R)
    BY <2>1 DEF InOrder
  <2> QED
    BY <2>2
<1>3. ASSUME NEW k \in Nat, fits(k) PROVE fits(k + 1)
  <2> SUFFICES ASSUME NEW U \in SUBSET S, Cardinality(U) = k + 1
               PROVE  \E s : InOrder(s, U, R)
    OBVIOUS
  <2>1. \A x \in U : Cardinality(U \ {x}) = k /\ U \ {x} \in SUBSET S
    <3>1. IsFiniteSet(U)
      BY <1>1
    <3>2. \A x \in U : Cardinality(U \ {x}) = Cardinality(U) - 1
      BY <3>1, FS_RemoveElement
    <3> QED
      BY <3>2
  <2>2. \A x \in U : \E s : InOrder(s, U \ {x}, R)
    BY <1>3, <2>1
  <2>3. PICK x \in U : TRUE
    BY <1>1
  <2>4. PICK y \in U : \A z \in U : <<z, y>> \notin R
    <3>1. PICK t : InOrder(t, U \ {x}, R)
      BY <2>2
    <3> QED
      BY <1>1, <3>1, FirstMember
  <2>5. PICK t : InOrder(t, U \ {y}, R)
    BY <2>2
  <2> DEFINE s == [i \in 1..(k + 1) |-> IF i = 1 THEN y ELSE t[i - 1]]
  <2>6. /\ t \in [1..k -> U \ {y}]
        /\ \A i, j \in 1..k : i < j => t[i] # t[j] /\ <<t[j], t[i]>> \notin R
    BY <2>1, <2>5 DEF InOrder
  <2>7. s \in [1..(k + 1) -> U]
    BY <2>6
  <2>8. ASSUME NEW i \in 1..(k + 1), NEW j \in 1..(k + 1), i < j
        PROVE  s[i] # s[j] /\ <<s[j], s[i]>> \notin R
    <3>1. j - 1 \in 1..k /\ s[j] = t[j - 1] /\ t[j - 1] \in U \ {y}
      BY <2>6, <2>8
    <3>2. CASE i = 1
      BY <2>4, <3>1, <3>2
    <3>3. CASE i # 1
      <4>1. i - 1 \in 1..k /\ s[i] = t[i - 1] /\ i - 1 < j - 1
        BY <2>8, <3>3
      <4> QED
        BY <2>6, <3>1, <4>1
    <3> QED
      BY <3>2, <3>3
  <2> HIDE DEF s
  <2>9. InOrder(s, U, R)
    BY <2>7, <2>8 DEF InOrder
  <2> QED
    BY <2>9
<1>4. T = Nat
  <2> HIDE DEF fits
  <2>1. T \subseteq Nat /\ 0 \in T /\ \A k \in T : k + 1 \in T
    BY <1>2, <1>3
  <2> HIDE DEF T
  <2> QED
    BY <2>1, AllNumbers
<1>5. Cardinality(S) \in Nat
  BY <1>1
<1>6. fits(Cardinality(S))
  <2> HIDE DEF fits
  <2> QED
    BY <1>4, <1>5
<1> QED
  BY <1>6

Total(S, R) == \A x, y \in S : x # y => <<x, y>> \in R \/ <<y, x>> \in R

\* In a total order the place of a member is given by how many come before.
LEMMA PlaceIs ==
    ASSUME NEW S, IsFiniteSet(S), NEW R, StrictOrder(S, R), Total(S, R),
           NEW s, InOrder(s, S, R), NEW i \in 1..Cardinality(S)
    PROVE  Cardinality({y \in S : <<y, s[i]>> \in R}) = i - 1
<1> DEFINE n == Cardinality(S)
           below == {y \in S : <<y, s[i]>> \in R}
           f == [j \in 1..(i - 1) |-> s[j]]
<1>1. n \in Nat
  BY FS_CardinalityType
<1>2. s \in [1..n -> S]
  BY DEF InOrder
<1>3. \A j, k \in 1..n : j < k => s[j] # s[k] /\ <<s[k], s[j]>> \notin R
  BY DEF InOrder
<1>4. \A x \in S : \E j \in 1..n : s[j] = x
  <2>1. \A j, k \in 1..n : j < k => s[j] # s[k]
    BY <1>3
  <2> QED
    BY <1>2, <2>1, ListsAll
<1> HIDE DEF n
<1>5. i \in 1..n
  BY DEF n
<1>6. \A j \in 1..(i - 1) : j \in 1..n /\ s[j] \in below
  <2> SUFFICES ASSUME NEW j \in 1..(i - 1) PROVE j \in 1..n /\ s[j] \in below
    OBVIOUS
  <2>1. j \in 1..n /\ j < i
    BY <1>1, <1>5
  <2>2. s[j] # s[i] /\ <<s[i], s[j]>> \notin R /\ s[i] \in S /\ s[j] \in S
    BY <1>2, <1>3, <1>5, <2>1
  <2> QED
    BY <2>1, <2>2 DEF Total
<1>7. \A y \in below : \E j \in 1..(i - 1) : s[j] = y
  <2> SUFFICES ASSUME NEW y \in below PROVE \E j \in 1..(i - 1) : s[j] = y
    OBVIOUS
  <2>1. PICK j \in 1..n : s[j] = y
    BY <1>4
  <2>2. j # i
    BY <1>2, <1>5, <2>1 DEF StrictOrder
  <2>3. ~(i < j)
    BY <1>3, <1>5, <2>1
  <2>4. j \in 1..(i - 1)
    BY <1>1, <1>5, <2>2, <2>3
  <2> QED
    BY <2>1, <2>4
<1>8. \A j, k \in 1..(i - 1) : s[j] = s[k] => j = k
  <2> SUFFICES ASSUME NEW j \in 1..(i - 1), NEW k \in 1..(i - 1), s[j] = s[k], j # k
               PROVE  FALSE
    OBVIOUS
  <2>1. j \in 1..n /\ k \in 1..n /\ (j < k \/ k < j)
    BY <1>1, <1>5
  <2> QED
    BY <1>3, <2>1
<1> HIDE DEF below
<1>9. f \in Bijection(1..(i - 1), below)
  BY <1>6, <1>7, <1>8 DEF Bijection, Injection, Surjection, IsInjective
<1>10. i - 1 \in Nat
  BY <1>1, <1>5
<1>11. IsFiniteSet(1..(i - 1)) /\ Cardinality(1..(i - 1)) = i - 1
  BY <1>10, FS_Interval
<1>12. ExistsBijection(1..(i - 1), below)
  BY <1>9 DEF ExistsBijection
<1>13. Cardinality(below) = i - 1
  BY <1>11, <1>12, FS_Bijection
<1> QED
  BY <1>13 DEF below

\* So there is but one way to put a set in a total order.
LEMMA OneOrder ==
    ASSUME NEW S, IsFiniteSet(S), NEW R, StrictOrder(S, R), Total(S, R),
           NEW s, InOrder(s, S, R), NEW t, InOrder(t, S, R)
    PROVE  s = t
<1> DEFINE n == Cardinality(S)
<1>1. s \in [1..n -> S] /\ t \in [1..n -> S] /\ n \in Nat
  BY FS_CardinalityType DEF InOrder
<1>2. \A x \in S : \E j \in 1..n : t[j] = x
  <2>1. \A j, k \in 1..n : j < k => t[j] # t[k]
    BY DEF InOrder
  <2> QED
    BY <1>1, <2>1, ListsAll
<1>3. ASSUME NEW i \in 1..n PROVE s[i] = t[i]
  <2>1. PICK j \in 1..n : t[j] = s[i]
    BY <1>1, <1>2
  <2>2. /\ Cardinality({y \in S : <<y, s[i]>> \in R}) = i - 1
        /\ Cardinality({y \in S : <<y, t[j]>> \in R}) = j - 1
    BY PlaceIs
  <2>3. i = j
    BY <1>1, <2>1, <2>2
  <2> QED
    BY <2>1, <2>3
<1> HIDE DEF n
<1> QED
  BY <1>1, <1>3

\* Backwards it is in the opposite order.
LEMMA ReverseIs ==
    ASSUME NEW S, IsFiniteSet(S), NEW R, NEW R2, NEW s, InOrder(s, S, R),
           \A x, y \in S : <<x, y>> \in R2 => <<y, x>> \in R
    PROVE  InOrder(Reverse(s), S, R2)
<1> DEFINE n == Cardinality(S)
<1>1. s \in [1..n -> S] /\ n \in Nat
  BY FS_CardinalityType DEF InOrder
<1>2. \A i, j \in 1..n : i < j => s[i] # s[j] /\ <<s[j], s[i]>> \notin R
  BY DEF InOrder
<1> HIDE DEF n
<1>3. Len(s) = n
  BY <1>1
<1>4. Reverse(s) = [i \in 1..n |-> s[(n - i) + 1]]
  BY <1>3 DEF Reverse
<1>5. \A i \in 1..n : (n - i) + 1 \in 1..n
  BY <1>1
<1>6. Reverse(s) \in [1..n -> S]
  BY <1>1, <1>4, <1>5
<1>7. ASSUME NEW i \in 1..n, NEW j \in 1..n, i < j
      PROVE  Reverse(s)[i] # Reverse(s)[j] /\ <<Reverse(s)[j], Reverse(s)[i]>> \notin R2
  <2> DEFINE k == (n - i) + 1
             l == (n - j) + 1
  <2>1. k \in 1..n /\ l \in 1..n /\ l < k
    BY <1>1, <1>5, <1>7
  <2>2. Reverse(s)[i] = s[k] /\ Reverse(s)[j] = s[l]
    BY <1>4
  <2> HIDE DEF k, l
  <2>3. s[l] # s[k] /\ <<s[k], s[l]>> \notin R /\ s[k] \in S /\ s[l] \in S
    BY <1>1, <1>2, <2>1
  <2> QED
    BY <2>2, <2>3
<1> QED
  BY <1>6, <1>7 DEF InOrder, n

\* Places in increasing order
LEMMA PlacesIs ==
    ASSUME NEW P, P \subseteq Nat, IsFiniteSet(P)
    PROVE  /\ Sorted(P, <) \in [1..Cardinality(P) -> P]
           /\ \A i, j \in 1..Cardinality(P) : i < j => Sorted(P, <)[i] < Sorted(P, <)[j]
           /\ \A x \in P : \E i \in 1..Cardinality(P) : Sorted(P, <)[i] = x
<1> DEFINE n == Cardinality(P)
           R == {p \in P \X P : p[1] < p[2]}
           fits(s) == \A i, j \in 1..n : i < j => s[i] # s[j] /\ ~(s[j] < s[i])
<1>1. StrictOrder(P, R)
  BY DEF StrictOrder
<1>2. PICK t : InOrder(t, P, R)
  <2> HIDE DEF R
  <2> QED
    BY <1>1, OrderExists
<1>3. t \in [1..n -> P] /\ fits(t)
  BY <1>2 DEF InOrder
<1>4. Sorted(P, <) = CHOOSE s \in [1..n -> P] : fits(s)
  BY DEF Sorted
<1> DEFINE s == Sorted(P, <)
<1>5. s \in [1..n -> P] /\ fits(s)
  <2> HIDE DEF fits, n
  <2> QED
    BY <1>3, <1>4
<1>6. n \in Nat
  BY FS_CardinalityType
<1> HIDE DEF s
<1>7. \A i, j \in 1..n : i < j => s[i] < s[j]
  <2> HIDE DEF n
  <2> SUFFICES ASSUME NEW i \in 1..n, NEW j \in 1..n, i < j PROVE s[i] < s[j]
    OBVIOUS
  <2>1. s[i] \in Nat /\ s[j] \in Nat
    BY <1>5
  <2> QED
    BY <1>5, <2>1
<1>8. \A x \in P : \E i \in 1..n : s[i] = x
  <2>1. \A i, j \in 1..n : i < j => s[i] # s[j]
    BY <1>5
  <2> QED
    BY <1>5, <2>1, ListsAll
<1> QED
  BY <1>5, <1>7, <1>8 DEF s

\* What is selected from a sequence in order is in order.
LEMMA AtIs ==
    ASSUME NEW S, IsFiniteSet(S), NEW R, NEW s, InOrder(s, S, R), NEW Q \in SUBSET S
    PROVE  InOrder(At(s, {i \in 1..Len(s) : s[i] \in Q}), Q, R)
<1> DEFINE n == Cardinality(S)
           P == {i \in 1..Len(s) : s[i] \in Q}
           o == Sorted(P, <)
           f == [i \in P |-> s[i]]
<1>1. s \in [1..n -> S] /\ n \in Nat
  BY FS_CardinalityType DEF InOrder
<1>2. \A i, j \in 1..n : i < j => s[i] # s[j] /\ <<s[j], s[i]>> \notin R
  BY DEF InOrder
<1>3. \A x \in S : \E j \in 1..n : s[j] = x
  <2>1. \A i, j \in 1..n : i < j => s[i] # s[j]
    BY <1>2
  <2> QED
    BY <1>1, <2>1, ListsAll
<1> HIDE DEF n
<1>4. Len(s) = n
  BY <1>1
<1>5. P \subseteq 1..n /\ P \subseteq Nat /\ \A i \in P : s[i] \in Q
  BY <1>1, <1>4
<1>6. IsFiniteSet(P)
  BY <1>1, <1>5, FS_Interval, FS_Subset
<1>7. f \in Bijection(P, Q)
  <2>1. f \in [P -> Q]
    BY <1>5
  <2>2. \A x \in Q : \E i \in P : f[i] = x
    BY <1>3, <1>4
  <2>3. \A i, j \in P : f[i] = f[j] => i = j
    <3> SUFFICES ASSUME NEW i \in P, NEW j \in P, s[i] = s[j], i # j PROVE FALSE
      OBVIOUS
    <3>1. i \in 1..n /\ j \in 1..n /\ (i < j \/ j < i)
      BY <1>1, <1>5
    <3> QED
      BY <1>2, <3>1
  <2> HIDE DEF f, P
  <2> QED
    BY <2>1, <2>2, <2>3 DEF Bijection, Injection, Surjection, IsInjective
<1> HIDE DEF P
<1>8. Cardinality(Q) = Cardinality(P)
  BY <1>6, <1>7, FS_Bijection DEF ExistsBijection
<1> DEFINE k == Cardinality(P)
<1>9. o \in [1..k -> P] /\ \A i, j \in 1..k : i < j => o[i] < o[j]
  BY <1>5, <1>6, PlacesIs
<1>10. At(s, P) = [i \in 1..k |-> s[o[i]]]
  BY DEF At
<1> HIDE DEF k, o
<1>11. At(s, P) \in [1..k -> Q]
  BY <1>5, <1>9, <1>10
<1>12. ASSUME NEW i \in 1..k, NEW j \in 1..k, i < j
       PROVE  At(s, P)[i] # At(s, P)[j] /\ <<At(s, P)[j], At(s, P)[i]>> \notin R
  <2>1. o[i] \in 1..n /\ o[j] \in 1..n /\ o[i] < o[j]
    BY <1>5, <1>9, <1>12
  <2> QED
    BY <1>2, <1>10, <2>1
<1>13. InOrder(At(s, P), Q, R)
  BY <1>8, <1>11, <1>12 DEF InOrder, k
<1> QED
  BY <1>13 DEF P

\* What is listed is what is in order: all of it, and nothing else.
LEMMA InOrderHas ==
    ASSUME NEW S, IsFiniteSet(S), NEW R, NEW s, InOrder(s, S, R)
    PROVE  ToSet(s) = S
<1> DEFINE n == Cardinality(S)
<1>1. s \in [1..n -> S] /\ n \in Nat
  BY FS_CardinalityType DEF InOrder
<1>2. \A x \in S : \E j \in 1..n : s[j] = x
  <2>1. \A i, j \in 1..n : i < j => s[i] # s[j]
    BY DEF InOrder
  <2> QED
    BY <1>1, <2>1, ListsAll
<1> HIDE DEF n
<1>3. DOMAIN s = 1..n
  BY <1>1
<1> QED
  BY <1>1, <1>2, <1>3 DEF ToSet

\* Numbers
Smaller(S) == {p \in S \X S : p[1] < p[2]}

LEMMA NumbersInOrder ==
    ASSUME NEW S, S \subseteq Nat, IsFiniteSet(S)
    PROVE  /\ InOrder(Sorted(S, <), S, Smaller(S))
           /\ StrictOrder(S, Smaller(S)) /\ Total(S, Smaller(S))
<1>1. \A x, y \in S : <<x, y>> \in Smaller(S) <=> x < y
  BY DEF Smaller
<1>2. /\ Sorted(S, <) \in [1..Cardinality(S) -> S]
      /\ \A i, j \in 1..Cardinality(S) : i < j => Sorted(S, <)[i] < Sorted(S, <)[j]
  BY PlacesIs
<1> DEFINE s == Sorted(S, <)
           n == Cardinality(S)
<1>3. s \in [1..n -> S] /\ \A i, j \in 1..n : i < j => s[i] < s[j]
  BY <1>2
<1> HIDE DEF s, n
<1>4. \A i, j \in 1..n : i < j => s[i] # s[j] /\ <<s[j], s[i]>> \notin Smaller(S)
  <2> SUFFICES ASSUME NEW i \in 1..n, NEW j \in 1..n, i < j
               PROVE  s[i] # s[j] /\ <<s[j], s[i]>> \notin Smaller(S)
    OBVIOUS
  <2>1. s[i] \in S /\ s[j] \in S /\ s[i] \in Nat /\ s[j] \in Nat /\ s[i] < s[j]
    BY <1>3
  <2> QED
    BY <1>1, <2>1
<1>5. InOrder(s, S, Smaller(S))
  BY <1>3, <1>4 DEF InOrder, n
<1>6. StrictOrder(S, Smaller(S)) /\ Total(S, Smaller(S))
  BY <1>1 DEF StrictOrder, Total
<1> QED
  BY <1>5, <1>6 DEF s

\* A set that has no more members than another one is finite if that one is.
LEMMA ImageIsFinite ==
    ASSUME NEW S, IsFiniteSet(S), NEW f
    PROVE  IsFiniteSet({f[x] : x \in S})
<1> DEFINE T == {f[x] : x \in S}
           g == [x \in S |-> f[x]]
<1>1. g \in Surjection(S, T)
  BY DEF Surjection
<1> QED
  BY <1>1, FS_Surjection
=============================================================================
