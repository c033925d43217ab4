---------------------------- MODULE NaturalsFacts ----------------------------
(***************************************************************************)
(* Facts about natural numbers that the proofs share: induction stated with a *)
(* set in the place of a predicate, division, and a function that is defined  *)
(* by what it maps one number less to.                                       *)
(***************************************************************************)
EXTENDS Integers, TLAPS, WellFoundedInduction

\* A set of natural numbers that is not empty has a least element.
LEMMA LeastNatural ==
  ASSUME NEW S \in SUBSET Nat, S # {}
  PROVE  \E n \in S : \A m \in S : n <= m
<1> DEFINE Less == {p \in Nat \X Nat : p[1] < p[2]}
<1>1. IsWellFoundedOn(Less, Nat)
  BY NatLessThanWellFounded DEF OpToRel
<1>2. PICK n \in S : \A m \in S : <<m, n>> \notin Less
  <2> HIDE DEF Less
  <2> QED
    BY <1>1, WFMin
<1>3. ASSUME NEW m \in S
      PROVE  n <= m
  <2>1. <<m, n>> \notin Less
    BY <1>2
  <2> QED
    BY <2>1
<1> QED
  BY <1>3

\* A set of natural numbers with 0 and with the successor of each of its elements is
\* the set of all of them.
LEMMA SetInduction ==
  ASSUME NEW S \in SUBSET Nat, 0 \in S, \A n \in S : n + 1 \in S
  PROVE  S = Nat
<1> SUFFICES ASSUME Nat \ S # {}
             PROVE  FALSE
  OBVIOUS
<1>1. PICK n \in Nat \ S : \A m \in Nat \ S : n <= m
  BY LeastNatural
<1>2. n - 1 \in S
  BY <1>1
<1> QED
  BY <1>1, <1>2

\* The quotient and the remainder, and what they are for a number in this form.
LEMMA Division ==
  ASSUME NEW n \in Nat, NEW d \in Nat \ {0}
  PROVE  /\ n \div d \in Nat
         /\ n % d \in 0 .. d - 1
         /\ n = d * (n \div d) + (n % d)
OBVIOUS

\* The quotient and the remainder of a number that is given as a multiple and a rest.
LEMMA QuotientUnique ==
  ASSUME NEW q \in Nat, NEW d \in Nat \ {0}, NEW r \in 0 .. d - 1
  PROVE  /\ (d * q + r) \div d = q
         /\ (d * q + r) % d = r
OBVIOUS

\* Different multiples of d are d or more apart.
LEMMA MultiplesApart ==
  ASSUME NEW d \in Nat \ {0}, NEW i \in Nat, NEW j \in Nat, i < j
  PROVE  d * i + d <= d * j
OBVIOUS

\* A product of naturals is a natural.
LEMMA ProductNatural ==
  ASSUME NEW m \in Nat, NEW n \in Nat
  PROVE  m * n \in Nat
OBVIOUS

-----------------------------------------------------------------------------

\* The function on the natural numbers that is `first` up to 1 and that from there on
\* follows `link` is there; Z is its part up to n.
UpTo(first, link, n, z) ==
  z = [i \in 0 .. n |-> IF i <= 1 THEN first ELSE link[z[i - 1]]]

\* The function that follows the links exists up to every bound ...
LEMMA UpToExists ==
  ASSUME NEW first, NEW link, NEW n \in Nat
  PROVE  \E z : UpTo(first, link, n, z)
<1> DEFINE S == {k \in Nat : \E z : UpTo(first, link, k, z)}
<1>1. 0 \in S
  <2> DEFINE z == [i \in 0 .. 0 |-> first]
  <2>1. z = [i \in 0 .. 0 |-> IF i <= 1 THEN first ELSE link[z[i - 1]]]
    OBVIOUS
  <2> QED
    BY <2>1 DEF UpTo
<1>2. ASSUME NEW k \in S
      PROVE  k + 1 \in S
  <2>1. PICK z : UpTo(first, link, k, z)
    OBVIOUS
  <2> DEFINE y == [i \in 0 .. k + 1 |->
                     IF i <= 1 THEN first ELSE IF i = k + 1 THEN link[z[k]] ELSE z[i]]
  <2>2. ASSUME NEW i \in 0 .. k + 1
        PROVE  y[i] = IF i <= 1 THEN first ELSE link[y[i - 1]]
    <3>1. \A j \in 0 .. k : z[j] = IF j <= 1 THEN first ELSE link[z[j - 1]]
      BY <2>1 DEF UpTo
    <3>2. \A j \in 0 .. k : y[j] = z[j]
      BY <3>1
    <3>3. CASE i <= 1
      BY <3>3
    <3>4. CASE i > 1 /\ i = k + 1
      BY <3>4, <3>2
    <3>5. CASE i > 1 /\ i # k + 1
      <4>1. i - 1 \in 0 .. k /\ i \in 0 .. k
        BY <3>5
      <4> QED
        BY <4>1, <3>1, <3>2, <3>5
    <3> QED
      BY <3>3, <3>4, <3>5
  <2>3. UpTo(first, link, k + 1, y)
    BY <2>2 DEF UpTo
  <2> QED
    BY <2>3
<1>3. S = Nat
  <2> HIDE DEF S
  <2>1. S \in SUBSET Nat
    BY DEF S
  <2> QED
    BY <1>1, <1>2, <2>1, SetInduction
<1> QED
  BY <1>3

\* ... and two of them agree where both are defined.
LEMMA UpToUnique ==
  ASSUME NEW first, NEW link, NEW m \in Nat, NEW n \in Nat, NEW y, NEW z,
         UpTo(first, link, m, y), UpTo(first, link, n, z),
         NEW i \in Nat, i <= m, i <= n
  PROVE  y[i] = z[i]
<1> DEFINE S == {k \in Nat : k <= m /\ k <= n => y[k] = z[k]}
<1>1. \A k \in 0 .. m : y[k] = IF k <= 1 THEN first ELSE link[y[k - 1]]
  BY DEF UpTo
<1>2. \A k \in 0 .. n : z[k] = IF k <= 1 THEN first ELSE link[z[k - 1]]
  BY DEF UpTo
<1>3. 0 \in S
  BY <1>1, <1>2
<1>4. ASSUME NEW k \in S
      PROVE  k + 1 \in S
  BY <1>1, <1>2
<1>5. S = Nat
  <2> HIDE DEF S
  <2>1. S \in SUBSET Nat
    BY DEF S
  <2> QED
    BY <1>3, <1>4, <2>1, SetInduction
<1> QED
  BY <1>5

IsLinked(first, link, g) ==
  g = [i \in Nat |-> IF i <= 1 THEN first ELSE link[g[i - 1]]]

\* A recursive function over Nat that follows links from its own last value
\* satisfies its equation.
LEMMA LinkedFunction ==
  ASSUME NEW first, NEW link
  PROVE  \E g : IsLinked(first, link, g)
<1> DEFINE part(n) == CHOOSE z : UpTo(first, link, n, z)
           g == [n \in Nat |-> part(n)[n]]
<1>1. \A n \in Nat : UpTo(first, link, n, part(n))
  BY UpToExists
<1>2. ASSUME NEW i \in Nat
      PROVE  g[i] = IF i <= 1 THEN first ELSE link[g[i - 1]]
  <2>1. UpTo(first, link, i, part(i))
    BY <1>1
  <2> HIDE DEF part
  <2>2. part(i)[i] = IF i <= 1 THEN first ELSE link[part(i)[i - 1]]
    BY <2>1 DEF UpTo
  <2>3. CASE i <= 1
    BY <2>2, <2>3
  <2>4. CASE i > 1
    <3>1. i - 1 \in Nat /\ UpTo(first, link, i - 1, part(i - 1))
      BY <1>1, <2>4
    <3>2. part(i)[i - 1] = part(i - 1)[i - 1]
      BY <2>1, <3>1, UpToUnique
    <3> QED
      BY <2>2, <2>4, <3>1, <3>2
  <2> QED
    BY <2>3, <2>4
<1>3. IsLinked(first, link, g)
  <2> HIDE DEF part
  <2> QED
    BY <1>2 DEF IsLinked
<1> QED
  BY <1>3
=============================================================================
