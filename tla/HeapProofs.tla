----------------------------- MODULE HeapProofs -----------------------------
(***************************************************************************)
(* Proofs about Heap, for clients that free only what free() handles: the     *)
(* objects of a slab in use are the ones on its chain of free objects and the  *)
(* ones clients hold, so that no object is lost or double, malloc refuses only  *)
(* when the heap is used up, and malloc keeps the promise of an allocator.      *)
(***************************************************************************)
EXTENDS HeapListProofs

-----------------------------------------------------------------------------
(* The objects of a slab.                                                  *)

\* A position and a size there can be.
IsPlace(s, n) == s \in Nat \ {0} /\ n \in WordBytes .. SlabSize

\* A number of objects, and what they take up.
LEMMA ObjectsFit ==
  ASSUME NEW s, NEW n, IsPlace(s, n)
  PROVE  /\ s \in Nat \ {0} /\ n \in Nat \ {0} /\ SlabSize \in Nat
         /\ MaxObjects(n) \in Nat /\ MaxObjects(n) >= 1
         /\ MaxObjects(n) * n \in Nat /\ MaxObjects(n) * n <= SlabSize
<1>1. s \in Nat \ {0} /\ n \in Nat \ {0} /\ SlabSize \in Nat
  BY HeapAssumption DEF IsPlace, WordBytes
<1>2. MaxObjects(n) \in Nat /\ MaxObjects(n) >= 1
  BY RoomForOne DEF IsPlace
<1>3. PICK q, r : q = SlabSize \div n /\ r = SlabSize % n
  OBVIOUS
<1>4. q \in Nat /\ r \in Nat /\ SlabSize = n * q + r
  <2>1. n \in Nat \ {0} /\ SlabSize \in Nat
    BY <1>1
  <2>2. /\ SlabSize \div n \in Nat
        /\ SlabSize % n \in 0 .. n - 1
        /\ SlabSize = n * (SlabSize \div n) + (SlabSize % n)
    BY <2>1, Division
  <2>3. q \in Nat /\ r \in 0 .. n - 1 /\ SlabSize = n * q + r
    BY <1>3, <2>2
  <2> QED
    BY <2>1, <2>3
<1>5. MaxObjects(n) = q
  BY <1>3 DEF MaxObjects
<1>6. q * n \in Nat /\ q * n = n * q
  BY <1>1, <1>4, ProductNatural
<1>7. q * n <= SlabSize
  <2>1. PICK z : z = n * q
    OBVIOUS
  <2>2. z \in Nat /\ q * n = z /\ SlabSize = z + r
    BY <1>4, <1>6, <2>1
  <2> QED
    BY <1>1, <1>4, <2>2
<1> QED
  BY <1>1, <1>2, <1>5, <1>6, <1>7

\* Objects follow each other inside the area of the slab.
LEMMA ObjectIs ==
  ASSUME NEW s, NEW n, IsPlace(s, n), NEW i \in 0 .. MaxObjects(n)
  PROVE  /\ Object(s, i, n) \in Nat
         /\ s + SlabHeader <= Object(s, i, n)
         /\ Object(s, i, n) <= s + SlabBytes
         /\ Object(s, i, n) + n = Object(s, i + 1, n)
         /\ i < MaxObjects(n) => Object(s, i, n) + n <= s + SlabBytes
         /\ \A j \in 0 .. MaxObjects(n) :
              i < j => Object(s, i, n) + n <= Object(s, j, n)
<1>1. /\ s \in Nat \ {0} /\ n \in Nat \ {0} /\ SlabSize \in Nat
      /\ MaxObjects(n) \in Nat /\ MaxObjects(n) * n <= SlabSize
  BY ObjectsFit
<1>2. PICK m : m = MaxObjects(n)
  OBVIOUS
<1>3. m \in Nat /\ i \in Nat /\ i <= m /\ m * n <= SlabSize
  BY <1>1, <1>2
<1>4. \A j \in 0 .. m : j \in Nat /\ j * n \in Nat /\ j * n = n * j
  <2> TAKE j \in 0 .. m
  <2>1. j \in Nat
    BY <1>3
  <2> QED
    BY <1>1, <2>1, ProductNatural
<1>5. \A j, k \in 0 .. m : j < k => j * n + n <= k * n
  <2> TAKE j, k \in 0 .. m
  <2> HAVE j < k
  <2>1. j \in Nat /\ k \in Nat
    BY <1>3
  <2>2. n * j + n <= n * k
    BY <1>1, <2>1, MultiplesApart
  <2> QED
    BY <1>4, <2>2
<1>6. i \in 0 .. m /\ m \in 0 .. m
  BY <1>2, <1>3
<1>7. PICK x, y : x = i * n /\ y = m * n
  OBVIOUS
<1>8. x \in Nat /\ y \in Nat /\ y <= SlabSize /\ x <= y
  <2>1. x \in Nat /\ y \in Nat
    BY <1>4, <1>6, <1>7
  <2>2. CASE i = m
    BY <1>3, <1>7, <2>1, <2>2
  <2>3. CASE i < m
    <3>1. x + n <= y
      BY <1>5, <1>6, <1>7, <2>3
    <3> QED
      BY <1>1, <1>3, <1>7, <2>1, <3>1
  <2> QED
    BY <1>3, <2>2, <2>3
<1>9. (i + 1) * n = x + n
  BY <1>1, <1>3, <1>7
<1>10. /\ Object(s, i, n) = s + SlabHeader + x
       /\ Object(s, i + 1, n) = s + SlabHeader + (i + 1) * n
  BY <1>7 DEF Object
<1>11. /\ Object(s, i, n) \in Nat /\ s + SlabHeader <= Object(s, i, n)
       /\ Object(s, i, n) <= s + SlabBytes
  BY <1>1, <1>8, <1>10 DEF SlabHeader, SlabBytes
<1>12. Object(s, i, n) + n = Object(s, i + 1, n)
  BY <1>1, <1>8, <1>9, <1>10 DEF SlabHeader
<1>13. i < m => Object(s, i, n) + n <= s + SlabBytes
  <2> SUFFICES ASSUME i < m
               PROVE  Object(s, i, n) + n <= s + SlabBytes
    OBVIOUS
  <2>1. x + n <= y
    BY <1>5, <1>6, <1>7
  <2> QED
    BY <1>1, <1>8, <1>10, <2>1 DEF SlabHeader, SlabBytes
<1>14. ASSUME NEW j \in 0 .. m, i < j
       PROVE  Object(s, i, n) + n <= Object(s, j, n)
  <2>1. PICK z : z = j * n
    OBVIOUS
  <2>2. z \in Nat /\ x + n <= z
    BY <1>4, <1>5, <1>6, <1>7, <1>14, <2>1
  <2>3. Object(s, j, n) = s + SlabHeader + z
    BY <2>1 DEF Object
  <2> QED
    BY <1>1, <1>8, <1>10, <2>2, <2>3 DEF SlabHeader
<1> QED
  BY <1>2, <1>11, <1>12, <1>13, <1>14

\* The address behind the last object.
End(s, n) == Object(s, MaxObjects(n), n)

\* The objects of a slab: inside its area, and apart.
LEMMA ObjectsAre ==
  ASSUME NEW s, NEW n, IsPlace(s, n)
  PROVE  /\ \A a \in Objects(s, n) :
              /\ a \in Nat /\ a # 0 /\ s + SlabHeader <= a /\ s < a
              /\ a + n <= s + SlabBytes /\ a < s + SlabBytes /\ a + n <= End(s, n)
              /\ a < End(s, n)
         /\ \A a, b \in Objects(s, n) : a = b \/ a + n <= b \/ b + n <= a
         /\ End(s, n) \in Nat /\ End(s, n) # 0 /\ End(s, n) \notin Objects(s, n)
         /\ s + SlabHeader \in Objects(s, n)
<1>1. /\ s \in Nat \ {0} /\ n \in Nat \ {0} /\ MaxObjects(n) \in Nat /\ MaxObjects(n) >= 1
  BY ObjectsFit
<1>2. PICK m : m = MaxObjects(n)
  OBVIOUS
<1>3. PICK e : e = End(s, n)
  OBVIOUS
<1>4. \A a \in Objects(s, n) : \E i \in 0 .. m - 1 : a = Object(s, i, n)
  BY <1>2 DEF Objects
<1>5. e \in Nat /\ s + SlabHeader <= e
  <2>1. m \in 0 .. MaxObjects(n)
    BY <1>1, <1>2
  <2> QED
    BY <1>2, <1>3, <2>1, ObjectIs DEF End
<1>6. ASSUME NEW a \in Objects(s, n)
      PROVE  /\ a \in Nat /\ a # 0 /\ s + SlabHeader <= a /\ s < a
             /\ a + n <= s + SlabBytes /\ a < s + SlabBytes /\ a + n <= e
             /\ a < e
  <2>1. PICK i \in 0 .. m - 1 : a = Object(s, i, n)
    BY <1>4
  <2>2. i \in 0 .. MaxObjects(n) /\ i < MaxObjects(n) /\ m \in 0 .. MaxObjects(n) /\ i < m
    BY <1>1, <1>2
  <2>3. /\ a \in Nat /\ s + SlabHeader <= a /\ a + n <= s + SlabBytes
        /\ \A j \in 0 .. MaxObjects(n) : i < j => a + n <= Object(s, j, n)
    BY <2>1, <2>2, ObjectIs
  <2>4. a + n <= e
    BY <1>2, <1>3, <2>2, <2>3 DEF End
  <2>5. SlabBytes \in Nat
    BY HeapAssumption DEF SlabBytes, SlabHeader
  <2> QED
    BY <1>1, <1>5, <2>3, <2>4, <2>5 DEF SlabHeader
<1>7. ASSUME NEW a \in Objects(s, n), NEW b \in Objects(s, n)
      PROVE  a = b \/ a + n <= b \/ b + n <= a
  <2>1. PICK i \in 0 .. m - 1 : a = Object(s, i, n)
    BY <1>4
  <2>2. PICK j \in 0 .. m - 1 : b = Object(s, j, n)
    BY <1>4
  <2>3. i \in 0 .. MaxObjects(n) /\ j \in 0 .. MaxObjects(n) /\ i \in Nat /\ j \in Nat
    BY <1>1, <1>2
  <2>4. i < j => a + n <= b
    BY <2>1, <2>2, <2>3, ObjectIs
  <2>5. j < i => b + n <= a
    BY <2>1, <2>2, <2>3, ObjectIs
  <2> QED
    BY <2>1, <2>2, <2>3, <2>4, <2>5
<1>8. s + SlabHeader \in Objects(s, n)
  <2>1. 0 \in 0 .. m - 1
    BY <1>1, <1>2
  <2>2. 0 * n = 0
    BY <1>1
  <2>3. Object(s, 0, n) = s + SlabHeader
    BY <1>1, <2>2 DEF Object, SlabHeader
  <2> QED
    BY <1>2, <2>1, <2>3 DEF Objects
<1>9. e \notin Objects(s, n) /\ e # 0
  <2>1. \A a \in Objects(s, n) : a \in Nat /\ a < e
    BY <1>6
  <2> QED
    BY <1>1, <1>5, <2>1 DEF SlabHeader
<1> QED
  BY <1>3, <1>5, <1>6, <1>7, <1>8, <1>9

\* How many there are.
LEMMA ObjectsCounted ==
  ASSUME NEW s, NEW n, IsPlace(s, n)
  PROVE  IsFiniteSet(Objects(s, n)) /\ Cardinality(Objects(s, n)) = MaxObjects(n)
<1>1. MaxObjects(n) \in Nat /\ n \in Nat \ {0}
  BY ObjectsFit
<1>2. PICK m : m = MaxObjects(n)
  OBVIOUS
<1>3. PICK I, O : I = 0 .. m - 1 /\ O = Objects(s, n)
  OBVIOUS
<1>4. PICK f : f = [i \in I |-> Object(s, i, n)]
  OBVIOUS
<1>5. f \in Bijection(I, O)
  <2>1. \A i \in I : f[i] \in O
    BY <1>2, <1>3, <1>4 DEF Objects
  <2>2. \A a \in O : \E i \in I : f[i] = a
    BY <1>2, <1>3, <1>4 DEF Objects
  <2>3. ASSUME NEW i \in I, NEW j \in I, f[i] = f[j]
        PROVE  i = j
    <3>1. /\ i \in 0 .. MaxObjects(n) /\ j \in 0 .. MaxObjects(n) /\ i \in Nat /\ j \in Nat
          /\ Object(s, i, n) = Object(s, j, n)
      BY <1>1, <1>2, <1>3, <1>4, <2>3
    <3>2. /\ Object(s, i, n) \in Nat
          /\ i < j => Object(s, i, n) + n <= Object(s, j, n)
          /\ j < i => Object(s, j, n) + n <= Object(s, i, n)
      BY <3>1, ObjectIs
    <3> QED
      BY <1>1, <3>1, <3>2
  <2>4. f \in [I -> O] /\ DOMAIN f = I
    BY <1>4, <2>1
  <2> QED
    BY <2>2, <2>3, <2>4 DEF Bijection, Injection, Surjection, IsInjective
<1>6. IsFiniteSet(I) /\ Cardinality(I) = m
  <2>1. 0 \in Int /\ m - 1 \in Int
    BY <1>1, <1>2
  <2>2. IsFiniteSet(I) /\ Cardinality(I) = IF 0 > m - 1 THEN 0 ELSE (m - 1) - 0 + 1
    BY <1>3, <2>1, FS_Interval
  <2> QED
    BY <1>1, <1>2, <2>2
<1>7. IsFiniteSet(O) /\ Cardinality(O) = Cardinality(I)
  BY <1>5, <1>6, FS_Bijection DEF ExistsBijection
<1> QED
  BY <1>2, <1>3, <1>6, <1>7

-----------------------------------------------------------------------------
(* The chain of free objects of a slab.                                    *)

\* Range, in positions.
LEMMA RangeIs ==
  ASSUME NEW S, NEW q \in Seq(S)
  PROVE  /\ Len(q) \in Nat /\ DOMAIN q = 1 .. Len(q)
         /\ \A i \in 1 .. Len(q) : q[i] \in S /\ q[i] \in Range(q)
         /\ \A x : x \in Range(q) <=> \E i \in 1 .. Len(q) : x = q[i]
         /\ \A x \in Range(q) : x \in S
BY LenProperties, ElementOfSeq DEF Range

\* No two places of q hold the same.
Once(q) == \A i, j \in 1 .. Len(q) : q[i] = q[j] => i = j

\* As many members as places.
LEMMA OnceCounted ==
  ASSUME NEW S, NEW q \in Seq(S), Once(q)
  PROVE  IsFiniteSet(Range(q)) /\ Cardinality(Range(q)) = Len(q)
<1>1. Len(q) \in Nat /\ DOMAIN q = 1 .. Len(q)
  BY RangeIs
<1>2. \A i \in 1 .. Len(q) : q[i] \in Range(q)
  BY RangeIs
<1>3. \A x : x \in Range(q) <=> \E i \in 1 .. Len(q) : x = q[i]
  BY RangeIs
<1>4. PICK I, R : I = 1 .. Len(q) /\ R = Range(q)
  OBVIOUS
<1>5. q \in [I -> R]
  <2>1. q = [i \in 1 .. Len(q) |-> q[i]]
    BY LenProperties
  <2> QED
    BY <1>2, <1>4, <2>1
<1>6. q \in Bijection(I, R)
  <2>1. q \in Injection(I, R)
    BY <1>4, <1>5 DEF Once, Injection, IsInjective
  <2>2. q \in Surjection(I, R)
    BY <1>3, <1>4, <1>5 DEF Surjection
  <2> QED
    BY <2>1, <2>2 DEF Bijection
<1>7. IsFiniteSet(I) /\ Cardinality(I) = Len(q)
  <2>1. 1 \in Int /\ Len(q) \in Int
    BY <1>1
  <2>2. IsFiniteSet(I) /\ Cardinality(I) = IF 1 > Len(q) THEN 0 ELSE Len(q) - 1 + 1
    BY <1>4, <2>1, FS_Interval
  <2> QED
    BY <1>1, <2>2
<1>8. IsFiniteSet(R) /\ Cardinality(R) = Cardinality(I)
  BY <1>6, <1>7, FS_Bijection DEF ExistsBijection
<1> QED
  BY <1>4, <1>7, <1>8

\* q is the chain of the slab at s for objects of n bytes, with the header r, the links
\* w and the ranges own held by clients: it starts at first_free, goes on by the links
\* and ends with the null pointer or behind the last object; its objects are the ones
\* that have a link, and the others are the clients'.
ChainOf(s, n, r, w, own, q) ==
  /\ q \in Seq(Objects(s, n)) /\ Once(q)
  /\ \A b : b \in DOMAIN w /\ Encloses(s, b) <=> b \in Range(q)
  /\ Len(q) > 0 => r.first_free = q[1] /\ w[q[Len(q)]] \in {0, End(s, n)}
  /\ \A i \in 1 .. Len(q) - 1 : w[q[i]] = q[i + 1]
  /\ r.max = MaxObjects(n) /\ r.allocated = MaxObjects(n) - Len(q)
  /\ r.first_free \in Nat
  /\ \A a \in Objects(s, n) : a \notin Range(q) <=> [addr |-> a, len |-> n] \in own

Sound(s, n, r, w, own) == \E q : ChainOf(s, n, r, w, own, q)

\* The objects of a slab that clients hold.
HeldOf(s, n, own) == {a \in Objects(s, n) : [addr |-> a, len |-> n] \in own}

\* The count of a slab is the number of its objects that clients hold.
LEMMA HeldCounted ==
  ASSUME NEW s, NEW n, IsPlace(s, n), NEW r, NEW w, NEW own, NEW q,
         ChainOf(s, n, r, w, own, q)
  PROVE  /\ IsFiniteSet(HeldOf(s, n, own)) /\ Cardinality(HeldOf(s, n, own)) = r.allocated
         /\ r.allocated \in Nat /\ r.max = MaxObjects(n) /\ r.max \in Nat
         /\ Len(q) \in Nat /\ r.allocated = r.max - Len(q)
         /\ r.allocated = 0 => HeldOf(s, n, own) = {}
         /\ r.allocated = 1 => \A a, b \in HeldOf(s, n, own) : a = b
<1>1. PICK O, R, H : O = Objects(s, n) /\ R = Range(q) /\ H = HeldOf(s, n, own)
  OBVIOUS
<1>2. /\ q \in Seq(O) /\ Once(q) /\ r.max = MaxObjects(n)
      /\ r.allocated = MaxObjects(n) - Len(q)
  BY <1>1 DEF ChainOf
<1>3. IsFiniteSet(O) /\ Cardinality(O) = MaxObjects(n)
  BY <1>1, ObjectsCounted
<1>4. Len(q) \in Nat /\ \A x \in R : x \in O
  BY <1>1, <1>2, RangeIs
<1>5. IsFiniteSet(R) /\ Cardinality(R) = Len(q)
  BY <1>1, <1>2, OnceCounted
<1>6. H = O \ R /\ O \cap R = R
  <2>1. \A a \in O : a \notin R <=> [addr |-> a, len |-> n] \in own
    BY <1>1 DEF ChainOf
  <2>2. \A a : a \in H <=> a \in O /\ [addr |-> a, len |-> n] \in own
    BY <1>1 DEF HeldOf
  <2> QED
    BY <1>4, <2>1, <2>2
<1>7. IsFiniteSet(O \ R) /\ Cardinality(O \ R) = Cardinality(O) - Cardinality(O \cap R)
  BY <1>3, FS_Difference
<1>8. MaxObjects(n) \in Nat
  BY ObjectsFit
<1>9. IsFiniteSet(H) /\ Cardinality(H) = r.allocated
  BY <1>2, <1>3, <1>5, <1>6, <1>7
<1>10. Cardinality(H) \in Nat
  BY <1>9, FS_CardinalityType
<1>11. r.allocated = 0 => H = {}
  BY <1>9, FS_EmptySet
<1>12. r.allocated = 1 => \A a, b \in H : a = b
  <2>1. r.allocated = 1 => \E x : H = {x}
    BY <1>9, FS_Singleton
  <2> QED
    BY <2>1
<1> QED
  BY <1>1, <1>2, <1>4, <1>8, <1>9, <1>10, <1>11, <1>12

\* Another slab, or a step that does not touch the slab.
SameChain(s, n, r, w, own, r2, w2, own2) ==
  /\ r2.max = r.max /\ r2.allocated = r.allocated /\ r2.first_free = r.first_free
  /\ \A b : Encloses(s, b) => (b \in DOMAIN w2 <=> b \in DOMAIN w)
  /\ \A b \in DOMAIN w : Encloses(s, b) => w2[b] = w[b]
  /\ \A a \in Objects(s, n) :
       [addr |-> a, len |-> n] \in own2 <=> [addr |-> a, len |-> n] \in own

\* Such a slab keeps its chain.
LEMMA SoundKept ==
  ASSUME NEW s, NEW n, IsPlace(s, n), NEW r, NEW w, NEW own, NEW r2, NEW w2, NEW own2,
         Sound(s, n, r, w, own), SameChain(s, n, r, w, own, r2, w2, own2)
  PROVE  Sound(s, n, r2, w2, own2)
<1>1. PICK q : ChainOf(s, n, r, w, own, q)
  BY DEF Sound
<1>2. q \in Seq(Objects(s, n)) /\ Once(q)
  BY <1>1 DEF ChainOf
<1>3. /\ Len(q) \in Nat /\ \A i \in 1 .. Len(q) : q[i] \in Range(q)
  BY <1>2, RangeIs
<1>4. \A i \in 1 .. Len(q) : w2[q[i]] = w[q[i]]
  BY <1>1, <1>3 DEF ChainOf, SameChain
<1>5. \A b : b \in DOMAIN w2 /\ Encloses(s, b) <=> b \in Range(q)
  BY <1>1 DEF ChainOf, SameChain
<1>6. Len(q) > 0 => r2.first_free = q[1] /\ w2[q[Len(q)]] \in {0, End(s, n)}
  BY <1>1, <1>3, <1>4 DEF ChainOf, SameChain
<1>7. \A i \in 1 .. Len(q) - 1 : w2[q[i]] = q[i + 1]
  <2> SUFFICES ASSUME NEW i \in 1 .. Len(q) - 1
               PROVE  w2[q[i]] = q[i + 1]
    OBVIOUS
  <2>1. i \in 1 .. Len(q)
    BY <1>3
  <2>2. w[q[i]] = q[i + 1]
    BY <1>1 DEF ChainOf
  <2> QED
    BY <1>4, <2>1, <2>2
<1>8. /\ r2.max = MaxObjects(n) /\ r2.allocated = MaxObjects(n) - Len(q)
      /\ r2.first_free \in Nat
  BY <1>1 DEF ChainOf, SameChain
<1>9. \A a \in Objects(s, n) : a \notin Range(q) <=> [addr |-> a, len |-> n] \in own2
  BY <1>1 DEF ChainOf, SameChain
<1> QED
  BY <1>2, <1>5, <1>6, <1>7, <1>8, <1>9 DEF Sound, ChainOf

\* The chain of a new slab: all its objects, from the first one on.
FreshIn(s, n, r, w, own) ==
  /\ r.max = MaxObjects(n) /\ r.allocated = 0 /\ r.first_free = s + SlabHeader
  /\ \A b : b \in DOMAIN w /\ Encloses(s, b) <=> b \in Objects(s, n)
  /\ \A a \in Objects(s, n) : w[a] = a + n /\ [addr |-> a, len |-> n] \notin own

\* A new slab has a chain.
LEMMA FreshSound ==
  ASSUME NEW s, NEW n, IsPlace(s, n), NEW r, NEW w, NEW own, FreshIn(s, n, r, w, own)
  PROVE  Sound(s, n, r, w, own)
<1>1. PICK m, O : m = MaxObjects(n) /\ O = Objects(s, n)
  OBVIOUS
<1>2. m \in Nat /\ m >= 1 /\ n \in Nat \ {0} /\ s \in Nat
  BY <1>1, ObjectsFit
<1>3. PICK q : q = [i \in 1 .. m |-> Object(s, i - 1, n)]
  OBVIOUS
<1>4. \A i \in 1 .. m : i - 1 \in 0 .. m - 1 /\ i - 1 \in 0 .. MaxObjects(n)
  BY <1>1, <1>2
<1>5. q \in Seq(O) /\ Len(q) = m
  <2>1. \A i \in 1 .. m : Object(s, i - 1, n) \in O
    BY <1>1, <1>4 DEF Objects
  <2>2. [i \in 1 .. m |-> Object(s, i - 1, n)] \in Seq(O)
    BY <1>2, <2>1, IsASeq
  <2>3. q \in Seq(O) /\ DOMAIN q = 1 .. m
    BY <1>3, <2>2
  <2>4. Len(q) \in Nat /\ DOMAIN q = 1 .. Len(q)
    BY <2>3, LenProperties
  <2> QED
    BY <1>2, <2>3, <2>4
<1>6. \A i \in 1 .. m : q[i] = Object(s, i - 1, n)
  BY <1>3
<1>7. Once(q)
  <2> SUFFICES ASSUME NEW i \in 1 .. m, NEW j \in 1 .. m, q[i] = q[j]
               PROVE  i = j
    BY <1>5 DEF Once
  <2>1. Object(s, i - 1, n) = Object(s, j - 1, n)
    BY <1>6
  <2>2. /\ i - 1 \in 0 .. MaxObjects(n) /\ j - 1 \in 0 .. MaxObjects(n)
        /\ i - 1 \in Nat /\ j - 1 \in Nat
    BY <1>4
  <2>3. PICK h, k : h = i - 1 /\ k = j - 1
    OBVIOUS
  <2>4. h \in 0 .. MaxObjects(n) /\ k \in 0 .. MaxObjects(n) /\ h \in Nat /\ k \in Nat
    BY <2>2, <2>3
  <2>5. /\ Object(s, h, n) \in Nat
        /\ h < k => Object(s, h, n) + n <= Object(s, k, n)
        /\ k < h => Object(s, k, n) + n <= Object(s, h, n)
    BY <2>4, ObjectIs
  <2>6. Object(s, h, n) = Object(s, k, n)
    BY <2>1, <2>3
  <2>7. h = k
    BY <1>2, <2>4, <2>5, <2>6
  <2> QED
    BY <2>3, <2>7
<1>8. \A b : b \in Range(q) <=> b \in O
  <2>1. \A b : b \in Range(q) <=> \E i \in 1 .. m : b = q[i]
    BY <1>5, RangeIs
  <2>2. \A b : b \in O <=> \E i \in 0 .. m - 1 : b = Object(s, i, n)
    BY <1>1 DEF Objects
  <2>3. ASSUME NEW b \in O
        PROVE  b \in Range(q)
    <3>1. PICK i \in 0 .. m - 1 : b = Object(s, i, n)
      BY <2>2
    <3>2. i + 1 \in 1 .. m /\ (i + 1) - 1 = i
      BY <1>2
    <3>3. q[i + 1] = b
      BY <1>6, <3>1, <3>2
    <3> QED
      BY <2>1, <3>2, <3>3
  <2>4. ASSUME NEW b \in Range(q)
        PROVE  b \in O
    BY <1>4, <1>6, <2>1, <2>2
  <2> QED
    BY <2>3, <2>4
<1>9. ASSUME NEW i \in 1 .. m
      PROVE  w[q[i]] = Object(s, i, n)
  <2>1. PICK h : h = i - 1
    OBVIOUS
  <2>2. h \in 0 .. MaxObjects(n) /\ h + 1 = i
    BY <1>4, <2>1
  <2>3. Object(s, h, n) + n = Object(s, h + 1, n)
    BY <2>2, ObjectIs
  <2>4. q[i] = Object(s, h, n) /\ q[i] \in O
    BY <1>5, <1>6, <2>1, RangeIs
  <2>5. w[q[i]] = q[i] + n
    BY <1>1, <2>4 DEF FreshIn
  <2> QED
    BY <2>2, <2>3, <2>4, <2>5
<1>10. r.first_free = q[1]
  <2>1. q[1] = Object(s, 0, n)
    BY <1>2, <1>6
  <2>2. 0 * n = 0
    BY <1>2
  <2>3. Object(s, 0, n) = s + SlabHeader
    BY <1>2, <2>2 DEF Object, SlabHeader
  <2> QED
    BY <2>1, <2>3 DEF FreshIn
<1>11. w[q[Len(q)]] \in {0, End(s, n)}
  <2>1. w[q[m]] = Object(s, m, n)
    BY <1>2, <1>9
  <2> QED
    BY <1>1, <1>5, <2>1 DEF End
<1>12. \A i \in 1 .. Len(q) - 1 : w[q[i]] = q[i + 1]
  <2> SUFFICES ASSUME NEW i \in 1 .. Len(q) - 1
               PROVE  w[q[i]] = q[i + 1]
    OBVIOUS
  <2>1. i \in 1 .. m /\ i + 1 \in 1 .. m /\ (i + 1) - 1 = i
    BY <1>2, <1>5
  <2>2. w[q[i]] = Object(s, i, n)
    BY <1>9, <2>1
  <2>3. q[i + 1] = Object(s, i, n)
    BY <1>6, <2>1
  <2> QED
    BY <2>2, <2>3
<1>13. /\ r.max = MaxObjects(n) /\ r.allocated = MaxObjects(n) - Len(q)
       /\ r.first_free \in Nat
  BY <1>1, <1>2, <1>5 DEF FreshIn, SlabHeader
<1>14. \A b : b \in DOMAIN w /\ Encloses(s, b) <=> b \in Range(q)
  BY <1>1, <1>8 DEF FreshIn
<1>15. \A a \in Objects(s, n) : a \notin Range(q) <=> [addr |-> a, len |-> n] \in own
  BY <1>1, <1>8 DEF FreshIn
<1>16. q \in Seq(Objects(s, n))
  BY <1>1, <1>5
<1> QED
  BY <1>7, <1>10, <1>11, <1>12, <1>13, <1>14, <1>15, <1>16 DEF Sound, ChainOf

\* What malloc takes off a slab with a free object: the first object of the chain.
LEMMA FirstFree ==
  ASSUME NEW s, NEW n, IsPlace(s, n), NEW r, NEW w, NEW own, NEW q,
         ChainOf(s, n, r, w, own, q), r.allocated < r.max
  PROVE  /\ Len(q) \in Nat /\ Len(q) >= 1 /\ r.first_free = q[1]
         /\ r.first_free \in Objects(s, n) /\ r.first_free # 0
         /\ r.first_free \in DOMAIN w /\ Encloses(s, r.first_free)
         /\ [addr |-> r.first_free, len |-> n] \notin own
<1>1. Len(q) \in Nat /\ r.max \in Nat /\ r.allocated = r.max - Len(q)
  BY HeldCounted
<1>2. Len(q) >= 1
  BY <1>1
<1>3. q \in Seq(Objects(s, n)) /\ r.first_free = q[1]
  BY <1>2 DEF ChainOf
<1>4. q[1] \in Objects(s, n) /\ q[1] \in Range(q)
  <2>1. 1 \in 1 .. Len(q)
    BY <1>1, <1>2
  <2> QED
    BY <1>3, <2>1, RangeIs
<1>5. q[1] \in DOMAIN w /\ Encloses(s, q[1]) /\ [addr |-> q[1], len |-> n] \notin own
  BY <1>4 DEF ChainOf
<1>6. q[1] # 0
  BY <1>4, ObjectsAre
<1> QED
  BY <1>1, <1>2, <1>3, <1>4, <1>5, <1>6

TakenChain(n, r, w, own, r2, w2, own2) ==
  /\ r2.max = r.max /\ r2.allocated = r.allocated + 1 /\ r2.first_free = w[r.first_free]
  /\ DOMAIN w2 = DOMAIN w \ {r.first_free} /\ \A b \in DOMAIN w2 : w2[b] = w[b]
  /\ own2 = own \cup {[addr |-> r.first_free, len |-> n]}

\* Without its first object, the chain is the one of the slab afterwards.
LEMMA TakeSound ==
  ASSUME NEW s, NEW n, IsPlace(s, n), NEW r, NEW w, NEW own, NEW r2, NEW w2, NEW own2,
         Sound(s, n, r, w, own), r.allocated < r.max,
         TakenChain(n, r, w, own, r2, w2, own2)
  PROVE  Sound(s, n, r2, w2, own2)
<1>1. PICK q : ChainOf(s, n, r, w, own, q)
  BY DEF Sound
<1>2. PICK O, o, p : O = Objects(s, n) /\ o = r.first_free /\ p = Without(q, 1)
  OBVIOUS
<1>3. Len(q) \in Nat /\ Len(q) >= 1 /\ o = q[1] /\ o \in O
  BY <1>1, <1>2, FirstFree
<1>4. q \in Seq(O) /\ Once(q)
  BY <1>1, <1>2 DEF ChainOf
<1>5. 1 \in 1 .. Len(q)
  BY <1>3
<1>6. /\ p \in Seq(O) /\ Len(p) = Len(q) - 1
      /\ \A j \in 1 .. Len(q) - 1 : p[j] = IF j < 1 THEN q[j] ELSE q[j + 1]
  BY <1>2, <1>4, <1>5, WithoutIs
<1>7. \A j \in 1 .. Len(p) : j + 1 \in 1 .. Len(q) /\ p[j] = q[j + 1]
  BY <1>3, <1>6
<1>8. Range(p) = Range(q) \ {o}
  <2>1. \A j, m \in 1 .. Len(q) : q[j] = q[m] => j = m
    BY <1>4 DEF Once
  <2> QED
    BY <1>2, <1>3, <1>4, <1>5, <2>1, WithoutRange
<1>9. Once(p)
  <2> SUFFICES ASSUME NEW i \in 1 .. Len(p), NEW j \in 1 .. Len(p), p[i] = p[j]
               PROVE  i = j
    BY DEF Once
  <2>1. i + 1 \in 1 .. Len(q) /\ j + 1 \in 1 .. Len(q) /\ q[i + 1] = q[j + 1]
    BY <1>7
  <2>2. i + 1 = j + 1
    BY <1>4, <2>1 DEF Once
  <2> QED
    BY <2>2
<1>10. \A b : b \in DOMAIN w2 /\ Encloses(s, b) <=> b \in Range(p)
  BY <1>1, <1>2, <1>8 DEF ChainOf, TakenChain
<1>11. \A j \in 1 .. Len(p) : w2[p[j]] = w[p[j]]
  <2> TAKE j \in 1 .. Len(p)
  <2>1. p[j] \in Range(p)
    BY <1>6, RangeIs
  <2>2. p[j] \in DOMAIN w2
    BY <1>10, <2>1
  <2> QED
    BY <2>2 DEF TakenChain
<1>12. Len(p) > 0 => r2.first_free = p[1] /\ w2[p[Len(p)]] \in {0, End(s, n)}
  <2> SUFFICES ASSUME Len(p) > 0
               PROVE  r2.first_free = p[1] /\ w2[p[Len(p)]] \in {0, End(s, n)}
    OBVIOUS
  <2>1. /\ 1 \in 1 .. Len(q) - 1 /\ 1 \in 1 .. Len(p) /\ Len(p) \in 1 .. Len(p)
        /\ Len(p) + 1 = Len(q)
    BY <1>3, <1>6
  <2>2. w[q[1]] = q[1 + 1] /\ p[1] = q[1 + 1]
    BY <1>1, <1>7, <2>1 DEF ChainOf
  <2>3. r2.first_free = w[o]
    BY <1>2 DEF TakenChain
  <2>4. w2[p[Len(p)]] = w[p[Len(p)]] /\ p[Len(p)] = q[Len(q)]
    BY <1>7, <1>11, <2>1
  <2>5. w[q[Len(q)]] \in {0, End(s, n)}
    BY <1>1, <1>3 DEF ChainOf
  <2> QED
    BY <1>3, <2>2, <2>3, <2>4, <2>5
<1>13. \A j \in 1 .. Len(p) - 1 : w2[p[j]] = p[j + 1]
  <2> SUFFICES ASSUME NEW j \in 1 .. Len(p) - 1
               PROVE  w2[p[j]] = p[j + 1]
    OBVIOUS
  <2>1. PICK k : k = j + 1
    OBVIOUS
  <2>2. j \in 1 .. Len(p) /\ k \in 1 .. Len(p) /\ k \in 1 .. Len(q) - 1
    BY <1>3, <1>6, <2>1
  <2>3. p[j] = q[k] /\ p[k] = q[k + 1]
    BY <1>7, <2>1, <2>2
  <2>4. w[q[k]] = q[k + 1]
    BY <1>1, <2>2 DEF ChainOf
  <2> QED
    BY <1>11, <2>1, <2>2, <2>3, <2>4
<1>14. r2.first_free \in Nat
  <2>1. CASE Len(p) > 0
    <3>1. 1 \in 1 .. Len(p)
      BY <1>3, <1>6, <2>1
    <3>2. p[1] \in O
      BY <1>6, <3>1, RangeIs
    <3> QED
      BY <1>2, <1>12, <2>1, <3>2, ObjectsAre
  <2>2. CASE Len(q) = 1
    <3>1. w[q[Len(q)]] \in {0, End(s, n)}
      BY <1>1, <2>2 DEF ChainOf
    <3>2. r2.first_free = w[q[1]]
      BY <1>2, <1>3 DEF TakenChain
    <3>3. End(s, n) \in Nat
      BY ObjectsAre
    <3> QED
      BY <2>2, <3>1, <3>2, <3>3
  <2> QED
    BY <1>3, <1>6, <2>1, <2>2
<1>15. r2.max = MaxObjects(n) /\ r2.allocated = MaxObjects(n) - Len(p)
  <2>1. MaxObjects(n) \in Nat
    BY ObjectsFit
  <2>2. r.max = MaxObjects(n) /\ r.allocated = MaxObjects(n) - Len(q)
    BY <1>1 DEF ChainOf
  <2> QED
    BY <1>3, <1>6, <2>1, <2>2 DEF TakenChain
<1>16. \A a \in O : a \notin Range(p) <=> [addr |-> a, len |-> n] \in own2
  <2> TAKE a \in O
  <2>1. a \notin Range(q) <=> [addr |-> a, len |-> n] \in own
    BY <1>1, <1>2 DEF ChainOf
  <2>2. [addr |-> a, len |-> n] \in own2 <=>
          [addr |-> a, len |-> n] \in own \/ [addr |-> a, len |-> n] = [addr |-> o, len |-> n]
    BY <1>2 DEF TakenChain
  <2>3. [addr |-> a, len |-> n] = [addr |-> o, len |-> n] <=> a = o
    OBVIOUS
  <2> QED
    BY <1>8, <2>1, <2>2, <2>3
<1>17. /\ p \in Seq(Objects(s, n))
       /\ \A a \in Objects(s, n) : a \notin Range(p) <=> [addr |-> a, len |-> n] \in own2
  BY <1>2, <1>6, <1>16
<1> QED
  BY <1>9, <1>10, <1>12, <1>13, <1>15, <1>17, <1>14 DEF Sound, ChainOf

\* q with a after its first j members.
Inserted(q, j, a) ==
  [i \in 1 .. Len(q) + 1 |-> IF i <= j THEN q[i] ELSE IF i = j + 1 THEN a ELSE q[i - 1]]

\* p is q in S with a in S after its first j members.
PutIn(S, q, j, a, p) ==
  q \in Seq(S) /\ j \in 0 .. Len(q) /\ a \in S /\ p = Inserted(q, j, a)

\* What it is, place by place.
LEMMA InsertedIs ==
  ASSUME NEW S, NEW q, NEW j, NEW a, NEW p, PutIn(S, q, j, a, p)
  PROVE  /\ p \in Seq(S) /\ Len(p) = Len(q) + 1
         /\ \A i \in 1 .. j : p[i] = q[i]
         /\ p[j + 1] = a
         /\ \A i \in j + 2 .. Len(q) + 1 : p[i] = q[i - 1]
<1>1. Len(q) \in Nat /\ \A i \in 1 .. Len(q) : q[i] \in S
  BY RangeIs DEF PutIn
<1>2. PICK m : m = Len(q) + 1
  OBVIOUS
<1>3. m \in Nat /\ j \in Nat /\ j + 1 \in 1 .. m /\ j <= Len(q)
  BY <1>1, <1>2 DEF PutIn
<1>4. \A i \in 1 .. m : (IF i <= j THEN q[i] ELSE IF i = j + 1 THEN a ELSE q[i - 1]) \in S
  <2> TAKE i \in 1 .. m
  <2>1. i <= j => i \in 1 .. Len(q)
    BY <1>3
  <2>2. i > j + 1 => i - 1 \in 1 .. Len(q)
    BY <1>2, <1>3
  <2>3. i <= j \/ i = j + 1 \/ i > j + 1
    BY <1>3
  <2>4. i > j + 1 => ~ (i <= j) /\ i # j + 1
    BY <1>3
  <2>5. a \in S
    BY DEF PutIn
  <2> QED
    BY <1>1, <2>1, <2>2, <2>3, <2>4, <2>5
<1>5. p \in Seq(S)
  <2>1. [i \in 1 .. m |-> IF i <= j THEN q[i] ELSE IF i = j + 1 THEN a ELSE q[i - 1]] \in Seq(S)
    BY <1>3, <1>4, IsASeq
  <2> QED
    BY <1>2, <2>1 DEF Inserted, PutIn
<1>6. Len(p) = m
  <2>1. DOMAIN p = 1 .. m
    BY <1>2 DEF Inserted, PutIn
  <2>2. Len(p) \in Nat /\ DOMAIN p = 1 .. Len(p)
    BY <1>5, LenProperties
  <2> QED
    BY <1>3, <2>1, <2>2
<1>7. \A i \in 1 .. m :
        p[i] = IF i <= j THEN q[i] ELSE IF i = j + 1 THEN a ELSE q[i - 1]
  <2>1. p = [i \in 1 .. m |-> IF i <= j THEN q[i] ELSE IF i = j + 1 THEN a ELSE q[i - 1]]
    BY <1>2 DEF Inserted, PutIn
  <2> QED
    BY <2>1
<1>8. \A i \in 1 .. j : p[i] = q[i]
  <2> TAKE i \in 1 .. j
  <2>1. i \in 1 .. m /\ i <= j
    BY <1>2, <1>3
  <2> QED
    BY <1>7, <2>1
<1>9. p[j + 1] = a
  <2>1. ~ (j + 1 <= j)
    BY <1>3
  <2> QED
    BY <1>3, <1>7, <2>1
<1>10. \A i \in j + 2 .. m : p[i] = q[i - 1]
  <2> TAKE i \in j + 2 .. m
  <2>1. i \in 1 .. m /\ ~ (i <= j) /\ i # j + 1
    BY <1>3
  <2> QED
    BY <1>7, <2>1
<1> QED
  BY <1>2, <1>5, <1>6, <1>8, <1>9, <1>10

\* It holds what q holds, and a; each once, when q did not have a.
LEMMA InsertedRange ==
  ASSUME NEW S, NEW q, NEW j, NEW a, NEW p, PutIn(S, q, j, a, p)
  PROVE  /\ \A b : b \in Range(p) <=> b \in Range(q) \/ b = a
         /\ Once(q) /\ a \notin Range(q) => Once(p)
<1>0. q \in Seq(S) /\ a \in S /\ j \in 0 .. Len(q)
  BY DEF PutIn
<1>1. Len(q) \in Nat /\ j \in Nat /\ j <= Len(q)
  BY <1>0, RangeIs
<1>2. /\ p \in Seq(S) /\ Len(p) = Len(q) + 1
      /\ \A i \in 1 .. j : p[i] = q[i]
      /\ p[j + 1] = a
      /\ \A i \in j + 2 .. Len(q) + 1 : p[i] = q[i - 1]
  BY InsertedIs
<1>3. \A x : x \in Range(q) <=> \E i \in 1 .. Len(q) : x = q[i]
  BY <1>0, RangeIs
<1>4. \A x : x \in Range(p) <=> \E i \in 1 .. Len(p) : x = p[i]
  BY <1>2, RangeIs
<1>5. \A i \in 1 .. Len(p) : i \in 1 .. j \/ i = j + 1 \/ i \in j + 2 .. Len(q) + 1
  BY <1>1, <1>2
<1>6. \A i \in 1 .. j : i \in 1 .. Len(q) /\ i \in 1 .. Len(p)
  BY <1>1, <1>2
<1>7. \A i \in j + 2 .. Len(q) + 1 : i - 1 \in 1 .. Len(q)
  BY <1>1
<1>8. ASSUME NEW b \in Range(p)
      PROVE  b \in Range(q) \/ b = a
  <2>1. PICK i \in 1 .. Len(p) : b = p[i]
    BY <1>4
  <2>2. CASE i \in 1 .. j
    BY <1>2, <1>3, <1>6, <2>1, <2>2
  <2>3. CASE i = j + 1
    BY <1>2, <2>1, <2>3
  <2>4. CASE i \in j + 2 .. Len(q) + 1
    <3>1. b = q[i - 1] /\ i - 1 \in 1 .. Len(q)
      BY <1>2, <1>7, <2>1, <2>4
    <3> QED
      BY <1>3, <3>1
  <2> QED
    BY <1>5, <2>2, <2>3, <2>4
<1>9. ASSUME NEW b \in Range(q)
      PROVE  b \in Range(p)
  <2>1. PICK i \in 1 .. Len(q) : b = q[i]
    BY <1>3
  <2>2. CASE i <= j
    <3>1. i \in 1 .. j
      BY <1>1, <2>2
    <3> QED
      BY <1>2, <1>4, <1>6, <2>1, <3>1
  <2>3. CASE i > j
    <3>1. PICK k : k = i + 1
      OBVIOUS
    <3>2. k \in j + 2 .. Len(q) + 1 /\ k - 1 = i /\ k \in 1 .. Len(p)
      BY <1>1, <1>2, <2>3, <3>1
    <3>3. p[k] = b
      BY <1>2, <2>1, <3>2
    <3> QED
      BY <1>4, <3>2, <3>3
  <2> QED
    BY <1>1, <2>2, <2>3
<1>10. a \in Range(p)
  <2>1. j + 1 \in 1 .. Len(p)
    BY <1>1, <1>2
  <2> QED
    BY <1>2, <1>4, <2>1
<1>11. ASSUME Once(q), a \notin Range(q)
       PROVE  Once(p)
  <2> DEFINE at(i) == IF i <= j THEN i ELSE i - 1
  <2>1. ASSUME NEW i \in 1 .. Len(p), i # j + 1
        PROVE  at(i) \in 1 .. Len(q) /\ p[i] = q[at(i)] /\ p[i] # a
    <3>1. CASE i \in 1 .. j
      <4>1. at(i) = i
        BY <1>1, <3>1
      <4> QED
        BY <1>2, <1>3, <1>6, <1>11, <3>1, <4>1
    <3>2. CASE i \in j + 2 .. Len(q) + 1
      <4>1. at(i) = i - 1
        BY <1>1, <3>2
      <4>2. i - 1 \in 1 .. Len(q) /\ p[i] = q[i - 1]
        BY <1>2, <1>7, <3>2
      <4>3. q[i - 1] \in Range(q)
        BY <1>3, <4>2
      <4> QED
        BY <1>11, <4>1, <4>2, <4>3
    <3> QED
      BY <1>5, <2>1, <3>1, <3>2
  <2>2. ASSUME NEW i \in 1 .. Len(p), NEW k \in 1 .. Len(p), p[i] = p[k]
        PROVE  i = k
    <3>1. CASE i = j + 1 \/ k = j + 1
      BY <1>2, <2>1, <2>2, <3>1
    <3>2. CASE i # j + 1 /\ k # j + 1
      <4>1. /\ at(i) \in 1 .. Len(q) /\ p[i] = q[at(i)]
            /\ at(k) \in 1 .. Len(q) /\ p[k] = q[at(k)]
        BY <2>1, <3>2
      <4>2. at(i) = at(k)
        <5> HIDE DEF at
        <5> QED
          BY <1>11, <2>2, <4>1 DEF Once
      <4>3. i \in Nat /\ k \in Nat
        BY <1>2
      <4> QED
        BY <1>1, <3>2, <4>2, <4>3
    <3> QED
      BY <3>1, <3>2
  <2> QED
    BY <2>2 DEF Once
<1> QED
  BY <1>8, <1>9, <1>10, <1>11

\* The object at a comes back after the first j free ones: j is 0 for a full slab.
GivenChain(n, r, w, own, q, j, a, r2, w2, own2) ==
  /\ r2.max = r.max /\ r2.allocated = r.allocated - 1
  /\ DOMAIN w2 = DOMAIN w \cup {a}
  /\ j = 0 => r2.first_free = a /\ w2[a] = 0
  /\ j > 0 => r2.first_free = r.first_free /\ w2[q[j]] = a /\ w2[a] = w[q[j]]
  /\ \A b \in DOMAIN w : b # a /\ (j > 0 => b # q[j]) => w2[b] = w[b]
  /\ own2 = own \ {[addr |-> a, len |-> n]}

\* With the object at its place, the chain is the one of the slab afterwards.
LEMMA GiveSound ==
  ASSUME NEW s, NEW n, IsPlace(s, n), NEW r, NEW w, NEW own, NEW r2, NEW w2, NEW own2,
         NEW q, ChainOf(s, n, r, w, own, q),
         NEW j, j \in 0 .. Len(q), j = 0 => Len(q) = 0,
         NEW a, a \in Objects(s, n), [addr |-> a, len |-> n] \in own,
         GivenChain(n, r, w, own, q, j, a, r2, w2, own2)
  PROVE  Sound(s, n, r2, w2, own2)
<1>1. PICK O, p : O = Objects(s, n) /\ p = Inserted(q, j, a)
  OBVIOUS
<1>2. q \in Seq(O) /\ Once(q) /\ a \in O /\ a \notin Range(q)
  BY <1>1 DEF ChainOf
<1>3. Len(q) \in Nat /\ j \in Nat /\ j <= Len(q)
  BY <1>2, RangeIs
<1>4. PutIn(O, q, j, a, p)
  BY <1>1, <1>2 DEF PutIn
<1>5. /\ p \in Seq(O) /\ Len(p) = Len(q) + 1
      /\ \A i \in 1 .. j : p[i] = q[i]
      /\ p[j + 1] = a
      /\ \A i \in j + 2 .. Len(q) + 1 : p[i] = q[i - 1]
  BY <1>4, InsertedIs
<1>6. /\ \A b : b \in Range(p) <=> b \in Range(q) \/ b = a
      /\ Once(p)
  <2>1. /\ \A b : b \in Range(p) <=> b \in Range(q) \/ b = a
        /\ Once(q) /\ a \notin Range(q) => Once(p)
    BY <1>4, InsertedRange
  <2> QED
    BY <1>2, <2>1
<1>7. Encloses(s, a)
  <2>1. a \in Nat /\ s < a /\ a < s + SlabBytes
    BY ObjectsAre
  <2>2. s \in Nat /\ SlabBytes \in Nat
    BY HeapAssumption, ObjectsFit DEF SlabBytes, SlabHeader
  <2> QED
    BY <2>1, <2>2 DEF Encloses
<1>8. \A b : b \in DOMAIN w2 /\ Encloses(s, b) <=> b \in Range(p)
  BY <1>6, <1>7 DEF ChainOf, GivenChain
<1>9. \A i \in 1 .. Len(q) : q[i] \in Range(q) /\ q[i] \in DOMAIN w
  <2> TAKE i \in 1 .. Len(q)
  <2>1. q[i] \in Range(q)
    BY <1>2, RangeIs
  <2> QED
    BY <2>1 DEF ChainOf
<1>10. \A i \in 1 .. Len(q) : i # j => w2[q[i]] = w[q[i]]
  <2> TAKE i \in 1 .. Len(q)
  <2> HAVE i # j
  <2>1. q[i] # a /\ q[i] \in DOMAIN w
    BY <1>2, <1>9
  <2>2. j > 0 => q[i] # q[j]
    <3> HAVE j > 0
    <3>1. j \in 1 .. Len(q)
      BY <1>3
    <3> QED
      BY <1>2, <3>1 DEF Once
  <2> QED
    BY <2>1, <2>2 DEF GivenChain
<1>11. r2.first_free = p[1]
  <2>1. CASE j = 0
    BY <1>5, <2>1 DEF GivenChain
  <2>2. CASE j > 0
    <3>1. 1 \in 1 .. j /\ Len(q) > 0
      BY <1>3, <2>2
    <3>2. r2.first_free = r.first_free /\ r.first_free = q[1]
      BY <2>2, <3>1 DEF GivenChain, ChainOf
    <3> QED
      BY <1>5, <3>1, <3>2
  <2> QED
    BY <1>3, <2>1, <2>2
<1>12. w2[p[Len(p)]] \in {0, End(s, n)}
  <2>1. CASE j = 0
    <3>1. Len(p) = j + 1
      BY <1>3, <1>5, <2>1
    <3> QED
      BY <1>5, <2>1, <3>1 DEF GivenChain
  <2>2. CASE j > 0 /\ j = Len(q)
    <3>1. Len(p) = j + 1
      BY <1>3, <1>5, <2>2
    <3>2. w2[a] = w[q[Len(q)]] /\ w[q[Len(q)]] \in {0, End(s, n)}
      BY <2>2 DEF GivenChain, ChainOf
    <3> QED
      BY <1>5, <3>1, <3>2
  <2>3. CASE j > 0 /\ j < Len(q)
    <3>1. Len(q) + 1 \in j + 2 .. Len(q) + 1 /\ (Len(q) + 1) - 1 = Len(q)
      BY <1>3, <2>3
    <3>2. p[Len(p)] = q[Len(q)]
      BY <1>5, <3>1
    <3>3. w2[q[Len(q)]] = w[q[Len(q)]]
      <4>1. Len(q) \in 1 .. Len(q) /\ Len(q) # j
        BY <1>3, <2>3
      <4> QED
        BY <1>10, <4>1
    <3>4. w[q[Len(q)]] \in {0, End(s, n)}
      BY <1>3, <2>3 DEF ChainOf
    <3> QED
      BY <3>2, <3>3, <3>4
  <2> QED
    BY <1>3, <2>1, <2>2, <2>3
<1>13. ASSUME NEW i \in 1 .. Len(p) - 1
       PROVE  w2[p[i]] = p[i + 1]
  <2>1. i \in Nat /\ i >= 1 /\ i <= Len(q)
    BY <1>3, <1>5
  <2>2. CASE i < j
    <3>1. i \in 1 .. j /\ i + 1 \in 1 .. j /\ i \in 1 .. Len(q) - 1 /\ i \in 1 .. Len(q) /\ i # j
      BY <1>3, <2>1, <2>2
    <3>2. p[i] = q[i] /\ p[i + 1] = q[i + 1]
      BY <1>5, <3>1
    <3>3. w[q[i]] = q[i + 1]
      BY <3>1 DEF ChainOf
    <3>4. w2[q[i]] = w[q[i]]
      BY <1>10, <3>1
    <3> QED
      BY <3>2, <3>3, <3>4
  <2>3. CASE i = j
    <3>1. i \in 1 .. j /\ j > 0
      BY <2>1, <2>3
    <3>2. p[i] = q[j] /\ p[i + 1] = a
      BY <1>5, <2>3, <3>1
    <3> QED
      BY <3>1, <3>2 DEF GivenChain
  <2>4. CASE i = j + 1
    <3>1. /\ i + 1 \in j + 2 .. Len(q) + 1 /\ (i + 1) - 1 = j + 1 /\ Len(q) > 0
      BY <1>3, <2>1, <2>4
    <3>2. j > 0 /\ j \in 1 .. Len(q) - 1
      BY <1>3, <2>1, <2>4
    <3>3. p[i] = a /\ p[i + 1] = q[j + 1]
      BY <1>5, <2>4, <3>1
    <3>4. w2[a] = w[q[j]]
      BY <3>2 DEF GivenChain
    <3>5. w[q[j]] = q[j + 1]
      BY <3>2 DEF ChainOf
    <3> QED
      BY <3>3, <3>4, <3>5
  <2>5. CASE i > j + 1
    <3>1. PICK k : k = i - 1
      OBVIOUS
    <3>2. /\ i \in j + 2 .. Len(q) + 1 /\ i + 1 \in j + 2 .. Len(q) + 1
          /\ (i + 1) - 1 = k + 1 /\ k \in 1 .. Len(q) - 1 /\ k \in 1 .. Len(q) /\ k # j
      BY <1>3, <2>1, <2>5, <3>1, <1>5
    <3>3. p[i] = q[k]
      BY <1>5, <3>1, <3>2
    <3>4. p[i + 1] = q[k + 1]
      BY <1>5, <3>2
    <3>5. w[q[k]] = q[k + 1]
      BY <3>2 DEF ChainOf
    <3>6. w2[q[k]] = w[q[k]]
      BY <1>10, <3>2
    <3> QED
      BY <3>3, <3>4, <3>5, <3>6
  <2> QED
    BY <1>3, <2>1, <2>2, <2>3, <2>4, <2>5
<1>14. r2.first_free \in Nat
  <2>1. a \in Nat
    BY ObjectsAre
  <2>2. r.first_free \in Nat
    BY DEF ChainOf
  <2> QED
    BY <1>3, <2>1, <2>2 DEF GivenChain
<1>15. r2.max = MaxObjects(n) /\ r2.allocated = MaxObjects(n) - Len(p)
  <2>1. MaxObjects(n) \in Nat
    BY ObjectsFit
  <2>2. r.max = MaxObjects(n) /\ r.allocated = MaxObjects(n) - Len(q)
    BY DEF ChainOf
  <2> QED
    BY <1>3, <1>5, <2>1, <2>2 DEF GivenChain
<1>16. \A b \in O : b \notin Range(p) <=> [addr |-> b, len |-> n] \in own2
  <2> TAKE b \in O
  <2>1. b \notin Range(q) <=> [addr |-> b, len |-> n] \in own
    BY <1>1 DEF ChainOf
  <2>2. [addr |-> b, len |-> n] \in own2 <=>
          [addr |-> b, len |-> n] \in own /\ [addr |-> b, len |-> n] # [addr |-> a, len |-> n]
    BY DEF GivenChain
  <2>3. [addr |-> b, len |-> n] = [addr |-> a, len |-> n] <=> b = a
    OBVIOUS
  <2> QED
    BY <1>6, <2>1, <2>2, <2>3
<1>17. /\ p \in Seq(Objects(s, n))
       /\ \A b \in Objects(s, n) : b \notin Range(p) <=> [addr |-> b, len |-> n] \in own2
       /\ \A i \in 1 .. Len(p) - 1 : w2[p[i]] = p[i + 1]
  BY <1>1, <1>5, <1>13, <1>16
<1> QED
  BY <1>6, <1>8, <1>11, <1>12, <1>15, <1>17, <1>14 DEF Sound, ChainOf

-----------------------------------------------------------------------------
(* The loops through a chain.                                              *)

\* q is a chain by the links w: each member but the last leads to the next one.
Linked(q, w) == Once(q) /\ \A i \in 1 .. Len(q) - 1 : w[q[i]] = q[i + 1]

\* The place of a member.
Place(q, x) == CHOOSE i \in 1 .. Len(q) : q[i] = x

\* Every member has one place.
LEMMA PlaceIs ==
  ASSUME NEW q, Once(q), NEW i \in 1 .. Len(q)
  PROVE  Place(q, q[i]) = i
<1>1. \E j \in 1 .. Len(q) : q[j] = q[i]
  OBVIOUS
<1>2. Place(q, q[i]) \in 1 .. Len(q) /\ q[Place(q, q[i])] = q[i]
  BY <1>1 DEF Place
<1> QED
  BY <1>2 DEF Once

\* The loop of Stop: from x along w to the first member of G.
Seeks(D, G, w, f) == f = [x \in D |-> IF x \in G THEN x ELSE f[w[x]]]

\* It runs over the chain q and the null pointer, where it ends.
SeeksIn(S, q, D, G, w) ==
  /\ q \in Seq(S) /\ Linked(q, w) /\ 0 \notin Range(q) /\ 0 \in G
  /\ \A x : x \in D <=> x \in Range(q) \/ x = 0
  /\ Len(q) > 0 => w[q[Len(q)]] = 0 \/ q[Len(q)] \in G

\* Such a loop ends, for it goes along the chain.
LEMMA SeekExists ==
  ASSUME NEW S, NEW q, NEW D, NEW G, NEW w, SeeksIn(S, q, D, G, w)
  PROVE  \E f : Seeks(D, G, w, f)
<1>1. /\ q \in Seq(S) /\ Linked(q, w) /\ 0 \notin Range(q) /\ 0 \in G
      /\ \A x : x \in D <=> x \in Range(q) \/ x = 0
      /\ Len(q) > 0 => w[q[Len(q)]] = 0 \/ q[Len(q)] \in G
  BY DEF SeeksIn
<1>2. /\ Len(q) \in Nat
      /\ \A i \in 1 .. Len(q) : q[i] \in Range(q)
      /\ \A x : x \in Range(q) <=> \E i \in 1 .. Len(q) : x = q[i]
  BY <1>1, RangeIs
<1> DEFINE hits(i) == {j \in i .. Len(q) : q[j] \in G}
           first(i) == CHOOSE j \in hits(i) : \A k \in hits(i) : j <= k
           val(i) == IF hits(i) = {} THEN 0 ELSE q[first(i)]
           f == [x \in D |-> IF x = 0 THEN 0 ELSE val(Place(q, x))]
<1>3. ASSUME NEW i \in 1 .. Len(q), q[i] \in G
      PROVE  val(i) = q[i]
  <2>1. i \in hits(i) /\ \A k \in hits(i) : k \in Nat /\ i <= k
    BY <1>2, <1>3
  <2>2. first(i) \in hits(i) /\ \A k \in hits(i) : first(i) <= k
    <3>1. \E j \in hits(i) : \A k \in hits(i) : j <= k
      BY <2>1
    <3> HIDE DEF hits
    <3> QED
      BY <3>1
  <2>3. first(i) = i
    <3> HIDE DEF first, hits
    <3>1. first(i) \in Nat /\ i <= first(i) /\ first(i) <= i /\ i \in Nat
      BY <2>1, <2>2
    <3> QED
      BY <3>1
  <2>4. hits(i) # {}
    BY <2>1
  <2> QED
    BY <2>3, <2>4
<1>4. ASSUME NEW i \in 1 .. Len(q) - 1, q[i] \notin G
      PROVE  val(i) = val(i + 1)
  <2>1. hits(i) = hits(i + 1)
    <3>1. \A j : j \in i .. Len(q) <=> j = i \/ j \in i + 1 .. Len(q)
      BY <1>2
    <3> QED
      BY <1>4, <3>1
  <2> HIDE DEF hits
  <2> QED
    BY <2>1
<1>5. ASSUME Len(q) > 0, q[Len(q)] \notin G
      PROVE  val(Len(q)) = 0
  <2>1. \A j \in Len(q) .. Len(q) : j = Len(q)
    BY <1>2
  <2>2. hits(Len(q)) = {}
    BY <1>5, <2>1
  <2> HIDE DEF hits
  <2> QED
    BY <2>2
<1> HIDE DEF val
<1>6. 0 \in D /\ f[0] = 0
  BY <1>1
<1>7. ASSUME NEW i \in 1 .. Len(q)
      PROVE  q[i] \in D /\ q[i] # 0 /\ f[q[i]] = val(i)
  <2>1. q[i] \in D /\ q[i] # 0
    BY <1>1, <1>2
  <2>2. Place(q, q[i]) = i
    BY <1>1, PlaceIs DEF Linked
  <2> QED
    BY <2>1, <2>2
<1> HIDE DEF f
<1>8. ASSUME NEW x \in D
      PROVE  f[x] = IF x \in G THEN x ELSE f[w[x]]
  <2>1. CASE x = 0
    BY <1>1, <1>6, <2>1
  <2>2. CASE x # 0
    <3>1. PICK i \in 1 .. Len(q) : x = q[i]
      BY <1>1, <1>2, <2>2
    <3>2. CASE x \in G
      BY <1>3, <1>7, <3>1, <3>2
    <3>3. CASE x \notin G /\ i # Len(q)
      <4>1. i \in 1 .. Len(q) - 1 /\ i + 1 \in 1 .. Len(q)
        BY <1>2, <3>3
      <4>2. w[x] = q[i + 1]
        BY <1>1, <3>1, <4>1 DEF Linked
      <4>3. val(i) = val(i + 1)
        BY <1>4, <3>1, <3>3, <4>1
      <4>4. f[q[i + 1]] = val(i + 1) /\ f[x] = val(i)
        BY <1>7, <3>1, <4>1
      <4> QED
        BY <3>3, <4>2, <4>3, <4>4
    <3>4. CASE x \notin G /\ i = Len(q)
      <4>1. Len(q) > 0 /\ q[Len(q)] \notin G
        BY <1>2, <3>1, <3>4
      <4>2. w[x] = 0
        BY <1>1, <3>1, <3>4, <4>1
      <4>3. f[x] = 0
        BY <1>5, <1>7, <3>1, <3>4, <4>1
      <4> QED
        BY <1>6, <3>4, <4>2, <4>3
    <3> QED
      BY <3>2, <3>3, <3>4
  <2> QED
    BY <2>1, <2>2
<1>9. f = [x \in D |-> f[x]]
  BY DEF f
<1>10. Seeks(D, G, w, f)
  BY <1>8, <1>9 DEF Seeks
<1> QED
  BY <1>10

\* It ends at a member of the chain or at the null pointer.
LEMMA SeekEnds ==
  ASSUME NEW S, NEW q, NEW D, NEW G, NEW w, SeeksIn(S, q, D, G, w),
         NEW f, Seeks(D, G, w, f), NEW i \in 1 .. Len(q)
  PROVE  f[q[i]] \in Range(q) \/ f[q[i]] = 0
<1>1. /\ q \in Seq(S) /\ Linked(q, w) /\ 0 \notin Range(q) /\ 0 \in G
      /\ \A x : x \in D <=> x \in Range(q) \/ x = 0
      /\ Len(q) > 0 => w[q[Len(q)]] = 0 \/ q[Len(q)] \in G
  BY DEF SeeksIn
<1>2. Len(q) \in Nat /\ \A j \in 1 .. Len(q) : q[j] \in Range(q)
  BY <1>1, RangeIs
<1>3. \A x \in D : f[x] = IF x \in G THEN x ELSE f[w[x]]
  BY DEF Seeks
<1>4. 0 \in D /\ f[0] = 0
  BY <1>1, <1>3
<1> DEFINE ends(j) == f[q[j]] \in Range(q) \/ f[q[j]] = 0
           T == {k \in Nat : \A j \in 1 .. Len(q) : j + k = Len(q) => ends(j)}
<1>5. ASSUME NEW j \in 1 .. Len(q), j = Len(q) \/ (j + 1 \in 1 .. Len(q) /\ ends(j + 1))
      PROVE  ends(j)
  <2>1. q[j] \in D /\ q[j] \in Range(q)
    BY <1>1, <1>2
  <2>2. CASE q[j] \in G
    BY <1>3, <2>1, <2>2
  <2>3. CASE q[j] \notin G /\ j = Len(q)
    <3>1. w[q[j]] = 0
      <4>1. Len(q) > 0
        BY <1>2
      <4> QED
        BY <1>1, <2>3, <4>1
    <3> QED
      BY <1>3, <1>4, <2>1, <2>3, <3>1
  <2>4. CASE q[j] \notin G /\ j # Len(q)
    <3>1. j \in 1 .. Len(q) - 1
      BY <1>2, <2>4
    <3>2. w[q[j]] = q[j + 1]
      BY <1>1, <3>1 DEF Linked
    <3>3. f[q[j]] = f[q[j + 1]]
      BY <1>3, <2>1, <2>4, <3>2
    <3> QED
      BY <1>5, <2>4, <3>3
  <2> QED
    BY <2>2, <2>3, <2>4
<1> HIDE DEF ends
<1>6. 0 \in T
  <2>1. \A j \in 1 .. Len(q) : j + 0 = Len(q) => j = Len(q)
    BY <1>2
  <2> QED
    BY <1>5, <2>1
<1>7. ASSUME NEW k \in T
      PROVE  k + 1 \in T
  <2>1. k \in Nat /\ \A j \in 1 .. Len(q) : j + k = Len(q) => ends(j)
    OBVIOUS
  <2>2. ASSUME NEW j \in 1 .. Len(q), j + (k + 1) = Len(q)
        PROVE  ends(j)
    <3>1. j + 1 \in 1 .. Len(q) /\ (j + 1) + k = Len(q)
      BY <1>2, <2>1, <2>2
    <3>2. ends(j + 1)
      BY <2>1, <3>1
    <3> QED
      BY <1>5, <3>1, <3>2
  <2> QED
    BY <2>1, <2>2
<1>8. T = Nat
  <2> HIDE DEF T
  <2>1. T \in SUBSET Nat
    BY DEF T
  <2> QED
    BY <1>6, <1>7, <2>1, SetInduction
<1>9. PICK k : k = Len(q) - i
  OBVIOUS
<1>10. k \in Nat /\ i + k = Len(q)
  BY <1>2, <1>9
<1>11. ends(i)
  BY <1>8, <1>10
<1> QED
  BY <1>11 DEF ends

\* free finds its place after a member of the chain or behind the null pointer.
LEMMA StopIs ==
  ASSUME NEW s, NEW n, IsPlace(s, n), NEW own, NEW q,
         ChainOf(s, n, slabs[s], link, own, q), Len(q) > 0, NEW a \in Objects(s, n)
  PROVE  Stop(s, a) \in Range(q) \/ Stop(s, a) = 0
<1> DEFINE D == {b \in DOMAIN link : Encloses(s, b)} \cup {0}
           G == {x \in D : Word(x) > a \/ x = 0}
           from == CHOOSE f : f = [x \in D |-> IF Word(x) > a \/ x = 0 THEN x ELSE f[Word(x)]]
<1>1. Stop(s, a) = from[slabs[s].first_free]
  BY DEF Stop
<1>2. /\ q \in Seq(Objects(s, n)) /\ Once(q)
      /\ \A b : b \in DOMAIN link /\ Encloses(s, b) <=> b \in Range(q)
      /\ slabs[s].first_free = q[1] /\ link[q[Len(q)]] \in {0, End(s, n)}
      /\ \A i \in 1 .. Len(q) - 1 : link[q[i]] = q[i + 1]
  BY DEF ChainOf
<1>3. /\ Len(q) \in Nat /\ 1 \in 1 .. Len(q)
      /\ \A x \in Range(q) : x \in Objects(s, n)
      /\ \A i \in 1 .. Len(q) : q[i] \in Range(q)
  BY <1>2, RangeIs
<1>4. \A x \in Objects(s, n) : x # 0 /\ x \in Nat /\ x < End(s, n)
  BY ObjectsAre
<1>5. 0 \notin Range(q)
  BY <1>3, <1>4
<1>6. \A x : x \in D <=> x \in Range(q) \/ x = 0
  BY <1>2
<1>7. 0 \in G
  OBVIOUS
<1>8. link[q[Len(q)]] = 0 \/ q[Len(q)] \in G
  <2>1. CASE link[q[Len(q)]] = End(s, n)
    <3>1. q[Len(q)] \in D /\ q[Len(q)] # 0
      BY <1>3, <1>5, <1>6
    <3>2. Word(q[Len(q)]) = End(s, n)
      BY <2>1, <3>1 DEF Word
    <3>3. End(s, n) > a
      BY <1>4, ObjectsAre
    <3> HIDE DEF D
    <3> QED
      BY <3>1, <3>2, <3>3
  <2> HIDE DEF D, G
  <2> QED
    BY <1>2, <2>1
<1>9. \A x \in D : (IF Word(x) > a \/ x = 0 THEN TRUE ELSE FALSE) <=> x \in G
  OBVIOUS
<1>10. ASSUME NEW f
       PROVE  Seeks(D, G, link, f) <=>
              f = [x \in D |-> IF Word(x) > a \/ x = 0 THEN x ELSE f[Word(x)]]
  <2>1. \A x \in D : (IF Word(x) > a \/ x = 0 THEN x ELSE f[Word(x)]) =
                     (IF x \in G THEN x ELSE f[link[x]])
    <3> HIDE DEF D
    <3> QED
      BY DEF Word
  <2> HIDE DEF D, G
  <2>2. [x \in D |-> IF Word(x) > a \/ x = 0 THEN x ELSE f[Word(x)]] =
        [x \in D |-> IF x \in G THEN x ELSE f[link[x]]]
    BY <2>1
  <2> QED
    BY <2>2 DEF Seeks
<1> HIDE DEF D, G
<1>11. SeeksIn(Objects(s, n), q, D, G, link)
  BY <1>2, <1>5, <1>6, <1>7, <1>8 DEF SeeksIn, Linked
<1>12. \E f : Seeks(D, G, link, f)
  BY <1>11, SeekExists
<1>13. Seeks(D, G, link, from)
  BY <1>10, <1>12
<1> HIDE DEF from
<1>14. from[q[1]] \in Range(q) \/ from[q[1]] = 0
  BY <1>3, <1>11, <1>13, SeekEnds
<1> QED
  BY <1>1, <1>2, <1>14

\* The loop of Chain: from x along w while it is in R.
Collects(R, w, f) == f = [x \in Int |-> IF x \in R THEN <<x>> \o f[w[x]] ELSE << >>]

\* It runs over the chain q.
CollectsIn(S, q, R, w) ==
  /\ S \in SUBSET Int /\ q \in Seq(S) /\ Linked(q, w)
  /\ \A x : x \in R <=> x \in Range(q)
  /\ Len(q) > 0 => w[q[Len(q)]] \in Int /\ w[q[Len(q)]] \notin R

\* The rest of a chain from place i on.
LEMMA RestIs ==
  ASSUME NEW S, NEW q \in Seq(S), NEW i \in 1 .. Len(q)
  PROVE  /\ i # Len(q) => SubSeq(q, i, Len(q)) = <<q[i]>> \o SubSeq(q, i + 1, Len(q))
         /\ i = Len(q) => SubSeq(q, i, Len(q)) = <<q[i]>> \o << >>
<1>1. Len(q) \in Nat
  BY LenProperties
<1>2. Len(q) \in i .. Len(q)
  BY <1>1
<1>3. SubSeq(q, i, Len(q)) = <<q[i]>> \o SubSeq(q, i + 1, Len(q))
  BY <1>2, SubSeqRecursiveFirst
<1>4. i = Len(q) => SubSeq(q, i + 1, Len(q)) = << >>
  <2> HAVE i = Len(q)
  <2>1. i + 1 \in Int /\ Len(q) \in Int /\ Len(q) < i + 1
    BY <1>1
  <2> QED
    BY <2>1, SubSeqEmpty
<1> QED
  BY <1>3, <1>4

\* Such a function exists, by the places of the chain.
LEMMA CollectExists ==
  ASSUME NEW S, NEW q, NEW R, NEW w, CollectsIn(S, q, R, w)
  PROVE  \E f : Collects(R, w, f)
<1>1. /\ S \in SUBSET Int /\ q \in Seq(S) /\ Linked(q, w)
      /\ \A x : x \in R <=> x \in Range(q)
      /\ Len(q) > 0 => w[q[Len(q)]] \in Int /\ w[q[Len(q)]] \notin R
  BY DEF CollectsIn
<1>2. /\ Len(q) \in Nat
      /\ \A i \in 1 .. Len(q) : q[i] \in Range(q) /\ q[i] \in S
      /\ \A x : x \in Range(q) <=> \E i \in 1 .. Len(q) : x = q[i]
  BY <1>1, RangeIs
<1> DEFINE rest(i) == SubSeq(q, i, Len(q))
           f == [x \in Int |-> IF x \in R THEN rest(Place(q, x)) ELSE << >>]
<1>3. ASSUME NEW i \in 1 .. Len(q)
      PROVE  q[i] \in R /\ q[i] \in Int /\ f[q[i]] = rest(i)
  <2>1. q[i] \in R /\ q[i] \in Int
    BY <1>1, <1>2
  <2>2. Place(q, q[i]) = i
    BY <1>1, PlaceIs DEF Linked
  <2> HIDE DEF rest
  <2> QED
    BY <2>1, <2>2
<1>4. \A x \in Int : x \notin R => f[x] = << >>
  OBVIOUS
<1>5. f = [x \in Int |-> f[x]]
  OBVIOUS
<1> HIDE DEF f
<1>6. ASSUME NEW x \in Int
      PROVE  f[x] = IF x \in R THEN <<x>> \o f[w[x]] ELSE << >>
  <2>1. CASE x \notin R
    BY <1>4, <2>1
  <2>2. CASE x \in R
    <3>1. PICK i \in 1 .. Len(q) : x = q[i]
      BY <1>1, <1>2, <2>2
    <3>2. CASE i # Len(q)
      <4>1. i \in 1 .. Len(q) - 1 /\ i + 1 \in 1 .. Len(q)
        BY <1>2, <3>2
      <4>2. w[x] = q[i + 1]
        BY <1>1, <3>1, <4>1 DEF Linked
      <4>3. f[w[x]] = rest(i + 1)
        <5> HIDE DEF rest
        <5> QED
          BY <1>3, <4>1, <4>2
      <4>4. rest(i) = <<q[i]>> \o rest(i + 1)
        BY <1>1, <3>2, RestIs
      <4>5. f[x] = rest(i)
        <5> HIDE DEF rest
        <5> QED
          BY <1>3, <3>1
      <4> QED
        BY <2>2, <3>1, <4>3, <4>4, <4>5
    <3>3. CASE i = Len(q)
      <4>1. Len(q) > 0
        BY <1>2, <3>3
      <4>2. w[x] \in Int /\ w[x] \notin R
        BY <1>1, <3>1, <3>3, <4>1
      <4>3. f[w[x]] = << >>
        BY <1>4, <4>2
      <4>4. rest(i) = <<q[i]>> \o << >>
        BY <1>1, <3>3, RestIs
      <4>5. f[x] = rest(i)
        <5> HIDE DEF rest
        <5> QED
          BY <1>3, <3>1
      <4> QED
        BY <2>2, <3>1, <4>3, <4>4, <4>5
    <3> QED
      BY <3>2, <3>3
  <2> QED
    BY <2>1, <2>2
<1>7. Collects(R, w, f)
  BY <1>5, <1>6 DEF Collects
<1> QED
  BY <1>7

\* It collects the chain.
LEMMA CollectsChain ==
  ASSUME NEW S, NEW q, NEW R, NEW w, CollectsIn(S, q, R, w), NEW f, Collects(R, w, f),
         NEW i \in 1 .. Len(q)
  PROVE  f[q[i]] = SubSeq(q, i, Len(q))
<1>1. /\ S \in SUBSET Int /\ q \in Seq(S) /\ Linked(q, w)
      /\ \A x : x \in R <=> x \in Range(q)
      /\ Len(q) > 0 => w[q[Len(q)]] \in Int /\ w[q[Len(q)]] \notin R
  BY DEF CollectsIn
<1>2. Len(q) \in Nat /\ \A j \in 1 .. Len(q) : q[j] \in Range(q) /\ q[j] \in S
  BY <1>1, RangeIs
<1>3. \A x \in Int : f[x] = IF x \in R THEN <<x>> \o f[w[x]] ELSE << >>
  BY DEF Collects
<1> DEFINE rest(j) == SubSeq(q, j, Len(q))
           ends(j) == f[q[j]] = rest(j)
           T == {k \in Nat : \A j \in 1 .. Len(q) : j + k = Len(q) => ends(j)}
<1>4. ASSUME NEW j \in 1 .. Len(q), j = Len(q) \/ (j + 1 \in 1 .. Len(q) /\ ends(j + 1))
      PROVE  ends(j)
  <2>1. f[q[j]] = <<q[j]>> \o f[w[q[j]]]
    BY <1>1, <1>2, <1>3
  <2>2. CASE j = Len(q)
    <3>1. Len(q) > 0
      BY <1>2, <2>2
    <3>2. f[w[q[j]]] = << >>
      BY <1>1, <1>3, <2>2, <3>1
    <3>3. rest(j) = <<q[j]>> \o << >>
      BY <1>1, <2>2, RestIs
    <3> HIDE DEF rest
    <3> QED
      BY <2>1, <3>2, <3>3
  <2>3. CASE j # Len(q)
    <3>1. j \in 1 .. Len(q) - 1
      BY <1>2, <2>3
    <3>2. w[q[j]] = q[j + 1]
      BY <1>1, <3>1 DEF Linked
    <3>3. rest(j) = <<q[j]>> \o rest(j + 1)
      BY <1>1, <2>3, RestIs
    <3> HIDE DEF rest
    <3> QED
      BY <1>4, <2>1, <2>3, <3>2, <3>3
  <2> QED
    BY <2>2, <2>3
<1> HIDE DEF ends
<1>5. 0 \in T
  <2>1. \A j \in 1 .. Len(q) : j + 0 = Len(q) => j = Len(q)
    BY <1>2
  <2> QED
    BY <1>4, <2>1
<1>6. ASSUME NEW k \in T
      PROVE  k + 1 \in T
  <2>1. k \in Nat /\ \A j \in 1 .. Len(q) : j + k = Len(q) => ends(j)
    OBVIOUS
  <2>2. ASSUME NEW j \in 1 .. Len(q), j + (k + 1) = Len(q)
        PROVE  ends(j)
    <3>1. j + 1 \in 1 .. Len(q) /\ (j + 1) + k = Len(q)
      BY <1>2, <2>1, <2>2
    <3>2. ends(j + 1)
      BY <2>1, <3>1
    <3> QED
      BY <1>4, <3>1, <3>2
  <2> QED
    BY <2>1, <2>2
<1>7. T = Nat
  <2> HIDE DEF T
  <2>1. T \in SUBSET Nat
    BY DEF T
  <2> QED
    BY <1>5, <1>6, <2>1, SetInduction
<1>8. PICK k : k = Len(q) - i
  OBVIOUS
<1>9. k \in Nat /\ i + k = Len(q)
  BY <1>2, <1>8
<1>10. ends(i)
  BY <1>7, <1>9
<1> QED
  BY <1>10 DEF ends

\* What Chain computes is the chain.
LEMMA ChainIs ==
  ASSUME NEW s, NEW n, IsPlace(s, n), NEW own, NEW q, ChainOf(s, n, slabs[s], link, own, q)
  PROVE  Chain(s) = q
<1> DEFINE R == {x \in Int : s < x /\ x < s + SlabBytes /\ x \in DOMAIN link}
           from == CHOOSE f : f = [x \in Int |->
                     IF s < x /\ x < s + SlabBytes /\ x \in DOMAIN link
                       THEN <<x>> \o f[link[x]] ELSE << >>]
<1>1. Chain(s) = from[slabs[s].first_free]
  BY DEF Chain
<1>2. /\ q \in Seq(Objects(s, n)) /\ Once(q)
      /\ \A b : b \in DOMAIN link /\ Encloses(s, b) <=> b \in Range(q)
      /\ Len(q) > 0 => slabs[s].first_free = q[1] /\ link[q[Len(q)]] \in {0, End(s, n)}
      /\ \A i \in 1 .. Len(q) - 1 : link[q[i]] = q[i + 1]
      /\ slabs[s].first_free \in Nat
  BY DEF ChainOf
<1>3. /\ Len(q) \in Nat
      /\ \A x \in Range(q) : x \in Objects(s, n)
  BY <1>2, RangeIs
<1>4. /\ \A x \in Objects(s, n) : x # 0 /\ x \in Nat /\ s < x /\ x < s + SlabBytes
      /\ End(s, n) \in Nat /\ End(s, n) \notin Objects(s, n)
  BY ObjectsAre
<1>5. \A x : x \in R <=> x \in Range(q)
  <2>1. s \in Nat /\ SlabBytes \in Nat
    BY HeapAssumption, ObjectsFit DEF SlabBytes, SlabHeader
  <2>2. \A x \in Int : s < x /\ x < s + SlabBytes => Encloses(s, x)
    BY <2>1 DEF Encloses
  <2>3. \A x \in R : x \in Range(q)
    BY <1>2, <2>2
  <2>4. \A x \in Range(q) : x \in R
    BY <1>2, <1>3, <1>4
  <2> QED
    BY <2>3, <2>4
<1>6. \A f : Collects(R, link, f) <=>
             f = [x \in Int |-> IF s < x /\ x < s + SlabBytes /\ x \in DOMAIN link
                                  THEN <<x>> \o f[link[x]] ELSE << >>]
  <2> TAKE f
  <2>1. \A x \in Int : s < x /\ x < s + SlabBytes /\ x \in DOMAIN link <=> x \in R
    OBVIOUS
  <2> HIDE DEF R
  <2>2. \A x \in Int : (IF s < x /\ x < s + SlabBytes /\ x \in DOMAIN link
                          THEN <<x>> \o f[link[x]] ELSE << >>) =
                       (IF x \in R THEN <<x>> \o f[link[x]] ELSE << >>)
    BY <2>1
  <2>3. [x \in Int |-> IF s < x /\ x < s + SlabBytes /\ x \in DOMAIN link
                         THEN <<x>> \o f[link[x]] ELSE << >>] =
        [x \in Int |-> IF x \in R THEN <<x>> \o f[link[x]] ELSE << >>]
    BY <2>2
  <2> QED
    BY <2>3 DEF Collects
<1> HIDE DEF R
<1>7. Objects(s, n) \in SUBSET Int
  BY <1>4
<1>8. Len(q) > 0 => link[q[Len(q)]] \in Int /\ link[q[Len(q)]] \notin R
  BY <1>2, <1>3, <1>4, <1>5
<1>9. CollectsIn(Objects(s, n), q, R, link)
  BY <1>2, <1>5, <1>7, <1>8 DEF CollectsIn, Linked
<1>10. \E f : Collects(R, link, f)
  BY <1>9, CollectExists
<1>11. Collects(R, link, from)
  BY <1>6, <1>10
<1> HIDE DEF from
<1>12. CASE Len(q) > 0
  <2>1. 1 \in 1 .. Len(q)
    BY <1>3, <1>12
  <2>2. from[q[1]] = SubSeq(q, 1, Len(q))
    BY <1>9, <1>11, <2>1, CollectsChain
  <2>3. SubSeq(q, 1, Len(q)) = q
    BY <1>2, SubSeqFull
  <2> QED
    BY <1>1, <1>2, <1>12, <2>2, <2>3
<1>13. CASE Len(q) = 0
  <2>1. PICK x : x = slabs[s].first_free
    OBVIOUS
  <2>2. \A i \in 1 .. Len(q) : FALSE
    BY <1>13
  <2>3. x \in Int /\ x \notin R
    BY <1>2, <1>5, <2>1, <2>2, RangeIs
  <2>4. from[x] = << >>
    BY <1>11, <2>3 DEF Collects
  <2>5. q = << >>
    BY <1>2, <1>13, EmptySeq
  <2> QED
    BY <1>1, <2>1, <2>4, <2>5
<1> QED
  BY <1>3, <1>12, <1>13

-----------------------------------------------------------------------------
(* The slabs in use, with the size of their objects.                       *)

\* N maps the slabs in use to the sizes of their objects.
Sizes(L, M, N) ==
  /\ \A t : t \in DOMAIN N <=> \E c \in Range(M["used"]) : t \in SlabsOf(L, c)
  /\ \A c \in Range(M["used"]) : \A t \in SlabsOf(L, c) : N[t] = caches[c].size

\* A place for a slab.
InHeap(t) == t \in Nat /\ Base + HeapHeader <= t /\ t + SlabBytes <= HeapEnd

Clear(t, u) == t + SlabBytes <= u \/ u + SlabBytes <= t

\* They are slabs, in their places and apart.
KnownSlabs(N) ==
  /\ \A t \in DOMAIN N :
       t \in DOMAIN slabs /\ IsSlab(slabs[t]) /\ IsPlace(t, N[t]) /\ InHeap(t)
  /\ \A t, u \in DOMAIN N : t = u \/ Clear(t, u)

\* Slabs on the lists are such.
LEMMA SizesKnown ==
  ASSUME NEW L, NEW M, NEW N, ListedInv(L, M), Sizes(L, M, N)
  PROVE  KnownSlabs(N)
<1>1. ASSUME NEW t \in DOMAIN N
      PROVE  t \in DOMAIN slabs /\ N[t] \in WordBytes .. SlabSize
  <2>1. PICK c \in Range(M["used"]) : t \in SlabsOf(L, c)
    BY DEF Sizes
  <2>2. c \in DOMAIN caches /\ c \in Nat
    <3>1. "used" \in CacheKeys
      BY DEF CacheKeys
    <3> QED
      BY <2>1, <3>1, ListsAre
  <2>3. t \in DOMAIN slabs
    <3>1. AvailKey(c) \in SlabKeys /\ FullKey(c) \in SlabKeys
      BY <2>2, KeyFacts
    <3>2. t \in Range(L[AvailKey(c)]) \/ t \in Range(L[FullKey(c)])
      BY <2>1 DEF SlabsOf
    <3>3. \A k \in SlabKeys : Range(L[k]) \subseteq DOMAIN slabs
      BY ListsAre
    <3> QED
      BY <3>1, <3>2, <3>3
  <2>4. N[t] = caches[c].size
    BY <2>1 DEF Sizes
  <2>5. caches[c].size \in WordBytes .. SlabSize
    BY DEF ListedInv, CachesInv
  <2> QED
    BY <2>3, <2>4, <2>5
<1>2. ASSUME NEW t \in DOMAIN slabs
      PROVE  IsSlab(slabs[t]) /\ InHeap(t) /\ t # 0
  <2>1. /\ free_space \in Nat /\ free_space <= HeapEnd
        /\ IsSlab(slabs[t]) /\ t \in Nat /\ Base + HeapHeader <= t
        /\ t + SlabBytes <= free_space
    BY DEF ListedInv, SpaceInv
  <2>2. Base \in Nat /\ HeapEnd \in Nat /\ SlabBytes \in Nat
    BY HeapAssumption DEF HeapEnd, SlabBytes, SlabHeader
  <2> QED
    BY <2>1, <2>2 DEF InHeap, HeapHeader
<1>3. \A t, u \in DOMAIN slabs : t = u \/ Clear(t, u)
  BY DEF ListedInv, SpaceInv, Clear
<1>4. ASSUME NEW t \in DOMAIN N
      PROVE  t \in DOMAIN slabs /\ IsSlab(slabs[t]) /\ IsPlace(t, N[t]) /\ InHeap(t)
  <2>1. t \in DOMAIN slabs /\ N[t] \in WordBytes .. SlabSize
    BY <1>1
  <2>2. IsSlab(slabs[t]) /\ InHeap(t) /\ t # 0
    BY <1>2, <2>1
  <2> QED
    BY <2>1, <2>2 DEF InHeap, IsPlace
<1> QED
  BY <1>3, <1>4 DEF KnownSlabs

\* What the operators of the model say of them.
LEMMA SizesAre ==
  ASSUME NEW L, NEW M, NEW N, ListedInv(L, M), Sizes(L, M, N)
  PROVE  /\ Range(CacheList) = Range(M["used"])
         /\ \A c \in Range(M["used"]) :
              c \in DOMAIN caches /\ c \in Nat /\ Holding(c) = SlabsOf(L, c)
         /\ InUse = DOMAIN N
         /\ \A t \in DOMAIN N : /\ CacheOf(t) \in Range(M["used"])
                                /\ t \in SlabsOf(L, CacheOf(t)) /\ SizeOf(t) = N[t]
<1>1. CacheList = M["used"]
  BY ListsAre
<1>2. ASSUME NEW c \in Range(M["used"])
      PROVE  c \in DOMAIN caches /\ c \in Nat /\ Holding(c) = SlabsOf(L, c)
  <2>1. "used" \in CacheKeys
    BY DEF CacheKeys
  <2>2. c \in DOMAIN caches
    BY <2>1, ListsAre
  <2>3. c \in Nat /\ Available(c) = L[AvailKey(c)] /\ Full(c) = L[FullKey(c)]
    BY <2>2, ListsAre
  <2> QED
    BY <2>2, <2>3 DEF Holding, SlabsOf
<1>3. \A t : t \in InUse <=> \E c \in Range(M["used"]) : t \in SlabsOf(L, c)
  <2>1. \A t : t \in InUse <=> \E c \in Range(CacheList) : t \in Holding(c)
    BY DEF InUse
  <2>2. Range(CacheList) = Range(M["used"])
    BY <1>1
  <2> QED
    BY <1>2, <2>1, <2>2
<1>4. InUse = DOMAIN N
  BY <1>3 DEF Sizes
<1>5. ASSUME NEW t \in DOMAIN N
      PROVE  /\ CacheOf(t) \in Range(M["used"])
             /\ t \in SlabsOf(L, CacheOf(t)) /\ SizeOf(t) = N[t]
  <2>1. PICK c \in Range(M["used"]) : t \in SlabsOf(L, c)
    BY DEF Sizes
  <2>2. \E d \in Range(CacheList) : t \in Holding(d)
    BY <1>1, <1>2, <2>1
  <2>3. CacheOf(t) \in Range(CacheList) /\ t \in Holding(CacheOf(t))
    BY <2>2 DEF CacheOf
  <2>4. CacheOf(t) \in Range(M["used"]) /\ t \in SlabsOf(L, CacheOf(t))
    BY <1>1, <1>2, <2>3
  <2>5. N[t] = caches[CacheOf(t)].size
    BY <2>4 DEF Sizes
  <2> QED
    BY <2>4, <2>5 DEF SizeOf
<1> QED
  BY <1>1, <1>2, <1>4, <1>5

\* Objects of slabs that are apart are apart.
LEMMA Elsewhere ==
  ASSUME NEW t \in Nat, NEW u, NEW n, IsPlace(u, n), Clear(t, u), NEW a \in Objects(u, n)
  PROVE  ~ Encloses(t, a) /\ \A m : IsPlace(t, m) => a \notin Objects(t, m)
<1>1. u \in Nat /\ n \in Nat \ {0} /\ SlabBytes \in Nat
  BY HeapAssumption, ObjectsFit DEF SlabBytes, SlabHeader
<1>2. a \in Nat /\ u < a /\ a < u + SlabBytes
  BY ObjectsAre
<1>3. ~ Encloses(t, a)
  BY <1>1, <1>2 DEF Encloses, Clear
<1>4. ASSUME NEW m, IsPlace(t, m), a \in Objects(t, m)
      PROVE  FALSE
  <2>1. t < a /\ a < t + SlabBytes
    BY <1>4, ObjectsAre
  <2> QED
    BY <1>1, <1>2, <1>3, <2>1 DEF Encloses
<1> QED
  BY <1>3, <1>4

\* A range malloc got from the physical memory manager.
IsLarge(o) ==
  \E a \in LargeAddrs, n \in Requests : n > SlabSize /\ o = [addr |-> a, len |-> n]

\* It is not in the heap.
LEMMA LargeElsewhere ==
  ASSUME NEW t, InHeap(t), NEW o, IsLarge(o)
  PROVE  /\ ~ Encloses(t, o.addr) /\ \A m : IsPlace(t, m) => o.addr \notin Objects(t, m)
         /\ o.addr > t + SlabBytes \/ o.addr + o.len <= t
         /\ o.addr \in Nat /\ o.len \in Nat /\ o.len > SlabSize
<1>1. PICK a \in LargeAddrs, n \in Requests : n > SlabSize /\ o = [addr |-> a, len |-> n]
  BY DEF IsLarge
<1>2. /\ SlabBytes \in Nat /\ HeapEnd \in Nat /\ Base \in Nat /\ n \in Nat
      /\ SlabSize \in Nat
  BY HeapAssumption DEF SlabBytes, SlabHeader, HeapEnd
<1>3. a \in Nat /\ (a > HeapEnd \/ a + n <= Base)
  BY LargeAssumption
<1>4. t \in Nat /\ Base + HeapHeader <= t /\ t + SlabBytes <= HeapEnd
  BY DEF InHeap
<1>5. o.addr = a /\ o.len = n
  BY <1>1
<1>6. a > t + SlabBytes \/ a + n <= t
  BY <1>2, <1>3, <1>4 DEF HeapHeader
<1>7. ~ Encloses(t, a)
  BY <1>1, <1>2, <1>3, <1>4, <1>6 DEF Encloses
<1>8. ASSUME NEW m, IsPlace(t, m), a \in Objects(t, m)
      PROVE  FALSE
  <2>1. t < a /\ a < t + SlabBytes
    BY <1>8, ObjectsAre
  <2> QED
    BY <1>2, <1>3, <1>4, <1>7, <2>1 DEF Encloses
<1> QED
  BY <1>1, <1>2, <1>3, <1>5, <1>6, <1>7, <1>8

-----------------------------------------------------------------------------
(* The invariant of the objects.                                           *)

\* The slab free took the last object of; it goes to the free list before the
\* call ends, and its chain is not used any more.
Emptied(t) == pc \in {"unfull", "count"} /\ t = slab /\ slabs[t].allocated = 0

\* Every other slab in use has its chain.
SoundInv(N) ==
  \A t \in DOMAIN N : ~ Emptied(t) => Sound(t, N[t], slabs[t], link, owned)

\* Clients hold ranges of the physical memory manager and objects of such slabs.
ClientsInv(N) ==
  \A o \in owned :
    IsLarge(o) \/ \E t \in DOMAIN N : /\ ~ Emptied(t) /\ o.addr \in Objects(t, N[t])
                                      /\ o = [addr |-> o.addr, len |-> N[t]]

\* No slab in use is empty but that one and the one just made.
EmptyInv(N) ==
  \A t \in DOMAIN N :
    slabs[t].allocated = 0 => Emptied(t) \/ (pc = "slab" /\ t = caches[cache].available)

ObjectsInv(N) ==
  SoundInv(N) /\ ClientsInv(N) /\ EmptyInv(N) /\ DOMAIN link \subseteq Nat

HeapInv(L, M, N) == ListedInv(L, M) /\ Sizes(L, M, N) /\ ObjectsInv(N)

\* A step that writes no chain and no count, and perhaps takes the emptied slab out
\* of use.
LEMMA ObjectsSame ==
  ASSUME NEW N, KnownSlabs(N), ObjectsInv(N),
         NEW N2, DOMAIN N2 \subseteq DOMAIN N, \A t \in DOMAIN N2 : N2[t] = N[t],
         UNCHANGED <<link, owned>>,
         \A t \in DOMAIN N2 :
           /\ slabs'[t].max = slabs[t].max /\ slabs'[t].allocated = slabs[t].allocated
           /\ slabs'[t].first_free = slabs[t].first_free,
         \A t \in DOMAIN N2 : Emptied(t)' <=> Emptied(t),
         \A t \in DOMAIN N2 : slabs[t].allocated = 0 => Emptied(t),
         \A t \in DOMAIN N : t \notin DOMAIN N2 => Emptied(t)
  PROVE  ObjectsInv(N2)'
<1>1. ASSUME NEW t \in DOMAIN N2, ~ Emptied(t)
      PROVE  Sound(t, N2[t], slabs'[t], link', owned')
  <2>1. PICK n, r, r2 : n = N[t] /\ r = slabs[t] /\ r2 = slabs'[t]
    OBVIOUS
  <2>2. IsPlace(t, n) /\ Sound(t, n, r, link, owned)
    BY <1>1, <2>1 DEF KnownSlabs, ObjectsInv, SoundInv
  <2>3. SameChain(t, n, r, link, owned, r2, link', owned')
    BY <2>1 DEF SameChain
  <2>4. Sound(t, n, r2, link', owned')
    BY <2>2, <2>3, SoundKept
  <2> QED
    BY <2>1, <2>4
<1>2. SoundInv(N2)'
  BY <1>1 DEF SoundInv
<1>3. ClientsInv(N2)'
  <2> SUFFICES ASSUME NEW o \in owned, ~ IsLarge(o)
               PROVE  \E t \in DOMAIN N2 : /\ ~ Emptied(t)' /\ o.addr \in Objects(t, N2[t])
                                           /\ o = [addr |-> o.addr, len |-> N2[t]]
    BY DEF ClientsInv
  <2>1. PICK t \in DOMAIN N : /\ ~ Emptied(t) /\ o.addr \in Objects(t, N[t])
                              /\ o = [addr |-> o.addr, len |-> N[t]]
    BY DEF ObjectsInv, ClientsInv
  <2>2. t \in DOMAIN N2
    BY <2>1
  <2> QED
    BY <2>1, <2>2
<1>4. EmptyInv(N2)'
  BY DEF EmptyInv
<1>5. DOMAIN link' \subseteq Nat
  BY DEF ObjectsInv
<1> QED
  BY <1>2, <1>3, <1>4, <1>5 DEF ObjectsInv

\* At first there are none.
LEMMA HeapInit ==
  Init => \E L, M, N : HeapInv(L, M, N)
<1> SUFFICES ASSUME Init
             PROVE  \E L, M, N : HeapInv(L, M, N)
  OBVIOUS
<1>1. PICK L, M : ListedInv(L, M)
  BY ListedInit
<1>2. DOMAIN caches = {} /\ DOMAIN link = {} /\ owned = {}
  BY DEF Init
<1>3. \A c : c \notin Range(M["used"])
  <2>1. "used" \in CacheKeys
    BY DEF CacheKeys
  <2>2. Range(M["used"]) \subseteq DOMAIN caches
    BY <1>1, <2>1, ListsAre
  <2> QED
    BY <1>2, <2>2
<1>4. PICK N : N = [t \in {} |-> 0]
  OBVIOUS
<1>5. DOMAIN N = {}
  BY <1>4
<1>6. Sizes(L, M, N)
  BY <1>3, <1>5 DEF Sizes
<1>7. ObjectsInv(N)
  BY <1>2, <1>5 DEF ObjectsInv, SoundInv, ClientsInv, EmptyInv
<1>8. HeapInv(L, M, N)
  BY <1>1, <1>6, <1>7 DEF HeapInv
<1> QED
  BY <1>8

-----------------------------------------------------------------------------
(* The steps.                                                              *)

\* Where no slab in use is empty, a step that writes no chain and no count keeps them all.
LEMMA ObjectsCalm ==
  ASSUME NEW N, KnownSlabs(N), ObjectsInv(N), UNCHANGED <<link, owned>>,
         \A t \in DOMAIN N :
           /\ slabs'[t].max = slabs[t].max /\ slabs'[t].allocated = slabs[t].allocated
           /\ slabs'[t].first_free = slabs[t].first_free,
         \A t \in DOMAIN N : slabs[t].allocated # 0
  PROVE  ObjectsInv(N)'
<1>1. \A t \in DOMAIN N : ~ Emptied(t) /\ ~ Emptied(t)'
  BY DEF Emptied
<1> QED
  BY <1>1, ObjectsSame

\* The steps that change no list.
LEMMA HeapQuiet ==
  ASSUME NEW L, NEW M, NEW N, HeapInv(L, M, N),
         \/ \E n \in Requests : Malloc(n)
         \/ FindCache \/ NoCache \/ NoSlab \/ KeepSlab \/ KeepCache
  PROVE  HeapInv(L, M, N)'
<1>1. QuietStep
  BY DEF QuietStep
<1>2. ListedInv(L, M) /\ Sizes(L, M, N) /\ ObjectsInv(N)
  BY DEF HeapInv
<1>3. ListedInv(L, M)' /\ UNCHANGED <<caches, slabs, link>>
  <2>1. ListedInv(L, M)' /\ UNCHANGED <<first_cache, caches, slabs, link, null_word, space>>
    BY <1>1, <1>2, ListedQuiet
  <2> QED
    BY <2>1
<1>4. KnownSlabs(N)
  BY <1>2, SizesKnown
<1>5. owned' = owned
  BY DEF Malloc, FindCache, NoCache, NoSlab, KeepSlab, KeepCache
<1>6. \A t \in DOMAIN N : slabs[t].allocated # 0
  <2> SUFFICES ASSUME NEW t \in DOMAIN N, slabs[t].allocated = 0
               PROVE  FALSE
    OBVIOUS
  <2>1. Emptied(t) \/ (pc = "slab" /\ t = caches[cache].available)
    BY <1>2 DEF ObjectsInv, EmptyInv
  <2>2. t # 0
    BY <1>4, ObjectsFit DEF KnownSlabs
  <2>3. CASE NoSlab
    BY <2>1, <2>2, <2>3 DEF NoSlab, Emptied
  <2>4. CASE KeepSlab
    BY <2>1, <2>4 DEF KeepSlab, Emptied
  <2>5. CASE (\E n \in Requests : Malloc(n)) \/ FindCache \/ NoCache \/ KeepCache
    BY <2>1, <2>5 DEF Malloc, FindCache, NoCache, KeepCache, Emptied
  <2> QED
    BY <2>3, <2>4, <2>5
<1>7. ObjectsInv(N)'
  BY <1>2, <1>3, <1>4, <1>5, <1>6, ObjectsCalm
<1>8. Sizes(L, M, N)'
  BY <1>2, <1>3 DEF Sizes
<1> QED
  BY <1>3, <1>7, <1>8 DEF HeapInv

\* malloc of a large range.
LEMMA HeapMallocLarge ==
  ASSUME NEW L, NEW M, NEW N, HeapInv(L, M, N), NEW n \in Requests, MallocLarge(n)
  PROVE  HeapInv(L, M, N)'
<1>1. QuietStep
  BY DEF QuietStep
<1>2. ListedInv(L, M) /\ Sizes(L, M, N) /\ ObjectsInv(N)
  BY DEF HeapInv
<1>3. ListedInv(L, M)' /\ UNCHANGED <<caches, slabs, link>>
  <2>1. ListedInv(L, M)' /\ UNCHANGED <<first_cache, caches, slabs, link, null_word, space>>
    BY <1>1, <1>2, ListedQuiet
  <2> QED
    BY <2>1
<1>4. KnownSlabs(N)
  BY <1>2, SizesKnown
<1>5. pc = "idle" /\ pc' = "idle" /\ cache' = cache /\ slab' = slab
  BY DEF MallocLarge, locals
<1>6. PICK a \in LargeAddrs : owned' = owned \cup {[addr |-> a, len |-> n]}
  BY DEF MallocLarge
<1>7. PICK o : o = [addr |-> a, len |-> n]
  OBVIOUS
<1>8. IsLarge(o) /\ o.addr = a
  BY <1>7 DEF IsLarge, MallocLarge
<1>9. \A t : ~ Emptied(t) /\ ~ Emptied(t)'
  BY <1>5 DEF Emptied
<1>10. ASSUME NEW t \in DOMAIN N
       PROVE  Sound(t, N[t], slabs'[t], link', owned')
  <2>1. PICK m, r : m = N[t] /\ r = slabs[t]
    OBVIOUS
  <2>2. IsPlace(t, m) /\ InHeap(t) /\ Sound(t, m, r, link, owned)
    BY <1>2, <1>4, <1>9, <2>1 DEF KnownSlabs, ObjectsInv, SoundInv
  <2>3. a \notin Objects(t, m)
    BY <1>8, <2>2, LargeElsewhere
  <2>4. \A b \in Objects(t, m) : [addr |-> b, len |-> m] # o
    BY <1>8, <2>3
  <2>5. SameChain(t, m, r, link, owned, r, link, owned')
    BY <1>6, <1>7, <2>4 DEF SameChain
  <2>6. Sound(t, m, r, link, owned')
    BY <2>2, <2>5, SoundKept
  <2> QED
    BY <1>3, <2>1, <2>6
<1>11. SoundInv(N)'
  BY <1>10 DEF SoundInv
<1>12. ClientsInv(N)'
  BY <1>2, <1>6, <1>7, <1>8, <1>9 DEF ObjectsInv, ClientsInv
<1>13. EmptyInv(N)'
  BY <1>2, <1>3, <1>5, <1>9 DEF ObjectsInv, EmptyInv
<1>14. ObjectsInv(N)'
  BY <1>2, <1>3, <1>11, <1>12, <1>13 DEF ObjectsInv
<1>15. Sizes(L, M, N)'
  BY <1>2, <1>3 DEF Sizes
<1> QED
  BY <1>3, <1>14, <1>15 DEF HeapInv

\* A range whose address is in no slab in use is one of the physical memory manager.
LEMMA UnfoundIsLarge ==
  ASSUME NEW L, NEW M, NEW N, HeapInv(L, M, N), NEW o \in owned, Found(o.addr) = {}
  PROVE  IsLarge(o)
<1>1. ListedInv(L, M) /\ Sizes(L, M, N) /\ ObjectsInv(N)
  BY DEF HeapInv
<1>2. KnownSlabs(N) /\ InUse = DOMAIN N
  <2>1. InUse = DOMAIN N
    BY <1>1, SizesAre
  <2> QED
    BY <1>1, <2>1, SizesKnown
<1> SUFFICES ASSUME NEW t \in DOMAIN N, o.addr \in Objects(t, N[t])
             PROVE  FALSE
  BY <1>1 DEF ObjectsInv, ClientsInv
<1>3. IsPlace(t, N[t])
  BY <1>2 DEF KnownSlabs
<1>4. t \in Nat /\ SlabBytes \in Nat
  BY <1>3, HeapAssumption, ObjectsFit DEF SlabBytes, SlabHeader
<1>5. o.addr \in Nat /\ t < o.addr /\ o.addr < t + SlabBytes
  BY <1>3, ObjectsAre
<1>6. Encloses(t, o.addr)
  BY <1>4, <1>5 DEF Encloses
<1> QED
  BY <1>2, <1>6 DEF Found

\* free of a large range.
LEMMA HeapFreeLarge ==
  ASSUME NEW L, NEW M, NEW N, HeapInv(L, M, N), NEW o \in owned, FreeLarge(o)
  PROVE  HeapInv(L, M, N)'
<1>1. QuietStep
  BY DEF QuietStep
<1>2. ListedInv(L, M) /\ Sizes(L, M, N) /\ ObjectsInv(N)
  BY DEF HeapInv
<1>3. ListedInv(L, M)' /\ UNCHANGED <<caches, slabs, link>>
  <2>1. ListedInv(L, M)' /\ UNCHANGED <<first_cache, caches, slabs, link, null_word, space>>
    BY <1>1, <1>2, ListedQuiet
  <2> QED
    BY <2>1
<1>4. KnownSlabs(N)
  BY <1>2, SizesKnown
<1>5. pc = "idle" /\ pc' = "idle" /\ cache' = cache /\ slab' = slab /\ owned' = owned \ {o}
  BY DEF FreeLarge, locals
<1>6. IsLarge(o)
  BY UnfoundIsLarge DEF FreeLarge
<1>7. \A t : ~ Emptied(t) /\ ~ Emptied(t)'
  BY <1>5 DEF Emptied
<1>8. ASSUME NEW t \in DOMAIN N
      PROVE  Sound(t, N[t], slabs'[t], link', owned')
  <2>1. PICK m, r : m = N[t] /\ r = slabs[t]
    OBVIOUS
  <2>2. IsPlace(t, m) /\ InHeap(t) /\ Sound(t, m, r, link, owned)
    BY <1>2, <1>4, <1>7, <2>1 DEF KnownSlabs, ObjectsInv, SoundInv
  <2>3. o.addr \notin Objects(t, m)
    BY <1>6, <2>2, LargeElsewhere
  <2>4. \A b \in Objects(t, m) : [addr |-> b, len |-> m] # o
    BY <2>3
  <2>5. SameChain(t, m, r, link, owned, r, link, owned')
    BY <1>5, <2>4 DEF SameChain
  <2>6. Sound(t, m, r, link, owned')
    BY <2>2, <2>5, SoundKept
  <2> QED
    BY <1>3, <2>1, <2>6
<1>9. SoundInv(N)'
  BY <1>8 DEF SoundInv
<1>10. ClientsInv(N)'
  BY <1>2, <1>5, <1>7 DEF ObjectsInv, ClientsInv
<1>11. EmptyInv(N)'
  BY <1>2, <1>3, <1>5, <1>7 DEF ObjectsInv, EmptyInv
<1>12. ObjectsInv(N)'
  BY <1>2, <1>3, <1>9, <1>10, <1>11 DEF ObjectsInv
<1>13. Sizes(L, M, N)'
  BY <1>2, <1>3 DEF Sizes
<1> QED
  BY <1>3, <1>12, <1>13 DEF HeapInv

\* Nothing happens.
LEMMA HeapStutter ==
  ASSUME NEW L, NEW M, NEW N, HeapInv(L, M, N), UNCHANGED vars
  PROVE  HeapInv(L, M, N)'
<1>1. ListedInv(L, M) /\ Sizes(L, M, N) /\ ObjectsInv(N)
  BY DEF HeapInv
<1>2. QuietStep
  BY DEF QuietStep
<1>3. ListedInv(L, M)'
  BY <1>1, <1>2, ListedQuiet
<1>4. UNCHANGED <<caches, slabs, link, owned, pc, slab, cache>>
  BY DEF vars, lists, locals
<1>5. Sizes(L, M, N)'
  BY <1>1, <1>4 DEF Sizes
<1>6. \A t : Emptied(t)' <=> Emptied(t)
  BY <1>4 DEF Emptied
<1>7. SoundInv(N)' /\ ClientsInv(N)' /\ EmptyInv(N)'
  BY <1>1, <1>4, <1>6 DEF ObjectsInv, SoundInv, ClientsInv, EmptyInv
<1> QED
  BY <1>1, <1>3, <1>4, <1>5, <1>7 DEF HeapInv, ObjectsInv

\* An empty cache leaves.
LEMMA HeapRetireCache ==
  ASSUME NEW L, NEW M, NEW N, HeapInv(L, M, N), RetireCache
  PROVE  \E M2 : HeapInv(L, M2, N)'
<1>1. ListedInv(L, M) /\ Sizes(L, M, N) /\ ObjectsInv(N)
  BY DEF HeapInv
<1>2. PICK M2 : ListedInv(L, M2)' /\ Range(M2["used"]) = Range(M["used"]) \ {cache}
  <2>1. \E M2 : ListedInv(L, M2)' /\ Range(M2["used"]) = Range(M["used"]) \ {cache}
    BY <1>1, ListedRetireCache
  <2> QED
    BY <2>1
<1>3. SlabsOf(L, cache) = {} /\ CachesSame
  BY <1>1, ListedRetireCache
<1>4. KnownSlabs(N) /\ \A c \in Range(M["used"]) : c \in DOMAIN caches
  BY <1>1, SizesKnown, SizesAre
<1>5. pc = "empty" /\ UNCHANGED <<slabs, link, owned>>
  BY DEF RetireCache
<1>6. \A t \in DOMAIN N : slabs[t].allocated # 0
  BY <1>1, <1>5 DEF ObjectsInv, EmptyInv, Emptied
<1>7. ObjectsInv(N)'
  BY <1>1, <1>4, <1>5, <1>6, ObjectsCalm
<1>8. Sizes(L, M2, N)'
  <2>1. \A t : t \in DOMAIN N <=> \E c \in Range(M2["used"]) : t \in SlabsOf(L, c)
    BY <1>1, <1>2, <1>3 DEF Sizes
  <2>2. \A c \in Range(M2["used"]) : \A t \in SlabsOf(L, c) : N[t] = caches'[c].size
    BY <1>1, <1>2, <1>3, <1>4 DEF Sizes, CachesSame
  <2> QED
    BY <2>1, <2>2 DEF Sizes
<1>9. HeapInv(L, M2, N)'
  BY <1>2, <1>7, <1>8 DEF HeapInv
<1> QED
  BY <1>9

\* A cache that is left empty by a step has no slabs then.
LEMMA EmptyThen ==
  ASSUME NEW L, NEW M, NEW c
  PROVE  (ListedInv(L, M) /\ c \in DOMAIN caches /\ EmptyCache(c) => SlabsOf(L, c) = {})'
<1>1. ListedInv(L, M) /\ c \in DOMAIN caches /\ EmptyCache(c) => SlabsOf(L, c) = {}
  BY EmptyHasNone
<1> QED
  BY <1>1, PTL

\* A cache comes in, without slabs.
LEMMA HeapMakeCache ==
  ASSUME NEW L, NEW M, NEW N, HeapInv(L, M, N), MakeCache
  PROVE  \E M2 : HeapInv(L, M2, N)'
<1>1. ListedInv(L, M) /\ Sizes(L, M, N) /\ ObjectsInv(N)
  BY DEF HeapInv
<1>2. PICK M2 : /\ ListedInv(L, M2)'
                /\ Range(M2["used"]) = Range(M["used"]) \cup {NewCache}
  <2>1. \E M2 : /\ ListedInv(L, M2)'
                /\ Range(M2["used"]) = Range(M["used"]) \cup {NewCache}
    BY <1>1, ListedMakeCache
  <2> QED
    BY <2>1
<1>3. /\ NewCache \notin Range(M["used"])
      /\ \A d \in Range(M["used"]) : caches'[d].size = caches[d].size
  BY <1>1, ListedMakeCache
<1>4. KnownSlabs(N)
  BY <1>1, SizesKnown
<1>5. pc = "cache" /\ UNCHANGED <<slabs, link, owned>>
  BY DEF MakeCache
<1>6. \A t \in DOMAIN N : slabs[t].allocated # 0
  BY <1>1, <1>5 DEF ObjectsInv, EmptyInv, Emptied
<1>7. ObjectsInv(N)'
  BY <1>1, <1>4, <1>5, <1>6, ObjectsCalm
<1>8. PICK c : c = NewCache
  OBVIOUS
<1>9. c \in DOMAIN caches' /\ caches'[c].available = 0 /\ caches'[c].full = 0
  <2>1. PICK with : with = [x \in DOMAIN caches \cup {c} |->
                              IF x = c THEN FreshCache ELSE caches[x]]
    OBVIOUS
  <2>2. /\ first_cache = 0 => first_cache' = c /\ caches' = with
        /\ first_cache # 0 => /\ first_cache' = first_cache
                              /\ caches' = [with EXCEPT ![Last(CacheList)].next = c]
    BY <1>8, <2>1, MakeCacheIs
  <2>3. PICK x : x = Last(CacheList)
    OBVIOUS
  <2>4. caches' = with \/ caches' = [with EXCEPT ![x].next = c]
    BY <2>2, <2>3
  <2>5. DOMAIN with = DOMAIN caches \cup {c} /\ with[c] = FreshCache
    BY <2>1
  <2>6. c \in DOMAIN caches'
    BY <2>4, <2>5
  <2>7. PICK r : r = FreshCache
    OBVIOUS
  <2>8. caches'[c] = r \/ caches'[c] = [r EXCEPT !.next = c]
    BY <2>4, <2>5, <2>7
  <2>9. r = [next |-> 0, size |-> size, available |-> 0, full |-> 0]
    BY <2>7 DEF FreshCache
  <2>10. [r EXCEPT !.next = c].available = r.available /\ [r EXCEPT !.next = c].full = r.full
    BY <2>9
  <2> QED
    BY <2>6, <2>8, <2>9, <2>10
<1>10. SlabsOf(L, c) = {}
  <2>1. (ListedInv(L, M2) /\ c \in DOMAIN caches /\ EmptyCache(c) => SlabsOf(L, c) = {})'
    BY EmptyThen
  <2>2. EmptyCache(c)'
    BY <1>9 DEF EmptyCache
  <2>3. SlabsOf(L, c)' = {}
    BY <1>2, <1>9, <2>1, <2>2
  <2> QED
    BY <2>3 DEF SlabsOf
<1>11. Sizes(L, M2, N)'
  <2>1. \A t : t \in DOMAIN N <=> \E d \in Range(M2["used"]) : t \in SlabsOf(L, d)
    BY <1>1, <1>2, <1>8, <1>10 DEF Sizes
  <2>2. \A d \in Range(M2["used"]) : \A t \in SlabsOf(L, d) : N[t] = caches'[d].size
    BY <1>1, <1>2, <1>3, <1>8, <1>10 DEF Sizes
  <2> QED
    BY <2>1, <2>2 DEF Sizes
<1>12. HeapInv(L, M2, N)'
  BY <1>2, <1>7, <1>11 DEF HeapInv
<1> QED
  BY <1>12

\* The caches keep their slabs and sizes.
LEMMA SizesSame ==
  ASSUME NEW L, NEW M, NEW N, ListedInv(L, M), Sizes(L, M, N), NEW L2, SameSlabs(L, L2),
         CachesSame
  PROVE  Sizes(L2, M, N)'
<1>1. \A c \in Range(M["used"]) : c \in DOMAIN caches /\ SlabsOf(L2, c) = SlabsOf(L, c)
  BY SizesAre DEF SameSlabs
<1>2. \A t : t \in DOMAIN N <=> \E c \in Range(M["used"]) : t \in SlabsOf(L2, c)
  BY <1>1 DEF Sizes
<1>3. \A c \in Range(M["used"]) : \A t \in SlabsOf(L2, c) : N[t] = caches'[c].size
  BY <1>1 DEF Sizes, CachesSame
<1> QED
  BY <1>2, <1>3 DEF Sizes

\* A slab that was full moves to the available list.
LEMMA HeapUnfull ==
  ASSUME NEW L, NEW M, NEW N, HeapInv(L, M, N), MoveToAvailable
  PROVE  \E L2 : HeapInv(L2, M, N)'
<1>1. ListedInv(L, M) /\ Sizes(L, M, N) /\ ObjectsInv(N)
  BY DEF HeapInv
<1>2. PICK L2 : ListedInv(L2, M)' /\ SameSlabs(L, L2)
  <2>1. \E L2 : ListedInv(L2, M)' /\ SameSlabs(L, L2)
    BY <1>1, ListedUnfull
  <2> QED
    BY <2>1
<1>3. SlabsSame /\ CachesSame
  BY <1>1, ListedUnfull
<1>4. KnownSlabs(N)
  BY <1>1, SizesKnown
<1>5. pc = "unfull" /\ pc' = "count" /\ slab' = slab /\ UNCHANGED <<link, owned>>
  BY DEF MoveToAvailable, locals
<1>6. \A t \in DOMAIN N :
        /\ slabs'[t].max = slabs[t].max /\ slabs'[t].allocated = slabs[t].allocated
        /\ slabs'[t].first_free = slabs[t].first_free
  BY <1>3, <1>4 DEF SlabsSame, KnownSlabs
<1>7. \A t \in DOMAIN N : Emptied(t)' <=> Emptied(t)
  BY <1>5, <1>6 DEF Emptied
<1>8. \A t \in DOMAIN N : slabs[t].allocated = 0 => Emptied(t)
  BY <1>1, <1>5 DEF ObjectsInv, EmptyInv
<1>9. ObjectsInv(N)'
  BY <1>1, <1>4, <1>5, <1>6, <1>7, <1>8, ObjectsSame
<1>10. Sizes(L2, M, N)'
  BY <1>1, <1>2, <1>3, SizesSame
<1>11. HeapInv(L2, M, N)'
  BY <1>2, <1>9, <1>10 DEF HeapInv
<1> QED
  BY <1>11

\* The emptied slab goes to the free list.
LEMMA HeapRetireSlab ==
  ASSUME NEW L, NEW M, NEW N, HeapInv(L, M, N), RetireSlab
  PROVE  \E L2, N2 : HeapInv(L2, M, N2)'
<1>1. ListedInv(L, M) /\ Sizes(L, M, N) /\ ObjectsInv(N)
  BY DEF HeapInv
<1>2. PICK L2 : /\ ListedInv(L2, M)'
                /\ SlabsOf(L2, cache) = SlabsOf(L, cache) \ {slab}
                /\ \A d \in Nat : d # cache => SlabsOf(L2, d) = SlabsOf(L, d)
  <2>1. \E L2 : /\ ListedInv(L2, M)'
                /\ SlabsOf(L2, cache) = SlabsOf(L, cache) \ {slab}
                /\ \A d \in Nat : d # cache => SlabsOf(L2, d) = SlabsOf(L, d)
    BY <1>1, ListedRetireSlab
  <2> QED
    BY <2>1
<1>3. SlabsSame /\ CachesSame
  BY <1>1, ListedRetireSlab
<1>4. KnownSlabs(N) /\ \A c \in Range(M["used"]) : c \in DOMAIN caches /\ c \in Nat
  BY <1>1, SizesKnown, SizesAre
<1>5. /\ pc = "count" /\ pc' = "empty" /\ UNCHANGED <<link, owned>>
      /\ slabs[slab].allocated = 0
  BY DEF RetireSlab
<1>6. cache \in Range(M["used"]) /\ slab \in Range(L[AvailKey(cache)])
  BY <1>1, <1>5 DEF ListedInv, CallInv
<1>7. \A c \in Range(M["used"]) : c # cache => slab \notin SlabsOf(L, c)
  <2> SUFFICES ASSUME NEW c \in Range(M["used"]), c # cache
               PROVE  slab \notin SlabsOf(L, c)
    OBVIOUS
  <2>1. c \in Nat /\ cache \in Nat
    BY <1>4, <1>6
  <2>2. /\ \A d \in Nat : slab \notin Range(L[FullKey(d)])
        /\ \A d \in Nat : slab \in Range(L[AvailKey(d)]) => d = cache
    BY <1>1, <1>6, <2>1, SlabPlace
  <2> QED
    BY <2>1, <2>2 DEF SlabsOf
<1>8. PICK N2 : N2 = [t \in DOMAIN N \ {slab} |-> N[t]]
  OBVIOUS
<1>9. DOMAIN N2 = DOMAIN N \ {slab} /\ \A t \in DOMAIN N2 : N2[t] = N[t]
  BY <1>8
<1>10. ObjectsInv(N2)'
  <2>1. \A t \in DOMAIN N2 :
          /\ slabs'[t].max = slabs[t].max /\ slabs'[t].allocated = slabs[t].allocated
          /\ slabs'[t].first_free = slabs[t].first_free
    BY <1>3, <1>4, <1>9 DEF SlabsSame, KnownSlabs
  <2>2. \A t \in DOMAIN N2 : ~ Emptied(t)' /\ ~ Emptied(t)
    BY <1>5, <1>9 DEF Emptied
  <2>3. \A t \in DOMAIN N2 : slabs[t].allocated = 0 => Emptied(t)
    BY <1>1, <1>5, <1>9 DEF ObjectsInv, EmptyInv
  <2>4. \A t \in DOMAIN N : t \notin DOMAIN N2 => Emptied(t)
    BY <1>5, <1>9 DEF Emptied
  <2>5. DOMAIN N2 \subseteq DOMAIN N
    BY <1>9
  <2> QED
    BY <1>1, <1>4, <1>5, <1>9, <2>1, <2>2, <2>3, <2>4, <2>5, ObjectsSame
<1>11. \A c \in Range(M["used"]) : SlabsOf(L2, c) = SlabsOf(L, c) \ {slab}
  <2> TAKE c \in Range(M["used"])
  <2>1. CASE c = cache
    BY <1>2, <2>1
  <2>2. CASE c # cache
    BY <1>2, <1>4, <1>7, <2>2
  <2> QED
    BY <2>1, <2>2
<1>12. Sizes(L2, M, N2)'
  <2>1. \A t : t \in DOMAIN N2 <=> \E c \in Range(M["used"]) : t \in SlabsOf(L2, c)
    BY <1>1, <1>9, <1>11 DEF Sizes
  <2>2. ASSUME NEW c \in Range(M["used"]), NEW t \in SlabsOf(L2, c)
        PROVE  N2[t] = caches'[c].size
    <3>1. t \in SlabsOf(L, c) /\ t \in DOMAIN N2
      BY <1>11, <2>1, <2>2
    <3>2. N[t] = caches[c].size
      BY <1>1, <3>1 DEF Sizes
    <3>3. caches'[c].size = caches[c].size
      BY <1>3, <1>4 DEF CachesSame
    <3> QED
      BY <1>9, <3>1, <3>2, <3>3
  <2> QED
    BY <2>1, <2>2 DEF Sizes
<1>13. HeapInv(L2, M, N2)'
  BY <1>2, <1>10, <1>12 DEF HeapInv
<1> QED
  BY <1>13

\* What malloc writes when it takes an object.
LEMMA TakeFields ==
  ASSUME NEW L, NEW M, ListedInv(L, M), TakeObject, NEW s, s = Taken
  PROVE  /\ \E L2 : ListedInv(L2, M)' /\ SameSlabs(L, L2)
         /\ CachesSame
         /\ slabs'[s].max = slabs[s].max /\ slabs'[s].allocated = slabs[s].allocated + 1
         /\ slabs'[s].first_free = Word(slabs[s].first_free)
         /\ \A t \in DOMAIN slabs : t # s =>
              /\ slabs'[t].max = slabs[t].max /\ slabs'[t].allocated = slabs[t].allocated
              /\ slabs'[t].first_free = slabs[t].first_free
<1>1. CASE NowFull
  <2>1. /\ \E L2 : ListedInv(L2, M)' /\ SameSlabs(L, L2)
        /\ DOMAIN slabs' = DOMAIN slabs
        /\ slabs'[Taken].max = slabs[Taken].max
        /\ slabs'[Taken].allocated = slabs[Taken].allocated + 1
        /\ slabs'[Taken].first_free = Word(slabs[Taken].first_free)
        /\ \A t \in DOMAIN slabs : t # Taken =>
             /\ slabs'[t].max = slabs[t].max /\ slabs'[t].allocated = slabs[t].allocated
             /\ slabs'[t].first_free = slabs[t].first_free
        /\ DOMAIN caches' = DOMAIN caches
        /\ \A d \in DOMAIN caches : caches'[d].size = caches[d].size
    BY <1>1, ListedTakeLast
  <2> QED
    BY <2>1 DEF CachesSame
<1>2. CASE ~ NowFull
  <2>1. pc = "slab" /\ Taken # 0 /\ slabs' = TakenSlabs /\ caches' = caches
    BY <1>2 DEF TakeObject, Taken
  <2>2. Taken \in DOMAIN slabs /\ IsSlab(slabs[Taken])
    BY <2>1, TakenFacts
  <2>3. /\ DOMAIN TakenSlabs = DOMAIN slabs
        /\ IsSlab(TakenSlabs[Taken])
        /\ TakenSlabs[Taken].next = slabs[Taken].next
        /\ TakenSlabs[Taken].max = slabs[Taken].max
        /\ TakenSlabs[Taken].allocated = slabs[Taken].allocated + 1
        /\ TakenSlabs[Taken].first_free = Word(slabs[Taken].first_free)
        /\ \A t \in DOMAIN slabs : t # Taken => TakenSlabs[t] = slabs[t]
    BY <2>2, TakenIs
  <2>4. ListedInv(L, M)' /\ SameSlabs(L, L)
    BY <1>2, ListedTakeOne DEF SameSlabs
  <2>5. CachesSame
    BY <2>1 DEF CachesSame
  <2> QED
    BY <2>1, <2>3, <2>4, <2>5
<1> QED
  BY <1>1, <1>2

\* The slab malloc takes from has its chain; the object is the first one on it, and
\* no client holds it.
LEMMA TakenFree ==
  ASSUME NEW L, NEW M, NEW N, HeapInv(L, M, N), pc = "slab", NEW s, s = Taken, s # 0,
         NEW o, o = slabs[s].first_free
  PROVE  /\ s \in DOMAIN N /\ N[s] = size /\ IsPlace(s, size)
         /\ Sound(s, size, slabs[s], link, owned) /\ slabs[s].allocated < slabs[s].max
         /\ slabs[s].allocated \in Nat
         /\ o \in Objects(s, size) /\ o # 0 /\ o \in DOMAIN link /\ Encloses(s, o)
         /\ [addr |-> o, len |-> size] \notin owned
<1>1. ListedInv(L, M) /\ Sizes(L, M, N) /\ ObjectsInv(N)
  BY DEF HeapInv
<1>2. /\ cache \in Range(M["used"]) /\ caches[cache].size = size
      /\ s \in Range(L[AvailKey(cache)]) /\ slabs[s].allocated < slabs[s].max
  BY <1>1, TakenFacts
<1>3. s \in SlabsOf(L, cache)
  BY <1>2 DEF SlabsOf
<1>4. s \in DOMAIN N /\ N[s] = size
  BY <1>1, <1>2, <1>3 DEF Sizes
<1>5. IsPlace(s, size)
  BY <1>1, <1>4, SizesKnown DEF KnownSlabs
<1>6. Sound(s, size, slabs[s], link, owned)
  BY <1>1, <1>4 DEF ObjectsInv, SoundInv, Emptied
<1>7. PICK r : r = slabs[s]
  OBVIOUS
<1>8. PICK q : ChainOf(s, size, r, link, owned, q)
  BY <1>6, <1>7 DEF Sound
<1>9. /\ r.first_free \in Objects(s, size) /\ r.first_free # 0
      /\ r.first_free \in DOMAIN link /\ Encloses(s, r.first_free)
      /\ [addr |-> r.first_free, len |-> size] \notin owned
  BY <1>2, <1>5, <1>7, <1>8, FirstFree
<1>10. r.allocated \in Nat
  BY <1>5, <1>8, HeldCounted
<1> QED
  BY <1>2, <1>4, <1>5, <1>6, <1>7, <1>9, <1>10

\* malloc takes an object.
LEMMA HeapTake ==
  ASSUME NEW L, NEW M, NEW N, HeapInv(L, M, N), TakeObject
  PROVE  \E L2 : HeapInv(L2, M, N)'
<1>1. ListedInv(L, M) /\ Sizes(L, M, N) /\ ObjectsInv(N)
  BY DEF HeapInv
<1>2. KnownSlabs(N)
  BY <1>1, SizesKnown
<1>3. PICK s : s = Taken
  OBVIOUS
<1>4. PICK o : o = slabs[s].first_free
  OBVIOUS
<1>5. pc = "slab" /\ pc' = "idle" /\ s # 0 /\ Return(o)
  BY <1>3, <1>4 DEF TakeObject, Taken, Done
<1>6. /\ s \in DOMAIN N /\ N[s] = size /\ IsPlace(s, size)
      /\ Sound(s, size, slabs[s], link, owned) /\ slabs[s].allocated < slabs[s].max
      /\ slabs[s].allocated \in Nat
      /\ o \in Objects(s, size) /\ o # 0 /\ o \in DOMAIN link /\ Encloses(s, o)
      /\ [addr |-> o, len |-> size] \notin owned
  BY <1>3, <1>4, <1>5, TakenFree
<1>7. /\ CachesSame
      /\ slabs'[s].max = slabs[s].max /\ slabs'[s].allocated = slabs[s].allocated + 1
      /\ slabs'[s].first_free = Word(slabs[s].first_free)
      /\ \A t \in DOMAIN slabs : t # s =>
           /\ slabs'[t].max = slabs[t].max /\ slabs'[t].allocated = slabs[t].allocated
           /\ slabs'[t].first_free = slabs[t].first_free
  BY <1>1, <1>3, TakeFields
<1>8. PICK L2 : ListedInv(L2, M)' /\ SameSlabs(L, L2)
  <2>1. \E L2 : ListedInv(L2, M)' /\ SameSlabs(L, L2)
    BY <1>1, <1>3, TakeFields
  <2> QED
    BY <2>1
<1>9. /\ DOMAIN link' = DOMAIN link \ {o} /\ \A b \in DOMAIN link' : link'[b] = link[b]
      /\ owned' = owned \cup {[addr |-> o, len |-> size]}
  BY <1>5, <1>6 DEF Return
<1>10. \A t : ~ Emptied(t) /\ ~ Emptied(t)'
  BY <1>5 DEF Emptied
<1>11. Sound(s, size, slabs'[s], link', owned')
  <2>1. PICK r, r2 : r = slabs[s] /\ r2 = slabs'[s]
    OBVIOUS
  <2>2. r2.first_free = link[r.first_free]
    BY <1>4, <1>6, <1>7, <2>1 DEF Word
  <2>3. TakenChain(size, r, link, owned, r2, link', owned')
    BY <1>4, <1>7, <1>9, <2>1, <2>2 DEF TakenChain
  <2>4. IsPlace(s, size) /\ Sound(s, size, r, link, owned) /\ r.allocated < r.max
    BY <1>6, <2>1
  <2>5. Sound(s, size, r2, link', owned')
    BY <2>3, <2>4, TakeSound
  <2> QED
    BY <2>1, <2>5
<1>12. ASSUME NEW t \in DOMAIN N, t # s
       PROVE  Sound(t, N[t], slabs'[t], link', owned')
  <2>1. PICK n, r, r2 : n = N[t] /\ r = slabs[t] /\ r2 = slabs'[t]
    OBVIOUS
  <2>2. IsPlace(t, n) /\ Sound(t, n, r, link, owned) /\ t \in DOMAIN slabs /\ Clear(t, s)
    BY <1>1, <1>2, <1>6, <1>10, <1>12, <2>1 DEF KnownSlabs, ObjectsInv, SoundInv
  <2>3. t \in Nat
    BY <2>2, ObjectsFit
  <2>4. ~ Encloses(t, o) /\ o \notin Objects(t, n)
    BY <1>6, <2>2, <2>3, Elsewhere
  <2>5. \A a \in Objects(t, n) : [addr |-> a, len |-> n] # [addr |-> o, len |-> size]
    BY <2>4
  <2>6. SameChain(t, n, r, link, owned, r2, link', owned')
    BY <1>7, <1>9, <1>12, <2>1, <2>2, <2>4, <2>5 DEF SameChain
  <2>7. Sound(t, n, r2, link', owned')
    BY <2>2, <2>6, SoundKept
  <2> QED
    BY <2>1, <2>7
<1>13. SoundInv(N)'
  BY <1>6, <1>11, <1>12 DEF SoundInv
<1>14. ClientsInv(N)'
  <2> SUFFICES ASSUME NEW x \in owned', ~ IsLarge(x)
               PROVE  \E t \in DOMAIN N : /\ ~ Emptied(t)' /\ x.addr \in Objects(t, N[t])
                                          /\ x = [addr |-> x.addr, len |-> N[t]]
    BY DEF ClientsInv
  <2>1. CASE x \in owned
    BY <1>1, <1>10, <2>1 DEF ObjectsInv, ClientsInv
  <2>2. CASE x = [addr |-> o, len |-> size]
    BY <1>6, <1>10, <2>2
  <2> QED
    BY <1>9, <2>1, <2>2
<1>15. EmptyInv(N)'
  <2> SUFFICES ASSUME NEW t \in DOMAIN N, slabs'[t].allocated = 0
               PROVE  FALSE
    BY DEF EmptyInv
  <2>1. CASE t = s
    BY <1>6, <1>7, <2>1
  <2>2. CASE t # s
    <3>1. slabs[t].allocated = 0
      BY <1>2, <1>7, <2>2 DEF KnownSlabs
    <3>2. t = Taken
      BY <1>1, <1>10, <3>1 DEF ObjectsInv, EmptyInv, Taken
    <3> QED
      BY <1>3, <2>2, <3>2
  <2> QED
    BY <2>1, <2>2
<1>16. ObjectsInv(N)'
  BY <1>1, <1>9, <1>13, <1>14, <1>15 DEF ObjectsInv
<1>17. Sizes(L2, M, N)'
  BY <1>1, <1>7, <1>8, SizesSame
<1>18. HeapInv(L2, M, N)'
  BY <1>8, <1>16, <1>17 DEF HeapInv
<1> QED
  BY <1>18

\* The links of a new slab, and the ones it leaves.
LEMMA FreshLinksAre ==
  ASSUME MakeSlab, NEW s, s = NewSlab
  PROVE  /\ \A b : b \in DOMAIN link' <=>
              \/ b \in DOMAIN link /\ (b <= s \/ s + SlabBytes < b)
              \/ b \in Objects(s, size)
         /\ \A b \in Objects(s, size) : link'[b] = b + size
         /\ \A b \in DOMAIN link' : b \notin Objects(s, size) => link'[b] = link[b]
<1>1. PICK O : O = Objects(s, size)
  OBVIOUS
<1>2. PICK D : D = {b \in DOMAIN link : b <= s \/ s + SlabBytes < b}
  OBVIOUS
<1>3. PICK w : w = FreshLinks(s)
  OBVIOUS
<1>4. link' = [a \in D \cup O |-> IF a \in O THEN w[a] ELSE link[a]]
  BY <1>1, <1>2, <1>3 DEF MakeSlab, NewSlab
<1>5. \A a \in O : w[a] = a + size
  BY <1>1, <1>3 DEF FreshLinks
<1>6. DOMAIN link' = D \cup O
  BY <1>4
<1>7. \A b \in O : link'[b] = b + size
  BY <1>4, <1>5
<1>8. \A b \in DOMAIN link' : b \notin O => link'[b] = link[b]
  BY <1>4
<1> QED
  BY <1>1, <1>2, <1>6, <1>7, <1>8

\* The slabs in use after a step.
LEMMA KnownThen ==
  ASSUME NEW L, NEW M, NEW N
  PROVE  (ListedInv(L, M) /\ Sizes(L, M, N) => KnownSlabs(N))'
<1>1. ListedInv(L, M) /\ Sizes(L, M, N) => KnownSlabs(N)
  BY SizesKnown
<1> QED
  BY <1>1, PTL

\* malloc makes a slab.
LEMMA HeapMakeSlab ==
  ASSUME NEW L, NEW M, NEW N, HeapInv(L, M, N), MakeSlab
  PROVE  \E L2, N2 : HeapInv(L2, M, N2)'
<1>1. ListedInv(L, M) /\ Sizes(L, M, N) /\ ObjectsInv(N)
  BY DEF HeapInv
<1>2. KnownSlabs(N) /\ \A c \in Range(M["used"]) : c \in DOMAIN caches /\ c \in Nat
  BY <1>1, SizesKnown, SizesAre
<1>3. PICK s : s = NewSlab
  OBVIOUS
<1>4. PICK L2 : /\ ListedInv(L2, M)'
                /\ SlabsOf(L2, cache) = SlabsOf(L, cache) \cup {s}
                /\ \A d \in Nat : d # cache => SlabsOf(L2, d) = SlabsOf(L, d)
  <2>1. \E L2 : /\ ListedInv(L2, M)'
                /\ SlabsOf(L2, cache) = SlabsOf(L, cache) \cup {NewSlab}
                /\ \A d \in Nat : d # cache => SlabsOf(L2, d) = SlabsOf(L, d)
    BY <1>1, ListedMakeSlab
  <2> QED
    BY <1>3, <2>1
<1>5. CachesSame /\ \A d \in Nat : s \notin SlabsOf(L, d)
  BY <1>1, <1>3, ListedMakeSlab
<1>6. /\ pc = "slab" /\ pc' = "slab" /\ caches[cache].available = 0
      /\ slabs' = [x \in DOMAIN slabs \cup {s} |-> IF x = s THEN FreshSlab(s) ELSE slabs[x]]
      /\ caches' = [caches EXCEPT ![cache].available = s]
      /\ UNCHANGED <<cache, owned, size>>
  BY <1>3, MakeSlabIs
<1>7. /\ cache \in Range(M["used"]) /\ cache \in DOMAIN caches /\ cache \in Nat
      /\ IsCache(caches[cache])
      /\ size \in WordBytes .. SlabSize /\ caches[cache].size = size
  BY <1>1, <1>6, TakenFacts
<1>8. /\ FreshSlab(s).allocated = 0 /\ FreshSlab(s).max = MaxObjects(size)
      /\ FreshSlab(s).first_free = s + SlabHeader
  BY <1>7, FreshFields
<1>9. slabs'[s] = FreshSlab(s) /\ \A t \in DOMAIN slabs : t # s => slabs'[t] = slabs[t]
  BY <1>6
<1>10. s \notin DOMAIN N
  BY <1>1, <1>2, <1>5 DEF Sizes
<1>11. PICK N2 : N2 = [t \in DOMAIN N \cup {s} |-> IF t = s THEN size ELSE N[t]]
  OBVIOUS
<1>12. DOMAIN N2 = DOMAIN N \cup {s} /\ N2[s] = size /\ \A t \in DOMAIN N : N2[t] = N[t]
  BY <1>10, <1>11
<1>13. Sizes(L2, M, N2)'
  <2>1. \A t : t \in DOMAIN N2 <=> \E c \in Range(M["used"]) : t \in SlabsOf(L2, c)
    <3>1. \A t : t \in DOMAIN N <=> \E c \in Range(M["used"]) : t \in SlabsOf(L, c)
      BY <1>1 DEF Sizes
    <3>2. \A c \in Range(M["used"]) : c # cache => SlabsOf(L2, c) = SlabsOf(L, c)
      BY <1>2, <1>4
    <3>3. ASSUME NEW t \in DOMAIN N2
          PROVE  \E c \in Range(M["used"]) : t \in SlabsOf(L2, c)
      <4>1. CASE t = s
        BY <1>4, <1>7, <4>1
      <4>2. CASE t \in DOMAIN N
        <5>1. PICK c \in Range(M["used"]) : t \in SlabsOf(L, c)
          BY <3>1, <4>2
        <5>2. t \in SlabsOf(L2, c)
          BY <1>4, <3>2, <5>1
        <5> QED
          BY <5>2
      <4> QED
        BY <1>12, <4>1, <4>2
    <3>4. ASSUME NEW c \in Range(M["used"]), NEW t \in SlabsOf(L2, c)
          PROVE  t \in DOMAIN N2
      <4>1. t \in SlabsOf(L, c) \/ t = s
        BY <1>4, <3>2
      <4> QED
        BY <1>12, <3>1, <4>1
    <3> QED
      BY <3>3, <3>4
  <2>2. ASSUME NEW c \in Range(M["used"]), NEW t \in SlabsOf(L2, c)
        PROVE  N2[t] = caches'[c].size
    <3>1. caches'[c].size = caches[c].size
      BY <1>2, <1>5 DEF CachesSame
    <3>2. CASE c # cache
      <4>1. t \in SlabsOf(L, c)
        BY <1>2, <1>4, <3>2
      <4>2. N[t] = caches[c].size /\ t \in DOMAIN N
        BY <1>1, <4>1 DEF Sizes
      <4> QED
        BY <1>12, <3>1, <4>2
    <3>3. CASE c = cache /\ t # s
      <4>1. t \in SlabsOf(L, c)
        BY <1>4, <3>3
      <4>2. N[t] = caches[c].size /\ t \in DOMAIN N
        BY <1>1, <4>1 DEF Sizes
      <4> QED
        BY <1>12, <3>1, <4>2
    <3>4. CASE c = cache /\ t = s
      BY <1>7, <1>12, <3>1, <3>4
    <3> QED
      BY <3>2, <3>3, <3>4
  <2> QED
    BY <2>1, <2>2 DEF Sizes
<1>14. KnownSlabs(N2)'
  BY <1>4, <1>13, KnownThen
<1>15. /\ IsPlace(s, size) /\ InHeap(s)
       /\ \A t \in DOMAIN N : Clear(t, s)
  <2>1. \A t \in DOMAIN N2 : IsPlace(t, N2[t]) /\ InHeap(t)
    BY <1>14 DEF KnownSlabs
  <2>2. \A t, u \in DOMAIN N2 : t = u \/ Clear(t, u)
    BY <1>14 DEF KnownSlabs
  <2> QED
    BY <1>10, <1>12, <2>1, <2>2
<1>16. /\ \A b : b \in DOMAIN link' <=>
            \/ b \in DOMAIN link /\ (b <= s \/ s + SlabBytes < b)
            \/ b \in Objects(s, size)
       /\ \A b \in Objects(s, size) : link'[b] = b + size
       /\ \A b \in DOMAIN link' : b \notin Objects(s, size) => link'[b] = link[b]
  BY <1>3, FreshLinksAre
<1>17. DOMAIN link \subseteq Nat /\ s \in Nat /\ SlabBytes \in Nat
  BY <1>1, <1>15, HeapAssumption DEF ObjectsInv, InHeap, SlabBytes, SlabHeader
<1>18. \A b \in Objects(s, size) : b \in Nat /\ Encloses(s, b)
  <2> TAKE b \in Objects(s, size)
  <2>1. b \in Nat /\ s < b /\ b < s + SlabBytes
    BY <1>15, ObjectsAre
  <2> QED
    BY <1>17, <2>1 DEF Encloses
<1>19. \A t : ~ Emptied(t) /\ ~ Emptied(t)'
  BY <1>6 DEF Emptied
<1>20. \A b \in Objects(s, size) : [addr |-> b, len |-> size] \notin owned
  <2> SUFFICES ASSUME NEW o \in owned, o.addr \in Objects(s, size)
               PROVE  FALSE
    OBVIOUS
  <2>1. CASE IsLarge(o)
    BY <1>15, <2>1, LargeElsewhere
  <2>2. CASE \E t \in DOMAIN N : o.addr \in Objects(t, N[t])
    <3>1. PICK t \in DOMAIN N : o.addr \in Objects(t, N[t])
      BY <2>2
    <3>2. PICK n, a : n = N[t] /\ a = o.addr
      OBVIOUS
    <3>3. IsPlace(t, n) /\ Clear(t, s) /\ a \in Objects(t, n) /\ a \in Objects(s, size)
      BY <1>2, <1>15, <3>1, <3>2 DEF KnownSlabs
    <3>4. t \in Nat
      BY <3>3, ObjectsFit
    <3>5. \A m : IsPlace(t, m) => a \notin Objects(t, m)
      BY <1>15, <3>3, <3>4, Elsewhere
    <3> QED
      BY <3>3, <3>5
  <2> QED
    BY <1>1, <2>1, <2>2 DEF ObjectsInv, ClientsInv
<1>21. Sound(s, size, slabs'[s], link', owned')
  <2>1. PICK r : r = slabs'[s]
    OBVIOUS
  <2>2. \A b : b \in DOMAIN link' /\ Encloses(s, b) <=> b \in Objects(s, size)
    <3>1. \A b \in DOMAIN link : b <= s \/ s + SlabBytes < b => ~ Encloses(s, b)
      BY <1>17 DEF Encloses
    <3> QED
      BY <1>16, <1>18, <3>1
  <2>3. FreshIn(s, size, r, link', owned')
    BY <1>6, <1>8, <1>9, <1>16, <1>20, <2>1, <2>2 DEF FreshIn
  <2>4. Sound(s, size, r, link', owned')
    BY <1>15, <2>3, FreshSound
  <2> QED
    BY <2>1, <2>4
<1>22. ASSUME NEW t \in DOMAIN N
       PROVE  Sound(t, N[t], slabs'[t], link', owned')
  <2>1. PICK n, r, r2 : n = N[t] /\ r = slabs[t] /\ r2 = slabs'[t]
    OBVIOUS
  <2>2. IsPlace(t, n) /\ Sound(t, n, r, link, owned) /\ t \in DOMAIN slabs /\ Clear(t, s)
    BY <1>1, <1>2, <1>15, <1>19, <2>1 DEF KnownSlabs, ObjectsInv, SoundInv
  <2>3. t \in Nat /\ r2 = r
    <3>1. t \in Nat
      BY <2>2, ObjectsFit
    <3> QED
      BY <1>9, <1>10, <2>1, <2>2, <3>1
  <2>4. ASSUME NEW b, Encloses(t, b)
        PROVE  /\ b \notin Objects(s, size)
               /\ b \in DOMAIN link => b <= s \/ s + SlabBytes < b
    <3>1. b \notin Objects(s, size)
      BY <1>15, <2>2, <2>3, <2>4, Elsewhere
    <3>2. ASSUME b \in DOMAIN link
          PROVE  b <= s \/ s + SlabBytes < b
      <4>1. b \in Nat /\ t < b /\ t + SlabBytes >= b
        BY <1>17, <2>4, <3>2 DEF Encloses
      <4> QED
        BY <1>17, <2>2, <2>3, <4>1 DEF Clear
    <3> QED
      BY <3>1, <3>2
  <2>5. SameChain(t, n, r, link, owned, r, link', owned')
    <3>1. \A b : Encloses(t, b) => (b \in DOMAIN link' <=> b \in DOMAIN link)
      BY <1>16, <2>4
    <3>2. \A b \in DOMAIN link : Encloses(t, b) => link'[b] = link[b]
      BY <1>16, <2>4, <3>1
    <3> QED
      BY <1>6, <3>1, <3>2 DEF SameChain
  <2>6. Sound(t, n, r, link', owned')
    BY <2>2, <2>5, SoundKept
  <2> QED
    BY <2>1, <2>3, <2>6
<1>23. SoundInv(N2)'
  <2>1. \A t \in DOMAIN N2 : Sound(t, N2[t], slabs'[t], link', owned')
    BY <1>12, <1>21, <1>22
  <2> QED
    BY <2>1 DEF SoundInv
<1>24. ClientsInv(N2)'
  <2> SUFFICES ASSUME NEW x \in owned', ~ IsLarge(x)
               PROVE  \E t \in DOMAIN N2 : /\ ~ Emptied(t)' /\ x.addr \in Objects(t, N2[t])
                                           /\ x = [addr |-> x.addr, len |-> N2[t]]
    BY DEF ClientsInv
  <2>1. PICK t \in DOMAIN N : /\ x.addr \in Objects(t, N[t])
                              /\ x = [addr |-> x.addr, len |-> N[t]]
    BY <1>1, <1>6 DEF ObjectsInv, ClientsInv
  <2> QED
    BY <1>12, <1>19, <2>1
<1>25. EmptyInv(N2)'
  <2> SUFFICES ASSUME NEW t \in DOMAIN N2, slabs'[t].allocated = 0
               PROVE  pc' = "slab" /\ t = caches'[cache'].available
    BY DEF EmptyInv
  <2>1. caches'[cache'].available = s
    <3>1. caches'[cache] = [caches[cache] EXCEPT !.available = s]
      BY <1>6, <1>7
    <3>2. [caches[cache] EXCEPT !.available = s].available = s
      BY <1>7, <1>17, CacheFields
    <3> QED
      BY <1>6, <3>1, <3>2
  <2>2. CASE t \in DOMAIN N
    <3>1. t \in DOMAIN slabs /\ t # s /\ t # 0
      BY <1>2, <1>10, <2>2, ObjectsFit DEF KnownSlabs
    <3>2. slabs[t].allocated = 0
      BY <1>9, <3>1
    <3>3. t = caches[cache].available
      BY <1>1, <1>19, <2>2, <3>2 DEF ObjectsInv, EmptyInv
    <3> QED
      BY <1>6, <3>1, <3>3
  <2> QED
    BY <1>6, <1>12, <2>1, <2>2
<1>26. DOMAIN link' \subseteq Nat
  BY <1>16, <1>17, <1>18
<1>27. ObjectsInv(N2)'
  BY <1>23, <1>24, <1>25, <1>26 DEF ObjectsInv
<1>28. HeapInv(L2, M, N2)'
  BY <1>4, <1>13, <1>27 DEF HeapInv
<1> QED
  BY <1>28

\* What free writes when it gives the object at a back, with p as the free object before
\* it.
Links(s, a, p) ==
  /\ DOMAIN link' = DOMAIN link \cup {a}
  /\ slabs[s].allocated = slabs[s].max =>
       /\ slabs'[s].first_free = a /\ link'[a] = 0
       /\ \A b \in DOMAIN link : b # a => link'[b] = link[b]
  /\ slabs[s].allocated # slabs[s].max =>
       /\ slabs'[s].first_free = slabs[s].first_free
       /\ p \in DOMAIN link => link'[p] = a
       /\ p # a => link'[a] = Word(p)
       /\ \A b \in DOMAIN link : b # a /\ b # p => link'[b] = link[b]

\* Taken from the definition.
LEMMA GivenLinks ==
  ASSUME NEW s \in DOMAIN slabs, NEW a, IsSlab(slabs[s]), GiveBack(s, a)
  PROVE  Links(s, a, Stop(s, a))
<1>0. PICK p : p = Stop(s, a)
  OBVIOUS
<1>1. PICK r, v, e : r = slabs[s] /\ v = slabs[s].allocated - 1 /\ e = Word(p)
  OBVIOUS
<1>2. IsSlab(r) /\ v \in Int
  BY <1>1 DEF IsSlab
<1>3. CASE slabs[s].allocated = slabs[s].max
  <2>1. /\ slabs' = [slabs EXCEPT ![s].first_free = a, ![s].allocated = @ - 1]
        /\ link' = [x \in DOMAIN link \cup {a} |-> IF x = a THEN 0 ELSE link[x]]
    BY <1>3 DEF GiveBack
  <2>2. PICK mid : mid = [r EXCEPT !.first_free = a]
    OBVIOUS
  <2>3. IsSlab(mid) /\ mid.allocated = r.allocated /\ mid.first_free = a
    BY <1>2, <2>2, SlabFields
  <2>4. slabs'[s] = [mid EXCEPT !.allocated = v]
    BY <1>1, <2>1, <2>2, <2>3
  <2>5. [mid EXCEPT !.allocated = v].first_free = mid.first_free
    BY <1>2, <2>3, SlabFields
  <2>6. /\ DOMAIN link' = DOMAIN link \cup {a} /\ link'[a] = 0
        /\ \A b \in DOMAIN link : b # a => link'[b] = link[b]
    BY <2>1
  <2> QED
    BY <1>0, <1>3, <2>3, <2>4, <2>5, <2>6 DEF Links
<1>4. CASE slabs[s].allocated # slabs[s].max
  <2>1. /\ slabs' = [slabs EXCEPT ![s].allocated = @ - 1]
        /\ link' = [x \in DOMAIN link \cup {a} |->
                      IF x = p THEN a ELSE IF x = a THEN e ELSE link[x]]
    BY <1>0, <1>1, <1>4 DEF GiveBack
  <2>2. slabs'[s] = [r EXCEPT !.allocated = v]
    BY <1>1, <2>1
  <2>3. [r EXCEPT !.allocated = v].first_free = r.first_free
    BY <1>2, SlabFields
  <2>4. /\ DOMAIN link' = DOMAIN link \cup {a}
        /\ p \in DOMAIN link => link'[p] = a
        /\ p # a => link'[a] = e
        /\ \A b \in DOMAIN link : b # a /\ b # p => link'[b] = link[b]
    BY <2>1
  <2> QED
    BY <1>0, <1>1, <1>4, <2>2, <2>3, <2>4 DEF Links
<1> QED
  BY <1>3, <1>4

\* The object free gives back is one of the slab it finds, which has its chain.
LEMMA FreedObject ==
  ASSUME NEW L, NEW M, NEW N, HeapInv(L, M, N), pc = "idle", NEW o \in owned,
         NEW s \in DOMAIN N, Encloses(s, o.addr)
  PROVE  /\ o.addr \in Objects(s, N[s]) /\ o = [addr |-> o.addr, len |-> N[s]]
         /\ IsPlace(s, N[s]) /\ InHeap(s) /\ s \in DOMAIN slabs /\ IsSlab(slabs[s])
         /\ Sound(s, N[s], slabs[s], link, owned)
<1>1. ListedInv(L, M) /\ Sizes(L, M, N) /\ ObjectsInv(N)
  BY DEF HeapInv
<1>2. KnownSlabs(N)
  BY <1>1, SizesKnown
<1>3. IsPlace(s, N[s]) /\ InHeap(s) /\ s \in DOMAIN slabs /\ IsSlab(slabs[s])
  BY <1>2 DEF KnownSlabs
<1>4. Sound(s, N[s], slabs[s], link, owned)
  BY <1>1 DEF ObjectsInv, SoundInv, Emptied
<1>5. PICK a : a = o.addr
  OBVIOUS
<1>6. ~ IsLarge(o)
  BY <1>3, LargeElsewhere
<1>7. PICK t \in DOMAIN N : a \in Objects(t, N[t]) /\ o = [addr |-> a, len |-> N[t]]
  BY <1>1, <1>5, <1>6 DEF ObjectsInv, ClientsInv
<1>8. t = s
  <2> SUFFICES ASSUME t # s
               PROVE  FALSE
    OBVIOUS
  <2>1. PICK n : n = N[t]
    OBVIOUS
  <2>2. IsPlace(t, n) /\ Clear(s, t) /\ a \in Objects(t, n) /\ s \in Nat
    BY <1>2, <1>3, <1>7, <2>1 DEF KnownSlabs, InHeap
  <2>3. ~ Encloses(s, a)
    BY <2>2, Elsewhere
  <2> QED
    BY <1>5, <2>3
<1> QED
  BY <1>3, <1>4, <1>5, <1>7, <1>8

\* The slab after that, unless the object was its last one.
LEMMA GivenSound ==
  ASSUME NEW s \in DOMAIN slabs, NEW n, IsPlace(s, n), IsSlab(slabs[s]),
         Sound(s, n, slabs[s], link, owned),
         NEW a \in Objects(s, n), [addr |-> a, len |-> n] \in owned,
         GiveBack(s, a), owned' = owned \ {[addr |-> a, len |-> n]}
  PROVE  /\ slabs[s].allocated \in Nat \ {0}
         /\ DOMAIN link' = DOMAIN link \cup {a}
         /\ \A b \in DOMAIN link :
              b \notin Objects(s, n) /\ b # 0 => link'[b] = link[b]
         /\ \/ slabs[s].allocated # slabs[s].max /\ slabs[s].allocated # 1 /\ Stop(s, a) = 0
            \/ slabs[s].allocated = 1
            \/ Sound(s, n, slabs'[s], link', owned')
         /\ slabs[s].allocated = 1 =>
              \A b \in Objects(s, n) : [addr |-> b, len |-> n] \in owned => b = a
<1>1. PICK r, r2, p : r = slabs[s] /\ r2 = slabs'[s] /\ p = Stop(s, a)
  OBVIOUS
<1>2. PICK q : ChainOf(s, n, r, link, owned, q)
  BY <1>1 DEF Sound
<1>3. /\ r.allocated \in Nat /\ r.max \in Nat /\ Len(q) \in Nat
      /\ r.allocated = r.max - Len(q)
      /\ r.allocated = 0 => HeldOf(s, n, owned) = {}
      /\ r.allocated = 1 => \A b, c \in HeldOf(s, n, owned) : b = c
  BY <1>2, HeldCounted
<1>4. a \in HeldOf(s, n, owned)
  BY DEF HeldOf
<1>5. /\ r2.max = r.max /\ r2.allocated = r.allocated - 1
  BY <1>1, GiveBackIs
<1>6. /\ DOMAIN link' = DOMAIN link \cup {a}
      /\ r.allocated = r.max =>
           /\ r2.first_free = a /\ link'[a] = 0
           /\ \A b \in DOMAIN link : b # a => link'[b] = link[b]
      /\ r.allocated # r.max =>
           /\ r2.first_free = r.first_free
           /\ p \in DOMAIN link => link'[p] = a
           /\ p # a => link'[a] = Word(p)
           /\ \A b \in DOMAIN link : b # a /\ b # p => link'[b] = link[b]
  <2>1. Links(s, a, p)
    BY <1>1, GivenLinks
  <2> QED
    BY <1>1, <2>1 DEF Links
<1>7. r.allocated # r.max => p \in Range(q) \/ p = 0
  <2> HAVE r.allocated # r.max
  <2>1. Len(q) > 0
    BY <1>3
  <2>2. ChainOf(s, n, slabs[s], link, owned, q)
    BY <1>1, <1>2
  <2> QED
    BY <1>1, <2>1, <2>2, StopIs
<1>8. q \in Seq(Objects(s, n)) /\ a \notin Range(q)
  BY <1>2 DEF ChainOf
<1>9. \A x \in Range(q) : x \in Objects(s, n)
  BY <1>8, RangeIs
<1>10. \A b \in DOMAIN link : b \notin Objects(s, n) /\ b # 0 => link'[b] = link[b]
  BY <1>6, <1>7, <1>9
<1>11. CASE r.allocated = r.max
  <2>1. 0 \in 0 .. Len(q) /\ Len(q) = 0
    BY <1>3, <1>11
  <2>2. GivenChain(n, r, link, owned, q, 0, a, r2, link', owned')
    BY <1>5, <1>6, <1>11 DEF GivenChain
  <2>3. PICK j : j = 0
    OBVIOUS
  <2>4. GivenChain(n, r, link, owned, q, j, a, r2, link', owned') /\ j \in 0 .. Len(q)
    BY <2>1, <2>2, <2>3
  <2>5. Sound(s, n, r2, link', owned')
    BY <1>2, <2>1, <2>4, GiveSound
  <2> QED
    BY <1>1, <1>3, <1>4, <1>6, <1>10, <2>5 DEF HeldOf
<1>12. CASE r.allocated # r.max /\ p \in Range(q)
  <2>1. PICK j \in 1 .. Len(q) : p = q[j]
    BY <1>8, <1>12, RangeIs
  <2>2. p # 0 /\ p # a /\ p \in DOMAIN link
    <3>1. p # 0
      BY <1>9, <1>12, ObjectsAre
    <3>2. p \in DOMAIN link
      BY <1>2, <1>12 DEF ChainOf
    <3> QED
      BY <1>8, <1>12, <3>1, <3>2
  <2>3. Word(p) = link[p]
    BY <2>2 DEF Word
  <2>4. j \in 0 .. Len(q) /\ j > 0 /\ j # 0
    BY <1>3
  <2>5. GivenChain(n, r, link, owned, q, j, a, r2, link', owned')
    BY <1>5, <1>6, <1>12, <2>1, <2>2, <2>3, <2>4 DEF GivenChain
  <2>6. Sound(s, n, r2, link', owned')
    BY <1>2, <2>4, <2>5, GiveSound
  <2> QED
    BY <1>1, <1>3, <1>4, <1>6, <1>10, <2>6 DEF HeldOf
<1>13. CASE r.allocated # r.max /\ p = 0
  BY <1>1, <1>3, <1>4, <1>6, <1>10, <1>13 DEF HeldOf
<1> QED
  BY <1>7, <1>11, <1>12, <1>13

\* free of an object.
LEMMA HeapFree ==
  ASSUME NEW L, NEW M, NEW N, HeapInv(L, M, N), Supported, NEW o \in owned, Free(o)
  PROVE  HeapInv(L, M, N)'
<1>1. ListedInv(L, M) /\ Sizes(L, M, N) /\ ObjectsInv(N)
  BY DEF HeapInv
<1>2. KnownSlabs(N) /\ InUse = DOMAIN N
  <2>1. InUse = DOMAIN N
    BY <1>1, SizesAre
  <2> QED
    BY <1>1, <2>1, SizesKnown
<1>3. PICK s, a : s = slab' /\ a = o.addr
  OBVIOUS
<1>4. ListedInv(L, M)' /\ s \in DOMAIN N /\ Encloses(s, a)
  <2>1. /\ ListedInv(L, M)' /\ cache' \in Range(M["used"]) /\ slab' \in SlabsOf(L, cache')
        /\ Encloses(slab', o.addr)
    BY <1>1, ListedFree
  <2>2. slab' \in DOMAIN N
    BY <1>1, <2>1 DEF Sizes
  <2> QED
    BY <1>3, <2>1, <2>2
<1>5. /\ pc = "idle" /\ pc' \in {"count", "unfull"} /\ GiveBack(s, a)
      /\ owned' = owned \ {o} /\ caches' = caches /\ Handled(a)
  BY <1>3 DEF Free
<1>6. PICK n : n = N[s]
  OBVIOUS
<1>7. /\ a \in Objects(s, n) /\ o = [addr |-> a, len |-> n]
      /\ IsPlace(s, n) /\ InHeap(s) /\ s \in DOMAIN slabs /\ IsSlab(slabs[s])
      /\ Sound(s, n, slabs[s], link, owned)
  <2>1. Encloses(s, o.addr)
    BY <1>3, <1>4
  <2>2. /\ o.addr \in Objects(s, N[s]) /\ o = [addr |-> o.addr, len |-> N[s]]
        /\ IsPlace(s, N[s]) /\ InHeap(s) /\ s \in DOMAIN slabs /\ IsSlab(slabs[s])
        /\ Sound(s, N[s], slabs[s], link, owned)
    BY <1>4, <1>5, <2>1, FreedObject
  <2> QED
    BY <1>3, <1>6, <2>2
<1>8. /\ slabs[s].allocated \in Nat \ {0}
      /\ DOMAIN link' = DOMAIN link \cup {a}
      /\ \A b \in DOMAIN link : b \notin Objects(s, n) /\ b # 0 => link'[b] = link[b]
      /\ \/ slabs[s].allocated # slabs[s].max /\ slabs[s].allocated # 1 /\ Stop(s, a) = 0
         \/ slabs[s].allocated = 1
         \/ Sound(s, n, slabs'[s], link', owned')
      /\ slabs[s].allocated = 1 =>
           \A b \in Objects(s, n) : [addr |-> b, len |-> n] \in owned => b = a
  <2>1. owned' = owned \ {[addr |-> a, len |-> n]} /\ [addr |-> a, len |-> n] \in owned
    BY <1>5, <1>7
  <2> QED
    BY <1>5, <1>7, <2>1, GivenSound
<1>9. slabs[s].allocated = 1 \/ Sound(s, n, slabs'[s], link', owned')
  <2>1. s \in Found(a)
    BY <1>2, <1>4 DEF Found
  <2>2. slabs[s].allocated # slabs[s].max => slabs[s].allocated = 1 \/ Stop(s, a) # 0
    BY <1>5, <2>1 DEF Handled
  <2> QED
    BY <1>8, <2>2
<1>10. /\ slabs'[s].allocated = slabs[s].allocated - 1
       /\ \A t \in DOMAIN slabs : t # s => slabs'[t] = slabs[t]
  BY <1>5, <1>7, GiveBackIs
<1>11. \A t : ~ Emptied(t)
  BY <1>5 DEF Emptied
<1>12. \A t : Emptied(t)' <=> t = s /\ slabs[s].allocated = 1
  BY <1>3, <1>5, <1>8, <1>10 DEF Emptied
<1>13. ASSUME NEW t \in DOMAIN N, t # s
       PROVE  Sound(t, N[t], slabs'[t], link', owned')
  <2>1. PICK m, r, r2 : m = N[t] /\ r = slabs[t] /\ r2 = slabs'[t]
    OBVIOUS
  <2>2. /\ IsPlace(t, m) /\ Sound(t, m, r, link, owned) /\ t \in DOMAIN slabs /\ Clear(t, s)
        /\ InHeap(t)
    BY <1>1, <1>2, <1>4, <1>11, <1>13, <2>1 DEF KnownSlabs, ObjectsInv, SoundInv
  <2>3. t \in Nat /\ r2 = r /\ SlabBytes \in Nat
    BY <1>10, <1>13, <2>1, <2>2, HeapAssumption DEF InHeap, SlabBytes, SlabHeader
  <2>4. ASSUME NEW b, Encloses(t, b)
        PROVE  b \notin Objects(s, n)
    BY <1>7, <2>2, <2>3, <2>4, Elsewhere
  <2>5. a \notin Objects(t, m) /\ ~ Encloses(t, a)
    BY <1>7, <2>2, <2>3, Elsewhere
  <2>6. ~ Encloses(t, 0)
    BY <2>3 DEF Encloses
  <2>7. SameChain(t, m, r, link, owned, r, link', owned')
    <3>1. \A b : Encloses(t, b) => (b \in DOMAIN link' <=> b \in DOMAIN link)
      BY <1>8, <2>5
    <3>2. \A b \in DOMAIN link : Encloses(t, b) => link'[b] = link[b]
      BY <1>8, <2>4, <2>6
    <3>3. \A b \in Objects(t, m) : [addr |-> b, len |-> m] # o
      BY <1>7, <2>5
    <3>4. \A b \in Objects(t, m) :
            [addr |-> b, len |-> m] \in owned' <=> [addr |-> b, len |-> m] \in owned
      BY <1>5, <3>3
    <3> QED
      BY <3>1, <3>2, <3>4 DEF SameChain
  <2>8. Sound(t, m, r, link', owned')
    BY <2>2, <2>7, SoundKept
  <2> QED
    BY <2>1, <2>3, <2>8
<1>14. SoundInv(N)'
  <2> SUFFICES ASSUME NEW t \in DOMAIN N, ~ Emptied(t)'
               PROVE  Sound(t, N[t], slabs'[t], link', owned')
    BY DEF SoundInv
  <2> QED
    BY <1>6, <1>9, <1>12, <1>13
<1>15. ClientsInv(N)'
  <2> SUFFICES ASSUME NEW x \in owned', ~ IsLarge(x)
               PROVE  \E t \in DOMAIN N : /\ ~ Emptied(t)' /\ x.addr \in Objects(t, N[t])
                                          /\ x = [addr |-> x.addr, len |-> N[t]]
    BY DEF ClientsInv
  <2>1. x \in owned /\ x # o
    BY <1>5
  <2>2. PICK t \in DOMAIN N : /\ x.addr \in Objects(t, N[t])
                              /\ x = [addr |-> x.addr, len |-> N[t]]
    BY <1>1, <2>1 DEF ObjectsInv, ClientsInv
  <2>3. ~ Emptied(t)'
    <3> SUFFICES ASSUME t = s, slabs[s].allocated = 1
                 PROVE  FALSE
      BY <1>12
    <3>1. x.addr \in Objects(s, n) /\ [addr |-> x.addr, len |-> n] \in owned
      BY <1>6, <2>1, <2>2
    <3>2. x.addr = a
      BY <1>8, <3>1
    <3> QED
      BY <1>6, <1>7, <2>1, <2>2, <3>2
  <2> QED
    BY <2>2, <2>3
<1>16. EmptyInv(N)'
  <2> SUFFICES ASSUME NEW t \in DOMAIN N, slabs'[t].allocated = 0
               PROVE  Emptied(t)'
    BY DEF EmptyInv
  <2>1. CASE t = s
    BY <1>8, <1>10, <1>12, <2>1
  <2>2. CASE t # s
    <3>1. slabs[t].allocated = 0
      BY <1>2, <1>10, <2>2 DEF KnownSlabs
    <3> QED
      BY <1>1, <1>5, <1>11, <3>1 DEF ObjectsInv, EmptyInv
  <2> QED
    BY <2>1, <2>2
<1>17. DOMAIN link' \subseteq Nat
  <2>1. a \in Nat
    BY <1>7, ObjectsAre
  <2> QED
    BY <1>1, <1>8, <2>1 DEF ObjectsInv
<1>18. ObjectsInv(N)'
  BY <1>14, <1>15, <1>16, <1>17 DEF ObjectsInv
<1>19. Sizes(L, M, N)'
  BY <1>1, <1>5 DEF Sizes
<1> QED
  BY <1>4, <1>18, <1>19 DEF HeapInv

\* Every step keeps the objects.
LEMMA HeapNext ==
  ASSUME NEW L, NEW M, NEW N, HeapInv(L, M, N), Supported, [Next]_vars
  PROVE  \E L2, M2, N2 : HeapInv(L2, M2, N2)'
<1>1. CASE UNCHANGED vars
  BY <1>1, HeapStutter
<1>2. CASE \/ \E n \in Requests : Malloc(n)
           \/ FindCache \/ NoCache \/ NoSlab \/ KeepSlab \/ KeepCache
  BY <1>2, HeapQuiet
<1>3. ASSUME NEW n \in Requests, MallocLarge(n)
      PROVE  HeapInv(L, M, N)'
  BY <1>3, HeapMallocLarge
<1>4. ASSUME NEW o \in owned, FreeLarge(o)
      PROVE  HeapInv(L, M, N)'
  BY <1>4, HeapFreeLarge
<1>5. ASSUME NEW o \in owned, Free(o)
      PROVE  HeapInv(L, M, N)'
  BY <1>5, HeapFree
<1>6. CASE TakeObject
  BY <1>6, HeapTake
<1>7. CASE MakeCache
  BY <1>7, HeapMakeCache
<1>8. CASE MakeSlab
  BY <1>8, HeapMakeSlab
<1>9. CASE MoveToAvailable
  BY <1>9, HeapUnfull
<1>10. CASE RetireSlab
  BY <1>10, HeapRetireSlab
<1>11. CASE RetireCache
  BY <1>11, HeapRetireCache
<1> QED
  BY <1>1, <1>2, <1>3, <1>4, <1>5, <1>6, <1>7, <1>8, <1>9, <1>10, <1>11
  DEF Next, MallocSteps, FreeSteps, Client

-----------------------------------------------------------------------------
(* The theorems.                                                           *)

\* The lists are lists, and every slab in use has its chain.
Whole == \E L, M, N : HeapInv(L, M, N)

\* Whatever clients ask for and give back, every slab in use has a chain of its free
\* objects, and every other object is a client's.
THEOREM HeapWhole == Supported => (Spec => []Whole)
<1> SUFFICES ASSUME Supported
             PROVE  Spec => []Whole
  OBVIOUS
<1>1. Init => Whole
  BY HeapInit DEF Whole
<1>2. Whole /\ [Next]_vars => Whole'
  <2> SUFFICES ASSUME Whole, [Next]_vars
               PROVE  Whole'
    OBVIOUS
  <2>1. PICK L, M, N : HeapInv(L, M, N)
    BY DEF Whole
  <2>2. \E L2, M2, N2 : HeapInv(L2, M2, N2)'
    BY <2>1, HeapNext
  <2> QED
    BY <2>2 DEF Whole
<1> QED
  BY <1>1, <1>2, PTL DEF Spec

\* The ranges clients hold in a slab in use are objects of it.
LEMMA HeldIs ==
  ASSUME NEW L, NEW M, NEW N, HeapInv(L, M, N), NEW s \in DOMAIN N
  PROVE  /\ \A o \in Held(s) : o.addr \in HeldOf(s, N[s], owned)
                               /\ o = [addr |-> o.addr, len |-> N[s]]
         /\ \A a \in HeldOf(s, N[s], owned) :
              [addr |-> a, len |-> N[s]] \in Held(s)
<1>1. ListedInv(L, M) /\ Sizes(L, M, N) /\ ObjectsInv(N)
  BY DEF HeapInv
<1>2. KnownSlabs(N)
  BY <1>1, SizesKnown
<1>3. PICK n : n = N[s]
  OBVIOUS
<1>4. IsPlace(s, n) /\ InHeap(s)
  BY <1>2, <1>3 DEF KnownSlabs
<1>5. s \in Nat /\ SlabBytes \in Nat /\ SlabSize \in Nat
  BY <1>4, HeapAssumption DEF InHeap, SlabBytes, SlabHeader
<1>6. ASSUME NEW o \in Held(s)
      PROVE  o.addr \in HeldOf(s, n, owned) /\ o = [addr |-> o.addr, len |-> n]
  <2>1. o \in owned /\ s < o.addr /\ o.addr < s + SlabBytes
    BY DEF Held
  <2>2. ~ IsLarge(o)
    <3> SUFFICES ASSUME IsLarge(o)
                 PROVE  FALSE
      OBVIOUS
    <3>1. /\ o.addr > s + SlabBytes \/ o.addr + o.len <= s
          /\ o.addr \in Nat /\ o.len \in Nat /\ o.len > SlabSize
      BY <1>4, LargeElsewhere
    <3> QED
      BY <1>5, <2>1, <3>1
  <2>3. PICK t \in DOMAIN N : /\ o.addr \in Objects(t, N[t])
                              /\ o = [addr |-> o.addr, len |-> N[t]]
    BY <1>1, <2>1, <2>2 DEF ObjectsInv, ClientsInv
  <2>4. t = s
    <3> SUFFICES ASSUME t # s
                 PROVE  FALSE
      OBVIOUS
    <3>1. PICK m, a : m = N[t] /\ a = o.addr
      OBVIOUS
    <3>2. IsPlace(t, m) /\ Clear(s, t) /\ a \in Objects(t, m)
      BY <1>2, <2>3, <3>1 DEF KnownSlabs
    <3>3. ~ Encloses(s, a) /\ a \in Nat
      BY <1>5, <3>2, Elsewhere, ObjectsAre
    <3> QED
      BY <1>5, <2>1, <3>1, <3>3 DEF Encloses
  <2> QED
    BY <1>3, <2>1, <2>3, <2>4 DEF HeldOf
<1>7. ASSUME NEW a \in HeldOf(s, n, owned)
      PROVE  [addr |-> a, len |-> n] \in Held(s)
  <2>1. a \in Objects(s, n) /\ [addr |-> a, len |-> n] \in owned
    BY DEF HeldOf
  <2>2. s < a /\ a < s + SlabBytes
    BY <1>4, <2>1, ObjectsAre
  <2> QED
    BY <2>1, <2>2 DEF Held
<1> QED
  BY <1>3, <1>6, <1>7

\* They are as many as the slab's count says.
LEMMA HeldAddresses ==
  ASSUME NEW L, NEW M, NEW N, HeapInv(L, M, N), NEW s \in DOMAIN N, NEW n, n = N[s],
         IsFiniteSet(HeldOf(s, n, owned))
  PROVE  /\ {o.addr : o \in Held(s)} = HeldOf(s, n, owned)
         /\ Cardinality(Held(s)) = Cardinality(HeldOf(s, n, owned))
<1>1. PICK O, H : O = HeldOf(s, n, owned) /\ H = Held(s)
  OBVIOUS
<1>2. /\ \A o \in H : o.addr \in O /\ o = [addr |-> o.addr, len |-> n]
      /\ \A a \in O : [addr |-> a, len |-> n] \in H
  BY <1>1, HeldIs
<1>3. {o.addr : o \in H} = O
  <2>1. ASSUME NEW a \in O
        PROVE  a \in {o.addr : o \in H}
    <3>1. PICK o : o = [addr |-> a, len |-> n]
      OBVIOUS
    <3>2. o \in H /\ o.addr = a
      BY <1>2, <3>1
    <3> QED
      BY <3>2
  <2> QED
    BY <1>2, <2>1
<1>4. PICK f : f = [a \in O |-> [addr |-> a, len |-> n]]
  OBVIOUS
<1>5. f \in Bijection(O, H)
  <2>1. f \in [O -> H]
    BY <1>2, <1>4
  <2>2. ASSUME NEW a \in O, NEW b \in O, f[a] = f[b]
        PROVE  a = b
    <3>1. [addr |-> a, len |-> n] = [addr |-> b, len |-> n]
      BY <1>4, <2>2
    <3>2. [addr |-> a, len |-> n].addr = [addr |-> b, len |-> n].addr
      BY <3>1
    <3> QED
      BY <3>2
  <2>3. \A o \in H : \E a \in O : f[a] = o
    <3> TAKE o \in H
    <3>1. o.addr \in O /\ f[o.addr] = o
      BY <1>2, <1>4
    <3> QED
      BY <3>1
  <2> QED
    BY <2>1, <2>2, <2>3 DEF Bijection, Injection, Surjection, IsInjective
<1>6. Cardinality(H) = Cardinality(O)
  BY <1>1, <1>5, FS_Bijection DEF ExistsBijection
<1> QED
  BY <1>1, <1>3, <1>6

\* Between the calls every slab in use has its chain, and Chain finds it.
LEMMA WholeAccounted == Whole => ObjectsAccounted
<1> SUFFICES ASSUME Whole, Idle, NEW s \in InUse
             PROVE  LET chain == Chain(s)
                        held == {o.addr : o \in Held(s)}
                    IN  /\ Cardinality(Range(chain)) = Len(chain)
                        /\ Range(chain) \cap held = {}
                        /\ Range(chain) \cup held = Objects(s, SizeOf(s))
                        /\ slabs[s].allocated = Cardinality(Held(s))
                        /\ \A o \in Held(s) : o.len = SizeOf(s)
  BY DEF ObjectsAccounted
<1>1. PICK L, M, N : HeapInv(L, M, N)
  BY DEF Whole
<1>2. ListedInv(L, M) /\ Sizes(L, M, N) /\ ObjectsInv(N)
  BY <1>1 DEF HeapInv
<1>3. s \in DOMAIN N /\ SizeOf(s) = N[s]
  BY <1>2, SizesAre
<1>4. PICK n, r : n = N[s] /\ r = slabs[s]
  OBVIOUS
<1>5. IsPlace(s, n)
  BY <1>2, <1>3, <1>4, SizesKnown DEF KnownSlabs
<1>6. PICK q : ChainOf(s, n, r, link, owned, q)
  BY <1>2, <1>3, <1>4 DEF ObjectsInv, SoundInv, Emptied, Idle, Sound
<1>7. Chain(s) = q
  BY <1>4, <1>5, <1>6, ChainIs
<1>8. q \in Seq(Objects(s, n)) /\ Once(q)
  BY <1>6 DEF ChainOf
<1>9. Cardinality(Range(q)) = Len(q)
  BY <1>8, OnceCounted
<1>10. PICK held : held = HeldOf(s, n, owned)
  OBVIOUS
<1>11. IsFiniteSet(held) /\ Cardinality(held) = r.allocated
  BY <1>5, <1>6, <1>10, HeldCounted
<1>12. {o.addr : o \in Held(s)} = held /\ Cardinality(Held(s)) = Cardinality(held)
  BY <1>1, <1>3, <1>4, <1>10, <1>11, HeldAddresses
<1>13. Range(q) \cap held = {} /\ Range(q) \cup held = Objects(s, n)
  <2>1. \A a \in Objects(s, n) : a \notin Range(q) <=> a \in held
    BY <1>6, <1>10 DEF ChainOf, HeldOf
  <2>2. \A a \in Range(q) : a \in Objects(s, n)
    BY <1>8, RangeIs
  <2>3. \A a \in held : a \in Objects(s, n)
    BY <1>10 DEF HeldOf
  <2> QED
    BY <2>1, <2>2, <2>3
<1>14. \A o \in Held(s) : o.len = n
  <2> TAKE o \in Held(s)
  <2>1. o = [addr |-> o.addr, len |-> n]
    BY <1>1, <1>3, <1>4, HeldIs
  <2> QED
    BY <2>1
<1> QED
  BY <1>3, <1>4, <1>7, <1>9, <1>11, <1>12, <1>13, <1>14

\* ObjectsAccounted: no object is lost and none is double, whatever clients do.
THEOREM HeapObjectsAccounted == Supported => (Spec => []ObjectsAccounted)
BY HeapWhole, WholeAccounted, PTL

\* When clients hold nothing, no slab is in use.
LEMMA NothingInUse ==
  ASSUME NEW L, NEW M, NEW N, HeapInv(L, M, N), Idle, owned = {}
  PROVE  DOMAIN N = {}
<1> SUFFICES ASSUME NEW t \in DOMAIN N
             PROVE  FALSE
  OBVIOUS
<1>1. ListedInv(L, M) /\ Sizes(L, M, N) /\ ObjectsInv(N)
  BY DEF HeapInv
<1>2. PICK n, r : n = N[t] /\ r = slabs[t]
  OBVIOUS
<1>3. IsPlace(t, n)
  BY <1>1, <1>2, SizesKnown DEF KnownSlabs
<1>4. PICK q : ChainOf(t, n, r, link, owned, q)
  BY <1>1, <1>2 DEF ObjectsInv, SoundInv, Emptied, Idle, Sound
<1>5. Cardinality(HeldOf(t, n, owned)) = r.allocated
  BY <1>3, <1>4, HeldCounted
<1>6. HeldOf(t, n, owned) = {}
  BY DEF HeldOf
<1>7. slabs[t].allocated = 0
  BY <1>2, <1>5, <1>6, FS_EmptySet
<1> QED
  BY <1>1, <1>7 DEF ObjectsInv, EmptyInv, Emptied, Idle

\* Every slab is on the free list then.
LEMMA WholeReturned == Whole => AllReturned
<1> SUFFICES ASSUME Whole, Idle, owned = {}
             PROVE  /\ Range(Walk(slabs, free_space_for_slab)) = DOMAIN slabs
                    /\ \A c \in Range(CacheList) : EmptyCache(c)
  BY DEF AllReturned
<1>1. PICK L, M, N : HeapInv(L, M, N)
  BY DEF Whole
<1>2. ListedInv(L, M) /\ Sizes(L, M, N)
  BY <1>1 DEF HeapInv
<1>3. DOMAIN N = {}
  BY <1>1, NothingInUse
<1>4. Lists(slabs, SlabHead, L)
  BY <1>2 DEF ListedInv, ListsInv
<1>5. /\ CacheList = M["used"] /\ DOMAIN L = SlabKeys
      /\ Walk(slabs, free_space_for_slab) = L[FreeKey]
      /\ \A c \in DOMAIN caches :
           /\ c \in Nat /\ SlabHead[AvailKey(c)] = caches[c].available
           /\ SlabHead[FullKey(c)] = caches[c].full
      /\ Range(M["used"]) \subseteq DOMAIN caches
      /\ \A k \in SlabKeys : Range(L[k]) \subseteq DOMAIN slabs
  BY <1>2, ListsAre DEF CacheKeys
<1>6. \A c \in Range(M["used"]) : Range(L[AvailKey(c)]) = {} /\ Range(L[FullKey(c)]) = {}
  BY <1>2, <1>3 DEF Sizes, SlabsOf
<1>7. \A k \in DOMAIN L : /\ Len(L[k]) \in Nat
                          /\ \A i \in 1 .. Len(L[k]) : L[k][i] \in Range(L[k])
                          /\ Len(L[k]) = 0 <=> SlabHead[k] = 0
  BY <1>4, ListFacts
<1>8. \A k \in DOMAIN L : Range(L[k]) = {} => SlabHead[k] = 0
  <2> SUFFICES ASSUME NEW k \in DOMAIN L, Range(L[k]) = {}
               PROVE  SlabHead[k] = 0
    OBVIOUS
  <2>1. Len(L[k]) \in Nat /\ ~ (1 \in 1 .. Len(L[k]))
    BY <1>7
  <2> QED
    BY <1>7, <2>1
<1>9. \A c \in Range(CacheList) : EmptyCache(c)
  <2> TAKE c \in Range(CacheList)
  <2>1. c \in DOMAIN caches /\ c \in Nat /\ c \in Range(M["used"])
    BY <1>5
  <2>2. AvailKey(c) \in DOMAIN L /\ FullKey(c) \in DOMAIN L
    BY <1>5, <2>1, KeyFacts
  <2>3. SlabHead[AvailKey(c)] = 0 /\ SlabHead[FullKey(c)] = 0
    BY <1>6, <1>8, <2>1, <2>2
  <2> QED
    BY <1>5, <2>1, <2>3 DEF EmptyCache
<1>10. ASSUME NEW t \in DOMAIN slabs
       PROVE  t \in Range(L[FreeKey])
  <2>1. PICK k \in DOMAIN L : \E i \in 1 .. Len(L[k]) : L[k][i] = t
    BY <1>4 DEF Lists
  <2>2. t \in Range(L[k]) /\ k \in SlabKeys
    BY <1>5, <1>7, <2>1
  <2>3. k \in {"available", "full"} \X Range(CacheList) \cup {<<"free", 0>>}
    BY <1>2, <2>2, SlabsPlaced
  <2>4. ASSUME NEW c \in Range(CacheList), k = <<"available", c>> \/ k = <<"full", c>>
        PROVE  FALSE
    BY <1>5, <1>6, <2>2, <2>4 DEF AvailKey, FullKey
  <2>5. k = FreeKey
    BY <2>3, <2>4 DEF FreeKey
  <2> QED
    BY <2>2, <2>5
<1>11. FreeKey \in SlabKeys
  BY KeyFacts
<1> QED
  BY <1>5, <1>9, <1>10, <1>11

\* AllReturned: once everything is given back, in whatever order, every slab can serve
\* any size again.
THEOREM HeapAllReturned == Supported => (Spec => []AllReturned)
BY HeapWhole, WholeReturned, PTL

\* The slabs that could serve the request are full when malloc refuses it.
LEMMA RefusedStep ==
  ASSUME Whole, [Next]_vars, Refuses
  PROVE  Exhausted
<1>1. PICK L, M, N : HeapInv(L, M, N)
  BY DEF Whole
<1>2. ListedInv(L, M) /\ Sizes(L, M, N)
  BY <1>1 DEF HeapInv
<1>3. /\ Range(CacheList) = Range(M["used"]) /\ InUse = DOMAIN N
      /\ \A t \in DOMAIN N : CacheOf(t) \in Range(M["used"]) /\ t \in SlabsOf(L, CacheOf(t))
  BY <1>2, SizesAre
<1>4. ~ TakeObject
  <2> SUFFICES ASSUME TakeObject
               PROVE  FALSE
    OBVIOUS
  <2>1. PICK s : s = Taken
    OBVIOUS
  <2>2. PICK o : o = slabs[s].first_free
    OBVIOUS
  <2>3. pc = "slab" /\ s # 0 /\ Return(o)
    BY <2>1, <2>2 DEF TakeObject, Taken
  <2>4. o # 0 /\ [addr |-> o, len |-> size] \notin owned
    BY <1>1, <2>1, <2>2, <2>3, TakenFree
  <2>5. owned' = owned \cup {[addr |-> o, len |-> size]}
    BY <2>3, <2>4 DEF Return
  <2> QED
    BY <2>4, <2>5 DEF Refuses
<1>5. NoCache \/ NoSlab
  <2>1. pc \in {"cache", "slab"} /\ pc' = "idle"
    BY DEF Refuses
  <2>2. Next
    BY <2>1 DEF vars
  <2>3. ~ FindCache /\ ~ MakeCache /\ ~ MakeSlab
    BY <2>1 DEF FindCache, MakeCache, MakeSlab, locals
  <2>4. ~ FreeSteps
    BY <2>1 DEF FreeSteps, MoveToAvailable, KeepSlab, RetireSlab, KeepCache, RetireCache
  <2>5. ~ Client
    BY <2>1 DEF Client, Malloc, MallocLarge, Free, FreeLarge
  <2> QED
    BY <1>4, <2>2, <2>3, <2>4, <2>5 DEF Next, MallocSteps
<1>6. /\ free_space \in Nat /\ HeapEnd \in Nat /\ SlabBytes \in Nat
      /\ SlabBytes >= CacheBytes /\ CacheBytes \in Nat
  BY <1>2, HeapAssumption
  DEF ListedInv, SpaceInv, HeapEnd, SlabBytes, SlabHeader, CacheBytes, WordBytes
<1>7. CASE NoCache
  <2>1. Serving = {} /\ free_space_for_cache = 0 /\ ~ (free_space + CacheBytes <= HeapEnd)
    BY <1>7 DEF NoCache, CanMakeCache
  <2>2. \A s \in InUse : SizeOf(s) # size
    <3> SUFFICES ASSUME NEW s \in InUse, SizeOf(s) = size
                 PROVE  FALSE
      OBVIOUS
    <3>1. CacheOf(s) \in Serving
      BY <1>3 DEF Serving, SizeOf
    <3> QED
      BY <2>1, <3>1
  <2>3. free_space + SlabBytes > HeapEnd
    BY <1>6, <2>1
  <2> QED
    BY <2>1, <2>2, <2>3 DEF Exhausted
<1>8. CASE NoSlab
  <2>1. /\ pc = "slab" /\ caches[cache].available = 0 /\ free_space_for_slab = 0
        /\ ~ (free_space + SlabBytes <= HeapEnd)
    BY <1>8 DEF NoSlab, CanMakeSlab
  <2>2. /\ cache \in Range(M["used"]) /\ cache \in Nat /\ caches[cache].size = size
        /\ Len(L[AvailKey(cache)]) = 0
    BY <1>2, <2>1, TakenFacts DEF Taken
  <2>3. \A s : s \notin Range(L[AvailKey(cache)])
    <3>1. Lists(slabs, SlabHead, L) /\ AvailKey(cache) \in DOMAIN L
      BY <1>2, <2>2, ListsAre, KeyFacts DEF ListedInv, ListsInv
    <3>2. PICK l : l = L[AvailKey(cache)]
      OBVIOUS
    <3>3. \A s \in Range(l) : \E i \in 1 .. Len(l) : l[i] = s
      BY <3>1, <3>2, ListFacts
    <3>4. Len(l) = 0
      BY <2>2, <3>2
    <3> QED
      BY <3>2, <3>3, <3>4
  <2>4. ASSUME NEW s \in InUse, SizeOf(s) = size
        PROVE  slabs[s].allocated = slabs[s].max
    <3>1. CacheOf(s) = cache
      BY <1>2, <1>3, <2>2, <2>4 DEF SizeOf, ListedInv, CachesInv
    <3>2. s \in Range(L[FullKey(cache)])
      BY <1>3, <2>3, <3>1 DEF SlabsOf
    <3> QED
      BY <1>2, <2>1, <2>2, <3>2 DEF ListedInv, FullInv
  <2>5. free_space + SlabBytes > HeapEnd
    BY <1>6, <2>1
  <2> QED
    BY <2>1, <2>4, <2>5 DEF Exhausted
<1> QED
  BY <1>5, <1>7, <1>8

\* RefusedWhenExhausted: malloc refuses only when the slabs of the size are full and
\* the space for what it needs is used up.
THEOREM HeapRefusedWhenExhausted == Supported => (Spec => RefusedWhenExhausted)
<1> SUFFICES ASSUME Supported
             PROVE  Spec => RefusedWhenExhausted
  OBVIOUS
<1>1. Whole /\ [Next]_vars => [Refuses => Exhausted]_vars
  BY RefusedStep
<1>2. Spec => []Whole
  BY HeapWhole
<1> QED
  BY <1>1, <1>2, PTL DEF Spec, RefusedWhenExhausted

\* What the invariant says of the locals of a call, in the operators of the model.
LEMMA WholeFollowed == Whole => NullNotFollowed
<1> SUFFICES ASSUME Whole
             PROVE  NullNotFollowed
  OBVIOUS
<1>1. PICK L, M, N : HeapInv(L, M, N)
  BY DEF Whole
<1>2. ListedInv(L, M) /\ CallInv(L, M)
  BY <1>1 DEF HeapInv, ListedInv
<1>3. /\ CacheList = M["used"] /\ Range(M["used"]) \subseteq DOMAIN caches
      /\ \A c \in DOMAIN caches : /\ Available(c) = L[AvailKey(c)] /\ Full(c) = L[FullKey(c)]
  BY <1>2, ListsAre DEF CacheKeys
<1>4. ASSUME pc = "cache", ~ CanMakeCache
      PROVE  first_cache # 0
  <2>1. Listed
    BY <1>2 DEF Listed
  <2> QED
    BY <1>4, <2>1, ListedFits
<1>5. pc \in {"slab", "unfull", "count", "empty"} => cache \in Range(CacheList)
  BY <1>2, <1>3 DEF CallInv
<1>6. ASSUME pc = "slab"
      PROVE  /\ cache \in Serving
             /\ Taken # 0 => slabs[Taken].first_free \in DOMAIN link
  <2>1. cache \in Serving
    BY <1>2, <1>5, <1>6 DEF CallInv, Serving
  <2>2. ASSUME Taken # 0
        PROVE  slabs[Taken].first_free \in DOMAIN link
    <3>1. PICK s, o : s = Taken /\ o = slabs[s].first_free
      OBVIOUS
    <3>2. o \in DOMAIN link
      BY <1>1, <1>6, <2>2, <3>1, TakenFree
    <3> QED
      BY <3>1, <3>2
  <2> QED
    BY <2>1, <2>2
<1>7. pc = "unfull" => slab \in Range(Full(cache))
  BY <1>2, <1>3, <1>5 DEF CallInv
<1>8. pc = "count" => slab \in Range(Available(cache))
  BY <1>2, <1>3, <1>5 DEF CallInv
<1> QED
  BY <1>4, <1>5, <1>6, <1>7, <1>8 DEF NullNotFollowed

\* NullNotFollowed: neither malloc nor free follows a null pointer, whatever was asked for
\* and given back.
THEOREM HeapNullNotFollowed == Supported => (Spec => []NullNotFollowed)
BY HeapWhole, WholeFollowed, PTL

\* Disjoint ranges with bytes in them are apart, as the promise has it.
LEMMA ApartIs ==
  ASSUME NEW r, NEW x, r.addr \in Nat, r.len \in Nat \ {0}, x.addr \in Nat,
         x.len \in Nat \ {0}, x.addr + x.len <= r.addr \/ r.addr + r.len <= x.addr
  PROVE  Promise!Apart(r, x)
BY DEF Promise!Apart

\* The object malloc takes is apart from what clients hold.
LEMMA TakenApart ==
  ASSUME NEW L, NEW M, NEW N, HeapInv(L, M, N), pc = "slab", NEW s, s = Taken, s # 0,
         NEW o, o = slabs[s].first_free, NEW x \in owned
  PROVE  /\ x.addr \in Nat /\ x.len \in Nat \ {0}
         /\ x.addr + x.len <= o \/ o + size <= x.addr
<1>1. ListedInv(L, M) /\ Sizes(L, M, N) /\ ObjectsInv(N)
  BY DEF HeapInv
<1>2. KnownSlabs(N)
  BY <1>1, SizesKnown
<1>3. /\ s \in DOMAIN N /\ N[s] = size /\ IsPlace(s, size) /\ o \in Objects(s, size)
      /\ [addr |-> o, len |-> size] \notin owned
  BY TakenFree
<1>4. InHeap(s) /\ SlabBytes \in Nat /\ SlabSize \in Nat /\ size \in Nat \ {0} /\ s \in Nat
  BY <1>2, <1>3, HeapAssumption, ObjectsFit DEF KnownSlabs, SlabBytes, SlabHeader
<1>5. o \in Nat /\ s < o /\ o + size <= s + SlabBytes
  BY <1>3, ObjectsAre
<1>6. CASE IsLarge(x)
  <2>1. /\ x.addr > s + SlabBytes \/ x.addr + x.len <= s
        /\ x.addr \in Nat /\ x.len \in Nat /\ x.len > SlabSize
    BY <1>4, <1>6, LargeElsewhere
  <2> QED
    BY <1>4, <1>5, <2>1
<1>7. CASE ~ IsLarge(x)
  <2>1. PICK t \in DOMAIN N : /\ x.addr \in Objects(t, N[t])
                              /\ x = [addr |-> x.addr, len |-> N[t]]
    BY <1>1, <1>7 DEF ObjectsInv, ClientsInv
  <2>2. PICK m, a : m = N[t] /\ a = x.addr
    OBVIOUS
  <2>3. /\ x = [addr |-> a, len |-> m] /\ x.len = m /\ a \in Objects(t, m)
        /\ IsPlace(t, m)
    BY <1>2, <2>1, <2>2 DEF KnownSlabs
  <2>4. t \in Nat /\ m \in Nat \ {0}
    BY <2>3, ObjectsFit
  <2>5. a \in Nat /\ t < a /\ a + m <= t + SlabBytes
    BY <2>3, ObjectsAre
  <2>6. CASE t = s
    <3>1. m = size /\ a # o
      BY <1>3, <2>2, <2>3, <2>6
    <3>2. a + size <= o \/ o + size <= a
      BY <1>3, <2>3, <2>6, <3>1, ObjectsAre
    <3> QED
      BY <2>2, <2>3, <2>4, <2>5, <3>1, <3>2
  <2>7. CASE t # s
    <3>1. Clear(t, s)
      BY <1>2, <1>3, <2>7 DEF KnownSlabs
    <3>2. a + m <= o \/ o + size <= a
      BY <1>4, <1>5, <2>4, <2>5, <3>1 DEF Clear
    <3> QED
      BY <2>2, <2>3, <2>4, <2>5, <3>2
  <2> QED
    BY <2>6, <2>7
<1> QED
  BY <1>6, <1>7

\* What clients hold are ranges of bytes.
LEMMA OwnedRanges ==
  ASSUME NEW L, NEW M, NEW N, HeapInv(L, M, N), NEW x \in owned
  PROVE  x.addr \in Nat /\ x.len \in Nat \ {0}
<1>1. ListedInv(L, M) /\ Sizes(L, M, N) /\ ObjectsInv(N)
  BY DEF HeapInv
<1>2. CASE IsLarge(x)
  <2>1. PICK a \in LargeAddrs, n \in Requests : n > SlabSize /\ x = [addr |-> a, len |-> n]
    BY <1>2 DEF IsLarge
  <2>2. a \in Nat /\ n \in Nat /\ SlabSize \in Nat
    BY HeapAssumption, LargeAssumption
  <2> QED
    BY <2>1, <2>2
<1>3. CASE ~ IsLarge(x)
  <2>1. PICK t \in DOMAIN N : /\ x.addr \in Objects(t, N[t])
                              /\ x = [addr |-> x.addr, len |-> N[t]]
    BY <1>1, <1>3 DEF ObjectsInv, ClientsInv
  <2>2. IsPlace(t, N[t])
    BY <1>1, SizesKnown DEF KnownSlabs
  <2>3. N[t] \in Nat \ {0} /\ x.addr \in Nat
    BY <2>1, <2>2, ObjectsFit, ObjectsAre
  <2>4. x.len = N[t]
    BY <2>1
  <2> QED
    BY <2>3, <2>4
<1> QED
  BY <1>2, <1>3

\* The heap, and its own header.
Arenas ==
  {[addr |-> Base, len |-> HeapSize]} \cup
  {[addr |-> a, len |-> n] : a \in LargeAddrs, n \in Requests}

Header == [addr |-> Base, len |-> HeapHeader]

\* What a step that hands out the range at a owes.
LEMMA GrantIs ==
  ASSUME NEW a \in Nat, NEW n \in Nat \ {0},
         owned' = owned \cup {[addr |-> a, len |-> n]},
         \A x \in owned : /\ x.addr \in Nat /\ x.len \in Nat \ {0}
                          /\ x.addr + x.len <= a \/ a + n <= x.addr,
         Base + HeapHeader <= a \/ a + n <= Base,
         \E y \in Arenas : Promise!Within([addr |-> a, len |-> n], y)
  PROVE  Promise!Grant
<1>1. PICK r : r = [addr |-> a, len |-> n]
  OBVIOUS
<1>2. r.addr = a /\ r.len = n /\ r \in owned' /\ owned' = owned \cup {r}
  BY <1>1
<1>3. \A x \in owned : Promise!Apart(r, x)
  BY <1>2, ApartIs
<1>4. Promise!Apart(r, Header)
  <2>1. /\ Header.addr \in Nat /\ Header.len \in Nat \ {0}
        /\ Header.addr = Base /\ Header.len = HeapHeader
    BY HeapAssumption DEF Header, HeapHeader
  <2> QED
    BY <1>2, <2>1, ApartIs
<1>5. \E y \in Arenas : Promise!Within(r, y)
  BY <1>1
<1> QED
  BY <1>2, <1>3, <1>4, <1>5 DEF Promise!Grant, Arenas, Header

\* malloc keeps the promise with an object.
LEMMA TakePromised ==
  ASSUME Whole, TakeObject
  PROVE  Promise!Grant
<1>1. PICK L, M, N : HeapInv(L, M, N)
  BY DEF Whole
<1>2. PICK s : s = Taken
  OBVIOUS
<1>3. PICK o : o = slabs[s].first_free
  OBVIOUS
<1>4. pc = "slab" /\ s # 0 /\ Return(o)
  BY <1>2, <1>3 DEF TakeObject, Taken
<1>5. /\ s \in DOMAIN N /\ N[s] = size /\ IsPlace(s, size) /\ o \in Objects(s, size)
      /\ o # 0
  BY <1>1, <1>2, <1>3, <1>4, TakenFree
<1>6. owned' = owned \cup {[addr |-> o, len |-> size]}
  BY <1>4, <1>5 DEF Return
<1>7. InHeap(s)
  BY <1>1, <1>5, SizesKnown DEF HeapInv, KnownSlabs
<1>8. /\ o \in Nat /\ s < o /\ o + size <= s + SlabBytes /\ size \in Nat \ {0}
      /\ s \in Nat /\ SlabBytes \in Nat /\ Base \in Nat /\ HeapSize \in Nat
  BY <1>5, HeapAssumption, ObjectsFit, ObjectsAre DEF SlabBytes, SlabHeader
<1>9. Base + HeapHeader <= o /\ Base <= o /\ o + size <= Base + HeapSize
  BY <1>7, <1>8 DEF InHeap, HeapHeader, HeapEnd
<1>10. \E y \in Arenas : Promise!Within([addr |-> o, len |-> size], y)
  <2>1. PICK y : y = [addr |-> Base, len |-> HeapSize]
    OBVIOUS
  <2>2. y \in Arenas /\ y.addr = Base /\ y.len = HeapSize
    BY <2>1 DEF Arenas
  <2>3. Promise!Within([addr |-> o, len |-> size], y)
    BY <1>9, <2>2 DEF Promise!Within
  <2> QED
    BY <2>2, <2>3
<1>11. \A x \in owned : /\ x.addr \in Nat /\ x.len \in Nat \ {0}
                        /\ x.addr + x.len <= o \/ o + size <= x.addr
  BY <1>1, <1>2, <1>3, <1>4, TakenApart
<1> QED
  BY <1>6, <1>8, <1>9, <1>10, <1>11, GrantIs

\* And with a large range.
LEMMA LargePromised ==
  ASSUME Whole, NEW n \in Requests, MallocLarge(n)
  PROVE  Promise!Grant
<1>1. PICK L, M, N : HeapInv(L, M, N)
  BY DEF Whole
<1>2. PICK a \in LargeAddrs :
        /\ \A x \in owned : x.addr + x.len <= a \/ a + n <= x.addr
        /\ owned' = owned \cup {[addr |-> a, len |-> n]}
  BY DEF MallocLarge
<1>3. n \in Nat \ {0} /\ n > SlabSize
  BY HeapAssumption DEF MallocLarge
<1>4. a \in Nat /\ (Base + HeapHeader <= a \/ a + n <= Base)
  <2>1. a \in Nat /\ (a > HeapEnd \/ a + n <= Base)
    BY LargeAssumption
  <2>2. Base + HeapHeader <= HeapEnd /\ Base + HeapHeader \in Nat /\ HeapEnd \in Nat
    BY HeapAssumption DEF HeapEnd, HeapHeader, CacheBytes
  <2> QED
    BY <2>1, <2>2
<1>5. \A x \in owned : /\ x.addr \in Nat /\ x.len \in Nat \ {0}
                       /\ x.addr + x.len <= a \/ a + n <= x.addr
  BY <1>1, <1>2, OwnedRanges
<1>6. \E y \in Arenas : Promise!Within([addr |-> a, len |-> n], y)
  <2>1. PICK y : y = [addr |-> a, len |-> n]
    OBVIOUS
  <2>2. y \in Arenas
    BY <2>1 DEF Arenas
  <2>3. Promise!Within(y, y)
    BY <1>3, <1>4, <2>1 DEF Promise!Within
  <2> QED
    BY <2>1, <2>2, <2>3
<1> QED
  BY <1>2, <1>3, <1>4, <1>5, <1>6, GrantIs

\* Every step of the heap is one of the promise, or none.
LEMMA PromiseStep ==
  ASSUME Whole, [Next]_vars
  PROVE  [Promise!Next]_(Promise!promiseVars)
<1>1. CASE TakeObject
  BY <1>1, TakePromised DEF Promise!Next
<1>2. ASSUME NEW n \in Requests, MallocLarge(n)
      PROVE  Promise!Next
  BY <1>2, LargePromised DEF Promise!Next
<1>3. ASSUME NEW o \in owned, Free(o) \/ FreeLarge(o)
      PROVE  Promise!Next
  BY <1>3 DEF Free, FreeLarge, Promise!Next, Promise!Release
<1>4. CASE owned' = owned
  BY <1>4 DEF Promise!promiseVars
<1>5. \/ TakeObject \/ \E n \in Requests : MallocLarge(n)
      \/ \E o \in owned : Free(o) \/ FreeLarge(o)
      \/ owned' = owned
  BY DEF Next, MallocSteps, FreeSteps, Client, vars, Malloc, FindCache, MakeCache, NoCache,
         MakeSlab, NoSlab, MoveToAvailable, KeepSlab, RetireSlab, KeepCache, RetireCache
<1> QED
  BY <1>1, <1>2, <1>3, <1>4, <1>5

\* PromiseKept: malloc hands out ranges inside the heap or blocks of the physical
\* memory manager, clear of each other and of the heap's header.
THEOREM HeapPromiseKept == Supported => (Spec => PromiseKept)
<1> SUFFICES ASSUME Supported
             PROVE  Spec => PromiseKept
  OBVIOUS
<1>1. Init => Promise!Init
  BY DEF Init, Promise!Init
<1>2. Whole /\ [Next]_vars => [Promise!Next]_(Promise!promiseVars)
  BY PromiseStep
<1>3. Spec => []Whole
  BY HeapWhole
<1> QED
  BY <1>1, <1>2, <1>3, PTL DEF Spec, PromiseKept, Promise!Spec
=============================================================================
