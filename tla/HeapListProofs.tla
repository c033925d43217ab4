--------------------------- MODULE HeapListProofs ---------------------------
(***************************************************************************)
(* Proofs about the lists of Heap, for clients that free only what free()     *)
(* handles: whatever is made, moved and retired, the lists of slabs and caches *)
(* stay lists, and every header is on one of them.                             *)
(***************************************************************************)
EXTENDS Heap, NaturalsFacts, SequenceTheorems, FunctionTheorems, FiniteSetTheorems

-----------------------------------------------------------------------------
(* Lists in memory.                                                        *)

\* q is the list of nodes that starts at address a.
ListAt(node, a, q) ==
  /\ q \in Seq(DOMAIN node)
  /\ Len(q) = 0 => a = 0
  /\ Len(q) > 0 => a = q[1]
  /\ \A i \in 1 .. Len(q) - 1 : node[q[i]].next = q[i + 1]
  /\ Len(q) > 0 => node[q[Len(q)]].next = 0

\* A list at every node.
WellEnded(node) ==
  /\ 0 \notin DOMAIN node
  /\ \A x \in DOMAIN node : \E q : ListAt(node, x, q)

\* The list without its first node starts where that one points to.
LEMMA ListTail ==
  ASSUME NEW node, NEW a, NEW q, ListAt(node, a, q), Len(q) > 0
  PROVE  /\ ListAt(node, node[a].next, Tail(q))
         /\ Len(Tail(q)) = Len(q) - 1
         /\ q = <<a>> \o Tail(q)
<1>1. q \in Seq(DOMAIN node) /\ a = q[1] /\ Len(q) \in Nat \ {0}
  BY EmptySeq, LenProperties DEF ListAt
<1>2. q # << >>
  BY <1>1
<1>3. PICK t : t = Tail(q)
  OBVIOUS
<1>4. /\ t \in Seq(DOMAIN node)
      /\ Len(t) = Len(q) - 1
      /\ \A i \in 1 .. Len(q) - 1 : t[i] = q[i + 1]
  BY <1>1, <1>2, <1>3, HeadTailProperties
<1>5. ListAt(node, node[a].next, t)
  <2>1. \A i \in 1 .. Len(q) - 1 : node[q[i]].next = q[i + 1]
    BY DEF ListAt
  <2>2. node[q[Len(q)]].next = 0
    BY DEF ListAt
  <2>3. ASSUME Len(t) = 0
        PROVE  node[a].next = 0
    <3>1. Len(q) = 1
      BY <1>1, <1>4, <2>3
    <3>2. node[q[1]].next = 0
      BY <2>2, <3>1
    <3> QED
      BY <1>1, <3>2
  <2>4. Len(t) > 0 => node[a].next = t[1]
    BY <1>1, <1>4, <2>1
  <2>5. \A i \in 1 .. Len(t) - 1 : node[t[i]].next = t[i + 1]
    BY <1>1, <1>4, <2>1
  <2>6. ASSUME Len(t) > 0
        PROVE  node[t[Len(t)]].next = 0
    <3>1. Len(q) - 1 \in 1 .. Len(q) - 1 /\ Len(q) - 1 + 1 = Len(q)
      BY <1>1, <1>4, <2>6
    <3>2. t[Len(q) - 1] = q[Len(q)]
      BY <1>4, <3>1
    <3> QED
      BY <1>4, <2>2, <3>2
  <2> QED
    BY <1>4, <2>3, <2>4, <2>5, <2>6 DEF ListAt
<1>6. q = <<a>> \o t
  <2>1. a \in DOMAIN node
    BY <1>1, ElementOfSeq
  <2>2. <<a>> \in Seq(DOMAIN node) /\ Len(<<a>>) = 1 /\ <<a>>[1] = a
    BY <2>1
  <2>3. /\ <<a>> \o t \in Seq(DOMAIN node)
        /\ Len(<<a>> \o t) = Len(q)
        /\ \A i \in 1 .. Len(q) :
             (<<a>> \o t)[i] = IF i <= 1 THEN <<a>>[i] ELSE t[i - 1]
    BY <1>1, <1>4, <2>2, ConcatProperties
  <2>4. \A i \in 1 .. Len(q) : q[i] = (<<a>> \o t)[i]
    BY <1>1, <1>4, <2>2, <2>3
  <2> QED
    BY <1>1, <2>3, <2>4, SeqEqual
<1> QED
  BY <1>3, <1>4, <1>5, <1>6

\* Two lists at the same address are as far equal as the first one goes.
LEMMA ListPrefix ==
  ASSUME NEW node, 0 \notin DOMAIN node, NEW a, NEW q, NEW r,
         ListAt(node, a, q), ListAt(node, a, r)
  PROVE  Len(q) <= Len(r) /\ \A i \in 1 .. Len(q) : q[i] = r[i]
<1>1. /\ q \in Seq(DOMAIN node) /\ r \in Seq(DOMAIN node)
      /\ Len(q) \in Nat /\ Len(r) \in Nat
      /\ \A i \in 1 .. Len(q) : q[i] \in DOMAIN node
      /\ \A i \in 1 .. Len(r) : r[i] \in DOMAIN node
  BY LenProperties, ElementOfSeq DEF ListAt
<1>2. /\ Len(q) > 0 => a = q[1]
      /\ Len(r) = 0 => a = 0
      /\ Len(r) > 0 => a = r[1]
      /\ \A i \in 1 .. Len(q) - 1 : node[q[i]].next = q[i + 1]
      /\ \A i \in 1 .. Len(r) - 1 : node[r[i]].next = r[i + 1]
      /\ Len(r) > 0 => node[r[Len(r)]].next = 0
  BY DEF ListAt
<1> DEFINE S == {n \in Nat : n \in 1 .. Len(q) => n <= Len(r) /\ q[n] = r[n]}
<1>3. 0 \in S
  OBVIOUS
<1>4. ASSUME NEW n \in S
      PROVE  n + 1 \in S
  <2> SUFFICES ASSUME n + 1 <= Len(q)
               PROVE  n + 1 <= Len(r) /\ q[n + 1] = r[n + 1]
    OBVIOUS
  <2>1. CASE n = 0
    <3>1. Len(r) > 0
      BY <1>1, <1>2, <2>1
    <3> QED
      BY <1>1, <1>2, <2>1, <3>1
  <2>2. CASE n # 0
    <3>1. n \in 1 .. Len(q) - 1 /\ n <= Len(r) /\ q[n] = r[n]
      BY <1>1, <2>2
    <3>2. node[r[n]].next = q[n + 1] /\ q[n + 1] # 0
      BY <1>1, <1>2, <3>1
    <3>3. n # Len(r)
      BY <1>1, <1>2, <3>1, <3>2
    <3>4. n \in 1 .. Len(r) - 1
      BY <1>1, <3>1, <3>3
    <3> QED
      BY <1>1, <1>2, <3>2, <3>4
  <2> QED
    BY <2>1, <2>2
<1>5. S = Nat
  <2> HIDE DEF S
  <2>1. S \in SUBSET Nat
    BY DEF S
  <2> QED
    BY <1>3, <1>4, <2>1, SetInduction
<1>6. \A i \in 1 .. Len(q) : i \in Nat /\ i <= Len(r) /\ q[i] = r[i]
  BY <1>1, <1>5
<1>7. Len(q) <= Len(r)
  <2>1. CASE Len(q) = 0
    BY <1>1, <2>1
  <2>2. CASE Len(q) # 0
    BY <1>1, <1>6, <2>2
  <2> QED
    BY <2>1, <2>2
<1> QED
  BY <1>6, <1>7

\* There is one list at an address.
LEMMA ListUnique ==
  ASSUME NEW node, 0 \notin DOMAIN node, NEW a, NEW q, NEW r,
         ListAt(node, a, q), ListAt(node, a, r)
  PROVE  q = r
<1>1. Len(q) <= Len(r) /\ \A i \in 1 .. Len(q) : q[i] = r[i]
  BY ListPrefix
<1>2. Len(r) <= Len(q)
  BY ListPrefix
<1>3. q \in Seq(DOMAIN node) /\ r \in Seq(DOMAIN node) /\ Len(q) \in Nat /\ Len(r) \in Nat
  BY LenProperties DEF ListAt
<1>4. Len(q) = Len(r)
  BY <1>1, <1>2, <1>3
<1> QED
  BY <1>1, <1>3, <1>4, SeqEqual

\* The equation of the recursive function in Walk.
Walks(node, f) ==
  f = [x \in DOMAIN node \cup {0} |->
         IF x = 0 THEN << >> ELSE <<x>> \o f[node[x].next]]

\* The empty list is the one at address 0.
LEMMA EmptyList ==
  ASSUME NEW node, 0 \notin DOMAIN node
  PROVE  /\ ListAt(node, 0, << >>)
         /\ \A q : ListAt(node, 0, q) => q = << >>
<1>1. ListAt(node, 0, << >>)
  BY EmptySeq DEF ListAt
<1> QED
  BY <1>1, ListUnique

\* Where there is a list at every node, the function is there.
LEMMA WalksExists ==
  ASSUME NEW node, WellEnded(node)
  PROVE  \E f : Walks(node, f)
<1> DEFINE list(x) == CHOOSE q : ListAt(node, x, q)
           f == [x \in DOMAIN node \cup {0} |-> list(x)]
<1>1. ASSUME NEW x \in DOMAIN node \cup {0}
      PROVE  ListAt(node, x, list(x))
  BY EmptyList DEF WellEnded
<1>2. list(0) = << >>
  BY <1>1, EmptyList DEF WellEnded
<1>3. ASSUME NEW x \in DOMAIN node
      PROVE  list(x) = <<x>> \o f[node[x].next]
  <2> DEFINE q == list(x)
  <2>1. ListAt(node, x, q) /\ x # 0
    BY <1>1 DEF WellEnded
  <2> HIDE DEF q
  <2>2. q \in Seq(DOMAIN node) /\ Len(q) \in Nat /\ Len(q) # 0
    BY <2>1, LenProperties DEF ListAt
  <2>3. PICK t : /\ ListAt(node, node[x].next, t)
                 /\ q = <<x>> \o t
    <3>1. /\ ListAt(node, node[x].next, Tail(q))
          /\ q = <<x>> \o Tail(q)
      BY <2>1, <2>2, ListTail
    <3> QED
      BY <3>1, Zenon
  <2>4. node[x].next \in DOMAIN node \cup {0}
    <3>1. t \in Seq(DOMAIN node) /\ Len(t) \in Nat
      BY <2>3, LenProperties DEF ListAt
    <3>2. CASE Len(t) = 0
      BY <2>3, <3>2 DEF ListAt
    <3>3. CASE Len(t) > 0
      <4>1. node[x].next = t[1]
        BY <2>3, <3>3 DEF ListAt
      <4> QED
        BY <3>1, <3>3, <4>1, ElementOfSeq
    <3>4. Len(t) = 0 \/ Len(t) > 0
      BY <3>1
    <3> QED
      BY <3>2, <3>3, <3>4
  <2>5. list(node[x].next) = t
    <3> HIDE DEF list
    <3>1. ListAt(node, node[x].next, list(node[x].next))
      BY <1>1, <2>4
    <3> QED
      BY <2>3, <3>1, ListUnique DEF WellEnded
  <2>6. f[node[x].next] = t
    BY <2>4, <2>5
  <2>7. q = <<x>> \o f[node[x].next]
    BY <2>3, <2>6
  <2> QED
    BY <2>7 DEF q
<1>4. ASSUME NEW x \in DOMAIN node \cup {0}
      PROVE  f[x] = IF x = 0 THEN << >> ELSE <<x>> \o f[node[x].next]
  BY <1>2, <1>3
<1>5. f = [x \in DOMAIN node \cup {0} |-> f[x]]
  OBVIOUS
<1>6. Walks(node, f)
  <2> HIDE DEF f
  <2> QED
    BY <1>4, <1>5 DEF Walks
<1> QED
  BY <1>6

\* What it maps an address to is the list there.
LEMMA WalksIs ==
  ASSUME NEW node, 0 \notin DOMAIN node, NEW f, Walks(node, f),
         NEW a, NEW q, ListAt(node, a, q)
  PROVE  f[a] = q
<1> DEFINE S == {n \in Nat : \A b, r : ListAt(node, b, r) /\ Len(r) = n => f[b] = r}
<1>1. \A x \in DOMAIN node \cup {0} : f[x] = IF x = 0 THEN << >> ELSE <<x>> \o f[node[x].next]
  BY DEF Walks
<1>2. 0 \in S
  <2>1. ASSUME NEW b, NEW r, ListAt(node, b, r), Len(r) = 0
        PROVE  f[b] = r
    <3>1. b = 0
      BY <2>1 DEF ListAt
    <3>2. r = << >>
      BY <2>1, <3>1, EmptyList
    <3>3. f[0] = << >>
      BY <1>1
    <3> QED
      BY <3>1, <3>2, <3>3
  <2> QED
    BY <2>1
<1>3. ASSUME NEW n \in S
      PROVE  n + 1 \in S
  <2>1. ASSUME NEW b, NEW r, ListAt(node, b, r), Len(r) = n + 1
        PROVE  f[b] = r
    <3>1. /\ ListAt(node, node[b].next, Tail(r))
          /\ Len(Tail(r)) = n
          /\ r = <<b>> \o Tail(r)
      BY <2>1, ListTail
    <3>2. f[node[b].next] = Tail(r)
      BY <3>1
    <3>3. b \in DOMAIN node
      <4>1. b = r[1] /\ r \in Seq(DOMAIN node)
        BY <2>1 DEF ListAt
      <4> QED
        BY <2>1, <4>1, ElementOfSeq
    <3>4. f[b] = <<b>> \o f[node[b].next]
      BY <1>1, <3>3
    <3> QED
      BY <3>1, <3>2, <3>4
  <2> QED
    BY <2>1
<1>4. S = Nat
  <2> HIDE DEF S
  <2>1. S \in SUBSET Nat
    BY DEF S
  <2> QED
    BY <1>2, <1>3, <2>1, SetInduction
<1>5. Len(q) \in Nat
  BY LenProperties DEF ListAt
<1> QED
  BY <1>4, <1>5

\* Walk computes the list at an address.
LEMMA WalkIs ==
  ASSUME NEW node, WellEnded(node), NEW a, NEW q, ListAt(node, a, q)
  PROVE  Walk(node, a) = q
<1> DEFINE from == CHOOSE f : f = [x \in DOMAIN node \cup {0} |->
                                     IF x = 0 THEN << >> ELSE <<x>> \o f[node[x].next]]
<1>1. Walks(node, from)
  <2>1. \E f : f = [x \in DOMAIN node \cup {0} |->
                      IF x = 0 THEN << >> ELSE <<x>> \o f[node[x].next]]
    BY WalksExists DEF Walks
  <2> QED
    BY <2>1 DEF Walks
<1>2. Walk(node, a) = from[a]
  BY DEF Walk
<1> HIDE DEF from
<1> QED
  BY <1>1, <1>2, WalksIs DEF WellEnded

-----------------------------------------------------------------------------
(* Families of lists.                                                      *)

\* Every node is on one of the lists, at one place; L[k] is the one that starts
\* at head[k].
Lists(node, head, L) ==
  /\ 0 \notin DOMAIN node
  /\ DOMAIN head = DOMAIN L
  /\ \A k \in DOMAIN L : ListAt(node, head[k], L[k])
  /\ \A x \in DOMAIN node : \E k \in DOMAIN L : \E i \in 1 .. Len(L[k]) : L[k][i] = x
  /\ \A k, l \in DOMAIN L : \A i \in 1 .. Len(L[k]), j \in 1 .. Len(L[l]) :
       L[k][i] = L[l][j] => k = l /\ i = j

\* What is behind a node of a list is a list.
LEMMA ListSuffix ==
  ASSUME NEW node, NEW a, NEW q, ListAt(node, a, q), NEW i \in 1 .. Len(q)
  PROVE  \E r : ListAt(node, q[i], r)
<1>1. q \in Seq(DOMAIN node) /\ Len(q) \in Nat /\ \A j \in 1 .. Len(q) : q[j] \in DOMAIN node
  BY LenProperties, ElementOfSeq DEF ListAt
<1>2. /\ \A j \in 1 .. Len(q) - 1 : node[q[j]].next = q[j + 1]
      /\ node[q[Len(q)]].next = 0
  BY <1>1 DEF ListAt
<1>3. PICK r : r = SubSeq(q, i, Len(q))
  OBVIOUS
<1>4. /\ r \in Seq(DOMAIN node)
      /\ Len(r) = Len(q) - i + 1
      /\ \A j \in 1 .. Len(q) - i + 1 : r[j] = q[i + j - 1]
  BY <1>1, <1>3, SubSeqProperties
<1>5. r[1] = q[i]
  <2>1. 1 \in 1 .. Len(q) - i + 1 /\ i + 1 - 1 = i
    BY <1>1
  <2> QED
    BY <1>4, <2>1
<1>6. ASSUME NEW j \in 1 .. Len(r) - 1
      PROVE  node[r[j]].next = r[j + 1]
  <2>1. /\ i + j - 1 \in 1 .. Len(q) - 1 /\ i + j - 1 + 1 = i + (j + 1) - 1
        /\ j \in 1 .. Len(q) - i + 1 /\ j + 1 \in 1 .. Len(q) - i + 1
    BY <1>1, <1>4
  <2> QED
    BY <1>2, <1>4, <2>1
<1>7. node[r[Len(r)]].next = 0
  <2>1. Len(r) \in 1 .. Len(q) - i + 1 /\ i + Len(r) - 1 = Len(q)
    BY <1>1, <1>4
  <2> QED
    BY <1>2, <1>4, <2>1
<1>8. Len(r) # 0
  BY <1>1, <1>4
<1>9. ListAt(node, q[i], r)
  BY <1>4, <1>5, <1>6, <1>7, <1>8 DEF ListAt
<1> QED
  BY <1>9

\* There is a list at every node.
LEMMA ListsWellEnded ==
  ASSUME NEW node, NEW head, NEW L, Lists(node, head, L)
  PROVE  WellEnded(node)
<1>1. ASSUME NEW x \in DOMAIN node
      PROVE  \E q : ListAt(node, x, q)
  <2>1. PICK k \in DOMAIN L : \E i \in 1 .. Len(L[k]) : L[k][i] = x
    BY DEF Lists
  <2>2. PICK i \in 1 .. Len(L[k]) : L[k][i] = x
    BY <2>1
  <2>3. ListAt(node, head[k], L[k])
    BY DEF Lists
  <2> QED
    BY <2>2, <2>3, ListSuffix
<1> QED
  BY <1>1 DEF WellEnded, Lists

\* Walk computes each of the lists.
LEMMA ListsWalk ==
  ASSUME NEW node, NEW head, NEW L, Lists(node, head, L), NEW k \in DOMAIN L
  PROVE  Walk(node, head[k]) = L[k]
<1>1. ListAt(node, head[k], L[k])
  BY DEF Lists
<1> QED
  BY <1>1, ListsWellEnded, WalkIs

\* What is known of one of the lists.
LEMMA ListFacts ==
  ASSUME NEW node, NEW head, NEW L, Lists(node, head, L), NEW k \in DOMAIN L
  PROVE  /\ L[k] \in Seq(DOMAIN node)
         /\ Len(L[k]) \in Nat
         /\ DOMAIN L[k] = 1 .. Len(L[k])
         /\ \A i \in 1 .. Len(L[k]) : L[k][i] \in DOMAIN node /\ L[k][i] # 0
         /\ \A i \in 1 .. Len(L[k]) : L[k][i] \in Range(L[k])
         /\ \A x \in Range(L[k]) : \E i \in 1 .. Len(L[k]) : L[k][i] = x
         /\ Len(L[k]) = 0 <=> head[k] = 0
         /\ Len(L[k]) > 0 => head[k] = L[k][1]
         /\ \A i \in 1 .. Len(L[k]) - 1 : node[L[k][i]].next = L[k][i + 1]
         /\ Len(L[k]) > 0 => node[L[k][Len(L[k])]].next = 0
<1>1. ListAt(node, head[k], L[k]) /\ 0 \notin DOMAIN node
  BY DEF Lists
<1>2. L[k] \in Seq(DOMAIN node)
  BY <1>1 DEF ListAt
<1>3. Len(L[k]) \in Nat /\ DOMAIN L[k] = 1 .. Len(L[k])
  BY <1>2, LenProperties
<1>4. \A i \in 1 .. Len(L[k]) : L[k][i] \in DOMAIN node /\ L[k][i] # 0
  BY <1>1, <1>2, ElementOfSeq
<1>5. /\ \A i \in 1 .. Len(L[k]) : L[k][i] \in Range(L[k])
      /\ \A x \in Range(L[k]) : \E i \in 1 .. Len(L[k]) : L[k][i] = x
  BY <1>3 DEF Range
<1>6. /\ Len(L[k]) = 0 => head[k] = 0
      /\ Len(L[k]) > 0 => head[k] = L[k][1]
      /\ \A i \in 1 .. Len(L[k]) - 1 : node[L[k][i]].next = L[k][i + 1]
      /\ Len(L[k]) > 0 => node[L[k][Len(L[k])]].next = 0
  BY <1>1 DEF ListAt
<1>7. ASSUME Len(L[k]) # 0
      PROVE  head[k] # 0
  <2>1. Len(L[k]) > 0 /\ 1 \in 1 .. Len(L[k])
    BY <1>3, <1>7
  <2> QED
    BY <1>4, <1>6, <2>1
<1> QED
  BY <1>2, <1>3, <1>4, <1>5, <1>6, <1>7

\* Only the next pointers matter.
LEMMA ListsFrame ==
  ASSUME NEW node, NEW head, NEW L, Lists(node, head, L),
         NEW node2, DOMAIN node2 = DOMAIN node,
         \A y \in DOMAIN node : node2[y].next = node[y].next
  PROVE  Lists(node2, head, L)
<1>1. ASSUME NEW k \in DOMAIN L
      PROVE  ListAt(node2, head[k], L[k])
  <2>1. ListAt(node, head[k], L[k])
    BY DEF Lists
  <2>2. /\ Len(L[k]) \in Nat
        /\ \A i \in 1 .. Len(L[k]) : L[k][i] \in DOMAIN node
    BY ListFacts
  <2>3. \A i \in 1 .. Len(L[k]) : node2[L[k][i]].next = node[L[k][i]].next
    BY <2>2
  <2> QED
    BY <2>1, <2>2, <2>3 DEF ListAt
<1> QED
  BY <1>1 DEF Lists

\* A sequence without its i-th element.
Without(q, i) == [j \in 1 .. Len(q) - 1 |-> IF j < i THEN q[j] ELSE q[j + 1]]

\* What a list without its i-th element is.
LEMMA WithoutIs ==
  ASSUME NEW S, NEW q \in Seq(S), NEW i \in 1 .. Len(q)
  PROVE  /\ Without(q, i) \in Seq(S)
         /\ Len(Without(q, i)) = Len(q) - 1
         /\ \A j \in 1 .. Len(q) - 1 : Without(q, i)[j] = IF j < i THEN q[j] ELSE q[j + 1]
<1>1. Len(q) \in Nat \ {0} /\ \A j \in 1 .. Len(q) : q[j] \in S
  BY LenProperties, ElementOfSeq
<1>2. Len(q) - 1 \in Nat
  BY <1>1
<1>3. PICK n \in Nat : n = Len(q) - 1
  BY <1>2
<1>4. \A j \in 1 .. n : (IF j < i THEN q[j] ELSE q[j + 1]) \in S
  BY <1>1, <1>3
<1>5. [j \in 1 .. n |-> IF j < i THEN q[j] ELSE q[j + 1]] \in Seq(S)
  BY <1>4, IsASeq
<1>6. Without(q, i) \in Seq(S) /\ DOMAIN Without(q, i) = 1 .. n
  BY <1>3, <1>5 DEF Without
<1>7. Len(Without(q, i)) = n
  <2>1. Len(Without(q, i)) \in Nat /\ DOMAIN Without(q, i) = 1 .. Len(Without(q, i))
    BY <1>6, LenProperties
  <2> QED
    BY <1>6, <2>1
<1> QED
  BY <1>3, <1>6, <1>7 DEF Without

\* A node is at one place of one list.
LEMMA OnePlace ==
  ASSUME NEW node, NEW head, NEW L, Lists(node, head, L),
         NEW k \in DOMAIN L, NEW l \in DOMAIN L,
         NEW i \in 1 .. Len(L[k]), NEW j \in 1 .. Len(L[l]), L[k][i] = L[l][j]
  PROVE  k = l /\ i = j
BY DEF Lists

\* The list from which its i-th node was taken.
LEMMA DetachList ==
  ASSUME NEW node, NEW start, NEW q, ListAt(node, start, q),
         \A j, m \in 1 .. Len(q) : q[j] = q[m] => j = m,
         NEW i \in 1 .. Len(q), NEW x, x = q[i],
         NEW node2, DOMAIN node2 = DOMAIN node,
         i > 1 => node2[q[i - 1]].next = node[x].next,
         \A y \in DOMAIN node :
           y # x /\ (i > 1 => y # q[i - 1]) => node2[y].next = node[y].next,
         NEW a, i = 1 => a = node[x].next, i # 1 => a = start
  PROVE  ListAt(node2, a, Without(q, i))
<1>1. /\ q \in Seq(DOMAIN node) /\ Len(q) \in Nat /\ Len(q) > 0
      /\ \A j \in 1 .. Len(q) : q[j] \in DOMAIN node
      /\ start = q[1]
      /\ \A j \in 1 .. Len(q) - 1 : node[q[j]].next = q[j + 1]
      /\ node[q[Len(q)]].next = 0
  <2>1. q \in Seq(DOMAIN node)
    BY DEF ListAt
  <2>2. Len(q) \in Nat /\ \A j \in 1 .. Len(q) : q[j] \in DOMAIN node
    BY <2>1, LenProperties, ElementOfSeq
  <2>3. Len(q) > 0
    BY <2>2
  <2> QED
    BY <2>1, <2>2, <2>3 DEF ListAt
<1>2. PICK r : r = Without(q, i)
  OBVIOUS
<1>3. /\ r \in Seq(DOMAIN node2) /\ Len(r) = Len(q) - 1
      /\ \A j \in 1 .. Len(q) - 1 : r[j] = IF j < i THEN q[j] ELSE q[j + 1]
  <2>1. /\ Without(q, i) \in Seq(DOMAIN node) /\ Len(Without(q, i)) = Len(q) - 1
        /\ \A j \in 1 .. Len(q) - 1 : Without(q, i)[j] = IF j < i THEN q[j] ELSE q[j + 1]
    BY <1>1, WithoutIs
  <2> QED
    BY <1>2, <2>1
<1>4. \A j \in 1 .. Len(q), m \in 1 .. Len(q) : q[j] = q[m] => j = m
  OBVIOUS
<1>5. ASSUME NEW j \in 1 .. Len(q), j # i, i > 1 => j # i - 1
      PROVE  node2[q[j]].next = node[q[j]].next
  <2>1. q[j] # x
    BY <1>4, <1>5
  <2>2. ASSUME i > 1
        PROVE  q[j] # q[i - 1]
    <3>1. i - 1 \in 1 .. Len(q)
      BY <1>1, <2>2
    <3> QED
      BY <1>4, <1>5, <2>2, <3>1
  <2> QED
    BY <1>1, <2>1, <2>2
<1>6. Len(r) = 0 => a = 0
  <2> SUFFICES ASSUME Len(r) = 0
               PROVE  a = 0
    OBVIOUS
  <2>3. Len(r) = Len(q) - 1 /\ Len(q) \in Nat
    BY <1>1, <1>3
  <2>4. \A n, m \in Nat : n = m - 1 /\ n = 0 => m = 1
    OBVIOUS
  <2>5. Len(r) \in Nat
    BY <2>3
  <2>6. Len(q) = 1
    BY <2>3, <2>4, <2>5
  <2>7. i \in 1 .. 1
    BY <2>6
  <2>1. Len(q) = 1 /\ i = 1
    BY <2>6, <2>7
  <2>2. node[q[1]].next = 0
    BY <1>1, <2>1
  <2> QED
    BY <2>1, <2>2
<1>7. Len(r) > 0 => a = r[1]
  <2> SUFFICES ASSUME Len(r) > 0
               PROVE  a = r[1]
    OBVIOUS
  <2>1. 1 \in 1 .. Len(q) - 1
    BY <1>1, <1>3
  <2>2. CASE i = 1
    BY <1>1, <1>3, <2>1, <2>2
  <2>3. CASE i # 1
    BY <1>1, <1>3, <2>1, <2>3
  <2> QED
    BY <2>2, <2>3
<1>8. ASSUME NEW j \in 1 .. Len(r) - 1
      PROVE  node2[r[j]].next = r[j + 1]
  <2>1. /\ j \in 1 .. Len(q) - 1 /\ j + 1 \in 1 .. Len(q) - 1
        /\ j \in 1 .. Len(q) /\ j + 1 \in 1 .. Len(q) /\ j + 1 + 1 \in 1 .. Len(q)
    BY <1>1, <1>3
  <2>2. CASE j + 1 < i
    <3>1. r[j] = q[j] /\ r[j + 1] = q[j + 1]
      BY <1>3, <2>1, <2>2
    <3>2. node2[q[j]].next = node[q[j]].next
      BY <1>5, <2>1, <2>2
    <3> QED
      BY <1>1, <2>1, <3>1, <3>2
  <2>3. CASE j + 1 = i
    <3>1. r[j] = q[j] /\ r[j + 1] = q[j + 1 + 1] /\ i > 1 /\ i - 1 = j
      BY <1>3, <2>1, <2>3
    <3>2. node[q[j + 1]].next = q[j + 1 + 1]
      BY <1>1, <2>1
    <3> QED
      BY <2>3, <3>1, <3>2
  <2>4. CASE j + 1 > i
    <3>1. r[j] = q[j + 1] /\ r[j + 1] = q[j + 1 + 1]
      BY <1>3, <2>1, <2>4
    <3>2. node2[q[j + 1]].next = node[q[j + 1]].next
      BY <1>5, <2>1, <2>4
    <3> QED
      BY <1>1, <2>1, <3>1, <3>2
  <2> QED
    BY <2>1, <2>2, <2>3, <2>4
<1>9. Len(r) > 0 => node2[r[Len(r)]].next = 0
  <2> SUFFICES ASSUME Len(r) > 0
               PROVE  node2[r[Len(r)]].next = 0
    OBVIOUS
  <2>1. PICK n \in 1 .. Len(q) - 1 : n = Len(r) /\ n = Len(q) - 1 /\ n + 1 = Len(q)
    BY <1>1, <1>3
  <2>2. CASE i = Len(q)
    <3>1. r[n] = q[n] /\ i > 1 /\ i - 1 = n
      BY <1>3, <2>1, <2>2
    <3>2. node2[q[n]].next = node[q[i]].next
      BY <3>1
    <3> QED
      BY <1>1, <2>1, <2>2, <3>1, <3>2
  <2>3. CASE i # Len(q)
    <3>1. r[n] = q[n + 1]
      BY <1>3, <2>1, <2>3
    <3>2. node2[q[n + 1]].next = node[q[n + 1]].next
      BY <1>5, <2>1, <2>3
    <3> QED
      BY <1>1, <2>1, <3>1, <3>2
  <2> QED
    BY <2>2, <2>3
<1> QED
  BY <1>2, <1>3, <1>6, <1>7, <1>8, <1>9 DEF ListAt

\* A list of one node.
Single(q, x) == q \in Seq({x}) /\ Len(q) = 1 /\ q[1] = x

\* The i-th node, x, is taken out of list k; the list for h, which is empty, holds it.
Detached(node, head, L, h, k, i, x, node2, head2, L2) ==
  /\ h \in DOMAIN L /\ Len(L[h]) = 0 /\ k \in DOMAIN L /\ k # h
  /\ i \in 1 .. Len(L[k]) /\ x = L[k][i]
  /\ DOMAIN node2 = DOMAIN node
  /\ node2[x].next = 0
  /\ i > 1 => node2[L[k][i - 1]].next = node[x].next
  /\ \A y \in DOMAIN node :
       y # x /\ (i > 1 => y # L[k][i - 1]) => node2[y].next = node[y].next
  /\ DOMAIN head2 = DOMAIN L /\ head2[h] = x
  /\ head2[k] = IF i = 1 THEN node[x].next ELSE head[k]
  /\ \A l \in DOMAIN L \ {h, k} : head2[l] = head[l]
  /\ DOMAIN L2 = DOMAIN L /\ Single(L2[h], x) /\ L2[k] = Without(L[k], i)
  /\ \A l \in DOMAIN L \ {h, k} : L2[l] = L[l]

\* A node can be taken out of a list and put on the list for h.
LEMMA Detach ==
  ASSUME NEW node, NEW head, NEW L, Lists(node, head, L),
         NEW h, NEW k, NEW i, NEW x, NEW node2, NEW head2, NEW L2,
         Detached(node, head, L, h, k, i, x, node2, head2, L2)
  PROVE  Lists(node2, head2, L2)
<1> USE DEF Detached
<1>1. /\ L[k] \in Seq(DOMAIN node) /\ Len(L[k]) \in Nat
      /\ \A j \in 1 .. Len(L[k]) : L[k][j] \in DOMAIN node
  BY ListFacts
<1>2. x \in DOMAIN node /\ 0 \notin DOMAIN node
  BY <1>1 DEF Lists
<1>3. /\ Len(L2[k]) = Len(L[k]) - 1
      /\ \A j \in 1 .. Len(L[k]) - 1 : L2[k][j] = IF j < i THEN L[k][j] ELSE L[k][j + 1]
  <2>1. /\ Len(Without(L[k], i)) = Len(L[k]) - 1
        /\ \A j \in 1 .. Len(L[k]) - 1 :
             Without(L[k], i)[j] = IF j < i THEN L[k][j] ELSE L[k][j + 1]
    BY <1>1, WithoutIs
  <2> QED
    BY <2>1
<1>4. Len(L2[h]) = 1 /\ L2[h][1] = x /\ L2[h] \in Seq(DOMAIN node2)
  <2>1. L2[h] \in Seq(DOMAIN node2)
    BY <1>2, SeqMonotonic DEF Single
  <2> QED
    BY <2>1 DEF Single
<1>5. ASSUME NEW l \in DOMAIN L
      PROVE  ListAt(node2, head2[l], L2[l])
  <2>1. CASE l = h
    <3>1. ListAt(node2, x, L2[h])
      BY <1>4 DEF ListAt
    <3> QED
      BY <2>1, <3>1
  <2>2. CASE l = k
    <3>1. ListAt(node, head[k], L[k])
      BY DEF Lists
    <3>2. \A j, m \in 1 .. Len(L[k]) : L[k][j] = L[k][m] => j = m
      BY OnePlace
    <3>3. PICK q, a : q = L[k] /\ a = head2[k]
      OBVIOUS
    <3>4. ListAt(node2, a, Without(q, i))
      BY <3>1, <3>2, <3>3, DetachList
    <3> QED
      BY <2>2, <3>3, <3>4
  <2>3. CASE l # h /\ l # k
    <3>1. ListAt(node, head[l], L[l])
      BY DEF Lists
    <3>2. /\ Len(L[l]) \in Nat
          /\ \A j \in 1 .. Len(L[l]) : L[l][j] \in DOMAIN node
      BY ListFacts
    <3>3. ASSUME NEW j \in 1 .. Len(L[l])
          PROVE  node2[L[l][j]].next = node[L[l][j]].next
      <4>1. L[l][j] # x
        BY <2>3, OnePlace
      <4>2. ASSUME i > 1
            PROVE  L[l][j] # L[k][i - 1]
        <5>1. i - 1 \in 1 .. Len(L[k])
          BY <1>1, <4>2
        <5> QED
          BY <2>3, <5>1, OnePlace
      <4> QED
        BY <3>2, <4>1, <4>2
    <3>4. ListAt(node2, head[l], L[l])
      BY <3>1, <3>2, <3>3 DEF ListAt
    <3> QED
      BY <2>3, <3>4
  <2> QED
    BY <2>1, <2>2, <2>3
<1>6. ASSUME NEW y \in DOMAIN node
      PROVE  \E l \in DOMAIN L2 : \E j \in 1 .. Len(L2[l]) : L2[l][j] = y
  <2>1. PICK l \in DOMAIN L : \E j \in 1 .. Len(L[l]) : L[l][j] = y
    BY DEF Lists
  <2>2. PICK j \in 1 .. Len(L[l]) : L[l][j] = y
    BY <2>1
  <2>3. l # h
    BY <2>2
  <2>4. CASE l # k
    <3>1. L2[l] = L[l]
      BY <2>3, <2>4
    <3> QED
      BY <2>2, <3>1
  <2>5. CASE l = k /\ j = i
    BY <1>4, <2>2, <2>5
  <2>6. CASE l = k /\ j < i
    <3>1. j \in 1 .. Len(L[k]) - 1 /\ j \in 1 .. Len(L2[k])
      BY <1>1, <1>3, <2>6
    <3> QED
      BY <1>3, <2>2, <2>6, <3>1
  <2>7. CASE l = k /\ j > i
    <3>1. j - 1 \in 1 .. Len(L[k]) - 1 /\ j - 1 \in 1 .. Len(L2[k]) /\ ~ (j - 1 < i) /\ j - 1 + 1 = j
      BY <1>1, <1>3, <2>7
    <3> QED
      BY <1>3, <2>2, <2>7, <3>1
  <2> QED
    BY <1>1, <2>4, <2>5, <2>6, <2>7
<1>7. ASSUME NEW l \in DOMAIN L2, NEW j \in 1 .. Len(L2[l])
      PROVE  \/ l = h /\ j = 1 /\ L2[l][j] = L[k][i]
             \/ l = k /\ j < i /\ j \in 1 .. Len(L[k]) /\ L2[l][j] = L[k][j]
             \/ l = k /\ j >= i /\ j + 1 \in 1 .. Len(L[k]) /\ L2[l][j] = L[k][j + 1]
             \/ l \notin {h, k} /\ j \in 1 .. Len(L[l]) /\ L2[l][j] = L[l][j]
  <2>1. CASE l = h
    <3>2. Len(L2[h]) = 1
      BY <1>4
    <3>3. Len(L2[l]) = 1
      BY <2>1, <3>2
    <3>1. j = 1
      BY <3>3
    <3> QED
      BY <1>4, <2>1, <3>1
  <2>2. CASE l = k
    <3>1. /\ j \in 1 .. Len(L[k]) - 1
          /\ j \in 1 .. Len(L[k]) /\ j + 1 \in 1 .. Len(L[k])
          /\ j < i \/ j >= i
      BY <1>1, <1>3, <2>2
    <3> QED
      BY <1>3, <2>2, <3>1
  <2>3. CASE l # h /\ l # k
    BY <2>3
  <2> QED
    BY <2>1, <2>2, <2>3
<1>8. ASSUME NEW l \in DOMAIN L2, NEW j \in 1 .. Len(L2[l]),
             NEW m \in DOMAIN L2, NEW n \in 1 .. Len(L2[m]), L2[l][j] = L2[m][n]
      PROVE  l = m /\ j = n
  <2>1. \A b, c \in DOMAIN L : \A d \in 1 .. Len(L[b]), e \in 1 .. Len(L[c]) :
          L[b][d] = L[c][e] => b = c /\ d = e
    BY DEF Lists
  <2>2. CASE l = h
    BY <1>1, <1>7, <1>8, <2>1, <2>2
  <2>3. CASE l = k /\ j < i
    BY <1>1, <1>7, <1>8, <2>1, <2>3
  <2>4. CASE l = k /\ j >= i
    BY <1>1, <1>7, <1>8, <2>1, <2>4
  <2>5. CASE l # h /\ l # k
    BY <1>1, <1>7, <1>8, <2>1, <2>5
  <2> QED
    BY <1>1, <2>2, <2>3, <2>4, <2>5
<1> QED
  BY <1>2, <1>5, <1>6, <1>8 DEF Lists

\* Sequence r is q with x behind it.
Extends(r, q, x) ==
  /\ \A S : q \in Seq(S) /\ x \in S => r \in Seq(S)
  /\ Len(r) = Len(q) + 1
  /\ \A j \in 1 .. Len(q) : r[j] = q[j]
  /\ r[Len(q) + 1] = x

\* The node x that the list for h holds is put at the end of list k.
Attached(node, head, L, h, k, x, node2, head2, L2) ==
  /\ h \in DOMAIN L /\ Len(L[h]) = 1 /\ x = L[h][1] /\ k \in DOMAIN L /\ k # h
  /\ DOMAIN node2 = DOMAIN node
  /\ Len(L[k]) > 0 => node2[L[k][Len(L[k])]].next = x
  /\ \A y \in DOMAIN node :
       (Len(L[k]) > 0 => y # L[k][Len(L[k])]) => node2[y].next = node[y].next
  /\ DOMAIN head2 = DOMAIN L /\ head2[h] = 0
  /\ Len(L[k]) = 0 => head2[k] = x
  /\ Len(L[k]) > 0 => head2[k] = head[k]
  /\ \A l \in DOMAIN L \ {h, k} : head2[l] = head[l]
  /\ DOMAIN L2 = DOMAIN L /\ L2[h] \in Seq(DOMAIN node) /\ Len(L2[h]) = 0
  /\ Extends(L2[k], L[k], x)
  /\ \A l \in DOMAIN L \ {h, k} : L2[l] = L[l]

\* The node on the list for h can be put at the end of another list.
LEMMA Attach ==
  ASSUME NEW node, NEW head, NEW L, Lists(node, head, L),
         NEW h, NEW k, NEW x, NEW node2, NEW head2, NEW L2,
         Attached(node, head, L, h, k, x, node2, head2, L2)
  PROVE  Lists(node2, head2, L2)
<1> USE DEF Attached
<1>a. PICK n : n = Len(L[k])
  OBVIOUS
<1>b. PICK q : q = L[k]
  OBVIOUS
<1>c. /\ n > 0 => node2[q[n]].next = x
      /\ \A y \in DOMAIN node : (n > 0 => y # q[n]) => node2[y].next = node[y].next
  BY <1>a, <1>b
<1>1. /\ q = L[k] /\ n = Len(q) /\ n \in Nat /\ q \in Seq(DOMAIN node)
      /\ \A j \in 1 .. n : q[j] \in DOMAIN node
      /\ n > 0 => head[k] = q[1] /\ node[q[n]].next = 0
      /\ \A j \in 1 .. n - 1 : node[q[j]].next = q[j + 1]
  <2>1. /\ L[k] \in Seq(DOMAIN node) /\ Len(L[k]) \in Nat
        /\ \A j \in 1 .. Len(L[k]) : L[k][j] \in DOMAIN node
        /\ Len(L[k]) > 0 => head[k] = L[k][1] /\ node[L[k][Len(L[k])]].next = 0
        /\ \A j \in 1 .. Len(L[k]) - 1 : node[L[k][j]].next = L[k][j + 1]
    BY ListFacts
  <2> QED
    BY <1>a, <1>b, <2>1
<1>d. n \in Nat
  BY <1>1
<1>2. 1 \in 1 .. Len(L[h]) /\ Len(L[h]) = 1 /\ L[h][1] = x
  <2>1. 1 \in 1 .. 1
    OBVIOUS
  <2> QED
    BY <2>1
<1>3. x \in DOMAIN node /\ 0 \notin DOMAIN node /\ node[x].next = 0
  <2>1. \A l \in DOMAIN L :
          /\ \A j \in 1 .. Len(L[l]) : L[l][j] \in DOMAIN node
          /\ Len(L[l]) > 0 => node[L[l][Len(L[l])]].next = 0
    BY ListFacts
  <2>3. h \in DOMAIN L
    OBVIOUS
  <2>2. L[h][1] \in DOMAIN node /\ node[L[h][1]].next = 0
    <3>1. L[h][1] \in DOMAIN node
      BY <1>2, <2>1, <2>3
    <3>2. node[L[h][Len(L[h])]].next = 0 /\ Len(L[h]) = 1
      BY <1>2, <2>1, <2>3
    <3> QED
      BY <3>1, <3>2
  <2> QED
    BY <1>2, <2>2 DEF Lists
<1>4. ASSUME NEW j \in 1 .. n
      PROVE  q[j] # x
  BY <1>1, <1>2, OnePlace
<1>5. PICK r : /\ r = L2[k] /\ r \in Seq(DOMAIN node2) /\ Len(r) = n + 1
               /\ \A j \in 1 .. n : r[j] = q[j]
               /\ r[n + 1] = x
  <2>1. Extends(L2[k], q, x)
    BY <1>b
  <2> QED
    BY <1>1, <1>3, <2>1 DEF Extends
<1>6. node2[x].next = 0
  <2>1. ASSUME n > 0
        PROVE  x # q[n]
    <3>1. n \in 1 .. n
      BY <1>1, <2>1
    <3> QED
      BY <1>4, <3>1
  <2> QED
    BY <1>c, <1>3, <2>1
<1>7. ASSUME NEW j \in 1 .. n - 1
      PROVE  node2[q[j]].next = q[j + 1]
  <2>1. j \in 1 .. n /\ n \in 1 .. n /\ j # n
    BY <1>1
  <2>3. j \in 1 .. Len(L[k]) /\ n \in 1 .. Len(L[k])
    BY <1>1, <2>1
  <2>2. q[j] # q[n]
    BY <1>1, <2>1, <2>3, OnePlace
  <2>4. q[j] \in DOMAIN node /\ node[q[j]].next = q[j + 1]
    BY <1>1, <2>1
  <2> QED
    BY <1>c, <2>2, <2>4
<1>8. ListAt(node2, head2[k], r)
  <2>1. head2[k] = r[1]
    <3>1. CASE n = 0
      BY <1>1, <1>5, <3>1
    <3>2. CASE n # 0
      BY <1>1, <1>5, <3>2
    <3> QED
      BY <3>1, <3>2
  <2>2. ASSUME NEW j \in 1 .. n
        PROVE  node2[r[j]].next = r[j + 1]
    <3>1. CASE j = n
      <4>2. n > 0 /\ r[j] = q[j] /\ r[n + 1] = x
        BY <1>d, <1>5
      <4>1. n > 0 /\ r[j] = q[n] /\ r[j + 1] = x
        BY <3>1, <4>2
      <4> QED
        BY <1>c, <4>1
    <3>2. CASE j # n
      <4>1. j \in 1 .. n - 1 /\ j + 1 \in 1 .. n
        BY <1>d, <3>2
      <4> QED
        BY <1>5, <1>7, <4>1
    <3> QED
      BY <3>1, <3>2
  <2>5. Len(r) = n + 1 /\ n \in Nat
    BY <1>d, <1>5
  <2>3. Len(r) - 1 = n /\ Len(r) > 0
    BY <2>5
  <2>4. node2[r[Len(r)]].next = 0
    BY <1>5, <1>6
  <2> QED
    <3>1. \A j \in 1 .. Len(r) - 1 : node2[r[j]].next = r[j + 1]
      BY <2>2, <2>3
    <3>2. r \in Seq(DOMAIN node2)
      BY <1>5
    <3>3. Len(r) # 0
      BY <2>3
    <3> QED
      BY <2>1, <2>4, <3>1, <3>2, <3>3 DEF ListAt
<1>9. ASSUME NEW l \in DOMAIN L
      PROVE  ListAt(node2, head2[l], L2[l])
  <2>1. CASE l = h
    <3>1. L2[h] \in Seq(DOMAIN node2)
      BY SeqMonotonic
    <3>2. ListAt(node2, 0, L2[h])
      BY <3>1 DEF ListAt
    <3> QED
      BY <2>1, <3>2
  <2>2. CASE l = k
    BY <1>5, <1>8, <2>2
  <2>3. CASE l # h /\ l # k
    <3>1. ListAt(node, head[l], L[l])
      BY DEF Lists
    <3>2. /\ Len(L[l]) \in Nat
          /\ \A j \in 1 .. Len(L[l]) : L[l][j] \in DOMAIN node
      BY ListFacts
    <3>3. ASSUME NEW j \in 1 .. Len(L[l])
          PROVE  node2[L[l][j]].next = node[L[l][j]].next
      <4>1. ASSUME n > 0
            PROVE  L[l][j] # q[n]
        <5>1. n \in 1 .. Len(L[k])
          BY <1>1, <4>1
        <5> QED
          BY <1>1, <2>3, <5>1, OnePlace
      <4> QED
        BY <1>1, <3>2, <4>1
    <3>4. ListAt(node2, head[l], L[l])
      BY <3>1, <3>2, <3>3 DEF ListAt
    <3> QED
      BY <2>3, <3>4
  <2> QED
    BY <2>1, <2>2, <2>3
<1>10. ASSUME NEW y \in DOMAIN node
       PROVE  \E l \in DOMAIN L2 : \E j \in 1 .. Len(L2[l]) : L2[l][j] = y
  <2>1. PICK l \in DOMAIN L : \E j \in 1 .. Len(L[l]) : L[l][j] = y
    BY DEF Lists
  <2>2. PICK j \in 1 .. Len(L[l]) : L[l][j] = y
    BY <2>1
  <2>3. CASE l = h
    <3>2. j \in 1 .. Len(L[h]) /\ L[h][j] = y
      BY <2>2, <2>3
    <3>3. j = 1
      BY <1>2, <3>2
    <3>4. y = x
      BY <1>2, <3>2, <3>3
    <3>1. y = r[n + 1] /\ n + 1 \in 1 .. Len(r)
      BY <1>1, <1>5, <3>4
    <3> QED
      BY <1>5, <3>1
  <2>4. CASE l = k
    <3>1. j \in 1 .. n /\ j \in 1 .. Len(r) /\ r[j] = y
      BY <1>1, <1>5, <2>2, <2>4
    <3> QED
      BY <1>5, <3>1
  <2>5. CASE l # h /\ l # k
    BY <2>2, <2>5
  <2> QED
    BY <2>3, <2>4, <2>5
<1>11. ASSUME NEW l \in DOMAIN L2, NEW j \in 1 .. Len(L2[l])
       PROVE  \/ l = k /\ j = n + 1 /\ L2[l][j] = L[h][1]
              \/ l = k /\ j \in 1 .. Len(L[k]) /\ j # n + 1 /\ L2[l][j] = L[k][j]
              \/ l \notin {h, k} /\ j \in 1 .. Len(L[l]) /\ L2[l][j] = L[l][j]
  <2>1. CASE l = h
    <3>1. Len(L2[l]) = 0
      BY <2>1
    <3> QED
      BY <3>1
  <2>2. CASE l = k
    <3>1. L2[l] = r /\ j \in 1 .. n + 1
      BY <1>5, <2>2
    <3>2. CASE j = n + 1
      <4>2. r[n + 1] = x
        BY <1>5
      <4>1. r[j] = x
        BY <3>2, <4>2
      <4> QED
        BY <1>2, <2>2, <3>1, <3>2, <4>1
    <3>3. CASE j # n + 1
      <4>1. j \in 1 .. n
        BY <1>d, <3>1, <3>3
      <4> QED
        BY <1>1, <1>5, <2>2, <3>1, <3>3, <4>1
    <3> QED
      BY <3>2, <3>3
  <2>3. CASE l # h /\ l # k
    BY <2>3
  <2> QED
    BY <2>1, <2>2, <2>3
<1>12. ASSUME NEW l \in DOMAIN L2, NEW j \in 1 .. Len(L2[l]),
              NEW m \in DOMAIN L2, NEW i \in 1 .. Len(L2[m]), L2[l][j] = L2[m][i]
       PROVE  l = m /\ j = i
  <2>1. \A b, c \in DOMAIN L : \A d \in 1 .. Len(L[b]), e \in 1 .. Len(L[c]) :
          L[b][d] = L[c][e] => b = c /\ d = e
    BY DEF Lists
  <2>2. PICK b, d :
          /\ b \in DOMAIN L /\ d \in 1 .. Len(L[b])
          /\ L2[l][j] = L[b][d]
          /\ b = h => l = k /\ j = n + 1 /\ d = 1
          /\ b # h => l = b /\ j = d /\ ~ (l = k /\ j = n + 1)
    BY <1>2, <1>11
  <2>3. PICK c, e :
          /\ c \in DOMAIN L /\ e \in 1 .. Len(L[c])
          /\ L2[m][i] = L[c][e]
          /\ c = h => m = k /\ i = n + 1 /\ e = 1
          /\ c # h => m = c /\ i = e /\ ~ (m = k /\ i = n + 1)
    BY <1>2, <1>11
  <2>5. L[b][d] = L[c][e]
    BY <1>12, <2>2, <2>3
  <2>4. b = c /\ d = e
    BY <2>1, <2>2, <2>3, <2>5
  <2> QED
    BY <2>2, <2>3, <2>4
<1> QED
  BY <1>3, <1>9, <1>10, <1>12 DEF Lists

\* A new node, x, is the one that the list for h holds.
Entered(node, head, L, h, x, node2, head2, L2) ==
  /\ h \in DOMAIN L /\ Len(L[h]) = 0 /\ x \notin DOMAIN node /\ x # 0
  /\ DOMAIN node2 = DOMAIN node \cup {x} /\ node2[x].next = 0
  /\ \A y \in DOMAIN node : node2[y].next = node[y].next
  /\ DOMAIN head2 = DOMAIN L /\ head2[h] = x
  /\ \A l \in DOMAIN L \ {h} : head2[l] = head[l]
  /\ DOMAIN L2 = DOMAIN L /\ Single(L2[h], x)
  /\ \A l \in DOMAIN L \ {h} : L2[l] = L[l]

\* A new node comes in on the list for h.
LEMMA Fresh ==
  ASSUME NEW node, NEW head, NEW L, Lists(node, head, L),
         NEW h, NEW x, NEW node2, NEW head2, NEW L2,
         Entered(node, head, L, h, x, node2, head2, L2)
  PROVE  Lists(node2, head2, L2)
<1> USE DEF Entered
<1>1. Len(L2[h]) = 1 /\ L2[h][1] = x /\ L2[h] \in Seq(DOMAIN node2)
  <2>1. L2[h] \in Seq(DOMAIN node2)
    BY SeqMonotonic DEF Single
  <2> QED
    BY <2>1 DEF Single
<1>2. 0 \notin DOMAIN node2
  BY DEF Lists
<1>3. ASSUME NEW l \in DOMAIN L
      PROVE  ListAt(node2, head2[l], L2[l])
  <2>1. CASE l = h
    <3>1. ListAt(node2, x, L2[h])
      BY <1>1 DEF ListAt
    <3> QED
      BY <2>1, <3>1
  <2>2. CASE l # h
    <3>1. ListAt(node, head[l], L[l])
      BY DEF Lists
    <3>2. /\ Len(L[l]) \in Nat /\ L[l] \in Seq(DOMAIN node)
          /\ \A j \in 1 .. Len(L[l]) : L[l][j] \in DOMAIN node
      BY ListFacts
    <3>3. L[l] \in Seq(DOMAIN node2)
      BY <3>2, SeqMonotonic
    <3>4. ListAt(node2, head[l], L[l])
      BY <3>1, <3>2, <3>3 DEF ListAt
    <3> QED
      BY <2>2, <3>4
  <2> QED
    BY <2>1, <2>2
<1>4. ASSUME NEW y \in DOMAIN node2
      PROVE  \E l \in DOMAIN L2 : \E j \in 1 .. Len(L2[l]) : L2[l][j] = y
  <2>1. CASE y = x
    BY <1>1, <2>1
  <2>2. CASE y # x
    <3>1. PICK l \in DOMAIN L : \E j \in 1 .. Len(L[l]) : L[l][j] = y
      BY <2>2 DEF Lists
    <3>2. l # h
      BY <3>1
    <3> QED
      BY <3>1, <3>2
  <2> QED
    BY <2>1, <2>2
<1>5. ASSUME NEW l \in DOMAIN L2, NEW j \in 1 .. Len(L2[l]),
             NEW m \in DOMAIN L2, NEW i \in 1 .. Len(L2[m]), L2[l][j] = L2[m][i]
      PROVE  l = m /\ j = i
  <2>1. ASSUME NEW b \in DOMAIN L2, NEW d \in 1 .. Len(L2[b])
        PROVE  \/ b = h /\ d = 1 /\ L2[b][d] = x
               \/ b # h /\ d \in 1 .. Len(L[b]) /\ L2[b][d] = L[b][d] /\ L[b][d] # x
    <3>1. CASE b = h
      <4>1. Len(L2[b]) = 1
        BY <1>1, <3>1
      <4>2. d = 1
        BY <4>1
      <4> QED
        BY <1>1, <3>1, <4>2
    <3>2. CASE b # h
      <4>1. L2[b] = L[b] /\ d \in 1 .. Len(L[b])
        BY <3>2
      <4>2. L[b][d] \in DOMAIN node
        BY <4>1, ListFacts
      <4> QED
        BY <3>2, <4>1, <4>2
    <3> QED
      BY <3>1, <3>2
  <2>2. CASE l = h
    BY <1>5, <2>1, <2>2
  <2>3. CASE l # h
    <3>1. /\ j \in 1 .. Len(L[l]) /\ i \in 1 .. Len(L[m]) /\ m # h
          /\ L[l][j] = L[m][i]
      BY <1>5, <2>1, <2>3
    <3> QED
      BY <3>1, OnePlace
  <2> QED
    BY <2>2, <2>3
<1> QED
  BY <1>2, <1>3, <1>4, <1>5 DEF Lists

\* The nodes of a list from which one was taken, and of one to which one was added.
LEMMA WithoutRange ==
  ASSUME NEW S, NEW q \in Seq(S), NEW i \in 1 .. Len(q),
         \A j, m \in 1 .. Len(q) : q[j] = q[m] => j = m
  PROVE  Range(Without(q, i)) = Range(q) \ {q[i]}
<1>1. PICK r : r = Without(q, i)
  OBVIOUS
<1>2. /\ r \in Seq(S) /\ Len(r) = Len(q) - 1
      /\ \A j \in 1 .. Len(q) - 1 : r[j] = IF j < i THEN q[j] ELSE q[j + 1]
  BY <1>1, WithoutIs
<1>3. Len(q) \in Nat /\ DOMAIN q = 1 .. Len(q) /\ DOMAIN r = 1 .. Len(r)
  BY <1>2, LenProperties
<1>4. DOMAIN r = 1 .. Len(q) - 1
  BY <1>2, <1>3
<1>5. ASSUME NEW y \in Range(r)
      PROVE  y \in Range(q) \ {q[i]}
  <2>1. PICK j \in 1 .. Len(q) - 1 : y = r[j]
    BY <1>4 DEF Range
  <2>2. j \in 1 .. Len(q) /\ j + 1 \in 1 .. Len(q) /\ (j < i \/ j >= i)
    BY <1>3
  <2>3. CASE j < i
    <3>1. y = q[j] /\ j # i
      BY <1>2, <2>1, <2>3
    <3> QED
      BY <1>3, <2>2, <3>1 DEF Range
  <2>4. CASE j >= i
    <3>1. y = q[j + 1] /\ j + 1 # i
      BY <1>2, <1>3, <2>1, <2>2, <2>4
    <3> QED
      BY <1>3, <2>2, <3>1 DEF Range
  <2> QED
    BY <2>2, <2>3, <2>4
<1>6. ASSUME NEW y \in Range(q), y # q[i]
      PROVE  y \in Range(r)
  <2>1. PICK j \in 1 .. Len(q) : y = q[j]
    BY <1>3 DEF Range
  <2>2. CASE j < i
    <3>1. j \in 1 .. Len(q) - 1
      BY <1>3, <2>2
    <3>2. r[j] = q[j]
      BY <1>2, <2>2, <3>1
    <3> QED
      BY <1>4, <2>1, <3>1, <3>2 DEF Range
  <2>3. CASE j > i
    <3>1. j - 1 \in 1 .. Len(q) - 1 /\ ~ (j - 1 < i) /\ j - 1 + 1 = j
      BY <1>3, <2>3
    <3>2. r[j - 1] = q[j]
      BY <1>2, <3>1
    <3> QED
      BY <1>4, <2>1, <3>1, <3>2 DEF Range
  <2>4. j < i \/ j > i
    BY <1>3, <1>6, <2>1
  <2> QED
    BY <2>2, <2>3, <2>4
<1> QED
  BY <1>1, <1>5, <1>6

\* What an extended sequence has in it.
LEMMA ExtendsRange ==
  ASSUME NEW S, NEW q \in Seq(S), NEW x \in S, NEW r, Extends(r, q, x)
  PROVE  Range(r) = Range(q) \cup {x}
<1>2. /\ r \in Seq(S) /\ Len(r) = Len(q) + 1
      /\ \A j \in 1 .. Len(q) : r[j] = q[j]
      /\ r[Len(q) + 1] = x
  BY DEF Extends
<1>3. Len(q) \in Nat /\ DOMAIN q = 1 .. Len(q) /\ DOMAIN r = 1 .. Len(r)
  BY <1>2, LenProperties
<1>4. DOMAIN r = 1 .. Len(q) + 1
  BY <1>2, <1>3
<1>5. ASSUME NEW j \in DOMAIN r
      PROVE  r[j] \in Range(q) \cup {x}
  <2>1. j \in 1 .. Len(q) \/ j = Len(q) + 1
    BY <1>3, <1>4
  <2> QED
    BY <1>2, <1>3, <2>1 DEF Range
<1>6. ASSUME NEW j \in DOMAIN q
      PROVE  q[j] \in Range(r)
  <2>1. j \in DOMAIN r /\ r[j] = q[j]
    BY <1>2, <1>3, <1>4
  <2> QED
    BY <2>1 DEF Range
<1>7. x \in Range(r)
  <2>1. Len(q) + 1 \in DOMAIN r
    BY <1>3, <1>4
  <2> QED
    BY <1>2, <2>1 DEF Range
<1> QED
  BY <1>5, <1>6, <1>7 DEF Range

\* Append does that, and a list of one node is there.
LEMMA AppendExtends ==
  ASSUME NEW T, NEW q \in Seq(T), NEW x
  PROVE  Extends(Append(q, x), q, x)
<1>1. PICK U : U = T \cup {x}
  OBVIOUS
<1>2. q \in Seq(U) /\ x \in U
  BY <1>1, SeqMonotonic
<1>3. PICK r : r = Append(q, x)
  OBVIOUS
<1>4. /\ Len(r) = Len(q) + 1
      /\ \A j \in 1 .. Len(q) : r[j] = q[j]
      /\ r[Len(q) + 1] = x
  BY <1>2, <1>3, AppendProperties
<1>5. \A S : q \in Seq(S) /\ x \in S => r \in Seq(S)
  BY <1>3, AppendProperties
<1> QED
  BY <1>3, <1>4, <1>5 DEF Extends

\* There is a sequence of one element.
LEMMA SingleIs ==
  ASSUME NEW x
  PROVE  Single(<<x>>, x)
BY DEF Single

\* A node is moved from its list to the end of another one; the list for h is empty.
MovedNodes(node, L, h, k, l, i, x, node2) ==
  /\ h \in DOMAIN L /\ Len(L[h]) = 0
  /\ k \in DOMAIN L /\ l \in DOMAIN L /\ k # h /\ l # h /\ k # l
  /\ i \in 1 .. Len(L[k]) /\ x = L[k][i]
  /\ DOMAIN node2 = DOMAIN node
  /\ node2[x].next = 0
  /\ i > 1 => node2[L[k][i - 1]].next = node[x].next
  /\ Len(L[l]) > 0 => node2[L[l][Len(L[l])]].next = x
  /\ \A y \in DOMAIN node :
       /\ y # x
       /\ i > 1 => y # L[k][i - 1]
       /\ Len(L[l]) > 0 => y # L[l][Len(L[l])]
       => node2[y].next = node[y].next

MovedHeads(node, head, L, h, k, l, i, x, head2) ==
  /\ DOMAIN head2 = DOMAIN head /\ head2[h] = 0
  /\ head2[k] = IF i = 1 THEN node[x].next ELSE head[k]
  /\ head2[l] = IF Len(L[l]) = 0 THEN x ELSE head[l]
  /\ \A m \in DOMAIN L \ {h, k, l} : head2[m] = head[m]

Moved(node, head, L, h, k, l, i, x, node2, head2) ==
  /\ MovedNodes(node, L, h, k, l, i, x, node2)
  /\ MovedHeads(node, head, L, h, k, l, i, x, head2)

\* A move changes two lists and no other, and keeps them lists.
LEMMA Move ==
  ASSUME NEW node, NEW head, NEW L, Lists(node, head, L),
         NEW h, NEW k, NEW l, NEW i, NEW x, NEW node2, NEW head2,
         Moved(node, head, L, h, k, l, i, x, node2, head2)
  PROVE  \E L2 :
           /\ Lists(node2, head2, L2)
           /\ DOMAIN L2 = DOMAIN L
           /\ Range(L2[k]) = Range(L[k]) \ {x}
           /\ Range(L2[l]) = Range(L[l]) \cup {x}
           /\ \A m \in DOMAIN L \ {k, l} : L2[m] = L[m]
<1> USE DEF Moved, MovedNodes, MovedHeads
<1>1. /\ DOMAIN head = DOMAIN L
      /\ L[k] \in Seq(DOMAIN node) /\ L[l] \in Seq(DOMAIN node) /\ L[h] \in Seq(DOMAIN node)
      /\ Len(L[k]) \in Nat /\ Len(L[l]) \in Nat
      /\ \A j \in 1 .. Len(L[k]) : L[k][j] \in DOMAIN node
      /\ \A j \in 1 .. Len(L[l]) : L[l][j] \in DOMAIN node
  <2>1. DOMAIN head = DOMAIN L
    BY DEF Lists
  <2> QED
    BY <2>1, ListFacts
<1>2. x \in DOMAIN node
  BY <1>1
<1>3. PICK mid : /\ DOMAIN mid = DOMAIN node
                 /\ \A y \in DOMAIN node :
                      mid[y].next = IF y = x THEN 0
                                    ELSE IF i > 1 /\ y = L[k][i - 1] THEN node[x].next
                                    ELSE node[y].next
  <2> DEFINE m == [y \in DOMAIN node |->
                     [next |-> IF y = x THEN 0
                               ELSE IF i > 1 /\ y = L[k][i - 1] THEN node[x].next
                               ELSE node[y].next]]
  <2>1. /\ DOMAIN m = DOMAIN node
        /\ \A y \in DOMAIN node :
             m[y].next = IF y = x THEN 0
                         ELSE IF i > 1 /\ y = L[k][i - 1] THEN node[x].next
                         ELSE node[y].next
    OBVIOUS
  <2> QED
    BY <2>1
<1>4. PICK headm : /\ DOMAIN headm = DOMAIN L /\ headm[h] = x
                   /\ headm[k] = IF i = 1 THEN node[x].next ELSE head[k]
                   /\ \A m \in DOMAIN L \ {h, k} : headm[m] = head[m]
  <2> DEFINE f == [m \in DOMAIN L |->
                     IF m = h THEN x
                     ELSE IF m = k THEN (IF i = 1 THEN node[x].next ELSE head[k])
                     ELSE head[m]]
  <2>1. /\ DOMAIN f = DOMAIN L /\ f[h] = x
        /\ f[k] = IF i = 1 THEN node[x].next ELSE head[k]
        /\ \A m \in DOMAIN L \ {h, k} : f[m] = head[m]
    OBVIOUS
  <2> QED
    BY <2>1
<1>5. PICK Lm : /\ DOMAIN Lm = DOMAIN L /\ Single(Lm[h], x) /\ Lm[k] = Without(L[k], i)
                /\ \A m \in DOMAIN L \ {h, k} : Lm[m] = L[m]
  <2>s. PICK one : Single(one, x)
    BY SingleIs
  <2> DEFINE f == [m \in DOMAIN L |->
                     IF m = h THEN one ELSE IF m = k THEN Without(L[k], i) ELSE L[m]]
  <2>1. /\ DOMAIN f = DOMAIN L /\ Single(f[h], x) /\ f[k] = Without(L[k], i)
        /\ \A m \in DOMAIN L \ {h, k} : f[m] = L[m]
    BY <2>s
  <2> QED
    BY <2>1
<1>6. PICK L2 : /\ DOMAIN L2 = DOMAIN L /\ L2[h] = L[h] /\ L2[k] = Without(L[k], i)
                /\ Extends(L2[l], L[l], x)
                /\ \A m \in DOMAIN L \ {h, k, l} : L2[m] = L[m]
  <2>s. PICK longer : Extends(longer, L[l], x)
    BY <1>1, AppendExtends
  <2> DEFINE f == [m \in DOMAIN L |->
                     IF m = k THEN Without(L[k], i) ELSE IF m = l THEN longer ELSE L[m]]
  <2>1. /\ DOMAIN f = DOMAIN L /\ f[h] = L[h] /\ f[k] = Without(L[k], i)
        /\ Extends(f[l], L[l], x)
        /\ \A m \in DOMAIN L \ {h, k, l} : f[m] = L[m]
    BY <2>s
  <2> QED
    BY <2>1
<1>7. Lists(mid, headm, Lm)
  <2>1. mid[x].next = 0
    BY <1>2, <1>3
  <2>2. i > 1 => mid[L[k][i - 1]].next = node[x].next
    <3> SUFFICES ASSUME i > 1
                 PROVE  mid[L[k][i - 1]].next = node[x].next
      OBVIOUS
    <3>1. i - 1 \in 1 .. Len(L[k]) /\ i - 1 # i
      BY <1>1
    <3>2. L[k][i - 1] \in DOMAIN node /\ L[k][i - 1] # x
      BY <1>1, <3>1, OnePlace
    <3> QED
      BY <1>3, <3>2
  <2>3. \A y \in DOMAIN node :
          y # x /\ (i > 1 => y # L[k][i - 1]) => mid[y].next = node[y].next
    BY <1>3
  <2>4. Detached(node, head, L, h, k, i, x, mid, headm, Lm)
    BY <1>3, <1>4, <1>5, <2>1, <2>2, <2>3 DEF Detached
  <2> QED
    BY <2>4, Detach
<1>8. Lists(node2, head2, L2)
  <2>1. Len(Lm[h]) = 1 /\ Lm[h][1] = x /\ Lm[l] = L[l]
    BY <1>5 DEF Single
  <2>2. ASSUME Len(L[l]) > 0
        PROVE  /\ L[l][Len(L[l])] \in DOMAIN node /\ L[l][Len(L[l])] # x
               /\ i > 1 => L[l][Len(L[l])] # L[k][i - 1]
    <3>1. Len(L[l]) \in 1 .. Len(L[l])
      BY <1>1, <2>2
    <3>2. i > 1 => i - 1 \in 1 .. Len(L[k])
      BY <1>1
    <3> QED
      BY <1>1, <3>1, <3>2, OnePlace
  <2>3. ASSUME NEW y \in DOMAIN node, Len(L[l]) > 0 => y # L[l][Len(L[l])]
        PROVE  node2[y].next = mid[y].next
    <3>1. CASE y = x
      BY <1>3, <3>1
    <3>2. CASE y # x /\ i > 1 /\ y = L[k][i - 1]
      BY <1>3, <3>2
    <3>3. CASE y # x /\ (i > 1 => y # L[k][i - 1])
      BY <1>3, <2>3, <3>3
    <3> QED
      BY <3>1, <3>2, <3>3
  <2>4. /\ Len(Lm[l]) > 0 => node2[Lm[l][Len(Lm[l])]].next = x
        /\ \A y \in DOMAIN mid :
             (Len(Lm[l]) > 0 => y # Lm[l][Len(Lm[l])]) => node2[y].next = mid[y].next
    BY <1>3, <2>1, <2>3
  <2>5. DOMAIN node2 = DOMAIN mid /\ h \in DOMAIN Lm /\ l \in DOMAIN Lm
    BY <1>3, <1>5
  <2>6. /\ DOMAIN head2 = DOMAIN Lm
        /\ Len(Lm[l]) = 0 => head2[l] = x
        /\ Len(Lm[l]) > 0 => head2[l] = headm[l]
    <3>1. DOMAIN head2 = DOMAIN Lm
      BY <1>1, <1>5
    <3>2. headm[l] = head[l]
      BY <1>4
    <3>3. Len(L[l]) > 0 => ~ (Len(L[l]) = 0)
      OBVIOUS
    <3> QED
      BY <2>1, <3>1, <3>2, <3>3
  <2>7. \A m \in DOMAIN Lm \ {h, l} : head2[m] = headm[m]
    BY <1>4, <1>5
  <2>8. /\ DOMAIN L2 = DOMAIN Lm /\ L2[h] \in Seq(DOMAIN mid) /\ Len(L2[h]) = 0
        /\ Extends(L2[l], Lm[l], x)
    BY <1>1, <1>3, <1>5, <1>6, <2>1
  <2>9. \A m \in DOMAIN Lm \ {h, l} : L2[m] = Lm[m]
    BY <1>5, <1>6
  <2>10. Attached(mid, headm, Lm, h, l, x, node2, head2, L2)
    BY <2>1, <2>4, <2>5, <2>6, <2>7, <2>8, <2>9 DEF Attached
  <2> QED
    BY <1>7, <2>10, Attach
<1>9. Range(L2[k]) = Range(L[k]) \ {x}
  <2>1. \A j, m \in 1 .. Len(L[k]) : L[k][j] = L[k][m] => j = m
    BY OnePlace
  <2>2. PICK q : q = L[k] /\ q \in Seq(DOMAIN node)
    BY <1>1
  <2>3. Range(Without(q, i)) = Range(q) \ {q[i]}
    BY <2>1, <2>2, WithoutRange
  <2> QED
    BY <1>6, <2>2, <2>3
<1>10. Range(L2[l]) = Range(L[l]) \cup {x}
  <2>1. PICK q : q = L[l] /\ q \in Seq(DOMAIN node)
    BY <1>1
  <2>2. PICK r : r = L2[l]
    OBVIOUS
  <2>3. Range(r) = Range(q) \cup {x}
    BY <1>2, <1>6, <2>1, <2>2, ExtendsRange
  <2> QED
    BY <2>1, <2>2, <2>3
<1> QED
  BY <1>6, <1>8, <1>9, <1>10

\* A new node is put at the end of a list.
Added(node, head, L, h, l, x, node2, head2) ==
  /\ h \in DOMAIN L /\ Len(L[h]) = 0 /\ l \in DOMAIN L /\ l # h
  /\ x \notin DOMAIN node /\ x # 0
  /\ DOMAIN node2 = DOMAIN node \cup {x} /\ node2[x].next = 0
  /\ Len(L[l]) > 0 => node2[L[l][Len(L[l])]].next = x
  /\ \A y \in DOMAIN node :
       (Len(L[l]) > 0 => y # L[l][Len(L[l])]) => node2[y].next = node[y].next
  /\ DOMAIN head2 = DOMAIN head /\ head2[h] = 0
  /\ head2[l] = IF Len(L[l]) = 0 THEN x ELSE head[l]
  /\ \A m \in DOMAIN L \ {h, l} : head2[m] = head[m]

\* A new node at the end of a list changes that list only.
LEMMA Add ==
  ASSUME NEW node, NEW head, NEW L, Lists(node, head, L),
         NEW h, NEW l, NEW x, NEW node2, NEW head2,
         Added(node, head, L, h, l, x, node2, head2)
  PROVE  \E L2 :
           /\ Lists(node2, head2, L2)
           /\ DOMAIN L2 = DOMAIN L
           /\ Range(L2[l]) = Range(L[l]) \cup {x}
           /\ \A m \in DOMAIN L \ {l} : L2[m] = L[m]
<1> USE DEF Added
<1>1. /\ DOMAIN head = DOMAIN L
      /\ L[l] \in Seq(DOMAIN node) /\ L[h] \in Seq(DOMAIN node)
      /\ Len(L[l]) \in Nat
      /\ \A j \in 1 .. Len(L[l]) : L[l][j] \in DOMAIN node
  <2>1. DOMAIN head = DOMAIN L
    BY DEF Lists
  <2> QED
    BY <2>1, ListFacts
<1>3. PICK mid : /\ DOMAIN mid = DOMAIN node \cup {x}
                 /\ mid[x].next = 0
                 /\ \A y \in DOMAIN node : mid[y].next = node[y].next
  <2> DEFINE m == [y \in DOMAIN node \cup {x} |->
                     [next |-> IF y = x THEN 0 ELSE node[y].next]]
  <2>1. /\ DOMAIN m = DOMAIN node \cup {x}
        /\ m[x].next = 0
        /\ \A y \in DOMAIN node : m[y].next = node[y].next
    OBVIOUS
  <2> QED
    BY <2>1
<1>4. PICK headm : /\ DOMAIN headm = DOMAIN L /\ headm[h] = x
                   /\ \A m \in DOMAIN L \ {h} : headm[m] = head[m]
  <2> DEFINE f == [m \in DOMAIN L |-> IF m = h THEN x ELSE head[m]]
  <2>1. /\ DOMAIN f = DOMAIN L /\ f[h] = x
        /\ \A m \in DOMAIN L \ {h} : f[m] = head[m]
    OBVIOUS
  <2> QED
    BY <2>1
<1>5. PICK Lm : /\ DOMAIN Lm = DOMAIN L /\ Single(Lm[h], x)
                /\ \A m \in DOMAIN L \ {h} : Lm[m] = L[m]
  <2>s. PICK one : Single(one, x)
    BY SingleIs
  <2> DEFINE f == [m \in DOMAIN L |-> IF m = h THEN one ELSE L[m]]
  <2>1. /\ DOMAIN f = DOMAIN L /\ Single(f[h], x)
        /\ \A m \in DOMAIN L \ {h} : f[m] = L[m]
    BY <2>s
  <2> QED
    BY <2>1
<1>6. PICK L2 : /\ DOMAIN L2 = DOMAIN L /\ L2[h] = L[h]
                /\ Extends(L2[l], L[l], x)
                /\ \A m \in DOMAIN L \ {h, l} : L2[m] = L[m]
  <2>s. PICK longer : Extends(longer, L[l], x)
    BY <1>1, AppendExtends
  <2> DEFINE f == [m \in DOMAIN L |-> IF m = l THEN longer ELSE L[m]]
  <2>1. /\ DOMAIN f = DOMAIN L /\ f[h] = L[h] /\ Extends(f[l], L[l], x)
        /\ \A m \in DOMAIN L \ {h, l} : f[m] = L[m]
    BY <2>s
  <2> QED
    BY <2>1
<1>7. Lists(mid, headm, Lm)
  <2>1. Entered(node, head, L, h, x, mid, headm, Lm)
    BY <1>3, <1>4, <1>5 DEF Entered
  <2> QED
    BY <2>1, Fresh
<1>8. Lists(node2, head2, L2)
  <2>1. Len(Lm[h]) = 1 /\ Lm[h][1] = x /\ Lm[l] = L[l]
    BY <1>5 DEF Single
  <2>2. ASSUME Len(L[l]) > 0
        PROVE  L[l][Len(L[l])] \in DOMAIN node /\ L[l][Len(L[l])] # x
    <3>1. Len(L[l]) \in 1 .. Len(L[l])
      BY <1>1, <2>2
    <3> QED
      BY <1>1, <3>1
  <2>3. ASSUME NEW y \in DOMAIN mid, Len(L[l]) > 0 => y # L[l][Len(L[l])]
        PROVE  node2[y].next = mid[y].next
    BY <1>3, <2>3
  <2>4. /\ Len(Lm[l]) > 0 => node2[Lm[l][Len(Lm[l])]].next = x
        /\ \A y \in DOMAIN mid :
             (Len(Lm[l]) > 0 => y # Lm[l][Len(Lm[l])]) => node2[y].next = mid[y].next
    BY <2>1, <2>3
  <2>5. DOMAIN node2 = DOMAIN mid /\ h \in DOMAIN Lm /\ l \in DOMAIN Lm
    BY <1>3, <1>5
  <2>6. /\ DOMAIN head2 = DOMAIN Lm
        /\ Len(Lm[l]) = 0 => head2[l] = x
        /\ Len(Lm[l]) > 0 => head2[l] = headm[l]
    <3>1. DOMAIN head2 = DOMAIN Lm
      BY <1>1, <1>5
    <3>2. headm[l] = head[l]
      BY <1>4
    <3>3. Len(L[l]) > 0 => ~ (Len(L[l]) = 0)
      OBVIOUS
    <3> QED
      BY <2>1, <3>1, <3>2, <3>3
  <2>7. \A m \in DOMAIN Lm \ {h, l} : head2[m] = headm[m]
    BY <1>4, <1>5
  <2>8. /\ DOMAIN L2 = DOMAIN Lm /\ L2[h] \in Seq(DOMAIN mid) /\ Len(L2[h]) = 0
        /\ Extends(L2[l], Lm[l], x)
    <3>1. L[h] \in Seq(DOMAIN mid)
      BY <1>1, <1>3, SeqMonotonic
    <3> QED
      BY <1>5, <1>6, <2>1, <3>1
  <2>9. \A m \in DOMAIN Lm \ {h, l} : L2[m] = Lm[m]
    BY <1>5, <1>6
  <2>10. Attached(mid, headm, Lm, h, l, x, node2, head2, L2)
    BY <2>1, <2>4, <2>5, <2>6, <2>7, <2>8, <2>9 DEF Attached
  <2> QED
    BY <1>7, <2>10, Attach
<1>10. Range(L2[l]) = Range(L[l]) \cup {x}
  <2>1. PICK q : q = L[l] /\ q \in Seq(DOMAIN node2)
    BY <1>1, SeqMonotonic
  <2>2. PICK r : r = L2[l]
    OBVIOUS
  <2>3. Range(r) = Range(q) \cup {x}
    <3>1. Extends(r, q, x)
      BY <1>6, <2>1, <2>2
    <3>2. PICK S : q \in Seq(S) /\ x \in S
      BY <2>1
    <3> QED
      BY <3>1, <3>2, ExtendsRange
  <2> QED
    BY <2>1, <2>2, <2>3
<1> QED
  BY <1>6, <1>8, <1>10

\* A node is on one list.
LEMMA OneList ==
  ASSUME NEW node, NEW head, NEW L, Lists(node, head, L),
         NEW k \in DOMAIN L, NEW l \in DOMAIN L,
         NEW x, x \in Range(L[k]), x \in Range(L[l])
  PROVE  k = l
<1>1. PICK i \in 1 .. Len(L[k]) : L[k][i] = x
  BY ListFacts
<1>2. PICK j \in 1 .. Len(L[l]) : L[l][j] = x
  BY ListFacts
<1> QED
  BY <1>1, <1>2, OnePlace

\* The node before the i-th one and the last one of a list, as the code finds them.
LEMMA Neighbours ==
  ASSUME NEW node, NEW head, NEW L, Lists(node, head, L), NEW k \in DOMAIN L
  PROVE  /\ \A i \in 1 .. Len(L[k]) :
              i > 1 => Previous(node, head[k], L[k][i]) = L[k][i - 1]
         /\ Len(L[k]) > 0 => Final(node, head[k]) = L[k][Len(L[k])]
<1>1. Walk(node, head[k]) = L[k]
  BY ListsWalk
<1>2. /\ L[k] \in Seq(DOMAIN node) /\ Len(L[k]) \in Nat /\ DOMAIN L[k] = 1 .. Len(L[k])
      /\ \A i \in 1 .. Len(L[k]) : L[k][i] \in Range(L[k]) /\ L[k][i] # 0
      /\ \A x \in Range(L[k]) : \E i \in 1 .. Len(L[k]) : L[k][i] = x
      /\ \A i \in 1 .. Len(L[k]) - 1 : node[L[k][i]].next = L[k][i + 1]
      /\ Len(L[k]) > 0 => node[L[k][Len(L[k])]].next = 0
  BY ListFacts
<1>3. ASSUME NEW i \in 1 .. Len(L[k]), i > 1
      PROVE  Previous(node, head[k], L[k][i]) = L[k][i - 1]
  <2>1. i - 1 \in 1 .. Len(L[k]) - 1 /\ i - 1 \in 1 .. Len(L[k]) /\ i - 1 + 1 = i
    BY <1>2, <1>3
  <2>2. L[k][i - 1] \in Range(L[k]) /\ node[L[k][i - 1]].next = L[k][i]
    BY <1>2, <2>1
  <2>3. ASSUME NEW p \in Range(L[k]), node[p].next = L[k][i]
        PROVE  p = L[k][i - 1]
    <3>1. PICK j \in 1 .. Len(L[k]) : L[k][j] = p
      BY <1>2
    <3>7. L[k][i] # 0 /\ Len(L[k]) > 0 /\ Len(L[k]) \in Nat
      BY <1>2, <1>3
    <3>2. j # Len(L[k])
      BY <1>2, <2>3, <3>1, <3>7
    <3>3. j \in 1 .. Len(L[k]) - 1 /\ j + 1 \in 1 .. Len(L[k])
      BY <3>2, <3>7
    <3>4. L[k][j + 1] = L[k][i]
      BY <1>2, <2>3, <3>1, <3>3
    <3>5. j + 1 = i
      BY <3>3, <3>4, OnePlace
    <3>6. j = i - 1
      BY <3>5
    <3> QED
      BY <3>1, <3>6
  <2>4. Previous(node, head[k], L[k][i]) = CHOOSE p \in Range(L[k]) : node[p].next = L[k][i]
    BY <1>1 DEF Previous
  <2> QED
    BY <2>2, <2>3, <2>4
<1>4. Len(L[k]) > 0 => Final(node, head[k]) = L[k][Len(L[k])]
  BY <1>1 DEF Final, Last
<1> QED
  BY <1>3, <1>4

\* What free's code makes of the list pointers when it takes x out of a list: the node
\* before it, if there is one, gets its successor.
LEMMA UnlinkIs ==
  ASSUME NEW node, NEW head, NEW L, Lists(node, head, L), NEW k \in DOMAIN L,
         NEW i \in 1 .. Len(L[k]), NEW x, x = L[k][i],
         NEW u, u = IF head[k] = x THEN node ELSE Unlink(node, head[k], x)
  PROVE  /\ head[k] = x <=> i = 1
         /\ DOMAIN u = DOMAIN node
         /\ i > 1 => /\ L[k][i - 1] \in DOMAIN node /\ L[k][i - 1] # x
                     /\ u[L[k][i - 1]] = [node[L[k][i - 1]] EXCEPT !.next = node[x].next]
         /\ \A y \in DOMAIN node : (i > 1 => y # L[k][i - 1]) => u[y] = node[y]
<1>1. /\ Len(L[k]) \in Nat /\ Len(L[k]) > 0 /\ head[k] = L[k][1]
      /\ \A j \in 1 .. Len(L[k]) : L[k][j] \in DOMAIN node
  <2>1. Len(L[k]) \in Nat /\ Len(L[k]) > 0
    BY ListFacts
  <2> QED
    BY <2>1, ListFacts
<1>2. head[k] = x <=> i = 1
  <2>1. 1 \in 1 .. Len(L[k])
    BY <1>1
  <2> QED
    BY <1>1, <2>1, OnePlace
<1>3. CASE i = 1
  <2>1. u = node
    BY <1>2, <1>3
  <2> QED
    BY <1>2, <1>3, <2>1
<1>4. CASE i # 1
  <2>1. i > 1 /\ i - 1 \in 1 .. Len(L[k]) /\ i - 1 # i
    BY <1>1, <1>4
  <2>2. PICK p : p = L[k][i - 1]
    OBVIOUS
  <2>3. p \in DOMAIN node /\ p # x
    BY <1>1, <2>1, <2>2, OnePlace
  <2>4. Previous(node, head[k], L[k][i]) = L[k][i - 1]
    BY <2>1, Neighbours
  <2>5. u = [node EXCEPT ![p].next = node[x].next]
    BY <1>2, <1>4, <2>2, <2>4 DEF Unlink
  <2>6. /\ DOMAIN u = DOMAIN node
        /\ u[p] = [node[p] EXCEPT !.next = node[x].next]
        /\ \A y \in DOMAIN node : y # p => u[y] = node[y]
    BY <2>3, <2>5
  <2> QED
    BY <1>2, <1>4, <2>1, <2>2, <2>3, <2>6
<1> QED
  BY <1>3, <1>4

\* The last node of another list is the same when x was taken out.
TakenOut(node, L, h, k, l, i, x, mid) ==
  /\ h \in DOMAIN L /\ Len(L[h]) = 0
  /\ k \in DOMAIN L /\ l \in DOMAIN L /\ k # h /\ l # h /\ k # l
  /\ i \in 1 .. Len(L[k]) /\ x = L[k][i]
  /\ DOMAIN mid = DOMAIN node
  /\ mid[x].next = 0
  /\ i > 1 => mid[L[k][i - 1]].next = node[x].next
  /\ \A y \in DOMAIN node :
       y # x /\ (i > 1 => y # L[k][i - 1]) => mid[y].next = node[y].next

\* The end of a list is still its end when a node of another one was taken out.
LEMMA FinalAfter ==
  ASSUME NEW node, NEW head, NEW L, Lists(node, head, L),
         NEW h, NEW k, NEW l, NEW i, NEW x, NEW mid,
         TakenOut(node, L, h, k, l, i, x, mid), Len(L[l]) > 0
  PROVE  Final(mid, head[l]) = L[l][Len(L[l])]
<1> USE DEF TakenOut
<1>1. PICK headm : /\ DOMAIN headm = DOMAIN L /\ headm[h] = x
                   /\ headm[k] = IF i = 1 THEN node[x].next ELSE head[k]
                   /\ \A m \in DOMAIN L \ {h, k} : headm[m] = head[m]
  <2> DEFINE f == [m \in DOMAIN L |->
                     IF m = h THEN x
                     ELSE IF m = k THEN (IF i = 1 THEN node[x].next ELSE head[k])
                     ELSE head[m]]
  <2>1. /\ DOMAIN f = DOMAIN L /\ f[h] = x
        /\ f[k] = IF i = 1 THEN node[x].next ELSE head[k]
        /\ \A m \in DOMAIN L \ {h, k} : f[m] = head[m]
    OBVIOUS
  <2> QED
    BY <2>1
<1>2. PICK Lm : /\ DOMAIN Lm = DOMAIN L /\ Single(Lm[h], x) /\ Lm[k] = Without(L[k], i)
                /\ \A m \in DOMAIN L \ {h, k} : Lm[m] = L[m]
  <2>s. PICK one : Single(one, x)
    BY SingleIs
  <2> DEFINE f == [m \in DOMAIN L |->
                     IF m = h THEN one ELSE IF m = k THEN Without(L[k], i) ELSE L[m]]
  <2>1. /\ DOMAIN f = DOMAIN L /\ Single(f[h], x) /\ f[k] = Without(L[k], i)
        /\ \A m \in DOMAIN L \ {h, k} : f[m] = L[m]
    BY <2>s
  <2> QED
    BY <2>1
<1>3. Detached(node, head, L, h, k, i, x, mid, headm, Lm)
  BY <1>1, <1>2 DEF Detached
<1>4. Lists(mid, headm, Lm)
  BY <1>3, Detach
<1>5. Lm[l] = L[l] /\ headm[l] = head[l] /\ l \in DOMAIN Lm
  BY <1>1, <1>2
<1>6. Final(mid, headm[l]) = Lm[l][Len(Lm[l])]
  BY <1>4, <1>5, Neighbours
<1> QED
  BY <1>5, <1>6

\* What AddLast makes of the list pointers.
LEMMA AddLastIs ==
  ASSUME NEW node, NEW a, NEW x, NEW z, z = Final(node, a), z \in DOMAIN node,
         NEW u, u = AddLast(node, a, x)
  PROVE  /\ DOMAIN u = DOMAIN node
         /\ u[z] = [node[z] EXCEPT !.next = x]
         /\ \A y \in DOMAIN node : y # z => u[y] = node[y]
BY DEF AddLast

\* The code that moves x from one list to the end of another one: x is unlinked, its own
\* pointer is null then, and it is put behind the last node.
MovedBy(node, head, L, h, k, l, i, x, u, alone, node2) ==
  /\ h \in DOMAIN L /\ Len(L[h]) = 0
  /\ k \in DOMAIN L /\ l \in DOMAIN L /\ k # h /\ l # h /\ k # l
  /\ i \in 1 .. Len(L[k]) /\ x = L[k][i]
  /\ u = IF head[k] = x THEN node ELSE Unlink(node, head[k], x)
  /\ DOMAIN alone = DOMAIN node /\ alone[x].next = 0
  /\ alone[x] = node[x] \/ alone[x] = [node[x] EXCEPT !.next = 0]
  /\ \A y \in DOMAIN node : y # x => alone[y] = u[y]
  /\ node2 = IF head[l] = 0 THEN alone ELSE AddLast(alone, head[l], x)
  /\ \A y \in DOMAIN node, v \in DOMAIN node \cup {0} : [node[y] EXCEPT !.next = v].next = v

\* Nothing of a node but its next pointer is written.
OnlyNext(node, node2) ==
  \A y \in DOMAIN node :
    \/ node2[y] = node[y]
    \/ \E v \in DOMAIN node \cup {0} : node2[y] = [node[y] EXCEPT !.next = v]

\* The code that takes a node out of a list and appends it to another one moves it.
LEMMA MoveCode ==
  ASSUME NEW node, NEW head, NEW L, Lists(node, head, L),
         NEW h, NEW k, NEW l, NEW i, NEW x, NEW u, NEW alone, NEW node2,
         MovedBy(node, head, L, h, k, l, i, x, u, alone, node2)
  PROVE  /\ MovedNodes(node, L, h, k, l, i, x, node2)
         /\ head[k] = x <=> i = 1
         /\ OnlyNext(node, node2)
<1>1. /\ h \in DOMAIN L /\ Len(L[h]) = 0
      /\ k \in DOMAIN L /\ l \in DOMAIN L /\ k # h /\ l # h /\ k # l
      /\ i \in 1 .. Len(L[k]) /\ x = L[k][i]
  BY DEF MovedBy
<1>2. /\ u = IF head[k] = x THEN node ELSE Unlink(node, head[k], x)
      /\ DOMAIN alone = DOMAIN node /\ alone[x].next = 0
      /\ alone[x] = node[x] \/ alone[x] = [node[x] EXCEPT !.next = 0]
      /\ \A y \in DOMAIN node : y # x => alone[y] = u[y]
      /\ node2 = IF head[l] = 0 THEN alone ELSE AddLast(alone, head[l], x)
      /\ \A y \in DOMAIN node, v \in DOMAIN node \cup {0} :
           [node[y] EXCEPT !.next = v].next = v
  BY DEF MovedBy
<1>3. /\ Len(L[k]) \in Nat /\ Len(L[l]) \in Nat
      /\ \A j \in 1 .. Len(L[k]) : L[k][j] \in DOMAIN node
      /\ \A j \in 1 .. Len(L[l]) : L[l][j] \in DOMAIN node
      /\ \A j \in 1 .. Len(L[k]) - 1 : node[L[k][j]].next = L[k][j + 1]
      /\ Len(L[k]) > 0 => node[L[k][Len(L[k])]].next = 0
      /\ Len(L[l]) = 0 <=> head[l] = 0
  BY <1>1, ListFacts
<1>4. PICK n : n = Len(L[l])
  OBVIOUS
<1>5. PICK z : z = L[l][n]
  OBVIOUS
<1>6. PICK p : p = L[k][i - 1]
  OBVIOUS
<1>7. PICK w : w = node[x].next
  OBVIOUS
<1>8. x \in DOMAIN node /\ w \in DOMAIN node \cup {0}
  <2>1. CASE i = Len(L[k])
    BY <1>1, <1>3, <1>7, <2>1
  <2>2. CASE i # Len(L[k])
    <3>1. i \in 1 .. Len(L[k]) - 1 /\ i + 1 \in 1 .. Len(L[k])
      BY <1>1, <1>3, <2>2
    <3> QED
      BY <1>1, <1>3, <1>7, <3>1
  <2> QED
    BY <2>1, <2>2
<1>9. /\ head[k] = x <=> i = 1
      /\ DOMAIN u = DOMAIN node
      /\ i > 1 => p \in DOMAIN node /\ p # x /\ u[p] = [node[p] EXCEPT !.next = w]
      /\ \A y \in DOMAIN node : (i > 1 => y # p) => u[y] = node[y]
  <2>1. k \in DOMAIN L /\ i \in 1 .. Len(L[k]) /\ x = L[k][i]
    BY <1>1
  <2>2. u = IF head[k] = x THEN node ELSE Unlink(node, head[k], x)
    BY <1>2
  <2>3. /\ head[k] = x <=> i = 1
        /\ DOMAIN u = DOMAIN node
        /\ i > 1 => /\ L[k][i - 1] \in DOMAIN node /\ L[k][i - 1] # x
                    /\ u[L[k][i - 1]] = [node[L[k][i - 1]] EXCEPT !.next = node[x].next]
        /\ \A y \in DOMAIN node : (i > 1 => y # L[k][i - 1]) => u[y] = node[y]
    BY <2>1, <2>2, UnlinkIs
  <2> QED
    BY <1>6, <1>7, <2>3
<1>10. n > 0 => z \in DOMAIN node /\ z # x /\ (i > 1 => z # p)
  <2> SUFFICES ASSUME n > 0
               PROVE  z \in DOMAIN node /\ z # x /\ (i > 1 => z # p)
    OBVIOUS
  <2>1. n \in 1 .. Len(L[l])
    BY <1>3, <1>4
  <2>2. i > 1 => i - 1 \in 1 .. Len(L[k])
    BY <1>1, <1>3
  <2>3. z \in DOMAIN node /\ z # x
    BY <1>1, <1>3, <1>5, <2>1, OnePlace
  <2>4. i > 1 => z # p
    BY <1>1, <1>5, <1>6, <2>1, <2>2, OnePlace
  <2> QED
    BY <2>3, <2>4
<1>11. /\ alone[x].next = 0
       /\ i > 1 => alone[p] = [node[p] EXCEPT !.next = w]
       /\ \A y \in DOMAIN node : y # x /\ (i > 1 => y # p) => alone[y] = node[y]
  BY <1>2, <1>9
<1>12. i > 1 => alone[p].next = w
  <2> SUFFICES ASSUME i > 1
               PROVE  alone[p].next = w
    OBVIOUS
  <2>1. p \in DOMAIN node /\ alone[p] = [node[p] EXCEPT !.next = w]
    BY <1>9, <1>11
  <2>2. [node[p] EXCEPT !.next = w].next = w
    BY <1>2, <1>8, <2>1
  <2> QED
    BY <2>1, <2>2
<1>13. TakenOut(node, L, h, k, l, i, x, alone)
  BY <1>1, <1>2, <1>6, <1>7, <1>11, <1>12 DEF TakenOut
<1>14. /\ DOMAIN node2 = DOMAIN node
       /\ n > 0 => node2[z] = [node[z] EXCEPT !.next = x]
       /\ \A y \in DOMAIN node : (n > 0 => y # z) => node2[y] = alone[y]
  <2>1. CASE n = 0
    BY <1>2, <1>3, <1>4, <2>1
  <2>2. CASE n > 0
    <3>1. Final(alone, head[l]) = z
      BY <1>4, <1>5, <1>13, <2>2, FinalAfter
    <3>2. node2 = AddLast(alone, head[l], x)
      BY <1>2, <1>3, <1>4, <2>2
    <3>3. /\ DOMAIN node2 = DOMAIN alone
          /\ node2[z] = [alone[z] EXCEPT !.next = x]
          /\ \A y \in DOMAIN alone : y # z => node2[y] = alone[y]
      BY <1>2, <1>10, <2>2, <3>1, <3>2, AddLastIs
    <3>4. alone[z] = node[z]
      BY <1>10, <1>11, <2>2
    <3> QED
      BY <1>2, <2>2, <3>3, <3>4
  <2> QED
    BY <1>3, <1>4, <2>1, <2>2
<1>15. /\ node2[x] = alone[x]
       /\ i > 1 => node2[p] = alone[p]
       /\ \A y \in DOMAIN node :
            y # x /\ (i > 1 => y # p) /\ (n > 0 => y # z) => node2[y] = node[y]
  BY <1>8, <1>9, <1>10, <1>11, <1>14
<1>16. n > 0 => node2[z].next = x
  <2> SUFFICES ASSUME n > 0
               PROVE  node2[z].next = x
    OBVIOUS
  <2>1. z \in DOMAIN node /\ node2[z] = [node[z] EXCEPT !.next = x]
    BY <1>10, <1>14
  <2>2. [node[z] EXCEPT !.next = x].next = x
    BY <1>2, <1>8, <2>1
  <2> QED
    BY <2>1, <2>2
<1>17. MovedNodes(node, L, h, k, l, i, x, node2)
  <2>1. node2[x].next = 0
    BY <1>11, <1>15
  <2>2. i > 1 => node2[L[k][i - 1]].next = node[x].next
    BY <1>6, <1>7, <1>12, <1>15
  <2>3. Len(L[l]) > 0 => node2[L[l][Len(L[l])]].next = x
    BY <1>4, <1>5, <1>16
  <2>4. ASSUME NEW y \in DOMAIN node, y # x, i > 1 => y # L[k][i - 1],
               Len(L[l]) > 0 => y # L[l][Len(L[l])]
        PROVE  node2[y].next = node[y].next
    BY <1>4, <1>5, <1>6, <1>15, <2>4
  <2> QED
    BY <1>1, <1>14, <2>1, <2>2, <2>3, <2>4 DEF MovedNodes
<1>18. ASSUME NEW y \in DOMAIN node
       PROVE  \/ node2[y] = node[y]
              \/ \E v \in DOMAIN node \cup {0} : node2[y] = [node[y] EXCEPT !.next = v]
  <2>1. CASE y = x
    BY <1>2, <1>15, <2>1
  <2>2. CASE i > 1 /\ y = p
    BY <1>8, <1>11, <1>15, <2>2
  <2>3. CASE n > 0 /\ y = z
    BY <1>8, <1>14, <2>3
  <2>4. CASE y # x /\ (i > 1 => y # p) /\ (n > 0 => y # z)
    BY <1>15, <2>4
  <2> QED
    BY <2>1, <2>2, <2>3, <2>4
<1>19. OnlyNext(node, node2)
  BY <1>18 DEF OnlyNext
<1> QED
  BY <1>9, <1>17, <1>19

-----------------------------------------------------------------------------
(* The heap's lists.                                                       *)

\* The slabs are on the lists of the caches or on the free list; the hand, always
\* empty between two steps, is for one that is being moved.
AvailKey(c) == <<"available", c>>
FullKey(c) == <<"full", c>>
FreeKey == <<"free", 0>>
HandKey == <<"hand", 0>>
SlabKeys == {"available", "full", "free", "hand"} \X Nat

\* The lists have names of their own.
LEMMA KeyFacts ==
  /\ FreeKey \in SlabKeys /\ HandKey \in SlabKeys /\ FreeKey # HandKey
  /\ \A c \in Nat :
       /\ AvailKey(c) \in SlabKeys /\ FullKey(c) \in SlabKeys
       /\ AvailKey(c) # FreeKey /\ AvailKey(c) # HandKey
       /\ FullKey(c) # FreeKey /\ FullKey(c) # HandKey
  /\ \A c, d \in Nat :
       /\ AvailKey(c) # FullKey(d)
       /\ AvailKey(c) = AvailKey(d) => c = d
       /\ FullKey(c) = FullKey(d) => c = d
BY DEF AvailKey, FullKey, FreeKey, HandKey, SlabKeys

AvailableOf(cs, c) == IF c \in DOMAIN cs THEN cs[c].available ELSE 0
FullOf(cs, c) == IF c \in DOMAIN cs THEN cs[c].full ELSE 0

\* Where the lists of slabs start, with the caches cs and the free list at f.
SlabHeads(cs, f) ==
  [k \in SlabKeys |-> IF k[1] = "available" THEN AvailableOf(cs, k[2])
                      ELSE IF k[1] = "full" THEN FullOf(cs, k[2])
                      ELSE IF k = FreeKey THEN f ELSE 0]

\* Where each list of slabs starts.
LEMMA HeadsAre ==
  ASSUME NEW cs, NEW f
  PROVE  /\ DOMAIN SlabHeads(cs, f) = SlabKeys
         /\ \A c \in Nat : /\ SlabHeads(cs, f)[AvailKey(c)] = AvailableOf(cs, c)
                           /\ SlabHeads(cs, f)[FullKey(c)] = FullOf(cs, c)
         /\ SlabHeads(cs, f)[FreeKey] = f
         /\ SlabHeads(cs, f)[HandKey] = 0
         /\ \A k \in SlabKeys : k # FreeKey /\ (\A c \in Nat : k # AvailKey(c) /\ k # FullKey(c))
                                => SlabHeads(cs, f)[k] = 0
<1>1. DOMAIN SlabHeads(cs, f) = SlabKeys
  BY DEF SlabHeads
<1>2. ASSUME NEW c \in Nat
      PROVE  /\ SlabHeads(cs, f)[AvailKey(c)] = AvailableOf(cs, c)
             /\ SlabHeads(cs, f)[FullKey(c)] = FullOf(cs, c)
  <2>1. AvailKey(c) \in SlabKeys /\ AvailKey(c)[1] = "available" /\ AvailKey(c)[2] = c
    BY DEF AvailKey, SlabKeys
  <2>2. FullKey(c) \in SlabKeys /\ FullKey(c)[1] = "full" /\ FullKey(c)[2] = c
    BY DEF FullKey, SlabKeys
  <2> QED
    BY <2>1, <2>2 DEF SlabHeads
<1>3. SlabHeads(cs, f)[FreeKey] = f
  <2>1. FreeKey \in SlabKeys /\ FreeKey[1] = "free"
    BY DEF FreeKey, SlabKeys
  <2> QED
    BY <2>1 DEF SlabHeads
<1>4. SlabHeads(cs, f)[HandKey] = 0
  <2>1. HandKey \in SlabKeys /\ HandKey[1] = "hand" /\ HandKey # FreeKey
    BY DEF HandKey, FreeKey, SlabKeys
  <2> QED
    BY <2>1 DEF SlabHeads
<1>5. ASSUME NEW k \in SlabKeys, k # FreeKey, \A c \in Nat : k # AvailKey(c) /\ k # FullKey(c)
      PROVE  SlabHeads(cs, f)[k] = 0
  <2>1. k[1] # "available" /\ k[1] # "full"
    BY <1>5 DEF AvailKey, FullKey, SlabKeys
  <2> QED
    BY <1>5, <2>1 DEF SlabHeads
<1> QED
  BY <1>1, <1>2, <1>3, <1>4, <1>5

\* The lists of K start where they did.
LEMMA HeadsAgree ==
  ASSUME NEW cs, NEW f, NEW cs2, NEW f2, NEW K \in SUBSET SlabKeys,
         \A c \in Nat : /\ AvailKey(c) \in K => AvailableOf(cs2, c) = AvailableOf(cs, c)
                        /\ FullKey(c) \in K => FullOf(cs2, c) = FullOf(cs, c),
         FreeKey \in K => f2 = f
  PROVE  \A k \in K : SlabHeads(cs2, f2)[k] = SlabHeads(cs, f)[k]
<1> SUFFICES ASSUME NEW k \in K
             PROVE  SlabHeads(cs2, f2)[k] = SlabHeads(cs, f)[k]
  OBVIOUS
<1>1. CASE k = FreeKey
  BY <1>1, HeadsAre
<1>2. CASE \E c \in Nat : k = AvailKey(c)
  BY <1>2, HeadsAre
<1>3. CASE \E c \in Nat : k = FullKey(c)
  BY <1>3, HeadsAre
<1>4. CASE k # FreeKey /\ \A c \in Nat : k # AvailKey(c) /\ k # FullKey(c)
  <2>1. SlabHeads(cs2, f2)[k] = 0
    BY <1>4, HeadsAre
  <2>2. SlabHeads(cs, f)[k] = 0
    BY <1>4, HeadsAre
  <2> QED
    BY <2>1, <2>2
<1> QED
  BY <1>1, <1>2, <1>3, <1>4

\* Heads depend on nothing else in the caches.
LEMMA HeadsSame ==
  ASSUME NEW cs, NEW f, NEW cs2,
         \A c \in Nat : /\ AvailableOf(cs2, c) = AvailableOf(cs, c)
                        /\ FullOf(cs2, c) = FullOf(cs, c)
  PROVE  SlabHeads(cs2, f) = SlabHeads(cs, f)
<1>1. PICK g : g = SlabHeads(cs, f)
  OBVIOUS
<1>2. PICK g2 : g2 = SlabHeads(cs2, f)
  OBVIOUS
<1>3. \A k \in SlabKeys : g2[k] = g[k]
  BY <1>1, <1>2, HeadsAgree
<1>4. g = [k \in SlabKeys |-> g[k]] /\ g2 = [k \in SlabKeys |-> g2[k]]
  BY <1>1, <1>2 DEF SlabHeads
<1> QED
  BY <1>1, <1>2, <1>3, <1>4

SlabHead == SlabHeads(caches, free_space_for_slab)

\* The caches are on the list of those in use or on the free list.
CacheKeys == {"used", "free", "hand"}

CacheHeads(u, f) ==
  [k \in CacheKeys |-> IF k = "used" THEN u ELSE IF k = "free" THEN f ELSE 0]

\* Where each list of caches starts.
LEMMA CacheHeadsAre ==
  ASSUME NEW u, NEW f
  PROVE  /\ DOMAIN CacheHeads(u, f) = CacheKeys
         /\ CacheHeads(u, f)["used"] = u
         /\ CacheHeads(u, f)["free"] = f
         /\ CacheHeads(u, f)["hand"] = 0
BY DEF CacheHeads, CacheKeys

CacheHead == CacheHeads(first_cache, free_space_for_cache)

-----------------------------------------------------------------------------
(* The invariant of the lists.                                             *)

IsCache(r) == r \in [next : Nat, size : Nat, available : Nat, full : Nat]

IsSlab(r) ==
  /\ r = [next |-> r.next, allocated |-> r.allocated, max |-> r.max,
          first_free |-> r.first_free]
  /\ r.next \in Nat /\ r.allocated \in Int /\ r.max \in Int

\* The headers are in their places, apart and below free_space.
SpaceInv ==
  /\ free_space \in Nat /\ Base + HeapHeader <= free_space /\ free_space <= HeapEnd
  /\ \A c \in DOMAIN caches :
       /\ IsCache(caches[c])
       /\ c \in Nat /\ Base + HeapHeader <= c /\ c + CacheBytes <= free_space
  /\ \A s \in DOMAIN slabs :
       /\ IsSlab(slabs[s])
       /\ s \in Nat /\ Base + HeapHeader <= s /\ s + SlabBytes <= free_space
  /\ \A s, t \in DOMAIN slabs : s = t \/ s + SlabBytes <= t \/ t + SlabBytes <= s
  /\ DOMAIN caches = {} => free_space = Base + HeapHeader

\* L are the lists of slabs, M those of caches.
ListsInv(L, M) ==
  /\ Lists(slabs, SlabHead, L)
  /\ Lists(caches, CacheHead, M)

\* Caches in use have sizes of their own; the others have no slabs.
CachesInv(M) ==
  /\ \A c \in Range(M["used"]) : caches[c].size \in WordBytes .. SlabSize
  /\ \A c, d \in Range(M["used"]) : caches[c].size = caches[d].size => c = d
  /\ \A c \in DOMAIN caches : c \notin Range(M["used"]) => EmptyCache(c)

\* The slabs of the full lists have no free object, those of the others have one.
FullInv(L) ==
  \A c \in Nat :
    /\ \A s \in Range(L[FullKey(c)]) :
         slabs[s].allocated = slabs[s].max \/ (pc = "unfull" /\ s = slab)
    /\ \A s \in Range(L[AvailKey(c)]) : slabs[s].allocated < slabs[s].max

\* What the parts of a call rely on.
CallInv(L, M) ==
  /\ pc \in {"idle", "cache", "slab", "unfull", "count", "empty"}
  /\ pc \in {"cache", "slab"} => size \in WordBytes .. SlabSize
  /\ pc \in {"slab", "unfull", "count", "empty"} => cache \in Range(M["used"])
  /\ pc = "slab" => caches[cache].size = size
  /\ pc = "unfull" => /\ slab \in Range(L[FullKey(cache)]) /\ slabs[slab].next = 0
                      /\ slabs[slab].allocated < slabs[slab].max
  /\ pc = "count" => slab \in Range(L[AvailKey(cache)])

ListedInv(L, M) ==
  SpaceInv /\ ListsInv(L, M) /\ CachesInv(M) /\ FullInv(L) /\ CallInv(L, M)

\* The slabs of cache c.
SlabsOf(L, c) == Range(L[AvailKey(c)]) \cup Range(L[FullKey(c)])

\* What the lists are, in the operators of the model.
LEMMA ListsAre ==
  ASSUME NEW L, NEW M, ListedInv(L, M)
  PROVE  /\ DOMAIN L = SlabKeys /\ DOMAIN M = CacheKeys
         /\ CacheList = M["used"]
         /\ Walk(caches, free_space_for_cache) = M["free"]
         /\ Walk(slabs, free_space_for_slab) = L[FreeKey]
         /\ \A c \in DOMAIN caches :
              /\ c \in Nat /\ Available(c) = L[AvailKey(c)] /\ Full(c) = L[FullKey(c)]
              /\ SlabHead[AvailKey(c)] = caches[c].available
              /\ SlabHead[FullKey(c)] = caches[c].full
         /\ \A k \in CacheKeys : Range(M[k]) \subseteq DOMAIN caches
         /\ \A k \in SlabKeys : Range(L[k]) \subseteq DOMAIN slabs
         /\ Len(L[HandKey]) = 0 /\ Len(M["hand"]) = 0
<1>1. Lists(slabs, SlabHead, L) /\ Lists(caches, CacheHead, M)
  BY DEF ListedInv, ListsInv
<1>2. DOMAIN L = SlabKeys
  BY <1>1, HeadsAre DEF Lists, SlabHead
<1>3. DOMAIN M = CacheKeys
  BY <1>1, CacheHeadsAre DEF Lists, CacheHead
<1>4. "used" \in CacheKeys /\ "free" \in CacheKeys /\ "hand" \in CacheKeys
  BY DEF CacheKeys
<1>5. /\ CacheHead["used"] = first_cache /\ CacheHead["free"] = free_space_for_cache
      /\ CacheHead["hand"] = 0
  BY CacheHeadsAre DEF CacheHead
<1>6. CacheList = M["used"] /\ Walk(caches, free_space_for_cache) = M["free"]
  <2>1. /\ Walk(caches, CacheHead["used"]) = M["used"]
        /\ Walk(caches, CacheHead["free"]) = M["free"]
    BY <1>1, <1>3, <1>4, ListsWalk
  <2> QED
    BY <1>5, <2>1 DEF CacheList
<1>7. Walk(slabs, free_space_for_slab) = L[FreeKey]
  <2>1. Walk(slabs, SlabHead[FreeKey]) = L[FreeKey]
    BY <1>1, <1>2, KeyFacts, ListsWalk
  <2> QED
    BY <2>1, HeadsAre DEF SlabHead
<1>8. ASSUME NEW c \in DOMAIN caches
      PROVE  /\ c \in Nat /\ Available(c) = L[AvailKey(c)] /\ Full(c) = L[FullKey(c)]
             /\ SlabHead[AvailKey(c)] = caches[c].available
             /\ SlabHead[FullKey(c)] = caches[c].full
  <2>1. c \in Nat
    BY DEF ListedInv, SpaceInv
  <2>2. /\ SlabHead[AvailKey(c)] = caches[c].available
        /\ SlabHead[FullKey(c)] = caches[c].full
    <3>1. /\ SlabHead[AvailKey(c)] = AvailableOf(caches, c)
          /\ SlabHead[FullKey(c)] = FullOf(caches, c)
      BY <2>1, HeadsAre DEF SlabHead
    <3> QED
      BY <3>1 DEF AvailableOf, FullOf
  <2>3. /\ Walk(slabs, SlabHead[AvailKey(c)]) = L[AvailKey(c)]
        /\ Walk(slabs, SlabHead[FullKey(c)]) = L[FullKey(c)]
    BY <1>1, <1>2, <2>1, KeyFacts, ListsWalk
  <2> QED
    BY <2>1, <2>2, <2>3 DEF Available, Full
<1>9. \A k \in CacheKeys : Range(M[k]) \subseteq DOMAIN caches
  <2>1. ASSUME NEW k \in CacheKeys, NEW x \in Range(M[k])
        PROVE  x \in DOMAIN caches
    BY <1>1, <1>3, <2>1, ListFacts
  <2> QED
    BY <2>1
<1>10. \A k \in SlabKeys : Range(L[k]) \subseteq DOMAIN slabs
  <2>1. ASSUME NEW k \in SlabKeys, NEW x \in Range(L[k])
        PROVE  x \in DOMAIN slabs
    BY <1>1, <1>2, <2>1, ListFacts
  <2> QED
    BY <2>1
<1>11. Len(L[HandKey]) = 0
  <2>1. SlabHead[HandKey] = 0
    BY HeadsAre DEF SlabHead
  <2>2. HandKey \in DOMAIN L
    BY <1>2, KeyFacts
  <2>3. Len(L[HandKey]) = 0 <=> SlabHead[HandKey] = 0
    BY <1>1, <2>2, ListFacts
  <2> QED
    BY <2>1, <2>3
<1>12. Len(M["hand"]) = 0
  BY <1>1, <1>3, <1>4, <1>5, ListFacts
<1> QED
  BY <1>2, <1>3, <1>6, <1>7, <1>8, <1>9, <1>10, <1>11, <1>12

\* Without nodes all lists are empty.
LEMMA NoLists ==
  ASSUME NEW node, DOMAIN node = {}, NEW K, NEW head, DOMAIN head = K,
         \A k \in K : head[k] = 0,
         NEW L, DOMAIN L = K, NEW empty, Len(empty) = 0, \A S : empty \in Seq(S),
         \A k \in K : L[k] = empty
  PROVE  Lists(node, head, L)
<1>1. ASSUME NEW k \in K
      PROVE  ListAt(node, head[k], L[k])
  <2>1. ListAt(node, 0, empty)
    BY DEF ListAt
  <2> QED
    BY <2>1
<1> QED
  BY <1>1 DEF Lists

\* Init: no lists.
LEMMA ListedInit ==
  Init => \E L, M : ListedInv(L, M)
<1> SUFFICES ASSUME Init
             PROVE  \E L, M : ListedInv(L, M)
  OBVIOUS
<1>1. DOMAIN caches = {} /\ DOMAIN slabs = {}
  BY DEF Init
<1>2. PICK empty : Len(empty) = 0 /\ Range(empty) = {} /\ \A S : empty \in Seq(S)
  <2>1. Len(<< >>) = 0 /\ Range(<< >>) = {} /\ \A S : << >> \in Seq(S)
    BY EmptySeq DEF Range
  <2> QED
    BY <2>1
<1>3. PICK L : DOMAIN L = SlabKeys /\ \A k \in SlabKeys : L[k] = empty
  <2> DEFINE f == [k \in SlabKeys |-> empty]
  <2>1. DOMAIN f = SlabKeys /\ \A k \in SlabKeys : f[k] = empty
    OBVIOUS
  <2> HIDE DEF f
  <2> QED
    BY <2>1
<1>4. PICK M : DOMAIN M = CacheKeys /\ \A k \in CacheKeys : M[k] = empty
  <2> DEFINE f == [k \in CacheKeys |-> empty]
  <2>1. DOMAIN f = CacheKeys /\ \A k \in CacheKeys : f[k] = empty
    OBVIOUS
  <2> HIDE DEF f
  <2> QED
    BY <2>1
<1>5. /\ DOMAIN SlabHead = SlabKeys /\ \A k \in SlabKeys : SlabHead[k] = 0
  <2>1. \A c \in Nat : AvailableOf(caches, c) = 0 /\ FullOf(caches, c) = 0
    BY <1>1 DEF AvailableOf, FullOf
  <2>2. free_space_for_slab = 0
    BY DEF Init
  <2>3. DOMAIN SlabHead = SlabKeys
    BY HeadsAre DEF SlabHead
  <2> QED
    BY <2>1, <2>2, <2>3 DEF SlabHead, SlabHeads, SlabKeys
<1>6. DOMAIN CacheHead = CacheKeys /\ \A k \in CacheKeys : CacheHead[k] = 0
  BY DEF Init, CacheHead, CacheHeads
<1>7. Lists(slabs, SlabHead, L)
  BY <1>1, <1>2, <1>3, <1>5, NoLists
<1>8. Lists(caches, CacheHead, M)
  BY <1>1, <1>2, <1>4, <1>6, NoLists
<1>9. SpaceInv
  BY <1>1, HeapAssumption DEF Init, SpaceInv, HeapEnd, HeapHeader, CacheBytes
<1>10. CachesInv(M)
  BY <1>1, <1>2, <1>4 DEF CachesInv, CacheKeys
<1>11. FullInv(L)
  BY <1>2, <1>3, KeyFacts DEF FullInv
<1>12. CallInv(L, M)
  BY DEF Init, CallInv
<1> QED
  BY <1>7, <1>8, <1>9, <1>10, <1>11, <1>12 DEF ListedInv, ListsInv

\* Steps that touch no header.
LEMMA HeadersKept ==
  ASSUME NEW L, NEW M, ListedInv(L, M),
         UNCHANGED <<first_cache, caches, slabs, space>>
  PROVE  (SpaceInv /\ ListsInv(L, M) /\ CachesInv(M))'
<1>1. /\ first_cache' = first_cache /\ caches' = caches /\ slabs' = slabs
      /\ free_space_for_cache' = free_space_for_cache
      /\ free_space_for_slab' = free_space_for_slab /\ free_space' = free_space
  BY DEF space
<1>2. SpaceInv'
  BY <1>1 DEF ListedInv, SpaceInv
<1>3. ListsInv(L, M)'
  BY <1>1 DEF ListedInv, ListsInv, SlabHead, CacheHead
<1>4. CachesInv(M)'
  BY <1>1 DEF ListedInv, CachesInv, EmptyCache
<1> QED
  BY <1>2, <1>3, <1>4

\* The parts of a call that only choose what comes next.
QuietStep ==
  \/ \E n \in Requests : Malloc(n) \/ MallocLarge(n)
  \/ FindCache \/ NoCache \/ NoSlab \/ KeepSlab \/ KeepCache
  \/ \E o \in owned : FreeLarge(o)
  \/ UNCHANGED vars

\* Those steps keep the lists.
LEMMA ListedQuiet ==
  ASSUME NEW L, NEW M, ListedInv(L, M), QuietStep
  PROVE  ListedInv(L, M)' /\ UNCHANGED <<first_cache, caches, slabs, link, null_word, space>>
<1>1. UNCHANGED <<first_cache, caches, slabs, link, null_word, space>>
  BY DEF QuietStep, Malloc, MallocLarge, FindCache, NoCache, NoSlab, KeepSlab, KeepCache,
         FreeLarge, vars, lists
<1>2. (SpaceInv /\ ListsInv(L, M) /\ CachesInv(M))'
  BY <1>1, HeadersKept
<1>3. slabs' = slabs /\ caches' = caches
  BY <1>1
<1>4. FullInv(L)'
  <2>1. \A c \in Nat : /\ \A s \in Range(L[FullKey(c)]) :
                            slabs[s].allocated = slabs[s].max \/ (pc = "unfull" /\ s = slab)
                       /\ \A s \in Range(L[AvailKey(c)]) : slabs[s].allocated < slabs[s].max
    BY DEF ListedInv, FullInv
  <2>2. pc = "unfull" => pc' = "unfull" /\ slab' = slab
    BY DEF QuietStep, Malloc, MallocLarge, FindCache, NoCache, NoSlab, KeepSlab, KeepCache,
           FreeLarge, vars, locals
  <2> QED
    BY <1>3, <2>1, <2>2 DEF FullInv
<1>5. CallInv(L, M)'
  <2>0. CallInv(L, M)
    BY DEF ListedInv
  <2>1. CASE \E n \in Requests : Malloc(n)
    <3>1. PICK n \in Requests : Malloc(n)
      BY <2>1
    <3>2. n \in Nat /\ SlabSize \in Nat /\ SlabSize >= WordBytes
      BY HeapAssumption
    <3>3. size' \in WordBytes .. SlabSize /\ pc' = "cache"
      BY <3>1, <3>2 DEF Malloc, WordBytes
    <3> QED
      BY <3>3 DEF CallInv
  <2>2. CASE \E n \in Requests : MallocLarge(n)
    BY <1>3, <2>0, <2>2 DEF MallocLarge, CallInv, locals
  <2>3. CASE FindCache
    <3>1. cache' \in Serving /\ pc' = "slab" /\ size' = size /\ pc = "cache"
      BY <2>3 DEF FindCache
    <3>2. CacheList = M["used"]
      BY ListsAre
    <3>3. cache' \in Range(M["used"]) /\ caches[cache'].size = size
      BY <3>1, <3>2 DEF Serving
    <3> QED
      BY <1>3, <2>0, <3>1, <3>3 DEF CallInv
  <2>4. CASE NoCache \/ NoSlab \/ KeepSlab \/ KeepCache
    <3>1. pc' = "idle"
      BY <2>4 DEF NoCache, NoSlab, KeepSlab, KeepCache, Done
    <3> QED
      BY <3>1 DEF CallInv
  <2>5. CASE \E o \in owned : FreeLarge(o)
    BY <1>3, <2>0, <2>5 DEF FreeLarge, CallInv, locals
  <2>6. CASE UNCHANGED vars
    BY <1>3, <2>0, <2>6 DEF CallInv, vars, locals
  <2> QED
    BY <2>1, <2>2, <2>3, <2>4, <2>5, <2>6 DEF QuietStep
<1> QED
  BY <1>1, <1>2, <1>4, <1>5 DEF ListedInv

\* One field of a header is written.
LEMMA SlabFields ==
  ASSUME NEW r, IsSlab(r)
  PROVE  /\ \A v \in Nat : /\ IsSlab([r EXCEPT !.next = v])
                           /\ [r EXCEPT !.next = v].next = v
                           /\ [r EXCEPT !.next = v].allocated = r.allocated
                           /\ [r EXCEPT !.next = v].max = r.max
                           /\ [r EXCEPT !.next = v].first_free = r.first_free
         /\ \A v \in Int : /\ IsSlab([r EXCEPT !.allocated = v])
                           /\ [r EXCEPT !.allocated = v].next = r.next
                           /\ [r EXCEPT !.allocated = v].allocated = v
                           /\ [r EXCEPT !.allocated = v].max = r.max
                           /\ [r EXCEPT !.allocated = v].first_free = r.first_free
         /\ \A v : /\ IsSlab([r EXCEPT !.first_free = v])
                   /\ [r EXCEPT !.first_free = v].next = r.next
                   /\ [r EXCEPT !.first_free = v].allocated = r.allocated
                   /\ [r EXCEPT !.first_free = v].max = r.max
                   /\ [r EXCEPT !.first_free = v].first_free = v
<1>1. PICK n, m, al, ff : /\ n \in Nat /\ m \in Int /\ al \in Int
                          /\ r = [next |-> n, allocated |-> al, max |-> m, first_free |-> ff]
  BY DEF IsSlab
<1>2. \A v : [r EXCEPT !.next = v]
               = [next |-> v, allocated |-> al, max |-> m, first_free |-> ff]
  BY <1>1
<1>3. \A v : [r EXCEPT !.allocated = v]
               = [next |-> n, allocated |-> v, max |-> m, first_free |-> ff]
  BY <1>1
<1>4. \A v : [r EXCEPT !.first_free = v]
               = [next |-> n, allocated |-> al, max |-> m, first_free |-> v]
  BY <1>1
<1> QED
  BY <1>1, <1>2, <1>3, <1>4 DEF IsSlab

\* free changes the count and the chain of one slab.
LEMMA GiveBackIs ==
  ASSUME NEW s \in DOMAIN slabs, NEW a, IsSlab(slabs[s]), GiveBack(s, a)
  PROVE  /\ DOMAIN slabs' = DOMAIN slabs
         /\ IsSlab(slabs'[s])
         /\ slabs'[s].next = slabs[s].next /\ slabs'[s].max = slabs[s].max
         /\ slabs'[s].allocated = slabs[s].allocated - 1
         /\ \A t \in DOMAIN slabs : t # s => slabs'[t] = slabs[t]
<1>1. slabs[s].allocated - 1 \in Int
  BY DEF IsSlab
<1>2. CASE slabs[s].allocated = slabs[s].max
  <2>1. slabs' = [slabs EXCEPT ![s].first_free = a, ![s].allocated = @ - 1]
    BY <1>2 DEF GiveBack
  <2>2. PICK mid : mid = [slabs EXCEPT ![s].first_free = a]
    OBVIOUS
  <2>3. slabs' = [mid EXCEPT ![s].allocated = @ - 1]
    BY <2>1, <2>2
  <2>4. /\ DOMAIN mid = DOMAIN slabs /\ mid[s] = [slabs[s] EXCEPT !.first_free = a]
        /\ \A t \in DOMAIN slabs : t # s => mid[t] = slabs[t]
    BY <2>2
  <2>5. /\ IsSlab(mid[s]) /\ mid[s].allocated = slabs[s].allocated
        /\ mid[s].next = slabs[s].next /\ mid[s].max = slabs[s].max
    BY <2>4, SlabFields
  <2>6. /\ DOMAIN slabs' = DOMAIN slabs
        /\ slabs'[s] = [mid[s] EXCEPT !.allocated = slabs[s].allocated - 1]
        /\ \A t \in DOMAIN slabs : t # s => slabs'[t] = slabs[t]
    BY <2>3, <2>4, <2>5
  <2> QED
    BY <1>1, <2>5, <2>6, SlabFields
<1>3. CASE slabs[s].allocated # slabs[s].max
  <2>1. slabs' = [slabs EXCEPT ![s].allocated = @ - 1]
    BY <1>3 DEF GiveBack
  <2>2. /\ DOMAIN slabs' = DOMAIN slabs
        /\ slabs'[s] = [slabs[s] EXCEPT !.allocated = slabs[s].allocated - 1]
        /\ \A t \in DOMAIN slabs : t # s => slabs'[t] = slabs[t]
    BY <2>1
  <2> QED
    BY <1>1, <2>2, SlabFields
<1> QED
  BY <1>2, <1>3

\* Steps that keep every next pointer and every cache.
LEMMA NextKept ==
  ASSUME NEW L, NEW M, ListedInv(L, M),
         UNCHANGED <<first_cache, caches, space>>,
         DOMAIN slabs' = DOMAIN slabs,
         \A t \in DOMAIN slabs : IsSlab(slabs'[t]) /\ slabs'[t].next = slabs[t].next
  PROVE  (SpaceInv /\ ListsInv(L, M) /\ CachesInv(M))'
<1>1. /\ first_cache' = first_cache /\ caches' = caches
      /\ free_space_for_cache' = free_space_for_cache
      /\ free_space_for_slab' = free_space_for_slab /\ free_space' = free_space
  BY DEF space
<1>2. SpaceInv'
  BY <1>1 DEF ListedInv, SpaceInv
<1>3. Lists(slabs', SlabHead', L)
  <2>1. SlabHead' = SlabHead
    BY <1>1 DEF SlabHead
  <2>2. Lists(slabs, SlabHead, L)
    BY DEF ListedInv, ListsInv
  <2>3. PICK node2 : node2 = slabs'
    OBVIOUS
  <2>4. Lists(node2, SlabHead, L)
    BY <2>2, <2>3, ListsFrame
  <2> QED
    BY <2>1, <2>3, <2>4
<1>4. Lists(caches', CacheHead', M)
  BY <1>1 DEF ListedInv, ListsInv, CacheHead
<1>5. CachesInv(M)'
  BY <1>1 DEF ListedInv, CachesInv, EmptyCache
<1> QED
  BY <1>2, <1>3, <1>4, <1>5 DEF ListsInv

\* A slab of a cache's list is on no other list.
LEMMA SlabPlace ==
  ASSUME NEW L, NEW M, ListedInv(L, M), NEW c \in Nat, NEW s
  PROVE  /\ s \in Range(L[AvailKey(c)]) =>
              /\ s \in DOMAIN slabs /\ s # 0 /\ s \notin Range(L[FreeKey])
              /\ \A d \in Nat : s \notin Range(L[FullKey(d)])
              /\ \A d \in Nat : s \in Range(L[AvailKey(d)]) => d = c
         /\ s \in Range(L[FullKey(c)]) =>
              /\ s \in DOMAIN slabs /\ s # 0 /\ s \notin Range(L[FreeKey])
              /\ \A d \in Nat : s \notin Range(L[AvailKey(d)])
              /\ \A d \in Nat : s \in Range(L[FullKey(d)]) => d = c
<1>1. Lists(slabs, SlabHead, L) /\ DOMAIN L = SlabKeys
  BY ListsAre DEF ListedInv, ListsInv
<1>2. 0 \notin DOMAIN slabs
  BY <1>1 DEF Lists
<1>3. \A k, l \in SlabKeys : s \in Range(L[k]) /\ s \in Range(L[l]) => k = l
  BY <1>1, OneList
<1>4. \A k \in SlabKeys : s \in Range(L[k]) => s \in DOMAIN slabs
  BY ListsAre
<1>5. ASSUME s \in Range(L[AvailKey(c)])
      PROVE  /\ s \in DOMAIN slabs /\ s # 0 /\ s \notin Range(L[FreeKey])
             /\ \A d \in Nat : s \notin Range(L[FullKey(d)])
             /\ \A d \in Nat : s \in Range(L[AvailKey(d)]) => d = c
  <2>1. AvailKey(c) \in SlabKeys
    BY KeyFacts
  <2>2. \A l \in SlabKeys : s \in Range(L[l]) => l = AvailKey(c)
    BY <1>3, <1>5, <2>1
  <2> QED
    BY <1>2, <1>4, <1>5, <2>1, <2>2, KeyFacts
<1>6. ASSUME s \in Range(L[FullKey(c)])
      PROVE  /\ s \in DOMAIN slabs /\ s # 0 /\ s \notin Range(L[FreeKey])
             /\ \A d \in Nat : s \notin Range(L[AvailKey(d)])
             /\ \A d \in Nat : s \in Range(L[FullKey(d)]) => d = c
  <2>1. FullKey(c) \in SlabKeys
    BY KeyFacts
  <2>2. \A l \in SlabKeys : s \in Range(L[l]) => l = FullKey(c)
    BY <1>3, <1>6, <2>1
  <2> QED
    BY <1>2, <1>4, <1>6, <2>1, <2>2, KeyFacts
<1> QED
  BY <1>5, <1>6

\* Free, up to the update of the slab's count.
LEMMA ListedFree ==
  ASSUME NEW L, NEW M, ListedInv(L, M), Supported, NEW o \in owned, Free(o)
  PROVE  /\ ListedInv(L, M)'
         /\ cache' \in Range(M["used"]) /\ slab' \in SlabsOf(L, cache')
         /\ Encloses(slab', o.addr)
<1>1. PICK i \in DOMAIN CacheList : \E s \in Hits(CacheList[i], o.addr) :
        /\ GiveBack(s, o.addr) /\ slab' = s /\ cache' = CacheList[i]
        /\ pc' = IF s \in Range(Available(CacheList[i])) THEN "count" ELSE "unfull"
  BY DEF Free
<1>2. PICK s \in Hits(CacheList[i], o.addr) :
        /\ GiveBack(s, o.addr) /\ slab' = s /\ cache' = CacheList[i]
        /\ pc' = IF s \in Range(Available(CacheList[i])) THEN "count" ELSE "unfull"
  BY <1>1
<1>3. PICK c : c = CacheList[i]
  OBVIOUS
<1>4. c \in Range(M["used"]) /\ c \in DOMAIN caches /\ c \in Nat /\ c \in Range(CacheList)
  <2>1. c \in Range(CacheList)
    BY <1>3 DEF Range
  <2>2. c \in Range(M["used"])
    BY <2>1, ListsAre
  <2>3. c \in DOMAIN caches
    BY <2>2, ListsAre DEF CacheKeys
  <2> QED
    BY <2>1, <2>2, <2>3, ListsAre
<1>5. Available(c) = L[AvailKey(c)] /\ Full(c) = L[FullKey(c)]
  BY <1>4, ListsAre
<1>6. s \in SlabsOf(L, c) /\ Encloses(s, o.addr) /\ s \in Holding(c)
  BY <1>2, <1>3, <1>5 DEF Hits, Holding, SlabsOf
<1>7. s \in DOMAIN slabs /\ IsSlab(slabs[s])
  <2>1. s \in DOMAIN slabs
    BY <1>4, <1>6, SlabPlace DEF SlabsOf
  <2> QED
    BY <2>1 DEF ListedInv, SpaceInv
<1>8. /\ DOMAIN slabs' = DOMAIN slabs
      /\ IsSlab(slabs'[s])
      /\ slabs'[s].next = slabs[s].next /\ slabs'[s].max = slabs[s].max
      /\ slabs'[s].allocated = slabs[s].allocated - 1
      /\ \A t \in DOMAIN slabs : t # s => slabs'[t] = slabs[t]
  BY <1>2, <1>7, GiveBackIs
<1>9. UNCHANGED <<first_cache, caches, space>>
  BY DEF Free
<1>10. (SpaceInv /\ ListsInv(L, M) /\ CachesInv(M))'
  <2>1. \A t \in DOMAIN slabs : IsSlab(slabs'[t]) /\ slabs'[t].next = slabs[t].next
    BY <1>8 DEF ListedInv, SpaceInv
  <2> QED
    BY <1>8, <1>9, <2>1, NextKept
<1>11. /\ \A d \in Nat : \A t \in Range(L[FullKey(d)]) : slabs[t].allocated = slabs[t].max
       /\ \A d \in Nat : \A t \in Range(L[AvailKey(d)]) : slabs[t].allocated < slabs[t].max
       /\ \A d \in Nat : Range(L[FullKey(d)]) \subseteq DOMAIN slabs
       /\ \A d \in Nat : Range(L[AvailKey(d)]) \subseteq DOMAIN slabs
  <2>1. pc = "idle"
    BY DEF Free
  <2>2. FullInv(L)
    BY DEF ListedInv
  <2> QED
    BY <2>1, <2>2, ListsAre, KeyFacts DEF FullInv
<1>12. pc' = IF s \in Range(L[AvailKey(c)]) THEN "count" ELSE "unfull"
  BY <1>2, <1>3, <1>5
<1>13. FullInv(L)'
  <2>1. ASSUME NEW d \in Nat, NEW t \in Range(L[FullKey(d)])
        PROVE  slabs'[t].allocated = slabs'[t].max \/ (pc' = "unfull" /\ t = slab')
    <3>1. CASE t = s
      <4>1. s \notin Range(L[AvailKey(c)])
        BY <2>1, <3>1, <1>4, SlabPlace
      <4> QED
        BY <1>2, <1>12, <3>1, <4>1
    <3>2. CASE t # s
      BY <1>8, <1>11, <3>2
    <3> QED
      BY <3>1, <3>2
  <2>2. ASSUME NEW d \in Nat, NEW t \in Range(L[AvailKey(d)])
        PROVE  slabs'[t].allocated < slabs'[t].max
    <3>1. CASE t = s
      <4>1. slabs[s].allocated \in Int /\ slabs[s].max \in Int
        BY <1>7 DEF IsSlab
      <4>2. slabs[s].allocated < slabs[s].max
        BY <1>11, <2>2, <3>1
      <4> QED
        BY <1>8, <3>1, <4>1, <4>2
    <3>2. CASE t # s
      BY <1>8, <1>11, <3>2
    <3> QED
      BY <3>1, <3>2
  <2> QED
    BY <2>1, <2>2 DEF FullInv
<1>14. CallInv(L, M)'
  <2>1. slab' = s /\ cache' = c
    BY <1>2, <1>3
  <2>2. CASE s \in Range(L[AvailKey(c)])
    BY <1>4, <1>12, <2>1, <2>2 DEF CallInv
  <2>3. CASE s \notin Range(L[AvailKey(c)])
    <3>1. s \in Range(L[FullKey(c)])
      BY <1>6, <2>3 DEF SlabsOf
    <3>2. slabs[s].allocated = slabs[s].max
      BY <1>4, <1>11, <3>1
    <3>3. s \in Found(o.addr)
      BY <1>4, <1>6 DEF Found, InUse
    <3>4. Handled(o.addr)
      BY DEF Free
    <3>5. slabs[s].next = 0
      BY <3>2, <3>3, <3>4 DEF Handled
    <3> QED
      <4>1. slabs'[s].allocated < slabs'[s].max
        BY <1>7, <1>8, <3>2 DEF IsSlab
      <4> QED
        BY <1>4, <1>8, <1>12, <2>1, <2>3, <3>1, <3>5, <4>1 DEF CallInv
  <2> QED
    BY <2>2, <2>3
<1> QED
  BY <1>2, <1>3, <1>4, <1>6, <1>10, <1>13, <1>14 DEF ListedInv

\* The fields of a cache after one of them was written.
LEMMA CacheFields ==
  ASSUME NEW r, IsCache(r)
  PROVE  /\ \A v \in Nat : /\ IsCache([r EXCEPT !.next = v])
                           /\ [r EXCEPT !.next = v].next = v
                           /\ [r EXCEPT !.next = v].size = r.size
                           /\ [r EXCEPT !.next = v].available = r.available
                           /\ [r EXCEPT !.next = v].full = r.full
         /\ \A v \in Nat : /\ IsCache([r EXCEPT !.available = v])
                           /\ [r EXCEPT !.available = v].next = r.next
                           /\ [r EXCEPT !.available = v].size = r.size
                           /\ [r EXCEPT !.available = v].available = v
                           /\ [r EXCEPT !.available = v].full = r.full
         /\ \A v \in Nat : /\ IsCache([r EXCEPT !.full = v])
                           /\ [r EXCEPT !.full = v].next = r.next
                           /\ [r EXCEPT !.full = v].size = r.size
                           /\ [r EXCEPT !.full = v].available = r.available
                           /\ [r EXCEPT !.full = v].full = v
BY DEF IsCache

\* The heads of one cache's lists, or of the free list, are written.
OneWritten(cs, f, cs2, f2, c, H, H2) ==
  /\ c \in Nat /\ c \in DOMAIN cs
  /\ DOMAIN cs2 = DOMAIN cs /\ \A d \in DOMAIN cs : d # c => cs2[d] = cs[d]
  /\ H = SlabHeads(cs, f) /\ H2 = SlabHeads(cs2, f2)

\* Only the heads of that cache, and of the free list, change.
LEMMA HeadsWritten ==
  ASSUME NEW cs, NEW f, NEW cs2, NEW f2, NEW c, NEW H, NEW H2,
         OneWritten(cs, f, cs2, f2, c, H, H2)
  PROVE  /\ DOMAIN H2 = DOMAIN H
         /\ H2[AvailKey(c)] = cs2[c].available
         /\ H2[FullKey(c)] = cs2[c].full
         /\ H2[FreeKey] = f2
         /\ H2[HandKey] = 0
         /\ \A k \in SlabKeys :
              k # AvailKey(c) /\ k # FullKey(c) /\ k # FreeKey => H2[k] = H[k]
<1> USE DEF OneWritten
<1>1. /\ AvailableOf(cs2, c) = cs2[c].available
      /\ FullOf(cs2, c) = cs2[c].full
  BY DEF AvailableOf, FullOf
<1>2. \A d \in Nat : d # c => /\ AvailableOf(cs2, d) = AvailableOf(cs, d)
                              /\ FullOf(cs2, d) = FullOf(cs, d)
  BY DEF AvailableOf, FullOf
<1>3. PICK K : K = SlabKeys \ {AvailKey(c), FullKey(c), FreeKey}
  OBVIOUS
<1>4. \A k \in K : SlabHeads(cs2, f2)[k] = SlabHeads(cs, f)[k]
  <2>1. K \in SUBSET SlabKeys /\ FreeKey \notin K
    BY <1>3
  <2>2. \A d \in Nat : /\ AvailKey(d) \in K => AvailableOf(cs2, d) = AvailableOf(cs, d)
                       /\ FullKey(d) \in K => FullOf(cs2, d) = FullOf(cs, d)
    BY <1>2, <1>3
  <2> QED
    BY <2>1, <2>2, HeadsAgree
<1> QED
  BY <1>1, <1>3, <1>4, HeadsAre

\* The slab malloc takes from, with the object taken.
LEMMA TakenIs ==
  ASSUME Taken \in DOMAIN slabs, IsSlab(slabs[Taken])
  PROVE  /\ DOMAIN TakenSlabs = DOMAIN slabs
         /\ IsSlab(TakenSlabs[Taken])
         /\ TakenSlabs[Taken].next = slabs[Taken].next
         /\ TakenSlabs[Taken].max = slabs[Taken].max
         /\ TakenSlabs[Taken].allocated = slabs[Taken].allocated + 1
         /\ TakenSlabs[Taken].first_free = Word(slabs[Taken].first_free)
         /\ \A t \in DOMAIN slabs : t # Taken => TakenSlabs[t] = slabs[t]
<1>1. PICK s : s = Taken
  OBVIOUS
<1>2. PICK w : w = Word(slabs[s].first_free)
  OBVIOUS
<1>3. PICK mid : mid = [slabs EXCEPT ![s].first_free = w]
  OBVIOUS
<1>4. TakenSlabs = [mid EXCEPT ![s].allocated = @ + 1]
  BY <1>1, <1>2, <1>3 DEF TakenSlabs
<1>5. /\ DOMAIN mid = DOMAIN slabs /\ mid[s] = [slabs[s] EXCEPT !.first_free = w]
      /\ \A t \in DOMAIN slabs : t # s => mid[t] = slabs[t]
  BY <1>1, <1>3
<1>6. /\ IsSlab(mid[s]) /\ mid[s].allocated = slabs[s].allocated
      /\ mid[s].next = slabs[s].next /\ mid[s].max = slabs[s].max
      /\ mid[s].first_free = w
  BY <1>1, <1>5, SlabFields
<1>7. /\ DOMAIN TakenSlabs = DOMAIN slabs
      /\ TakenSlabs[s] = [mid[s] EXCEPT !.allocated = slabs[s].allocated + 1]
      /\ \A t \in DOMAIN slabs : t # s => TakenSlabs[t] = slabs[t]
  BY <1>1, <1>4, <1>5, <1>6
<1>8. slabs[s].allocated + 1 \in Int
  BY <1>1 DEF IsSlab
<1> QED
  BY <1>1, <1>2, <1>6, <1>7, <1>8, SlabFields

\* Writing the lists' heads and pointers does not move a header.
LEMMA SpaceKept ==
  ASSUME SpaceInv, free_space' = free_space,
         DOMAIN caches' = DOMAIN caches, DOMAIN slabs' = DOMAIN slabs,
         \A c \in DOMAIN caches : IsCache(caches'[c]),
         \A s \in DOMAIN slabs : IsSlab(slabs'[s])
  PROVE  SpaceInv'
BY DEF SpaceInv

\* The cache's header when its two lists change.
LEMMA CacheKept ==
  ASSUME NEW L, NEW M, ListedInv(L, M), NEW c \in Range(M["used"]),
         DOMAIN caches' = DOMAIN caches,
         caches'[c].next = caches[c].next /\ caches'[c].size = caches[c].size,
         \A d \in DOMAIN caches : d # c => caches'[d] = caches[d],
         UNCHANGED <<first_cache, free_space_for_cache>>
  PROVE  Lists(caches, CacheHead, M)' /\ CachesInv(M)'
<1>1. \A d \in DOMAIN caches : caches'[d].next = caches[d].next /\ caches'[d].size = caches[d].size
  OBVIOUS
<1>2. Lists(caches, CacheHead, M)'
  <2>1. CacheHead' = CacheHead
    BY DEF CacheHead
  <2>2. Lists(caches, CacheHead, M)
    BY DEF ListedInv, ListsInv
  <2>3. PICK node2 : node2 = caches'
    OBVIOUS
  <2>4. Lists(node2, CacheHead, M)
    BY <1>1, <2>2, <2>3, ListsFrame
  <2> QED
    BY <2>1, <2>3, <2>4
<1>3. CachesInv(M)'
  <2>1. CachesInv(M) /\ Range(M["used"]) \subseteq DOMAIN caches
    BY ListsAre DEF ListedInv, CacheKeys
  <2> QED
    BY <1>1, <2>1 DEF CachesInv, EmptyCache
<1> QED
  BY <1>2, <1>3

\* What is known of the cache and the slab malloc takes from.
LEMMA TakenFacts ==
  ASSUME NEW L, NEW M, ListedInv(L, M), pc = "slab"
  PROVE  /\ cache \in Range(M["used"]) /\ cache \in DOMAIN caches /\ cache \in Nat
         /\ IsCache(caches[cache])
         /\ size \in WordBytes .. SlabSize /\ caches[cache].size = size
         /\ Taken # 0 => /\ 1 \in 1 .. Len(L[AvailKey(cache)])
                         /\ Taken = L[AvailKey(cache)][1]
                         /\ Taken \in Range(L[AvailKey(cache)])
                         /\ Taken \in DOMAIN slabs /\ IsSlab(slabs[Taken])
                         /\ slabs[Taken].allocated < slabs[Taken].max
         /\ Taken = 0 => Len(L[AvailKey(cache)]) = 0
<1>1. /\ cache \in Range(M["used"])
      /\ size \in WordBytes .. SlabSize /\ caches[cache].size = size
  BY DEF ListedInv, CallInv
<1>2. cache \in DOMAIN caches /\ cache \in Nat
  BY <1>1, ListsAre DEF CacheKeys
<1>3. IsCache(caches[cache])
  BY <1>2 DEF ListedInv, SpaceInv
<1>4. PICK k : k = AvailKey(cache) /\ k \in DOMAIN L /\ SlabHead[k] = Taken
  <2>1. AvailKey(cache) \in DOMAIN L /\ SlabHead[AvailKey(cache)] = Taken
    BY <1>2, ListsAre, KeyFacts DEF Taken
  <2> QED
    BY <2>1
<1>5. Lists(slabs, SlabHead, L)
  BY DEF ListedInv, ListsInv
<1>6. /\ Len(L[k]) \in Nat
      /\ Len(L[k]) = 0 <=> Taken = 0
      /\ Len(L[k]) > 0 => Taken = L[k][1]
      /\ \A i \in 1 .. Len(L[k]) : L[k][i] \in DOMAIN slabs /\ L[k][i] \in Range(L[k])
  BY <1>4, <1>5, ListFacts
<1>7. ASSUME Taken # 0
      PROVE  /\ 1 \in 1 .. Len(L[k]) /\ Taken = L[k][1] /\ Taken \in Range(L[k])
             /\ Taken \in DOMAIN slabs
  BY <1>6, <1>7
<1>8. ASSUME Taken # 0
      PROVE  IsSlab(slabs[Taken]) /\ slabs[Taken].allocated < slabs[Taken].max
  BY <1>2, <1>4, <1>7, <1>8 DEF ListedInv, SpaceInv, FullInv
<1> QED
  BY <1>1, <1>2, <1>3, <1>4, <1>6, <1>7, <1>8

\* The lists of slabs and caches hold what they held, or a cache's slab went to its other list.
SameSlabs(L, L2) == \A c \in Nat : SlabsOf(L2, c) = SlabsOf(L, c)

\* TakeObject, when the slab still has free objects.
LEMMA ListedTakeOne ==
  ASSUME NEW L, NEW M, ListedInv(L, M), TakeObject, ~ NowFull
  PROVE  ListedInv(L, M)'
<1>1. pc = "slab" /\ Taken # 0 /\ slabs' = TakenSlabs
  BY DEF TakeObject, Taken
<1>2. /\ cache \in Nat /\ Taken \in Range(L[AvailKey(cache)])
      /\ Taken \in DOMAIN slabs /\ IsSlab(slabs[Taken])
      /\ slabs[Taken].allocated < slabs[Taken].max
  BY <1>1, TakenFacts
<1>3. PICK s : s = Taken
  OBVIOUS
<1>4. /\ DOMAIN slabs' = DOMAIN slabs
      /\ IsSlab(slabs'[s]) /\ slabs'[s].next = slabs[s].next
      /\ slabs'[s].max = slabs[s].max
      /\ slabs'[s].allocated = slabs[s].allocated + 1
      /\ \A t \in DOMAIN slabs : t # s => slabs'[t] = slabs[t]
  BY <1>1, <1>2, <1>3, TakenIs
<1>5. UNCHANGED <<first_cache, caches, space>> /\ pc' = "idle"
  BY DEF TakeObject, Done
<1>6. (SpaceInv /\ ListsInv(L, M) /\ CachesInv(M))'
  <2>1. \A t \in DOMAIN slabs : IsSlab(slabs'[t]) /\ slabs'[t].next = slabs[t].next
    BY <1>4 DEF ListedInv, SpaceInv
  <2> QED
    BY <1>4, <1>5, <2>1, NextKept
<1>7. /\ \A d \in Nat : \A t \in Range(L[FullKey(d)]) : slabs[t].allocated = slabs[t].max
      /\ \A d \in Nat : \A t \in Range(L[AvailKey(d)]) : slabs[t].allocated < slabs[t].max
      /\ \A d \in Nat : Range(L[FullKey(d)]) \subseteq DOMAIN slabs
      /\ \A d \in Nat : Range(L[AvailKey(d)]) \subseteq DOMAIN slabs
  <2>2. FullInv(L)
    BY DEF ListedInv
  <2> QED
    BY <1>1, <2>2, ListsAre, KeyFacts DEF FullInv
<1>8. slabs'[s].allocated < slabs'[s].max
  <2>1. slabs[s].allocated + 1 # slabs[s].max
    BY <1>3 DEF NowFull
  <2>2. slabs[s].allocated \in Int /\ slabs[s].max \in Int
    BY <1>2, <1>3 DEF IsSlab
  <2> QED
    BY <1>2, <1>3, <1>4, <2>1, <2>2
<1>9. FullInv(L)'
  <2>1. ASSUME NEW d \in Nat, NEW t \in Range(L[FullKey(d)])
        PROVE  slabs'[t].allocated = slabs'[t].max
    <3>1. t # s
      BY <1>2, <1>3, <2>1, SlabPlace
    <3> QED
      BY <1>4, <1>7, <3>1
  <2>2. ASSUME NEW d \in Nat, NEW t \in Range(L[AvailKey(d)])
        PROVE  slabs'[t].allocated < slabs'[t].max
    BY <1>4, <1>7, <1>8
  <2> QED
    BY <2>1, <2>2 DEF FullInv
<1>10. CallInv(L, M)'
  BY <1>5 DEF CallInv
<1> QED
  BY <1>6, <1>9, <1>10 DEF ListedInv

\* TakeObject, when the slab is full now: it moves to the full list.
LEMMA ListedTakeLast ==
  ASSUME NEW L, NEW M, ListedInv(L, M), TakeObject, NowFull
  PROVE  /\ \E L2 : ListedInv(L2, M)' /\ SameSlabs(L, L2)
         /\ DOMAIN slabs' = DOMAIN slabs
         /\ slabs'[Taken].max = slabs[Taken].max
         /\ slabs'[Taken].allocated = slabs[Taken].allocated + 1
         /\ slabs'[Taken].first_free = Word(slabs[Taken].first_free)
         /\ \A t \in DOMAIN slabs : t # Taken =>
              /\ slabs'[t].max = slabs[t].max /\ slabs'[t].allocated = slabs[t].allocated
              /\ slabs'[t].first_free = slabs[t].first_free
         /\ DOMAIN caches' = DOMAIN caches
         /\ \A d \in DOMAIN caches : caches'[d].size = caches[d].size
<1>1. pc = "slab" /\ Taken # 0
  BY DEF TakeObject, Taken
<1>2. PICK c, s : c = cache /\ s = Taken
  OBVIOUS
<1>3. PICK k : k = AvailKey(c)
  OBVIOUS
<1>4. PICK l : l = FullKey(c)
  OBVIOUS
<1>5. /\ c \in Range(M["used"]) /\ c \in DOMAIN caches /\ c \in Nat
      /\ IsCache(caches[c])
      /\ 1 \in 1 .. Len(L[k]) /\ s = L[k][1] /\ s \in Range(L[k])
      /\ s \in DOMAIN slabs /\ IsSlab(slabs[s]) /\ s # 0
      /\ slabs[s].allocated < slabs[s].max
  BY <1>1, <1>2, <1>3, TakenFacts
<1>6. /\ k \in SlabKeys /\ l \in SlabKeys /\ HandKey \in SlabKeys /\ FreeKey \in SlabKeys
      /\ k # l /\ k # HandKey /\ l # HandKey /\ k # FreeKey /\ l # FreeKey
  BY <1>3, <1>4, <1>5, KeyFacts
<1>7. /\ DOMAIN L = SlabKeys /\ Len(L[HandKey]) = 0
      /\ SlabHead[k] = caches[c].available /\ SlabHead[l] = caches[c].full
      /\ Lists(slabs, SlabHead, L)
      /\ \A y \in DOMAIN slabs : IsSlab(slabs[y]) /\ y \in Nat
      /\ \A m \in SlabKeys : Range(L[m]) \subseteq DOMAIN slabs
  BY <1>3, <1>4, <1>5, ListsAre DEF ListedInv, ListsInv, SpaceInv
<1>8. PICK T : /\ T = TakenSlabs /\ DOMAIN T = DOMAIN slabs
               /\ IsSlab(T[s]) /\ T[s].next = slabs[s].next
               /\ T[s].max = slabs[s].max /\ T[s].allocated = slabs[s].allocated + 1
               /\ T[s].first_free = Word(slabs[s].first_free)
               /\ \A t \in DOMAIN slabs : t # s => T[t] = slabs[t]
  BY <1>2, <1>5, TakenIs
<1>9. PICK n : n = Len(L[l]) /\ n \in Nat
  BY <1>6, <1>7, ListFacts
<1>z. PICK z : z = L[l][n]
  OBVIOUS
<1>10. /\ n = 0 <=> caches[c].full = 0
       /\ \A j \in 1 .. n : L[l][j] \in DOMAIN slabs /\ L[l][j] # s
  <2>1. \A j \in 1 .. n : L[l][j] # s
    BY <1>5, <1>6, <1>7, <1>9, OnePlace
  <2> QED
    BY <1>6, <1>7, <1>9, <2>1, ListFacts
<1>a. n > 0 => z \in DOMAIN slabs /\ z # s /\ z = L[l][Len(L[l])]
  <2>1. n > 0 => n \in 1 .. n
    BY <1>9
  <2> QED
    BY <1>9, <1>z, <1>10, <2>1
<1>11. ASSUME n > 0
       PROVE  Final(T, caches[c].full) = z
  <2>1. \A t \in DOMAIN slabs : T[t].next = slabs[t].next
    BY <1>8
  <2>2. Lists(T, SlabHead, L)
    BY <1>7, <1>8, <2>1, ListsFrame
  <2>3. Final(T, SlabHead[l]) = L[l][Len(L[l])]
    BY <1>6, <1>7, <1>9, <1>11, <2>2, Neighbours
  <2> QED
    BY <1>7, <1>a, <1>11, <2>3
<1>12. slabs' = [IF caches[c].full = 0 THEN T ELSE AddLast(T, caches[c].full, s)
                 EXCEPT ![s].next = 0]
  BY <1>2, <1>8 DEF TakeObject, Taken
<1>13. /\ DOMAIN slabs' = DOMAIN slabs
       /\ slabs'[s] = [T[s] EXCEPT !.next = 0]
       /\ n > 0 => slabs'[z] = [slabs[z] EXCEPT !.next = s]
       /\ \A y \in DOMAIN slabs : y # s /\ (n > 0 => y # z) => slabs'[y] = slabs[y]
  <2>1. CASE n = 0
    <3>1. slabs' = [T EXCEPT ![s].next = 0]
      BY <1>10, <1>12, <2>1
    <3> QED
      BY <1>5, <1>8, <2>1, <3>1
  <2>2. CASE n > 0
    <3>2. z \in DOMAIN slabs /\ z # s /\ z = Final(T, caches[c].full)
      BY <1>a, <1>11, <2>2
    <3>3. PICK u : u = AddLast(T, caches[c].full, s)
      OBVIOUS
    <3>4. /\ DOMAIN u = DOMAIN T /\ u[z] = [T[z] EXCEPT !.next = s]
          /\ \A y \in DOMAIN T : y # z => u[y] = T[y]
      BY <1>8, <3>2, <3>3, AddLastIs
    <3>5. slabs' = [u EXCEPT ![s].next = 0]
      BY <1>10, <1>12, <2>2, <3>3
    <3>6. u[s] = T[s] /\ u[z] = [slabs[z] EXCEPT !.next = s]
      BY <1>5, <1>8, <3>2, <3>4
    <3>7. \A y \in DOMAIN slabs : y # s /\ y # z => slabs'[y] = slabs[y]
      BY <1>8, <3>4, <3>5
    <3>8. /\ DOMAIN slabs' = DOMAIN slabs
          /\ slabs'[s] = [T[s] EXCEPT !.next = 0]
          /\ slabs'[z] = [slabs[z] EXCEPT !.next = s]
      BY <1>5, <1>8, <3>2, <3>4, <3>5, <3>6
    <3> QED
      BY <2>2, <3>7, <3>8
  <2>3. n = 0 \/ n > 0
    BY <1>9
  <2> QED
    BY <2>1, <2>2, <2>3
<1>14. /\ IsSlab(slabs'[s]) /\ slabs'[s].next = 0 /\ slabs'[s].max = slabs[s].max
       /\ slabs'[s].allocated = slabs[s].allocated + 1
       /\ slabs'[s].first_free = Word(slabs[s].first_free)
  BY <1>8, <1>13, SlabFields
<1>15. n > 0 => slabs'[z].next = s
  <2> SUFFICES ASSUME n > 0
               PROVE  slabs'[z].next = s
    OBVIOUS
  <2>2. IsSlab(slabs[z]) /\ s \in Nat
    BY <1>5, <1>7, <1>a
  <2>3. slabs'[z] = [slabs[z] EXCEPT !.next = s]
    BY <1>13
  <2> QED
    BY <2>2, <2>3, SlabFields
<1>16. ASSUME NEW y \in DOMAIN slabs, y # s
       PROVE  /\ IsSlab(slabs'[y]) /\ slabs'[y].max = slabs[y].max
              /\ slabs'[y].allocated = slabs[y].allocated
              /\ slabs'[y].first_free = slabs[y].first_free
  <2>1. CASE n > 0 /\ y = z
    <3>1. IsSlab(slabs[y]) /\ s \in Nat
      BY <1>5, <1>7
    <3>2. slabs'[y] = [slabs[y] EXCEPT !.next = s]
      BY <1>13, <2>1
    <3> QED
      BY <3>1, <3>2, SlabFields
  <2>2. CASE ~ (n > 0 /\ y = z)
    BY <1>7, <1>13, <1>16, <2>2
  <2> QED
    BY <2>1, <2>2
<1>17. /\ first_cache' = first_cache /\ free_space' = free_space
       /\ free_space_for_cache' = free_space_for_cache
       /\ free_space_for_slab' = free_space_for_slab /\ pc' = "idle"
  BY DEF TakeObject, Done, space
<1>18. /\ DOMAIN caches' = DOMAIN caches /\ IsCache(caches'[c])
       /\ caches'[c].next = caches[c].next /\ caches'[c].size = caches[c].size
       /\ caches'[c].available = slabs[s].next
       /\ caches'[c].full = IF n = 0 THEN s ELSE caches[c].full
       /\ \A d \in DOMAIN caches : d # c => caches'[d] = caches[d]
  <2>1. caches' = [caches EXCEPT ![cache].available = slabs[Taken].next,
                                 ![cache].full = IF @ = 0 THEN Taken ELSE @]
    BY DEF TakeObject, Taken
  <2>2. PICK a : a = slabs[s].next /\ a \in Nat
    BY <1>5 DEF IsSlab
  <2>3. PICK mid : mid = [caches EXCEPT ![c].available = a]
    OBVIOUS
  <2>4. caches' = [mid EXCEPT ![c].full = IF @ = 0 THEN s ELSE @]
    BY <1>2, <2>1, <2>2, <2>3
  <2>5. /\ DOMAIN mid = DOMAIN caches /\ mid[c] = [caches[c] EXCEPT !.available = a]
        /\ \A d \in DOMAIN caches : d # c => mid[d] = caches[d]
    BY <1>5, <2>3
  <2>6. /\ IsCache(mid[c]) /\ mid[c].next = caches[c].next /\ mid[c].size = caches[c].size
        /\ mid[c].available = a /\ mid[c].full = caches[c].full
    BY <1>5, <2>2, <2>5, CacheFields
  <2>7. PICK v : v = (IF n = 0 THEN s ELSE caches[c].full) /\ v \in Nat
    <3>1. s \in Nat /\ caches[c].full \in Nat
      BY <1>5, <1>7 DEF IsCache
    <3> QED
      BY <3>1
  <2>8. /\ DOMAIN caches' = DOMAIN caches /\ caches'[c] = [mid[c] EXCEPT !.full = v]
        /\ \A d \in DOMAIN caches : d # c => caches'[d] = caches[d]
    BY <1>5, <1>10, <2>4, <2>5, <2>6, <2>7
  <2> QED
    BY <2>2, <2>6, <2>7, <2>8, CacheFields
<1>19. PICK H2 : /\ H2 = SlabHead'
                 /\ DOMAIN H2 = DOMAIN SlabHead
                 /\ H2[k] = slabs[s].next /\ H2[l] = IF n = 0 THEN s ELSE SlabHead[l]
                 /\ H2[HandKey] = 0
                 /\ \A m \in DOMAIN L \ {HandKey, k, l} : H2[m] = SlabHead[m]
  <2>1. PICK cs2 : cs2 = caches'
    OBVIOUS
  <2>2. PICK H2 : H2 = SlabHeads(cs2, free_space_for_slab)
    OBVIOUS
  <2>3. /\ DOMAIN H2 = DOMAIN SlabHead
        /\ H2[k] = cs2[c].available /\ H2[l] = cs2[c].full
        /\ H2[FreeKey] = free_space_for_slab /\ H2[HandKey] = 0
        /\ \A m \in SlabKeys : m # k /\ m # l /\ m # FreeKey => H2[m] = SlabHead[m]
    <3>1. PICK cs, f : cs = caches /\ f = free_space_for_slab
      OBVIOUS
    <3>4. H2 = SlabHeads(cs2, f) /\ SlabHead = SlabHeads(cs, f)
      BY <2>2, <3>1 DEF SlabHead
    <3>2. PICK H : H = SlabHead /\ OneWritten(cs, f, cs2, f, c, H, H2)
      BY <1>5, <1>18, <2>1, <3>1, <3>4 DEF OneWritten
    <3> QED
      BY <1>3, <1>4, <3>1, <3>2, HeadsWritten
  <2>4. SlabHead[FreeKey] = free_space_for_slab
    BY HeadsAre DEF SlabHead
  <2>5. H2 = SlabHead'
    BY <1>17, <2>1, <2>2 DEF SlabHead
  <2> QED
    BY <1>7, <1>18, <2>1, <2>3, <2>4, <2>5
<1>20. PICK S2 : S2 = slabs'
  OBVIOUS
<1>b. PICK S, H, i : S = slabs /\ H = SlabHead /\ i = 1
  OBVIOUS
<1>21. Moved(S, H, L, HandKey, k, l, i, s, S2, H2)
  <2>1. /\ HandKey \in DOMAIN L /\ Len(L[HandKey]) = 0
        /\ k \in DOMAIN L /\ l \in DOMAIN L /\ k # HandKey /\ l # HandKey /\ k # l
        /\ i \in 1 .. Len(L[k]) /\ s = L[k][i]
    BY <1>5, <1>6, <1>7, <1>b
  <2>6. ~ (i > 1)
    BY <1>b
  <2>7. DOMAIN S2 = DOMAIN S /\ S2[s].next = 0
    BY <1>13, <1>14, <1>20, <1>b
  <2>2. /\ DOMAIN S2 = DOMAIN S /\ S2[s].next = 0
        /\ i > 1 => S2[L[k][i - 1]].next = S[s].next
    BY <2>6, <2>7
  <2>3. Len(L[l]) > 0 => S2[L[l][Len(L[l])]].next = s
    BY <1>9, <1>15, <1>20, <1>a
  <2>4. ASSUME NEW y \in DOMAIN S, y # s, Len(L[l]) > 0 => y # L[l][Len(L[l])]
        PROVE  S2[y].next = S[y].next
    BY <1>9, <1>13, <1>20, <1>a, <1>b, <2>4
  <2>5. /\ DOMAIN H2 = DOMAIN H /\ H2[HandKey] = 0
        /\ H2[k] = IF i = 1 THEN S[s].next ELSE H[k]
        /\ H2[l] = IF Len(L[l]) = 0 THEN s ELSE H[l]
        /\ \A m \in DOMAIN L \ {HandKey, k, l} : H2[m] = H[m]
    BY <1>9, <1>19, <1>b
  <2> QED
    BY <2>1, <2>2, <2>3, <2>4, <2>5 DEF Moved, MovedNodes, MovedHeads
<1>22. PICK L2 : /\ Lists(S2, H2, L2) /\ DOMAIN L2 = DOMAIN L
                 /\ Range(L2[k]) = Range(L[k]) \ {s}
                 /\ Range(L2[l]) = Range(L[l]) \cup {s}
                 /\ \A m \in DOMAIN L \ {k, l} : L2[m] = L[m]
  <2>1. Lists(S, H, L)
    BY <1>7, <1>b
  <2> QED
    BY <1>21, <2>1, Move
<1>23. \A d \in Nat : d # c => L2[AvailKey(d)] = L[AvailKey(d)] /\ L2[FullKey(d)] = L[FullKey(d)]
  BY <1>3, <1>4, <1>5, <1>7, <1>22, KeyFacts
<1>24. SameSlabs(L, L2)
  <2>1. SlabsOf(L2, c) = SlabsOf(L, c)
    BY <1>3, <1>4, <1>5, <1>22 DEF SlabsOf
  <2> QED
    BY <1>23, <2>1 DEF SameSlabs, SlabsOf
<1>25. SpaceInv'
  <2>1. \A d \in DOMAIN caches : IsCache(caches'[d])
    BY <1>18 DEF ListedInv, SpaceInv
  <2>2. \A y \in DOMAIN slabs : IsSlab(slabs'[y])
    BY <1>14, <1>16
  <2> QED
    BY <1>13, <1>17, <1>18, <2>1, <2>2, SpaceKept DEF ListedInv
<1>26. Lists(caches, CacheHead, M)' /\ CachesInv(M)'
  BY <1>5, <1>17, <1>18, CacheKept
<1>27. /\ \A d \in Nat : \A t \in Range(L[FullKey(d)]) : slabs[t].allocated = slabs[t].max
       /\ \A d \in Nat : \A t \in Range(L[AvailKey(d)]) : slabs[t].allocated < slabs[t].max
       /\ \A d \in Nat : Range(L[FullKey(d)]) \subseteq DOMAIN slabs
       /\ \A d \in Nat : Range(L[AvailKey(d)]) \subseteq DOMAIN slabs
  <2>2. FullInv(L)
    BY DEF ListedInv
  <2> QED
    BY <1>1, <1>7, <2>2, KeyFacts DEF FullInv
<1>28. FullInv(L2)'
  <2>1. ASSUME NEW d \in Nat, NEW t \in Range(L2[FullKey(d)])
        PROVE  slabs'[t].allocated = slabs'[t].max
    <3>1. CASE t = s
      BY <1>2, <1>14, <3>1 DEF NowFull
    <3>2. CASE t # s
      <4>1. t \in Range(L[FullKey(d)])
        BY <1>4, <1>22, <1>23, <2>1, <3>2
      <4> QED
        BY <1>16, <1>27, <3>2, <4>1
    <3> QED
      BY <3>1, <3>2
  <2>2. ASSUME NEW d \in Nat, NEW t \in Range(L2[AvailKey(d)])
        PROVE  slabs'[t].allocated < slabs'[t].max
    <3>1. t # s /\ t \in Range(L[AvailKey(d)])
      <4>1. CASE d = c
        BY <1>3, <1>22, <2>2, <4>1
      <4>2. CASE d # c
        <5>1. t \in Range(L[AvailKey(d)])
          BY <1>23, <2>2, <4>2
        <5>2. t # s
          BY <1>3, <1>5, <4>2, <5>1, SlabPlace
        <5> QED
          BY <5>1, <5>2
      <4> QED
        BY <4>1, <4>2
    <3> QED
      BY <1>16, <1>27, <3>1
  <2> QED
    BY <2>1, <2>2 DEF FullInv
<1>29. CallInv(L2, M)'
  BY <1>17 DEF CallInv
<1>30. ListedInv(L2, M)'
  BY <1>19, <1>20, <1>22, <1>25, <1>26, <1>28, <1>29 DEF ListedInv, ListsInv
<1> QED
  BY <1>2, <1>13, <1>14, <1>16, <1>18, <1>24, <1>30

\* A move of a slab between two lists changes next pointers only.
LEMMA SlabsKept ==
  ASSUME NEW S2, DOMAIN S2 = DOMAIN slabs,
         \A y \in DOMAIN slabs : IsSlab(slabs[y]) /\ y \in Nat,
         OnlyNext(slabs, S2)
  PROVE  \A y \in DOMAIN slabs :
           /\ IsSlab(S2[y]) /\ S2[y].max = slabs[y].max
           /\ S2[y].allocated = slabs[y].allocated
           /\ S2[y].first_free = slabs[y].first_free
<1> SUFFICES ASSUME NEW y \in DOMAIN slabs
             PROVE  /\ IsSlab(S2[y]) /\ S2[y].max = slabs[y].max
                    /\ S2[y].allocated = slabs[y].allocated
                    /\ S2[y].first_free = slabs[y].first_free
  OBVIOUS
<1>1. CASE S2[y] = slabs[y]
  BY <1>1
<1>2. CASE S2[y] # slabs[y]
  <2>1. PICK v \in DOMAIN slabs \cup {0} : S2[y] = [slabs[y] EXCEPT !.next = v]
    BY <1>2 DEF OnlyNext
  <2>2. v \in Nat /\ IsSlab(slabs[y])
    OBVIOUS
  <2> QED
    BY <2>1, <2>2, SlabFields
<1> QED
  BY <1>1, <1>2

\* The header fields of slabs that a list operation keeps.
SlabsSame ==
  /\ DOMAIN slabs' = DOMAIN slabs
  /\ \A t \in DOMAIN slabs :
       /\ slabs'[t].max = slabs[t].max /\ slabs'[t].allocated = slabs[t].allocated
       /\ slabs'[t].first_free = slabs[t].first_free

CachesSame ==
  /\ DOMAIN caches' = DOMAIN caches
  /\ \A d \in DOMAIN caches : caches'[d].size = caches[d].size

\* The slab in hand between two parts of free.
LEMMA SlabInHand ==
  ASSUME NEW L, NEW M, ListedInv(L, M), pc \in {"unfull", "count"},
         NEW k, k = IF pc = "unfull" THEN FullKey(cache) ELSE AvailKey(cache)
  PROVE  /\ cache \in Range(M["used"]) /\ cache \in DOMAIN caches /\ cache \in Nat
         /\ IsCache(caches[cache])
         /\ slab \in Range(L[k]) /\ slab \in DOMAIN slabs /\ slab # 0
         /\ k \in SlabKeys /\ DOMAIN L = SlabKeys /\ Len(L[HandKey]) = 0
         /\ HandKey \in SlabKeys
         /\ Lists(slabs, SlabHead, L)
         /\ \E i \in 1 .. Len(L[k]) : L[k][i] = slab
         /\ \A y \in DOMAIN slabs : IsSlab(slabs[y]) /\ y \in Nat
         /\ \A m \in SlabKeys : Range(L[m]) \subseteq DOMAIN slabs
<1>1. /\ cache \in Range(M["used"]) /\ slab \in Range(L[k])
  BY DEF ListedInv, CallInv
<1>2. cache \in DOMAIN caches /\ cache \in Nat
  BY <1>1, ListsAre DEF CacheKeys
<1>3. IsCache(caches[cache])
  BY <1>2 DEF ListedInv, SpaceInv
<1>4. k \in SlabKeys /\ HandKey \in SlabKeys
  BY <1>2, KeyFacts
<1>5. slab \in DOMAIN slabs /\ slab # 0
  BY <1>1, <1>2, SlabPlace
<1>6. /\ DOMAIN L = SlabKeys /\ Len(L[HandKey]) = 0
      /\ \A m \in SlabKeys : Range(L[m]) \subseteq DOMAIN slabs
  BY ListsAre
<1>7. /\ Lists(slabs, SlabHead, L)
      /\ \A y \in DOMAIN slabs : IsSlab(slabs[y]) /\ y \in Nat
  BY DEF ListedInv, ListsInv, SpaceInv
<1>8. \E i \in 1 .. Len(L[k]) : L[k][i] = slab
  BY <1>1, <1>4, <1>6, <1>7, ListFacts
<1> QED
  BY <1>1, <1>2, <1>3, <1>4, <1>5, <1>6, <1>7, <1>8

\* A next pointer can be written, and read back.
LEMMA NextWritten ==
  /\ \A r : IsSlab(r) => \A v \in Nat : [r EXCEPT !.next = v].next = v
  /\ \A r : IsCache(r) => \A v \in Nat : [r EXCEPT !.next = v].next = v
BY SlabFields, CacheFields

\* MoveToAvailable: from the full list to the available one.
LEMMA ListedUnfull ==
  ASSUME NEW L, NEW M, ListedInv(L, M), MoveToAvailable
  PROVE  /\ \E L2 : ListedInv(L2, M)' /\ SameSlabs(L, L2)
         /\ SlabsSame /\ CachesSame
<1>1. pc = "unfull" /\ pc' = "count"
  BY DEF MoveToAvailable
<1>2. PICK c, s : c = cache /\ s = slab
  OBVIOUS
<1>3. PICK k : k = FullKey(c)
  OBVIOUS
<1>4. PICK l : l = AvailKey(c)
  OBVIOUS
<1>5. /\ c \in Range(M["used"]) /\ c \in DOMAIN caches /\ c \in Nat
      /\ IsCache(caches[c])
      /\ s \in Range(L[k]) /\ s \in DOMAIN slabs /\ s # 0
      /\ k \in SlabKeys /\ DOMAIN L = SlabKeys /\ Len(L[HandKey]) = 0
      /\ HandKey \in SlabKeys
      /\ Lists(slabs, SlabHead, L)
      /\ \E i \in 1 .. Len(L[k]) : L[k][i] = s
      /\ \A y \in DOMAIN slabs : IsSlab(slabs[y]) /\ y \in Nat
      /\ \A m \in SlabKeys : Range(L[m]) \subseteq DOMAIN slabs
  BY <1>1, <1>2, <1>3, SlabInHand
<1>6. /\ l \in SlabKeys /\ FreeKey \in SlabKeys
      /\ k # l /\ k # HandKey /\ l # HandKey /\ k # FreeKey /\ l # FreeKey
  BY <1>3, <1>4, <1>5, KeyFacts
<1>7. PICK i : i \in 1 .. Len(L[k]) /\ L[k][i] = s
  BY <1>5
<1>8. SlabHead[l] = caches[c].available /\ SlabHead[k] = caches[c].full
  BY <1>3, <1>4, <1>5, ListsAre
<1>9. PICK S, H, S2 : S = slabs /\ H = SlabHead /\ S2 = slabs'
  OBVIOUS
<1>10. PICK u : u = IF H[k] = s THEN S ELSE Unlink(S, H[k], s)
  OBVIOUS
<1>11. S2 = IF H[l] = 0 THEN u ELSE AddLast(u, H[l], s)
  BY <1>2, <1>8, <1>9, <1>10 DEF MoveToAvailable
<1>12. slabs[s].next = 0 /\ slabs[s].allocated < slabs[s].max
  BY <1>1, <1>2 DEF ListedInv, CallInv
<1>13. /\ DOMAIN u = DOMAIN S /\ u[s] = S[s]
  <2>0. /\ Lists(S, H, L) /\ k \in DOMAIN L /\ i \in 1 .. Len(L[k]) /\ s = L[k][i]
    BY <1>5, <1>7, <1>9
  <2>1. /\ H[k] = s <=> i = 1
        /\ DOMAIN u = DOMAIN S
        /\ i > 1 => /\ L[k][i - 1] \in DOMAIN S /\ L[k][i - 1] # s
                    /\ u[L[k][i - 1]] = [S[L[k][i - 1]] EXCEPT !.next = S[s].next]
        /\ \A y \in DOMAIN S : (i > 1 => y # L[k][i - 1]) => u[y] = S[y]
    BY <1>10, <2>0, UnlinkIs
  <2> QED
    BY <1>5, <1>9, <2>1
<1>14. MovedBy(S, H, L, HandKey, k, l, i, s, u, u, S2)
  <2>1. \A y \in DOMAIN S, v \in DOMAIN S \cup {0} : [S[y] EXCEPT !.next = v].next = v
    BY <1>5, <1>9, NextWritten
  <2> QED
    BY <1>5, <1>6, <1>7, <1>9, <1>10, <1>11, <1>12, <1>13, <2>1 DEF MovedBy
<1>15. /\ MovedNodes(S, L, HandKey, k, l, i, s, S2)
       /\ H[k] = s <=> i = 1
       /\ OnlyNext(S, S2)
  <2>1. Lists(S, H, L)
    BY <1>5, <1>9
  <2>2. PICK h : h = HandKey
    OBVIOUS
  <2>3. MovedBy(S, H, L, h, k, l, i, s, u, u, S2)
    BY <1>14, <2>2
  <2>4. /\ MovedNodes(S, L, h, k, l, i, s, S2)
        /\ H[k] = s <=> i = 1
        /\ OnlyNext(S, S2)
    BY <2>1, <2>3, MoveCode
  <2> QED
    BY <2>2, <2>4
<1>16. /\ DOMAIN slabs' = DOMAIN slabs
       /\ \A y \in DOMAIN slabs : /\ IsSlab(slabs'[y]) /\ slabs'[y].max = slabs[y].max
                                  /\ slabs'[y].allocated = slabs[y].allocated
                                  /\ slabs'[y].first_free = slabs[y].first_free
  <2>1. DOMAIN S2 = DOMAIN slabs
    BY <1>9, <1>15 DEF MovedNodes
  <2>2. OnlyNext(slabs, S2)
    BY <1>9, <1>15
  <2>3. \A y \in DOMAIN slabs :
          /\ IsSlab(S2[y]) /\ S2[y].max = slabs[y].max
          /\ S2[y].allocated = slabs[y].allocated
          /\ S2[y].first_free = slabs[y].first_free
    BY <1>5, <2>1, <2>2, SlabsKept
  <2> QED
    BY <1>9, <2>1, <2>3
<1>17. /\ first_cache' = first_cache /\ free_space' = free_space
       /\ free_space_for_cache' = free_space_for_cache
       /\ free_space_for_slab' = free_space_for_slab
       /\ cache' = cache /\ slab' = slab
  BY DEF MoveToAvailable, space, locals
<1>18. /\ DOMAIN caches' = DOMAIN caches /\ IsCache(caches'[c])
       /\ caches'[c].next = caches[c].next /\ caches'[c].size = caches[c].size
       /\ caches'[c].full = IF i = 1 THEN slabs[s].next ELSE caches[c].full
       /\ caches'[c].available = IF caches[c].available = 0 THEN s ELSE caches[c].available
       /\ \A d \in DOMAIN caches : d # c => caches'[d] = caches[d]
  <2>1. caches' = [caches EXCEPT ![cache].full = IF @ = slab THEN slabs[slab].next ELSE @,
                                 ![cache].available = IF @ = 0 THEN slab ELSE @]
    BY DEF MoveToAvailable
  <2>2. PICK a : a = (IF i = 1 THEN slabs[s].next ELSE caches[c].full) /\ a \in Nat
    <3>1. slabs[s].next \in Nat /\ caches[c].full \in Nat
      BY <1>5 DEF IsSlab, IsCache
    <3> QED
      BY <3>1
  <2>3. PICK mid : mid = [caches EXCEPT ![c].full = IF @ = s THEN slabs[s].next ELSE @]
    OBVIOUS
  <2>4. caches' = [mid EXCEPT ![c].available = IF @ = 0 THEN s ELSE @]
    BY <1>2, <2>1, <2>3
  <2>5. /\ DOMAIN mid = DOMAIN caches /\ mid[c] = [caches[c] EXCEPT !.full = a]
        /\ \A d \in DOMAIN caches : d # c => mid[d] = caches[d]
    BY <1>5, <1>8, <1>9, <1>15, <2>2, <2>3
  <2>6. /\ IsCache(mid[c]) /\ mid[c].next = caches[c].next /\ mid[c].size = caches[c].size
        /\ mid[c].full = a /\ mid[c].available = caches[c].available
    BY <1>5, <2>2, <2>5, CacheFields
  <2>7. PICK v : /\ v = (IF caches[c].available = 0 THEN s ELSE caches[c].available)
                 /\ v \in Nat
    <3>1. s \in Nat /\ caches[c].available \in Nat
      BY <1>5 DEF IsCache
    <3> QED
      BY <3>1
  <2>8. /\ DOMAIN caches' = DOMAIN caches /\ caches'[c] = [mid[c] EXCEPT !.available = v]
        /\ \A d \in DOMAIN caches : d # c => caches'[d] = caches[d]
    BY <1>5, <2>4, <2>5, <2>6, <2>7
  <2> QED
    BY <2>2, <2>6, <2>7, <2>8, CacheFields
<1>19. PICK H2 : H2 = SlabHead' /\ MovedHeads(S, H, L, HandKey, k, l, i, s, H2)
  <2>1. PICK cs, cs2, f : cs = caches /\ cs2 = caches' /\ f = free_space_for_slab
    OBVIOUS
  <2>2. PICK H2 : H2 = SlabHeads(cs2, f)
    OBVIOUS
  <2>3. H = SlabHeads(cs, f)
    BY <1>9, <2>1 DEF SlabHead
  <2>4. OneWritten(cs, f, cs2, f, c, H, H2)
    BY <1>5, <1>18, <2>1, <2>2, <2>3 DEF OneWritten
  <2>5. /\ DOMAIN H2 = DOMAIN H
        /\ H2[k] = cs2[c].full /\ H2[l] = cs2[c].available
        /\ H2[FreeKey] = f /\ H2[HandKey] = 0
        /\ \A m \in SlabKeys : m # k /\ m # l /\ m # FreeKey => H2[m] = H[m]
    BY <1>3, <1>4, <2>4, HeadsWritten
  <2>6. H[FreeKey] = f
    BY <2>3, HeadsAre
  <2>7. H2 = SlabHead'
    BY <1>17, <2>1, <2>2 DEF SlabHead
  <2>8. Len(L[l]) = 0 <=> H[l] = 0
    <3>1. Lists(S, H, L) /\ l \in DOMAIN L
      BY <1>5, <1>6, <1>9
    <3> QED
      BY <3>1, ListFacts
  <2>9. /\ H2[k] = IF i = 1 THEN S[s].next ELSE H[k]
        /\ H2[l] = IF Len(L[l]) = 0 THEN s ELSE H[l]
    BY <1>8, <1>9, <1>18, <2>1, <2>5, <2>8
  <2>10. \A m \in DOMAIN L \ {HandKey, k, l} : H2[m] = H[m]
    BY <1>5, <2>5, <2>6
  <2> QED
    BY <2>5, <2>7, <2>9, <2>10 DEF MovedHeads
<1>20. PICK L2 : /\ Lists(S2, H2, L2) /\ DOMAIN L2 = DOMAIN L
                 /\ Range(L2[k]) = Range(L[k]) \ {s}
                 /\ Range(L2[l]) = Range(L[l]) \cup {s}
                 /\ \A m \in DOMAIN L \ {k, l} : L2[m] = L[m]
  <2>1. Lists(S, H, L)
    BY <1>5, <1>9
  <2>2. Moved(S, H, L, HandKey, k, l, i, s, S2, H2)
    BY <1>15, <1>19 DEF Moved
  <2> QED
    BY <2>1, <2>2, Move
<1>21. \A d \in Nat : d # c => L2[AvailKey(d)] = L[AvailKey(d)] /\ L2[FullKey(d)] = L[FullKey(d)]
  BY <1>3, <1>4, <1>5, <1>20, KeyFacts
<1>22. SameSlabs(L, L2)
  <2>1. SlabsOf(L2, c) = SlabsOf(L, c)
    BY <1>3, <1>4, <1>5, <1>20 DEF SlabsOf
  <2> QED
    BY <1>21, <2>1 DEF SameSlabs, SlabsOf
<1>23. SpaceInv'
  <2>1. \A d \in DOMAIN caches : IsCache(caches'[d])
    BY <1>18 DEF ListedInv, SpaceInv
  <2> QED
    BY <1>16, <1>17, <1>18, <2>1, SpaceKept DEF ListedInv
<1>24. Lists(caches, CacheHead, M)' /\ CachesInv(M)'
  BY <1>5, <1>17, <1>18, CacheKept
<1>25. FullInv(L2)'
  <2>0. /\ \A d \in Nat : \A t \in Range(L[FullKey(d)]) :
             slabs[t].allocated = slabs[t].max \/ t = s
        /\ \A d \in Nat : \A t \in Range(L[AvailKey(d)]) : slabs[t].allocated < slabs[t].max
        /\ \A d \in Nat : Range(L[FullKey(d)]) \subseteq DOMAIN slabs
        /\ \A d \in Nat : Range(L[AvailKey(d)]) \subseteq DOMAIN slabs
    <3>1. FullInv(L)
      BY DEF ListedInv
    <3> QED
      BY <1>2, <1>5, <3>1, KeyFacts DEF FullInv
  <2>1. ASSUME NEW d \in Nat, NEW t \in Range(L2[FullKey(d)])
        PROVE  slabs'[t].allocated = slabs'[t].max
    <3>1. t # s /\ t \in Range(L[FullKey(d)])
      <4>1. CASE d = c
        BY <1>3, <1>20, <2>1, <4>1
      <4>2. CASE d # c
        <5>1. t \in Range(L[FullKey(d)])
          BY <1>21, <2>1, <4>2
        <5>2. t # s
          BY <1>3, <1>5, <4>2, <5>1, SlabPlace
        <5> QED
          BY <5>1, <5>2
      <4> QED
        BY <4>1, <4>2
    <3> QED
      BY <1>16, <2>0, <3>1
  <2>2. ASSUME NEW d \in Nat, NEW t \in Range(L2[AvailKey(d)])
        PROVE  slabs'[t].allocated < slabs'[t].max
    <3>1. CASE t = s
      BY <1>5, <1>12, <1>16, <3>1
    <3>2. CASE t # s
      <4>1. t \in Range(L[AvailKey(d)])
        BY <1>4, <1>20, <1>21, <2>2, <3>2
      <4> QED
        BY <1>16, <2>0, <4>1
    <3> QED
      BY <3>1, <3>2
  <2> QED
    BY <2>1, <2>2 DEF FullInv
<1>26. CallInv(L2, M)'
  <2>1. s \in Range(L2[AvailKey(c)])
    BY <1>4, <1>20
  <2> QED
    BY <1>1, <1>2, <1>5, <1>17, <2>1 DEF CallInv
<1>27. ListedInv(L2, M)'
  BY <1>9, <1>19, <1>20, <1>23, <1>24, <1>25, <1>26 DEF ListedInv, ListsInv
<1>28. SlabsSame /\ CachesSame
  BY <1>16, <1>18 DEF SlabsSame, CachesSame
<1> QED
  BY <1>22, <1>27, <1>28

\* RetireSlab: from the available list to the free one.
LEMMA ListedRetireSlab ==
  ASSUME NEW L, NEW M, ListedInv(L, M), RetireSlab
  PROVE  /\ \E L2 : /\ ListedInv(L2, M)'
                    /\ SlabsOf(L2, cache) = SlabsOf(L, cache) \ {slab}
                    /\ \A d \in Nat : d # cache => SlabsOf(L2, d) = SlabsOf(L, d)
         /\ SlabsSame /\ CachesSame
<1>1. pc = "count" /\ pc' = "empty"
  BY DEF RetireSlab
<1>2. PICK c, s : c = cache /\ s = slab
  OBVIOUS
<1>3. PICK k : k = AvailKey(c)
  OBVIOUS
<1>4. PICK l : l = FreeKey
  OBVIOUS
<1>5. /\ c \in Range(M["used"]) /\ c \in DOMAIN caches /\ c \in Nat
      /\ IsCache(caches[c])
      /\ s \in Range(L[k]) /\ s \in DOMAIN slabs /\ s # 0
      /\ k \in SlabKeys /\ DOMAIN L = SlabKeys /\ Len(L[HandKey]) = 0
      /\ HandKey \in SlabKeys
      /\ Lists(slabs, SlabHead, L)
      /\ \E i \in 1 .. Len(L[k]) : L[k][i] = s
      /\ \A y \in DOMAIN slabs : IsSlab(slabs[y]) /\ y \in Nat
      /\ \A m \in SlabKeys : Range(L[m]) \subseteq DOMAIN slabs
  BY <1>1, <1>2, <1>3, SlabInHand
<1>6. /\ l \in SlabKeys /\ FullKey(c) \in SlabKeys
      /\ k # l /\ k # HandKey /\ l # HandKey /\ k # FullKey(c) /\ l # FullKey(c)
  BY <1>3, <1>4, <1>5, KeyFacts
<1>7. PICK i : i \in 1 .. Len(L[k]) /\ L[k][i] = s
  BY <1>5
<1>8. SlabHead[l] = free_space_for_slab /\ SlabHead[k] = caches[c].available
  BY <1>3, <1>4, <1>5, ListsAre, HeadsAre DEF SlabHead
<1>9. PICK S, H, S2 : S = slabs /\ H = SlabHead /\ S2 = slabs'
  OBVIOUS
<1>10. PICK u : u = IF H[k] = s THEN S ELSE Unlink(S, H[k], s)
  OBVIOUS
<1>11. PICK alone : alone = [u EXCEPT ![s].next = 0]
  OBVIOUS
<1>12. S2 = IF H[l] = 0 THEN alone ELSE AddLast(alone, H[l], s)
  BY <1>2, <1>8, <1>9, <1>10, <1>11 DEF RetireSlab
<1>13. /\ DOMAIN u = DOMAIN S /\ u[s] = S[s]
  <2>0. /\ Lists(S, H, L) /\ k \in DOMAIN L /\ i \in 1 .. Len(L[k]) /\ s = L[k][i]
    BY <1>5, <1>7, <1>9
  <2>1. /\ H[k] = s <=> i = 1
        /\ DOMAIN u = DOMAIN S
        /\ i > 1 => /\ L[k][i - 1] \in DOMAIN S /\ L[k][i - 1] # s
                    /\ u[L[k][i - 1]] = [S[L[k][i - 1]] EXCEPT !.next = S[s].next]
        /\ \A y \in DOMAIN S : (i > 1 => y # L[k][i - 1]) => u[y] = S[y]
    BY <1>10, <2>0, UnlinkIs
  <2> QED
    BY <1>5, <1>9, <2>1
<1>14. /\ DOMAIN alone = DOMAIN S /\ alone[s] = [S[s] EXCEPT !.next = 0]
       /\ alone[s].next = 0
       /\ \A y \in DOMAIN S : y # s => alone[y] = u[y]
  <2>1. /\ DOMAIN alone = DOMAIN S /\ alone[s] = [S[s] EXCEPT !.next = 0]
        /\ \A y \in DOMAIN S : y # s => alone[y] = u[y]
    BY <1>5, <1>9, <1>11, <1>13
  <2>2. alone[s].next = 0
    BY <1>5, <1>9, <2>1, NextWritten
  <2> QED
    BY <2>1, <2>2
<1>15. MovedBy(S, H, L, HandKey, k, l, i, s, u, alone, S2)
  <2>1. \A y \in DOMAIN S, v \in DOMAIN S \cup {0} : [S[y] EXCEPT !.next = v].next = v
    BY <1>5, <1>9, NextWritten
  <2> QED
    BY <1>5, <1>6, <1>7, <1>10, <1>12, <1>14, <2>1 DEF MovedBy
<1>16. /\ MovedNodes(S, L, HandKey, k, l, i, s, S2)
       /\ H[k] = s <=> i = 1
       /\ OnlyNext(S, S2)
  <2>1. Lists(S, H, L)
    BY <1>5, <1>9
  <2>2. PICK h : h = HandKey
    OBVIOUS
  <2>3. MovedBy(S, H, L, h, k, l, i, s, u, alone, S2)
    BY <1>15, <2>2
  <2>4. /\ MovedNodes(S, L, h, k, l, i, s, S2)
        /\ H[k] = s <=> i = 1
        /\ OnlyNext(S, S2)
    BY <2>1, <2>3, MoveCode
  <2> QED
    BY <2>2, <2>4
<1>17. /\ DOMAIN slabs' = DOMAIN slabs
       /\ \A y \in DOMAIN slabs : /\ IsSlab(slabs'[y]) /\ slabs'[y].max = slabs[y].max
                                  /\ slabs'[y].allocated = slabs[y].allocated
                                  /\ slabs'[y].first_free = slabs[y].first_free
  <2>1. DOMAIN S2 = DOMAIN slabs
    BY <1>9, <1>16 DEF MovedNodes
  <2>2. OnlyNext(slabs, S2)
    BY <1>9, <1>16
  <2>3. \A y \in DOMAIN slabs :
          /\ IsSlab(S2[y]) /\ S2[y].max = slabs[y].max
          /\ S2[y].allocated = slabs[y].allocated
          /\ S2[y].first_free = slabs[y].first_free
    BY <1>5, <2>1, <2>2, SlabsKept
  <2> QED
    BY <1>9, <2>1, <2>3
<1>18. /\ first_cache' = first_cache /\ free_space' = free_space
       /\ free_space_for_cache' = free_space_for_cache
       /\ free_space_for_slab' = IF free_space_for_slab = 0 THEN s ELSE free_space_for_slab
       /\ cache' = cache /\ slab' = slab
  BY <1>2 DEF RetireSlab, locals
<1>19. /\ DOMAIN caches' = DOMAIN caches /\ IsCache(caches'[c])
       /\ caches'[c].next = caches[c].next /\ caches'[c].size = caches[c].size
       /\ caches'[c].available = IF i = 1 THEN slabs[s].next ELSE caches[c].available
       /\ caches'[c].full = caches[c].full
       /\ \A d \in DOMAIN caches : d # c => caches'[d] = caches[d]
  <2>1. caches' = [caches EXCEPT
                     ![cache].available = IF @ = slab THEN slabs[slab].next ELSE @]
    BY DEF RetireSlab
  <2>2. PICK a : a = (IF i = 1 THEN slabs[s].next ELSE caches[c].available) /\ a \in Nat
    <3>1. slabs[s].next \in Nat /\ caches[c].available \in Nat
      BY <1>5 DEF IsSlab, IsCache
    <3> QED
      BY <3>1
  <2>3. /\ DOMAIN caches' = DOMAIN caches /\ caches'[c] = [caches[c] EXCEPT !.available = a]
        /\ \A d \in DOMAIN caches : d # c => caches'[d] = caches[d]
    BY <1>2, <1>5, <1>8, <1>9, <1>16, <2>1, <2>2
  <2> QED
    BY <1>5, <2>2, <2>3, CacheFields
<1>20. PICK H2 : H2 = SlabHead' /\ MovedHeads(S, H, L, HandKey, k, l, i, s, H2)
  <2>1. PICK cs, cs2, f, f2 : /\ cs = caches /\ cs2 = caches'
                              /\ f = free_space_for_slab /\ f2 = free_space_for_slab'
    OBVIOUS
  <2>2. PICK H2 : H2 = SlabHeads(cs2, f2)
    OBVIOUS
  <2>3. H = SlabHeads(cs, f)
    BY <1>9, <2>1 DEF SlabHead
  <2>4. OneWritten(cs, f, cs2, f2, c, H, H2)
    BY <1>5, <1>19, <2>1, <2>2, <2>3 DEF OneWritten
  <2>5. /\ DOMAIN H2 = DOMAIN H
        /\ H2[AvailKey(c)] = cs2[c].available
        /\ H2[FullKey(c)] = cs2[c].full
        /\ H2[FreeKey] = f2
        /\ H2[HandKey] = 0
        /\ \A m \in SlabKeys :
             m # AvailKey(c) /\ m # FullKey(c) /\ m # FreeKey => H2[m] = H[m]
    BY <2>4, HeadsWritten
  <2>6. H[FullKey(c)] = caches[c].full
    BY <1>5, <1>9, ListsAre
  <2>7. H2 = SlabHead'
    BY <2>1, <2>2 DEF SlabHead
  <2>8. Len(L[l]) = 0 <=> H[l] = 0
    <3>1. Lists(S, H, L) /\ l \in DOMAIN L
      BY <1>5, <1>6, <1>9
    <3> QED
      BY <3>1, ListFacts
  <2>9. H2[k] = IF i = 1 THEN S[s].next ELSE H[k]
    BY <1>3, <1>8, <1>9, <1>19, <2>1, <2>5
  <2>10. H2[l] = IF Len(L[l]) = 0 THEN s ELSE H[l]
    BY <1>4, <1>8, <1>9, <1>18, <2>1, <2>5, <2>8
  <2>11. \A m \in DOMAIN L \ {HandKey, k, l} : H2[m] = H[m]
    BY <1>3, <1>4, <1>5, <1>19, <2>1, <2>5, <2>6
  <2> QED
    BY <2>5, <2>7, <2>9, <2>10, <2>11 DEF MovedHeads
<1>21. PICK L2 : /\ Lists(S2, H2, L2) /\ DOMAIN L2 = DOMAIN L
                 /\ Range(L2[k]) = Range(L[k]) \ {s}
                 /\ Range(L2[l]) = Range(L[l]) \cup {s}
                 /\ \A m \in DOMAIN L \ {k, l} : L2[m] = L[m]
  <2>1. Lists(S, H, L)
    BY <1>5, <1>9
  <2>2. Moved(S, H, L, HandKey, k, l, i, s, S2, H2)
    BY <1>16, <1>20 DEF Moved
  <2> QED
    BY <2>1, <2>2, Move
<1>22. /\ \A d \in Nat : L2[FullKey(d)] = L[FullKey(d)]
       /\ \A d \in Nat : d # c => L2[AvailKey(d)] = L[AvailKey(d)]
  BY <1>3, <1>4, <1>5, <1>21, KeyFacts
<1>23. \A d \in Nat : s \notin Range(L[FullKey(d)])
  BY <1>3, <1>5, SlabPlace
<1>24. /\ SlabsOf(L2, c) = SlabsOf(L, c) \ {s}
       /\ \A d \in Nat : d # c => SlabsOf(L2, d) = SlabsOf(L, d)
  <2>1. SlabsOf(L2, c) = SlabsOf(L, c) \ {s}
    <3>1. L2[FullKey(c)] = L[FullKey(c)] /\ s \notin Range(L[FullKey(c)])
      BY <1>5, <1>22, <1>23
    <3>2. Range(L2[AvailKey(c)]) = Range(L[AvailKey(c)]) \ {s}
      BY <1>3, <1>21
    <3> QED
      BY <3>1, <3>2 DEF SlabsOf
  <2> QED
    BY <1>22, <2>1 DEF SlabsOf
<1>25. SpaceInv'
  <2>1. \A d \in DOMAIN caches : IsCache(caches'[d])
    BY <1>19 DEF ListedInv, SpaceInv
  <2> QED
    BY <1>17, <1>18, <1>19, <2>1, SpaceKept DEF ListedInv
<1>26. Lists(caches, CacheHead, M)' /\ CachesInv(M)'
  BY <1>5, <1>18, <1>19, CacheKept
<1>27. FullInv(L2)'
  <2>0. /\ \A d \in Nat : \A t \in Range(L[FullKey(d)]) : slabs[t].allocated = slabs[t].max
        /\ \A d \in Nat : \A t \in Range(L[AvailKey(d)]) : slabs[t].allocated < slabs[t].max
        /\ \A d \in Nat : Range(L[FullKey(d)]) \subseteq DOMAIN slabs
        /\ \A d \in Nat : Range(L[AvailKey(d)]) \subseteq DOMAIN slabs
    <3>1. FullInv(L)
      BY DEF ListedInv
    <3> QED
      BY <1>1, <1>5, <3>1, KeyFacts DEF FullInv
  <2>1. ASSUME NEW d \in Nat, NEW t \in Range(L2[FullKey(d)])
        PROVE  slabs'[t].allocated = slabs'[t].max
    BY <1>17, <1>22, <2>0, <2>1
  <2>2. ASSUME NEW d \in Nat, NEW t \in Range(L2[AvailKey(d)])
        PROVE  slabs'[t].allocated < slabs'[t].max
    <3>1. t \in Range(L[AvailKey(d)])
      <4>1. CASE d = c
        BY <1>3, <1>21, <2>2, <4>1
      <4>2. CASE d # c
        BY <1>22, <2>2, <4>2
      <4> QED
        BY <4>1, <4>2
    <3> QED
      BY <1>17, <2>0, <3>1
  <2> QED
    BY <2>1, <2>2 DEF FullInv
<1>28. CallInv(L2, M)'
  BY <1>1, <1>2, <1>5, <1>18 DEF CallInv
<1>29. ListedInv(L2, M)'
  BY <1>9, <1>20, <1>21, <1>25, <1>26, <1>27, <1>28 DEF ListedInv, ListsInv
<1>30. SlabsSame /\ CachesSame
  <2>1. \A d \in DOMAIN caches : caches'[d].size = caches[d].size
    BY <1>19
  <2> QED
    BY <1>17, <1>19, <2>1 DEF SlabsSame, CachesSame
<1> QED
  BY <1>2, <1>24, <1>29, <1>30

\* A move of a cache between two lists changes next pointers only.
LEMMA CachesKept ==
  ASSUME NEW C2, DOMAIN C2 = DOMAIN caches,
         \A y \in DOMAIN caches : IsCache(caches[y]) /\ y \in Nat,
         OnlyNext(caches, C2)
  PROVE  \A y \in DOMAIN caches :
           /\ IsCache(C2[y]) /\ C2[y].size = caches[y].size
           /\ C2[y].available = caches[y].available /\ C2[y].full = caches[y].full
<1> SUFFICES ASSUME NEW y \in DOMAIN caches
             PROVE  /\ IsCache(C2[y]) /\ C2[y].size = caches[y].size
                    /\ C2[y].available = caches[y].available /\ C2[y].full = caches[y].full
  OBVIOUS
<1>1. CASE C2[y] = caches[y]
  BY <1>1
<1>2. CASE C2[y] # caches[y]
  <2>1. PICK v \in DOMAIN caches \cup {0} : C2[y] = [caches[y] EXCEPT !.next = v]
    BY <1>2 DEF OnlyNext
  <2>2. v \in Nat /\ IsCache(caches[y])
    OBVIOUS
  <2> QED
    BY <2>1, <2>2, CacheFields
<1> QED
  BY <1>1, <1>2

\* Nothing is on the lists of slabs of an empty cache.
LEMMA EmptyHasNone ==
  ASSUME NEW L, NEW M, ListedInv(L, M), NEW c \in DOMAIN caches, EmptyCache(c)
  PROVE  SlabsOf(L, c) = {}
<1>1. c \in Nat /\ AvailKey(c) \in SlabKeys /\ FullKey(c) \in SlabKeys
  BY ListsAre, KeyFacts
<1>2. SlabHead[AvailKey(c)] = 0 /\ SlabHead[FullKey(c)] = 0
  BY ListsAre DEF EmptyCache
<1>3. Lists(slabs, SlabHead, L) /\ DOMAIN L = SlabKeys
  BY ListsAre DEF ListedInv, ListsInv
<1>4. PICK a, b : a = AvailKey(c) /\ b = FullKey(c)
  OBVIOUS
<1>5. /\ a \in DOMAIN L /\ b \in DOMAIN L
      /\ SlabHead[a] = 0 /\ SlabHead[b] = 0
  BY <1>1, <1>2, <1>3, <1>4
<1>6. Range(L[a]) = {}
  BY <1>3, <1>5, ListFacts
<1>7. Range(L[b]) = {}
  BY <1>3, <1>5, ListFacts
<1> QED
  BY <1>4, <1>6, <1>7 DEF SlabsOf

\* RetireCache: from the caches in use to the free ones.
LEMMA ListedRetireCache ==
  ASSUME NEW L, NEW M, ListedInv(L, M), RetireCache
  PROVE  /\ \E M2 : ListedInv(L, M2)' /\ Range(M2["used"]) = Range(M["used"]) \ {cache}
         /\ SlabsOf(L, cache) = {}
         /\ CachesSame
<1>1. pc = "empty" /\ pc' = "idle" /\ EmptyCache(cache)
  BY DEF RetireCache, Done
<1>2. PICK c : c = cache
  OBVIOUS
<1>3. PICK k, l, h : k = "used" /\ l = "free" /\ h = "hand"
  OBVIOUS
<1>4. /\ k \in CacheKeys /\ l \in CacheKeys /\ h \in CacheKeys
      /\ k # l /\ k # h /\ l # h /\ CacheKeys = {k, l, h}
  BY <1>3 DEF CacheKeys
<1>5. /\ c \in Range(M[k]) /\ DOMAIN M = CacheKeys /\ Len(M[h]) = 0
      /\ Range(M[k]) \subseteq DOMAIN caches
  BY <1>1, <1>2, <1>3, ListsAre DEF ListedInv, CallInv, CacheKeys
<1>6. /\ Lists(caches, CacheHead, M) /\ c \in DOMAIN caches
      /\ \A y \in DOMAIN caches : IsCache(caches[y]) /\ y \in Nat
  BY <1>5 DEF ListedInv, ListsInv, SpaceInv
<1>7. PICK i : i \in 1 .. Len(M[k]) /\ M[k][i] = c
  <2>1. k \in DOMAIN M /\ Lists(caches, CacheHead, M)
    BY <1>4, <1>5, <1>6
  <2>2. \A x \in Range(M[k]) : \E j \in 1 .. Len(M[k]) : M[k][j] = x
    BY <2>1, ListFacts
  <2> QED
    BY <1>5, <2>2
<1>8. CacheHead[k] = first_cache /\ CacheHead[l] = free_space_for_cache
  BY <1>3, CacheHeadsAre DEF CacheHead
<1>9. PICK S, H, S2 : S = caches /\ H = CacheHead /\ S2 = caches'
  OBVIOUS
<1>10. PICK u : u = IF H[k] = c THEN S ELSE Unlink(S, H[k], c)
  OBVIOUS
<1>11. PICK alone : alone = [u EXCEPT ![c].next = 0]
  OBVIOUS
<1>12. S2 = IF H[l] = 0 THEN alone ELSE AddLast(alone, H[l], c)
  BY <1>2, <1>8, <1>9, <1>10, <1>11 DEF RetireCache
<1>13. /\ DOMAIN u = DOMAIN S /\ u[c] = S[c]
  <2>0. /\ Lists(S, H, M) /\ k \in DOMAIN M /\ i \in 1 .. Len(M[k]) /\ c = M[k][i]
    BY <1>4, <1>5, <1>6, <1>7, <1>9
  <2>1. /\ H[k] = c <=> i = 1
        /\ DOMAIN u = DOMAIN S
        /\ i > 1 => /\ M[k][i - 1] \in DOMAIN S /\ M[k][i - 1] # c
                    /\ u[M[k][i - 1]] = [S[M[k][i - 1]] EXCEPT !.next = S[c].next]
        /\ \A y \in DOMAIN S : (i > 1 => y # M[k][i - 1]) => u[y] = S[y]
    BY <1>10, <2>0, UnlinkIs
  <2> QED
    BY <1>6, <1>9, <2>1
<1>14. /\ DOMAIN alone = DOMAIN S /\ alone[c] = [S[c] EXCEPT !.next = 0]
       /\ alone[c].next = 0
       /\ \A y \in DOMAIN S : y # c => alone[y] = u[y]
  <2>1. /\ DOMAIN alone = DOMAIN S /\ alone[c] = [S[c] EXCEPT !.next = 0]
        /\ \A y \in DOMAIN S : y # c => alone[y] = u[y]
    BY <1>6, <1>9, <1>11, <1>13
  <2>2. alone[c].next = 0
    BY <1>6, <1>9, <2>1, NextWritten
  <2> QED
    BY <2>1, <2>2
<1>15. MovedBy(S, H, M, h, k, l, i, c, u, alone, S2)
  <2>1. \A y \in DOMAIN S, v \in DOMAIN S \cup {0} : [S[y] EXCEPT !.next = v].next = v
    BY <1>6, <1>9, NextWritten
  <2> QED
    BY <1>4, <1>5, <1>7, <1>10, <1>12, <1>14, <2>1 DEF MovedBy
<1>16. /\ MovedNodes(S, M, h, k, l, i, c, S2)
       /\ H[k] = c <=> i = 1
       /\ OnlyNext(S, S2)
  <2>1. Lists(S, H, M)
    BY <1>6, <1>9
  <2> QED
    BY <1>15, <2>1, MoveCode
<1>17. /\ DOMAIN caches' = DOMAIN caches
       /\ \A y \in DOMAIN caches :
            /\ IsCache(caches'[y]) /\ caches'[y].size = caches[y].size
            /\ caches'[y].available = caches[y].available /\ caches'[y].full = caches[y].full
  <2>1. DOMAIN S2 = DOMAIN caches
    BY <1>9, <1>16 DEF MovedNodes
  <2>2. OnlyNext(caches, S2)
    BY <1>9, <1>16
  <2>3. \A y \in DOMAIN caches :
          /\ IsCache(S2[y]) /\ S2[y].size = caches[y].size
          /\ S2[y].available = caches[y].available /\ S2[y].full = caches[y].full
    BY <1>6, <2>1, <2>2, CachesKept
  <2> QED
    BY <1>9, <2>1, <2>3
<1>18. /\ slabs' = slabs /\ free_space' = free_space
       /\ free_space_for_slab' = free_space_for_slab
       /\ free_space_for_cache' = IF free_space_for_cache = 0 THEN c ELSE free_space_for_cache
       /\ first_cache' = IF i = 1 THEN caches[c].next ELSE first_cache
  <2>1. first_cache = c <=> i = 1
    BY <1>8, <1>9, <1>16
  <2>2. first_cache' = IF first_cache = c THEN caches[c].next ELSE first_cache
    BY <1>2 DEF RetireCache
  <2>3. /\ slabs' = slabs /\ free_space' = free_space
        /\ free_space_for_slab' = free_space_for_slab
        /\ free_space_for_cache' = IF free_space_for_cache = 0 THEN c ELSE free_space_for_cache
    BY <1>2 DEF RetireCache
  <2> QED
    BY <2>1, <2>2, <2>3
<1>19. PICK H2 : H2 = CacheHead' /\ MovedHeads(S, H, M, h, k, l, i, c, H2)
  <2>1. PICK a, b : a = first_cache' /\ b = free_space_for_cache'
    OBVIOUS
  <2>2. PICK H2 : H2 = CacheHeads(a, b)
    OBVIOUS
  <2>3. H2 = CacheHead'
    BY <2>1, <2>2 DEF CacheHead
  <2>4. /\ DOMAIN H2 = CacheKeys /\ H2[k] = a /\ H2[l] = b /\ H2[h] = 0
        /\ DOMAIN H = CacheKeys
    BY <1>3, <1>9, <2>2, CacheHeadsAre DEF CacheHead
  <2>5. Len(M[l]) = 0 <=> H[l] = 0
    <3>1. Lists(S, H, M) /\ l \in DOMAIN M
      BY <1>4, <1>5, <1>6, <1>9
    <3> QED
      BY <3>1, ListFacts
  <2>6. H2[k] = IF i = 1 THEN S[c].next ELSE H[k]
    BY <1>8, <1>9, <1>18, <2>1, <2>4
  <2>7. H2[l] = IF Len(M[l]) = 0 THEN c ELSE H[l]
    BY <1>8, <1>9, <1>18, <2>1, <2>4, <2>5
  <2>8. \A m \in DOMAIN M \ {h, k, l} : H2[m] = H[m]
    BY <1>4, <1>5
  <2> QED
    BY <2>3, <2>4, <2>6, <2>7, <2>8 DEF MovedHeads
<1>20. PICK M2 : /\ Lists(S2, H2, M2) /\ DOMAIN M2 = DOMAIN M
                 /\ Range(M2[k]) = Range(M[k]) \ {c}
                 /\ Range(M2[l]) = Range(M[l]) \cup {c}
                 /\ \A m \in DOMAIN M \ {k, l} : M2[m] = M[m]
  <2>1. Lists(S, H, M)
    BY <1>6, <1>9
  <2>2. Moved(S, H, M, h, k, l, i, c, S2, H2)
    BY <1>16, <1>19 DEF Moved
  <2> QED
    BY <2>1, <2>2, Move
<1>21. SpaceInv'
  <2>1. \A s \in DOMAIN slabs : IsSlab(slabs'[s])
    BY <1>18 DEF ListedInv, SpaceInv
  <2> QED
    BY <1>17, <1>18, <2>1, SpaceKept DEF ListedInv
<1>22. Lists(slabs, SlabHead, L)'
  <2>1. PICK cs, cs2, f : cs = caches /\ cs2 = caches' /\ f = free_space_for_slab
    OBVIOUS
  <2>2. \A d \in Nat : /\ AvailableOf(cs2, d) = AvailableOf(cs, d)
                       /\ FullOf(cs2, d) = FullOf(cs, d)
    BY <1>17, <2>1 DEF AvailableOf, FullOf
  <2>3. SlabHeads(cs2, f) = SlabHeads(cs, f)
    BY <2>2, HeadsSame
  <2>4. SlabHead' = SlabHead
    BY <1>18, <2>1, <2>3 DEF SlabHead
  <2> QED
    BY <1>18, <2>4 DEF ListedInv, ListsInv
<1>23. Range(M2["used"]) = Range(M["used"]) \ {c}
  BY <1>3, <1>20
<1>24. CachesInv(M2)'
  <2>1. CachesInv(M) /\ Range(M["used"]) \subseteq DOMAIN caches
    BY <1>3, <1>5 DEF ListedInv
  <2>2. \A d \in Range(M2["used"]) : /\ d \in Range(M["used"])
                                     /\ caches'[d].size = caches[d].size
    BY <1>17, <1>23, <2>1
  <2>3. \A d \in DOMAIN caches : d \notin Range(M2["used"]) => EmptyCache(d)
    BY <1>1, <1>2, <1>23, <2>1 DEF CachesInv
  <2>4. \A d \in DOMAIN caches' : d \notin Range(M2["used"]) => EmptyCache(d)'
    BY <1>17, <2>3 DEF EmptyCache
  <2> QED
    BY <2>1, <2>2, <2>4 DEF CachesInv
<1>25. FullInv(L)'
  <2>1. FullInv(L)
    BY DEF ListedInv
  <2> QED
    BY <1>1, <1>18, <2>1 DEF FullInv
<1>26. CallInv(L, M2)'
  BY <1>1 DEF CallInv
<1>27. ListedInv(L, M2)'
  BY <1>9, <1>19, <1>20, <1>21, <1>22, <1>24, <1>25, <1>26 DEF ListedInv, ListsInv
<1>28. SlabsOf(L, cache) = {}
  BY <1>1, <1>2, <1>6, EmptyHasNone
<1> QED
  BY <1>2, <1>17, <1>23, <1>27, <1>28 DEF CachesSame

\* A slab has room for an object of any size a cache serves.
LEMMA RoomForOne ==
  ASSUME NEW n \in WordBytes .. SlabSize
  PROVE  MaxObjects(n) \in Nat /\ MaxObjects(n) >= 1
<1>1. SlabSize \in Nat /\ n \in Nat \ {0} /\ n <= SlabSize
  BY HeapAssumption DEF WordBytes
<1>2. PICK q, r : q = SlabSize \div n /\ r = SlabSize % n
  OBVIOUS
<1>3. q \in Nat /\ r \in 0 .. n - 1 /\ SlabSize = n * q + r
  BY <1>1, <1>2, Division
<1>4. q # 0
  <2> SUFFICES ASSUME q = 0
               PROVE  FALSE
    OBVIOUS
  <2>1. n * q = 0
    BY <1>1
  <2>2. SlabSize = r
    BY <1>1, <1>3, <2>1
  <2> QED
    BY <1>1, <1>3, <2>2
<1> QED
  BY <1>2, <1>3, <1>4 DEF MaxObjects

\* The slab _make_slab makes, and its header.
NewSlab == IF free_space_for_slab # 0 THEN free_space_for_slab ELSE free_space

FreshSlab(s) ==
  [next |-> 0, allocated |-> 0, max |-> MaxObjects(size), first_free |-> s + SlabHeader]

\* MakeSlab in terms of the slab it makes.
LEMMA MakeSlabIs ==
  ASSUME MakeSlab
  PROVE  /\ pc = "slab" /\ pc' = pc /\ caches[cache].available = 0
         /\ slabs' = [x \in DOMAIN slabs \cup {NewSlab} |->
                        IF x = NewSlab THEN FreshSlab(NewSlab) ELSE slabs[x]]
         /\ caches' = [caches EXCEPT ![cache].available = NewSlab]
         /\ UNCHANGED <<first_cache, null_word, free_space_for_cache, size, cache, slab, owned>>
         /\ free_space_for_slab # 0 => /\ free_space_for_slab' = slabs[free_space_for_slab].next
                                       /\ free_space' = free_space
         /\ free_space_for_slab = 0 => /\ free_space' = free_space + SlabBytes
                                       /\ free_space + SlabBytes <= HeapEnd
                                       /\ free_space_for_slab' = free_space_for_slab
BY DEF MakeSlab, NewSlab, FreshSlab, CanMakeSlab, locals

\* The header of a new slab.
LEMMA FreshFields ==
  ASSUME NEW s, size \in WordBytes .. SlabSize
  PROVE  /\ IsSlab(FreshSlab(s)) /\ FreshSlab(s).next = 0
         /\ FreshSlab(s).allocated = 0 /\ FreshSlab(s).max = MaxObjects(size)
         /\ FreshSlab(s).first_free = s + SlabHeader
         /\ FreshSlab(s).allocated < FreshSlab(s).max
<1>1. MaxObjects(size) \in Nat /\ MaxObjects(size) >= 1
  BY RoomForOne
<1>2. /\ FreshSlab(s).next = 0 /\ FreshSlab(s).allocated = 0
      /\ FreshSlab(s).max = MaxObjects(size) /\ FreshSlab(s).first_free = s + SlabHeader
  BY DEF FreshSlab
<1>3. IsSlab(FreshSlab(s))
  BY <1>1 DEF FreshSlab, IsSlab
<1> QED
  BY <1>1, <1>2, <1>3

\* A slab that malloc makes, wherever it comes from: what the lists are then.
SlabComesIn(L, L2, s, H2) ==
  /\ Lists(slabs', H2, L2) /\ DOMAIN L2 = DOMAIN L
  /\ Range(L2[AvailKey(cache)]) = Range(L[AvailKey(cache)]) \cup {s}
  /\ \A m \in DOMAIN L \ {AvailKey(cache), FreeKey} : L2[m] = L[m]
  /\ \A d \in Nat : s \notin Range(L[AvailKey(d)]) /\ s \notin Range(L[FullKey(d)])

\* The invariant once the new slab is on its list.
LEMMA NewSlabListed ==
  ASSUME NEW L, NEW M, ListedInv(L, M), MakeSlab,
         NEW s, s = NewSlab, NEW H2, H2 = SlabHead', NEW L2, SlabComesIn(L, L2, s, H2),
         SpaceInv'
  PROVE  /\ ListedInv(L2, M)'
         /\ SlabsOf(L2, cache) = SlabsOf(L, cache) \cup {s}
         /\ \A d \in Nat : d # cache => SlabsOf(L2, d) = SlabsOf(L, d)
         /\ CachesSame
<1>1. /\ pc = "slab" /\ pc' = pc
      /\ caches' = [caches EXCEPT ![cache].available = s]
      /\ slabs' = [x \in DOMAIN slabs \cup {s} |-> IF x = s THEN FreshSlab(s) ELSE slabs[x]]
      /\ UNCHANGED <<first_cache, free_space_for_cache, size, cache, slab>>
  BY MakeSlabIs
<1>2. PICK c : c = cache
  OBVIOUS
<1>3. /\ c \in Range(M["used"]) /\ c \in DOMAIN caches /\ c \in Nat
      /\ IsCache(caches[c]) /\ size \in WordBytes .. SlabSize /\ caches[c].size = size
  BY <1>1, <1>2, TakenFacts
<1>4. /\ DOMAIN slabs' = DOMAIN slabs \cup {s} /\ slabs'[s] = FreshSlab(s)
      /\ \A t \in DOMAIN slabs : t # s => slabs'[t] = slabs[t]
  BY <1>1
<1>5. s \in Nat
  BY <1>4 DEF SpaceInv
<1>6. /\ DOMAIN caches' = DOMAIN caches
      /\ caches'[c].next = caches[c].next /\ caches'[c].size = caches[c].size
      /\ \A d \in DOMAIN caches : d # c => caches'[d] = caches[d]
  <2>1. /\ DOMAIN caches' = DOMAIN caches /\ caches'[c] = [caches[c] EXCEPT !.available = s]
        /\ \A d \in DOMAIN caches : d # c => caches'[d] = caches[d]
    BY <1>1, <1>2, <1>3
  <2> QED
    BY <1>3, <1>5, <2>1, CacheFields
<1>7. Lists(caches, CacheHead, M)' /\ CachesInv(M)'
  BY <1>1, <1>3, <1>6, CacheKept
<1>8. PICK k : k = AvailKey(c)
  OBVIOUS
<1>9. /\ k \in SlabKeys /\ DOMAIN L = SlabKeys
      /\ \A d \in Nat : FullKey(d) \in SlabKeys /\ FullKey(d) # k /\ FullKey(d) # FreeKey
      /\ \A d \in Nat : d # c => /\ AvailKey(d) \in SlabKeys
                                 /\ AvailKey(d) # k /\ AvailKey(d) # FreeKey
  BY <1>3, <1>8, KeyFacts, ListsAre
<1>10. /\ \A d \in Nat : L2[FullKey(d)] = L[FullKey(d)]
       /\ \A d \in Nat : d # c => L2[AvailKey(d)] = L[AvailKey(d)]
       /\ Range(L2[AvailKey(c)]) = Range(L[AvailKey(c)]) \cup {s}
  BY <1>2, <1>8, <1>9 DEF SlabComesIn
<1>11. FullInv(L2)'
  <2>0. /\ \A d \in Nat : \A t \in Range(L[FullKey(d)]) : slabs[t].allocated = slabs[t].max
        /\ \A d \in Nat : \A t \in Range(L[AvailKey(d)]) : slabs[t].allocated < slabs[t].max
        /\ \A d \in Nat : Range(L[FullKey(d)]) \subseteq DOMAIN slabs
        /\ \A d \in Nat : Range(L[AvailKey(d)]) \subseteq DOMAIN slabs
    <3>1. FullInv(L) /\ \A m \in SlabKeys : Range(L[m]) \subseteq DOMAIN slabs
      BY ListsAre DEF ListedInv
    <3> QED
      BY <1>1, <3>1, KeyFacts DEF FullInv
  <2>1. ASSUME NEW d \in Nat, NEW t \in Range(L2[FullKey(d)])
        PROVE  slabs'[t].allocated = slabs'[t].max
    <3>1. t \in Range(L[FullKey(d)]) /\ t # s
      BY <1>10, <2>1 DEF SlabComesIn
    <3> QED
      BY <1>4, <2>0, <3>1
  <2>2. ASSUME NEW d \in Nat, NEW t \in Range(L2[AvailKey(d)])
        PROVE  slabs'[t].allocated < slabs'[t].max
    <3>1. CASE t = s
      BY <1>3, <1>4, <3>1, FreshFields
    <3>2. CASE t # s
      <4>1. t \in Range(L[AvailKey(d)])
        BY <1>10, <2>2, <3>2
      <4> QED
        BY <1>4, <2>0, <3>2, <4>1
    <3> QED
      BY <3>1, <3>2
  <2> QED
    BY <2>1, <2>2 DEF FullInv
<1>12. CallInv(L2, M)'
  BY <1>1, <1>2, <1>3, <1>6 DEF CallInv
<1>13. ListedInv(L2, M)'
  <2>1. Lists(slabs, SlabHead, L2)'
    BY DEF SlabComesIn
  <2> QED
    BY <1>7, <1>11, <1>12, <2>1 DEF ListedInv, ListsInv
<1>14. /\ SlabsOf(L2, c) = SlabsOf(L, c) \cup {s}
       /\ \A d \in Nat : d # c => SlabsOf(L2, d) = SlabsOf(L, d)
  <2>1. SlabsOf(L2, c) = SlabsOf(L, c) \cup {s}
    BY <1>3, <1>10 DEF SlabsOf
  <2> QED
    BY <1>10, <2>1 DEF SlabsOf
<1>15. CachesSame
  <2>1. \A d \in DOMAIN caches : caches'[d].size = caches[d].size
    BY <1>6
  <2> QED
    BY <1>6, <2>1 DEF CachesSame
<1> QED
  BY <1>2, <1>13, <1>14, <1>15

\* A slab from the free list.
LEMMA ListedReuseSlab ==
  ASSUME NEW L, NEW M, ListedInv(L, M), MakeSlab, free_space_for_slab # 0,
         NEW s, s = NewSlab
  PROVE  /\ \E L2 : \E H2 : H2 = SlabHead' /\ SlabComesIn(L, L2, s, H2)
         /\ SpaceInv' /\ s \in DOMAIN slabs
<1>1. /\ pc = "slab" /\ caches[cache].available = 0
      /\ caches' = [caches EXCEPT ![cache].available = s]
      /\ slabs' = [x \in DOMAIN slabs \cup {s} |-> IF x = s THEN FreshSlab(s) ELSE slabs[x]]
      /\ free_space_for_slab' = slabs[s].next /\ free_space' = free_space
  BY MakeSlabIs DEF NewSlab
<1>2. PICK c : c = cache
  OBVIOUS
<1>3. /\ c \in Range(M["used"]) /\ c \in DOMAIN caches /\ c \in Nat
      /\ IsCache(caches[c]) /\ size \in WordBytes .. SlabSize
  BY <1>1, <1>2, TakenFacts
<1>4. PICK k, l, h : k = FreeKey /\ l = AvailKey(c) /\ h = HandKey
  OBVIOUS
<1>5. /\ k \in SlabKeys /\ l \in SlabKeys /\ h \in SlabKeys /\ FullKey(c) \in SlabKeys
      /\ k # l /\ k # h /\ l # h /\ k # FullKey(c) /\ l # FullKey(c)
  BY <1>3, <1>4, KeyFacts
<1>6. PICK S, H, S2 : S = slabs /\ H = SlabHead /\ S2 = slabs'
  OBVIOUS
<1>7. /\ Lists(S, H, L) /\ DOMAIN L = SlabKeys /\ Len(L[h]) = 0
      /\ H[k] = s /\ H[l] = 0 /\ s # 0 /\ H[FullKey(c)] = caches[c].full
      /\ \A m \in SlabKeys : Range(L[m]) \subseteq DOMAIN slabs
  <2>1. Lists(S, H, L)
    BY <1>6 DEF ListedInv, ListsInv
  <2>2. H[k] = free_space_for_slab
    BY <1>4, <1>6, HeadsAre DEF SlabHead
  <2>3. H[l] = 0 /\ H[FullKey(c)] = caches[c].full
    BY <1>1, <1>2, <1>3, <1>4, <1>6, ListsAre
  <2> QED
    BY <1>4, <2>1, <2>2, <2>3, ListsAre DEF NewSlab
<1>8. PICK i : i = 1
  OBVIOUS
<1>9. i \in 1 .. Len(L[k]) /\ s = L[k][i] /\ Len(L[l]) = 0
  <2>1. k \in DOMAIN L /\ l \in DOMAIN L
    BY <1>5, <1>7
  <2>2. /\ Len(L[k]) \in Nat /\ Len(L[k]) = 0 <=> H[k] = 0
        /\ Len(L[k]) > 0 => H[k] = L[k][1]
    BY <1>7, <2>1, ListFacts
  <2>3. Len(L[l]) = 0 <=> H[l] = 0
    BY <1>7, <2>1, ListFacts
  <2> QED
    BY <1>7, <1>8, <2>2, <2>3
<1>10. s \in DOMAIN slabs
  <2>1. k \in DOMAIN L
    BY <1>5, <1>7
  <2> QED
    BY <1>6, <1>7, <1>9, <2>1, ListFacts
<1>11. /\ DOMAIN S2 = DOMAIN S /\ S2[s] = FreshSlab(s)
       /\ \A t \in DOMAIN S : t # s => S2[t] = S[t]
  BY <1>1, <1>6, <1>10
<1>12. /\ IsSlab(FreshSlab(s)) /\ FreshSlab(s).next = 0
  BY <1>3, FreshFields
<1>13. MovedNodes(S, L, h, k, l, i, s, S2)
  BY <1>5, <1>7, <1>8, <1>9, <1>11, <1>12 DEF MovedNodes
<1>14. /\ DOMAIN caches' = DOMAIN caches /\ IsCache(caches'[c])
       /\ caches'[c].next = caches[c].next /\ caches'[c].size = caches[c].size
       /\ caches'[c].available = s /\ caches'[c].full = caches[c].full
       /\ \A d \in DOMAIN caches : d # c => caches'[d] = caches[d]
  <2>1. s \in Nat
    BY <1>10 DEF ListedInv, SpaceInv
  <2>2. /\ DOMAIN caches' = DOMAIN caches /\ caches'[c] = [caches[c] EXCEPT !.available = s]
        /\ \A d \in DOMAIN caches : d # c => caches'[d] = caches[d]
    BY <1>1, <1>2, <1>3
  <2> QED
    BY <1>3, <2>1, <2>2, CacheFields
<1>15. PICK H2 : H2 = SlabHead' /\ MovedHeads(S, H, L, h, k, l, i, s, H2)
  <2>1. PICK cs, cs2, f, f2 : /\ cs = caches /\ cs2 = caches'
                              /\ f = free_space_for_slab /\ f2 = free_space_for_slab'
    OBVIOUS
  <2>2. PICK H2 : H2 = SlabHeads(cs2, f2)
    OBVIOUS
  <2>3. H = SlabHeads(cs, f)
    BY <1>6, <2>1 DEF SlabHead
  <2>4. OneWritten(cs, f, cs2, f2, c, H, H2)
    BY <1>3, <1>14, <2>1, <2>2, <2>3 DEF OneWritten
  <2>5. /\ DOMAIN H2 = DOMAIN H
        /\ H2[AvailKey(c)] = cs2[c].available
        /\ H2[FullKey(c)] = cs2[c].full
        /\ H2[FreeKey] = f2
        /\ H2[HandKey] = 0
        /\ \A m \in SlabKeys :
             m # AvailKey(c) /\ m # FullKey(c) /\ m # FreeKey => H2[m] = H[m]
    BY <2>4, HeadsWritten
  <2>6. H2 = SlabHead'
    BY <2>1, <2>2 DEF SlabHead
  <2>7. H2[k] = IF i = 1 THEN S[s].next ELSE H[k]
    BY <1>1, <1>4, <1>6, <1>8, <2>1, <2>5
  <2>8. H2[l] = IF Len(L[l]) = 0 THEN s ELSE H[l]
    BY <1>4, <1>9, <1>14, <2>1, <2>5
  <2>9. \A m \in DOMAIN L \ {h, k, l} : H2[m] = H[m]
    BY <1>4, <1>7, <1>14, <2>1, <2>5
  <2> QED
    BY <1>4, <2>5, <2>6, <2>7, <2>8, <2>9 DEF MovedHeads
<1>16. PICK L2 : /\ Lists(S2, H2, L2) /\ DOMAIN L2 = DOMAIN L
                 /\ Range(L2[k]) = Range(L[k]) \ {s}
                 /\ Range(L2[l]) = Range(L[l]) \cup {s}
                 /\ \A m \in DOMAIN L \ {k, l} : L2[m] = L[m]
  <2>1. Moved(S, H, L, h, k, l, i, s, S2, H2)
    BY <1>13, <1>15 DEF Moved
  <2>2. Lists(S, H, L)
    BY <1>7
  <2> QED
    BY <2>1, <2>2, Move
<1>17. \A d \in Nat : s \notin Range(L[AvailKey(d)]) /\ s \notin Range(L[FullKey(d)])
  <2>1. s \in Range(L[FreeKey])
    <3>1. k \in DOMAIN L
      BY <1>5, <1>7
    <3> QED
      BY <1>4, <1>7, <1>9, <3>1, ListFacts
  <2> QED
    BY <2>1, SlabPlace
<1>18. SlabComesIn(L, L2, s, H2)
  BY <1>2, <1>4, <1>6, <1>16, <1>17 DEF SlabComesIn
<1>19. SpaceInv'
  <2>1. /\ \A d \in DOMAIN caches : IsCache(caches'[d])
        /\ \A t \in DOMAIN slabs : IsSlab(slabs'[t])
    BY <1>6, <1>11, <1>12, <1>14 DEF ListedInv, SpaceInv
  <2>2. DOMAIN slabs' = DOMAIN slabs
    BY <1>6, <1>11
  <2> QED
    BY <1>1, <1>14, <2>1, <2>2, SpaceKept DEF ListedInv
<1> QED
  BY <1>10, <1>15, <1>18, <1>19

\* A slab cut off free_space.
LEMMA ListedCutSlab ==
  ASSUME NEW L, NEW M, ListedInv(L, M), MakeSlab, free_space_for_slab = 0,
         NEW s, s = NewSlab
  PROVE  /\ \E L2 : \E H2 : H2 = SlabHead' /\ SlabComesIn(L, L2, s, H2)
         /\ SpaceInv' /\ s \notin DOMAIN slabs
<1>1. /\ pc = "slab" /\ caches[cache].available = 0 /\ s = free_space
      /\ caches' = [caches EXCEPT ![cache].available = s]
      /\ slabs' = [x \in DOMAIN slabs \cup {s} |-> IF x = s THEN FreshSlab(s) ELSE slabs[x]]
      /\ free_space_for_slab' = free_space_for_slab
      /\ free_space' = free_space + SlabBytes /\ free_space + SlabBytes <= HeapEnd
  BY MakeSlabIs DEF NewSlab
<1>2. PICK c : c = cache
  OBVIOUS
<1>3. /\ c \in Range(M["used"]) /\ c \in DOMAIN caches /\ c \in Nat
      /\ IsCache(caches[c]) /\ size \in WordBytes .. SlabSize
  BY <1>1, <1>2, TakenFacts
<1>4. PICK l, h : l = AvailKey(c) /\ h = HandKey
  OBVIOUS
<1>5. /\ l \in SlabKeys /\ h \in SlabKeys /\ FullKey(c) \in SlabKeys /\ FreeKey \in SlabKeys
      /\ l # h /\ l # FullKey(c) /\ l # FreeKey
  BY <1>3, <1>4, KeyFacts
<1>6. PICK S, H, S2 : S = slabs /\ H = SlabHead /\ S2 = slabs'
  OBVIOUS
<1>7. /\ Lists(S, H, L) /\ DOMAIN L = SlabKeys /\ Len(L[h]) = 0
      /\ H[l] = 0 /\ H[FullKey(c)] = caches[c].full /\ H[FreeKey] = free_space_for_slab
      /\ \A m \in SlabKeys : Range(L[m]) \subseteq DOMAIN slabs
  <2>1. Lists(S, H, L)
    BY <1>6 DEF ListedInv, ListsInv
  <2>2. H[FreeKey] = free_space_for_slab
    BY <1>6, HeadsAre DEF SlabHead
  <2>3. H[l] = 0 /\ H[FullKey(c)] = caches[c].full
    BY <1>1, <1>2, <1>3, <1>4, <1>6, ListsAre
  <2> QED
    BY <1>4, <2>1, <2>2, <2>3, ListsAre
<1>8. Len(L[l]) = 0
  <2>1. l \in DOMAIN L
    BY <1>5, <1>7
  <2> QED
    BY <1>7, <2>1, ListFacts
<1>9. SlabSize \in Nat /\ SlabBytes \in Nat /\ SlabBytes > 0 /\ HeapEnd \in Nat
  BY HeapAssumption DEF SlabBytes, SlabHeader, HeapEnd
<1>10. s \in Nat /\ s # 0 /\ s \notin DOMAIN slabs
  <2>1. /\ free_space \in Nat /\ Base + HeapHeader <= free_space
        /\ \A t \in DOMAIN slabs : t \in Nat /\ t + SlabBytes <= free_space
    BY DEF ListedInv, SpaceInv
  <2>2. Base \in Nat \ {0}
    BY HeapAssumption
  <2> QED
    BY <1>1, <1>9, <2>1, <2>2 DEF HeapHeader
<1>11. /\ DOMAIN S2 = DOMAIN S \cup {s} /\ S2[s] = FreshSlab(s)
       /\ \A t \in DOMAIN S : t # s /\ S2[t] = S[t]
  BY <1>1, <1>6, <1>10
<1>12. /\ IsSlab(FreshSlab(s)) /\ FreshSlab(s).next = 0
  BY <1>3, FreshFields
<1>13. /\ DOMAIN caches' = DOMAIN caches /\ IsCache(caches'[c])
       /\ caches'[c].next = caches[c].next /\ caches'[c].size = caches[c].size
       /\ caches'[c].available = s /\ caches'[c].full = caches[c].full
       /\ \A d \in DOMAIN caches : d # c => caches'[d] = caches[d]
  <2>1. /\ DOMAIN caches' = DOMAIN caches /\ caches'[c] = [caches[c] EXCEPT !.available = s]
        /\ \A d \in DOMAIN caches : d # c => caches'[d] = caches[d]
    BY <1>1, <1>2, <1>3
  <2> QED
    BY <1>3, <1>10, <2>1, CacheFields
<1>14. PICK H2 : /\ H2 = SlabHead' /\ DOMAIN H2 = DOMAIN H /\ H2[h] = 0
                 /\ H2[l] = s
                 /\ \A m \in DOMAIN L \ {h, l} : H2[m] = H[m]
  <2>1. PICK cs, cs2, f, f2 : /\ cs = caches /\ cs2 = caches'
                              /\ f = free_space_for_slab /\ f2 = free_space_for_slab'
    OBVIOUS
  <2>2. PICK H2 : H2 = SlabHeads(cs2, f2)
    OBVIOUS
  <2>3. H = SlabHeads(cs, f)
    BY <1>6, <2>1 DEF SlabHead
  <2>4. OneWritten(cs, f, cs2, f2, c, H, H2)
    BY <1>3, <1>13, <2>1, <2>2, <2>3 DEF OneWritten
  <2>5. /\ DOMAIN H2 = DOMAIN H
        /\ H2[AvailKey(c)] = cs2[c].available
        /\ H2[FullKey(c)] = cs2[c].full
        /\ H2[FreeKey] = f2
        /\ H2[HandKey] = 0
        /\ \A m \in SlabKeys :
             m # AvailKey(c) /\ m # FullKey(c) /\ m # FreeKey => H2[m] = H[m]
    BY <2>4, HeadsWritten
  <2>6. H2 = SlabHead'
    BY <2>1, <2>2 DEF SlabHead
  <2>7. H2[l] = s
    BY <1>4, <1>13, <2>1, <2>5
  <2>8. \A m \in DOMAIN L \ {h, l} : H2[m] = H[m]
    BY <1>1, <1>4, <1>7, <1>13, <2>1, <2>5
  <2> QED
    BY <1>4, <2>5, <2>6, <2>7, <2>8
<1>15. PICK L2 : /\ Lists(S2, H2, L2) /\ DOMAIN L2 = DOMAIN L
                 /\ Range(L2[l]) = Range(L[l]) \cup {s}
                 /\ \A m \in DOMAIN L \ {l} : L2[m] = L[m]
  <2>1. Added(S, H, L, h, l, s, S2, H2)
    BY <1>5, <1>6, <1>7, <1>8, <1>10, <1>11, <1>12, <1>14 DEF Added
  <2> QED
    BY <1>7, <2>1, Add
<1>16. \A d \in Nat : s \notin Range(L[AvailKey(d)]) /\ s \notin Range(L[FullKey(d)])
  BY <1>7, <1>10, KeyFacts
<1>17. SlabComesIn(L, L2, s, H2)
  BY <1>2, <1>4, <1>6, <1>15, <1>16 DEF SlabComesIn
<1>18. SpaceInv'
  <2>1. SpaceInv
    BY DEF ListedInv
  <2>2. /\ free_space' \in Nat /\ free_space <= free_space' /\ free_space' <= HeapEnd
        /\ s + SlabBytes = free_space' /\ Base + HeapHeader <= free_space
        /\ Base + HeapHeader <= free_space'
    <3>1. /\ free_space \in Nat /\ Base + HeapHeader <= free_space
          /\ Base + HeapHeader \in Nat
      BY <2>1, HeapAssumption DEF SpaceInv, HeapHeader
    <3> QED
      BY <1>1, <1>9, <3>1
  <2>3. \A d \in DOMAIN caches' :
          /\ IsCache(caches'[d])
          /\ d \in Nat /\ Base + HeapHeader <= d /\ d + CacheBytes <= free_space'
    <3>1. SUFFICES ASSUME NEW d \in DOMAIN caches
                   PROVE  /\ IsCache(caches'[d])
                          /\ d \in Nat /\ Base + HeapHeader <= d
                          /\ d + CacheBytes <= free_space'
      BY <1>13
    <3>2. /\ d \in Nat /\ Base + HeapHeader <= d /\ d + CacheBytes <= free_space
          /\ IsCache(caches[d]) /\ free_space \in Nat
      BY <2>1 DEF SpaceInv
    <3>3. IsCache(caches'[d])
      BY <1>13, <3>2
    <3>4. d + CacheBytes <= free_space'
      BY <2>2, <3>2 DEF CacheBytes
    <3> QED
      BY <3>2, <3>3, <3>4
  <2>4. \A t \in DOMAIN slabs :
          /\ IsSlab(slabs[t]) /\ t \in Nat /\ Base + HeapHeader <= t
          /\ t + SlabBytes <= s /\ t + SlabBytes <= free_space'
    <3>1. SUFFICES ASSUME NEW t \in DOMAIN slabs
                   PROVE  /\ IsSlab(slabs[t]) /\ t \in Nat /\ Base + HeapHeader <= t
                          /\ t + SlabBytes <= s /\ t + SlabBytes <= free_space'
      OBVIOUS
    <3>2. /\ IsSlab(slabs[t]) /\ t \in Nat /\ Base + HeapHeader <= t
          /\ t + SlabBytes <= free_space /\ free_space \in Nat
      BY <2>1 DEF SpaceInv
    <3> QED
      BY <1>1, <1>9, <2>2, <3>2
  <2>5. \A t \in DOMAIN slabs' :
          /\ IsSlab(slabs'[t])
          /\ t \in Nat /\ Base + HeapHeader <= t /\ t + SlabBytes <= free_space'
    <3>1. SUFFICES ASSUME NEW t \in DOMAIN S2
                   PROVE  /\ IsSlab(S2[t])
                          /\ t \in Nat /\ Base + HeapHeader <= t /\ t + SlabBytes <= free_space'
      BY <1>6
    <3>2. CASE t = s
      BY <1>1, <1>10, <1>11, <1>12, <2>2, <3>2
    <3>3. CASE t # s
      BY <1>6, <1>11, <2>4, <3>3
    <3> QED
      BY <3>2, <3>3
  <2>6. \A t, r \in DOMAIN slabs' : r = t \/ r + SlabBytes <= t \/ t + SlabBytes <= r
    <3>1. DOMAIN slabs' = DOMAIN slabs \cup {s}
      BY <1>6, <1>11
    <3>2. \A t, r \in DOMAIN slabs : r = t \/ r + SlabBytes <= t \/ t + SlabBytes <= r
      BY <2>1 DEF SpaceInv
    <3> QED
      BY <2>4, <3>1, <3>2
  <2>7. DOMAIN caches' # {}
    BY <1>3, <1>13
  <2> QED
    BY <2>2, <2>3, <2>5, <2>6, <2>7 DEF SpaceInv
<1> QED
  BY <1>10, <1>14, <1>17, <1>18

\* MakeSlab.
LEMMA ListedMakeSlab ==
  ASSUME NEW L, NEW M, ListedInv(L, M), MakeSlab
  PROVE  /\ \E L2 : /\ ListedInv(L2, M)'
                    /\ SlabsOf(L2, cache) = SlabsOf(L, cache) \cup {NewSlab}
                    /\ \A d \in Nat : d # cache => SlabsOf(L2, d) = SlabsOf(L, d)
         /\ \A d \in Nat : NewSlab \notin SlabsOf(L, d)
         /\ CachesSame
<1>1. PICK s : s = NewSlab
  OBVIOUS
<1>2. /\ \E L2 : \E H2 : H2 = SlabHead' /\ SlabComesIn(L, L2, s, H2)
      /\ SpaceInv'
  <2>1. CASE free_space_for_slab # 0
    BY <1>1, <2>1, ListedReuseSlab
  <2>2. CASE free_space_for_slab = 0
    BY <1>1, <2>2, ListedCutSlab
  <2> QED
    BY <2>1, <2>2
<1>3. PICK L2 : \E H2 : H2 = SlabHead' /\ SlabComesIn(L, L2, s, H2)
  BY <1>2
<1>4. PICK H2 : H2 = SlabHead' /\ SlabComesIn(L, L2, s, H2)
  BY <1>3
<1>5. /\ ListedInv(L2, M)'
      /\ SlabsOf(L2, cache) = SlabsOf(L, cache) \cup {s}
      /\ \A d \in Nat : d # cache => SlabsOf(L2, d) = SlabsOf(L, d)
      /\ CachesSame
  BY <1>1, <1>2, <1>4, NewSlabListed
<1>6. \A d \in Nat : s \notin SlabsOf(L, d)
  BY <1>4 DEF SlabComesIn, SlabsOf
<1> QED
  BY <1>1, <1>5, <1>6

\* The cache _make_cache makes, and its header.
NewCache == IF free_space_for_cache # 0 THEN free_space_for_cache ELSE free_space

FreshCache == [next |-> 0, size |-> size, available |-> 0, full |-> 0]

\* MakeCache in terms of the cache it makes.
LEMMA MakeCacheIs ==
  ASSUME MakeCache, NEW c, c = NewCache,
         NEW with, with = [x \in DOMAIN caches \cup {c} |->
                             IF x = c THEN FreshCache ELSE caches[x]]
  PROVE  /\ pc = "cache" /\ pc' = "slab" /\ cache' = c /\ Serving = {}
         /\ UNCHANGED <<slabs, link, null_word, free_space_for_slab, size, slab, owned>>
         /\ first_cache = 0 => first_cache' = c /\ caches' = with
         /\ first_cache # 0 => /\ first_cache' = first_cache
                               /\ caches' = [with EXCEPT ![Last(CacheList)].next = c]
         /\ free_space_for_cache # 0 => /\ free_space_for_cache' = caches[c].next
                                        /\ free_space' = free_space
         /\ free_space_for_cache = 0 => /\ free_space_for_cache' = free_space_for_cache
                                        /\ free_space' = free_space + CacheBytes
                                        /\ free_space + CacheBytes <= HeapEnd
BY DEF MakeCache, NewCache, FreshCache, CanMakeCache

\* The header of a new cache.
LEMMA FreshCacheFields ==
  ASSUME size \in WordBytes .. SlabSize
  PROVE  /\ IsCache(FreshCache) /\ FreshCache.next = 0 /\ FreshCache.size = size
         /\ FreshCache.available = 0 /\ FreshCache.full = 0
<1>1. size \in Nat
  BY HeapAssumption DEF WordBytes
<1> QED
  BY <1>1 DEF FreshCache, IsCache

\* Where the new cache comes from.
LEMMA NewCachePlace ==
  ASSUME NEW L, NEW M, ListedInv(L, M), NEW c, c = NewCache
  PROVE  /\ c \in Nat /\ c # 0 /\ c \notin Range(M["used"])
         /\ free_space_for_cache # 0 => /\ c \in DOMAIN caches /\ 1 \in 1 .. Len(M["free"])
                                        /\ c = M["free"][1]
         /\ free_space_for_cache = 0 => c \notin DOMAIN caches /\ c = free_space
<1>1. /\ Lists(caches, CacheHead, M) /\ DOMAIN M = CacheKeys
      /\ Range(M["used"]) \subseteq DOMAIN caches
  BY ListsAre DEF ListedInv, ListsInv, CacheKeys
<1>2. CASE free_space_for_cache # 0
  <2>1. c = free_space_for_cache
    BY <1>2 DEF NewCache
  <2>2. PICK H, k, u : H = CacheHead /\ k = "free" /\ u = "used"
    OBVIOUS
  <2>3. /\ Lists(caches, H, M) /\ k \in DOMAIN M /\ u \in DOMAIN M /\ k # u
        /\ H[k] = c
    BY <1>1, <2>1, <2>2, CacheHeadsAre DEF CacheHead, CacheKeys
  <2>4. /\ Len(M[k]) \in Nat /\ Len(M[k]) = 0 <=> H[k] = 0
        /\ Len(M[k]) > 0 => H[k] = M[k][1]
    BY <2>3, ListFacts
  <2>5. 1 \in 1 .. Len(M[k]) /\ M[k][1] = c
    BY <1>2, <2>1, <2>3, <2>4
  <2>6. c \in DOMAIN caches
    BY <2>3, <2>5, ListFacts
  <2>7. c \notin Range(M[u])
    <3>1. SUFFICES ASSUME c \in Range(M[u])
                   PROVE  FALSE
      OBVIOUS
    <3>2. PICK j : j \in 1 .. Len(M[u]) /\ M[u][j] = c
      BY <2>3, <3>1, ListFacts
    <3> QED
      BY <2>3, <2>5, <3>2, OnePlace
  <2> QED
    BY <1>2, <2>1, <2>2, <2>5, <2>6, <2>7 DEF ListedInv, SpaceInv
<1>3. CASE free_space_for_cache = 0
  <2>1. c = free_space
    BY <1>3 DEF NewCache
  <2>2. /\ free_space \in Nat /\ Base + HeapHeader <= free_space
        /\ \A y \in DOMAIN caches : y \in Nat /\ y + CacheBytes <= free_space
    BY DEF ListedInv, SpaceInv
  <2>3. Base \in Nat \ {0}
    BY HeapAssumption
  <2>4. c \in Nat /\ c # 0 /\ c \notin DOMAIN caches
    BY <2>1, <2>2, <2>3 DEF HeapHeader, CacheBytes
  <2> QED
    BY <1>1, <1>3, <2>1, <2>4
<1> QED
  BY <1>2, <1>3

\* The headers of the caches once the new one is at the end of the list.
CacheMade(M, c, n) ==
  /\ n = Len(M["used"])
  /\ DOMAIN caches' = DOMAIN caches \cup {c} /\ caches'[c] = FreshCache
  /\ n > 0 => /\ M["used"][n] \in DOMAIN caches /\ M["used"][n] # c
              /\ caches'[M["used"][n]] = [caches[M["used"][n]] EXCEPT !.next = c]
  /\ \A y \in DOMAIN caches :
       y # c /\ (n > 0 => y # M["used"][n]) => caches'[y] = caches[y]
  /\ first_cache' = IF n = 0 THEN c ELSE first_cache

\* MakeCache appends the cache it makes.
LEMMA MakeCacheMakes ==
  ASSUME NEW L, NEW M, ListedInv(L, M), MakeCache, NEW c, c = NewCache,
         NEW n, n = Len(M["used"])
  PROVE  CacheMade(M, c, n)
<1>1. PICK with : with = [x \in DOMAIN caches \cup {c} |-> IF x = c THEN FreshCache ELSE caches[x]]
  OBVIOUS
<1>2. PICK H, u : H = CacheHead /\ u = "used"
  OBVIOUS
<1>3. /\ Lists(caches, H, M) /\ u \in DOMAIN M /\ H[u] = first_cache
      /\ CacheList = M[u] /\ n = Len(M[u])
  BY <1>2, ListsAre, CacheHeadsAre DEF ListedInv, ListsInv, CacheHead, CacheKeys
<1>4. /\ n \in Nat /\ n = 0 <=> first_cache = 0
      /\ \A i \in 1 .. n : M[u][i] \in DOMAIN caches /\ M[u][i] \in Range(M[u])
  BY <1>3, ListFacts
<1>5. /\ DOMAIN with = DOMAIN caches \cup {c} /\ with[c] = FreshCache
      /\ \A y \in DOMAIN caches : y # c => with[y] = caches[y]
  BY <1>1
<1>6. /\ first_cache = 0 => first_cache' = c /\ caches' = with
      /\ first_cache # 0 => /\ first_cache' = first_cache
                            /\ caches' = [with EXCEPT ![Last(CacheList)].next = c]
  BY <1>1, MakeCacheIs
<1>7. CASE n = 0
  BY <1>4, <1>5, <1>6, <1>7 DEF CacheMade
<1>8. CASE n # 0
  <2>1. PICK z : z = M[u][n]
    OBVIOUS
  <2>2. Last(CacheList) = z
    BY <1>3, <2>1 DEF Last
  <2>3. z \in DOMAIN caches /\ z # c
    <3>1. n \in 1 .. n
      BY <1>4, <1>8
    <3>2. z \in DOMAIN caches /\ z \in Range(M[u])
      BY <1>4, <2>1, <3>1
    <3> QED
      BY <1>2, <3>2, NewCachePlace
  <2>4. caches' = [with EXCEPT ![z].next = c] /\ first_cache' = first_cache
    BY <1>4, <1>6, <1>8, <2>2
  <2>5. /\ DOMAIN caches' = DOMAIN caches \cup {c} /\ caches'[c] = FreshCache
        /\ caches'[z] = [caches[z] EXCEPT !.next = c]
        /\ \A y \in DOMAIN caches : y # c /\ y # z => caches'[y] = caches[y]
    BY <1>5, <2>3, <2>4
  <2> QED
    BY <1>2, <1>3, <1>4, <1>8, <2>1, <2>3, <2>4, <2>5 DEF CacheMade
<1> QED
  BY <1>7, <1>8

\* Nothing but next pointers changed in the old caches; z was the last of the list.
CachesWritten(c, n, z) ==
  /\ DOMAIN caches' = DOMAIN caches \cup {c}
  /\ IsCache(caches'[c]) /\ caches'[c].size = size /\ caches'[c].next = 0
  /\ caches'[c].available = 0 /\ caches'[c].full = 0
  /\ \A y \in DOMAIN caches : y # c =>
       /\ IsCache(caches'[y]) /\ caches'[y].size = caches[y].size
       /\ caches'[y].available = caches[y].available /\ caches'[y].full = caches[y].full
       /\ n > 0 /\ y = z => caches'[y].next = c
       /\ (n > 0 => y # z) => caches'[y].next = caches[y].next

\* Appending a cache writes a next pointer and the new header, and no more.
LEMMA CacheMadeFields ==
  ASSUME NEW L, NEW M, ListedInv(L, M), NEW c, c \in Nat, NEW n, CacheMade(M, c, n),
         size \in WordBytes .. SlabSize, NEW z, z = M["used"][n]
  PROVE  CachesWritten(c, n, z)
<1>1. /\ DOMAIN caches' = DOMAIN caches \cup {c} /\ caches'[c] = FreshCache
      /\ n > 0 => caches'[M["used"][n]] = [caches[M["used"][n]] EXCEPT !.next = c]
      /\ \A y \in DOMAIN caches :
           y # c /\ (n > 0 => y # M["used"][n]) => caches'[y] = caches[y]
  BY DEF CacheMade
<1>3. \A y \in DOMAIN caches : IsCache(caches[y])
  BY DEF ListedInv, SpaceInv
<1>4. ASSUME NEW y \in DOMAIN caches, y # c
      PROVE  /\ IsCache(caches'[y]) /\ caches'[y].size = caches[y].size
             /\ caches'[y].available = caches[y].available /\ caches'[y].full = caches[y].full
             /\ n > 0 /\ y = z => caches'[y].next = c
             /\ (n > 0 => y # z) => caches'[y].next = caches[y].next
  <2>1. CASE n > 0 /\ y = z
    <3>1. IsCache(caches[y]) /\ caches'[y] = [caches[y] EXCEPT !.next = c]
      BY <1>1, <1>3, <2>1
    <3> QED
      BY <2>1, <3>1, CacheFields
  <2>2. CASE n > 0 => y # z
    <3>1. IsCache(caches[y]) /\ caches'[y] = caches[y]
      BY <1>1, <1>3, <1>4, <2>2
    <3> QED
      BY <2>2, <3>1
  <2> QED
    BY <2>1, <2>2
<1> QED
  BY <1>1, <1>4, FreshCacheFields DEF CachesWritten

\* What the lists of caches are when a cache has come in.
CacheComesIn(M, M2, c, H2) ==
  /\ Lists(caches', H2, M2) /\ DOMAIN M2 = DOMAIN M
  /\ Range(M2["used"]) = Range(M["used"]) \cup {c}

\* The invariant once the new cache is on its list.
LEMMA NewCacheListed ==
  ASSUME NEW L, NEW M, ListedInv(L, M), MakeCache, NEW c, c = NewCache,
         NEW H2, H2 = CacheHead', NEW M2, CacheComesIn(M, M2, c, H2), SpaceInv'
  PROVE  ListedInv(L, M2)'
<1>1. /\ pc = "cache" /\ pc' = "slab" /\ cache' = c /\ Serving = {}
      /\ UNCHANGED <<slabs, free_space_for_slab, size, slab>>
  <2>1. PICK with : with = [x \in DOMAIN caches \cup {c} |->
                              IF x = c THEN FreshCache ELSE caches[x]]
    OBVIOUS
  <2> QED
    BY <2>1, MakeCacheIs
<1>2. size \in WordBytes .. SlabSize
  BY <1>1 DEF ListedInv, CallInv
<1>3. /\ c \in Nat /\ c # 0 /\ c \notin Range(M["used"])
  BY NewCachePlace
<1>4. PICK n : n = Len(M["used"])
  OBVIOUS
<1>5. CacheMade(M, c, n)
  BY <1>4, MakeCacheMakes
<1>6. /\ DOMAIN caches' = DOMAIN caches \cup {c}
      /\ caches'[c].size = size /\ caches'[c].available = 0 /\ caches'[c].full = 0
      /\ \A y \in DOMAIN caches : y # c =>
           /\ caches'[y].size = caches[y].size
           /\ caches'[y].available = caches[y].available /\ caches'[y].full = caches[y].full
  <2>1. PICK z : z = M["used"][n]
    OBVIOUS
  <2>2. CachesWritten(c, n, z)
    BY <1>2, <1>3, <1>5, <2>1, CacheMadeFields
  <2> QED
    BY <2>2 DEF CachesWritten
<1>7. CachesInv(M) /\ Range(M["used"]) \subseteq DOMAIN caches /\ CacheList = M["used"]
  BY ListsAre DEF ListedInv, CacheKeys
<1>8. Lists(slabs, SlabHead, L)'
  <2>1. PICK cs, cs2, f : cs = caches /\ cs2 = caches' /\ f = free_space_for_slab
    OBVIOUS
  <2>2. c \in DOMAIN caches => EmptyCache(c)
    BY <1>3, <1>7 DEF CachesInv
  <2>3. \A d \in Nat : /\ AvailableOf(cs2, d) = AvailableOf(cs, d)
                       /\ FullOf(cs2, d) = FullOf(cs, d)
    BY <1>6, <2>1, <2>2 DEF AvailableOf, FullOf, EmptyCache
  <2>4. SlabHeads(cs2, f) = SlabHeads(cs, f)
    BY <2>3, HeadsSame
  <2>5. SlabHead' = SlabHead
    BY <1>1, <2>1, <2>4 DEF SlabHead
  <2> QED
    BY <1>1, <2>5 DEF ListedInv, ListsInv
<1>9. CachesInv(M2)'
  <2>1. Range(M2["used"]) = Range(M["used"]) \cup {c}
    BY DEF CacheComesIn
  <2>2. \A d \in Range(M["used"]) : /\ d # c /\ d \in DOMAIN caches
                                    /\ caches'[d].size = caches[d].size
                                    /\ caches[d].size # size
    BY <1>1, <1>3, <1>6, <1>7 DEF Serving
  <2>3. \A d \in Range(M2["used"]) : caches'[d].size \in WordBytes .. SlabSize
    BY <1>2, <1>6, <1>7, <2>1, <2>2 DEF CachesInv
  <2>4. \A d, e \in Range(M2["used"]) : caches'[d].size = caches'[e].size => d = e
    BY <1>6, <1>7, <2>1, <2>2 DEF CachesInv
  <2>5. \A d \in DOMAIN caches' : d \notin Range(M2["used"]) => EmptyCache(d)'
    BY <1>6, <1>7, <2>1 DEF CachesInv, EmptyCache
  <2> QED
    BY <2>3, <2>4, <2>5 DEF CachesInv
<1>10. FullInv(L)'
  <2>1. FullInv(L)
    BY DEF ListedInv
  <2> QED
    BY <1>1, <2>1 DEF FullInv
<1>11. CallInv(L, M2)'
  <2>1. c \in Range(M2["used"])
    BY DEF CacheComesIn
  <2> QED
    BY <1>1, <1>2, <1>6, <2>1 DEF CallInv
<1>12. Lists(caches, CacheHead, M2)'
  BY DEF CacheComesIn
<1> QED
  BY <1>8, <1>9, <1>10, <1>11, <1>12 DEF ListedInv, ListsInv

\* A cache from the free list.
LEMMA ListedReuseCache ==
  ASSUME NEW L, NEW M, ListedInv(L, M), MakeCache, free_space_for_cache # 0,
         NEW c, c = NewCache
  PROVE  (\E M2 : \E H2 : H2 = CacheHead' /\ CacheComesIn(M, M2, c, H2)) /\ SpaceInv'
<1>1. /\ pc = "cache" /\ UNCHANGED slabs
      /\ free_space_for_cache' = caches[c].next /\ free_space' = free_space
  <2>1. PICK with : with = [x \in DOMAIN caches \cup {c} |->
                              IF x = c THEN FreshCache ELSE caches[x]]
    OBVIOUS
  <2> QED
    BY <2>1, MakeCacheIs
<1>2. size \in WordBytes .. SlabSize
  BY <1>1 DEF ListedInv, CallInv
<1>3. /\ c \in Nat /\ c # 0 /\ c \in DOMAIN caches /\ 1 \in 1 .. Len(M["free"])
      /\ c = M["free"][1] /\ c = free_space_for_cache
  BY NewCachePlace DEF NewCache
<1>4. PICK n : n = Len(M["used"])
  OBVIOUS
<1>5. CacheMade(M, c, n)
  BY <1>4, MakeCacheMakes
<1>6. PICK k, l, h, i : k = "free" /\ l = "used" /\ h = "hand" /\ i = 1
  OBVIOUS
<1>7. PICK z : z = M["used"][n]
  OBVIOUS
<1>8. /\ DOMAIN caches' = DOMAIN caches
      /\ IsCache(caches'[c]) /\ caches'[c].next = 0
      /\ \A y \in DOMAIN caches : y # c =>
           /\ IsCache(caches'[y])
           /\ n > 0 /\ y = z => caches'[y].next = c
           /\ (n > 0 => y # z) => caches'[y].next = caches[y].next
  <2>1. c \in Nat /\ DOMAIN caches \cup {c} = DOMAIN caches
    BY <1>3
  <2>2. CachesWritten(c, n, z)
    BY <1>2, <1>5, <1>7, <2>1, CacheMadeFields
  <2> QED
    BY <2>1, <2>2 DEF CachesWritten
<1>9. PICK S, H, S2 : S = caches /\ H = CacheHead /\ S2 = caches'
  OBVIOUS
<1>10. /\ Lists(S, H, M) /\ DOMAIN M = CacheKeys /\ Len(M[h]) = 0
       /\ H[k] = free_space_for_cache /\ H[l] = first_cache /\ DOMAIN H = CacheKeys
  BY <1>6, <1>9, ListsAre, CacheHeadsAre DEF ListedInv, ListsInv, CacheHead
<1>11. /\ k \in DOMAIN M /\ l \in DOMAIN M /\ h \in DOMAIN M
       /\ k # l /\ k # h /\ l # h /\ CacheKeys = {k, l, h}
  BY <1>6, <1>10 DEF CacheKeys
<1>12. n > 0 => z \in DOMAIN caches /\ z # c
  BY <1>5, <1>7 DEF CacheMade
<1>13. MovedNodes(S, M, h, k, l, i, c, S2)
  <2>1. i \in 1 .. Len(M[k]) /\ c = M[k][i] /\ ~ (i > 1) /\ n = Len(M[l])
    <3>1. i \in 1 .. Len(M[k]) /\ c = M[k][i]
      BY <1>3, <1>6
    <3>2. ~ (i > 1) /\ n = Len(M[l])
      BY <1>4, <1>6
    <3> QED
      BY <3>1, <3>2
  <2>2. n > 0 => S2[z].next = c
    BY <1>8, <1>9, <1>12
  <2>3. DOMAIN S2 = DOMAIN S /\ S2[c].next = 0
    BY <1>8, <1>9
  <2>4. ASSUME NEW y \in DOMAIN S, y # c, Len(M[l]) > 0 => y # M[l][Len(M[l])]
        PROVE  S2[y].next = S[y].next
    BY <1>6, <1>7, <1>8, <1>9, <2>1, <2>4
  <2>5. Len(M[l]) > 0 => S2[M[l][Len(M[l])]].next = c
    BY <1>6, <1>7, <2>1, <2>2
  <2> QED
    BY <1>10, <1>11, <2>1, <2>3, <2>4, <2>5 DEF MovedNodes
<1>14. PICK H2 : H2 = CacheHead' /\ MovedHeads(S, H, M, h, k, l, i, c, H2)
  <2>1. PICK a, b : a = first_cache' /\ b = free_space_for_cache'
    OBVIOUS
  <2>2. PICK H2 : H2 = CacheHeads(a, b)
    OBVIOUS
  <2>3. H2 = CacheHead'
    BY <2>1, <2>2 DEF CacheHead
  <2>4. DOMAIN H2 = CacheKeys /\ H2[l] = a /\ H2[k] = b /\ H2[h] = 0
    BY <1>6, <2>2, CacheHeadsAre
  <2>5. H2[k] = IF i = 1 THEN S[c].next ELSE H[k]
    BY <1>1, <1>6, <1>9, <2>1, <2>4
  <2>6. H2[l] = IF Len(M[l]) = 0 THEN c ELSE H[l]
    BY <1>4, <1>5, <1>6, <1>10, <2>1, <2>4 DEF CacheMade
  <2>7. \A m \in DOMAIN M \ {h, k, l} : H2[m] = H[m]
    BY <1>10, <1>11
  <2> QED
    BY <1>10, <2>3, <2>4, <2>5, <2>6, <2>7 DEF MovedHeads
<1>15. PICK M2 : /\ Lists(S2, H2, M2) /\ DOMAIN M2 = DOMAIN M
                 /\ Range(M2[k]) = Range(M[k]) \ {c}
                 /\ Range(M2[l]) = Range(M[l]) \cup {c}
                 /\ \A m \in DOMAIN M \ {k, l} : M2[m] = M[m]
  <2>1. Moved(S, H, M, h, k, l, i, c, S2, H2)
    BY <1>13, <1>14 DEF Moved
  <2>2. Lists(S, H, M)
    BY <1>10
  <2> QED
    BY <2>1, <2>2, Move
<1>16. CacheComesIn(M, M2, c, H2)
  BY <1>6, <1>9, <1>15 DEF CacheComesIn
<1>17. SpaceInv'
  <2>1. /\ \A d \in DOMAIN caches : IsCache(caches'[d])
        /\ \A t \in DOMAIN slabs : IsSlab(slabs'[t])
    BY <1>1, <1>8 DEF ListedInv, SpaceInv
  <2> QED
    BY <1>1, <1>8, <2>1, SpaceKept DEF ListedInv
<1> QED
  BY <1>14, <1>16, <1>17

\* A cache cut off free_space.
LEMMA ListedCutCache ==
  ASSUME NEW L, NEW M, ListedInv(L, M), MakeCache, free_space_for_cache = 0,
         NEW c, c = NewCache
  PROVE  (\E M2 : \E H2 : H2 = CacheHead' /\ CacheComesIn(M, M2, c, H2)) /\ SpaceInv'
<1>1. /\ pc = "cache" /\ UNCHANGED slabs
      /\ free_space_for_cache' = free_space_for_cache
      /\ free_space' = free_space + CacheBytes /\ free_space + CacheBytes <= HeapEnd
  <2>1. PICK with : with = [x \in DOMAIN caches \cup {c} |->
                              IF x = c THEN FreshCache ELSE caches[x]]
    OBVIOUS
  <2> QED
    BY <2>1, MakeCacheIs
<1>2. size \in WordBytes .. SlabSize
  BY <1>1 DEF ListedInv, CallInv
<1>3. c \in Nat /\ c # 0 /\ c \notin DOMAIN caches /\ c = free_space
  BY NewCachePlace
<1>4. PICK n : n = Len(M["used"])
  OBVIOUS
<1>5. CacheMade(M, c, n)
  BY <1>4, MakeCacheMakes
<1>6. PICK l, h : l = "used" /\ h = "hand"
  OBVIOUS
<1>7. PICK z : z = M["used"][n]
  OBVIOUS
<1>8. /\ DOMAIN caches' = DOMAIN caches \cup {c}
      /\ IsCache(caches'[c]) /\ caches'[c].next = 0
      /\ \A y \in DOMAIN caches :
           /\ y # c /\ IsCache(caches'[y])
           /\ n > 0 /\ y = z => caches'[y].next = c
           /\ (n > 0 => y # z) => caches'[y].next = caches[y].next
  <2>1. CachesWritten(c, n, z)
    BY <1>2, <1>3, <1>5, <1>7, CacheMadeFields
  <2> QED
    BY <1>3, <2>1 DEF CachesWritten
<1>9. PICK S, H, S2 : S = caches /\ H = CacheHead /\ S2 = caches'
  OBVIOUS
<1>10. /\ Lists(S, H, M) /\ DOMAIN M = CacheKeys /\ Len(M[h]) = 0
       /\ H["free"] = free_space_for_cache /\ H[l] = first_cache /\ DOMAIN H = CacheKeys
  BY <1>6, <1>9, ListsAre, CacheHeadsAre DEF ListedInv, ListsInv, CacheHead
<1>11. /\ l \in DOMAIN M /\ h \in DOMAIN M
       /\ l # h /\ CacheKeys = {"free", l, h}
  BY <1>6, <1>10 DEF CacheKeys
<1>12. n > 0 => z \in DOMAIN caches /\ z # c
  BY <1>5, <1>7 DEF CacheMade
<1>13. PICK H2 : /\ H2 = CacheHead' /\ DOMAIN H2 = DOMAIN H /\ H2[h] = 0
                 /\ H2[l] = IF Len(M[l]) = 0 THEN c ELSE H[l]
                 /\ \A m \in DOMAIN M \ {h, l} : H2[m] = H[m]
  <2>1. PICK a, b : a = first_cache' /\ b = free_space_for_cache'
    OBVIOUS
  <2>2. PICK H2 : H2 = CacheHeads(a, b)
    OBVIOUS
  <2>3. H2 = CacheHead'
    BY <2>1, <2>2 DEF CacheHead
  <2>4. DOMAIN H2 = CacheKeys /\ H2[l] = a /\ H2["free"] = b /\ H2[h] = 0
    BY <1>6, <2>2, CacheHeadsAre
  <2>5. H2[l] = IF Len(M[l]) = 0 THEN c ELSE H[l]
    BY <1>4, <1>5, <1>6, <1>10, <2>1, <2>4 DEF CacheMade
  <2>6. \A m \in DOMAIN M \ {h, l} : H2[m] = H[m]
    BY <1>1, <1>10, <1>11, <2>1, <2>4
  <2> QED
    BY <1>10, <2>3, <2>4, <2>5, <2>6
<1>14. Added(S, H, M, h, l, c, S2, H2)
  <2>1. n = Len(M[l]) /\ c \notin DOMAIN S /\ c # 0
    BY <1>3, <1>4, <1>6, <1>9
  <2>2. n > 0 => S2[z].next = c
    BY <1>8, <1>9, <1>12
  <2>3. DOMAIN S2 = DOMAIN S \cup {c} /\ S2[c].next = 0
    BY <1>8, <1>9
  <2>4. ASSUME NEW y \in DOMAIN S, Len(M[l]) > 0 => y # M[l][Len(M[l])]
        PROVE  S2[y].next = S[y].next
    BY <1>6, <1>7, <1>8, <1>9, <2>1, <2>4
  <2>5. Len(M[l]) > 0 => S2[M[l][Len(M[l])]].next = c
    BY <1>6, <1>7, <2>1, <2>2
  <2> QED
    BY <1>10, <1>11, <1>13, <2>1, <2>3, <2>4, <2>5 DEF Added
<1>15. PICK M2 : /\ Lists(S2, H2, M2) /\ DOMAIN M2 = DOMAIN M
                 /\ Range(M2[l]) = Range(M[l]) \cup {c}
                 /\ \A m \in DOMAIN M \ {l} : M2[m] = M[m]
  <2>1. Lists(S, H, M)
    BY <1>10
  <2> QED
    BY <1>14, <2>1, Add
<1>16. CacheComesIn(M, M2, c, H2)
  BY <1>6, <1>9, <1>15 DEF CacheComesIn
<1>17. SpaceInv'
  <2>1. SpaceInv
    BY DEF ListedInv
  <2>2. /\ free_space \in Nat /\ Base + HeapHeader <= free_space
        /\ Base + HeapHeader \in Nat /\ HeapEnd \in Nat /\ SlabBytes \in Nat
    BY <2>1, HeapAssumption DEF SpaceInv, HeapHeader, HeapEnd, SlabBytes, SlabHeader
  <2>3. /\ free_space' \in Nat /\ free_space <= free_space' /\ free_space' <= HeapEnd
        /\ c + CacheBytes = free_space' /\ Base + HeapHeader <= c
        /\ Base + HeapHeader <= free_space'
    BY <1>1, <1>3, <2>2 DEF CacheBytes
  <2>4. \A d \in DOMAIN caches' :
          /\ IsCache(caches'[d])
          /\ d \in Nat /\ Base + HeapHeader <= d /\ d + CacheBytes <= free_space'
    <3>1. SUFFICES ASSUME NEW d \in DOMAIN S2
                   PROVE  /\ IsCache(S2[d])
                          /\ d \in Nat /\ Base + HeapHeader <= d
                          /\ d + CacheBytes <= free_space'
      BY <1>9
    <3>2. CASE d = c
      BY <1>3, <1>8, <1>9, <2>3, <3>2
    <3>3. CASE d # c
      <4>1. d \in DOMAIN caches
        BY <1>8, <1>9, <3>1, <3>3
      <4>2. d \in Nat /\ Base + HeapHeader <= d /\ d + CacheBytes <= free_space
        BY <2>1, <4>1 DEF SpaceInv
      <4>3. d + CacheBytes <= free_space'
        BY <2>2, <2>3, <4>2 DEF CacheBytes
      <4> QED
        BY <1>8, <1>9, <4>1, <4>2, <4>3
    <3> QED
      BY <3>2, <3>3
  <2>5. \A t \in DOMAIN slabs :
          /\ IsSlab(slabs[t]) /\ t \in Nat /\ Base + HeapHeader <= t
          /\ t + SlabBytes <= free_space'
    <3>1. SUFFICES ASSUME NEW t \in DOMAIN slabs
                   PROVE  /\ IsSlab(slabs[t]) /\ t \in Nat /\ Base + HeapHeader <= t
                          /\ t + SlabBytes <= free_space'
      OBVIOUS
    <3>2. /\ IsSlab(slabs[t]) /\ t \in Nat /\ Base + HeapHeader <= t
          /\ t + SlabBytes <= free_space
      BY <2>1 DEF SpaceInv
    <3> QED
      BY <2>2, <2>3, <3>2
  <2>6. slabs' = slabs
    BY <1>1
  <2>7. DOMAIN caches' # {}
    BY <1>8
  <2>8. \A t, r \in DOMAIN slabs : r = t \/ r + SlabBytes <= t \/ t + SlabBytes <= r
    BY <2>1 DEF SpaceInv
  <2> QED
    BY <2>3, <2>4, <2>5, <2>6, <2>7, <2>8 DEF SpaceInv
<1> QED
  BY <1>13, <1>16, <1>17

\* MakeCache.
LEMMA ListedMakeCache ==
  ASSUME NEW L, NEW M, ListedInv(L, M), MakeCache
  PROVE  /\ \E M2 : /\ ListedInv(L, M2)'
                    /\ Range(M2["used"]) = Range(M["used"]) \cup {NewCache}
         /\ NewCache \notin Range(M["used"])
         /\ \A d \in Range(M["used"]) : caches'[d].size = caches[d].size
<1>1. PICK c : c = NewCache
  OBVIOUS
<1>2. /\ \E M2 : \E H2 : H2 = CacheHead' /\ CacheComesIn(M, M2, c, H2)
      /\ SpaceInv'
  <2>1. CASE free_space_for_cache # 0
    BY <1>1, <2>1, ListedReuseCache
  <2>2. CASE free_space_for_cache = 0
    BY <1>1, <2>2, ListedCutCache
  <2> QED
    BY <2>1, <2>2
<1>3. PICK M2 : \E H2 : H2 = CacheHead' /\ CacheComesIn(M, M2, c, H2)
  BY <1>2
<1>4. PICK H2 : H2 = CacheHead' /\ CacheComesIn(M, M2, c, H2)
  BY <1>3
<1>5. ListedInv(L, M2)'
  BY <1>1, <1>2, <1>4, NewCacheListed
<1>6. c \in Nat /\ c \notin Range(M["used"])
  BY <1>1, NewCachePlace
<1>7. \A d \in Range(M["used"]) : caches'[d].size = caches[d].size
  <2>1. PICK n : n = Len(M["used"])
    OBVIOUS
  <2>2. CacheMade(M, c, n)
    BY <1>1, <2>1, MakeCacheMakes
  <2>3. pc = "cache"
    BY DEF MakeCache
  <2>4. size \in WordBytes .. SlabSize
    BY <2>3 DEF ListedInv, CallInv
  <2>5. \A y \in DOMAIN caches : y # c => caches'[y].size = caches[y].size
    <3>1. PICK z : z = M["used"][n]
      OBVIOUS
    <3>2. CachesWritten(c, n, z)
      BY <1>6, <2>2, <2>4, <3>1, CacheMadeFields
    <3> QED
      BY <3>2 DEF CachesWritten
  <2>6. Range(M["used"]) \subseteq DOMAIN caches
    BY ListsAre DEF CacheKeys
  <2> QED
    BY <1>6, <2>5, <2>6
<1> QED
  BY <1>1, <1>4, <1>5, <1>6, <1>7 DEF CacheComesIn

\* Every step leaves the headers on their lists.
LEMMA ListedNext ==
  ASSUME NEW L, NEW M, ListedInv(L, M), Supported, [Next]_vars
  PROVE  \E L2, M2 : ListedInv(L2, M2)'
<1>1. CASE QuietStep
  BY <1>1, ListedQuiet
<1>2. ASSUME NEW o \in owned, Free(o)
      PROVE  ListedInv(L, M)'
  BY <1>2, ListedFree
<1>3. CASE TakeObject
  <2>1. CASE NowFull
    BY <1>3, <2>1, ListedTakeLast
  <2>2. CASE ~ NowFull
    BY <1>3, <2>2, ListedTakeOne
  <2> QED
    BY <2>1, <2>2
<1>4. CASE MakeCache
  BY <1>4, ListedMakeCache
<1>5. CASE MakeSlab
  BY <1>5, ListedMakeSlab
<1>6. CASE MoveToAvailable
  BY <1>6, ListedUnfull
<1>7. CASE RetireSlab
  BY <1>7, ListedRetireSlab
<1>8. CASE RetireCache
  BY <1>8, ListedRetireCache
<1> QED
  BY <1>1, <1>2, <1>3, <1>4, <1>5, <1>6, <1>7, <1>8
  DEF Next, MallocSteps, FreeSteps, Client, QuietStep

-----------------------------------------------------------------------------
(* The theorems.                                                           *)

\* The lists are lists: some sequences L and M are what the headers say.
Listed == \E L, M : ListedInv(L, M)

\* Whatever clients ask for and give back, the lists of slabs and caches stay what
\* they are for, as long as clients free only what free handles.
THEOREM HeapListed == Supported => (Spec => []Listed)
<1> SUFFICES ASSUME Supported
             PROVE  Spec => []Listed
  OBVIOUS
<1>1. Init => Listed
  BY ListedInit DEF Listed
<1>2. Listed /\ [Next]_vars => Listed'
  <2> SUFFICES ASSUME Listed, [Next]_vars
               PROVE  Listed'
    OBVIOUS
  <2>1. PICK L, M : ListedInv(L, M)
    BY DEF Listed
  <2>2. \E L2, M2 : ListedInv(L2, M2)'
    BY <2>1, ListedNext
  <2> QED
    BY <2>2 DEF Listed
<1> QED
  BY <1>1, <1>2, PTL DEF Spec

\* Where the slabs of the lists are: on lists of caches in use, or on the free list.
LEMMA SlabsPlaced ==
  ASSUME NEW L, NEW M, ListedInv(L, M), NEW k \in SlabKeys, NEW s \in Range(L[k])
  PROVE  k \in {"available", "full"} \X Range(CacheList) \cup {<<"free", 0>>}
<1>1. /\ Lists(slabs, SlabHead, L) /\ k \in DOMAIN L /\ CacheList = M["used"]
      /\ CachesInv(M) /\ Len(L[HandKey]) = 0
  BY ListsAre DEF ListedInv, ListsInv
<1>2. Len(L[k]) # 0
  <2>1. \A x \in Range(L[k]) : \E i \in 1 .. Len(L[k]) : L[k][i] = x
    BY <1>1, ListFacts
  <2> QED
    BY <2>1
<1>3. PICK a : a = SlabHead[k]
  OBVIOUS
<1>4. a # 0
  <2>1. Len(L[k]) = 0 <=> SlabHead[k] = 0
    BY <1>1, ListFacts
  <2> QED
    BY <1>2, <1>3, <2>1
<1>5. ASSUME NEW c \in Nat, k = AvailKey(c) \/ k = FullKey(c)
      PROVE  c \in Range(CacheList)
  <2>1. a = AvailableOf(caches, c) \/ a = FullOf(caches, c)
    BY <1>3, <1>5, HeadsAre DEF SlabHead
  <2>2. c \in DOMAIN caches
    BY <1>4, <2>1 DEF AvailableOf, FullOf
  <2>3. ~ EmptyCache(c)
    BY <1>4, <2>1, <2>2 DEF AvailableOf, FullOf, EmptyCache
  <2> QED
    BY <1>1, <2>2, <2>3 DEF CachesInv
<1>6. \/ k = FreeKey
      \/ \E c \in Nat : k = AvailKey(c) \/ k = FullKey(c)
  BY <1>3, <1>4, HeadsAre DEF SlabHead
<1> QED
  BY <1>5, <1>6 DEF FreeKey, AvailKey, FullKey

\* OnceEach from Lists: some of the lists have all the nodes.
LEMMA OnceFromLists ==
  ASSUME NEW node, NEW head, NEW L, Lists(node, head, L), NEW of,
         DOMAIN of \subseteq DOMAIN L, \A k \in DOMAIN of : of[k] = L[k],
         \A k \in DOMAIN L : \A x \in Range(L[k]) : k \in DOMAIN of
  PROVE  OnceEach(of, DOMAIN node)
<1>1. \A k \in DOMAIN L : /\ DOMAIN L[k] = 1 .. Len(L[k])
                          /\ \A i \in 1 .. Len(L[k]) : L[k][i] \in DOMAIN node
                          /\ \A i \in 1 .. Len(L[k]) : L[k][i] \in Range(L[k])
                          /\ \A x \in Range(L[k]) : \E i \in 1 .. Len(L[k]) : L[k][i] = x
  BY ListFacts
<1>2. UNION {Range(of[k]) : k \in DOMAIN of} = DOMAIN node
  <2>1. ASSUME NEW x \in UNION {Range(of[k]) : k \in DOMAIN of}
        PROVE  x \in DOMAIN node
    <3>1. PICK k \in DOMAIN of : x \in Range(of[k])
      OBVIOUS
    <3>2. k \in DOMAIN L /\ x \in Range(L[k])
      BY <3>1
    <3>3. \E i \in 1 .. Len(L[k]) : L[k][i] = x
      BY <1>1, <3>2
    <3> QED
      BY <1>1, <3>2, <3>3
  <2>2. ASSUME NEW x \in DOMAIN node
        PROVE  x \in UNION {Range(of[k]) : k \in DOMAIN of}
    <3>1. PICK k \in DOMAIN L : \E i \in 1 .. Len(L[k]) : L[k][i] = x
      BY DEF Lists
    <3>2. x \in Range(L[k])
      BY <1>1, <3>1
    <3> QED
      BY <3>2
  <2> QED
    BY <2>1, <2>2
<1>3. ASSUME NEW k \in DOMAIN of, NEW l \in DOMAIN of, NEW i \in DOMAIN of[k],
             NEW j \in DOMAIN of[l], of[k][i] = of[l][j]
      PROVE  k = l /\ i = j
  <2>1. /\ k \in DOMAIN L /\ l \in DOMAIN L /\ of[k] = L[k] /\ of[l] = L[l]
        /\ i \in 1 .. Len(L[k]) /\ j \in 1 .. Len(L[l])
    BY <1>1
  <2>2. L[k][i] = L[l][j]
    BY <1>3, <2>1
  <2> QED
    BY <2>1, <2>2, OnePlace
<1> QED
  BY <1>2, <1>3 DEF OnceEach

\* free's comments on the two lists of a cache, and EachOnOneList: every slab and
\* every cache is on one list, at one place, and the list says truly whether a slab has
\* a free object.
LEMMA ListedEach == Listed => EachOnOneList
<1> SUFFICES ASSUME Listed, Idle
             PROVE  /\ OnceEach(SlabLists, DOMAIN slabs)
                    /\ OnceEach(CacheLists, DOMAIN caches)
                    /\ \A c, d \in Range(CacheList) : caches[c].size = caches[d].size => c = d
                    /\ FullListed
  BY DEF EachOnOneList
<1>1. PICK L, M : ListedInv(L, M)
  BY DEF Listed
<1>2. /\ DOMAIN L = SlabKeys /\ DOMAIN M = CacheKeys /\ CacheList = M["used"]
      /\ Walk(caches, free_space_for_cache) = M["free"]
      /\ Walk(slabs, free_space_for_slab) = L[FreeKey]
      /\ Range(M["used"]) \subseteq DOMAIN caches
      /\ \A c \in DOMAIN caches :
           c \in Nat /\ Available(c) = L[AvailKey(c)] /\ Full(c) = L[FullKey(c)]
      /\ Len(M["hand"]) = 0
  BY <1>1, ListsAre DEF CacheKeys
<1>3. Lists(slabs, SlabHead, L) /\ Lists(caches, CacheHead, M)
  BY <1>1 DEF ListedInv, ListsInv
<1>4. OnceEach(SlabLists, DOMAIN slabs)
  <2>1. PICK of, K : /\ of = SlabLists
                     /\ K = {"available", "full"} \X Range(CacheList) \cup {<<"free", 0>>}
    OBVIOUS
  <2>2. DOMAIN of = K
    BY <2>1 DEF SlabLists
  <2>3. \A c \in Range(CacheList) : c \in DOMAIN caches /\ c \in Nat
    BY <1>2
  <2>4. K \subseteq SlabKeys
    BY <2>1, <2>3 DEF SlabKeys
  <2>5. ASSUME NEW k \in K
        PROVE  of[k] = L[k]
    <3>1. CASE k = <<"free", 0>>
      BY <1>2, <2>1, <2>5, <3>1 DEF SlabLists, FreeKey
    <3>2. ASSUME NEW c \in Range(CacheList), k = <<"available", c>>
          PROVE  of[k] = L[k]
      <4>1. of[k] = Available(c)
        BY <2>1, <2>5, <3>2 DEF SlabLists
      <4> QED
        BY <1>2, <2>3, <3>2, <4>1 DEF AvailKey
    <3>3. ASSUME NEW c \in Range(CacheList), k = <<"full", c>>
          PROVE  of[k] = L[k]
      <4>1. of[k] = Full(c)
        BY <2>1, <2>5, <3>3 DEF SlabLists
      <4> QED
        BY <1>2, <2>3, <3>3, <4>1 DEF FullKey
    <3> QED
      BY <2>1, <3>1, <3>2, <3>3
  <2>6. \A k \in DOMAIN L : \A x \in Range(L[k]) : k \in DOMAIN of
    BY <1>1, <1>2, <2>1, <2>2, SlabsPlaced
  <2>7. OnceEach(of, DOMAIN slabs)
    BY <1>2, <1>3, <2>2, <2>4, <2>5, <2>6, OnceFromLists
  <2> QED
    BY <2>1, <2>7
<1>5. OnceEach(CacheLists, DOMAIN caches)
  <2>1. PICK of : of = CacheLists
    OBVIOUS
  <2>2. /\ DOMAIN of = {"used", "free"} /\ of["used"] = M["used"] /\ of["free"] = M["free"]
    BY <1>2, <2>1 DEF CacheLists
  <2>3. \A k \in DOMAIN M : \A x \in Range(M[k]) : k \in DOMAIN of
    <3>1. SUFFICES ASSUME NEW k \in DOMAIN M, NEW x \in Range(M[k]), k = "hand"
                   PROVE  FALSE
      BY <1>2, <2>2 DEF CacheKeys
    <3>2. \A y \in Range(M[k]) : \E i \in 1 .. Len(M[k]) : M[k][i] = y
      BY <1>3, ListFacts
    <3>3. Len(M[k]) = 0
      BY <1>2, <3>1
    <3> QED
      BY <3>2, <3>3
  <2>4. OnceEach(of, DOMAIN caches)
    <3>1. DOMAIN of \subseteq DOMAIN M /\ \A k \in DOMAIN of : of[k] = M[k]
      BY <1>2, <2>2 DEF CacheKeys
    <3> QED
      BY <1>3, <2>3, <3>1, OnceFromLists
  <2> QED
    BY <2>1, <2>4
<1>6. \A c, d \in Range(CacheList) : caches[c].size = caches[d].size => c = d
  BY <1>1, <1>2 DEF ListedInv, CachesInv
<1>7. FullListed
  <2>1. FullInv(L) /\ pc # "unfull"
    BY <1>1 DEF ListedInv, Idle
  <2> QED
    BY <1>2, <2>1 DEF FullListed, FullInv
<1> QED
  BY <1>4, <1>5, <1>6, <1>7

\* _free's and _malloc's lists: every slab and every cache is on exactly one list, at
\* one place, whatever was asked for and given back.
THEOREM HeapEachOnOneList == Supported => (Spec => []EachOnOneList)
BY HeapListed, ListedEach, PTL

\* Without a cache on a list, none was ever cut, and the first one fits.
LEMMA ListedFits ==
  ASSUME Listed, first_cache = 0
  PROVE  CanMakeCache
<1> SUFFICES ASSUME free_space_for_cache = 0
             PROVE  free_space + CacheBytes <= HeapEnd
  BY DEF CanMakeCache
<1>1. PICK L, M : ListedInv(L, M)
  BY DEF Listed
<1>2. /\ Lists(caches, CacheHead, M) /\ DOMAIN M = CacheKeys
      /\ Len(M["hand"]) = 0
  BY <1>1, ListsAre DEF ListedInv, ListsInv
<1>3. \A k \in CacheKeys : CacheHead[k] = 0
  BY CacheHeadsAre DEF CacheHead, CacheKeys
<1>4. \A k \in CacheKeys : Len(M[k]) = 0
  <2> SUFFICES ASSUME NEW k \in CacheKeys
               PROVE  Len(M[k]) = 0
    OBVIOUS
  <2>1. PICK H : H = CacheHead
    OBVIOUS
  <2>2. Lists(caches, H, M) /\ k \in DOMAIN M /\ H[k] = 0
    BY <1>2, <1>3, <2>1
  <2> QED
    BY <2>2, ListFacts
<1>5. DOMAIN caches = {}
  <2>1. \A x \in DOMAIN caches : \E k \in DOMAIN M : \E i \in 1 .. Len(M[k]) : M[k][i] = x
    BY <1>2 DEF Lists
  <2>2. \A k \in DOMAIN M : 1 .. Len(M[k]) = {}
    BY <1>2, <1>4
  <2> QED
    BY <2>1, <2>2
<1>6. free_space = Base + HeapHeader
  BY <1>1, <1>5 DEF ListedInv, SpaceInv
<1>7. Base \in Nat /\ HeapSize \in Nat /\ HeapSize >= HeapHeader + CacheBytes
  BY HeapAssumption
<1> QED
  BY <1>6, <1>7 DEF HeapHeader, CacheBytes, HeapEnd
=============================================================================
