------------------------ MODULE PhysicalMemoryProofs ------------------------
(***************************************************************************)
(* Proofs about PhysicalMemory for every E820 map, kernel size and request. *)
(***************************************************************************)
EXTENDS PhysicalMemory, TLAPS, WellFoundedInduction

-----------------------------------------------------------------------------
(* The map.                                                                *)

\* A usable region that prep_mem takes has room for its header, and regions do not
\* overlap: what the E820 loop of prep_mem relies on.
LEMMA RegionFacts ==
  ASSUME mmap \in Maps
  PROVE  /\ Len(mmap) \in Nat
         /\ \A i \in Regions :
              /\ i \in 1 .. Len(mmap)
              /\ Start(mmap[i]) \in Nat /\ Limit(mmap[i]) \in Nat
              /\ 0 < Start(mmap[i])
              /\ Start(mmap[i]) + HeaderSize < Limit(mmap[i])
              /\ mmap[i] \in Entry
         /\ \A i, j \in Regions : i # j =>
              \/ Limit(mmap[i]) <= Start(mmap[j])
              \/ Limit(mmap[j]) <= Start(mmap[i])
<1>1. mmap \in Seq(Entry)
  BY MapAssumption
<1>2. Len(mmap) \in Nat /\ \A i \in 1 .. Len(mmap) : mmap[i] \in Entry
  BY <1>1
<1>3. ASSUME NEW i \in Regions
      PROVE  /\ i \in 1 .. Len(mmap)
             /\ mmap[i].address \in Nat /\ mmap[i].length \in Nat
             /\ Padding(mmap[i]) \in Nat
             /\ Start(mmap[i]) = mmap[i].address + Padding(mmap[i])
             /\ Limit(mmap[i]) = mmap[i].address + mmap[i].length
             /\ mmap[i].usable
             /\ HighMemory <= mmap[i].address
             /\ HeaderSize + Padding(mmap[i]) < mmap[i].length
             /\ mmap[i] \in Entry
  <2>1. i \in 1 .. Len(mmap) /\ mmap[i] \in Entry /\ IsRegion(mmap[i])
    BY <1>2 DEF Regions
  <2>2. mmap[i].address \in Nat /\ mmap[i].length \in Nat
    BY <2>1 DEF Entry
  <2>3. Padding(mmap[i]) \in Nat
    BY <2>2 DEF Padding
  <2> QED BY <2>1, <2>2, <2>3 DEF IsRegion, Start, Limit
<1>4. ASSUME NEW i \in Regions, NEW j \in Regions, i # j
      PROVE  \/ Limit(mmap[i]) <= Start(mmap[j])
             \/ Limit(mmap[j]) <= Start(mmap[i])
  <2>1. \/ mmap[i].address + mmap[i].length <= mmap[j].address
        \/ mmap[j].address + mmap[j].length <= mmap[i].address
    BY <1>3, <1>4, MapAssumption
  <2>2. /\ mmap[i].address \in Nat /\ mmap[i].length \in Nat /\ Padding(mmap[i]) \in Nat
        /\ mmap[j].address \in Nat /\ mmap[j].length \in Nat /\ Padding(mmap[j]) \in Nat
    BY <1>3
  <2> QED BY <2>1, <2>2 DEF Start, Limit
<1> QED BY <1>2, <1>3, <1>4 DEF HighMemory, HeaderSize

-----------------------------------------------------------------------------
(* The list.                                                               *)

\* The type of the headers.
HdrType == Blocks \subseteq Nat \ {0} /\ hdr \in [Blocks -> Block]

\* The first byte of the free run that follows a block.
RunStart(b) == b + hdr[b].size + HeaderSize

\* What a typed header table says of one block.
LEMMA BlockFacts ==
  ASSUME HdrType, NEW b \in Blocks
  PROVE  /\ b \in Nat /\ 0 < b
         /\ hdr[b].size \in Nat /\ hdr[b].free \in Nat
         /\ hdr[b].next \in Nat /\ hdr[b].prev \in Nat
         /\ hdr[b].sound \in BOOLEAN
         /\ End(b) \in Nat
         /\ b + HeaderSize <= End(b)
         /\ RunStart(b) \in Nat
         /\ RunStart(b) + hdr[b].free = End(b)
         /\ b + HeaderSize <= RunStart(b)
BY DEF HdrType, Block, End, HeaderSize, RunStart

\* _make_new_block, called with a free run that is large enough, puts one new
\* header at the start of that run and leaves a well-formed list.
CarveAt(size, s) ==
  /\ Blocks' = Blocks \cup {RunStart(s)}
  /\ hdr'[RunStart(s)] =
       [next |-> hdr[s].next, prev |-> s, size |-> size - HeaderSize,
        free |-> hdr[s].free - size, sound |-> TRUE]
  /\ hdr'[s] = [hdr[s] EXCEPT !.next = RunStart(s), !.free = 0]
  /\ \A b \in Blocks \ {s} :
       hdr'[b] = IF b = hdr[s].next /\ s # phys_final_block
                   THEN [hdr[b] EXCEPT !.prev = RunStart(s)] ELSE hdr[b]
  /\ phys_final_block' =
       IF s = phys_final_block THEN RunStart(s) ELSE phys_final_block
  /\ phys_first_block' = phys_first_block

\* The headers that a split writes, field by field.
LEMMA CarveEffect ==
  ASSUME HdrType, ListInv, NEW s \in Blocks, NEW size \in Nat,
         HeaderSize <= size, size <= hdr[s].free, MakeNewBlock(size, s)
  PROVE  /\ RunStart(s) \notin Blocks
         /\ CarveAt(size, s)
         /\ HdrType'
<1>1. /\ s \in Nat /\ hdr[s].size \in Nat /\ hdr[s].free \in Nat
      /\ RunStart(s) \in Nat /\ s < RunStart(s)
      /\ End(s) \in Nat /\ RunStart(s) < End(s)
  BY BlockFacts DEF HeaderSize
<1>2. RunStart(s) \notin Blocks
  <2> SUFFICES ASSUME RunStart(s) \in Blocks PROVE FALSE
    OBVIOUS
  <2> QED BY <1>1 DEF ListInv, BlocksApart
<1>3. hdr' = [b \in Blocks \cup {RunStart(s)} |->
                   IF b = RunStart(s)
                     THEN [next |-> hdr[s].next, prev |-> s, size |-> size - HeaderSize,
                           free |-> hdr[s].free - size, sound |-> TRUE]
                   ELSE IF b = s
                     THEN [hdr[s] EXCEPT !.next = RunStart(s), !.free = 0]
                   ELSE IF b = hdr[s].next /\ s # phys_final_block
                     THEN [hdr[b] EXCEPT !.prev = RunStart(s)]
                   ELSE hdr[b]]
  BY <1>1 DEF MakeNewBlock, Minus64, RunStart
<1>4. CarveAt(size, s)
  BY <1>1, <1>2, <1>3 DEF CarveAt, Blocks, MakeNewBlock, RunStart
<1>5. HdrType'
  <2>1. Blocks' \subseteq Nat \ {0}
    BY <1>1, <1>4 DEF CarveAt, HdrType
  <2>2. hdr' = [b \in Blocks' |-> hdr'[b]]
    BY <1>3 DEF Blocks
  <2>3. hdr'[RunStart(s)] \in Block
    BY <1>1, <1>4, BlockFacts DEF CarveAt, Block, HeaderSize
  <2>a. \A b \in Blocks : hdr[b] \in Block
    BY DEF HdrType
  <2>b. \A r \in Block, x, y \in Nat :
          /\ [r EXCEPT !.next = x, !.free = y] \in Block
          /\ [r EXCEPT !.prev = x] \in Block
    BY DEF Block
  <2>4. hdr'[s] \in Block
    <3>1. hdr'[s] = [hdr[s] EXCEPT !.next = RunStart(s), !.free = 0]
      BY <1>4 DEF CarveAt
    <3>2. [hdr[s] EXCEPT !.next = RunStart(s), !.free = 0] \in Block
      BY <1>1, <2>a, <2>b
    <3> QED BY <3>1, <3>2
  <2>5. ASSUME NEW b \in Blocks \ {s} PROVE hdr'[b] \in Block
    <3>1. \/ hdr'[b] = [hdr[b] EXCEPT !.prev = RunStart(s)]
          \/ hdr'[b] = hdr[b]
      BY <1>4 DEF CarveAt
    <3>2. [hdr[b] EXCEPT !.prev = RunStart(s)] \in Block /\ hdr[b] \in Block
      BY <1>1, <2>a, <2>b
    <3> QED BY <3>1, <3>2
  <2>6. \A b \in Blocks' : hdr'[b] \in Block
    BY <1>4, <2>3, <2>4, <2>5 DEF CarveAt
  <2> QED BY <2>1, <2>2, <2>6 DEF HdrType
<1> QED BY <1>2, <1>4, <1>5

\* The same, field by field.
LEMMA CarveFields ==
  ASSUME HdrType, ListInv, NEW s \in Blocks, NEW size \in Nat,
         HeaderSize <= size, size <= hdr[s].free, CarveAt(size, s),
         NEW R, R = RunStart(s)
  PROVE  /\ hdr'[R].next = hdr[s].next
         /\ hdr'[R].prev = s
         /\ hdr'[R].size = size - HeaderSize
         /\ hdr'[R].sound
         /\ End(R)' = End(s)
         /\ hdr'[s].next = R
         /\ hdr'[s].free = 0
         /\ End(s)' = R
         /\ \A b \in Blocks : /\ hdr'[b].size = hdr[b].size
                              /\ hdr'[b].sound = hdr[b].sound
                              /\ hdr'[b].prev \in {hdr[b].prev, R}
         /\ \A b \in Blocks \ {s} :
              /\ hdr'[b].next = hdr[b].next
              /\ hdr'[b].free = hdr[b].free
              /\ End(b)' = End(b)
         /\ hdr[s].next # 0 => hdr'[hdr[s].next].prev = R
         /\ \A b \in Blocks : b # hdr[s].next => hdr'[b].prev = hdr[b].prev
<1>0. /\ s \in Nat /\ hdr[s].size \in Nat /\ hdr[s].free \in Nat
      /\ R \in Nat /\ R + hdr[s].free = End(s)
      /\ R = s + hdr[s].size + HeaderSize
  BY BlockFacts DEF RunStart
<1>a. \A b \in Blocks : hdr[b] \in Block
  BY DEF HdrType
<1>1. /\ hdr'[R].next = hdr[s].next
      /\ hdr'[R].prev = s
      /\ hdr'[R].size = size - HeaderSize
      /\ hdr'[R].free = hdr[s].free - size
      /\ hdr'[R].sound
  BY DEF CarveAt
<1>2. End(R)' = End(s)
  BY <1>0, <1>1 DEF End, HeaderSize
<1>3. hdr'[s] = [hdr[s] EXCEPT !.next = R, !.free = 0]
  BY DEF CarveAt
<1>4. /\ hdr'[s].next = R
      /\ hdr'[s].free = 0
      /\ hdr'[s].size = hdr[s].size
      /\ hdr'[s].prev = hdr[s].prev
      /\ hdr'[s].sound = hdr[s].sound
  BY <1>3, <1>a DEF Block
<1>5. End(s)' = R
  BY <1>0, <1>4 DEF End, HeaderSize
<1>6. ASSUME NEW b \in Blocks \ {s}
      PROVE  /\ hdr'[b].next = hdr[b].next
             /\ hdr'[b].size = hdr[b].size
             /\ hdr'[b].free = hdr[b].free
             /\ hdr'[b].sound = hdr[b].sound
             /\ hdr'[b].prev = IF b = hdr[s].next /\ s # phys_final_block
                                 THEN R ELSE hdr[b].prev
             /\ End(b)' = End(b)
  <2>1. hdr'[b] = IF b = hdr[s].next /\ s # phys_final_block
                   THEN [hdr[b] EXCEPT !.prev = R] ELSE hdr[b]
    BY DEF CarveAt
  <2>2. hdr[b] \in Block
    BY <1>a
  <2>3. /\ hdr'[b].next = hdr[b].next
        /\ hdr'[b].size = hdr[b].size
        /\ hdr'[b].free = hdr[b].free
        /\ hdr'[b].sound = hdr[b].sound
        /\ hdr'[b].prev = IF b = hdr[s].next /\ s # phys_final_block
                            THEN R ELSE hdr[b].prev
    BY <2>1, <2>2 DEF Block
  <2> QED BY <2>3 DEF End
<1>7. hdr[s].next # 0 => hdr[s].next \in Blocks \ {s} /\ s # phys_final_block
  BY <1>0, BlockFacts DEF ListInv, Sorted, Ends
<1> QED BY <1>1, <1>2, <1>4, <1>5, <1>6, <1>7

\* A block that is split leaves the list in order.
LEMMA CarveListInv ==
  ASSUME mmap \in Maps, HdrType, ListInv, NEW s \in Blocks, NEW size \in Nat,
         HeaderSize <= size, size <= hdr[s].free,
         NEW R, R = RunStart(s), R \notin Blocks, CarveAt(size, s), HdrType',
         UNCHANGED <<mmap, entry>>
  PROVE  /\ ListInv'
         /\ Heads' = Heads
         /\ R \notin Heads
<1>1. Blocks' = Blocks \cup {R}
  BY DEF CarveAt
<1>2. /\ s \in Nat /\ R \in Nat /\ 0 < s /\ s + HeaderSize <= R /\ R < End(s)
      /\ hdr[s].next \in Nat
  BY BlockFacts DEF HeaderSize
<1>3. \A b \in Blocks : b \in Nat /\ 0 < b /\ End(b) \in Nat /\ b < End(b)
  BY BlockFacts DEF HeaderSize
<1>4. Heads' = Heads /\ Prepared' = Prepared
  BY DEF Heads, Prepared, Regions
<1>5. R \notin Heads
  BY DEF ListInv, HeadsListed
<1>6. \A b \in Blocks : b <= s \/ End(s) <= b
  BY <1>2, <1>3 DEF ListInv, BlocksApart
<1>7. Sorted'
  <2>1. ASSUME NEW b \in Blocks \ {s}
        PROVE  IF hdr'[b].next = 0
                 THEN \A c \in Blocks' : c <= b
                 ELSE /\ hdr'[b].next \in Blocks'
                      /\ b < hdr'[b].next
                      /\ \A c \in Blocks' : c <= b \/ hdr'[b].next <= c
    <3>1. hdr'[b].next = hdr[b].next
      BY CarveFields
    <3>2. IF hdr[b].next = 0
            THEN \A c \in Blocks : c <= b
            ELSE /\ hdr[b].next \in Blocks
                 /\ b < hdr[b].next
                 /\ \A c \in Blocks : c <= b \/ hdr[b].next <= c
      BY DEF ListInv, Sorted
    <3>3. b < s \/ R < b
      BY <1>2, <1>3, <1>6
    <3>4. CASE hdr[b].next = 0
      <4>1. \A c \in Blocks : c <= b
        BY <3>2, <3>4
      <4>2. s \in Nat /\ b \in Nat /\ R \in Nat
        BY <1>2, <1>3
      <4>3. R <= b
        BY <3>3, <4>1, <4>2
      <4>4. \A c \in Blocks' : c <= b
        BY <4>1, <4>3, <1>1
      <4> QED BY <3>1, <3>4, <4>4
    <3>5. CASE hdr[b].next # 0
      <4>1. R <= b \/ hdr[b].next <= R
        BY <3>2, <3>3, <3>5, <1>2, <1>3 DEF HeaderSize
      <4> QED BY <3>1, <3>2, <3>5, <4>1, <1>1
    <3> QED BY <3>4, <3>5
  <2>2. /\ hdr'[s].next = R /\ R # 0
        /\ R \in Blocks' /\ s < R
        /\ \A c \in Blocks' : c <= s \/ R <= c
    BY CarveFields, <1>1, <1>2, <1>3, <1>6 DEF HeaderSize
  <2>3. IF hdr'[R].next = 0
          THEN \A c \in Blocks' : c <= R
          ELSE /\ hdr'[R].next \in Blocks'
               /\ R < hdr'[R].next
               /\ \A c \in Blocks' : c <= R \/ hdr'[R].next <= c
    <3>1. hdr'[R].next = hdr[s].next
      BY CarveFields
    <3> QED BY <3>1, <1>1, <1>2, <1>3, <1>6 DEF ListInv, Sorted, HeaderSize
  <2> QED BY <1>1, <2>1, <2>2, <2>3 DEF Sorted
<1>8. Ends'
  <2>1. phys_first_block' \in Blocks' /\ phys_final_block' \in Blocks'
    BY <1>1 DEF CarveAt, ListInv, Ends
  <2>2. \A c \in Blocks' : phys_first_block' <= c /\ c <= phys_final_block'
    BY <1>1, <1>2, <1>3, <1>6 DEF CarveAt, ListInv, Ends, HeaderSize
  <2> QED BY <2>1, <2>2 DEF Ends
<1>9. /\ End(R)' = End(s) /\ End(s)' = R
      /\ \A b \in Blocks \ {s} : End(b)' = End(b)
  BY CarveFields
<1>10. BlocksApart'
  <2>1. ASSUME NEW b \in Blocks', NEW c \in Blocks', b < c
        PROVE  End(b)' <= c
    BY <2>1, <1>1, <1>2, <1>3, <1>6, <1>9 DEF ListInv, BlocksApart, HeaderSize
  <2> QED BY <2>1 DEF BlocksApart
<1>11. Contained'
  <2>1. ASSUME NEW b \in Blocks'
        PROVE  \E i \in Prepared' : Start(mmap[i])' <= b /\ End(b)' <= Limit(mmap[i])'
    <3> DEFINE a == IF b = R THEN s ELSE b
    <3>1. a \in Blocks /\ a <= b /\ End(b)' <= End(a) /\ End(b)' \in Nat
      BY <1>1, <1>2, <1>3, <1>9, BlockFacts DEF HeaderSize
    <3>2. PICK i \in Prepared : Start(mmap[i]) <= a /\ End(a) <= Limit(mmap[i])
      BY <3>1 DEF ListInv, Contained
    <3>3. Start(mmap[i]) \in Nat /\ Limit(mmap[i]) \in Nat
      BY RegionFacts DEF Prepared
    <3>4. Start(mmap[i])' = Start(mmap[i]) /\ Limit(mmap[i])' = Limit(mmap[i])
      BY DEF Start, Limit, Padding
    <3>5. a \in Nat /\ b \in Nat /\ End(a) \in Nat
      BY <3>1, <1>1, <1>2, <1>3
    <3> HIDE DEF a
    <3> QED BY <3>1, <3>2, <3>3, <3>4, <3>5, <1>4
  <2> QED BY <2>1 DEF Contained
<1>12. HeadsListed'
  BY <1>1, <1>4 DEF ListInv, HeadsListed
<1>13. Follows'
  <2>1. ASSUME NEW b \in Blocks \ Heads
        PROVE  /\ hdr'[b].prev \in Blocks'
               /\ hdr'[hdr'[b].prev].next = b
               /\ End(hdr[b].prev)' = b
    <3>0. /\ hdr[b].prev \in Blocks
          /\ hdr[hdr[b].prev].next = b
          /\ End(hdr[b].prev) = b
      BY DEF ListInv, Follows
    <3>1. CASE hdr[b].prev = s
      BY <3>0, <3>1, <1>1, <1>3, <1>9, CarveFields
    <3>2. CASE hdr[b].prev # s
      <4>1. b # hdr[s].next
        BY <3>0, <3>2, <1>2, <1>3 DEF ListInv, Sorted
      <4> QED BY <3>0, <3>2, <4>1, <1>1, <1>9, CarveFields
    <3> QED BY <3>1, <3>2
  <2>2. /\ hdr'[R].prev \in Blocks'
        /\ hdr'[hdr'[R].prev].next = R
        /\ End(hdr[R].prev)' = R
    BY CarveFields, <1>1, <1>9
  <2> QED BY <2>1, <2>2, <1>1, <1>4 DEF Follows
<1>14. RegionTail'
  <2>1. ASSUME NEW b \in Blocks', hdr'[b].next \in Heads \cup {0}
        PROVE  \E i \in Prepared' : Start(mmap[i])' <= b /\ End(b)' = Limit(mmap[i])'
    <3> DEFINE a == IF b = R THEN s ELSE b
    <3>0. b # s
      <4>1. hdr'[s].next = R
        BY CarveFields
      <4>2. R # 0
        BY <1>2 DEF HeaderSize
      <4> QED BY <2>1, <1>5, <4>1, <4>2
    <3>1. /\ a \in Blocks /\ a <= b /\ End(b)' = End(a)
          /\ hdr[a].next \in Heads \cup {0}
      <4>1. CASE b = R
        <5>1. End(b)' = End(s) /\ hdr'[b].next = hdr[s].next
          BY <4>1, <1>9, CarveFields
        <5>2. s <= R
          BY <1>2, <1>3 DEF HeaderSize
        <5> QED BY <5>1, <5>2, <4>1, <2>1, <1>3
      <4>2. CASE b # R
        <5>1. b \in Blocks
          BY <4>2, <2>1, <1>1
        <5>2. hdr'[b].next = hdr[b].next /\ End(b)' = End(b)
          BY <5>1, <4>2, <3>0, <1>9, CarveFields
        <5>3. b <= b
          BY <5>1, <1>3
        <5> QED BY <5>1, <5>2, <5>3, <4>2, <2>1
      <4> QED BY <4>1, <4>2
    <3>2. PICK i \in Prepared : Start(mmap[i]) <= a /\ End(a) = Limit(mmap[i])
      BY <3>1 DEF ListInv, RegionTail
    <3>3. Start(mmap[i]) \in Nat /\ Limit(mmap[i]) \in Nat
      BY RegionFacts DEF Prepared
    <3>4. Start(mmap[i])' = Start(mmap[i]) /\ Limit(mmap[i])' = Limit(mmap[i])
      BY DEF Start, Limit, Padding
    <3>5. a \in Nat /\ b \in Nat
      BY <3>1, <1>1, <1>2, <1>3
    <3> HIDE DEF a
    <3> QED BY <3>1, <3>2, <3>3, <3>4, <3>5, <1>4
  <2> QED BY <2>1, <1>4 DEF RegionTail
<1> QED BY <1>4, <1>5, <1>7, <1>8, <1>10, <1>11, <1>12, <1>13, <1>14 DEF ListInv

\* phys_free, of a block that is not a region's header, removes that header and
\* leaves a well-formed list: its predecessor takes over exactly its bytes.
FreeAt(b) ==
  /\ hdr' = [c \in Blocks \ {b} |->
               IF c = hdr[b].prev
                 THEN [hdr[c] EXCEPT
                         !.next = hdr[b].next,
                         !.free = @ + hdr[b].size + HeaderSize + hdr[b].free]
               ELSE IF c = hdr[b].next /\ b # phys_final_block
                 THEN [hdr[c] EXCEPT !.prev = hdr[b].prev]
               ELSE hdr[c]]
  /\ phys_final_block' =
       IF b = phys_final_block THEN hdr[b].prev ELSE phys_final_block
  /\ phys_first_block' = phys_first_block

\* The headers that a merge writes, field by field.
LEMMA FreeFields ==
  ASSUME HdrType, ListInv, NEW b \in Blocks \ Heads, FreeAt(b),
         NEW p, p = hdr[b].prev, NEW n, n = hdr[b].next
  PROVE  /\ Blocks' = Blocks \ {b}
         /\ HdrType'
         /\ p \in Blocks' /\ p < b /\ hdr[p].next = b
         /\ hdr'[p].next = n
         /\ End(p)' = End(b)
         /\ n # 0 => n \in Blocks' /\ b < n /\ hdr'[n].prev = p
         /\ \A c \in Blocks' \ {p} : hdr'[c].next = hdr[c].next /\ End(c)' = End(c)
         /\ \A c \in Blocks' \ {n} : hdr'[c].prev = hdr[c].prev
         /\ \A c \in Blocks' : hdr'[c].sound = hdr[c].sound /\ hdr'[c].size = hdr[c].size
<1>1. Blocks' = Blocks \ {b}
  BY DEF FreeAt, Blocks
<1>2. /\ b \in Nat /\ 0 < b /\ n \in Nat /\ hdr[b].size \in Nat /\ hdr[b].free \in Nat
      /\ End(b) = b + HeaderSize + hdr[b].size + hdr[b].free
  BY BlockFacts DEF End
<1>3. p \in Blocks /\ hdr[p].next = b /\ End(p) = b
  BY DEF ListInv, Follows
<1>4. /\ p \in Nat /\ 0 < p /\ hdr[p].size \in Nat /\ hdr[p].free \in Nat /\ p < b
      /\ End(p) = p + HeaderSize + hdr[p].size + hdr[p].free
  BY <1>2, <1>3, BlockFacts DEF End, HeaderSize
<1>b. p # b
  <2>1. \A x, y \in Nat : x < y => x # y
    OBVIOUS
  <2> QED BY <2>1, <1>2, <1>4
<1>a. \A c \in Blocks : hdr[c] \in Block
  BY DEF HdrType
<1>5. n # 0 => n \in Blocks /\ b < n /\ b # phys_final_block
  BY <1>2, BlockFacts DEF ListInv, Sorted, Ends
<1>6. hdr'[p] = [hdr[p] EXCEPT !.next = n,
                   !.free = @ + hdr[b].size + HeaderSize + hdr[b].free]
  <2>1. p \in Blocks \ {b}
    BY <1>3, <1>b
  <2> QED BY <2>1 DEF FreeAt
<1>7. /\ hdr'[p].next = n
      /\ hdr'[p].free = hdr[p].free + hdr[b].size + HeaderSize + hdr[b].free
      /\ hdr'[p].size = hdr[p].size
      /\ hdr'[p].prev = hdr[p].prev
      /\ hdr'[p].sound = hdr[p].sound
      /\ hdr'[p] \in Block
  <2>1. hdr[p].free + hdr[b].size + HeaderSize + hdr[b].free \in Nat
    BY <1>2, <1>4 DEF HeaderSize
  <2> QED BY <1>2, <1>3, <1>6, <1>a, <2>1 DEF Block
<1>8. End(p)' = End(b)
  BY <1>2, <1>3, <1>4, <1>7 DEF End, HeaderSize
<1>9. ASSUME NEW c \in Blocks \ {b, p}
      PROVE  /\ hdr'[c].next = hdr[c].next
             /\ hdr'[c].size = hdr[c].size
             /\ hdr'[c].free = hdr[c].free
             /\ hdr'[c].sound = hdr[c].sound
             /\ hdr'[c].prev = IF c = n /\ b # phys_final_block THEN p ELSE hdr[c].prev
             /\ hdr'[c] \in Block
             /\ End(c)' = End(c)
  <2>1. hdr'[c] = IF c = n /\ b # phys_final_block
                   THEN [hdr[c] EXCEPT !.prev = p] ELSE hdr[c]
    BY DEF FreeAt
  <2>2. hdr[c] \in Block
    BY <1>a
  <2>3. /\ hdr'[c].next = hdr[c].next
        /\ hdr'[c].size = hdr[c].size
        /\ hdr'[c].free = hdr[c].free
        /\ hdr'[c].sound = hdr[c].sound
        /\ hdr'[c].prev = IF c = n /\ b # phys_final_block THEN p ELSE hdr[c].prev
        /\ hdr'[c] \in Block
    BY <1>4, <2>1, <2>2 DEF Block
  <2> QED BY <2>3 DEF End
<1>10. HdrType'
  <2>1. Blocks' \subseteq Nat \ {0}
    BY <1>1 DEF HdrType
  <2>2. hdr' = [c \in Blocks' |-> hdr'[c]]
    BY DEF FreeAt, Blocks
  <2>3. \A c \in Blocks' : hdr'[c] \in Block
    BY <1>1, <1>7, <1>9
  <2> QED BY <2>1, <2>2, <2>3 DEF HdrType
<1>11. n # p
  BY <1>2, <1>4, <1>5
<1>12. p \in Blocks' /\ (n # 0 => n \in Blocks')
  <2>1. n # 0 => n # b
    BY <1>2, <1>5
  <2> QED BY <1>1, <1>3, <1>5, <1>b, <2>1
<1>13. n # 0 => hdr'[n].prev = p
  BY <1>2, <1>5, <1>9, <1>11
<1>14. \A c \in Blocks' \ {n} : hdr'[c].prev = hdr[c].prev
  BY <1>1, <1>7, <1>9
<1>15. \A c \in Blocks' : hdr'[c].sound = hdr[c].sound /\ hdr'[c].size = hdr[c].size
  BY <1>1, <1>7, <1>9
<1> QED BY <1>1, <1>3, <1>4, <1>5, <1>7, <1>8, <1>9, <1>10, <1>12, <1>13, <1>14, <1>15

\* Merged blocks leave the list in order.
LEMMA FreeListInv ==
  ASSUME mmap \in Maps, HdrType, ListInv, NEW b \in Blocks \ Heads, FreeAt(b),
         UNCHANGED <<mmap, entry>>
  PROVE  ListInv' /\ Heads' = Heads
<1> DEFINE p == hdr[b].prev
           n == hdr[b].next
<1>1. /\ Blocks' = Blocks \ {b}
      /\ p \in Blocks' /\ p < b /\ hdr[p].next = b
      /\ n # 0 => n \in Blocks' /\ b < n
  BY FreeFields
<1>2. /\ hdr'[p].next = n
      /\ n # 0 => hdr'[n].prev = p
      /\ \A c \in Blocks' \ {p} : hdr'[c].next = hdr[c].next
      /\ \A c \in Blocks' \ {n} : hdr'[c].prev = hdr[c].prev
  BY FreeFields
<1>4. Heads' = Heads /\ Prepared' = Prepared
  BY DEF Heads, Prepared, Regions
<1>5. \A c \in Blocks : c \in Nat /\ 0 < c /\ End(c) \in Nat /\ c < End(c)
  BY BlockFacts DEF HeaderSize
<1>6. \A c \in Blocks :
        IF hdr[c].next = 0
          THEN \A d \in Blocks : d <= c
          ELSE /\ hdr[c].next \in Blocks
               /\ c < hdr[c].next
               /\ \A d \in Blocks : d <= c \/ hdr[c].next <= d
  BY DEF ListInv, Sorted
<1>7. \A c \in Blocks : c <= p \/ b <= c
  BY <1>1, <1>5, <1>6
<1>8. \A i \in Prepared : /\ Start(mmap[i]) \in Nat /\ Limit(mmap[i]) \in Nat
                          /\ Start(mmap[i])' = Start(mmap[i])
                          /\ Limit(mmap[i])' = Limit(mmap[i])
                          /\ Start(mmap[i]) \in Blocks
  <2>1. \A i \in Prepared : Start(mmap[i]) \in Nat /\ Limit(mmap[i]) \in Nat
    BY RegionFacts DEF Prepared
  <2>2. \A i \in Prepared : Start(mmap[i]) \in Blocks
    BY DEF ListInv, HeadsListed, Heads
  <2> QED BY <2>1, <2>2 DEF Start, Limit, Padding
\* Its predecessor lies in the same region.
<1>9. \A i \in Prepared : Start(mmap[i]) <= b => Start(mmap[i]) <= p
  <2>1. \A i \in Prepared : Start(mmap[i]) # b
    BY DEF Heads
  <2> QED BY <2>1, <1>1, <1>5, <1>7, <1>8
<1>10. Sorted'
  <2>1. ASSUME NEW c \in Blocks' \ {p}
        PROVE  IF hdr'[c].next = 0
                 THEN \A d \in Blocks' : d <= c
                 ELSE /\ hdr'[c].next \in Blocks'
                      /\ c < hdr'[c].next
                      /\ \A d \in Blocks' : d <= c \/ hdr'[c].next <= d
    <3>1. hdr'[c].next = hdr[c].next
      BY <1>2
    <3>2. hdr[c].next # b
      BY <1>1, <1>5, <1>6
    <3> HIDE DEF p, n
    <3> QED BY <3>1, <3>2, <1>1, <1>6
  <2>2. IF n = 0
          THEN \A d \in Blocks' : d <= p
          ELSE /\ n \in Blocks'
               /\ p < n
               /\ \A d \in Blocks' : d <= p \/ n <= d
    <3>1. \A d \in Blocks' : d <= p \/ b < d
      BY <1>1, <1>5, <1>7
    <3>2. IF n = 0 THEN \A d \in Blocks : d <= b
                   ELSE \A d \in Blocks : d <= b \/ n <= d
      BY <1>6
    <3>3. p \in Nat /\ b \in Nat
      BY <1>1, <1>5
    <3>4. \A d \in Blocks' : d \in Blocks /\ d \in Nat
      BY <1>1, <1>5
    <3>5. n # 0 => n \in Nat
      BY <1>1, <1>5
    <3> HIDE DEF p, n
    <3> QED BY <3>1, <3>2, <3>3, <3>4, <3>5, <1>1
  <2> QED BY <2>1, <2>2, <1>2 DEF Sorted
<1>11. Ends'
  <2>1. /\ phys_first_block' = phys_first_block
        /\ phys_final_block' = IF b = phys_final_block THEN p ELSE phys_final_block
    BY DEF FreeAt
  <2>2. /\ phys_first_block \in Blocks /\ phys_final_block \in Blocks
        /\ \A c \in Blocks : phys_first_block <= c /\ c <= phys_final_block
    BY DEF ListInv, Ends
  <2>3. phys_first_block' \in Blocks' /\ phys_final_block' \in Blocks'
    <3>1. phys_first_block # b
      BY <2>2, <1>1, <1>5
    <3> QED BY <2>1, <2>2, <3>1, <1>1
  <2>4. \A c \in Blocks' : phys_first_block' <= c /\ c <= phys_final_block'
    <3>1. CASE b = phys_final_block
      BY <3>1, <2>1, <2>2, <1>1, <1>5, <1>7
    <3>2. CASE b # phys_final_block
      BY <3>2, <2>1, <2>2, <1>1
    <3> QED BY <3>1, <3>2
  <2> QED BY <2>3, <2>4 DEF Ends
<1>12. End(b) \in Nat /\ \A c \in Blocks' : End(c)' = IF c = p THEN End(b) ELSE End(c)
  BY FreeFields, <1>5
<1>13. BlocksApart'
  <2>1. ASSUME NEW c \in Blocks', NEW d \in Blocks', c < d
        PROVE  End(c)' <= d
    <3>1. CASE c = p
      <4>1. b < d
        BY <3>1, <2>1, <1>1, <1>5, <1>7
      <4> QED BY <3>1, <4>1, <1>1, <1>12 DEF ListInv, BlocksApart
    <3>2. CASE c # p
      BY <3>2, <2>1, <1>1, <1>12 DEF ListInv, BlocksApart
    <3> QED BY <3>1, <3>2
  <2> QED BY <2>1 DEF BlocksApart
<1>14. Contained'
  <2>1. ASSUME NEW c \in Blocks'
        PROVE  \E i \in Prepared' : Start(mmap[i])' <= c /\ End(c)' <= Limit(mmap[i])'
    <3>1. CASE c = p
      <4>1. PICK i \in Prepared : Start(mmap[i]) <= b /\ End(b) <= Limit(mmap[i])
        BY DEF ListInv, Contained
      <4> QED BY <3>1, <4>1, <1>4, <1>8, <1>9, <1>12
    <3>2. CASE c # p
      <4>1. PICK i \in Prepared : Start(mmap[i]) <= c /\ End(c) <= Limit(mmap[i])
        BY <1>1 DEF ListInv, Contained
      <4> QED BY <3>2, <4>1, <1>4, <1>8, <1>12
    <3> QED BY <3>1, <3>2
  <2> QED BY <2>1 DEF Contained
<1>15. HeadsListed'
  BY <1>1, <1>4 DEF ListInv, HeadsListed
<1>16. Follows'
  <2>1. ASSUME NEW c \in Blocks' \ Heads
        PROVE  /\ hdr'[c].prev \in Blocks'
               /\ hdr'[hdr'[c].prev].next = c
               /\ End(hdr[c].prev)' = c
    <3>0. /\ c \in Blocks /\ c # b
          /\ hdr[c].prev \in Blocks
          /\ hdr[hdr[c].prev].next = c
          /\ End(hdr[c].prev) = c
      BY <1>1 DEF ListInv, Follows
    <3>1. CASE hdr[c].prev = b
      <4>1. c = n /\ n # 0 /\ End(b) = c
        BY <3>0, <3>1, <1>5
      <4>2. hdr'[c].prev = p
        BY <4>1, <1>2
      <4> HIDE DEF p, n
      <4> QED BY <4>1, <4>2, <1>1, <1>2, <1>12
    <3>2. CASE hdr[c].prev # b
      <4>1. c # n
        BY <3>0, <3>2, <1>1, <1>5, <1>6
      <4>2. hdr'[c].prev = hdr[c].prev
        BY <4>1, <1>2
      <4>3. hdr[c].prev # p
        BY <3>0, <1>1
      <4> HIDE DEF p, n
      <4> QED BY <3>0, <3>2, <4>2, <4>3, <1>1, <1>2, <1>12
    <3> QED BY <3>1, <3>2
  <2> QED BY <2>1, <1>4 DEF Follows
<1>17. RegionTail'
  <2>1. ASSUME NEW c \in Blocks', hdr'[c].next \in Heads \cup {0}
        PROVE  \E i \in Prepared' : Start(mmap[i])' <= c /\ End(c)' = Limit(mmap[i])'
    <3>1. CASE c = p
      <4>1. PICK i \in Prepared : Start(mmap[i]) <= b /\ End(b) = Limit(mmap[i])
        BY <2>1, <3>1, <1>2 DEF ListInv, RegionTail
      <4> QED BY <3>1, <4>1, <1>4, <1>8, <1>9, <1>12
    <3>2. CASE c # p
      <4>1. hdr[c].next \in Heads \cup {0}
        BY <2>1, <3>2, <1>2
      <4>2. PICK i \in Prepared : Start(mmap[i]) <= c /\ End(c) = Limit(mmap[i])
        BY <4>1, <1>1 DEF ListInv, RegionTail
      <4> QED BY <3>2, <4>2, <1>4, <1>8, <1>12
    <3> QED BY <3>1, <3>2
  <2> QED BY <2>1, <1>4 DEF RegionTail
<1> QED BY <1>4, <1>10, <1>11, <1>13, <1>14, <1>15, <1>16, <1>17 DEF ListInv

\* While prep_mem runs, the list holds the header of every prepared region and
\* nothing else, and each owns its whole region.
AllFree ==
  /\ Blocks = Heads
  /\ \A i \in Prepared : /\ hdr[Start(mmap[i])].size = 0
                        /\ End(Start(mmap[i])) = Limit(mmap[i])

\* prep_mem puts the header of the current region between the closest header
\* below it, p, and the closest above it, n (0 if there is none).
LEMMA InsertListInv ==
  ASSUME mmap \in Maps, HdrType, Sorted, Ends, AllFree,
         entry \in 1 .. Len(mmap), IsRegion(region),
         NEW p \in Nat, NEW n \in Nat, NEW N, N = Start(region),
         p # 0 => p \in Blocks /\ p < N /\ hdr[p].next = n,
         n # 0 => n \in Blocks /\ N < n,
         \A c \in Blocks : (p # 0 /\ c <= p) \/ (n # 0 /\ n <= c),
         Link(p, n, p),
         phys_first_block' = IF p = 0 THEN N ELSE phys_first_block,
         phys_final_block' = IF n = 0 THEN N ELSE phys_final_block,
         entry' = entry + 1, mmap' = mmap
  PROVE  HdrType' /\ ListInv' /\ AllFree'
<1>1. /\ entry \in Regions /\ entry \notin Prepared
      /\ Regions' = Regions
      /\ Prepared' = Prepared \cup {entry}
      /\ Prepared \subseteq Regions
  <2>1. Len(mmap) \in Nat
    BY RegionFacts
  <2>2. \A i \in Regions : i \in Nat
    BY <2>1 DEF Regions
  <2> QED BY <2>1, <2>2 DEF Prepared, Regions, region
<1>2. \A i \in Prepared' : /\ Start(mmap[i]) \in Nat /\ Limit(mmap[i]) \in Nat
                           /\ 0 < Start(mmap[i])
                           /\ Start(mmap[i]) + HeaderSize < Limit(mmap[i])
                           /\ Start(mmap[i])' = Start(mmap[i])
                           /\ Limit(mmap[i])' = Limit(mmap[i])
  BY <1>1, RegionFacts DEF Start, Limit, Padding
<1>3. \A i, j \in Prepared' : i # j => \/ Limit(mmap[i]) <= Start(mmap[j])
                                      \/ Limit(mmap[j]) <= Start(mmap[i])
  BY <1>1, RegionFacts
<1>4. N = Start(mmap[entry]) /\ N \in Nat /\ 0 < N
  BY <1>1, <1>2 DEF region
<1>5. Heads' = Heads \cup {N}
  <2>1. \A h : h \in Heads' <=> \E i \in Prepared' : h = Start(mmap[i])
    BY <1>2 DEF Heads
  <2>2. \A h : h \in Heads <=> \E i \in Prepared : h = Start(mmap[i])
    BY DEF Heads
  <2> QED BY <2>1, <2>2, <1>1, <1>4
<1>6. N \notin Blocks
  <2>1. \A i \in Prepared : Start(mmap[i]) # N
    BY <1>1, <1>2, <1>3, <1>4 DEF HeaderSize
  <2> QED BY <2>1 DEF AllFree, Heads
<1>7. /\ hdr' = [b \in Blocks \cup {N} |->
                   IF b = N THEN RegionHeader(n, p)
                   ELSE IF b = p THEN [hdr[b] EXCEPT !.next = N]
                   ELSE hdr[b]]
      /\ Blocks' = Blocks \cup {N}
  BY DEF Link, Blocks
<1>8. /\ RegionHeader(n, p) \in Block
      /\ RegionHeader(n, p).next = n
      /\ RegionHeader(n, p).size = 0
      /\ N + HeaderSize + RegionHeader(n, p).size + RegionHeader(n, p).free
           = Limit(mmap[entry])
  <2>1. /\ mmap[entry].address \in Nat /\ mmap[entry].length \in Nat
        /\ Padding(mmap[entry]) \in Nat
        /\ HeaderSize + Padding(mmap[entry]) < mmap[entry].length
    <3>1. mmap[entry] \in Entry
      BY <1>1, RegionFacts
    <3>2. mmap[entry].address \in Nat /\ mmap[entry].length \in Nat
      BY <3>1 DEF Entry
    <3> QED BY <3>2 DEF Padding, IsRegion, region
  <2>2. /\ RegionHeader(n, p).next = n
        /\ RegionHeader(n, p).prev = p
        /\ RegionHeader(n, p).size = 0
        /\ RegionHeader(n, p).sound = TRUE
        /\ RegionHeader(n, p).free = mmap[entry].length - HeaderSize - Padding(mmap[entry])
    BY DEF RegionHeader, region
  <2>3. mmap[entry].length - HeaderSize - Padding(mmap[entry]) \in Nat
    BY <2>1 DEF HeaderSize
  <2>4. RegionHeader(n, p) \in Block
    BY <2>3 DEF RegionHeader, Block, region
  <2>5. N = mmap[entry].address + Padding(mmap[entry])
    BY <1>4 DEF Start
  <2>6. N + HeaderSize + 0 + (mmap[entry].length - HeaderSize - Padding(mmap[entry]))
          = mmap[entry].address + mmap[entry].length
    <3>1. PICK x \in Nat : x = mmap[entry].address
      BY <2>1
    <3>2. PICK y \in Nat : y = mmap[entry].length
      BY <2>1
    <3>3. PICK z \in Nat : z = Padding(mmap[entry])
      BY <2>1
    <3>4. N = x + z => N + HeaderSize + 0 + (y - HeaderSize - z) = x + y
      BY DEF HeaderSize
    <3> QED BY <3>1, <3>2, <3>3, <3>4, <2>5
  <2> QED BY <2>2, <2>4, <2>6 DEF Limit
<1>9. /\ hdr'[N].next = n /\ hdr'[N].size = 0
      /\ End(N)' = Limit(mmap[entry]) /\ hdr'[N] \in Block
  BY <1>7, <1>8 DEF End
<1>a. \A b \in Blocks : hdr[b] \in Block /\ b \in Nat /\ 0 < b /\ b # N
  BY <1>6, BlockFacts DEF HdrType
<1>10. \A b \in Blocks : /\ hdr'[b].next = (IF b = p THEN N ELSE hdr[b].next)
                         /\ hdr'[b] \in Block
                         /\ hdr'[b].size = hdr[b].size
                         /\ End(b)' = End(b)
  <2> TAKE b \in Blocks
  <2>1. hdr'[b] = IF b = p THEN [hdr[b] EXCEPT !.next = N] ELSE hdr[b]
    BY <1>7, <1>a
  <2>2. /\ hdr'[b].next = (IF b = p THEN N ELSE hdr[b].next)
        /\ hdr'[b] \in Block
        /\ hdr'[b].size = hdr[b].size
        /\ hdr'[b].free = hdr[b].free
    BY <2>1, <1>4, <1>a DEF Block
  <2> QED BY <2>2 DEF End
<1>11. HdrType'
  <2>1. hdr' = [b \in Blocks' |-> hdr'[b]]
    BY <1>7
  <2>2. Blocks' \subseteq Nat \ {0}
    BY <1>4, <1>7 DEF HdrType
  <2> QED BY <2>1, <2>2, <1>7, <1>9, <1>10 DEF HdrType
<1>12. AllFree'
  <2>1. \A i \in Prepared : /\ hdr'[Start(mmap[i])'].size = 0
                           /\ End(Start(mmap[i]))' = Limit(mmap[i])'
    <3> TAKE i \in Prepared
    <3>1. Start(mmap[i]) \in Blocks
      BY DEF AllFree, Heads
    <3>2. Start(mmap[i])' = Start(mmap[i]) /\ Limit(mmap[i])' = Limit(mmap[i])
      BY <1>1, <1>2
    <3>3. \A b : End(b)' = b + HeaderSize + hdr'[b].size + hdr'[b].free
      BY DEF End
    <3>4. End(Start(mmap[i]))' = End(Start(mmap[i]))
      <4> DEFINE e(x) == x + HeaderSize + hdr'[x].size + hdr'[x].free
      <4>1. End(Start(mmap[i]))' = e(Start(mmap[i])')
        BY DEF End
      <4>2. e(Start(mmap[i])) = End(Start(mmap[i]))
        BY <3>1, <3>3, <1>10
      <4> HIDE DEF e
      <4> QED BY <4>1, <4>2, <3>2
    <3> QED BY <3>1, <3>2, <3>4, <1>10 DEF AllFree
  <2>2. ASSUME NEW i \in Prepared', i = entry
        PROVE  hdr'[Start(mmap[i])'].size = 0 /\ End(Start(mmap[i]))' = Limit(mmap[i])'
    <3> DEFINE e(x) == x + HeaderSize + hdr'[x].size + hdr'[x].free
    <3>1. End(Start(mmap[i]))' = e(Start(mmap[i])')
      BY DEF End
    <3>2. Start(mmap[i])' = N /\ Limit(mmap[i])' = Limit(mmap[entry])
      BY <2>2, <1>2, <1>4
    <3>3. e(N) = Limit(mmap[entry])
      BY <1>9 DEF End
    <3> HIDE DEF e
    <3> QED BY <3>1, <3>2, <3>3, <1>9
  <2>3. \A i \in Prepared' : /\ hdr'[Start(mmap[i])'].size = 0
                            /\ End(Start(mmap[i]))' = Limit(mmap[i])'
    BY <2>1, <2>2, <1>1
  <2>4. Blocks' = Heads'
    BY <1>5, <1>7 DEF AllFree
  <2> QED BY <2>3, <2>4 DEF AllFree
<1>13. \A b \in Blocks' : \E i \in Prepared' :
         b = Start(mmap[i]) /\ End(b)' = Limit(mmap[i])
  <2> TAKE b \in Blocks'
  <2>1. CASE b = N
    BY <2>1, <1>1, <1>4, <1>9
  <2>2. CASE b \in Blocks
    <3>1. PICK i \in Prepared : b = Start(mmap[i])
      BY <2>2 DEF AllFree, Heads
    <3> QED BY <2>2, <3>1, <1>1, <1>10 DEF AllFree
  <2> QED BY <2>1, <2>2, <1>7
<1>14. BlocksApart'
  <2>1. ASSUME NEW b \in Blocks', NEW c \in Blocks', b < c
        PROVE  End(b)' <= c
    <3>1. PICK i \in Prepared' : b = Start(mmap[i]) /\ End(b)' = Limit(mmap[i])
      BY <1>13
    <3>2. PICK j \in Prepared' : c = Start(mmap[j]) /\ End(c)' = Limit(mmap[j])
      BY <1>13
    <3>3. i # j
      BY <2>1, <3>1, <3>2, <1>2
    <3>4. /\ Start(mmap[i]) \in Nat /\ Start(mmap[j]) \in Nat
          /\ Limit(mmap[i]) \in Nat /\ Limit(mmap[j]) \in Nat
          /\ Start(mmap[j]) + HeaderSize < Limit(mmap[j])
      BY <1>2
    <3> QED BY <2>1, <3>1, <3>2, <3>3, <3>4, <1>3 DEF HeaderSize
  <2> QED BY <2>1 DEF BlocksApart
<1>15. Contained'
  <2>1. ASSUME NEW b \in Blocks'
        PROVE  \E i \in Prepared' : Start(mmap[i])' <= b /\ End(b)' <= Limit(mmap[i])'
    <3>1. PICK i \in Prepared' : b = Start(mmap[i]) /\ End(b)' = Limit(mmap[i])
      BY <1>13
    <3> QED BY <3>1, <1>2
  <2> QED BY <2>1 DEF Contained
<1>16. RegionTail'
  <2>1. ASSUME NEW b \in Blocks'
        PROVE  \E i \in Prepared' : Start(mmap[i])' <= b /\ End(b)' = Limit(mmap[i])'
    <3>1. PICK i \in Prepared' : b = Start(mmap[i]) /\ End(b)' = Limit(mmap[i])
      BY <1>13
    <3> QED BY <3>1, <1>2
  <2> QED BY <2>1 DEF RegionTail
<1>17. HeadsListed' /\ Follows'
  BY <1>12 DEF AllFree, HeadsListed, Follows
<1>18. \A c \in Blocks : c # p => (p # 0 /\ c < p) \/ (n # 0 /\ n <= c)
  BY <1>a
<1>19. Sorted'
  <2>1. ASSUME NEW b \in Blocks \ {p}
        PROVE  IF hdr'[b].next = 0
                 THEN \A c \in Blocks' : c <= b
                 ELSE /\ hdr'[b].next \in Blocks'
                      /\ b < hdr'[b].next
                      /\ \A c \in Blocks' : c <= b \/ hdr'[b].next <= c
    <3>1. hdr'[b].next = hdr[b].next
      BY <1>10
    <3>2. b \in Nat /\ N \in Nat /\ hdr[b].next \in Nat
      BY <1>4, BlockFacts
    <3>3. CASE hdr[b].next = 0
      <4>1. \A c \in Blocks : c <= b
        BY <3>3 DEF Sorted
      <4>2. N < b
        BY <4>1, <1>a, <1>18, <3>2
      <4> QED BY <3>1, <3>2, <3>3, <4>1, <4>2, <1>7
    <3>4. CASE hdr[b].next # 0
      <4>1. /\ hdr[b].next \in Blocks /\ b < hdr[b].next
            /\ \A c \in Blocks : c <= b \/ hdr[b].next <= c
        BY <3>4 DEF Sorted
      <4>2. CASE p # 0 /\ b < p
        <5>1. hdr[b].next <= p
          BY <4>1, <4>2, <1>a, <3>2
        <5>2. hdr[b].next <= N
          BY <4>2, <5>1, <3>2, <1>a
        <5> QED BY <3>1, <3>4, <4>1, <5>2, <1>7
      <4>3. CASE n # 0 /\ n <= b
        <5>1. N <= b
          BY <4>3, <3>2, <1>a
        <5> QED BY <3>1, <3>4, <4>1, <5>1, <1>7
      <4> QED BY <4>2, <4>3, <1>18
    <3> QED BY <3>3, <3>4
  <2>2. ASSUME p # 0
        PROVE  /\ hdr'[p].next = N /\ N # 0
               /\ N \in Blocks' /\ p < N
               /\ \A c \in Blocks' : c <= p \/ N <= c
    <3>1. \A c \in Blocks : c <= p \/ N <= c
      BY <2>2, <1>a, <1>4
    <3> QED BY <2>2, <3>1, <1>4, <1>7, <1>10
  <2>3. IF hdr'[N].next = 0
          THEN \A c \in Blocks' : c <= N
          ELSE /\ hdr'[N].next \in Blocks'
               /\ N < hdr'[N].next
               /\ \A c \in Blocks' : c <= N \/ hdr'[N].next <= c
    <3>1. \A c \in Blocks : c <= N \/ (n # 0 /\ n <= c)
      BY <1>a, <1>4
    <3> QED BY <3>1, <1>4, <1>7, <1>9
  <2>4. \A b \in Blocks' : b = N \/ b \in Blocks \ {p} \/ (b = p /\ p # 0)
    BY <1>7, <1>a
  <2>5. p # 0 => IF hdr'[p].next = 0
                   THEN \A c \in Blocks' : c <= p
                   ELSE /\ hdr'[p].next \in Blocks'
                        /\ p < hdr'[p].next
                        /\ \A c \in Blocks' : c <= p \/ hdr'[p].next <= c
    BY <2>2
  <2> QED BY <2>1, <2>3, <2>4, <2>5 DEF Sorted
<1>20. Ends'
  <2>0. Blocks # {} => /\ phys_first_block \in Blocks /\ phys_final_block \in Blocks
                       /\ \A c \in Blocks : phys_first_block <= c /\ c <= phys_final_block
    BY DEF Ends
  <2>1. p # 0 => Blocks # {} /\ \A c \in Blocks' : phys_first_block' <= c
    <3> SUFFICES ASSUME p # 0 PROVE Blocks # {} /\ \A c \in Blocks' : phys_first_block <= c
      OBVIOUS
    <3>1. phys_first_block \in Nat /\ phys_first_block <= p /\ p < N
      BY <2>0, <1>a
    <3> QED BY <3>1, <2>0, <1>4, <1>7
  <2>2. p = 0 => \A c \in Blocks' : N <= c
    BY <1>4, <1>7, <1>a
  <2>3. n # 0 => Blocks # {} /\ \A c \in Blocks' : c <= phys_final_block'
    <3> SUFFICES ASSUME n # 0 PROVE Blocks # {} /\ \A c \in Blocks' : c <= phys_final_block
      OBVIOUS
    <3>1. phys_final_block \in Nat /\ n <= phys_final_block /\ N < n
      BY <2>0, <1>a
    <3> QED BY <3>1, <2>0, <1>4, <1>7
  <2>4. n = 0 => \A c \in Blocks' : c <= N
    BY <1>4, <1>7, <1>a
  <2>5. phys_first_block' \in Blocks' /\ phys_final_block' \in Blocks'
    BY <2>0, <2>1, <2>3, <1>7
  <2>6. \A c \in Blocks' : phys_first_block' <= c /\ c <= phys_final_block'
    BY <2>1, <2>2, <2>3, <2>4
  <2> QED BY <2>5, <2>6, <1>7 DEF Ends
<1> QED BY <1>11, <1>12, <1>14, <1>15, <1>16, <1>17, <1>19, <1>20 DEF ListInv

-----------------------------------------------------------------------------
(* The inductive invariant.                                                *)

\* The boot loader's choice is one of the regions it accepts.
LEMMA KernelEntryFacts ==
  ASSUME NEW m \in Maps, BootEntries(m) # {}
  PROVE  KernelEntry(m) \in BootEntries(m)
<1> DEFINE T == BootEntries(m)
<1>1. T \subseteq Nat
  <2>1. Len(m) \in Nat
    BY MapAssumption
  <2> QED BY <2>1 DEF BootEntries
<1>2. \E i \in T : \A j \in T : ~ (<<j, i>> \in OpToRel(<, Nat))
  BY <1>1, NatLessThanWellFounded, WFMin
<1>3. \E i \in T : \A j \in T : i <= j
  <2>1. PICK i \in T : \A j \in T : ~ (<<j, i>> \in OpToRel(<, Nat))
    BY <1>2
  <2>2. ASSUME NEW j \in T PROVE i <= j
    <3>1. ~ (j < i)
      BY <2>1, <1>1 DEF OpToRel
    <3> QED BY <3>1, <1>1
  <2> QED BY <2>2
<1> QED BY <1>3 DEF KernelEntry

\* A step that leaves the map and the list alone leaves the list well formed.
LEMMA ListFrame ==
  ASSUME ListInv, HdrType, UNCHANGED <<mmap, entry, list>>
  PROVE  ListInv' /\ HdrType' /\ Heads' = Heads /\ Prepared' = Prepared
         /\ Blocks' = Blocks /\ hdr' = hdr
         /\ \A b : End(b)' = End(b)
<1>1. hdr' = hdr /\ Blocks' = Blocks /\ HdrType'
  BY DEF list, Blocks, HdrType
<1>2. Heads' = Heads /\ Prepared' = Prepared
  BY DEF Heads, Prepared, Regions
<1>3. \A b : End(b)' = End(b)
  BY <1>1 DEF End
<1>4. Sorted' /\ Ends'
  BY <1>1 DEF ListInv, list, Sorted, Ends
<1>5. BlocksApart'
  BY <1>1, <1>3 DEF ListInv, BlocksApart
<1>6. Contained'
  BY <1>1, <1>2, <1>3 DEF ListInv, Contained, Start, Limit, Padding
<1>7. HeadsListed'
  BY <1>1, <1>2 DEF ListInv, HeadsListed
<1>8. Follows'
  BY <1>1, <1>2, <1>3 DEF ListInv, Follows, End
<1>9. RegionTail'
  BY <1>1, <1>2, <1>3 DEF ListInv, RegionTail, Start, Limit, Padding
<1> QED BY <1>1, <1>2, <1>3, <1>4, <1>5, <1>6, <1>7, <1>8, <1>9 DEF ListInv

\* There is no block before the map is gone through.
LEMMA InitInv == ASSUME Init PROVE IInv
<1>1. mmap \in Maps /\ Len(mmap) \in Nat /\ entry = 1 /\ entry \in 1 .. Len(mmap) + 1
  BY RegionFacts DEF Init
<1>2. Blocks = {} /\ hdr \in [Blocks -> Block]
  BY DEF Init, Blocks
<1>3. Prepared = {} /\ Heads = {}
  BY <1>1, RegionFacts DEF Prepared, Heads
<1>4. TypeOK
  BY <1>1, <1>2 DEF TypeOK, Init
<1>5. ListInv
  BY <1>2, <1>3 DEF ListInv, Sorted, Ends, BlocksApart, Contained, HeadsListed, Follows,
                    RegionTail, Init
<1>6. BootInv /\ InsertInv /\ KernelInv /\ Accounted /\ ScanInv
  BY <1>2, <1>3 DEF BootInv, InsertInv, KernelInv, KernelPlaced, Accounted, OwnedBacked, NoStrayBlock,
                    ScanInv, Serving, Init
<1> QED BY <1>4, <1>5, <1>6 DEF IInv, Init

-----------------------------------------------------------------------------
(* prep_mem.                                                               *)

\* An entry that is not usable changes nothing.
LEMMA SkipEntryInv == ASSUME IInv, SkipEntry PROVE IInv'
<1>1. entry \in Nat /\ Len(mmap) \in Nat /\ entry + 1 \in 1 .. Len(mmap) + 1
  BY RegionFacts DEF IInv, TypeOK, SkipEntry
<1>2. Prepared' = Prepared /\ Heads' = Heads
  <2>1. entry \notin Regions
    BY DEF SkipEntry, Regions, region
  <2>2. \A i \in Regions : i \in Nat
    BY <1>1 DEF Regions
  <2> QED BY <1>1, <2>1, <2>2 DEF SkipEntry, NextEntry, Prepared, Heads, Regions
<1>3. ListInv'
  BY <1>2 DEF IInv, ListInv, SkipEntry, NextEntry, list, Sorted, Ends, BlocksApart, Contained,
       HeadsListed, Follows, RegionTail, Blocks, End, Start, Limit, Padding
<1>4. TypeOK'
  BY <1>1 DEF IInv, TypeOK, SkipEntry, NextEntry, list, Blocks
<1>5. BootInv'
  BY <1>2 DEF IInv, BootInv, SkipEntry, NextEntry, Booting, list, Blocks, End, Start, Limit, Padding
<1>6. InsertInv' /\ KernelInv' /\ Accounted' /\ ScanInv'
  BY <1>2 DEF IInv, BootInv, InsertInv, KernelInv, KernelPlaced, Accounted, OwnedBacked, NoStrayBlock, ScanInv,
              Serving, Booting, SkipEntry, NextEntry
<1> QED BY <1>3, <1>4, <1>5, <1>6 DEF IInv, SkipEntry, NextEntry

\* What the regions put on the list so far say about the current one.
LEMMA InsertStep ==
  ASSUME IInv, entry \in 1 .. Len(mmap), IsRegion(region), Booting,
         NEW p \in Nat, NEW n \in Nat, NEW N, N = Start(region),
         p # 0 => p \in Blocks /\ p < N /\ hdr[p].next = n,
         n # 0 => n \in Blocks /\ N < n,
         \A c \in Blocks : (p # 0 /\ c <= p) \/ (n # 0 /\ n <= c),
         Link(p, n, p),
         phys_first_block' = IF p = 0 THEN N ELSE phys_first_block,
         phys_final_block' = IF n = 0 THEN N ELSE phys_final_block,
         pc' = "prep", cursor' = cursor, NextEntry
  PROVE  IInv'
<1>1. mmap \in Maps /\ HdrType /\ Sorted /\ Ends /\ AllFree
  BY DEF IInv, TypeOK, HdrType, ListInv, BootInv, AllFree
<1>2. entry' = entry + 1 /\ mmap' = mmap
  BY DEF NextEntry
<1>3. HdrType' /\ ListInv' /\ AllFree'
  BY <1>1, <1>2, InsertListInv
<1>4. entry' \in 1 .. Len(mmap') + 1
  BY <1>1, <1>2, RegionFacts
<1>5. N \in Nat
  <2>1. entry \in Regions
    BY DEF Regions, region
  <2> QED BY <2>1, <1>1, RegionFacts DEF region
<1>6. phys_first_block' \in Nat /\ phys_final_block' \in Nat
  BY <1>5 DEF IInv, TypeOK
<1>7. TypeOK'
  BY <1>3, <1>4, <1>6 DEF IInv, TypeOK, HdrType, NextEntry
<1>8. BootInv'
  BY <1>3 DEF AllFree, BootInv, IInv, NextEntry
<1>9. InsertInv' /\ KernelInv' /\ Accounted' /\ ScanInv'
  BY DEF InsertInv, KernelInv, KernelPlaced, Accounted, OwnedBacked, NoStrayBlock, ScanInv, Serving, IInv,
         BootInv, NextEntry
<1>10. BootEntries(mmap)' # {}
  BY <1>2 DEF IInv, BootEntries
<1> QED BY <1>3, <1>7, <1>8, <1>9, <1>10 DEF IInv

\* The first region makes the list.
LEMMA FirstRegionInv == ASSUME IInv, FirstRegion PROVE IInv'
<1>1. entry \in 1 .. Len(mmap) /\ IsRegion(region) /\ Booting /\ cursor' = cursor /\ NextEntry
      /\ pc' = "prep"
  BY DEF IInv, TypeOK, FirstRegion, Booting
<1>2. Blocks = {}
  BY BlockFacts DEF IInv, TypeOK, ListInv, Ends, FirstRegion
<1>3. /\ Link(0, 0, 0)
      /\ phys_first_block' = Start(region)
      /\ phys_final_block' = Start(region)
  BY DEF FirstRegion
<1> QED BY <1>1, <1>2, <1>3, InsertStep

\* A region below all others becomes the head.
LEMMA FrontRegionInv == ASSUME IInv, FrontRegion PROVE IInv'
<1>1. entry \in 1 .. Len(mmap) /\ IsRegion(region) /\ Booting /\ cursor' = cursor /\ NextEntry
      /\ pc' = "prep"
  BY DEF IInv, TypeOK, FrontRegion, Booting
<1>2. /\ phys_first_block \in Blocks /\ phys_first_block \in Nat
      /\ \A c \in Blocks : phys_first_block <= c
  BY DEF IInv, TypeOK, ListInv, Ends, FrontRegion
<1>3. /\ Link(0, phys_first_block, 0)
      /\ Start(region) < phys_first_block
      /\ phys_first_block # 0
      /\ phys_first_block' = Start(region)
      /\ phys_final_block' = phys_final_block
  BY DEF FrontRegion
<1> QED BY <1>1, <1>2, <1>3, InsertStep

\* A region goes between its neighbours on the list.
LEMMA InsertRegionInv == ASSUME IInv, InsertRegion PROVE IInv'
<1>1. entry \in 1 .. Len(mmap) /\ IsRegion(region) /\ Booting /\ cursor' = cursor /\ NextEntry
      /\ pc' = "prep"
  BY DEF IInv, TypeOK, InsertRegion, InsertInv, Booting
<1>2. /\ cursor \in Blocks /\ cursor \in Nat /\ cursor # 0 /\ cursor < Start(region)
      /\ \A c \in Blocks : c \in Nat
      /\ hdr[cursor].next \in Nat
  <2>1. HdrType
    BY DEF IInv, TypeOK, HdrType
  <2> QED BY <2>1, BlockFacts DEF IInv, InsertInv, InsertRegion
<1>3. Start(region) \in Nat /\ Start(region) \notin Blocks
  <2>1. entry \in Regions
    BY <1>1 DEF Regions, region
  <2>2. mmap \in Maps
    BY DEF IInv, TypeOK
  <2>3. /\ Start(mmap[entry]) \in Nat
        /\ \A i \in Regions : i # entry => Start(mmap[i]) # Start(mmap[entry])
    BY <2>1, <2>2, RegionFacts DEF HeaderSize
  <2>4. \A i \in Prepared : i \in Regions /\ i # entry
    BY <2>2, RegionFacts DEF Prepared, IInv, TypeOK
  <2>5. Blocks = Heads
    BY <1>1 DEF IInv, BootInv
  <2> QED BY <2>3, <2>4, <2>5 DEF Heads, region
<1>4. IF hdr[cursor].next = 0
        THEN \A c \in Blocks : c <= cursor
        ELSE /\ hdr[cursor].next \in Blocks
             /\ \A c \in Blocks : c <= cursor \/ hdr[cursor].next <= c
  BY <1>2 DEF IInv, ListInv, Sorted
<1>5. hdr[cursor].next # 0 => Start(region) < hdr[cursor].next
  BY <1>2, <1>3, <1>4 DEF InsertRegion, InsertGoesOn
<1>6. hdr[cursor].next = 0 <=> cursor = phys_final_block
  BY <1>2, BlockFacts DEF IInv, TypeOK, HdrType, ListInv, Sorted, Ends
<1>7. /\ Link(cursor, hdr[cursor].next, cursor)
      /\ phys_first_block' = phys_first_block
      /\ phys_final_block' = IF hdr[cursor].next = 0 THEN Start(region) ELSE phys_final_block
  BY <1>6 DEF InsertRegion
<1> QED BY <1>1, <1>2, <1>4, <1>5, <1>7, InsertStep

\* A step that only moves a loop on: the map, the list and what clients hold
\* stay, and nothing is being served before or after.
LEMMA LoopStep ==
  ASSUME IInv, UNCHANGED <<mmap, entry, list, asked, selected_block, owned>>,
         pc' \in {"insert", "kernel", "halted"}, Booting,
         cursor' \in Nat, InsertInv'
  PROVE  IInv'
<1>1. HdrType /\ ListInv
  BY DEF IInv, TypeOK, HdrType
<1>2. /\ ListInv' /\ HdrType' /\ Heads' = Heads /\ Prepared' = Prepared
      /\ Blocks' = Blocks /\ hdr' = hdr
  BY <1>1, ListFrame
<1>3. TypeOK'
  BY <1>2 DEF IInv, TypeOK, HdrType, list
<1>4. BootInv'
  BY <1>2 DEF IInv, BootInv, End, Start, Limit, Padding
<1>a. Blocks = Heads /\ owned = {}
  BY DEF IInv, BootInv
<1>b. KernelInv'
  BY <1>a, <1>2 DEF KernelInv, Serving
<1>5. KernelInv' /\ Accounted' /\ ScanInv'
  BY <1>a, <1>b DEF Accounted, OwnedBacked, NoStrayBlock, ScanInv, Serving
<1>6. BootEntries(mmap)' # {}
  BY DEF IInv, BootEntries
<1> QED BY <1>2, <1>3, <1>4, <1>5, <1>6 DEF IInv

\* The walk to the place of a region begins.
LEMMA StartInsertInv == ASSUME IInv, StartInsert PROVE IInv'
<1>1. phys_first_block \in Blocks /\ phys_first_block \in Nat
  BY DEF IInv, TypeOK, ListInv, Ends, StartInsert
<1>2. Start(region) \notin Blocks /\ Start(region) \in Nat
  <2>1. entry \in Regions
    BY DEF Regions, region, StartInsert, IInv, TypeOK
  <2>2. mmap \in Maps
    BY DEF IInv, TypeOK
  <2>3. /\ Start(mmap[entry]) \in Nat
        /\ \A i \in Regions : i # entry => Start(mmap[i]) # Start(mmap[entry])
    BY <2>1, <2>2, RegionFacts DEF HeaderSize
  <2>4. \A i \in Prepared : i \in Regions /\ i # entry
    BY <2>2, RegionFacts DEF Prepared, IInv, TypeOK
  <2>5. Blocks = Heads
    BY DEF IInv, BootInv, Booting, StartInsert
  <2> QED BY <2>3, <2>4, <2>5 DEF Heads, region
<1>3. InsertInv'
  BY <1>1, <1>2 DEF StartInsert, InsertInv, Blocks, Start, Padding, IsRegion, region, list
<1> QED BY <1>1, <1>3, LoopStep DEF StartInsert, Booting

\* It passes a block that lies below the region.
LEMMA InsertWalkInv == ASSUME IInv, InsertWalk PROVE IInv'
<1>1. hdr[cursor].next \in Blocks /\ hdr[cursor].next \in Nat
  BY BlockFacts DEF IInv, TypeOK, HdrType, ListInv, Sorted, InsertInv, InsertWalk, InsertGoesOn
<1>2. InsertInv'
  BY <1>1 DEF IInv, InsertWalk, InsertGoesOn, InsertInv, Blocks, Start, Padding, IsRegion,
              region, list
<1> QED BY <1>1, <1>2, LoopStep DEF InsertWalk, Booting

\* All regions are on the list.
LEMMA EndOfMapInv == ASSUME IInv, EndOfMap PROVE IInv'
<1>1. phys_first_block \in Blocks \cup {0} /\ phys_first_block \in Nat
  BY DEF IInv, TypeOK, ListInv, Ends
<1>2. entry = Len(mmap) + 1
  BY RegionFacts DEF IInv, TypeOK, EndOfMap
<1>3. InsertInv'
  BY <1>1, <1>2 DEF EndOfMap, InsertInv, Blocks, list
<1> QED BY <1>1, <1>3, LoopStep DEF EndOfMap, Booting

\* The search for the region of the kernel passes a block.
LEMMA KernelWalkInv == ASSUME IInv, KernelWalk PROVE IInv'
<1>1. hdr[cursor].next \in Blocks \cup {0} /\ hdr[cursor].next \in Nat
  BY BlockFacts DEF IInv, TypeOK, HdrType, ListInv, Sorted, InsertInv, KernelWalk
<1>2. InsertInv'
  BY <1>1 DEF IInv, KernelWalk, InsertInv, Blocks, list
<1> QED BY <1>1, <1>2, LoopStep DEF KernelWalk, Booting

\* It is not found.
LEMMA KernelMisplacedInv == ASSUME IInv, KernelMisplaced PROVE IInv'
<1>1. InsertInv'
  BY DEF IInv, KernelMisplaced, InsertInv
<1> QED BY <1>1, LoopStep DEF KernelMisplaced, Booting, IInv, TypeOK

\* prep_mem reserves the kernel image inside the region the boot loader picked.
LEMMA PlaceKernelInv == ASSUME RoomForKernel, IInv, PlaceKernel PROVE IInv'
<1> DEFINE k == KernelEntry(mmap)
<1>1. /\ mmap \in Maps /\ HdrType /\ ListInv /\ Blocks = Heads
      /\ Prepared \subseteq Regions
      /\ \A i \in Prepared : /\ hdr[Start(mmap[i])].size = 0
                            /\ End(Start(mmap[i])) = Limit(mmap[i])
      /\ KernelSize \in Nat /\ BootOffset < KernelSize
  BY SizeAssumption DEF IInv, TypeOK, HdrType, BootInv, Booting, PlaceKernel, Prepared
<1>2. /\ k \in 1 .. Len(mmap) /\ mmap[k] \in Entry /\ mmap[k].usable
      /\ HeaderSize + KernelSize <= mmap[k].length
  <2>1. k \in BootEntries(mmap)
    BY <1>1, KernelEntryFacts DEF IInv
  <2>2. mmap \in Seq(Entry)
    BY <1>1, MapAssumption
  <2> QED BY <2>1, <2>2, <1>1 DEF BootEntries, RoomForKernel, IInv
<1>3. mmap[k].address \in Nat /\ mmap[k].length \in Nat
  BY <1>2 DEF Entry
<1>4. cursor \in Blocks /\ cursor \in Nat /\ cursor = mmap[k].address
  <2>1. cursor \in Nat
    BY DEF IInv, TypeOK
  <2>2. cursor + 2 * HeaderSize = mmap[k].address + BootOffset
    BY DEF PlaceKernel, HoldsKernel, kernel
  <2> QED BY <2>1, <2>2, <1>3 DEF IInv, InsertInv, PlaceKernel, HeaderSize, BootOffset
<1>5. PICK i \in Prepared : cursor = Start(mmap[i])
  BY <1>1, <1>4 DEF Heads
<1>6. i = k
  <2> SUFFICES ASSUME i # k PROVE FALSE
    OBVIOUS
  <2>1. /\ i \in 1 .. Len(mmap) /\ mmap[i] \in Entry /\ mmap[i].usable
        /\ Start(mmap[i]) + HeaderSize < Limit(mmap[i])
    BY <1>1, RegionFacts DEF Regions, IsRegion
  <2>2. mmap[i].address \in Nat /\ mmap[i].length \in Nat
    BY <2>1 DEF Entry
  <2>3. Padding(mmap[i]) \in Nat
    BY <2>2 DEF Padding
  <2>4. \/ mmap[i].address + mmap[i].length <= mmap[k].address
        \/ mmap[k].address + mmap[k].length <= mmap[i].address
    BY <2>1, <1>1, <1>2, MapAssumption
  <2>5. mmap[i].address <= mmap[k].address /\ mmap[k].address < mmap[i].address + mmap[i].length
    BY <2>1, <2>2, <2>3, <1>3, <1>4, <1>5 DEF Start, Limit, HeaderSize
  <2> QED BY <2>2, <2>4, <2>5, <1>1, <1>2, <1>3 DEF BootOffset, HeaderSize
<1>7. /\ hdr[cursor].size = 0 /\ hdr[cursor].free \in Nat
      /\ End(cursor) = mmap[k].address + mmap[k].length
  BY <1>1, <1>4, <1>5, <1>6, BlockFacts DEF Limit
<1>8. KernelSize <= hdr[cursor].free
  <2>1. cursor + HeaderSize + hdr[cursor].free = mmap[k].address + mmap[k].length
    BY <1>4, <1>7 DEF End, HeaderSize
  <2>2. PICK f \in Nat, len \in Nat, a \in Nat :
          f = hdr[cursor].free /\ len = mmap[k].length /\ a = mmap[k].address
    BY <1>3, <1>7
  <2>3. a + HeaderSize + f = a + len /\ HeaderSize + KernelSize <= len
    BY <2>1, <2>2, <1>2, <1>4
  <2> QED BY <2>2, <2>3, <1>1 DEF HeaderSize
<1>9. HeaderSize <= KernelSize
  BY <1>1 DEF HeaderSize, BootOffset
<1>10. MakeNewBlock(KernelSize, cursor)
  BY DEF PlaceKernel
<1>11. /\ RunStart(cursor) \notin Blocks
       /\ CarveAt(KernelSize, cursor)
       /\ HdrType'
  BY <1>1, <1>4, <1>8, <1>9, <1>10, CarveEffect
<1>12. UNCHANGED <<mmap, entry, cursor, asked, selected_block, owned>> /\ pc' = "ready"
  BY DEF PlaceKernel
<1>13. ListInv' /\ Heads' = Heads /\ RunStart(cursor) \notin Heads
  BY <1>1, <1>4, <1>8, <1>9, <1>11, <1>12, CarveListInv
<1>14. KernelBlock = RunStart(cursor)
  BY <1>1, <1>3, <1>4, <1>7 DEF KernelBlock, kernel, RunStart, HeaderSize, BootOffset
<1>15. Blocks' = Blocks \cup {KernelBlock}
  BY <1>11, <1>14 DEF CarveAt
<1>b. KernelBlock - HeaderSize \in Heads
  BY <1>1, <1>3, <1>4 DEF KernelBlock, kernel, HeaderSize, BootOffset
<1>16. KernelBlock' = KernelBlock
  BY <1>12 DEF KernelBlock, kernel
<1>17. hdr'[KernelBlock].size = KernelSize - HeaderSize
  BY <1>11, <1>14 DEF CarveAt
<1>18. phys_first_block' \in Nat /\ phys_final_block' \in Nat
  BY <1>1, <1>4, <1>11, BlockFacts DEF CarveAt, IInv, TypeOK
<1>19. TypeOK'
  BY <1>11, <1>12, <1>18 DEF TypeOK, HdrType, IInv
<1>20. BootInv' /\ InsertInv' /\ ScanInv'
  BY <1>12 DEF BootInv, Booting, InsertInv, ScanInv, IInv, PlaceKernel
<1>21. KernelInv'
  BY <1>12, <1>13, <1>14, <1>15, <1>16, <1>17, <1>b DEF KernelInv, KernelPlaced
<1>22. owned' = {}
  BY <1>12 DEF IInv, BootInv, Booting, PlaceKernel
<1>23. Accounted'
  BY <1>1, <1>13, <1>15, <1>16, <1>22 DEF Accounted, OwnedBacked, NoStrayBlock
<1>24. BootEntries(mmap)' # {}
  BY <1>12 DEF IInv, BootEntries
<1> QED BY <1>13, <1>19, <1>20, <1>21, <1>23, <1>24 DEF IInv

-----------------------------------------------------------------------------
(* phys_alloc and phys_free.                                               *)

\* A step of the scan only moves loop variables.
LEMMA ServeStep ==
  ASSUME IInv, UNCHANGED <<mmap, entry, list, owned>>, Serving,
         pc' \in {"ready", "scan", "halted"},
         cursor' \in Blocks \cup {0}, selected_block' \in Nat, asked' \in Nat, ScanInv'
  PROVE  IInv'
<1>1. HdrType /\ ListInv
  BY DEF IInv, TypeOK, HdrType
<1>2. /\ ListInv' /\ HdrType' /\ Heads' = Heads /\ Prepared' = Prepared
      /\ Blocks' = Blocks /\ hdr' = hdr
  BY <1>1, ListFrame
<1>3. cursor' \in Nat
  BY DEF IInv, TypeOK
<1>4. TypeOK'
  BY <1>2, <1>3 DEF IInv, TypeOK, HdrType, list
<1>5. KernelBlock' = KernelBlock
  BY DEF KernelBlock, kernel
<1>6. BootInv' /\ InsertInv'
  BY <1>2 DEF IInv, BootInv, InsertInv, Booting, Serving
<1>a. KernelPlaced
  BY DEF IInv, KernelInv
<1>7. KernelInv'
  <2>1. KernelPlaced'
    BY <1>a, <1>2, <1>5 DEF KernelPlaced
  <2> QED BY <2>1 DEF KernelInv
<1>8. Accounted'
  BY <1>2, <1>5 DEF IInv, Accounted, OwnedBacked, NoStrayBlock, BlockOf, Serving
<1>9. BootEntries(mmap)' # {}
  BY DEF IInv, BootEntries
<1> QED BY <1>2, <1>4, <1>6, <1>7, <1>8, <1>9 DEF IInv

\* A request is taken.
LEMMA PhysAllocInv == ASSUME IInv, NEW sz \in Requests, PhysAlloc(sz) PROVE IInv'
<1>1. /\ phys_first_block \in Blocks
      /\ \A c \in Blocks : phys_first_block <= c
      /\ \A c \in Blocks : c \in Nat /\ c # 0
  <2>1. Blocks # {}
    BY DEF IInv, KernelInv, KernelPlaced, Serving, PhysAlloc
  <2> QED BY <2>1 DEF IInv, TypeOK, ListInv, Ends
<1>2. sz \in Nat
  BY SizeAssumption
<1>3. Blocks' = Blocks
  BY DEF PhysAlloc, list, Blocks
<1>4. \A c \in Blocks' : ~ Scanned(c)'
  BY <1>1, <1>3 DEF PhysAlloc, Scanned
<1>5. ScanInv'
  BY <1>4 DEF ScanInv, PhysAlloc
<1> QED BY <1>1, <1>2, <1>5, ServeStep DEF PhysAlloc, Serving

\* The search compares one block more.
LEMMA ScanBlockInv == ASSUME IInv, ScanBlock PROVE IInv'
<1>1. /\ cursor \in Blocks /\ cursor # 0 /\ cursor \in Nat
      /\ \A c \in Blocks : c \in Nat /\ 0 < c /\ hdr[c].free \in Nat
      /\ hdr[cursor].next \in Blocks \cup {0}
  <2>1. HdrType
    BY DEF IInv, TypeOK, HdrType
  <2>2. cursor \in Blocks
    BY DEF IInv, InsertInv, ScanBlock
  <2> QED BY <2>1, <2>2, BlockFacts DEF IInv, ListInv, Sorted
<1>2. /\ Blocks' = Blocks /\ hdr' = hdr /\ asked' = asked /\ pc' = "scan"
      /\ cursor' = hdr[cursor].next
  BY DEF ScanBlock, Blocks, list
<1>3. \A b \in Blocks : Scanned(b)' <=> Scanned(b) \/ b = cursor
  <2>1. IF hdr[cursor].next = 0
          THEN \A c \in Blocks : c <= cursor
          ELSE /\ cursor < hdr[cursor].next
               /\ \A c \in Blocks : c <= cursor \/ hdr[cursor].next <= c
    BY <1>1 DEF IInv, ListInv, Sorted
  <2> TAKE b \in Blocks
  <2>2. b \in Nat /\ cursor \in Nat
    BY <1>1
  <2>3. CASE hdr[cursor].next = 0
    BY <2>1, <2>2, <2>3, <1>1, <1>2 DEF Scanned
  <2>4. CASE hdr[cursor].next # 0
    <3>1. hdr[cursor].next \in Nat
      BY <1>1
    <3>2. b < hdr[cursor].next <=> b < cursor \/ b = cursor
      BY <2>1, <2>2, <2>4, <3>1
    <3> QED BY <3>2, <2>4, <1>1, <1>2 DEF Scanned
  <2> QED BY <2>3, <2>4
<1>a. PICK d \in Blocks : d = cursor
  BY <1>1
<1>4. \A b : Fits(b)' = Fits(b)
  BY <1>2 DEF Fits, Need
<1>5. selected_block' \in {cursor, selected_block}
  BY DEF ScanBlock
<1>6. \A b \in Blocks : Scanned(b)' => hdr'[b].sound
  BY <1>2, <1>3 DEF IInv, ScanInv, ScanBlock
<1>7. /\ selected_block # 0 =>
           selected_block \in Blocks /\ Scanned(selected_block) /\ Fits(selected_block)
      /\ \A c \in Blocks : Scanned(c) /\ Fits(c) =>
           /\ selected_block # 0
           /\ \/ hdr[selected_block].free < hdr[c].free
              \/ hdr[selected_block].free = hdr[c].free /\ selected_block <= c
  BY DEF IInv, ScanInv, ScanBlock
<1>8. ~ Scanned(cursor) /\ \A b \in Blocks : Scanned(b) => b < cursor
  BY <1>1 DEF Scanned
<1>9. CASE Fits(cursor) /\ (selected_block = 0 \/ hdr[cursor].free < hdr[selected_block].free)
  <2>1. selected_block' = cursor
    BY <1>9 DEF ScanBlock
  <2>2. selected_block' \in Blocks /\ (Scanned(d)' /\ Fits(cursor))
    BY <2>1, <1>1, <1>3, <1>9, <1>a
  <2>3. \A c \in Blocks : Scanned(c)' /\ Fits(c) =>
           \/ hdr[cursor].free < hdr[c].free
           \/ hdr[cursor].free = hdr[c].free /\ cursor <= c
    <3> TAKE c \in Blocks
    <3> HAVE Scanned(c)' /\ Fits(c)
    <3>1. CASE c = cursor
      BY <3>1, <1>1
    <3>2. CASE Scanned(c)
      <4>1. selected_block # 0 /\ selected_block \in Blocks
        BY <3>2, <1>7
      <4>2. /\ hdr[selected_block].free \in Nat /\ hdr[c].free \in Nat
            /\ hdr[cursor].free \in Nat
        BY <4>1, <1>1
      <4>3. \/ hdr[selected_block].free < hdr[c].free
            \/ hdr[selected_block].free = hdr[c].free
        BY <3>2, <1>7
      <4> QED BY <4>1, <4>2, <4>3, <1>9
    <3> QED BY <3>1, <3>2, <1>3
  <2>4. Scanned(d)' <=> Scanned(selected_block)'
    BY <2>1, <1>a DEF Scanned
  <2>5. ScanInv'
    <3>1. Scanned(selected_block)' /\ Fits(selected_block)'
      BY <2>1, <2>2, <2>4, <1>2 DEF Fits, Need
    <3> QED BY <2>1, <2>2, <2>3, <3>1, <1>1, <1>2, <1>4, <1>6 DEF ScanInv
  <2> QED BY <2>1, <2>5, <1>1, <1>2, ServeStep DEF ScanBlock, Serving, IInv, TypeOK
<1>10. CASE ~ (Fits(cursor) /\ (selected_block = 0 \/ hdr[cursor].free < hdr[selected_block].free))
  <2>1. selected_block' = selected_block
    BY <1>10 DEF ScanBlock
  <2>2. selected_block # 0 =>
          /\ selected_block \in Blocks
          /\ Scanned(selected_block)'
          /\ Fits(selected_block)'
    <3>1. selected_block # 0 => selected_block \in Blocks /\ selected_block < cursor
      BY <1>7, <1>8
    <3> QED BY <3>1, <2>1, <1>1, <1>2, <1>3, <1>7 DEF Fits, Need, Scanned
  <2>3. \A c \in Blocks : Scanned(c)' /\ Fits(c) =>
           /\ selected_block # 0
           /\ \/ hdr[selected_block].free < hdr[c].free
              \/ hdr[selected_block].free = hdr[c].free /\ selected_block <= c
    <3> TAKE c \in Blocks
    <3> HAVE Scanned(c)' /\ Fits(c)
    <3>1. CASE c = cursor
      <4>1. selected_block # 0 /\ ~ (hdr[c].free < hdr[selected_block].free)
        BY <3>1, <1>10
      <4>2. selected_block \in Blocks /\ selected_block < c
        BY <3>1, <4>1, <1>7, <1>8
      <4> QED BY <4>1, <4>2, <1>1
    <3>2. CASE Scanned(c)
      BY <3>2, <1>7
    <3> QED BY <3>1, <3>2, <1>3
  <2>4. ScanInv'
    BY <2>1, <2>2, <2>3, <1>2, <1>4, <1>6 DEF ScanInv
  <2> QED BY <2>1, <2>4, <1>1, <1>2, ServeStep DEF ScanBlock, Serving, IInv, TypeOK
<1> QED BY <1>9, <1>10

\* The end of the search answers with what it found.
LEMMA ScanEndsInv ==
  ASSUME IInv, ScanPanic \/ AllocFails
  PROVE  IInv'
<1>1. ScanInv' /\ Serving /\ pc' \in {"ready", "halted"}
  BY DEF ScanPanic, AllocFails, ScanInv, Serving
<1>2. cursor' \in Blocks \cup {0} /\ selected_block' \in Nat /\ asked' \in Nat
  BY DEF IInv, InsertInv, TypeOK, ScanPanic, AllocFails
<1> QED BY <1>1, <1>2, ServeStep DEF ScanPanic, AllocFails

\* A request is rounded up, to a multiple of 16.
LEMMA RoundedFacts ==
  ASSUME NEW sz \in Nat
  PROVE  Rounded(sz) \in Nat /\ sz <= Rounded(sz) /\ Rounded(sz) % 16 = 0
BY DEF Rounded

\* The block found is split, and the range handed out.
LEMMA AllocSucceedsInv == ASSUME IInv, AllocSucceeds PROVE IInv'
<1>1. /\ mmap \in Maps /\ HdrType /\ ListInv
      /\ selected_block \in Blocks /\ Fits(selected_block)
      /\ asked \in Nat
  BY DEF IInv, TypeOK, HdrType, ScanInv, AllocSucceeds
<1>2. PICK s \in Blocks : s = selected_block
  BY <1>1
<1>3. PICK size \in Nat : size = Need /\ HeaderSize <= size /\ asked <= size - HeaderSize
  BY <1>1, RoundedFacts DEF Need, HeaderSize
<1>4. size <= hdr[s].free /\ MakeNewBlock(size, s)
  BY <1>1, <1>2, <1>3, BlockFacts DEF Fits, AllocSucceeds
<1>5. PICK R \in Nat : R = RunStart(s)
  BY <1>1, <1>2, BlockFacts
<1>6. R \notin Blocks /\ CarveAt(size, s) /\ HdrType'
  BY <1>1, <1>3, <1>4, <1>5, CarveEffect
<1>7. UNCHANGED <<mmap, entry, cursor, asked, selected_block>> /\ pc' = "ready"
  BY DEF AllocSucceeds
<1>8. ListInv' /\ Heads' = Heads /\ R \notin Heads
  BY <1>1, <1>3, <1>4, <1>5, <1>6, <1>7, CarveListInv
<1>9. /\ Blocks' = Blocks \cup {R}
      /\ hdr'[R].size = size - HeaderSize
  BY <1>5, <1>6 DEF CarveAt
<1>10. \A b \in Blocks : hdr'[b].size = hdr[b].size
  BY <1>1, <1>3, <1>4, <1>5, <1>6, CarveFields
<1>11. KernelBlock' = KernelBlock /\ KernelBlock \in Blocks \ Heads
       /\ KernelBlock - HeaderSize \in Heads
       /\ hdr[KernelBlock].size = KernelSize - HeaderSize
  BY <1>7 DEF KernelBlock, kernel, IInv, KernelInv, KernelPlaced, Serving, AllocSucceeds
<1>12. PICK r : r = [addr |-> R + HeaderSize, len |-> asked]
  OBVIOUS
<1>13. owned' = owned \cup {r} /\ BlockOf(r) = R /\ r \in [addr : Nat, len : Nat] /\ r.len = asked
  <2>1. hdr[s].size \in Nat /\ s \in Nat
    BY <1>1, BlockFacts
  <2>2. R + HeaderSize = selected_block + hdr[selected_block].size + 2 * HeaderSize
    BY <2>1, <1>2, <1>5 DEF RunStart, HeaderSize
  <2>3. R + HeaderSize \in Nat
    BY <1>5 DEF HeaderSize
  <2>4. r.addr = R + HeaderSize /\ r.len = asked /\ r \in [addr : Nat, len : Nat]
    BY <2>3, <1>1, <1>12
  <2>5. BlockOf(r) = R
    BY <2>4, <1>5 DEF BlockOf, HeaderSize
  <2>6. owned' = owned \cup
          {[addr |-> selected_block + hdr[selected_block].size + 2 * HeaderSize, len |-> asked]}
    BY DEF AllocSucceeds
  <2> QED BY <2>2, <2>4, <2>5, <2>6, <1>12
<1>14. TypeOK'
  <2>1. phys_first_block' \in Nat /\ phys_final_block' \in Nat
    BY <1>5, <1>6 DEF CarveAt, IInv, TypeOK
  <2>2. owned' \subseteq [addr : Nat, len : Nat]
    BY <1>13 DEF IInv, TypeOK
  <2> QED BY <2>1, <2>2, <1>6, <1>7 DEF TypeOK, HdrType, IInv
<1>15. BootInv' /\ InsertInv' /\ ScanInv'
  BY <1>7 DEF BootInv, Booting, InsertInv, ScanInv, IInv, AllocSucceeds
<1>16. KernelInv'
  BY <1>7, <1>8, <1>9, <1>10, <1>11 DEF KernelInv, KernelPlaced
<1>17. OwnedBacked'
  <2>1. \A o : BlockOf(o)' = BlockOf(o)
    BY DEF BlockOf
  <2>2. \A o \in owned : /\ BlockOf(o) \in Blocks /\ BlockOf(o) # R
                        /\ BlockOf(o) \notin Heads \cup {KernelBlock}
                        /\ o.len <= hdr[BlockOf(o)].size
                        /\ \A q \in owned : q # o => BlockOf(q) # BlockOf(o)
    BY <1>6 DEF IInv, Accounted, OwnedBacked
  <2>3. BlockOf(r) \in Blocks' /\ BlockOf(r) \notin Heads \cup {KernelBlock}
        /\ r.len <= hdr'[BlockOf(r)].size
    BY <1>3, <1>6, <1>8, <1>9, <1>11, <1>13
  <2>4. ASSUME NEW o \in owned'
        PROVE  /\ BlockOf(o) \in Blocks' /\ BlockOf(o) \notin Heads \cup {KernelBlock}
               /\ o.len <= hdr'[BlockOf(o)].size
               /\ \A q \in owned' : q # o => BlockOf(q) # BlockOf(o)
    BY <2>2, <2>3, <1>9, <1>10, <1>13
  <2> QED BY <2>1, <2>4, <1>8, <1>11 DEF OwnedBacked
<1>18. NoStrayBlock'
  <2>1. Blocks = Heads \cup {KernelBlock} \cup {BlockOf(o) : o \in owned}
    BY DEF IInv, Accounted, NoStrayBlock, Serving, AllocSucceeds
  <2>2. {BlockOf(o) : o \in owned'} = {BlockOf(o) : o \in owned} \cup {R}
    BY <1>13
  <2> QED BY <2>1, <2>2, <1>8, <1>9, <1>11 DEF NoStrayBlock, BlockOf
<1>19. BootEntries(mmap)' # {}
  BY <1>7 DEF IInv, BootEntries
<1> QED BY <1>8, <1>14, <1>15, <1>16, <1>17, <1>18, <1>19 DEF IInv, Accounted

\* The neighbours of a block given back are merged with it.
LEMMA PhysFreeInv == ASSUME IInv, NEW o \in owned, PhysFree(o) PROVE IInv'
<1>1. /\ mmap \in Maps /\ HdrType /\ ListInv
  BY DEF IInv, TypeOK, HdrType
<1>2. PICK b \in Blocks \ Heads : b = BlockOf(o) /\ b # KernelBlock
  BY DEF IInv, Accounted, OwnedBacked
<1>3. FreeAt(b)
  BY <1>2 DEF PhysFree, FreeAt
<1>4. /\ UNCHANGED <<mmap, entry, cursor, asked, selected_block>>
      /\ pc = "ready" /\ pc' = "ready" /\ owned' = owned \ {o}
  BY DEF PhysFree
<1>5. ListInv' /\ Heads' = Heads
  BY <1>1, <1>2, <1>3, <1>4, FreeListInv
<1>6. /\ Blocks' = Blocks \ {b} /\ HdrType'
      /\ \A c \in Blocks' : hdr'[c].size = hdr[c].size
  BY <1>1, <1>2, <1>3, FreeFields
<1>7. KernelBlock' = KernelBlock /\ KernelBlock \in Blocks \ Heads
       /\ KernelBlock - HeaderSize \in Heads
      /\ hdr[KernelBlock].size = KernelSize - HeaderSize
  BY <1>4 DEF KernelBlock, kernel, IInv, KernelInv, KernelPlaced, Serving
<1>8. TypeOK'
  <2>1. hdr[b].prev \in Nat
    BY <1>1, <1>2, BlockFacts
  <2>2. phys_first_block' \in Nat /\ phys_final_block' \in Nat
    BY <2>1, <1>3 DEF FreeAt, IInv, TypeOK
  <2> QED BY <2>2, <1>4, <1>6 DEF TypeOK, HdrType, IInv
<1>9. BootInv' /\ InsertInv' /\ ScanInv'
  BY <1>4 DEF BootInv, Booting, InsertInv, ScanInv, IInv
<1>10. KernelInv'
  BY <1>2, <1>4, <1>5, <1>6, <1>7 DEF KernelInv, KernelPlaced
<1>11. \A q \in owned : /\ BlockOf(q) \in Blocks
                        /\ BlockOf(q) \notin Heads \cup {KernelBlock}
                        /\ q.len <= hdr[BlockOf(q)].size
                        /\ \A r \in owned : r # q => BlockOf(r) # BlockOf(q)
  BY DEF IInv, Accounted, OwnedBacked
<1>12. OwnedBacked'
  <2>1. \A q : BlockOf(q)' = BlockOf(q)
    BY DEF BlockOf
  <2>2. ASSUME NEW q \in owned'
        PROVE  /\ BlockOf(q) \in Blocks' /\ BlockOf(q) \notin Heads \cup {KernelBlock}
               /\ q.len <= hdr'[BlockOf(q)].size
               /\ \A r \in owned' : r # q => BlockOf(r) # BlockOf(q)
    BY <1>2, <1>4, <1>6, <1>11
  <2> QED BY <2>1, <2>2, <1>5, <1>7 DEF OwnedBacked
<1>13. NoStrayBlock'
  <2>1. Blocks = Heads \cup {KernelBlock} \cup {BlockOf(q) : q \in owned}
    BY <1>4 DEF IInv, Accounted, NoStrayBlock, Serving
  <2>2. {BlockOf(q) : q \in owned'} = {BlockOf(q) : q \in owned} \ {b}
    BY <1>2, <1>4, <1>11
  <2> QED BY <2>1, <2>2, <1>2, <1>5, <1>6, <1>7 DEF NoStrayBlock, BlockOf
<1>14. BootEntries(mmap)' # {}
  BY <1>4 DEF IInv, BootEntries
<1> QED BY <1>5, <1>8, <1>9, <1>10, <1>12, <1>13, <1>14 DEF IInv, Accounted

\* A damaged neighbour stops the kernel.
LEMMA FreePanicInv == ASSUME IInv, NEW o \in owned, FreePanic(o) PROVE IInv'
<1>1. HdrType /\ ListInv
  BY DEF IInv, TypeOK, HdrType
<1>2. /\ ListInv' /\ HdrType' /\ Heads' = Heads /\ Blocks' = Blocks /\ hdr' = hdr
  BY <1>1, ListFrame DEF FreePanic
<1>3. TypeOK'
  BY <1>2 DEF IInv, TypeOK, HdrType, FreePanic, list
<1>4. KernelBlock' = KernelBlock
  BY DEF KernelBlock, kernel, FreePanic
<1>a. KernelPlaced
  BY DEF IInv, KernelInv, Serving, FreePanic
<1>b. KernelInv'
  <2>1. KernelPlaced'
    BY <1>a, <1>2, <1>4 DEF KernelPlaced
  <2> QED BY <2>1 DEF KernelInv
<1>5. BootInv' /\ InsertInv' /\ KernelInv' /\ ScanInv'
  BY <1>b DEF IInv, BootInv, InsertInv, ScanInv, Booting, FreePanic
<1>6. Accounted'
  BY <1>2, <1>4 DEF IInv, Accounted, OwnedBacked, NoStrayBlock, BlockOf, Serving, FreePanic
<1>7. BootEntries(mmap)' # {}
  BY DEF IInv, BootEntries, FreePanic
<1> QED BY <1>2, <1>3, <1>5, <1>6, <1>7 DEF IInv

\* Writing over a signature changes no link and no size: the list stays well formed.
LEMMA OverrunInv == ASSUME IInv, NEW o \in owned, Overrun(o) PROVE IInv'
<1>1. HdrType /\ ListInv
  BY DEF IInv, TypeOK, HdrType
<1>2. PICK e \in Blocks : hdr' = [hdr EXCEPT ![e].sound = FALSE]
  BY DEF Overrun
<1>3. /\ pc = "ready"
      /\ UNCHANGED <<mmap, pc, entry, cursor, phys_first_block, phys_final_block,
                     asked, selected_block, owned>>
  BY DEF Overrun
<1>4. Heads' = Heads /\ Prepared' = Prepared /\ KernelBlock' = KernelBlock
  BY <1>3 DEF Heads, Prepared, Regions, KernelBlock, kernel
<1>5. Blocks' = Blocks
  BY <1>2 DEF Blocks
<1>6. ASSUME NEW c \in Blocks
      PROVE  /\ hdr'[c].next = hdr[c].next /\ hdr'[c].prev = hdr[c].prev
             /\ hdr'[c].size = hdr[c].size /\ hdr'[c].free = hdr[c].free
             /\ hdr'[c] \in Block
  <2>1. hdr[c] \in Block
    BY <1>1 DEF HdrType
  <2>2. hdr'[c] = IF c = e THEN [hdr[c] EXCEPT !.sound = FALSE] ELSE hdr[c]
    BY <1>2 DEF Blocks
  <2> QED BY <2>1, <2>2 DEF Block
<1>7. \A c \in Blocks : End(c)' = End(c)
  BY <1>6 DEF End
<1>8. HdrType'
  <2>1. hdr' = [c \in Blocks' |-> hdr'[c]]
    BY <1>2, <1>5 DEF Blocks
  <2> QED BY <2>1, <1>1, <1>5, <1>6 DEF HdrType
<1>9. Sorted' /\ Ends'
  BY <1>1, <1>3, <1>5, <1>6 DEF ListInv, Sorted, Ends
<1>10. BlocksApart'
  BY <1>1, <1>5, <1>7 DEF ListInv, BlocksApart
<1>11. Contained'
  BY <1>1, <1>3, <1>4, <1>5, <1>7 DEF ListInv, Contained, Start, Limit, Padding
<1>12. HeadsListed'
  BY <1>1, <1>4, <1>5 DEF ListInv, HeadsListed
<1>13. Follows'
  <2>1. ASSUME NEW b \in Blocks \ Heads
        PROVE  /\ hdr'[b].prev \in Blocks'
               /\ hdr'[hdr'[b].prev].next = b
               /\ End(hdr[b].prev)' = b
    <3>1. /\ hdr[b].prev \in Blocks
          /\ hdr[hdr[b].prev].next = b
          /\ End(hdr[b].prev) = b
      BY <1>1 DEF ListInv, Follows
    <3>2. PICK p \in Blocks : p = hdr[b].prev /\ p = hdr'[b].prev
      BY <3>1, <1>6
    <3>3. End(p)' = b
      BY <3>1, <3>2, <1>7
    <3> QED BY <3>1, <3>2, <3>3, <1>5, <1>6 DEF End
  <2> QED BY <2>1, <1>4, <1>5 DEF Follows
<1>14. RegionTail'
  BY <1>1, <1>3, <1>4, <1>5, <1>6, <1>7 DEF ListInv, RegionTail, Start, Limit, Padding
<1>15. ListInv'
  BY <1>9, <1>10, <1>11, <1>12, <1>13, <1>14 DEF ListInv
<1>16. TypeOK'
  BY <1>3, <1>8 DEF IInv, TypeOK, HdrType
<1>17. BootInv' /\ InsertInv' /\ ScanInv'
  BY <1>3 DEF IInv, BootInv, InsertInv, ScanInv, Booting
<1>18. KernelInv'
  BY <1>3, <1>4, <1>5, <1>6 DEF IInv, KernelInv, KernelPlaced, Serving
<1>19. Accounted'
  BY <1>3, <1>4, <1>5, <1>6 DEF IInv, Accounted, OwnedBacked, NoStrayBlock, BlockOf, Serving
<1>20. BootEntries(mmap)' # {}
  BY <1>3 DEF IInv, BootEntries
<1> QED BY <1>15, <1>16, <1>17, <1>18, <1>19, <1>20 DEF IInv

-----------------------------------------------------------------------------
(* Theorems.                                                               *)

\* The invariant speaks about the variables only.
LEMMA StutterInv == ASSUME IInv, UNCHANGED vars PROVE IInv'
<1>1. HdrType /\ ListInv
  BY DEF IInv, TypeOK, HdrType
<1>2. /\ ListInv' /\ Heads' = Heads /\ Prepared' = Prepared /\ Blocks' = Blocks /\ hdr' = hdr
  BY <1>1, ListFrame DEF vars, list
<1>3. TypeOK'
  BY <1>2 DEF IInv, TypeOK, vars
<1>4. KernelBlock' = KernelBlock
  BY DEF KernelBlock, kernel, vars
<1>5. BootInv' /\ InsertInv' /\ KernelInv'
  BY <1>2, <1>4 DEF IInv, BootInv, InsertInv, KernelInv, KernelPlaced, Booting, Serving, vars, End, Start, Limit,
                    Padding, IsRegion, region
<1>6. ScanInv'
  BY <1>2 DEF IInv, ScanInv, Scanned, Fits, Need, vars
<1>7. Accounted'
  BY <1>2, <1>4 DEF IInv, Accounted, OwnedBacked, NoStrayBlock, BlockOf, Serving, vars
<1>8. BootEntries(mmap)' # {}
  BY DEF IInv, BootEntries, vars
<1> QED BY <1>2, <1>3, <1>5, <1>6, <1>7, <1>8 DEF IInv

\* Every step of prep_mem, phys_alloc, phys_free or of a careless client keeps the
\* invariant.
LEMMA NextInv == ASSUME RoomForKernel, IInv, [Next]_vars PROVE IInv'
<1>1. CASE Prepare
  BY <1>1, SkipEntryInv, FirstRegionInv, FrontRegionInv, StartInsertInv, InsertWalkInv,
     InsertRegionInv, EndOfMapInv, KernelWalkInv, KernelMisplacedInv, PlaceKernelInv DEF Prepare
<1>2. CASE Scan
  BY <1>2, ScanBlockInv, ScanEndsInv, AllocSucceedsInv DEF Scan
<1>3. CASE Client
  BY <1>3, PhysAllocInv, PhysFreeInv, FreePanicInv, OverrunInv DEF Client
<1>4. CASE UNCHANGED vars
  BY <1>4, StutterInv
<1> QED BY <1>1, <1>2, <1>3, <1>4 DEF Next

\* If the region the boot loader picked also holds its own header, the list is well
\* formed, owns every byte once and backs every range a client holds, for ever.
THEOREM Invariance == RoomForKernel => (Spec => []IInv)
<1> SUFFICES ASSUME RoomForKernel PROVE Spec => []IInv
  OBVIOUS
<1>1. Init => IInv
  BY InitInv
<1>2. IInv /\ [Next]_vars => IInv'
  BY NextInv
<1> QED BY <1>1, <1>2, PTL DEF Spec

\* Types, for every map and every sequence of calls.
THEOREM TypeCorrect == RoomForKernel => (Spec => []TypeOK)
<1> SUFFICES ASSUME RoomForKernel PROVE Spec => []TypeOK
  OBVIOUS
<1>1. IInv => TypeOK
  BY DEF IInv
<1> QED BY <1>1, Invariance, PTL

\* No byte ever has two owners, and nothing a header accounts for lies outside its
\* region of the E820 map.
THEOREM NoOverlapAlways == RoomForKernel => (Spec => []NoOverlap)
<1> SUFFICES ASSUME RoomForKernel PROVE Spec => []NoOverlap
  OBVIOUS
<1>1. IInv => NoOverlap
  BY DEF IInv, ListInv, NoOverlap
<1> QED BY <1>1, Invariance, PTL

\* Every range a client holds has a block of its own, and the list holds no other
\* block but the regions' headers and the kernel's.
THEOREM AccountedAlways == RoomForKernel => (Spec => []Accounted)
<1> SUFFICES ASSUME RoomForKernel PROVE Spec => []Accounted
  OBVIOUS
<1>1. IInv => Accounted
  BY DEF IInv
<1> QED BY <1>1, Invariance, PTL

\* A block that starts inside a region is contained in that region.
LEMMA SameRegion ==
  ASSUME IInv, NEW i \in Regions, NEW b \in Blocks,
         Start(mmap[i]) <= b, b < Limit(mmap[i]),
         NEW j \in Prepared, Start(mmap[j]) <= b, b < Limit(mmap[j])
  PROVE  i = j
<1>1. mmap \in Maps /\ j \in Regions /\ b \in Nat
  BY DEF IInv, TypeOK, Prepared
<1> QED BY <1>1, RegionFacts

\* The invariant implies the properties that the runs check.
LEMMA TiledHolds == ASSUME IInv PROVE Tiled
<1> SUFFICES ASSUME Serving, NEW i \in Regions
             PROVE  /\ Start(mmap[i]) \in Blocks
                    /\ \A b \in Blocks :
                         Start(mmap[i]) <= b /\ b < Limit(mmap[i]) =>
                           \/ End(b) = Limit(mmap[i])
                           \/ /\ End(b) < Limit(mmap[i])
                              /\ hdr[b].next = End(b)
                              /\ hdr[End(b)].prev = b
  BY DEF Tiled
<1>1. /\ HdrType /\ mmap \in Maps
      /\ Sorted /\ BlocksApart /\ Contained /\ HeadsListed /\ Follows /\ RegionTail
  BY DEF IInv, TypeOK, HdrType, ListInv
<1>2. Prepared = Regions
  <2>1. entry = Len(mmap) + 1
    BY DEF IInv, InsertInv, Serving
  <2>2. Len(mmap) \in Nat /\ \A j \in Regions : j \in 1 .. Len(mmap)
    BY <1>1, RegionFacts
  <2> QED BY <2>1, <2>2 DEF Prepared
<1>3. Start(mmap[i]) \in Blocks
  BY <1>1, <1>2 DEF HeadsListed, Heads
<1>4. \A j \in Prepared : /\ Start(mmap[j]) \in Nat /\ Limit(mmap[j]) \in Nat
                         /\ Start(mmap[j]) \in Heads /\ Start(mmap[j]) \in Blocks
  BY <1>1, <1>2, RegionFacts DEF HeadsListed, Heads
<1>5. \A c \in Blocks : c \in Nat /\ 0 < c /\ End(c) \in Nat /\ c < End(c)
  BY <1>1, BlockFacts DEF HeaderSize
<1>6. ASSUME NEW b \in Blocks, Start(mmap[i]) <= b, b < Limit(mmap[i])
      PROVE  End(b) <= Limit(mmap[i])
  <2>1. PICK j \in Prepared : Start(mmap[j]) <= b /\ End(b) <= Limit(mmap[j])
    BY <1>1 DEF Contained
  <2>2. b < Limit(mmap[j])
    BY <2>1, <1>4, <1>5
  <2>3. i = j
    BY <1>6, <2>1, <2>2, SameRegion
  <2> QED BY <2>1, <2>3
<1>7. ASSUME NEW b \in Blocks, Start(mmap[i]) <= b, b < Limit(mmap[i])
      PROVE  \/ End(b) = Limit(mmap[i])
             \/ /\ End(b) < Limit(mmap[i])
                /\ hdr[b].next = End(b)
                /\ hdr[End(b)].prev = b
  <2>1. CASE hdr[b].next \in Heads \cup {0}
    <3>1. PICK j \in Prepared : Start(mmap[j]) <= b /\ End(b) = Limit(mmap[j])
      BY <2>1, <1>1 DEF RegionTail
    <3>2. b < Limit(mmap[j])
      BY <3>1, <1>4, <1>5
    <3>3. i = j
      BY <1>7, <3>1, <3>2, SameRegion
    <3> QED BY <3>1, <3>3
  <2>2. CASE hdr[b].next \notin Heads \cup {0}
    <3> DEFINE m == hdr[b].next
    <3>1. m \in Blocks \ Heads /\ b < m /\ \A c \in Blocks : c <= b \/ m <= c
      BY <2>2, <1>1 DEF Sorted
    <3>2. PICK p \in Blocks : p = hdr[m].prev /\ hdr[p].next = m /\ End(p) = m
      BY <3>1, <1>1 DEF Follows
    <3>3. p = b
      <4>1. p < m /\ \A c \in Blocks : c <= p \/ m <= c
        BY <3>2, <3>1, <1>1, <1>5 DEF Sorted
      <4> QED BY <4>1, <3>1, <1>5
    <3>4. End(b) = m /\ m <= Limit(mmap[i])
      BY <3>2, <3>3, <1>6, <1>7
    <3>5. m # Limit(mmap[i])
      <4> SUFFICES ASSUME m = Limit(mmap[i]) PROVE FALSE
        OBVIOUS
      <4>1. PICK j \in Prepared : Start(mmap[j]) <= m /\ End(m) <= Limit(mmap[j])
        BY <3>1, <1>1 DEF Contained
      <4>2. Start(mmap[j]) # m /\ Start(mmap[j]) \in Blocks
        BY <3>1, <1>4
      <4>3. Start(mmap[j]) <= b
        BY <4>1, <4>2, <3>1, <1>4, <1>5
      <4>4. b < Limit(mmap[j])
        BY <4>1, <3>1, <1>4, <1>5
      <4>5. i = j
        BY <4>3, <4>4, <1>7, SameRegion
      <4> QED BY <4>1, <4>5, <3>1, <1>4, <1>5
    <3>6. End(b) < Limit(mmap[i])
      BY <3>4, <3>5, <1>2, <1>4, <1>5
    <3> QED BY <3>2, <3>3, <3>4, <3>6
  <2> QED BY <2>1, <2>2
<1> QED BY <1>3, <1>7

\* No byte of a region is ever lost: its headers follow each other without a hole.
THEOREM TiledAlways == RoomForKernel => (Spec => []Tiled)
<1> SUFFICES ASSUME RoomForKernel PROVE Spec => []Tiled
  OBVIOUS
<1>1. IInv => Tiled
  BY TiledHolds
<1> QED BY <1>1, Invariance, PTL

-----------------------------------------------------------------------------
(* The kernel image, and the promise to clients.                           *)

\* The bytes of a range a client holds belong to its block.
LEMMA OwnedFacts ==
  ASSUME IInv, NEW o \in owned
  PROVE  /\ BlockOf(o) \in Blocks \ (Heads \cup {KernelBlock})
         /\ BlockOf(o) \in Nat
         /\ o.addr \in Nat /\ o.len \in Nat
         /\ o.addr = BlockOf(o) + HeaderSize
         /\ o.addr + o.len <= End(BlockOf(o))
<1>1. /\ BlockOf(o) \in Blocks \ (Heads \cup {KernelBlock})
      /\ o.len <= hdr[BlockOf(o)].size
  BY DEF IInv, Accounted, OwnedBacked
<1>2. o.addr \in Nat /\ o.len \in Nat
  BY DEF IInv, TypeOK
<1>3. PICK b \in Blocks : b = BlockOf(o)
  BY <1>1
<1>4. /\ b \in Nat /\ hdr[b].size \in Nat /\ hdr[b].free \in Nat
      /\ End(b) = b + HeaderSize + hdr[b].size + hdr[b].free
  BY BlockFacts DEF IInv, TypeOK, HdrType, End
<1>5. o.addr = b + HeaderSize
  BY <1>2, <1>3, <1>4 DEF BlockOf, HeaderSize
<1>6. o.addr + o.len <= End(b)
  BY <1>1, <1>2, <1>3, <1>4, <1>5 DEF HeaderSize
<1> QED BY <1>1, <1>2, <1>3, <1>4, <1>5, <1>6

\* The region of the kernel: type facts.
LEMMA KernelFacts ==
  ASSUME IInv
  PROVE  /\ KernelEntry(mmap) \in 1 .. Len(mmap)
         /\ mmap[KernelEntry(mmap)].usable
         /\ mmap[KernelEntry(mmap)].address \in Nat
         /\ mmap[KernelEntry(mmap)].length \in Nat
         /\ KernelSize <= mmap[KernelEntry(mmap)].length
         /\ kernel = mmap[KernelEntry(mmap)].address + BootOffset
         /\ kernel \in Nat
         /\ KernelBlock = kernel - HeaderSize
         /\ KernelSize \in Nat /\ BootOffset < KernelSize
<1>1. mmap \in Maps /\ BootEntries(mmap) # {}
  BY DEF IInv, TypeOK
<1>2. KernelEntry(mmap) \in BootEntries(mmap)
  BY <1>1, KernelEntryFacts
<1>3. mmap \in Seq(Entry)
  BY <1>1, MapAssumption
<1>4. KernelEntry(mmap) \in 1 .. Len(mmap) /\ mmap[KernelEntry(mmap)] \in Entry
  BY <1>2, <1>3 DEF BootEntries
<1>5. mmap[KernelEntry(mmap)].address \in Nat /\ mmap[KernelEntry(mmap)].length \in Nat
  BY <1>4 DEF Entry
<1> QED BY <1>2, <1>4, <1>5, SizeAssumption DEF BootEntries, kernel, KernelBlock, BootOffset

\* Once the kernel's block is on the list, every other block is off the image.
LEMMA BlocksOffImage ==
  ASSUME IInv, KernelPlaced, NEW b \in Blocks, b # KernelBlock
  PROVE  End(b) <= KernelBlock \/ KernelBlock + KernelSize <= b
<1>1. HdrType /\ BlocksApart
  BY DEF IInv, TypeOK, HdrType, ListInv
<1>2. PICK k \in Blocks : k = KernelBlock /\ hdr[k].size = KernelSize - HeaderSize
  BY DEF KernelPlaced
<1>3. /\ k \in Nat /\ End(k) \in Nat /\ hdr[k].free \in Nat
      /\ End(k) = k + HeaderSize + hdr[k].size + hdr[k].free
  BY <1>1, BlockFacts DEF End
<1>4. KernelSize \in Nat /\ k + KernelSize <= End(k)
  <2>1. KernelSize \in Nat
    BY KernelFacts
  <2> QED BY <2>1, <1>2, <1>3 DEF HeaderSize
<1>5. b \in Nat /\ End(b) \in Nat
  BY <1>1, BlockFacts
<1>6. b < k => End(b) <= k
  BY <1>1 DEF BlocksApart
<1>7. k < b => End(k) <= b
  BY <1>1 DEF BlocksApart
<1> QED BY <1>2, <1>3, <1>4, <1>5, <1>6, <1>7

\* During prep_mem the headers of all regions miss the image: the boot loader put
\* it 96 bytes into its own region.
LEMMA HeadsOffImage ==
  ASSUME IInv, NEW b \in Heads
  PROVE  b + HeaderSize <= kernel \/ ImageEnd <= b
<1> DEFINE k == KernelEntry(mmap)
<1>1. PICK i \in Regions : b = Start(mmap[i])
  BY DEF Heads, Prepared
<1>2. mmap \in Maps
  BY DEF IInv, TypeOK
<1>3. i \in 1 .. Len(mmap) /\ mmap[i] \in Entry /\ mmap[i].usable
  BY <1>2, RegionFacts DEF Regions, IsRegion
<1>4. mmap[i].address \in Nat /\ mmap[i].length \in Nat
  BY <1>3 DEF Entry
<1>5. Padding(mmap[i]) \in 0 .. 15
  BY <1>4 DEF Padding
<1>6. b = mmap[i].address + Padding(mmap[i])
      /\ HeaderSize + Padding(mmap[i]) < mmap[i].length
  BY <1>1 DEF Start, Regions, IsRegion
<1>a. /\ mmap[k].address \in Nat /\ mmap[k].length \in Nat
      /\ KernelSize <= mmap[k].length /\ KernelSize \in Nat
      /\ kernel = mmap[k].address + BootOffset
  BY KernelFacts
<1>b. b \in Nat
  BY <1>4, <1>5, <1>6
<1>7. CASE i = k
  <2>1. b = mmap[k].address + Padding(mmap[i])
    BY <1>6, <1>7
  <2>2. b + 48 <= mmap[k].address + 96
    BY <2>1, <1>5, <1>a, <1>b
  <2> QED BY <2>2, <1>a DEF HeaderSize, BootOffset
<1>8. CASE i # k
  <2>1. \/ mmap[i].address + mmap[i].length <= mmap[k].address
        \/ mmap[k].address + mmap[k].length <= mmap[i].address
    BY <1>2, <1>3, <1>8, KernelFacts, MapAssumption
  <2>2. ImageEnd = mmap[k].address + KernelSize
    BY <1>a DEF ImageEnd, BootOffset
  <2> QED BY <2>1, <2>2, <1>4, <1>5, <1>6, <1>a, <1>b DEF HeaderSize, BootOffset
<1> QED BY <1>7, <1>8

\* No block reaches into the image.
LEMMA ImageIntactHolds == ASSUME IInv PROVE ImageIntact
<1>1. CASE KernelPlaced
  <2>0. /\ kernel \in Nat /\ KernelBlock = kernel - HeaderSize /\ KernelBlock \in Nat
        /\ KernelSize \in Nat /\ BootOffset < KernelSize
    BY <1>1, KernelFacts DEF IInv, TypeOK, KernelPlaced
  <2>1. ASSUME NEW b \in Blocks
        PROVE  b + HeaderSize <= kernel \/ ImageEnd <= b
    <3>1. b \in Nat /\ End(b) \in Nat /\ b + HeaderSize <= End(b)
      BY BlockFacts DEF IInv, TypeOK, HdrType
    <3>2. CASE b = KernelBlock
      BY <3>2, <2>0 DEF HeaderSize
    <3>3. CASE b # KernelBlock
      <4>1. End(b) <= KernelBlock \/ KernelBlock + KernelSize <= b
        BY <3>3, <1>1, BlocksOffImage
      <4> QED BY <4>1, <3>1, <2>0 DEF HeaderSize, ImageEnd, BootOffset
    <3> QED BY <3>2, <3>3
  <2>2. ASSUME NEW o \in owned
        PROVE  o.addr + o.len <= kernel \/ ImageEnd <= o.addr
    <3>1. PICK b \in Blocks : /\ b = BlockOf(o) /\ b # KernelBlock /\ b \in Nat
                              /\ o.addr = b + HeaderSize /\ o.addr + o.len <= End(b)
                              /\ o.addr \in Nat /\ o.len \in Nat
      BY OwnedFacts
    <3>2. End(b) \in Nat
      BY BlockFacts DEF IInv, TypeOK, HdrType
    <3>3. End(b) <= KernelBlock \/ KernelBlock + KernelSize <= b
      BY <3>1, <1>1, BlocksOffImage
    <3> QED BY <3>1, <3>2, <3>3, <2>0 DEF HeaderSize, ImageEnd, BootOffset
  <2> QED BY <2>1, <2>2 DEF ImageIntact
<1>2. CASE Blocks = Heads /\ owned = {}
  BY <1>2, HeadsOffImage DEF ImageIntact
<1>3. KernelPlaced \/ (Blocks = Heads /\ owned = {})
  BY DEF IInv, TypeOK, KernelInv, BootInv, Booting, Serving
<1> QED BY <1>1, <1>2, <1>3

\* The kernel image is never overwritten by a header nor handed out.
THEOREM ImageIntactAlways == RoomForKernel => (Spec => []ImageIntact)
<1> SUFFICES ASSUME RoomForKernel PROVE Spec => []ImageIntact
  OBVIOUS
<1>1. IInv => ImageIntact
  BY ImageIntactHolds
<1> QED BY <1>1, Invariance, PTL

\* What IInv says of the ranges clients hold, in the words of the promise.
OwnedApart == \A o, q \in owned : o # q => Promise!Apart(o, q)
OwnedInArenas == \A o \in owned : \E a \in Arenas : Promise!Within(o, a)
OwnedOffImage == Serving => \A o \in owned : Promise!Apart(o, Image)

\* Ranges of different blocks are apart.
LEMMA OwnedApartHolds == ASSUME IInv PROVE OwnedApart
<1> SUFFICES ASSUME NEW o \in owned, NEW q \in owned, o # q PROVE Promise!Apart(o, q)
  BY DEF OwnedApart
<1>1. PICK b \in Blocks : /\ b = BlockOf(o) /\ b \in Nat
                          /\ o.addr = b + HeaderSize /\ o.addr + o.len <= End(b)
                          /\ o.addr \in Nat /\ o.len \in Nat
  BY OwnedFacts
<1>2. PICK c \in Blocks : /\ c = BlockOf(q) /\ c \in Nat
                          /\ q.addr = c + HeaderSize /\ q.addr + q.len <= End(c)
                          /\ q.addr \in Nat /\ q.len \in Nat
  BY OwnedFacts
<1>3. b # c
  BY <1>1, <1>2 DEF IInv, Accounted, OwnedBacked
<1>4. End(b) \in Nat /\ End(c) \in Nat /\ (b < c => End(b) <= c) /\ (c < b => End(c) <= b)
  BY BlockFacts DEF IInv, TypeOK, HdrType, ListInv, BlocksApart
<1> QED BY <1>1, <1>2, <1>3, <1>4 DEF Promise!Apart, HeaderSize

\* A range lies where its block does.
LEMMA OwnedInArenasHolds == ASSUME IInv PROVE OwnedInArenas
<1> SUFFICES ASSUME NEW o \in owned PROVE \E a \in Arenas : Promise!Within(o, a)
  BY DEF OwnedInArenas
<1>1. PICK b \in Blocks : /\ b \in Nat /\ o.addr = b + HeaderSize
                          /\ o.addr + o.len <= End(b)
                          /\ o.addr \in Nat /\ o.len \in Nat
  BY OwnedFacts
<1>2. PICK i \in Prepared : Start(mmap[i]) <= b /\ End(b) <= Limit(mmap[i])
  BY DEF IInv, ListInv, Contained
<1>3. /\ i \in Regions /\ Start(mmap[i]) \in Nat /\ Limit(mmap[i]) \in Nat
      /\ End(b) \in Nat
  BY RegionFacts, BlockFacts DEF Prepared, IInv, TypeOK, HdrType
<1> DEFINE a == [addr |-> Start(mmap[i]), len |-> Limit(mmap[i]) - Start(mmap[i])]
<1>4. a \in Arenas
  BY <1>3 DEF Arenas
<1>5. a.addr <= o.addr /\ o.addr + o.len <= a.addr + a.len
  BY <1>1, <1>2, <1>3 DEF HeaderSize
<1> QED BY <1>4, <1>5 DEF Promise!Within

\* No range reaches into the image.
LEMMA OwnedOffImageHolds == ASSUME IInv PROVE OwnedOffImage
<1> SUFFICES ASSUME Serving, NEW o \in owned PROVE Promise!Apart(o, Image)
  BY DEF OwnedOffImage
<1>1. PICK b \in Blocks : /\ b \in Nat /\ b # KernelBlock /\ o.addr = b + HeaderSize
                          /\ o.addr + o.len <= End(b)
                          /\ o.addr \in Nat /\ o.len \in Nat
  BY OwnedFacts
<1>2. /\ kernel \in Nat /\ KernelBlock = kernel - HeaderSize
      /\ KernelSize \in Nat /\ BootOffset < KernelSize
  BY KernelFacts
<1>3. End(b) \in Nat
  BY BlockFacts DEF IInv, TypeOK, HdrType
<1>4. KernelPlaced
  BY DEF IInv, KernelInv
<1>5. End(b) <= KernelBlock \/ KernelBlock + KernelSize <= b
  BY <1>1, <1>4, BlocksOffImage
<1>6. Image.addr = kernel /\ Image.len = KernelSize - BootOffset
  BY DEF Image
<1> QED BY <1>1, <1>2, <1>3, <1>5, <1>6 DEF Promise!Apart, HeaderSize, BootOffset

\* Every step is one of the promise, or changes nothing a client sees.
LEMMA PromiseStep ==
  ASSUME IInv, OwnedApart', OwnedInArenas', OwnedOffImage', [Next]_vars
  PROVE  [Promise!Next]_(Promise!promiseVars)
<1>1. ASSUME mmap' = mmap
      PROVE  Arenas' = Arenas /\ Image' = Image
  BY <1>1 DEF Arenas, Image, Regions, kernel, Start, Limit, Padding
<1>2. CASE AllocSucceeds
  <2>1. mmap' = mmap /\ pc' = "ready"
    BY <1>2 DEF AllocSucceeds
  <2>2. PICK r : owned' = owned \cup {r} /\ BlockOf(r) = RunStart(selected_block)
    <3>1. PICK s \in Blocks : s = selected_block /\ s \in Nat /\ hdr[s].size \in Nat
      BY <1>2, BlockFacts DEF IInv, TypeOK, HdrType, ScanInv, AllocSucceeds
    <3> DEFINE r == [addr |-> selected_block + hdr[selected_block].size + 2 * HeaderSize,
                     len |-> asked]
    <3>2. owned' = owned \cup {r}
      BY <1>2 DEF AllocSucceeds
    <3>3. r.addr = s + hdr[s].size + 2 * HeaderSize
      BY <3>1
    <3>4. BlockOf(r) = RunStart(selected_block)
      BY <3>1, <3>3 DEF BlockOf, RunStart, HeaderSize
    <3> QED BY <3>2, <3>4
  <2>3. r \notin owned
    <3>1. RunStart(selected_block) \notin Blocks
      <4>1. PICK s \in Blocks : s = selected_block /\ Fits(s)
        BY <1>2 DEF IInv, ScanInv, AllocSucceeds
      <4>2. HdrType /\ BlocksApart
        BY DEF IInv, TypeOK, HdrType, ListInv
      <4>3. /\ s \in Nat /\ RunStart(s) \in Nat /\ s < RunStart(s) /\ End(s) \in Nat
            /\ hdr[s].free \in Nat /\ RunStart(s) + hdr[s].free = End(s)
        BY <4>2, BlockFacts DEF HeaderSize
      <4>4. Need \in Nat /\ 0 < Need
        <5>1. asked \in Nat
          BY DEF IInv, TypeOK
        <5> QED BY <5>1, RoundedFacts DEF Need, HeaderSize
      <4>5. RunStart(s) < End(s)
        BY <4>1, <4>3, <4>4 DEF Fits
      <4> QED BY <4>1, <4>2, <4>3, <4>5 DEF BlocksApart
    <3> QED BY <2>2, <3>1, OwnedFacts
  <2>4. \A s \in owned : Promise!Apart(r, s)
    BY <2>2, <2>3 DEF OwnedApart, Promise!Apart
  <2>5. Promise!Apart(r, Image)
    BY <2>1, <2>2, <1>1 DEF OwnedOffImage, Serving, Promise!Apart
  <2>6. \E a \in Arenas : Promise!Within(r, a)
    BY <2>1, <2>2, <1>1 DEF OwnedInArenas, Promise!Within
  <2> QED BY <2>1, <2>2, <2>4, <2>5, <2>6, <1>1 DEF Promise!Next, Promise!Grant
<1>3. ASSUME NEW o \in owned, PhysFree(o)
      PROVE  Promise!Release
  BY <1>1, <1>3 DEF PhysFree, Promise!Release
<1>4. CASE UNCHANGED <<mmap, owned>>
  BY <1>1, <1>4 DEF Promise!promiseVars
<1>5. CASE Prepare
  BY <1>4, <1>5 DEF Prepare, SkipEntry, FirstRegion, FrontRegion, StartInsert, InsertWalk,
     InsertRegion, EndOfMap, KernelWalk, KernelMisplaced, PlaceKernel, NextEntry
<1>6. CASE ScanBlock \/ ScanPanic \/ AllocFails
  BY <1>4, <1>6 DEF ScanBlock, ScanPanic, AllocFails
<1>7. CASE Client
  BY <1>3, <1>4, <1>7 DEF Client, PhysAlloc, FreePanic, Overrun, Promise!Next
<1>8. CASE UNCHANGED vars
  BY <1>4, <1>8 DEF vars
<1> QED BY <1>2, <1>5, <1>6, <1>7, <1>8 DEF Next, Scan

\* phys_alloc and phys_free implement the abstract allocator: clients get ranges
\* apart from each other and from the kernel image, inside usable regions.
THEOREM Refinement == RoomForKernel => (Spec => PromiseKept)
<1> SUFFICES ASSUME RoomForKernel PROVE Spec => PromiseKept
  OBVIOUS
<1>1. Init => Promise!Init
  BY DEF Init, Promise!Init
<1>2. IInv => OwnedApart /\ OwnedInArenas /\ OwnedOffImage
  BY OwnedApartHolds, OwnedInArenasHolds, OwnedOffImageHolds
<1>3. /\ IInv /\ OwnedApart' /\ OwnedInArenas' /\ OwnedOffImage' /\ [Next]_vars
      => [Promise!Next]_(Promise!promiseVars)
  BY PromiseStep
<1> QED BY <1>1, <1>2, <1>3, Invariance, PTL DEF Spec, PromiseKept, Promise!Spec

\* phys_alloc takes the smallest free run that is large enough, and fails only if
\* there is none.
THEOREM BestFitAlways == RoomForKernel => (Spec => BestFit)
<1> SUFFICES ASSUME RoomForKernel PROVE Spec => BestFit
  OBVIOUS
<1> DEFINE Served ==
       pc = "scan" /\ pc' = "ready" =>
       IF owned' = owned
         THEN \A b \in Blocks : ~ Fits(b)
         ELSE \E b \in Blocks :
                /\ Fits(b)
                /\ \A c \in Blocks :
                     Fits(c) => \/ hdr[b].free < hdr[c].free
                                \/ hdr[b].free = hdr[c].free /\ b <= c
                /\ owned' = owned \cup
                     {[addr |-> End(b) - hdr[b].free + HeaderSize, len |-> asked]}
<1>1. ASSUME IInv, [Next]_vars PROVE Served
  <2> SUFFICES ASSUME pc = "scan", pc' = "ready" PROVE Served
    OBVIOUS
  <2>1. AllocFails \/ AllocSucceeds
    BY <1>1 DEF Next, Prepare, Scan, Client, SkipEntry, FirstRegion, FrontRegion, StartInsert,
       InsertWalk, InsertRegion, EndOfMap, KernelWalk, KernelMisplaced, PlaceKernel,
       ScanBlock, ScanPanic, PhysAlloc, PhysFree, FreePanic, Overrun, vars
  <2>2. \A b : Scanned(b)
    BY <2>1 DEF AllocFails, AllocSucceeds, Scanned
  <2>3. CASE AllocFails
    BY <1>1, <2>2, <2>3 DEF IInv, ScanInv, AllocFails
  <2>4. CASE AllocSucceeds
    <3>1. PICK s \in Blocks :
            /\ s = selected_block /\ Fits(s)
            /\ \A c \in Blocks :
                 Fits(c) => \/ hdr[s].free < hdr[c].free
                            \/ hdr[s].free = hdr[c].free /\ s <= c
      BY <1>1, <2>2, <2>4 DEF IInv, ScanInv, AllocSucceeds
    <3>2. /\ s \in Nat /\ hdr[s].size \in Nat /\ hdr[s].free \in Nat
          /\ End(s) = s + HeaderSize + hdr[s].size + hdr[s].free
      BY <1>1, BlockFacts DEF IInv, TypeOK, HdrType, End
    <3>3. End(s) - hdr[s].free + HeaderSize
            = selected_block + hdr[selected_block].size + 2 * HeaderSize
      BY <3>1, <3>2 DEF HeaderSize
    <3>4. owned' = owned \cup
            {[addr |-> End(s) - hdr[s].free + HeaderSize, len |-> asked]}
      BY <2>4, <3>3 DEF AllocSucceeds
    <3>5. owned' # owned
      <4> DEFINE r == [addr |-> End(s) - hdr[s].free + HeaderSize, len |-> asked]
      <4>1. BlockOf(r) = RunStart(s)
        BY <3>2 DEF BlockOf, RunStart, HeaderSize
      <4>2. Need \in Nat /\ 0 < Need
        <5>1. asked \in Nat
          BY <1>1 DEF IInv, TypeOK
        <5> QED BY <5>1, RoundedFacts DEF Need, HeaderSize
      <4>3. /\ RunStart(s) \in Nat /\ s < RunStart(s) /\ End(s) \in Nat
            /\ RunStart(s) < End(s)
        BY <3>1, <3>2, <4>2 DEF Fits, RunStart, HeaderSize
      <4>4. RunStart(s) \notin Blocks
        BY <1>1, <3>1, <3>2, <4>3 DEF IInv, ListInv, BlocksApart
      <4>5. r \notin owned
        BY <1>1, <4>1, <4>4, OwnedFacts
      <4> HIDE DEF r
      <4> QED BY <3>4, <4>5 DEF r
    <3> QED BY <3>1, <3>4, <3>5
  <2> QED BY <2>1, <2>3, <2>4
<1>2. [IInv /\ [Next]_vars => Served]_vars
  BY <1>1
<1> QED BY <1>1, Invariance, PTL DEF Spec, BestFit

-----------------------------------------------------------------------------
(* What is left when every range has been freed, and why the kernel stops. *)

\* The header of a region never comes to own bytes.
HeadsEmpty == \A h \in Heads : hdr[h].size = 0

\* The walk has not passed the region of the kernel.
NotPassed == pc = "kernel" => \A b \in Blocks : Scanned(b) => ~ HoldsKernel(b)

\* A block that phys_alloc carves, or prep_mem for the kernel, is not on the list yet,
\* and the other headers keep their size and their signatures.
LEMMA CarveKeeps ==
  ASSUME IInv, IInv', PlaceKernel \/ AllocSucceeds
  PROVE  /\ Heads' = Heads
         /\ Blocks \subseteq Blocks'
         /\ \A b \in Blocks : hdr'[b].size = hdr[b].size /\ hdr'[b].sound = hdr[b].sound
<1>1. Heads' = Heads
  BY DEF Heads, Prepared, Regions, Start, Padding, IsRegion, PlaceKernel, AllocSucceeds
<1>2. HdrType /\ ListInv
  BY DEF IInv, TypeOK, HdrType
<1>3. ASSUME NEW s \in Blocks, NEW size, MakeNewBlock(size, s),
             s + hdr[s].size + HeaderSize \notin Blocks
      PROVE  /\ Blocks \subseteq Blocks'
             /\ \A b \in Blocks : hdr'[b].size = hdr[b].size /\ hdr'[b].sound = hdr[b].sound
  <2>1. \A b \in Blocks : hdr[b] \in Block
    BY <1>2 DEF HdrType
  <2> QED
    BY <1>3, <2>1 DEF MakeNewBlock, Blocks, Block
<1>4. CASE PlaceKernel
  <2>1. cursor \in Blocks /\ MakeNewBlock(KernelSize, cursor)
    BY <1>4 DEF PlaceKernel, IInv, InsertInv
  <2>2. KernelBlock \notin Blocks
    <3>1. Blocks = Heads
      BY <1>4 DEF PlaceKernel, IInv, BootInv, Booting
    <3>2. KernelBlock' \notin Heads' /\ KernelBlock' = KernelBlock
      BY <1>4 DEF PlaceKernel, IInv, KernelInv, KernelPlaced, Serving, KernelBlock, kernel
    <3> QED
      BY <3>1, <3>2, <1>1
  <2>3. cursor + hdr[cursor].size + HeaderSize = KernelBlock
    <3>1. cursor \in Nat /\ hdr[cursor].size = 0
      BY <2>1, <1>2, BlockFacts, <1>4 DEF PlaceKernel, IInv, BootInv, Booting, Heads
    <3>2. cursor + 2 * HeaderSize = kernel
      BY <1>4 DEF PlaceKernel, HoldsKernel
    <3> QED
      BY <3>1, <3>2 DEF KernelBlock, HeaderSize
  <2> QED
    BY <1>3, <2>1, <2>2, <2>3, <1>1
<1>5. CASE AllocSucceeds
  <2>1. /\ selected_block \in Blocks /\ Fits(selected_block) /\ asked \in Nat
        /\ MakeNewBlock(Need, selected_block)
    BY <1>5 DEF IInv, TypeOK, ScanInv, AllocSucceeds
  <2>2. Need \in Nat /\ HeaderSize <= Need
    BY <2>1, RoundedFacts DEF Need, HeaderSize
  <2>3. RunStart(selected_block) \notin Blocks
    BY <1>2, <2>1, <2>2, CarveEffect DEF Fits
  <2>4. RunStart(selected_block) = selected_block + hdr[selected_block].size + HeaderSize
    BY <2>1, <1>2, BlockFacts DEF RunStart, HeaderSize
  <2> QED
    BY <1>3, <2>1, <2>3, <2>4, <1>1
<1> QED
  BY <1>4, <1>5

\* A block that is freed leaves the others their size and their signatures.
LEMMA FreeKeeps ==
  ASSUME IInv, NEW o \in owned, PhysFree(o)
  PROVE  /\ Heads' = Heads
         /\ Blocks' = Blocks \ {BlockOf(o)}
         /\ hdr[BlockOf(o)].sound
         /\ \A b \in Blocks' : hdr'[b].size = hdr[b].size /\ hdr'[b].sound = hdr[b].sound
<1>1. /\ mmap \in Maps /\ HdrType /\ ListInv
  BY DEF IInv, TypeOK, HdrType
<1>2. PICK b \in Blocks \ Heads : b = BlockOf(o)
  BY DEF IInv, Accounted, OwnedBacked
<1>3. FreeAt(b)
  BY <1>2 DEF PhysFree, FreeAt
<1>4. /\ Blocks' = Blocks \ {b}
      /\ \A c \in Blocks' : hdr'[c].sound = hdr[c].sound /\ hdr'[c].size = hdr[c].size
  BY <1>1, <1>2, <1>3, FreeFields
<1>5. Heads' = Heads
  BY DEF PhysFree, Heads, Prepared, Regions, Start, Padding, IsRegion
<1> QED
  BY <1>2, <1>4, <1>5 DEF PhysFree

\* The header of a region that prep_mem adds is not on the list yet.
LEMMA LinkKeeps ==
  ASSUME IInv, FirstRegion \/ FrontRegion \/ InsertRegion
  PROVE  \A b \in Blocks : b \in Blocks' /\ hdr'[b].sound = hdr[b].sound
<1>1. /\ mmap \in Maps /\ HdrType /\ Blocks = Heads /\ entry \in 1 .. Len(mmap)
      /\ IsRegion(region) /\ entry \in Regions
  BY DEF IInv, TypeOK, HdrType, BootInv, Booting, InsertInv, FirstRegion, FrontRegion,
         InsertRegion, Regions, region
<1>2. Start(region) \notin Blocks
  <2>1. ASSUME NEW i \in Prepared
        PROVE  Start(mmap[i]) # Start(region)
    <3>1. i \in Regions /\ i # entry
      BY <1>1 DEF Prepared, Regions
    <3> QED
      BY <3>1, <1>1, RegionFacts DEF region, HeaderSize
  <2> QED
    BY <2>1, <1>1 DEF Heads
<1>3. PICK before, next, prev : Link(before, next, prev)
  BY DEF FirstRegion, FrontRegion, InsertRegion
<1>4. \A b \in Blocks : hdr[b] \in Block
  BY <1>1 DEF HdrType
<1> QED
  BY <1>2, <1>3, <1>4 DEF Link, Blocks, Block

\* No step makes the header of a region own bytes.
LEMMA HeadsEmptyInv ==
  ASSUME IInv, IInv', HeadsEmpty, [Next]_vars
  PROVE  HeadsEmpty'
<1>1. CASE Booting'
  BY <1>1 DEF IInv, BootInv, HeadsEmpty, Heads
<1>2. CASE PlaceKernel \/ AllocSucceeds
  <2>1. Heads \subseteq Blocks
    BY DEF IInv, ListInv, HeadsListed
  <2> QED
    BY <1>2, <2>1, CarveKeeps DEF HeadsEmpty
<1>3. ASSUME NEW o \in owned, PhysFree(o)
      PROVE  HeadsEmpty'
  <2>1. Heads' \subseteq Blocks'
    BY DEF IInv, ListInv, HeadsListed
  <2> QED
    BY <1>3, <2>1, FreeKeeps DEF HeadsEmpty
<1>4. ASSUME NEW o \in owned, Overrun(o)
      PROVE  HeadsEmpty'
  <2>1. Heads' = Heads /\ Heads \subseteq Blocks
    BY <1>4 DEF Overrun, Heads, Prepared, Regions, Start, Padding, IsRegion, IInv, ListInv,
                HeadsListed
  <2>2. \A b \in Blocks : hdr[b] \in Block
    BY DEF IInv, TypeOK
  <2>3. \A b \in Blocks : hdr'[b].size = hdr[b].size
    BY <1>4, <2>2 DEF Overrun, Blocks, Block
  <2> QED
    BY <2>1, <2>3 DEF HeadsEmpty
<1>5. CASE UNCHANGED <<mmap, entry, hdr>>
  BY <1>5 DEF HeadsEmpty, Heads, Prepared, Regions, Start, Padding, IsRegion
<1>6. CASE Prepare
  <2>1. Booting' \/ PlaceKernel \/ KernelMisplaced
    BY <1>6 DEF Prepare, Booting, SkipEntry, FirstRegion, FrontRegion, StartInsert, InsertWalk,
                InsertRegion, EndOfMap, KernelWalk
  <2> QED
    BY <2>1, <1>1, <1>2, <1>5 DEF KernelMisplaced, list
<1>7. CASE Scan
  BY <1>7, <1>2, <1>5 DEF Scan, ScanBlock, ScanPanic, AllocFails, list
<1>8. CASE Client
  BY <1>8, <1>3, <1>4, <1>5 DEF Client, PhysAlloc, FreePanic, list
<1> QED
  BY <1>5, <1>6, <1>7, <1>8 DEF Next, vars

\* The walk for the region of the kernel looks at the blocks in the order of their
\* addresses and misses none.
LEMMA NotPassedInv ==
  ASSUME IInv, IInv', NotPassed, [Next]_vars
  PROVE  NotPassed'
<1> SUFFICES ASSUME pc' = "kernel"
             PROVE  \A b \in Blocks' : Scanned(b)' => ~ HoldsKernel(b)'
  BY DEF NotPassed
<1>1. \A b \in Blocks : b \in Nat /\ b # 0
  BY DEF IInv, TypeOK
<1>2. CASE EndOfMap
  <2>1. Blocks' = Blocks /\ cursor' = phys_first_block
    BY <1>2 DEF EndOfMap, list, Blocks
  <2>2. \A b \in Blocks : phys_first_block \in Blocks /\ phys_first_block <= b
    BY DEF IInv, ListInv, Ends
  <2> QED
    BY <1>1, <2>1, <2>2 DEF Scanned
<1>3. CASE KernelWalk
  <2>1. /\ Blocks' = Blocks /\ cursor' = hdr[cursor].next /\ cursor \in Blocks
        /\ ~ HoldsKernel(cursor) /\ pc = "kernel"
        /\ \A b : HoldsKernel(b)' <=> HoldsKernel(b)
    BY <1>3 DEF KernelWalk, list, Blocks, IInv, InsertInv, HoldsKernel, kernel
  <2>2. ASSUME NEW b \in Blocks, Scanned(b)'
        PROVE  b <= cursor
    BY <2>1, <2>2, <1>1 DEF IInv, ListInv, Sorted, Scanned
  <2>3. \A b \in Blocks : b <= cursor => b = cursor \/ Scanned(b)
    BY <1>1, <2>1 DEF Scanned
  <2> QED
    BY <2>1, <2>2, <2>3 DEF NotPassed
<1>4. CASE UNCHANGED vars
  BY <1>4 DEF NotPassed, vars, Blocks, Scanned, HoldsKernel, kernel
<1> QED
  BY <1>2, <1>3, <1>4 DEF Next, Prepare, Scan, Client, SkipEntry, FirstRegion, FrontRegion,
     StartInsert, InsertWalk, InsertRegion, KernelMisplaced, PlaceKernel, ScanBlock, ScanPanic,
     AllocFails, AllocSucceeds, PhysAlloc, PhysFree, FreePanic, Overrun

\* The walk finds the region of the kernel if that region has an aligned base.
LEMMA KernelFound ==
  ASSUME RoomForKernel, IInv, NotPassed, pc = "kernel", cursor = 0
  PROVE  kernel % 16 # 0
<1> SUFFICES ASSUME kernel % 16 = 0
             PROVE  FALSE
  OBVIOUS
<1> DEFINE k == KernelEntry(mmap)
<1>1. /\ k \in 1 .. Len(mmap) /\ mmap[k].usable
      /\ mmap[k].address \in Nat /\ mmap[k].length \in Nat
      /\ kernel = mmap[k].address + BootOffset
      /\ KernelSize \in Nat /\ BootOffset < KernelSize
  BY KernelFacts
<1>2. mmap[k].address >= HighMemory /\ HeaderSize + KernelSize <= mmap[k].length
  BY KernelEntryFacts DEF IInv, TypeOK, RoomForKernel, BootEntries
<1>3. Padding(mmap[k]) = 0
  BY <1>1 DEF Padding, BootOffset
<1>4. IsRegion(mmap[k])
  BY <1>1, <1>2, <1>3 DEF IsRegion, HeaderSize, BootOffset
<1>5. k \in Prepared /\ Start(mmap[k]) = mmap[k].address
  BY <1>1, <1>3, <1>4 DEF Prepared, Regions, IInv, InsertInv, Start
<1>6. mmap[k].address \in Blocks
  BY <1>5 DEF IInv, ListInv, HeadsListed, Heads
<1>7. HoldsKernel(mmap[k].address)
  BY <1>1 DEF HoldsKernel, HeaderSize, BootOffset
<1> QED
  BY <1>6, <1>7 DEF NotPassed, Scanned

\* No step stops the kernel without a reason.
LEMMA HaltsInv ==
  ASSUME RoomForKernel, IInv, NotPassed, HaltsForAReason, [Next]_vars
  PROVE  HaltsForAReason'
<1> SUFFICES ASSUME pc' = "halted"
             PROVE  (\E b \in Blocks' : ~ hdr'[b].sound) \/ kernel' % 16 # 0
  BY DEF HaltsForAReason
<1>1. CASE KernelMisplaced
  BY <1>1, KernelFound DEF KernelMisplaced, kernel
<1>2. CASE ScanPanic
  BY <1>2 DEF ScanPanic, list, Blocks, IInv, InsertInv
<1>3. ASSUME NEW o \in owned, FreePanic(o)
      PROVE  \E b \in Blocks' : ~ hdr'[b].sound
  BY <1>3 DEF FreePanic, list, Blocks, IInv, Accounted, OwnedBacked
<1>4. CASE UNCHANGED vars
  BY <1>4 DEF HaltsForAReason, vars, Blocks, kernel
<1> QED
  BY <1>1, <1>2, <1>3, <1>4 DEF Next, Prepare, Scan, Client, SkipEntry, FirstRegion, FrontRegion,
     StartInsert, InsertWalk, InsertRegion, EndOfMap, KernelWalk, PlaceKernel, ScanBlock,
     AllocFails, AllocSucceeds, PhysAlloc, PhysFree, Overrun

\* What is added to the invariant above, and keeps it company.
LEMMA RestInvariant == RoomForKernel => (Spec => [](IInv /\ HeadsEmpty /\ NotPassed /\ HaltsForAReason))
<1> SUFFICES ASSUME RoomForKernel
             PROVE  Spec => [](IInv /\ HeadsEmpty /\ NotPassed /\ HaltsForAReason)
  OBVIOUS
<1>1. Init => IInv /\ HeadsEmpty /\ NotPassed /\ HaltsForAReason
  <2> SUFFICES ASSUME Init
               PROVE  IInv /\ HeadsEmpty /\ NotPassed /\ HaltsForAReason
    OBVIOUS
  <2>1. IInv
    BY InitInv
  <2>2. Heads = {}
    BY <2>1 DEF Init, IInv, ListInv, HeadsListed, Blocks
  <2> QED
    BY <2>1, <2>2 DEF Init, HeadsEmpty, NotPassed, HaltsForAReason
<1>2. IInv /\ HeadsEmpty /\ NotPassed /\ HaltsForAReason /\ [Next]_vars
        => (IInv /\ HeadsEmpty /\ NotPassed /\ HaltsForAReason)'
  BY NextInv, HeadsEmptyInv, NotPassedInv, HaltsInv
<1> QED
  BY <1>1, <1>2, PTL DEF Spec

\* A region holds the header of no other region.
LEMMA OwnHead ==
  ASSUME mmap \in Maps, NEW i \in Regions, NEW h \in Heads,
         Start(mmap[i]) <= h, h < Limit(mmap[i])
  PROVE  h = Start(mmap[i])
<1>1. PICK j \in Regions : h = Start(mmap[j])
  BY DEF Heads, Prepared
<1>2. /\ Start(mmap[j]) \in Nat /\ Limit(mmap[j]) \in Nat
      /\ Start(mmap[j]) + HeaderSize < Limit(mmap[j])
      /\ Start(mmap[i]) \in Nat /\ Limit(mmap[i]) \in Nat
  BY RegionFacts
<1>3. i # j => \/ Limit(mmap[i]) <= Start(mmap[j])
               \/ Limit(mmap[j]) <= Start(mmap[i])
  BY RegionFacts
<1> QED
  BY <1>1, <1>2, <1>3 DEF HeaderSize

\* Without ranges in use each region is one run again.
LEMMA DefragmentedHolds == ASSUME IInv, HeadsEmpty PROVE Defragmented
<1> SUFFICES ASSUME Serving, owned = {}, NEW i \in Regions, NEW s, s = Start(mmap[i])
             PROVE  IF s + HeaderSize = KernelBlock
                      THEN hdr[s].free = 0 /\ End(KernelBlock) = Limit(mmap[i])
                      ELSE End(s) = Limit(mmap[i])
  BY DEF Defragmented
<1> DEFINE L == Limit(mmap[i])
<1>1. /\ mmap \in Maps /\ HdrType /\ Sorted /\ BlocksApart /\ Contained /\ KernelPlaced
      /\ Blocks = Heads \cup {KernelBlock}
  BY DEF IInv, TypeOK, HdrType, ListInv, KernelInv, Accounted, NoStrayBlock
<1>2. /\ s \in Nat /\ L \in Nat /\ s + HeaderSize < L /\ s \in Heads /\ s \in Blocks
  <2>1. i \in Prepared
    BY <1>1, RegionFacts DEF Prepared, IInv, InsertInv, Serving
  <2> QED
    BY <2>1, <1>1, RegionFacts DEF Heads
<1>3. hdr[s].size = 0 /\ hdr[s].free \in Nat /\ End(s) = s + HeaderSize + hdr[s].free
  BY <1>1, <1>2, BlockFacts DEF HeadsEmpty, End, HeaderSize
<1>4. KernelBlock \in Blocks \ Heads /\ KernelBlock - HeaderSize \in Heads /\ KernelBlock \in Nat
      /\ End(KernelBlock) \in Nat /\ KernelBlock + HeaderSize <= End(KernelBlock)
  BY <1>1, BlockFacts DEF KernelPlaced
<1>5. ASSUME NEW b \in Blocks, s <= b, b < L
      PROVE  End(b) = L \/ (End(b) \in Blocks /\ End(b) < L)
  <2>1. \/ End(b) = L
        \/ End(b) < L /\ hdr[b].next = End(b)
    BY <1>5, TiledHolds DEF Tiled
  <2>2. hdr[b].next = 0 \/ hdr[b].next \in Blocks
    BY <1>1 DEF Sorted
  <2>3. End(b) # 0
    BY <1>1, BlockFacts DEF HeaderSize
  <2> QED
    BY <2>1, <2>2, <2>3
<1>6. ASSUME NEW h \in Heads, s <= h, h < L
      PROVE  h = s
  BY <1>1, <1>6, OwnHead
<1>7. CASE s + HeaderSize = KernelBlock
  <2>1. hdr[s].free = 0
    <3>1. End(s) <= KernelBlock
      BY <1>1, <1>2, <1>4, <1>7 DEF BlocksApart, HeaderSize
    <3> QED
      BY <3>1, <1>2, <1>3, <1>7 DEF HeaderSize
  <2>2. KernelBlock < L
    BY <1>2, <1>7
  <2>3. End(KernelBlock) = L \/ (End(KernelBlock) \in Blocks /\ End(KernelBlock) < L)
    BY <1>2, <1>4, <1>5, <1>7, <2>2 DEF HeaderSize
  <2>4. ~ (End(KernelBlock) \in Blocks /\ End(KernelBlock) < L)
    <3> SUFFICES ASSUME End(KernelBlock) \in Blocks, End(KernelBlock) < L
                 PROVE  FALSE
      OBVIOUS
    <3>1. End(KernelBlock) # KernelBlock /\ s < End(KernelBlock)
      BY <1>2, <1>4, <1>7 DEF HeaderSize
    <3>2. End(KernelBlock) \in Heads
      BY <3>1, <1>1
    <3> QED
      BY <3>1, <3>2, <1>2, <1>4, <1>6
  <2> QED
    BY <2>1, <2>3, <2>4, <1>7
<1>8. CASE s + HeaderSize # KernelBlock
  <2> SUFFICES ASSUME End(s) # L
               PROVE  FALSE
    BY <1>8
  <2>1. s < L
    BY <1>2 DEF HeaderSize
  <2>2. End(s) \in Blocks /\ End(s) < L
    BY <2>1, <1>2, <1>5
  <2>3. s < End(s) /\ End(s) \in Nat
    BY <1>2, <1>3 DEF HeaderSize
  <2>4. End(s) = KernelBlock
    BY <2>2, <2>3, <1>1, <1>2, <1>6
  <2>5. KernelBlock - HeaderSize = s
    <3>1. s <= KernelBlock - HeaderSize /\ KernelBlock - HeaderSize < L
      BY <2>2, <2>4, <1>2, <1>3, <1>4 DEF HeaderSize
    <3> QED
      BY <3>1, <1>4, <1>6
  <2> QED
    BY <2>5, <1>2, <1>4, <1>8 DEF HeaderSize
<1> QED
  BY <1>7, <1>8

\* phys_free in any order: when the last range is given back, the free memory of each
\* region is one run again, from its header or from the kernel image to its end.
THEOREM DefragmentedAlways == RoomForKernel => (Spec => []Defragmented)
<1> SUFFICES ASSUME RoomForKernel PROVE Spec => []Defragmented
  OBVIOUS
<1>1. IInv /\ HeadsEmpty => Defragmented
  BY DefragmentedHolds
<1> QED BY <1>1, RestInvariant, PTL

\* _check_phys_block, prep_mem: the kernel stops only for an overwritten signature or a
\* region with an unaligned base.
THEOREM HaltsForAReasonAlways == RoomForKernel => (Spec => []HaltsForAReason)
<1> SUFFICES ASSUME RoomForKernel PROVE Spec => []HaltsForAReason
  OBVIOUS
<1> QED BY RestInvariant, PTL

\* What a step may do to an overwritten signature.
Caught ==
  /\ \A b \in Blocks : ~ hdr[b].sound => b \in Blocks' /\ ~ hdr'[b].sound
  /\ (\E b \in Blocks : ~ hdr[b].sound) => ~ (pc = "scan" /\ pc' = "ready")

\* A block with an overwritten signature is neither split nor merged.
LEMMA CaughtStep == ASSUME IInv, IInv', [Next]_vars PROVE Caught
<1>1. \A b \in Blocks : ~ hdr[b].sound => b \in Blocks' /\ ~ hdr'[b].sound
  <2>1. CASE UNCHANGED hdr
    BY <2>1 DEF Blocks
  <2>2. CASE FirstRegion \/ FrontRegion \/ InsertRegion
    BY <2>2, LinkKeeps
  <2>3. CASE PlaceKernel \/ AllocSucceeds
    BY <2>3, CarveKeeps
  <2>4. ASSUME NEW o \in owned, PhysFree(o)
        PROVE  \A b \in Blocks : ~ hdr[b].sound => b \in Blocks' /\ ~ hdr'[b].sound
    BY <2>4, FreeKeeps
  <2>5. ASSUME NEW o \in owned, Overrun(o)
        PROVE  \A b \in Blocks : ~ hdr[b].sound => b \in Blocks' /\ ~ hdr'[b].sound
    <3>1. \A b \in Blocks : hdr[b] \in Block
      BY DEF IInv, TypeOK
    <3> QED
      BY <2>5, <3>1 DEF Overrun, Blocks, Block
  <2> QED
    BY <2>1, <2>2, <2>3, <2>4, <2>5 DEF Next, vars, Prepare, Scan, Client, SkipEntry, StartInsert,
       InsertWalk, EndOfMap, KernelWalk, KernelMisplaced, ScanBlock, ScanPanic, AllocFails,
       PhysAlloc, FreePanic, list
<1>2. ASSUME pc = "scan", pc' = "ready"
      PROVE  \A b \in Blocks : hdr[b].sound
  <2>1. cursor = 0
    BY <1>2 DEF Next, vars, Prepare, Scan, Client, SkipEntry, FirstRegion, FrontRegion, StartInsert,
       InsertWalk, InsertRegion, EndOfMap, KernelWalk, KernelMisplaced, PlaceKernel, ScanBlock,
       ScanPanic, AllocFails, AllocSucceeds, PhysAlloc, PhysFree, FreePanic, Overrun
  <2> QED
    BY <2>1, <1>2 DEF IInv, ScanInv, Scanned
<1> QED
  BY <1>1, <1>2 DEF Caught

\* _check_phys_block: an overwritten signature stays on the list, and no request is
\* answered after one.
THEOREM OverflowCaughtAlways == RoomForKernel => (Spec => OverflowCaught)
<1> SUFFICES ASSUME RoomForKernel PROVE Spec => OverflowCaught
  OBVIOUS
<1>1. IInv /\ IInv' /\ [Next]_vars => [Caught]_vars
  BY CaughtStep
<1> QED BY <1>1, Invariance, PTL DEF Spec, OverflowCaught, Caught
=============================================================================
