-------------------------------- MODULE Heap --------------------------------
(***************************************************************************)
(* kernel/mem/heap.c: the kernel heap, a slab allocator inside one block of *)
(* physical memory.                                                        *)
(*                                                                         *)
(* A cache stands for one object size and has two lists of slabs: those with *)
(* a free object and the full ones.  A slab is a header and an area of       *)
(* SlabSize bytes cut into objects of the cache's size; a free object's       *)
(* first word points to the next free object of its slab.  Slabs and caches  *)
(* that become empty go to two free lists; new ones are cut off free_space.  *)
(*                                                                         *)
(* malloc and free run to their end before the next call (one processor, no  *)
(* preemption), so the loops over lists are operators; `pc` says which part  *)
(* of a call comes next.  Address 0 is the null pointer, and is mapped.      *)
(***************************************************************************)
EXTENDS Integers, Sequences, FiniteSets, SequencesExt

CONSTANTS
  Base,        \* active_heap
  HeapSize,    \* the size given to heap_init
  SlabSize,    \* SLAB_SIZE
  Requests,    \* the sizes clients ask malloc for
  LargeAddrs,  \* the addresses phys_alloc may return
  NullWord,    \* what memory holds at address 0
  Supported    \* TRUE: clients free only what free() handles (see Handled)

HeapHeader == 48                 \* sizeof(struct heap)
CacheBytes == 32                 \* sizeof(struct heap_cache)
SlabHeader == 32                 \* offset of objects in struct heap_slab
SlabBytes == SlabHeader + SlabSize
WordBytes == 8
HeapEnd == Base + HeapSize

ASSUME HeapAssumption ==
  /\ Base \in Nat \ {0} /\ HeapSize \in Nat /\ SlabSize \in Nat
  /\ SlabSize >= WordBytes
  /\ Requests \subseteq Nat
  /\ NullWord \in Nat
  /\ Supported \in BOOLEAN
  /\ HeapSize >= HeapHeader + CacheBytes

\* A block of physical memory is never inside the heap, nor right behind it: its
\* header comes first.
ASSUME LargeAssumption ==
  \A a \in LargeAddrs :
    /\ a \in Nat \ {0}
    /\ a > HeapEnd \/ \A n \in Requests : a + n <= Base

VARIABLES
  first_cache,
  caches,                \* every cache ever cut, by address
  slabs,                 \* every slab ever cut, by address
  link,                  \* the first word of the objects no client holds
  null_word,             \* the word at address 0
  free_space_for_cache,
  free_space_for_slab,
  free_space,
  pc,                    \* "idle", or the part of the call that comes next
  size, cache, slab,     \* the locals of the call
  owned                  \* the ranges malloc returned and nobody freed yet

lists == <<first_cache, caches, slabs, link, null_word>>
space == <<free_space_for_cache, free_space_for_slab, free_space>>
locals == <<size, cache, slab>>
vars == <<lists, space, pc, locals, owned>>

-----------------------------------------------------------------------------
(* Lists.                                                                  *)

\* The nodes of a list of caches or slabs that starts at address a.
Walk(node, a) ==
  LET from[x \in DOMAIN node \cup {0}] ==
        IF x = 0 THEN << >> ELSE <<x>> \o from[node[x].next]
  IN  from[a]

Final(node, a) == Last(Walk(node, a))

Previous(node, a, x) == CHOOSE p \in Range(Walk(node, a)) : node[p].next = x

\* Append x to the list at a: the loop over ->next and the store at its end.  The
\* list must not be empty.
AddLast(node, a, x) == [node EXCEPT ![Final(node, a)].next = x]

\* Take x, which is not the first, out of the list at a.
Unlink(node, a, x) == [node EXCEPT ![Previous(node, a, x)].next = node[x].next]

CacheList == Walk(caches, first_cache)
Available(c) == Walk(slabs, caches[c].available)
Full(c) == Walk(slabs, caches[c].full)

\* The word at an address that holds a free object's link, or at address 0.
Word(a) == IF a = 0 THEN null_word ELSE link[a]

-----------------------------------------------------------------------------
Init ==
  /\ first_cache = 0
  /\ caches = << >>
  /\ slabs = << >>
  /\ link = << >>
  /\ null_word = NullWord
  /\ free_space_for_cache = 0
  /\ free_space_for_slab = 0
  /\ free_space = Base + HeapHeader
  /\ pc = "idle"
  /\ size = 0 /\ cache = 0 /\ slab = 0
  /\ owned = {}

\* A call returns; its locals are gone.
Done == pc' = "idle" /\ size' = 0 /\ cache' = 0 /\ slab' = 0

-----------------------------------------------------------------------------
(* malloc.                                                                 *)

Malloc(n) ==
  /\ pc = "idle"
  /\ n <= SlabSize
  /\ size' = IF n < WordBytes THEN WordBytes ELSE n
  /\ pc' = "cache"
  /\ UNCHANGED <<lists, space, cache, slab, owned>>

\* The request goes to the physical memory manager, which may refuse it.
MallocLarge(n) ==
  /\ pc = "idle"
  /\ n > SlabSize
  /\ \E a \in LargeAddrs :
       /\ \A o \in owned : o.addr + o.len <= a \/ a + n <= o.addr
       /\ owned' = owned \cup {[addr |-> a, len |-> n]}
  /\ UNCHANGED <<lists, space, pc, locals>>

\* The caches of the list that serve the size asked for.
Serving == {c \in Range(CacheList) : caches[c].size = size}

\* The search stops at the first cache of the size.
FindCache ==
  /\ pc = "cache"
  /\ \E i \in DOMAIN CacheList :
       /\ CacheList[i] \in Serving
       /\ \A j \in 1 .. i - 1 : CacheList[j] \notin Serving
       /\ cache' = CacheList[i]
  /\ pc' = "slab"
  /\ UNCHANGED <<lists, space, size, slab, owned>>

CanMakeCache ==
  free_space_for_cache # 0 \/ free_space + CacheBytes <= HeapEnd

\* _make_cache, and the store that puts the cache at the end of the list.
MakeCache ==
  LET c == IF free_space_for_cache # 0 THEN free_space_for_cache ELSE free_space
      fresh == [next |-> 0, size |-> size, available |-> 0, full |-> 0]
      with == [x \in DOMAIN caches \cup {c} |-> IF x = c THEN fresh ELSE caches[x]]
  IN  /\ pc = "cache"
      /\ Serving = {}
      /\ CanMakeCache
      /\ IF free_space_for_cache # 0
           THEN /\ free_space_for_cache' = caches[c].next
                /\ UNCHANGED free_space
           ELSE /\ free_space' = free_space + CacheBytes
                /\ UNCHANGED free_space_for_cache
      /\ IF first_cache = 0
           THEN first_cache' = c /\ caches' = with
           ELSE /\ caches' = [with EXCEPT ![Last(CacheList)].next = c]
                /\ UNCHANGED first_cache
      /\ cache' = c
      /\ pc' = "slab"
      /\ UNCHANGED <<slabs, link, null_word, free_space_for_slab, size, slab, owned>>

\* malloc returns 0.  (With no cache on the list it would follow a null pointer.)
NoCache ==
  /\ pc = "cache"
  /\ Serving = {}
  /\ ~ CanMakeCache
  /\ first_cache # 0
  /\ Done
  /\ UNCHANGED <<lists, space, owned>>

\* Mutant: forgets that a slab was freed.
CanMakeSlabFresh == free_space + SlabBytes <= HeapEnd

CanMakeSlab ==
  free_space_for_slab # 0 \/ free_space + SlabBytes <= HeapEnd

MaxObjects(n) == SlabSize \div n
Object(s, i, n) == s + SlabHeader + i * n
Objects(s, n) == {Object(s, i, n) : i \in 0 .. MaxObjects(n) - 1}

\* The words of a new slab: every object, the last one too, points to the address
\* right behind it.
FreshLinks(s) == [a \in Objects(s, size) |-> a + size]

\* Mutant: the slab is not taken off the free list.
MakeSlabKeepsFree ==
  LET s == IF free_space_for_slab # 0 THEN free_space_for_slab ELSE free_space
      fresh == [next |-> 0, allocated |-> 0, max |-> MaxObjects(size),
                first_free |-> s + SlabHeader]
  IN  /\ pc = "slab"
      /\ caches[cache].available = 0
      /\ CanMakeSlab
      /\ IF free_space_for_slab # 0
           THEN UNCHANGED <<free_space, free_space_for_slab>>
           ELSE /\ free_space' = free_space + SlabBytes
                /\ UNCHANGED free_space_for_slab
      /\ slabs' = [x \in DOMAIN slabs \cup {s} |-> IF x = s THEN fresh ELSE slabs[x]]
      /\ link' = [a \in {b \in DOMAIN link : b <= s \/ s + SlabBytes < b}
                        \cup Objects(s, size) |->
                    IF a \in Objects(s, size) THEN FreshLinks(s)[a] ELSE link[a]]
      /\ caches' = [caches EXCEPT ![cache].available = s]
      /\ UNCHANGED <<first_cache, null_word, free_space_for_cache, pc, locals, owned>>

\* _make_slab, and the store that makes the slab the cache's available one.
MakeSlab ==
  LET s == IF free_space_for_slab # 0 THEN free_space_for_slab ELSE free_space
      fresh == [next |-> 0, allocated |-> 0, max |-> MaxObjects(size),
                first_free |-> s + SlabHeader]
  IN  /\ pc = "slab"
      /\ caches[cache].available = 0
      /\ CanMakeSlab
      /\ IF free_space_for_slab # 0
           THEN /\ free_space_for_slab' = slabs[s].next
                /\ UNCHANGED free_space
           ELSE /\ free_space' = free_space + SlabBytes
                /\ UNCHANGED free_space_for_slab
      /\ slabs' = [x \in DOMAIN slabs \cup {s} |-> IF x = s THEN fresh ELSE slabs[x]]
      /\ link' = [a \in {b \in DOMAIN link : b <= s \/ s + SlabBytes < b}
                        \cup Objects(s, size) |->
                    IF a \in Objects(s, size) THEN FreshLinks(s)[a] ELSE link[a]]
      /\ caches' = [caches EXCEPT ![cache].available = s]
      /\ UNCHANGED <<first_cache, null_word, free_space_for_cache, pc, locals, owned>>

\* malloc returns 0.  A cache made for this request stays on the list, empty.
NoSlab ==
  /\ pc = "slab"
  /\ caches[cache].available = 0
  /\ ~ CanMakeSlab
  /\ Done
  /\ UNCHANGED <<lists, space, owned>>

\* The slab malloc takes from, its new header, and whether it is now full.
Taken == caches[cache].available
NowFull == slabs[Taken].allocated + 1 = slabs[Taken].max

\* The slab after its first free object was taken.
TakenSlabs ==
  [slabs EXCEPT ![Taken].first_free = Word(slabs[Taken].first_free),
                ![Taken].allocated = @ + 1]

\* The object goes to the client, or malloc returns the null pointer it found.
Return(o) ==
  /\ link' = [a \in DOMAIN link \ {o} |-> link[a]]
  /\ owned' = IF o = 0 THEN owned ELSE owned \cup {[addr |-> o, len |-> size]}

\* Take the first free object; a slab that is full now moves to the end of the
\* full list.
TakeObject ==
  LET s == Taken
      o == slabs[s].first_free
  IN  /\ pc = "slab"
      /\ s # 0
      /\ Return(o)
      /\ IF ~ NowFull
           THEN slabs' = TakenSlabs /\ caches' = caches
           ELSE /\ caches' = [caches EXCEPT
                                ![cache].available = slabs[s].next,
                                ![cache].full = IF @ = 0 THEN s ELSE @]
                /\ slabs' = [IF caches[cache].full = 0 THEN TakenSlabs
                             ELSE AddLast(TakenSlabs, caches[cache].full, s)
                             EXCEPT ![s].next = 0]
      /\ Done
      /\ UNCHANGED <<first_cache, null_word, space>>

-----------------------------------------------------------------------------
(* free.                                                                   *)

\* _check_slab_for_pointer's test.
Encloses(s, a) == s < a /\ s + SlabBytes >= a

\* The slabs of cache c, and the ones of them that pass the test.  (Slabs are apart,
\* so that no more than one does.)
Holding(c) == Range(Available(c)) \cup Range(Full(c))
Hits(c, a) == {s \in Holding(c) : Encloses(s, a)}

\* All slabs free looks at.
InUse == UNION {Holding(c) : c \in Range(CacheList)}
Found(a) == {s \in InUse : Encloses(s, a)}

\* Where the loop through the free objects of slab s stops: at the first one whose
\* successor is above a, or at the null pointer.  It does not leave the slab.
Stop(s, a) ==
  LET from[x \in {b \in DOMAIN link : Encloses(s, b)} \cup {0}] ==
        IF Word(x) > a \/ x = 0 THEN x ELSE from[Word(x)]
  IN  from[slabs[s].first_free]

\* The object given back is at address a: the slab and its chain afterwards.
\* Mutant: the object becomes the first free one, and the rest of the chain is lost.
GiveBackForgets(s, a) ==
  /\ slabs' = [slabs EXCEPT ![s].first_free = a, ![s].allocated = @ - 1]
  /\ link' = [x \in DOMAIN link \cup {a} |-> IF x = a THEN 0 ELSE link[x]]
  /\ UNCHANGED null_word

GiveBack(s, a) ==
  IF slabs[s].allocated = slabs[s].max
    THEN /\ slabs' = [slabs EXCEPT ![s].first_free = a, ![s].allocated = @ - 1]
         /\ link' = [x \in DOMAIN link \cup {a} |-> IF x = a THEN 0 ELSE link[x]]
         /\ UNCHANGED null_word
    ELSE LET p == Stop(s, a)
         IN  /\ slabs' = [slabs EXCEPT ![s].allocated = @ - 1]
             /\ link' = [x \in DOMAIN link \cup {a} |->
                           IF x = p THEN a ELSE IF x = a THEN Word(p) ELSE link[x]]
             /\ null_word' = IF p = 0 THEN a ELSE null_word

\* What free handles: of a full slab, the last one of its list (the others keep
\* a next pointer into the full list); of a slab with free objects, an object with
\* a free one above it in the chain (behind the null pointer that ends the chain
\* of a slab that was full, the object would be lost), or the last object in use.
Handled(a) ==
  \A s \in Found(a) :
    IF slabs[s].allocated = slabs[s].max
      THEN slabs[s].next = 0
      ELSE slabs[s].allocated = 1 \/ Stop(s, a) # 0

\* free, up to the update of the slab's count.  The search stops at the first cache with
\* a slab that passes the test, and looks at its available slabs first.
Free(o) ==
  /\ pc = "idle"
  /\ Supported => Handled(o.addr)
  /\ \E i \in DOMAIN CacheList : \E s \in Hits(CacheList[i], o.addr) :
       /\ \A j \in 1 .. i - 1 : Hits(CacheList[j], o.addr) = {}
       /\ GiveBack(s, o.addr)
       /\ slab' = s
       /\ cache' = CacheList[i]
       /\ pc' = IF s \in Range(Available(CacheList[i])) THEN "count" ELSE "unfull"
  /\ owned' = owned \ {o}
  /\ UNCHANGED <<first_cache, caches, space, size>>

\* No slab passes the test: the physical memory manager gets the block back.
FreeLarge(o) ==
  /\ pc = "idle"
  /\ Found(o.addr) = {}
  /\ owned' = owned \ {o}
  /\ UNCHANGED <<lists, space, pc, locals>>

\* Mutant: the cache forgets the full slabs behind this one.
MoveToAvailableDropsRest ==
  LET c == cache
  IN  /\ pc = "unfull"
      /\ caches' = [caches EXCEPT
                      ![c].full = IF @ = slab THEN slabs[slab].next ELSE @,
                      ![c].available = slab]
      /\ slabs' = IF caches[c].full = slab THEN slabs
                  ELSE Unlink(slabs, caches[c].full, slab)
      /\ pc' = "count"
      /\ UNCHANGED <<first_cache, link, null_word, space, locals, owned>>

\* The slab was full: it leaves the full list and goes to the end of the available
\* list.  Its own next pointer stays.
MoveToAvailable ==
  LET c == cache
      unlinked == IF caches[c].full = slab THEN slabs
                  ELSE Unlink(slabs, caches[c].full, slab)
  IN  /\ pc = "unfull"
      /\ caches' = [caches EXCEPT
                      ![c].full = IF @ = slab THEN slabs[slab].next ELSE @,
                      ![c].available = IF @ = 0 THEN slab ELSE @]
      /\ slabs' = IF caches[c].available = 0 THEN unlinked
                  ELSE AddLast(unlinked, caches[c].available, slab)
      /\ pc' = "count"
      /\ UNCHANGED <<first_cache, link, null_word, space, locals, owned>>

\* The slab still has objects in use.
KeepSlab ==
  /\ pc = "count"
  /\ slabs[slab].allocated # 0
  /\ Done
  /\ UNCHANGED <<lists, space, owned>>

\* Mutant: the slab replaces the free list.
RetireSlabReplaces ==
  LET c == cache
      unlinked == IF caches[c].available = slab THEN slabs
                  ELSE Unlink(slabs, caches[c].available, slab)
  IN  /\ pc = "count"
      /\ slabs[slab].allocated = 0
      /\ caches' = [caches EXCEPT
                      ![c].available = IF @ = slab THEN slabs[slab].next ELSE @]
      /\ free_space_for_slab' = slab
      /\ slabs' = [unlinked EXCEPT ![slab].next = 0]
      /\ pc' = "empty"
      /\ UNCHANGED <<first_cache, link, null_word, free_space_for_cache, free_space,
                     locals, owned>>

\* An empty slab leaves the available list and goes to the end of the free list.
RetireSlab ==
  LET c == cache
      unlinked == IF caches[c].available = slab THEN slabs
                  ELSE Unlink(slabs, caches[c].available, slab)
      alone == [unlinked EXCEPT ![slab].next = 0]
  IN  /\ pc = "count"
      /\ slabs[slab].allocated = 0
      /\ caches' = [caches EXCEPT
                      ![c].available = IF @ = slab THEN slabs[slab].next ELSE @]
      /\ free_space_for_slab' =
           IF free_space_for_slab = 0 THEN slab ELSE free_space_for_slab
      /\ slabs' = IF free_space_for_slab = 0 THEN alone
                  ELSE AddLast(alone, free_space_for_slab, slab)
      /\ pc' = "empty"
      /\ UNCHANGED <<first_cache, link, null_word, free_space_for_cache, free_space,
                     locals, owned>>

EmptyCache(c) == caches[c].available = 0 /\ caches[c].full = 0

KeepCache ==
  /\ pc = "empty"
  /\ ~ EmptyCache(cache)
  /\ Done
  /\ UNCHANGED <<lists, space, owned>>

\* Mutant: the cache is not put on the free list.
RetireCacheForgets ==
  LET unlinked == IF first_cache = cache THEN caches
                  ELSE Unlink(caches, first_cache, cache)
  IN  /\ pc = "empty"
      /\ EmptyCache(cache)
      /\ first_cache' = IF first_cache = cache THEN caches[cache].next ELSE first_cache
      /\ caches' = [unlinked EXCEPT ![cache].next = 0]
      /\ Done
      /\ UNCHANGED <<slabs, link, null_word, space, owned>>

\* A cache without slabs leaves the list and goes to the end of the free list.
RetireCache ==
  LET unlinked == IF first_cache = cache THEN caches
                  ELSE Unlink(caches, first_cache, cache)
      alone == [unlinked EXCEPT ![cache].next = 0]
  IN  /\ pc = "empty"
      /\ EmptyCache(cache)
      /\ first_cache' = IF first_cache = cache THEN caches[cache].next ELSE first_cache
      /\ free_space_for_cache' =
           IF free_space_for_cache = 0 THEN cache ELSE free_space_for_cache
      /\ caches' = IF free_space_for_cache = 0 THEN alone
                   ELSE AddLast(alone, free_space_for_cache, cache)
      /\ Done
      /\ UNCHANGED <<slabs, link, null_word, free_space_for_slab, free_space,
                     owned>>

-----------------------------------------------------------------------------
MallocSteps == FindCache \/ MakeCache \/ NoCache \/ MakeSlab \/ NoSlab \/ TakeObject

FreeSteps == MoveToAvailable \/ KeepSlab \/ RetireSlab \/ KeepCache \/ RetireCache

Client ==
  \/ \E n \in Requests : Malloc(n) \/ MallocLarge(n)
  \/ \E o \in owned : Free(o) \/ FreeLarge(o)

Next == MallocSteps \/ FreeSteps \/ Client

Spec == Init /\ [][Next]_vars

-----------------------------------------------------------------------------
(* Properties.                                                             *)

Idle == pc = "idle"

\* The objects of slab s that clients hold.
Held(s) == {o \in owned : s < o.addr /\ o.addr < s + SlabBytes}

\* The addresses on slab s's chain of free objects, until it leaves the slab or
\* ends.
Chain(s) ==
  LET from[x \in Int] ==
        IF s < x /\ x < s + SlabBytes /\ x \in DOMAIN link
          THEN <<x>> \o from[link[x]] ELSE << >>
  IN  from[slabs[s].first_free]

CacheOf(s) == CHOOSE c \in Range(CacheList) : s \in Holding(c)

SizeOf(s) == caches[CacheOf(s)].size

\* No object is lost and none is double: the objects of a slab in use are the ones
\* on its chain, each once, and the ones clients hold; the slab's count says how
\* many clients hold; and a client holds at least what it asked for.
ObjectsAccounted ==
  Idle => \A s \in InUse :
    LET chain == Chain(s)
        held == {o.addr : o \in Held(s)}
    IN  /\ Cardinality(Range(chain)) = Len(chain)
        /\ Range(chain) \cap held = {}
        /\ Range(chain) \cup held = Objects(s, SizeOf(s))
        /\ slabs[s].allocated = Cardinality(Held(s))
        /\ \A o \in Held(s) : o.len = SizeOf(s)

\* "If slab is now full, move it to the full list": a slab is on its cache's full
\* list exactly when no object of it is free.
FullListed ==
  Idle => \A c \in Range(CacheList) :
    /\ \A s \in Range(Full(c)) : slabs[s].allocated = slabs[s].max
    /\ \A s \in Range(Available(c)) : slabs[s].allocated < slabs[s].max

\* The lists of slabs and of caches, by what they are for.
SlabLists ==
  [k \in {"available", "full"} \X Range(CacheList) \cup {<<"free", 0>>} |->
     CASE k[1] = "available" -> Available(k[2])
       [] k[1] = "full" -> Full(k[2])
       [] OTHER -> Walk(slabs, free_space_for_slab)]

CacheLists ==
  [k \in {"used", "free"} |->
     IF k = "used" THEN CacheList ELSE Walk(caches, free_space_for_cache)]

\* The nodes are on the lists: each on one, at one place.
OnceEach(of, nodes) ==
  /\ UNION {Range(of[k]) : k \in DOMAIN of} = nodes
  /\ \A k, l \in DOMAIN of : \A i \in DOMAIN of[k], j \in DOMAIN of[l] :
       of[k][i] = of[l][j] => k = l /\ i = j

\* Every slab ever cut is on exactly one list, once, and every cache too; the
\* lists of a cache say truly which slabs have a free object, also after one of several
\* full slabs has left the full list.
EachOnOneList ==
  Idle =>
    /\ OnceEach(SlabLists, DOMAIN slabs)
    /\ OnceEach(CacheLists, DOMAIN caches)
    /\ \A c, d \in Range(CacheList) : caches[c].size = caches[d].size => c = d
    /\ FullListed

\* free's comment in _check_slab_for_pointer: alloc goes between the free object
\* before it and the free object after it, so a freed object is on the chain again
\* and none falls off.
ChainKept ==
  Idle => \A s \in InUse :
    Cardinality(Range(Chain(s))) = slabs[s].max - slabs[s].allocated

\* Once every object has been given back, in whatever order, every slab can serve
\* any size again and every cache that was not left empty by a refused request can
\* be reused.
AllReturned ==
  Idle /\ owned = {} =>
    /\ Range(Walk(slabs, free_space_for_slab)) = DOMAIN slabs
    /\ \A c \in Range(CacheList) : EmptyCache(c)

\* No call follows a null pointer: when malloc can make no cache there is one on the list to
\* begin with; what it takes an object from serves the size, and begins its chain with
\* an object that no client holds.  And free, which looks for the node before the one it takes
\* off a list without a test for the end, finds the node on that list.
NullNotFollowed ==
  /\ pc = "cache" /\ ~ CanMakeCache => first_cache # 0
  /\ pc = "slab" => /\ cache \in Serving
                    /\ Taken # 0 => slabs[Taken].first_free \in DOMAIN link
  /\ pc \in {"unfull", "count", "empty"} => cache \in Range(CacheList)
  /\ pc = "unfull" => slab \in Range(Full(cache))
  /\ pc = "count" => slab \in Range(Available(cache))

Refuses == pc \in {"cache", "slab"} /\ pc' = "idle" /\ owned' = owned

Exhausted ==
  /\ \A s \in InUse : SizeOf(s) = size => slabs[s].allocated = slabs[s].max
  /\ free_space + SlabBytes > HeapEnd
  /\ \/ free_space_for_slab = 0
     \/ Serving = {} /\ free_space_for_cache = 0

\* malloc refuses a request only when no slab of that size has a free object and
\* the space for the cache or the slab it needs is used up.
RefusedWhenExhausted ==
  [][Refuses => Exhausted]_vars

\* What clients may rely on: objects are inside the heap or are blocks of the
\* physical memory manager, and never overlap, nor the heap's own header.
Promise == INSTANCE AllocatorPromise WITH
  granted <- owned,
  arenas <- {[addr |-> Base, len |-> HeapSize]} \cup
            {[addr |-> a, len |-> n] : a \in LargeAddrs, n \in Requests},
  reserved <- {[addr |-> Base, len |-> HeapHeader]}

PromiseKept == Promise!Spec
=============================================================================
