--------------------------- MODULE PhysicalMemory ---------------------------
(***************************************************************************)
(* kernel/mem/physical.c: the best-fit physical memory manager.             *)
(*                                                                         *)
(* All usable memory above 1 MiB is described by struct phys_mem_block       *)
(* headers that live in the memory they describe and form one linked list,  *)
(* sorted by address.  A header owns the `size` bytes that follow it and     *)
(* knows how many free bytes follow those (free_mem_following).  prep_mem    *)
(* puts a header of size 0 on every usable region of the E820 map and then   *)
(* reserves the kernel image; phys_alloc splits the smallest free run that   *)
(* is large enough; phys_free gives a block's bytes to its predecessor.      *)
(*                                                                         *)
(* The loops of the code (sorted insertion, search for the kernel's region,  *)
(* best-fit scan) take one step per iteration: `pc` says which loop runs and *)
(* `cursor` is the loop's block pointer.  Address 0 is the null pointer.     *)
(***************************************************************************)
EXTENDS Integers, Sequences

CONSTANTS
  Maps,         \* the E820 maps the machine may report
  KernelSize,   \* the kernel size the boot loader computes and hands over
  Requests,     \* the sizes clients ask phys_alloc for
  Word,         \* u64 arithmetic is modulo Word
  RelLimit      \* the highest region address the boot loader puts the kernel in

HeaderSize == 48          \* sizeof(struct phys_mem_block)
HighMemory == 1048576     \* 0x100000
BootOffset == 96          \* where the boot loader puts the kernel in a region

ASSUME SizeAssumption ==
  /\ KernelSize \in Nat /\ KernelSize > BootOffset
  /\ Requests \subseteq Nat
  /\ Word \in Nat /\ RelLimit \in Nat

\* An E820 map is a sequence of entries whose usable ones do not overlap.
Entry == [address : Nat, length : Nat, usable : BOOLEAN]

ASSUME MapAssumption ==
  \A m \in Maps :
    /\ m \in Seq(Entry)
    /\ \A i, j \in 1 .. Len(m) :
         i # j /\ m[i].usable /\ m[j].usable =>
           \/ m[i].address + m[i].length <= m[j].address
           \/ m[j].address + m[j].length <= m[i].address

VARIABLES
  mmap,               \* the E820 map handed over by the boot loader
  pc,                 \* the loop that runs, "ready" between calls, "halted"
  entry,              \* prep_mem: the map entry being looked at
  cursor,             \* the block pointer of the loop that runs
  hdr,                \* the headers on the list, by address
  phys_first_block,
  phys_final_block,
  asked,              \* phys_alloc: the size the client asked for
  selected_block,     \* phys_alloc: the best fit found so far
  owned               \* the ranges phys_alloc returned and nobody freed yet

vars == <<mmap, pc, entry, cursor, hdr, phys_first_block, phys_final_block,
          asked, selected_block, owned>>

list == <<hdr, phys_first_block, phys_final_block>>

-----------------------------------------------------------------------------
(* The E820 map, and where the boot loader puts the kernel.                *)

\* Bytes skipped at the start of a region so that its header is aligned.
Padding(e) == IF e.address % 16 # 0 THEN 16 - (e.address % 16) ELSE 0

IsRegion(e) ==
  e.usable /\ e.address >= HighMemory /\ e.length > HeaderSize + Padding(e)

Start(e) == e.address + Padding(e)
Limit(e) == e.address + e.length

\* The entries the boot loader accepts: usable, above 1 MiB, within reach of
\* 32-bit relative jumps, large enough.
BootEntries(m) ==
  {i \in 1 .. Len(m) : /\ m[i].usable
                       /\ m[i].address >= HighMemory
                       /\ m[i].address <= RelLimit
                       /\ m[i].length >= KernelSize}

\* It takes the first one.
KernelEntry(m) == CHOOSE i \in BootEntries(m) : \A j \in BootEntries(m) : i <= j

kernel == mmap[KernelEntry(mmap)].address + BootOffset

\* What the code relies on and the boot loader does not check: the region it
\* picked also holds the region's own header.
RoomForKernel ==
  \A m \in Maps :
    BootEntries(m) # {} => m[KernelEntry(m)].length >= HeaderSize + KernelSize

-----------------------------------------------------------------------------
(* Blocks.                                                                 *)

Block == [next : Nat, prev : Nat, size : Nat, free : Nat, sound : BOOLEAN]

Blocks == DOMAIN hdr

\* One past the last byte a block accounts for.
End(b) == b + HeaderSize + hdr[b].size + hdr[b].free

Minus64(x, y) == IF x >= y THEN x - y ELSE x - y + Word

\* Mutant: the run that was split still claims its free bytes.
MakeNewBlockKeepsFree(size, s) ==
  LET new == s + hdr[s].size + HeaderSize
      nxt == hdr[s].next
  IN  /\ hdr' = [b \in Blocks \cup {new} |->
                   IF b = new
                     THEN [next |-> nxt, prev |-> s, size |-> size - HeaderSize,
                           free |-> Minus64(hdr[s].free, size), sound |-> TRUE]
                   ELSE IF b = s THEN [hdr[s] EXCEPT !.next = new]
                   ELSE IF b = nxt /\ s # phys_final_block
                     THEN [hdr[b] EXCEPT !.prev = new]
                   ELSE hdr[b]]
      /\ phys_final_block' =
           IF s = phys_final_block THEN new ELSE phys_final_block
      /\ UNCHANGED phys_first_block

\* _make_new_block: carve `size` bytes, header included, from the free run that
\* follows s.
MakeNewBlock(size, s) ==
  LET new == s + hdr[s].size + HeaderSize
      nxt == hdr[s].next
  IN  /\ hdr' = [b \in Blocks \cup {new} |->
                   IF b = new
                     THEN [next |-> nxt, prev |-> s, size |-> size - HeaderSize,
                           free |-> Minus64(hdr[s].free, size), sound |-> TRUE]
                   ELSE IF b = s
                     THEN [hdr[s] EXCEPT !.next = new, !.free = 0]
                   ELSE IF b = nxt /\ s # phys_final_block
                     THEN [hdr[b] EXCEPT !.prev = new]
                   ELSE hdr[b]]
      /\ phys_final_block' =
           IF s = phys_final_block THEN new ELSE phys_final_block
      /\ UNCHANGED phys_first_block

-----------------------------------------------------------------------------
(* prep_mem.                                                               *)

Init ==
  /\ mmap \in Maps
  /\ BootEntries(mmap) # {}
  /\ pc = "prep"
  /\ entry = 1
  /\ cursor = 0
  /\ hdr = [b \in {} |-> 0]
  /\ phys_first_block = 0
  /\ phys_final_block = 0
  /\ asked = 0
  /\ selected_block = 0
  /\ owned = {}

region == mmap[entry]

\* The header prep_mem writes at the start of a region.
RegionHeader(next, prev) ==
  [next |-> next, prev |-> prev, size |-> 0,
   free |-> region.length - HeaderSize - Padding(region), sound |-> TRUE]

\* Write the header of the current region and, when there is one, the next
\* pointer of the block before it.
Link(before, next, prev) ==
  hdr' = [b \in Blocks \cup {Start(region)} |->
            IF b = Start(region) THEN RegionHeader(next, prev)
            ELSE IF b = before THEN [hdr[b] EXCEPT !.next = Start(region)]
            ELSE hdr[b]]

NextEntry == entry' = entry + 1 /\ UNCHANGED <<mmap, asked, selected_block, owned>>

SkipEntry ==
  /\ pc = "prep" /\ entry <= Len(mmap)
  /\ ~ IsRegion(region)
  /\ NextEntry
  /\ UNCHANGED <<pc, cursor, list>>

FirstRegion ==
  /\ pc = "prep" /\ entry <= Len(mmap)
  /\ IsRegion(region)
  /\ phys_first_block = 0
  /\ Link(0, 0, 0)
  /\ phys_first_block' = Start(region)
  /\ phys_final_block' = Start(region)
  /\ NextEntry
  /\ UNCHANGED <<pc, cursor>>

\* Mutant: the old list is not linked behind the new first block.
FrontRegionCutsList ==
  /\ pc = "prep" /\ entry <= Len(mmap)
  /\ IsRegion(region)
  /\ phys_first_block # 0
  /\ Start(region) < phys_first_block
  /\ Link(0, 0, 0)
  /\ phys_first_block' = Start(region)
  /\ NextEntry
  /\ UNCHANGED <<pc, cursor, phys_final_block>>

\* The region lies below all others.  The old first block keeps its prev.
FrontRegion ==
  /\ pc = "prep" /\ entry <= Len(mmap)
  /\ IsRegion(region)
  /\ phys_first_block # 0
  /\ Start(region) < phys_first_block
  /\ Link(0, phys_first_block, 0)
  /\ phys_first_block' = Start(region)
  /\ NextEntry
  /\ UNCHANGED <<pc, cursor, phys_final_block>>

StartInsert ==
  /\ pc = "prep" /\ entry <= Len(mmap)
  /\ IsRegion(region)
  /\ phys_first_block # 0
  /\ Start(region) >= phys_first_block
  /\ pc' = "insert"
  /\ cursor' = phys_first_block
  /\ UNCHANGED <<mmap, entry, list, asked, selected_block, owned>>

InsertGoesOn ==
  hdr[cursor].next # 0 /\ hdr[cursor].next < Start(region)

\* Mutant: the walk does not advance.
InsertWalkStays ==
  /\ pc = "insert"
  /\ InsertGoesOn
  /\ UNCHANGED vars

InsertWalk ==
  /\ pc = "insert"
  /\ InsertGoesOn
  /\ cursor' = hdr[cursor].next
  /\ UNCHANGED <<mmap, pc, entry, list, asked, selected_block, owned>>

\* The block after the new one keeps its prev.
InsertRegion ==
  /\ pc = "insert"
  /\ ~ InsertGoesOn
  /\ IF cursor = phys_final_block
       THEN /\ Link(cursor, 0, cursor)
            /\ phys_final_block' = Start(region)
       ELSE /\ Link(cursor, hdr[cursor].next, cursor)
            /\ UNCHANGED phys_final_block
  /\ pc' = "prep"
  /\ NextEntry
  /\ UNCHANGED <<cursor, phys_first_block>>

EndOfMap ==
  /\ pc = "prep" /\ entry > Len(mmap)
  /\ pc' = "kernel"
  /\ cursor' = phys_first_block
  /\ UNCHANGED <<mmap, entry, list, asked, selected_block, owned>>

HoldsKernel(b) == b + 2 * HeaderSize = kernel

KernelWalk ==
  /\ pc = "kernel"
  /\ cursor # 0
  /\ ~ HoldsKernel(cursor)
  /\ cursor' = hdr[cursor].next
  /\ UNCHANGED <<mmap, pc, entry, list, asked, selected_block, owned>>

\* serial_kpanic: no region starts 96 bytes below the kernel.
KernelMisplaced ==
  /\ pc = "kernel"
  /\ cursor = 0
  /\ pc' = "halted"
  /\ UNCHANGED <<mmap, entry, cursor, list, asked, selected_block, owned>>

\* Mutant: the 96 bytes the boot loader added for two headers are taken off again.
PlaceKernelShort ==
  /\ pc = "kernel"
  /\ cursor # 0
  /\ HoldsKernel(cursor)
  /\ MakeNewBlock(KernelSize - BootOffset, cursor)
  /\ pc' = "ready"
  /\ UNCHANGED <<mmap, entry, cursor, asked, selected_block, owned>>

PlaceKernel ==
  /\ pc = "kernel"
  /\ cursor # 0
  /\ HoldsKernel(cursor)
  /\ MakeNewBlock(KernelSize, cursor)
  /\ pc' = "ready"
  /\ UNCHANGED <<mmap, entry, cursor, asked, selected_block, owned>>

-----------------------------------------------------------------------------
(* phys_alloc and phys_free.                                               *)

\* Mutant: rounds down.
RoundedDown(n) == IF n < 16 THEN 16 ELSE n - (n % 16)

Rounded(n) ==
  IF n < 16 THEN 16
  ELSE IF n % 16 # 0 THEN n + (16 - (n % 16))
  ELSE n

\* The bytes the current request takes, header included.
Need == Rounded(asked) + HeaderSize

PhysAlloc(n) ==
  /\ pc = "ready"
  /\ pc' = "scan"
  /\ asked' = n
  /\ cursor' = phys_first_block
  /\ selected_block' = 0
  /\ UNCHANGED <<mmap, entry, list, owned>>

Fits(b) == hdr[b].free >= Need

\* Mutant: first fit.
ScanBlockFirstFit ==
  /\ pc = "scan"
  /\ cursor # 0
  /\ hdr[cursor].sound
  /\ selected_block' =
       IF Fits(cursor) /\ selected_block = 0 THEN cursor ELSE selected_block
  /\ cursor' = hdr[cursor].next
  /\ UNCHANGED <<mmap, pc, entry, list, asked, owned>>

\* Mutant: signatures are checked only on blocks that could serve the request.
ScanBlockChecksFits ==
  /\ pc = "scan"
  /\ cursor # 0
  /\ Fits(cursor) => hdr[cursor].sound
  /\ selected_block' =
       IF /\ Fits(cursor)
          /\ \/ selected_block = 0
             \/ hdr[cursor].free < hdr[selected_block].free
       THEN cursor ELSE selected_block
  /\ cursor' = hdr[cursor].next
  /\ UNCHANGED <<mmap, pc, entry, list, asked, owned>>

\* One iteration of the best-fit scan, on a header whose signatures are intact.
ScanBlock ==
  /\ pc = "scan"
  /\ cursor # 0
  /\ hdr[cursor].sound
  /\ selected_block' =
       IF /\ Fits(cursor)
          /\ \/ selected_block = 0
             \/ hdr[cursor].free < hdr[selected_block].free
       THEN cursor ELSE selected_block
  /\ cursor' = hdr[cursor].next
  /\ UNCHANGED <<mmap, pc, entry, list, asked, owned>>

\* _check_phys_block: a signature was overwritten; kpanic never returns.
ScanPanic ==
  /\ pc = "scan"
  /\ cursor # 0
  /\ ~ hdr[cursor].sound
  /\ pc' = "halted"
  /\ UNCHANGED <<mmap, entry, cursor, list, asked, selected_block, owned>>

AllocFails ==
  /\ pc = "scan"
  /\ cursor = 0
  /\ selected_block = 0
  /\ pc' = "ready"
  /\ UNCHANGED <<mmap, entry, cursor, list, asked, selected_block, owned>>

AllocSucceeds ==
  /\ pc = "scan"
  /\ cursor = 0
  /\ selected_block # 0
  /\ MakeNewBlock(Need, selected_block)
  /\ owned' = owned \cup
       {[addr |-> selected_block + hdr[selected_block].size + 2 * HeaderSize,
         len |-> asked]}
  /\ pc' = "ready"
  /\ UNCHANGED <<mmap, entry, cursor, asked, selected_block>>

\* The block of a range that phys_alloc returned.
BlockOf(o) == o.addr - HeaderSize

\* Mutant: the free run behind the block is forgotten.
PhysFreeDropsTail(o) ==
  LET b == BlockOf(o)
      p == hdr[b].prev
      n == hdr[b].next
  IN  /\ pc = "ready"
      /\ hdr[b].sound
      /\ hdr' = [c \in Blocks \ {b} |->
                   IF c = p THEN [hdr[p] EXCEPT !.next = n, !.free = @ + hdr[b].size + HeaderSize]
                   ELSE IF c = n /\ b # phys_final_block
                     THEN [hdr[c] EXCEPT !.prev = p]
                   ELSE hdr[c]]
      /\ phys_final_block' = IF b = phys_final_block THEN p ELSE phys_final_block
      /\ owned' = owned \ {o}
      /\ UNCHANGED <<mmap, pc, entry, cursor, phys_first_block, asked, selected_block>>

\* Mutant: the header's own bytes are forgotten.
PhysFreeLosesHeader(o) ==
  LET b == BlockOf(o)
      p == hdr[b].prev
      n == hdr[b].next
  IN  /\ pc = "ready"
      /\ hdr[b].sound
      /\ hdr' = [c \in Blocks \ {b} |->
                   IF c = p THEN [hdr[p] EXCEPT !.next = n, !.free = @ + hdr[b].size + hdr[b].free]
                   ELSE IF c = n /\ b # phys_final_block
                     THEN [hdr[c] EXCEPT !.prev = p]
                   ELSE hdr[c]]
      /\ phys_final_block' = IF b = phys_final_block THEN p ELSE phys_final_block
      /\ owned' = owned \ {o}
      /\ UNCHANGED <<mmap, pc, entry, cursor, phys_first_block, asked, selected_block>>

\* A block leaves the list and its bytes go to the free run of its predecessor.
PhysFree(o) ==
  LET b == BlockOf(o)
      p == hdr[b].prev
      n == hdr[b].next
  IN  /\ pc = "ready"
      /\ hdr[b].sound
      /\ hdr' = [c \in Blocks \ {b} |->
                   IF c = p
                     THEN [hdr[p] EXCEPT
                             !.next = n,
                             !.free = @ + hdr[b].size + HeaderSize + hdr[b].free]
                   ELSE IF c = n /\ b # phys_final_block
                     THEN [hdr[c] EXCEPT !.prev = p]
                   ELSE hdr[c]]
      /\ phys_final_block' = IF b = phys_final_block THEN p ELSE phys_final_block
      /\ owned' = owned \ {o}
      /\ UNCHANGED <<mmap, pc, entry, cursor, phys_first_block, asked, selected_block>>

FreePanic(o) ==
  /\ pc = "ready"
  /\ ~ hdr[BlockOf(o)].sound
  /\ pc' = "halted"
  /\ UNCHANGED <<mmap, entry, cursor, list, asked, selected_block, owned>>

\* A client (outside this file) writes past the end of its block and hits the
\* signature of the header that follows without a gap.
Overrun(o) ==
  LET b == BlockOf(o)
  IN  /\ pc = "ready"
      /\ End(b) \in Blocks
      /\ hdr[b].free = 0
      /\ hdr' = [hdr EXCEPT ![End(b)].sound = FALSE]
      /\ UNCHANGED <<mmap, pc, entry, cursor, phys_first_block, phys_final_block,
                     asked, selected_block, owned>>

-----------------------------------------------------------------------------
Prepare ==
  \/ SkipEntry \/ FirstRegion \/ FrontRegion
  \/ StartInsert \/ InsertWalk \/ InsertRegion
  \/ EndOfMap \/ KernelWalk \/ KernelMisplaced \/ PlaceKernel

Scan == ScanBlock \/ ScanPanic \/ AllocFails \/ AllocSucceeds

Client ==
  \/ \E n \in Requests : PhysAlloc(n)
  \/ \E o \in owned : PhysFree(o) \/ FreePanic(o) \/ Overrun(o)

Next == Prepare \/ Scan \/ Client

\* The code runs on one processor and nothing preempts it: a loop that can take
\* a step takes it.  Clients are free to stop calling.
Fairness == WF_vars(Prepare) /\ WF_vars(Scan)

Spec == Init /\ [][Next]_vars /\ Fairness

-----------------------------------------------------------------------------
(* Properties.                                                             *)

Regions == {i \in 1 .. Len(mmap) : IsRegion(mmap[i])}

\* The regions prep_mem has put a header on so far, and those headers.
Prepared == {i \in Regions : i < entry}
Heads == {Start(mmap[i]) : i \in Prepared}

Booting == pc \in {"prep", "insert", "kernel"}
Serving == pc \in {"ready", "scan"}

KernelBlock == kernel - HeaderSize

TypeOK ==
  /\ mmap \in Maps
  /\ pc \in {"prep", "insert", "kernel", "ready", "scan", "halted"}
  /\ entry \in 1 .. Len(mmap) + 1
  /\ Blocks \subseteq Nat \ {0}
  /\ hdr \in [Blocks -> Block]
  /\ cursor \in Nat
  /\ phys_first_block \in Nat
  /\ phys_final_block \in Nat
  /\ asked \in Nat
  /\ selected_block \in Nat
  /\ owned \subseteq [addr : Nat, len : Nat]

\* The list runs through all headers in address order, from phys_first_block to
\* phys_final_block, however the E820 map was ordered and whatever was allocated
\* and freed: the next pointer of a header is the closest header above it.
Sorted ==
  \A b \in Blocks :
    IF hdr[b].next = 0
      THEN \A c \in Blocks : c <= b
      ELSE /\ hdr[b].next \in Blocks
           /\ b < hdr[b].next
           /\ \A c \in Blocks : c <= b \/ hdr[b].next <= c

Ends ==
  /\ Blocks = {} => phys_first_block = 0 /\ phys_final_block = 0
  /\ Blocks # {} => /\ phys_first_block \in Blocks
                    /\ phys_final_block \in Blocks
                    /\ \A c \in Blocks : phys_first_block <= c /\ c <= phys_final_block

ListInOrder == Sorted /\ Ends

\* No byte has two owners: what a header accounts for ends before the next header
\* starts, inside one region of the map.
BlocksApart == \A b, c \in Blocks : b < c => End(b) <= c

Contained ==
  \A b \in Blocks : \E i \in Prepared :
    Start(mmap[i]) <= b /\ End(b) <= Limit(mmap[i])

NoOverlap == BlocksApart /\ Contained

\* No byte is lost: in a prepared region the headers follow each other without a
\* hole, from the start of the region to its end.  This is what makes phys_free
\* right to give a block's bytes to block->prev without looking at addresses.
Tiled ==
  Serving =>
    \A i \in Regions :
      /\ Start(mmap[i]) \in Blocks
      /\ \A b \in Blocks :
           Start(mmap[i]) <= b /\ b < Limit(mmap[i]) =>
             \/ End(b) = Limit(mmap[i])
             \/ /\ End(b) < Limit(mmap[i])
                /\ hdr[b].next = End(b)
                /\ hdr[End(b)].prev = b

\* Each range a client holds is backed by a block of its own that is neither a
\* region's header nor the kernel's, is still on the list, and is large enough;
\* and nothing else is on the list, so a freed block is gone.
OwnedBacked ==
  \A o \in owned :
    /\ BlockOf(o) \in Blocks
    /\ BlockOf(o) \notin Heads \cup {KernelBlock}
    /\ o.len <= hdr[BlockOf(o)].size
    /\ \A q \in owned : q # o => BlockOf(q) # BlockOf(o)

NoStrayBlock ==
  Serving =>
    Blocks = Heads \cup {KernelBlock} \cup {BlockOf(o) : o \in owned}

Accounted == OwnedBacked /\ NoStrayBlock

\* The kernel image the boot loader put 96 bytes into a region is never
\* overwritten: no header is ever written into it, during prep_mem or later, and
\* no range a client gets touches it.
ImageEnd == kernel + KernelSize - BootOffset

ImageIntact ==
  /\ \A b \in Blocks : b + HeaderSize <= kernel \/ ImageEnd <= b
  /\ \A o \in owned : o.addr + o.len <= kernel \/ ImageEnd <= o.addr

\* Once every range has been freed, in whatever order, memory looks as it did
\* when the kernel had just been placed: nothing stays fragmented.
Defragmented ==
  Serving /\ owned = {} =>
    \A i \in Regions :
      LET s == Start(mmap[i]) IN
      IF s + HeaderSize = KernelBlock
        THEN hdr[s].free = 0 /\ End(KernelBlock) = Limit(mmap[i])
        ELSE End(s) = Limit(mmap[i])

\* phys_alloc's comment: blocks keep 16-byte alignment.
Aligned == \A o \in owned : o.addr % 16 = 0

\* The kernel stops only for a reason: a client overwrote a signature, or the
\* region the boot loader picked has an unaligned base, so that no header lies 96
\* bytes below the kernel.
HaltsForAReason ==
  pc = "halted" => \/ \E b \in Blocks : ~ hdr[b].sound
                   \/ kernel % 16 # 0

\* phys_alloc serves a request from the smallest free run that is large enough,
\* the lowest of those, and refuses it only if no free run is large enough.
BestFit ==
  [][pc = "scan" /\ pc' = "ready" =>
       IF owned' = owned
         THEN \A b \in Blocks : ~ Fits(b)
         ELSE \E b \in Blocks :
                /\ Fits(b)
                /\ \A c \in Blocks :
                     Fits(c) => \/ hdr[b].free < hdr[c].free
                                \/ hdr[b].free = hdr[c].free /\ b <= c
                /\ owned' = owned \cup
                     {[addr |-> End(b) - hdr[b].free + HeaderSize, len |-> asked]}]_vars

\* An overwritten signature is never lost, and no request is answered after one:
\* the next phys_alloc, wherever it would have allocated, panics instead.
OverflowCaught ==
  [][/\ \A b \in Blocks : ~ hdr[b].sound => b \in Blocks' /\ ~ hdr'[b].sound
     /\ (\E b \in Blocks : ~ hdr[b].sound) => ~ (pc = "scan" /\ pc' = "ready")]_vars

\* Every loop over the list ends: booting gets to its end, and every request is
\* answered (or panics).
LoopsEnd == <> ~ Booting /\ (pc = "scan" ~> pc # "scan")

\* The inductive invariant behind NoOverlap, Tiled, Accounted and ImageIntact.  What it
\* adds: a block that is not a region's header starts where its predecessor's free
\* run ends (this is what phys_free relies on), the last block of a region reaches
\* the region's end, and what the loops know about the blocks behind them.
HeadsListed == Heads \subseteq Blocks

Follows ==
  \A b \in Blocks \ Heads :
    /\ hdr[b].prev \in Blocks
    /\ hdr[hdr[b].prev].next = b
    /\ End(hdr[b].prev) = b

RegionTail ==
  \A b \in Blocks : hdr[b].next \in Heads \cup {0} =>
    \E i \in Prepared : Start(mmap[i]) <= b /\ End(b) = Limit(mmap[i])

ListInv == Sorted /\ Ends /\ BlocksApart /\ Contained /\ HeadsListed /\ Follows /\ RegionTail

BootInv ==
  Booting => /\ Blocks = Heads
             /\ owned = {}
             /\ \A i \in Prepared : /\ hdr[Start(mmap[i])].size = 0
                                   /\ End(Start(mmap[i])) = Limit(mmap[i])

InsertInv ==
  /\ pc = "insert" => /\ entry <= Len(mmap) /\ IsRegion(region)
                      /\ cursor \in Blocks /\ cursor < Start(region)
  /\ pc \notin {"prep", "insert"} => entry = Len(mmap) + 1
  /\ pc \in {"kernel", "scan"} => cursor \in Blocks \cup {0}

\* The kernel's block directly follows the header of its region.
KernelPlaced ==
  /\ KernelBlock \in Blocks \ Heads
  /\ KernelBlock - HeaderSize \in Heads
  /\ hdr[KernelBlock].size = KernelSize - HeaderSize

KernelInv ==
  /\ Serving => KernelPlaced
  /\ pc = "halted" => KernelPlaced \/ (Blocks = Heads /\ owned = {})

\* The scan so far: the blocks below the cursor have intact signatures, and
\* selected_block is the best fit among them.
Scanned(b) == cursor = 0 \/ b < cursor

ScanInv ==
  pc = "scan" =>
    /\ \A b \in Blocks : Scanned(b) => hdr[b].sound
    /\ selected_block # 0 =>
         selected_block \in Blocks /\ Scanned(selected_block) /\ Fits(selected_block)
    /\ \A c \in Blocks : Scanned(c) /\ Fits(c) =>
         /\ selected_block # 0
         /\ \/ hdr[selected_block].free < hdr[c].free
            \/ hdr[selected_block].free = hdr[c].free /\ selected_block <= c

IInv ==
  /\ TypeOK
  /\ BootEntries(mmap) # {}
  /\ ListInv
  /\ BootInv
  /\ InsertInv
  /\ KernelInv
  /\ Accounted
  /\ ScanInv

\* What clients may rely on.
Arenas ==
  {[addr |-> Start(mmap[i]), len |-> Limit(mmap[i]) - Start(mmap[i])] : i \in Regions}

Image == [addr |-> kernel, len |-> KernelSize - BootOffset]

Promise == INSTANCE AllocatorPromise WITH
  granted <- owned, arenas <- Arenas, reserved <- {Image}

PromiseKept == Promise!Spec
=============================================================================
