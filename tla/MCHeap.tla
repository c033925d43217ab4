------------------------------- MODULE MCHeap -------------------------------
(***************************************************************************)
(* Small instances of Heap: slabs of 24 bytes, so that a slab holds three    *)
(* objects of 8 bytes or one of 24.                                         *)
(***************************************************************************)
EXTENDS Heap

HeapBase == 1000

\* Room for `c` caches and `s` slabs.
Room(c, s) == HeapHeader + c * CacheBytes + s * (SlabHeader + 24)

\* Three slabs under one cache, or two under two caches: the heap runs out of room
\* for a cache in the first case, for a slab in the second.
MCHeapSize == Room(1, 3) + 8

\* A block of physical memory behind the heap.
MCLarge == {HeapBase + MCHeapSize + 48}
=============================================================================
