------------------------------ MODULE MemoryMap ------------------------------
(***************************************************************************)
(* boot/second_stage.asm, get_memory_map: the E820 map is stored at 0x1000,  *)
(* 24 bytes per entry, one BIOS call per entry, and ends in the dword 0x55AA. *)
(* A BIOS tells the end either with the last entry (ebx = 0) or by failing   *)
(* the call after it (carry).                                               *)
(***************************************************************************)
EXTENDS Integers, Sequences

MapStart == 4096      \* 0x1000
MapLimit == 8192      \* 0x2000, where the disk buffer begins
EntrySize == 24

EndSignature == 21930 \* 0x55AA

\* A BIOS: its entries, how it tells the end, and how it answers the first call.
Bios == [entries : Seq([address : Nat, length : Nat, usable : BOOLEAN]),
         last : {"zero", "carry"},
         first : {"ok", "carry", "unsigned"}]

\* What the loader relies on: the BIOS reports something; and if it tells the end with
\* the last entry, the map is not a single entry (ebx is not looked at after the first
\* call) nor the one that leaves no room for the end signature (171 entries).
SoundBios(b) ==
  /\ b \in Bios
  /\ Len(b.entries) > 0
  /\ b.last = "zero" => Len(b.entries) \notin {1, (MapLimit - MapStart) \div EntrySize + 1}

VARIABLES
  bios,
  mappc,      \* "first", "more", "stored" or "failed"
  di,         \* where the entry of the last call is
  next,       \* ebx: the number of entries to skip, 0 at the start and at the end
  table,      \* the entries stored from MapStart on
  sentinel    \* where the end signature is; 0 before there is one

mapvars == <<bios, mappc, di, next, table, sentinel>>

MapInit(b) ==
  /\ bios = b
  /\ mappc = "first"
  /\ di = MapStart
  /\ next = 0
  /\ table = << >>
  /\ sentinel = 0

NoMap ==
  /\ mappc = "first"
  /\ bios.first # "ok"
  /\ mappc' = "failed"
  /\ UNCHANGED <<bios, di, next, table, sentinel>>

\* ebx after the call that returns entry n.
Continuation(n) ==
  IF n = Len(bios.entries) /\ bios.last = "zero" THEN 0 ELSE n

\* The call returns the entry after `next`.
Answer ==
  /\ table' = Append(table, bios.entries[next + 1])
  /\ next' = Continuation(next + 1)

\* ebx is not looked at after the first call.
FirstEntry ==
  /\ mappc = "first"
  /\ bios.first = "ok"
  /\ Answer
  /\ mappc' = "more"
  /\ UNCHANGED <<bios, di, sentinel>>

TooManyEntries ==
  /\ mappc = "more"
  /\ di + EntrySize >= MapLimit
  /\ mappc' = "failed"
  /\ UNCHANGED <<bios, di, next, table, sentinel>>

MoreRoom == mappc = "more" /\ di + EntrySize < MapLimit

\* The call fails: the entry before was the last one.
EndByCarry ==
  /\ MoreRoom
  /\ next = Len(bios.entries)
  /\ sentinel' = di + EntrySize
  /\ di' = di + EntrySize
  /\ mappc' = "stored"
  /\ UNCHANGED <<bios, next, table>>

\* Mutant: the signature is written over the last entry.
NextEntryOverwrites ==
  /\ MoreRoom
  /\ next < Len(bios.entries)
  /\ Answer
  /\ IF next' = 0
       THEN di' = di + EntrySize /\ sentinel' = di + EntrySize /\ mappc' = "stored"
       ELSE di' = di + EntrySize /\ UNCHANGED <<sentinel, mappc>>
  /\ UNCHANGED bios

\* The call yields an entry; ebx = 0 says that it is the last one.
NextEntry ==
  /\ MoreRoom
  /\ next < Len(bios.entries)
  /\ Answer
  /\ IF next' = 0
       THEN di' = di + 2 * EntrySize /\ sentinel' = di' /\ mappc' = "stored"
       ELSE di' = di + EntrySize /\ UNCHANGED <<sentinel, mappc>>
  /\ UNCHANGED bios

MapNext == NoMap \/ FirstEntry \/ TooManyEntries \/ EndByCarry \/ NextEntry

-----------------------------------------------------------------------------

\* The map that is stored is the BIOS's: every entry once and in order, directly
\* followed by the end signature, all of it in front of the disk buffer.
MapStored ==
  mappc = "stored" =>
    /\ table = bios.entries
    /\ sentinel = MapStart + EntrySize * Len(table)
    /\ sentinel + 4 <= MapLimit
=============================================================================
