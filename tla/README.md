# A verification project for BlackDiamondOS / HaematiteOS

BlackDiamondOS is a small x86-64 operating system in assembly and C: a BIOS boot
loader that enters long mode, and a freestanding kernel with memory managers, PCI,
AHCI, ACPI, interrupts and a framebuffer console. There are no processes and, apart
from interrupts that the kernel does not enable yet, no preemption. What is hard here
is therefore not locking. It is

- in-place data structures, whose state is spread over headers inside the memory they
  describe, under any sequence of calls (`physical.c`, `heap.c`);
- code that runs on top of what it changes (page tables, the disk buffer, the map);
- hardware and firmware that act between two accesses of a polling driver (AHCI, the UART,
  the keyboard controller, the BIOS services);
- boundaries: alignments, table ends, counts modulo a word, whole clusters against bytes.

The modules below are translations of the source; documentation and comments are only
quoted where a run shows the code to differ from them.

## 1. Inventory

| Component | Source | State | Operations | Interacts with |
|---|---|---|---|---|
| Second-stage loader | `boot/second_stage.asm`, `boot/util/*.asm` | A20 line, E820 table at 0x1000, disk buffer at 0x2000, VBE info, page tables, location and size of the kernel | check system, enable A20, store the map, load the kernel, pick and set a mode, build the tables, jump | BIOS (int 10/13/15/1A), keyboard controller, the disk; hands map, kernel size and location to `kmain` |
| Boot records | `boot/mbr`, `boot/vbr` | the record at 0x7C00, partition table, BPB, registers and stack | menu, load of the VBR, load of the second stage | BIOS, user; FAT code shared with the second stage, which finds drive and partition on the stack |
| Physical memory manager | `kernel/mem/physical.c` | list of `phys_mem_block` headers inside the memory they describe | `prep_mem`, `phys_alloc`, `phys_free`, `_check_phys_block` | E820 map and kernel size from the loader; the heap, the framebuffer and `kmain` are its clients |
| Kernel heap | `kernel/mem/heap.c` | caches, available and full lists of slabs, chains of free objects, free lists of slabs and caches | `heap_init`, `malloc`, `cmalloc`, `free` | `phys_alloc`/`phys_free` for requests above a slab |
| Memory primitives | `kernel/core/mem.asm` | registers of the loop | `memset`, `memcpy` | everybody |
| PCI | `kernel/core/pci.c` | list of devices | `init_pci`, configuration reads and writes | heap; walked by the AHCI driver |
| AHCI and disks | `kernel/disk` | controllers, ports, command lists, disk list | `_ahci_init`, `__init_port`, `__send_cmd`, `__register_ahci_disk` | BIOS, controllers (DMA), PCI, heap |
| ACPI | `kernel/acpi` | pointer to the MADT and the local APIC | `init_acpi` | firmware tables; `kpanic` when there is no pointer |
| Interrupts | `kernel/core/interrupts.*` | IDT, PIC masks | `init_interrupts`, `add_interrupt`, `irq_eoi`, `irq_unmask` | heap; behind the endless loop of `kmain` at this commit (`kernel.c:105`), as are PCI and disks |
| Video | `kernel/video` | front, back and active buffer, font, colours | `init_video`, `put_*`, Targa decoder, scaling | `phys_alloc`, `memcpy` |
| Kernel main, serial, utilities, ports | `kernel/core` | `kheap`, the log | `kmain`, `serial_kpanic`, `kpanic`, `debug`, `itoa` | everybody |

What makes each of them correct:

- *loader*: A20 is relied on only when it is on; the stored map is the BIOS's; the image
  is the whole file and stays inside its region; the best mode is set and described; code
  and stack stay mapped while the tables are rewritten.
- *physical memory*: blocks tile each region, nothing handed out overlaps anything else or
  the kernel, requests are served best-fit, an overrun is noticed before the list is used.
- *heap*: objects, slabs and caches are on exactly one list, counts agree with chains,
  nothing is handed out twice, everything comes back.
- *memory primitives*: exactly the bytes asked for, no alignment fault.
- *PCI*: every reachable device once.
- *AHCI*: nothing is set up under the feet of the BIOS, a reset or a running engine; a
  command is complete when the controller can see it.
- *boot records*: the second stage gets the drive and the partition that was chosen, and is
  there as a whole.
- *ACPI*: the right tables are trusted, the last override in them counts.
- *interrupts*: nothing is delivered that has no gate, while the setup is on its way.
- *video*: a picture comes out as its writer meant it; what is shown is the nearest pixel;
  nothing is drawn outside of a buffer.
- *kernel main and log*: the kernel comes to its loop or stops with a message that is
  complete, on the screen or on the line.

The hazards, each at its line, are in `PROJECT.json`.

## 2. Modules and how they correspond to the code

| Module | Models | State | Steps |
|---|---|---|---|
| `AllocatorPromise` | what any allocator promises (abstract) | ranges granted | `Grant`, `Release` |
| `PhysicalMemory` | `physical.c`, plus the loader's choice of region | one record per header, by address; locals of the loop that runs | one action per turn of a loop: `Prepare` is `prep_mem`, `PhysAlloc`+`Scan` is `phys_alloc`, `PhysFree`; `Overrun` is a client that writes past its block |
| `Heap` | `heap.c` | caches and slabs by address, first words of free objects, three free counters | one action per part of `malloc` and `free` between two calls of helpers |
| `BlockMove` | `mem.asm` | memory, registers | one action per turn of each copy loop |
| `Canvas` | `drawing.c`, `framebuffer.c`, `text.c`, scaling and `round` | none: operators on buffers, which are functions from offsets to colours | one operator per drawing function |
| `Targa` (extends `Canvas`) | `put_targa` | place in the file and in the picture | one pixel or packet header |
| `Serial` | `serial.c`, `itoa` | what is to be logged, the digits being flipped, the UART | one register write, one digit, one swap, one character; the UART sends |
| `Acpi` | `acpi.c`, `madt.c` | candidate, table, offset into an MADT, the two addresses | one candidate, one table, one entry |
| `Kernel` (composes the three above) | `kernel.c`, `init_video`, `set_font` | `stage`, `kheap`, front and back buffer, box, font | one call of `kmain`, `draw_logo`, `kpanic` |
| `Interrupts` | `interrupts.c` | words written to the two controllers, table, interrupt flag | one write, one gate |
| `PciEnumeration` | `pci.c` | a stack of frames for the recursion, the device list | one turn of the slot or function loop |
| `Ahci` (extends `PciEnumeration`) | `ahci.c` `_ahci_init`, `_make_disk` | `hba` registers and `regs` per port | one register access of the driver; steps of BIOS and controllers in between |
| `Drivers` | the calls behind `kmain`'s loop | all of `Interrupts`, `PciEnumeration` and `Ahci` | composes them in their order |
| `Fat32` | `fat32.asm` | the volume | operators shared by both loaders |
| `BootRecords` (extends `Fat32`) | `boot/mbr`, `boot/vbr` | `dx`, `si`, stack, what is loaded where | one BIOS call or one part between two of them |
| `EnableA20` | `second_stage.asm` 67-139 | the line and when it will come up, method, count of checks, the keyboard controller's buffers | one check, one access of the handshake; the controller takes what it was sent |
| `MemoryMap` | 141-171 | table, `di`, `ebx`, end signature | one BIOS call |
| `KernelLoad` (extends `MemoryMap`, `Fat32`) | 173-292 | region index, destination, cluster, contents of the disk buffer, image | one entry of the map, one read, one copy, one FAT entry |
| `VideoMode` | 294-369 | place on the list, `ax`, best so far, `vbe_mode_info` | one mode |
| `PageTables` | 371-459 | directory pointer table, directories | one table entry |
| `BootLoader` | the boot loader | all of the above and `stage` | composes the records and the five parts in their order |

`MC*.tla`/`.cfg` are the instances. Address 0 is the null pointer throughout. A definition
whose comment begins with `Mutant:` is not part of the model: it is the way a plausible
bug would change the definition below it, and shows that a property can fail.

### Abstractions

- Headers are records at their addresses; the bytes of a header are only distinguished
  from those of a block by the address. A signature is intact or not.
- Only control of the loaders is kept: strings and progress messages are left out.
- In `Heap` a physical block is one of a set of addresses; `phys_alloc` itself is
  `PhysicalMemory`, and both implement `AllocatorPromise`.
- In `PageTables` a frame is a number of 2 MiB, page 0 holds code, stack and tables.
- In `KernelLoad` a cluster is its number; where it is on the disk is not modelled, nor
  is a second copy of the FAT (the code assumes that there is one). Reads of a volume boot
  record may fail, as the code has a path for that; all others succeed.
- In `BootRecords` what the menu prints is the set of numbers that are on it; the digit counts
  up through the memory behind the table, of which only matters whether it shows something.
- In `Acpi` a table is what the code can tell of it: signature, length, entries, and whether all
  its bytes and the bytes it looks at sum to zero.
- In `Kernel` the answers of the allocators are part of the machine (`PhysicalMemory` and `Heap`
  model them). Colours are four bytes; a buffer keeps writes behind its end, so that they can
  be seen. `round` of a quotient that floats cannot represent may fall to either side when it
  is exactly one half.
- In `Serial` numbers have `Word` values; the buffers of `itoa` are as large as `Word` needs.
- In `Interrupts` devices and exceptions are not steps: the property speaks of what could be
  delivered in a state.
- In `PhysicalMemory` numbers do not wrap where `phys_alloc` rounds: requests are far below 2^64.
  (The one subtraction that does wrap in practice, of `prep_mem`, does so in the model.)
- In `Kernel` rows of a glyph are as far apart as the code has them; only fonts of 8 pixels are run,
  where this is also what PSF says.
- In `Ahci` what a structure in memory holds is the set of its parts that were written.
  The answer of `Detected`/`NotDetected` is open whenever a disk is attached, as the code
  reads the status without waiting for the link to come up after its reset.

## 3. Runs

| Run | What it shows | Bounds |
|---|---|---|
| `phys_alloc` | `physical.c` from boot on: tiling, no overlap, image intact, best fit, overruns caught, the loops end, refinement of `AllocatorPromise` | four maps with low, unusable, small, unaligned, adjacent, out-of-order and unreachable regions; requests of 0, 17 and 40 bytes; a few hundred bytes of memory, so that runs split, merge and run out |
| `phys_misaligned` | *finding*: a kernel size that is no multiple of 16 | one map |
| `phys_tight_region` | *finding*: a region as large as the kernel | one map |
| `heap_objects` | the heap under every sequence of supported calls | room for one cache with three slabs or two with two; 3 objects of 8 bytes or 1 of 24 per slab, one large block |
| `heap_lost_object` | *finding*: second free into a slab that was full | same code, small heap, all frees |
| `heap_stale_next` | *finding*: the first of two full slabs | same |
| `block_move` | `memset`, `memcpy` | 112 bytes, 8 offsets, counts around 0, 16, 32 and 47 |
| `drivers` | interrupts set up with nothing deliverable, every device listed once, controllers taken over, ports and the first command | 1,408 topologies, up to four buses of two slots and two functions, bridges nested two deep; two controllers, two ports, two slots; three exceptions and 21 vectors, every exception's wrapper with and without memory |
| `kernel` | `kmain` up to its loop: log, logo, ACPI, both panics | 830 machines: screens that are wide, high, padded, and large enough for the text box and logo to be more than doubled or for a frame; each of the five allocations failing; logos in all four encodings, from the top and from the bottom, mapped or not, packed with every kind of packet, and refused ones; fonts with a wrong number or without flags; two lists of up to two of nine tables, pointers in all pairs of places |
| `kernel_sampled` | *finding*: rows are clamped to the width | one logo that is wider than high |
| `kernel_bottom_up` | *finding*: packed pictures from the bottom left are one row too low | one logo of 2 by 2 pixels |
| `boot` | the boot records and the second stage | 638 machines that vary one part at a time: partition tables with none, one and two partitions on media with and without extended reads and with failing ones, four volumes for the second stage; every delay at the edges of the A20 timeout, a key waiting in the controller, no controller; both E820 styles, up to 170 entries with the real table size, and more than fit; five volumes and seven layouts; all lists of up to three of five modes; 3 directories of 4 entries |

The bounds are chosen at the smallest size at which each branch of the code is taken more than once
in a run. The sizes of headers (those of the packed structures), the map and the clusters are the
real ones; what is scaled are memory sizes (`PhysicalMemory`), the slab (`Heap`), the A20 timeout,
the reach of relative jumps (`RelLimit`, 1 GiB, as TLC's integers are 32 bits wide), the number of
directories and their entries, slots and functions, and in `kernel` the screen, the text box (18
instead of 350), the glyphs (8 by 2), the heap (`HeapPixels`), the steps of the search for the
pointer (`EbdaSlots`, `RomSlots`) and the largest number (`Word`, 256, with the buffers of `itoa` as
tight for it as the real ones are for 2^64).

`CHECK_DEADLOCK FALSE` is set where the system really stops: after a panic, when the call,
the walk or the loader is over, or when the driver waits for good. `heap_objects` is checked
for deadlock.

### Preconditions

- `RoomForKernel` (proofs about `PhysicalMemory`): the picked region also holds its header.
  `phys_tight_region` shows that the loader does not see to it.
- `Supported` (`heap_objects`): clients do not free in the two ways that `free` gets wrong,
  which are the subject of `heap_lost_object` and `heap_stale_next`.
- `SoundTopology`: firmware gives every bridge its own, higher bus number.
- `SoundVolume`: cluster numbers are below the mark that ends a chain. `SoundFile`: the file is not
  empty and its chain is as long as its size calls for. `SoundSecond`: the second
  stage ends below 64 KiB, see the hazard at `bootsrap.asm:36`.
- `SoundBios`, `SoundVideo`: see the last item.
- `KernelAssumption`: the text box and its scaled copy fit into the heap that `kpanic` writes
  them to (`HeapPixels`), sizes fit into a word, and glyphs are small enough for three lines of text
  (`SoundFont`). `SoundTable`, `SoundRoot`, `SoundFirmware`: lengths of tables and entries add up, as
  firmware has them; in particular no entry has length 0, which would keep the walk of `madt.c:18` at
  its place. `SoundTarga`: a logo is not empty.
- `Encodes` (what `LogoDecoded` compares with): the bytes of a file are an encoding, in the sense of
  the format, of the picture that the machine names. TLC evaluates it on every logo of a run
  (`LogosEncoded`).
- The logos of `kernel` are square or at most doubled in height; others are the subject of
  `kernel_sampled`.
- The machines of `boot` report neither one entry nor 171 entries with `ebx = 0` at the
  last one, and no mode whose pixels end in 0xBEEF: the code handles none of these, see the
  hazards at `second_stage.asm` 154, 157 and 312.

### Fairness

- `PhysicalMemory`: weak fairness of `Prepare` and `Scan`; a call that has begun runs on.
  Nothing is assumed about clients.
- `BlockMove`: weak fairness of `Next`; one thread, with interrupts off, that no one else can
  stop.
- `BootLoader`: weak fairness of `Boot`, all steps but the user's. Nothing is assumed about the
  user: `BootDecides` says that the loader always comes to an end or to the question.
- `Kernel`: weak fairness of `Kmain` and of the UART, which the log waits for.
- `Drivers`: weak fairness of the kernel and of each controller's own steps (`BiosLetsGo` or
  `BiosFinishes`, `ResetDone`, the engines, `Complete`), but not of `BiosUses`. The code polls
  without timeouts and so relies on exactly this.
- `Heap`: none; its properties are safety properties.

## 4. Findings

1. `physical.c:178`: the kernel's size is not rounded to 16 (`Aligned`).
2. `second_stage.asm:223`: a region that is large enough for the kernel, but not for the
   header in front of it, is picked; the free count wraps around (`Contained`).
3. `heap.c:142`: the search for the free object before the freed one runs to the null pointer
   and loses the object (`ChainKept`).
4. `heap.c:183`: a slab that leaves the full list drags the rest of it along (`FullListed`).
5. `processing.c:94`, `:175`: a packed picture from the bottom left is drawn from row `height` on,
   so that it comes out one row too low (`DrawnBottomUp`).
6. `processing.c:257`: a row that was rounded up is clamped to the width of the picture
   (`SampledInside`).

Other disagreements between code and intent that the models contain, without a run of their own: the
menu counts to 4 instead of `'4'` and lists what is behind the partition table (`bootstrap.asm:30`);
without extended reads the record runs over its `hlt` (`bootstrap.asm:88`); a second stage of more
than 33280 bytes is accepted and wraps around (`bootsrap.asm:36`); a key that waits in the keyboard
controller is written to its output port (`second_stage.asm:103`); an E820 map of 171 entries or of
one (`second_stage.asm:154`, `:157`); the end signature of the map is written as four bytes
(`second_stage.asm:170`) and compared as eight (`physical.c:142`), over memory that was never
cleared; the reset of a port's link is never ended (`ahci.c:206`); the checksum of a table covers
its length modulo 256 (`acpi.c:52`), and the last 8 bytes of an MADT are not looked at
(`madt.c:17`); the second disk would get the first one's number (`disk.c:24`); `set_font` takes
fonts whose flags say that there is a Unicode table and refuses the others (`text.c:23`), its
comment says the opposite (`text.c:20`); rows of a glyph are `width / 8` bytes apart, rounded down,
where the comment says that they are rounded to a byte (`text.c:43`).

What no property catches, because the code has no path for it or because it is what the property takes
for granted (the hazards in `PROJECT.json` without a property):

- the stray entries of the menu, a second stage of more than 33280 bytes, the two E820 maps, the four
  bytes of the end signature and the link reset, all named above;
- the reset of the machine by a key's scan code: `A20Decided` admits it;
- the truncated checksum: `Trusted`, by which `LapicFound` judges tables, is the sum that the code
  forms;
- failing disk reads of the second stage.

## 5. Proofs

TLAPS checks the following for all values of the constants. Every proof module but the first extends
the module it is about (`HeapProofs` extends `HeapListProofs`); nothing is assumed besides the named
`ASSUME`s of the modules.

| Proof module | About | Main results |
|---|---|---|
| `NaturalsFacts` | natural numbers | least elements, induction, division, functions defined by recursion |
| `PhysicalMemoryProofs` | `PhysicalMemory` | `IInv` is inductive; `TypeOK`, `NoOverlap`, `Accounted`, `Tiled`, `ImageIntact`, `Defragmented`, `HaltsForAReason`; `BestFit`, `OverflowCaught`; `PromiseKept` |
| `HeapListProofs` | `Heap`, the lists of slabs and caches | `ListedInv` is inductive; `EachOnOneList` |
| `HeapProofs` | `Heap`, the objects of the slabs | `HeapInv` is inductive; `ObjectsAccounted`, `AllReturned`, `NullNotFollowed`; `RefusedWhenExhausted`; `PromiseKept` |
| `BlockMoveProofs` | `BlockMove` | `MoveInv` is inductive; `MovesExactly`, `NoFault` |
| `BootLoaderProofs` | `BootLoader` and its parts | `LoaderInv` is inductive; `SecondStageReady`, `A20Decided`, `MapStored`, `ImageLoaded`, `BestMode`, `IdentityMapped`, `KernelGetsMachine`; `NoFlushNeeded` |
| `DriversProofs` | `Drivers` | `DriversInv` is inductive; `NoStrayInterrupt`, `FoundOnce`, `CommandComplete`; `BasesStable` |
| `KernelProofs` | `Kernel` and its parts | `ShapeInv`, `AcpiInv` are inductive, and on top of them `LogoInv`, `PanicInv`, `DecodeInv`, `LogInv`; `WritesInside`, `LapicFound`, `LogoShown`, `PanicShown`, `LogoDecoded`, `LogSent` |

*Physical memory.* `NoOverlap` alone is not inductive: whether splitting a run or giving a
block to its predecessor keeps blocks apart depends on the links. `IInv` says that
the list is the headers in address order (`ListInv`), that each region has exactly one head
of size 0 whose block ends where the next one begins or the region ends, that clients' ranges
are backed by headers, and, for the loops, where the cursor and the selected block may be
(`BootInv`, `InsertInv`, `ScanInv`). The operators that carve and free a block are treated
once, as lemmas on the list (`CarveListInv`, `FreeListInv`, `InsertListInv`); each action then
has a lemma of its own. `Defragmented` needs in addition that heads own nothing
(`HeadsEmpty`), and `HaltsForAReason` that the search for the kernel's block has not passed
it (`NotPassed`): with `RoomForKernel` it finds the block before the list ends.

*Heap.* The properties speak of what the loops over `->next` find, so the invariant has to say that
the pointers are lists. It does so in two layers, each under names for what the pointers stand for.
`ListedInv(L, M)`: the sequences `L` and `M` are the lists of slabs (the available and the full ones
of each cache, the free ones) and of caches, each header is on one of them at one place
(`ListsInv`), headers lie in what was cut off and apart (`SpaceInv`), listed caches have different
sizes and the others are empty (`CachesInv`), the lists say which slabs are full (`FullInv`), and
the locals of a call name a cache and a slab on the right list (`CallInv`). Every step but the cuts
from `free_space` takes a header off one list and appends it to another, and this is treated once
for both kinds of headers (`Move`, `Add`); between the two halves the header is on a list of its own
(`HandKey`). That `Walk` returns such a list needs induction along it. `HeapInv(L, M, N)` adds the
objects: `N` maps the slabs in use to the sizes of their objects, and for each slab there is a
sequence `q` that is its chain (`ChainOf`): it starts at `first_free`, follows the links, ends with
null or behind the last object, holds exactly the objects that have a link, and the other objects
are the clients'; the count is what is missing from `q`. Clients hold such objects or blocks of the
memory manager (`ClientsInv`), and a slab whose last object was given back, whose chain is then not
looked at again, is the only one in use that is empty besides the one just made (`EmptyInv`). That
is what `AllReturned` needs; `RefusedWhenExhausted` needs that the chain of a slab that is not full
is not empty (`TakenFree`), so that `malloc` does not return a null pointer from it.

*Memory primitives.* The invariant relates memory to memory at the call: what is behind the
destination pointer is what was asked for, everything else is as it was; and the pointers
differ from those of the call by the same amount.

*Boot loader.* Each part has an invariant of its own; `StageInv` says what the parts that are
over have left behind and that the others have not begun. The loops over a file
relate what they have copied to the first clusters of its chain. For the A20 line
the invariant counts: the line comes up at a known check, so that a method that was given up was
too slow. `PageTables` distinguishes the directories that the processor sees from the ones that
are being written; a translation changes only outside of what is in use.

*Drivers.* What a device may do between two accesses is the difficulty. For the controllers the
invariant (`HbaInv`) has one rule for each part of the handshake: the controllers that the driver
has claimed (`Taken`) are its own, and the ones it is done with (`Switched`) are in AHCI mode;
`PortAt` says for each step of the driver what the registers and the command memory of the port it
is at hold, and `RegsInv` that no other port has a command. For the walk over the buses the
invariant (`WalkInv`) says that there is a set `E` of buses that were entered, each but the first
behind a bridge that was met; that what is on the list was met on one of them; that where the walk
over a bus goes on it has passed what was met there; and that the buses of the stack grow.
`ReachableBuses` is the least set that is closed under bridges. For the interrupts the invariant
follows the words that each controller expects.

*Kernel.* `ShapeInv` says for each stage which buffers there are and how large, so that no drawing
operator leaves one: `PutRect`, `Scale` and `Composite` are treated once each, and the cursor of a
panic stays inside the text box because a line is broken before it does (`CursorFits`). `AcpiInv`
relates the place in the tables to the last trusted MADT behind which there is no other; inside an
MADT, the entries passed so far to the last override among them. `LogoInv` and `PanicInv` follow a
picture from its buffer through scaling and composition to the screen, where only the area of a
panic may cover it: each place shows a pixel that is nearest (`Nearest`), whatever `round` makes of
a half. `DecodeInv` is the loop invariant of `put_targa`: the pixels drawn so far are those of the
file, the next packet is the one the writer made, and what is left of the packet in hand agrees with
the picture.

*The log.* `LineInv` says that what the kernel logged is what is on the line, then the character the
UART holds, then what is left (`SaidInv`); that the settings are those of `serial_init` as far as its
writes are done (`UartInv`); and what `itoa`'s buffer holds of the digits of the number it is at
(`ItoaInv`): while it divides, the last digits behind the terminator, the first ones still in the
number (`DigitsAt`); while it flips, the digits in order outside of its two pointers and reversed
between them (`FlipAt`). Taking a number apart and writing its digits in its place says the same
(`SaysConcat`, `SaysChars`), and a smaller number has no more digits (`DigitsMonotonic`), which bounds
the buffer. `Digits` and `FlattenSeq` are recursive functions, each of which is shown to exist and to
satisfy its equation by induction on its bound (`DigitsEquation`, `FlattenGrows`).

Induction is needed for chains, lists and stacks. It is done with sets in the place of
predicates: the numbers for which a claim fails have a least element (`LeastNatural`,
`SetInduction` in `NaturalsFacts`), which the claim's step contradicts.

*Assumptions.* `RoomForKernel` for `PhysicalMemory`; `Supported` for `Heap`: clients free what they
hold, and only what `free` handles (`Handled`; the other cases are findings); for machines
`MachineAssumption` of `BootLoader` (`SoundBios`, `SoundVolume`, `SoundFile`, `SoundSecond`,
`SoundVideo`) and of `Drivers` (`SoundTopology`), and `KernelAssumption`, see Preconditions; for
`LogoCorrect` that no logo is more than doubled in height unless it is square (`LogoFits`; the 540
by 610 pixels of the logo that is shipped are, on any screen of up to 6100 lines), and for
`DecodeCorrect` that accepted files encode a picture (`LogoSound`; a height within 128 of 65536
would let `pixel_y` wrap around inside a packet); for `LogCorrect` that the two buffers have room for
the longest number and its terminator (`BuffersLarge`: 16 and 20 digits for 64 bits, in the code's 17
and 21 bytes) and that addresses in the firmware's tables are such numbers (`AddressesFit`). TLC
evaluates each on the machines of a run.

Only model-checked:

- liveness (`LoopsEnd`, `Returns`, `EnumeratesAll`, `BootDecides`, `InitEnds`, `KernelEnds`): the
  prover does not reach it under fairness;
- that the runs of the findings are violations.

## 6. Not modelled

The addresses of clusters on the disk; MSRs, segments and descriptors; port instructions and
`start.asm`; what an interrupt handler does (the wrappers of `interrupts.asm` and
`isr_wrappers.asm`, `irq_eoi`): no line of a device is ever open, and every exception but the
debug one ends in `kpanic`; `align`; dump functions, which only print; `pci_set_bar` and
`get_pixel`, which have no callers; `_ahci_read` and `_ahci_write`, which are empty, and so
`get_disk`, `disk_read` and `disk_write`; failing disk reads of the second stage, for which the
code has no path; memory exhaustion outside the allocators and `kmain`'s own checks, where the
code uses results unchecked; the build.

## 7. Plan

1. (done) `AllocatorPromise`, `PhysicalMemory`, `Heap`, `BlockMove`: the memory the rest of
   the kernel stands on, with proofs of the first and the last.
2. (done) The second stage, PCI and AHCI: the behaviour towards hardware.
3. (done) `Canvas`, `Targa`, `Serial`, `Acpi` composed in `Kernel`; `Interrupts`,
   `PciEnumeration` and `Ahci` composed in `Drivers`; `BootRecords` in front of the second stage,
   and the handshake with the keyboard controller.
4. (done) Proofs of `PhysicalMemory`, `Heap` for supported clients, `BlockMove`, `BootLoader` with all
   its parts, `Drivers`, and `Kernel` with all its parts.
5. Composition: `BootLoader` handing its map and kernel size to `PhysicalMemory`, so that the
   preconditions of the latter become properties of the former; the map in bytes, for its end signature.
