-------------------------- MODULE MCPhysicalMemory --------------------------
(***************************************************************************)
(* Small instances of PhysicalMemory.  Addresses and lengths are those of a *)
(* machine with a few hundred bytes of memory; the layouts (a region below  *)
(* 1 MiB, unusable entries, regions too small for a header, adjacent,       *)
(* unaligned or out of order) are those of real E820 maps.                  *)
(***************************************************************************)
EXTENDS PhysicalMemory

MB == HighMemory

Usable(a, l) == [address |-> a, length |-> l, usable |-> TRUE]
Unusable(a, l) == [address |-> a, length |-> l, usable |-> FALSE]

LowMemory == Usable(0, 640)
Hole == Unusable(MB - 65536, 65536)

\* Too small for the kernel, but it takes one allocation.
SmallRegion == Usable(MB, 48 + 64)

\* The kernel fits, with room left.
MainRegion == Usable(MB + 1024, 48 + 128 + 144)

\* Out of the boot loader's reach, with an unaligned base; a region that touches
\* it is too small for a header.
OddRegion == Usable(MB + 4097, 15 + 48 + 144)
TinyRegion == Usable(MB + 4097 + 15 + 48 + 144, 40)

\* Touches the main region from above.
NextRegion == Usable(MB + 1024 + 48 + 128 + 144, 48 + 64)

MCMaps ==
  { <<LowMemory, Hole, SmallRegion, MainRegion, TinyRegion, OddRegion>>,
    <<OddRegion, MainRegion, SmallRegion>>,
    <<OddRegion, NextRegion, SmallRegion, MainRegion>>,
    <<Usable(MB + 8, 400), MainRegion>> }

TightMaps == { <<Usable(MB, 140), Usable(MB + 256, 128)>> }

=============================================================================
