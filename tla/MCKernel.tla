------------------------------ MODULE MCKernel ------------------------------
(***************************************************************************)
(* Kernel on machines that vary one part at a time: screens, memory, logos,  *)
(* fonts and firmwares.  Screens are small, a glyph is 8 by 2 pixels, and the  *)
(* panic text box has room for one character in a line.                      *)
(***************************************************************************)
EXTENDS Kernel

\* Logos: a palette of three colours, and pixels as indices into it.
Palette(bits) ==
  [k \in 0 .. 2 |-> <<10 * k + 1, 10 * k + 2, 10 * k + 3, IF bits = 24 THEN 0 ELSE 10 * k + 4>>]
Bytes(colour, bits) == SubSeq(colour, 1, bits \div 8)
MapBytes(bits) == FlattenSeq([k \in 1 .. 3 |-> Bytes(Palette(bits)[k - 1], bits)])

\* How a pixel is encoded in the file.
Encoded(k, type, bpp) ==
  IF type \in {1, 9} THEN (IF bpp = 8 THEN <<k>> ELSE <<k, 0>>) ELSE Bytes(Palette(bpp)[k], bpp)

\* A packet of n times the colour k, and one of pixels.
Rep(n, k) == [rep |-> TRUE, pixels |-> [i \in 1 .. n |-> k]]
Raw(ks) == [rep |-> FALSE, pixels |-> ks]

PacketBytes(p, type, bpp) ==
  IF p.rep THEN <<127 + Len(p.pixels)>> \o Encoded(p.pixels[1], type, bpp)
  ELSE <<Len(p.pixels) - 1>>
         \o FlattenSeq([i \in DOMAIN p.pixels |-> Encoded(p.pixels[i], type, bpp)])

\* The file of the packets, whose division an unpacked type does not keep.
ALogo(type, packets, w, h, bpp, entry, map, id, topleft) ==
  LET pixels == FlattenSeq([i \in DOMAIN packets |-> packets[i].pixels])
      bits == IF type \in {1, 9} THEN entry ELSE bpp
      body == IF type \in {9, 10}
                THEN [i \in DOMAIN packets |-> PacketBytes(packets[i], type, bpp)]
                ELSE [i \in DOMAIN pixels |-> Encoded(pixels[i], type, bpp)]
      row(o) == IF topleft THEN o \div w ELSE h - 1 - (o \div w)
      data == [i \in 1 .. id |-> 77] \o (IF map THEN MapBytes(entry) ELSE << >>)
  IN  [type |-> type, map |-> map, maplen |-> IF map THEN 3 ELSE 0, entry |-> entry, id |-> id,
       width |-> w, height |-> h, bpp |-> bpp, topleft |-> topleft,
       data |-> data \o FlattenSeq(body),
       packets |->
         IF type \in {9, 10}
           THEN [i \in DOMAIN packets |->
                   [at |-> Len(data) + Len(FlattenSeq(SubSeq(body, 1, i - 1))),
                    first |-> Len(FlattenSeq([j \in 1 .. i - 1 |-> packets[j].pixels]))]]
           ELSE << >>,
       picture |-> [o \in 0 .. w * h - 1 |-> Palette(bits)[pixels[row(o) * w + (o % w) + 1]]]]

Plain4 == <<Raw(<<0, 1, 2, 1>>)>>
Packets4 ==
  {Plain4, <<Rep(4, 1)>>, <<Rep(1, 1), Raw(<<0, 2, 2>>)>>, <<Raw(<<1>>), Rep(3, 2)>>,
   <<Rep(3, 0), Rep(2, 1)>>, <<Raw(<<0, 1, 2>>), Raw(<<2, 0, 1>>)>>, <<Rep(7, 2)>>}
Plain6 == <<Raw(<<0, 1, 2, 2, 1, 0>>)>>
Packets6 == {Plain6, <<Raw(<<2, 1>>), Rep(3, 0), Raw(<<1>>)>>, <<Rep(4, 1), Raw(<<0, 2, 2>>)>>}

Unpacked ==
  {ALogo(1, Plain4, 2, 2, bpp, entry, TRUE, id, t) :
     bpp \in {8, 16}, entry \in {24, 32}, id \in {0, 1}, t \in BOOLEAN}
  \cup {ALogo(2, Plain6, d[1], d[2], bpp, 24, map, 1, t) :
          d \in {<<3, 2>>, <<2, 3>>}, bpp \in {24, 32}, map \in BOOLEAN, t \in BOOLEAN}
PackedLogos ==
  {ALogo(9, p, 2, 2, bpp, entry, TRUE, 0, t) :
     p \in Packets4, bpp \in {8, 16}, entry \in {24, 32}, t \in BOOLEAN}
  \cup {ALogo(10, p, d[1], d[2], bpp, 32, map, 0, t) :
          p \in Packets6, d \in {<<3, 2>>, <<2, 3>>}, bpp \in {24, 32}, map \in BOOLEAN,
          t \in BOOLEAN}

Square(n) == <<Raw([i \in 1 .. n * n |-> (i * i) % 3])>>
GoodLogo == ALogo(9, Plain4, 2, 2, 8, 24, TRUE, 0, TRUE)
Refused ==
  {[GoodLogo EXCEPT !.map = FALSE], [GoodLogo EXCEPT !.entry = 16], [GoodLogo EXCEPT !.type = 3],
   [GoodLogo EXCEPT !.type = 10, !.bpp = 16], [GoodLogo EXCEPT !.type = 2, !.bpp = 16],
   [GoodLogo EXCEPT !.type = 1, !.map = FALSE]}

\* Firmwares: MADTs with the override first, last, twice or not at all, beyond 255 bytes, with
\* a wrong sum; another table; roots of up to two tables; where the pointers are.
Lapic32 == 5
AnEntry(kind, length, address) == [kind |-> kind, length |-> length, address |-> address]
Madt(entries, length, whole, first) ==
  [apic |-> TRUE, length |-> length, whole |-> whole, first |-> first, lapic32 |-> Lapic32,
   entries |-> entries]
None == [i \in {} |-> 0]
Tables1 ==
  {Madt(None, 44, TRUE, TRUE),
   Madt(8 :> AnEntry(0, 8, 9), 52, TRUE, TRUE),
   Madt(8 :> AnEntry(5, 12, 200), 56, TRUE, TRUE),
   Madt((8 :> AnEntry(0, 8, 9)) @@ (16 :> AnEntry(5, 12, 0)), 64, TRUE, TRUE),
   Madt((8 :> AnEntry(5, 12, 255)) @@ (20 :> AnEntry(4, 6, 9)), 62, TRUE, TRUE),
   Madt((8 :> AnEntry(5, 12, 16)) @@ (20 :> AnEntry(5, 12, 17)), 68, TRUE, TRUE),
   Madt(8 :> AnEntry(5, 12, 200), 56, FALSE, FALSE),
   Madt(8 :> AnEntry(1, 212, 9), 256, FALSE, TRUE),
   [Madt(None, 60, TRUE, TRUE) EXCEPT !.apic = FALSE]}
Root(tables, size) == [length |-> 36 + size * Len(tables), entries |-> tables]
ARsdp(revision, tables) ==
  [signature |-> TRUE, sum20 |-> TRUE, sum36 |-> TRUE, revision |-> revision,
   rsdt |-> Root(IF revision = 0 THEN tables ELSE << >>, 4),
   xsdt |-> Root(IF revision = 0 THEN << >> ELSE tables, 8)]

Lists == {<< >>} \cup {<<t>> : t \in Tables1} \cup {<<t, u>> : t, u \in Tables1}
ByTables == {p :> ARsdp(r, l) : p \in {1}, r \in {0, 2}, l \in Lists}

OneMadt(address) == <<Madt(8 :> AnEntry(5, 12, address), 56, TRUE, TRUE)>>
Pointers(address) ==
  LET good == ARsdp(0, OneMadt(address))
      new == ARsdp(2, OneMadt(address))
  IN  {good, new, [good EXCEPT !.sum36 = FALSE], [new EXCEPT !.sum36 = FALSE],
       [good EXCEPT !.sum20 = FALSE], [good EXCEPT !.signature = FALSE]}
ByPlace ==
  {(0 :> p) @@ (2 :> q) : p \in Pointers(20), q \in Pointers(21)}
  \cup {(1 :> p) @@ (3 :> q) : p \in Pointers(22), q \in Pointers(23)}
GoodFirmware == 1 :> ARsdp(2, OneMadt(200))

\* Glyphs of eight bits in two rows.
AFont(magic, flags) ==
  [magic |-> magic, flags |-> flags, width |-> 8, height |-> 2,
   glyphs |-> (109 :> <<{0, 3, 7}, {1}>>) @@ (110 :> <<{2, 5, 6}, {0, 7}>>)]
Psf2 == AFont(TRUE, TRUE)
OldFont == AFont(FALSE, TRUE)
NoTable == AFont(TRUE, FALSE)

AMachine(screen, memory, logo, afont, tables) ==
  [width |-> screen[1], height |-> screen[2], pitch |-> screen[3], memory |-> memory,
   logo |-> logo, font |-> afont, firmware |-> tables]

Small == <<10, 10, 10>>

\* Screens that are wide, high or have lines with padding; on those of 50 the text box and the
\* logo are more than doubled, those of 100 have a frame in each direction.
Screens == {<<20, 10, 20>>, <<10, 20, 12>>, <<33, 12, 35>>}
Large == {<<50, 50, 51>>, <<100, 10, 100>>, <<10, 100, 10>>}

MCMachines ==
  {AMachine(s, Needs, GoodLogo, Psf2, f) : s \in Screens, f \in {GoodFirmware, None}}
  \cup {AMachine(s, Needs, GoodLogo, Psf2, None) : s \in Large}
  \cup {AMachine(<<50, 50, 50>>, Needs, ALogo(2, Square(n), n, n, 24, 24, FALSE, 0, TRUE), OldFont, None) :
          n \in {1, 5, 7}}
  \cup {AMachine(Small, Needs, GoodLogo, f, GoodFirmware) : f \in {OldFont, NoTable}}
  \cup {AMachine(Small, Needs \ {n}, GoodLogo, Psf2, GoodFirmware) : n \in Needs}
  \cup {AMachine(Small, Needs, l, OldFont, None) : l \in Unpacked \cup PackedLogos \cup Refused}
  \cup {AMachine(Small, Needs, GoodLogo, Psf2, f) : f \in ByTables \cup ByPlace}

\* A logo that is wider than high on a screen that more than doubles it.
WideMachines ==
  {AMachine(<<20, 20, 20>>, Needs, ALogo(2, <<Raw(<<0, 1, 2, 1>>)>>, 4, 1, 24, 24, FALSE, 0, TRUE),
            Psf2, GoodFirmware)}

\* A packed logo that is stored from its bottom row on.
BottomMachines ==
  {AMachine(Small, Needs, ALogo(9, Plain4, 2, 2, 8, 24, TRUE, 0, FALSE), Psf2, GoodFirmware)}

\* What is proved of the logo rests on this.
ASSUME LogosEncoded ==
  \A m \in MCMachines \cup WideMachines \cup BottomMachines : Accepted(m.logo) => Encodes(m.logo)

\* And what is proved of the log on these.
ASSUME BuffersFit == BuffersLarge
ASSUME AddressesSmall ==
  \A m \in MCMachines \cup WideMachines \cup BottomMachines : AddressesFit(m.firmware)
=============================================================================
